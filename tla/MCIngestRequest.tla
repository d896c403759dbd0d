-------------------------- MODULE MCIngestRequest --------------------------
(* Bounds for TLC: bodies of at most MaxTexts texts of every kind, in each *)
(* content type, shape and layout that a client can produce.               *)
EXTENDS IngestRequest, SequencesExt

CONSTANT MaxTexts

MCBodies ==
  {b \in Bodies(SeqOf(Kinds, MaxTexts)) :
     /\ b.array => ~Mentions(b, "blank")
     /\ b.layout = "spread" =>
          \/ b.array /\ b.texts # <<>>
          \/ Len(b.texts) = 1 /\ IsObject(b.texts[1])
     /\ b.oversize => Len(b.texts) = MaxTexts /\ b.layout = "compact"}
=============================================================================
