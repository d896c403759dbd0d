---------------------------- MODULE IngestBatch ----------------------------
(***************************************************************************)
(* The body of one POST /v1/events request and what app/routes/events.py   *)
(* makes of it before the database is involved: which of its texts become  *)
(* objects, which objects become rows, and which bodies are refused as a    *)
(* whole.  A text is abstracted to the one thing the handler tells apart:  *)
(* how far it gets.                                                        *)
(***************************************************************************)
EXTENDS Naturals, Sequences, FiniteSets

CONSTANT MaxEvents      \* settings.max_events_per_request (config.py:64)

ASSUME MaxEventsAssumption == MaxEvents \in Nat

(***************************************************************************)
(* How far a text of the body gets.                                        *)
(*   "blank"       whitespace only                                         *)
(*   "broken"      orjson refuses it                                       *)
(*   "null"        JSON null                                               *)
(*   "scalar"      any other JSON that is not an object                    *)
(*   "invalid"     an object on which IngestEvent raises ValidationError   *)
(*   "typeError"   an object whose props make coerce_props raise TypeError *)
(*   "unstorable"  passes IngestEvent, but PostgreSQL refuses the row      *)
(*                 (ts_ms beyond BIGINT, a NUL character in a text)        *)
(*   "good"        becomes a row                                           *)
(***************************************************************************)
Kinds == {"blank", "broken", "null", "scalar", "invalid", "typeError", "unstorable", "good"}

IsObject(kind) == kind \in {"invalid", "typeError", "unstorable", "good"}
IsNoise(kind)  == kind \in {"broken", "null", "scalar"}
PassesModel(kind) == kind \in {"unstorable", "good"}

(***************************************************************************)
(* A body: the content type it claims, whether it is one JSON array, its   *)
(* texts, how they are laid out over lines, and whether it has more than   *)
(* settings.max_body_bytes bytes.                                          *)
(*   "compact"   no newline but those between the texts of an ndjson body  *)
(*   "trailing"  compact, with a newline at the end                        *)
(*   "spread"    an array with one element per line, or an object          *)
(*               pretty-printed over several lines                         *)
(***************************************************************************)
Bodies(Texts) == [ndjson : BOOLEAN, array : BOOLEAN, texts : Texts,
                  layout : {"compact", "trailing", "spread"}, oversize : BOOLEAN]

HasNewline(body) == \/ body.layout # "compact"
                    \/ ~body.array /\ Len(body.texts) > 1

TakesLines(body) == body.ndjson \/ HasNewline(body)

Mentions(body, kind) == \E i \in DOMAIN body.texts : body.texts[i] = kind

(***************************************************************************)
(* The lines raw.splitlines() yields.  An array is one line, or, spread,   *)
(* an opening bracket, its elements with a comma after each but the last,  *)
(* and a closing bracket; a pretty-printed object is fragments.            *)
(***************************************************************************)
Lines(body) ==
  CASE body.array /\ body.layout # "spread" ->
         IF Mentions(body, "broken") THEN <<"broken">> ELSE <<"scalar">>
    [] body.array /\ body.layout = "spread" ->
         <<"broken">>
           \o [i \in DOMAIN body.texts |->
                 IF i = Len(body.texts) THEN body.texts[i] ELSE "broken"]
           \o <<"broken">>
    [] ~body.array /\ body.layout = "spread" -> <<"broken", "broken">>
    [] OTHER -> body.texts

(* The one-document reading: orjson.loads(raw or b"null").                 *)
Undecodable(body) ==
  \/ Mentions(body, "broken")
  \/ ~body.array /\ \E i \in DOMAIN body.texts : body.texts[i] \in {"blank", "scalar"}

IsNull(body) == ~body.array /\ body.texts = <<"null">>

(* The texts the chosen branch goes through, one by one: none where the    *)
(* document is null.                                                       *)
Texts(body) == IF TakesLines(body) THEN Lines(body)
               ELSE IF IsNull(body) THEN <<>> ELSE body.texts

(* Those of the first n texts of s that are of some kinds, in their order: *)
(* the j-th is the one that has j of them up to it.                        *)
Kept(s, kinds, n) ==
  LET K == {i \in 1..n : s[i] \in kinds}
  IN [j \in 1..Cardinality(K) |-> s[CHOOSE i \in K : Cardinality({k \in K : k <= i}) = j]]

Objects(body) == Kept(Texts(body), {k \in Kinds : IsObject(k)}, Len(Texts(body)))
Rows(body)    == Kept(Objects(body), {k \in Kinds : PassesModel(k)}, Len(Objects(body)))

(***************************************************************************)
(* The status with which the handler refuses the whole body before it      *)
(* touches the database, 0 if it does not.  A TypeError is not caught by   *)
(* `except ValidationError` and ends the request with a 500.               *)
(***************************************************************************)
Refusal(body) ==
  IF body.oversize THEN 413
  ELSE IF ~TakesLines(body) /\ Undecodable(body) THEN 422
  ELSE IF Len(Objects(body)) > MaxEvents THEN 413
  ELSE IF \E i \in DOMAIN Objects(body) : Objects(body)[i] = "typeError" THEN 500
  ELSE 0

(* PostgreSQL refuses the INSERT, and with it every row of the batch.      *)
DbRefuses(body) == \E i \in DOMAIN Rows(body) : Rows(body)[i] = "unstorable"

(* A body the API answers with 500 whenever it is sent.                    *)
Poisoned(body) == Refusal(body) = 500 \/ (Refusal(body) = 0 /\ DbRefuses(body))
=============================================================================
