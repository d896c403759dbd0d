------------------------------ MODULE MCIngest ------------------------------
(* Bounds for TLC: the batches a run chooses from, and what they contain.  *)
EXTENDS Ingest, TLC

CONSTANTS
  mixed,       \* two storable events around one that fails validation
  single,      \* one storable event
  allBad,      \* nothing but soft errors
  tooMany,     \* more objects than the cap of the cfg files
  typeError,   \* a good event and one whose props is no object
  unstorable   \* a good event and one PostgreSQL refuses

TextsOf(b) ==
  CASE b = mixed      -> <<"good", "invalid", "good">>
    [] b = single     -> <<"good">>
    [] b = allBad     -> <<"broken", "invalid">>
    [] b = tooMany    -> <<"good", "good", "good", "good">>
    [] b = typeError  -> <<"good", "typeError">>
    [] b = unstorable -> <<"good", "unstorable">>

MCContent ==
  [b \in Batches |-> [ndjson |-> TRUE, array |-> FALSE, texts |-> TextsOf(b),
                      layout |-> "compact", oversize |-> FALSE]]

RequestSymmetry == Permutations(Requests)
=============================================================================
