----------------------------- MODULE MCWorkers -----------------------------
(* Bounds for TLC: three lives of workers, of which two serve at once, and *)
(* three requests, one of each kind.                                       *)
EXTENDS Workers, TLC

CONSTANTS post, get, ready

MCKind == post :> "ingest" @@ get :> "read" @@ ready :> "probe"
=============================================================================
