----------------------------- MODULE MCQueries -----------------------------
(* Bounds for TLC: six rows, two of them tied, one that the filters leave  *)
(* out, read two at a time; one row older than the window, one without a   *)
(* version, a bucket that the window cuts.                                 *)
EXTENDS Queries, TLC

CONSTANTS e1, e2, e3, e4, e5, e6

MCTs == e1 :> 1 @@ e2 :> 2 @@ e3 :> 3 @@ e4 :> 3 @@ e5 :> 4 @@ e6 :> 2
MCMatching == Events \ {e6}

MCKindOf == e1 :> "crash" @@ e2 :> "error" @@ e3 :> "crash"
            @@ e4 :> "event" @@ e5 :> "metric" @@ e6 :> "crash"

Row(vendor, device, version, id) ==
  [vendor |-> vendor, device_name |-> device, device_version |-> version, device_id |-> id]

MCValue == e1 :> Row("bz", "delay", "1", "d1") @@ e2 :> Row("bz", "delay", "", "d1")
           @@ e3 :> Row("bz", "reverb", "2", "d2") @@ e4 :> Row("bz", "reverb", "2", "d3")
           @@ e5 :> Row("qq", "delay", "2", "d1") @@ e6 :> Row("bz", "delay", "", "d2")
=============================================================================
