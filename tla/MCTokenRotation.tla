-------------------------- MODULE MCTokenRotation --------------------------
(* Bounds for TLC: api_replicas containers and devices of one fleet.       *)
EXTENDS TokenRotation, TLC

CONSTANTS c1, c2, d1, d2

MCContainers == {c1, c2}
MCDevices == {d1, d2}
=============================================================================
