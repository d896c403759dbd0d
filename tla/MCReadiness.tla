---------------------------- MODULE MCReadiness ----------------------------
(* Bounds for TLC: two pods, the baseline of k8s/deployment.yaml:10-11.    *)
EXTENDS Readiness, TLC

CONSTANTS podA, podB

MCPods == {podA, podB}
=============================================================================
