-------------------------- MODULE ReadinessProofs --------------------------
(***************************************************************************)
(* Proofs about Readiness, for any number of pods and crashes and any      *)
(* threshold.                                                              *)
(***************************************************************************)
EXTENDS Readiness, TLAPS

-----------------------------------------------------------------------------
(* The liveness probe never fails: /healthz asks nobody.  A pod that has   *)
(* missed too many probes is not in the Service, one that has answered is, *)
(* and a container that starts has no probe under way.                     *)
IInv ==
  /\ TypeOK
  /\ \A p \in Pods :
       /\ liveMisses[p] = 0
       /\ misses[p] = FailureThreshold => ~inService[p]
       /\ pod[p] = "starting" => probe[p] = "none" /\ ~inService[p]
       /\ probe[p] = "querying" => db # "refusing"

LEMMA InitIInv ==
  ASSUME Init
  PROVE  IInv
  BY ThresholdAssumption, CrashesAssumption DEF Init, IInv, TypeOK

(* The end of a readiness probe.                                           *)
LEMMA ObserveKeeps ==
  ASSUME IInv, NEW p \in Pods, NEW status \in {0, 200, 500}, Observe(p, status),
         probe[p] # "none",
         UNCHANGED <<db, pod, liveMisses, crashes>>,
         body' \in [Pods -> {"none", "ok", "down"}]
  PROVE  IInv'
<1> USE ThresholdAssumption DEF IInv, TypeOK
<1>1. CASE Succeeds(status)
  <2>1. /\ probe' = [probe EXCEPT ![p] = "none"]
        /\ misses' = [misses EXCEPT ![p] = 0]
        /\ inService' = [inService EXCEPT ![p] = TRUE]
    BY <1>1 DEF Observe
  <2>2. pod[p] = "running"
    OBVIOUS
  <2>3. TypeOK'
    BY <2>1
  <2>4. QED
    BY <2>1, <2>2, <2>3
<1>2. CASE ~Succeeds(status)
  <2>1. /\ probe' = [probe EXCEPT ![p] = "none"]
        /\ misses' = [misses EXCEPT ![p] = IF @ < FailureThreshold THEN @ + 1 ELSE @]
        /\ inService' = [inService EXCEPT ![p] = @ /\ misses'[p] < FailureThreshold]
    BY <1>2 DEF Observe
  <2>2. inService'[p] \in BOOLEAN /\ (inService'[p] => misses'[p] < FailureThreshold)
    <3>1. inService'[p] = (inService[p] /\ misses'[p] < FailureThreshold)
      BY <2>1
    <3>2. QED
      BY <3>1
  <2>3. misses'[p] \in 0..FailureThreshold
    BY <2>1
  <2>4. inService' \in [Pods -> BOOLEAN] /\ \A q \in Pods \ {p} : inService'[q] = inService[q]
    BY <2>1, <2>2
  <2>5. inService'[p] => inService[p]
    BY <2>1
  <2>6. TypeOK'
    BY <2>1, <2>3, <2>4
  <2>7. QED
    BY <2>1, <2>2, <2>3, <2>4, <2>5, <2>6
<1>3. QED
  BY <1>1, <1>2

LEMMA ServesProbeKeeps ==
  ASSUME IInv, NEW p \in Pods, ServesProbe(p)
  PROVE  IInv'
<1>1. CASE Checkout(p)
  BY <1>1 DEF Checkout, IInv, TypeOK
<1>2. CASE AnswerDegraded(p)
  BY <1>2, ObserveKeeps DEF AnswerDegraded, IInv, TypeOK
<1>3. CASE AnswerOk(p)
  BY <1>3, ObserveKeeps DEF AnswerOk, IInv, TypeOK
<1>4. CASE AnswerBroken(p)
  BY <1>4, ObserveKeeps DEF AnswerBroken, IInv, TypeOK
<1>5. CASE ProbeTimesOut(p)
  BY <1>5, ObserveKeeps DEF ProbeTimesOut, IInv, TypeOK
<1>6. QED
  BY <1>1, <1>2, <1>3, <1>4, <1>5 DEF ServesProbe

(* The liveness probe finds the pod alive, whatever the database does.     *)
LEMMA LivenessProbeIdles ==
  ASSUME IInv, NEW p \in Pods, LivenessProbe(p)
  PROVE  UNCHANGED vars
<1>1. Succeeds(Healthz(p))
  BY DEF Succeeds, Healthz
<1>2. liveMisses' = liveMisses
  BY <1>1 DEF LivenessProbe, IInv, TypeOK
<1>3. QED
  BY <1>1, <1>2 DEF LivenessProbe, vars

LEMMA NextIInv ==
  ASSUME IInv, [Next]_vars
  PROVE  IInv'
<1> USE ThresholdAssumption, CrashesAssumption
<1>1. ASSUME NEW p \in Pods, SendProbe(p) \/ Startup(p) PROVE IInv'
  BY <1>1 DEF SendProbe, Startup, IInv, TypeOK
<1>2. ASSUME NEW p \in Pods, ServesProbe(p) PROVE IInv'
  BY <1>2, ServesProbeKeeps
<1>3. ASSUME NEW p \in Pods, Crash(p) PROVE IInv'
  BY <1>3 DEF Crash, Restart, IInv, TypeOK
<1>4. ASSUME NEW next \in {"up", "refusing", "hanging"}, DbChanges(next) PROVE IInv'
  BY <1>4 DEF DbChanges, IInv, TypeOK
<1>5. CASE UNCHANGED vars
  BY <1>5 DEF vars, IInv, TypeOK
<1>6. QED
  BY <1>1, <1>2, <1>3, <1>4, <1>5, LivenessProbeIdles DEF Next

(* Liveness probes never fail, and the Service and the probes agree, in    *)
(* every reachable state (health.py:16-37, deployment.yaml:74-85).         *)
THEOREM ReadinessInvariance == Spec => []IInv
<1>1. Init => IInv
  BY InitIInv
<1>2. IInv /\ [Next]_vars => IInv'
  BY NextIInv
<1>3. QED
  BY <1>1, <1>2, PTL DEF Spec

(* Every variable keeps its type.                                          *)
THEOREM ReadinessTypeCorrect == Spec => []TypeOK
<1>1. IInv => TypeOK
  BY DEF IInv
<1>2. QED
  BY <1>1, ReadinessInvariance, PTL

(* Whatever the database does, only a crash restarts a container           *)
(* (health.py:16-19, deployment.yaml:82-85).                               *)
THEOREM OutageNeverRestarts == Spec => OutageRestartsNothing
<1>1. ASSUME IInv, [Next]_vars
      PROVE  \A p \in Pods : pod[p] = "running" /\ pod'[p] = "starting" => crashes' < crashes
  <2> SUFFICES ASSUME NEW p \in Pods, pod[p] = "running", pod'[p] = "starting"
               PROVE  crashes' < crashes
    OBVIOUS
  <2>1. pod' # pod
    OBVIOUS
  <2>2. PICK q \in Pods : Startup(q) \/ Crash(q)
    <3>1. ASSUME NEW q \in Pods, SendProbe(q) \/ ServesProbe(q) PROVE pod' = pod
      BY <3>1
      DEF SendProbe, ServesProbe, Checkout, AnswerDegraded, AnswerOk, AnswerBroken, ProbeTimesOut
    <3>2. ASSUME NEW q \in Pods, LivenessProbe(q) PROVE pod' = pod
      BY <1>1, <3>2, LivenessProbeIdles DEF vars
    <3>3. ASSUME NEW next \in {"up", "refusing", "hanging"}, DbChanges(next) PROVE pod' = pod
      BY <3>3 DEF DbChanges
    <3>4. QED
      BY <1>1, <2>1, <3>1, <3>2, <3>3 DEF Next, vars
  <2>3. ~Startup(q)
    BY <1>1, <2>2 DEF Startup, IInv, TypeOK
  <2>4. QED
    BY <1>1, <2>2, <2>3, CrashesAssumption DEF Crash, IInv, TypeOK
<1>2. QED
  BY <1>1, ReadinessInvariance, PTL DEF Spec, OutageRestartsNothing
=============================================================================
