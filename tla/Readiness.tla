----------------------------- MODULE Readiness -----------------------------
(***************************************************************************)
(* /healthz and /readyz (app/routes/health.py), the probes of              *)
(* k8s/deployment.yaml that call them, and what an outage of the database  *)
(* does to the pods behind the Service.                                    *)
(* Definitions named Operation_What are faulty variants of Operation: each *)
(* shows that a property below would notice the fault.                     *)
(***************************************************************************)
EXTENDS Naturals, FiniteSets

CONSTANTS
  Pods,
  FailureThreshold,   \* failed probes in a row, readiness and liveness alike
  MaxCrashes          \* bound on crashes of the process

ASSUME ThresholdAssumption == FailureThreshold \in Nat \ {0}
ASSUME CrashesAssumption == MaxCrashes \in Nat

VARIABLES
  db,          \* "up", "refusing" connections, or "hanging" (no answer at all)
  pod,         \* the container: "starting" or "running"
  probe,       \* the /readyz request of the kubelet in the pod
  body,        \* what the last answered /readyz said of the database
  misses,      \* readiness probes failed in a row
  inService,   \* the pod is an endpoint of the Service
  liveMisses,  \* liveness probes failed in a row
  crashes      \* crashes left

vars == <<db, pod, probe, body, misses, inService, liveMisses, crashes>>

Init ==
  /\ db \in {"up", "refusing", "hanging"}
  /\ pod = [p \in Pods |-> "starting"]
  /\ probe = [p \in Pods |-> "none"]
  /\ body = [p \in Pods |-> "none"]
  /\ misses = [p \in Pods |-> 0]
  /\ inService = [p \in Pods |-> FALSE]
  /\ liveMisses = [p \in Pods |-> 0]
  /\ crashes = MaxCrashes

(* A kubelet takes 200 <= status < 400 for success.                        *)
Succeeds(status) == 200 <= status /\ status < 400

Observe_Uncapped(p, status) ==
  /\ probe' = [probe EXCEPT ![p] = "none"]
  /\ misses' = [misses EXCEPT ![p] = IF Succeeds(status) THEN 0 ELSE @ + 1]
  /\ inService' = [inService EXCEPT ![p] =
                      Succeeds(status) \/ (@ /\ misses'[p] < FailureThreshold)]

(* The readiness probe has ended, with a status or, 0, with no answer.     *)
Observe(p, status) ==
  /\ probe' = [probe EXCEPT ![p] = "none"]
  /\ IF Succeeds(status)
       THEN /\ misses' = [misses EXCEPT ![p] = 0]
            /\ inService' = [inService EXCEPT ![p] = TRUE]
       ELSE /\ misses' = [misses EXCEPT ![p] =
                            IF @ < FailureThreshold THEN @ + 1 ELSE @]
            /\ inService' = [inService EXCEPT ![p] = @ /\ misses'[p] < FailureThreshold]

SendProbe(p) ==
  /\ pod[p] = "running" /\ probe[p] = "none"
  /\ probe' = [probe EXCEPT ![p] = "checkout"]
  /\ UNCHANGED <<db, pod, body, misses, inService, liveMisses, crashes>>

(* session.execute checks a connection out of the pool, pinging it first.  *)
Checkout(p) ==
  /\ probe[p] = "checkout" /\ db = "up"
  /\ probe' = [probe EXCEPT ![p] = "querying"]
  /\ UNCHANGED <<db, pod, body, misses, inService, liveMisses, crashes>>

(* It gets none: `except Exception` turns that into a body that says so,   *)
(* the COMMIT has no transaction to commit, and the status is 200.         *)
AnswerDegraded(p) ==
  /\ probe[p] = "checkout" /\ db = "refusing"
  /\ body' = [body EXCEPT ![p] = "down"]
  /\ Observe(p, 200)
  /\ UNCHANGED <<db, pod, liveMisses, crashes>>

AnswerOk_Remembers(p) ==
  /\ probe[p] = "querying" /\ db = "up"
  /\ Observe(p, IF body[p] = "down" THEN 503 ELSE 200)
  /\ UNCHANGED <<db, pod, body, liveMisses, crashes>>

AnswerOk(p) ==
  /\ probe[p] = "querying" /\ db = "up"
  /\ body' = [body EXCEPT ![p] = "ok"]
  /\ Observe(p, 200)
  /\ UNCHANGED <<db, pod, liveMisses, crashes>>

(* The connection broke under SELECT 1: that is caught, but the COMMIT of  *)
(* get_session then raises.                                                *)
AnswerBroken(p) ==
  /\ probe[p] = "severed"
  /\ Observe(p, 500)
  /\ UNCHANGED <<db, pod, body, liveMisses, crashes>>

ProbeTimesOut_Caught(p) ==
  /\ probe[p] \in {"checkout", "querying"} /\ db = "hanging"
  /\ Observe(p, 200)
  /\ UNCHANGED <<db, pod, body, liveMisses, crashes>>

(* The kubelet waits one second, shorter than any timeout of the pool.     *)
ProbeTimesOut(p) ==
  /\ probe[p] \in {"checkout", "querying"} /\ db = "hanging"
  /\ Observe(p, 0)
  /\ UNCHANGED <<db, pod, body, liveMisses, crashes>>

(* The lifespan builds the engine, which connects to nothing yet; the      *)
(* startup probe calls /healthz.                                           *)
Startup(p) ==
  /\ pod[p] = "starting"
  /\ pod' = [pod EXCEPT ![p] = "running"]
  /\ UNCHANGED <<db, probe, body, misses, inService, liveMisses, crashes>>

Healthz_AsksDb(p) == IF db = "up" THEN 200 ELSE 503

Healthz(p) == 200

(* The container of p starts afresh.                                       *)
Restart(p) ==
  /\ pod' = [pod EXCEPT ![p] = "starting"]
  /\ probe' = [probe EXCEPT ![p] = "none"]
  /\ misses' = [misses EXCEPT ![p] = 0]
  /\ inService' = [inService EXCEPT ![p] = FALSE]
  /\ liveMisses' = [liveMisses EXCEPT ![p] = 0]

LivenessProbe(p) ==
  /\ pod[p] = "running"
  /\ IF Succeeds(Healthz(p)) \/ liveMisses[p] + 1 < FailureThreshold
       THEN /\ liveMisses' = [liveMisses EXCEPT ![p] =
                                IF Succeeds(Healthz(p)) THEN 0 ELSE @ + 1]
            /\ UNCHANGED <<pod, probe, misses, inService>>
       ELSE Restart(p)
  /\ UNCHANGED <<db, body, crashes>>

Crash(p) ==
  /\ pod[p] = "running" /\ crashes > 0
  /\ crashes' = crashes - 1
  /\ Restart(p)
  /\ UNCHANGED <<db, body>>

(* A database that goes down takes its connections with it; one that only  *)
(* hangs keeps them.                                                       *)
DbChanges(next) ==
  /\ db # next
  /\ ~(db = "refusing" /\ next = "hanging")
  /\ db' = next
  /\ probe' = [p \in Pods |->
                 IF next = "refusing" /\ probe[p] = "querying" THEN "severed" ELSE probe[p]]
  /\ UNCHANGED <<pod, body, misses, inService, liveMisses, crashes>>

ServesProbe(p) ==
  Checkout(p) \/ AnswerDegraded(p) \/ AnswerOk(p) \/ AnswerBroken(p) \/ ProbeTimesOut(p)

Next ==
  \/ \E p \in Pods : \/ SendProbe(p) \/ ServesProbe(p)
                     \/ Startup(p) \/ LivenessProbe(p) \/ Crash(p)
  \/ \E next \in {"up", "refusing", "hanging"} : DbChanges(next)

(* Kubelets probe for ever and containers start; the database does what it *)
(* likes.                                                                  *)
Fairness ==
  \A p \in Pods : WF_vars(SendProbe(p)) /\ WF_vars(ServesProbe(p)) /\ WF_vars(Startup(p))

Spec == Init /\ [][Next]_vars /\ Fairness
-----------------------------------------------------------------------------
TypeOK ==
  /\ db \in {"up", "refusing", "hanging"}
  /\ pod \in [Pods -> {"starting", "running"}]
  /\ probe \in [Pods -> {"none", "checkout", "querying", "severed"}]
  /\ body \in [Pods -> {"none", "ok", "down"}]
  /\ misses \in [Pods -> 0..FailureThreshold]
  /\ inService \in [Pods -> BOOLEAN]
  /\ liveMisses \in [Pods -> 0..FailureThreshold]
  /\ crashes \in 0..MaxCrashes

(* An outage alone never restarts a container: only a crash does           *)
(* (health.py:16-19, deployment.yaml:82-85).                               *)
OutageRestartsNothing ==
  [][\A p \in Pods :
       pod[p] = "running" /\ pod'[p] = "starting" => crashes' < crashes]_vars

(* A pod comes up and, once the database stays up, joins the Service and   *)
(* stays in it, whatever happened before.                                  *)
RecoveryRestoresService ==
  <>[](db = "up") => <>[](\A p \in Pods : inService[p])

(* A database that stays silent takes every pod out of the Service.        *)
SilenceLeavesService ==
  <>[](db = "hanging") => <>[](\A p \in Pods : ~inService[p])

(* "/readyz runs SELECT 1 so a DB outage takes the pod *out of the         *)
(* Service*" (ARCHITECTURE.md:130-131, health.py:26).                      *)
OutageLeavesService ==
  <>[](db = "refusing") => <>[](\A p \in Pods : ~inService[p])
=============================================================================
