------------------------------ MODULE Workers ------------------------------
(***************************************************************************)
(* The uvicorn worker processes of app/main.py and what their requests     *)
(* share: the engine of app/db.py with its connection pool, and the        *)
(* connections PostgreSQL allows all of them together.  A worker is one    *)
(* life of a process; Kubernetes bounds how many serve at once, those it   *)
(* is draining not included.                                               *)
(* Definitions named Operation_What are faulty variants of Operation: each *)
(* shows that a property below would notice the fault.                     *)
(***************************************************************************)
EXTENDS Naturals, FiniteSets, Functions

CONSTANTS
  Workers,
  Requests,
  Nobody,          \* no worker
  Kind,            \* of each request: "ingest", "read" or "probe" (/readyz)
  PoolSize,        \* pool_size
  MaxOverflow,     \* max_overflow
  MaxServing,      \* maxReplicas + maxSurge
  MaxConnections   \* PostgreSQL: max_connections

ASSUME SetsAssumption ==
  IsFiniteSet(Workers) /\ IsFiniteSet(Requests) /\ Nobody \notin Workers
ASSUME KindAssumption == Kind \in [Requests -> {"ingest", "read", "probe"}]
ASSUME PoolAssumption == PoolSize \in Nat \ {0} /\ MaxOverflow \in Nat
(* hpa.yaml:11-12, deployment.yaml:15, cluster.yaml:77: (8 + 1) * 10 < 100 *)
ASSUME CapacityAssumption ==
  /\ MaxServing \in Nat \ {0} /\ MaxConnections \in Nat
  /\ MaxServing * PoolSize <= MaxConnections

VARIABLES
  worker,    \* process: "new", "serving", "draining" after SIGTERM, "gone"
  slots,     \* pool: connection records, QueuePool's own count
  idle,      \* pool: those at rest whose connection is good
  stale,     \* pool: those at rest whose connection is gone
  server,    \* the worker that has a request
  stage,     \* how far the request is
  conn,      \* the connection its session holds: "none", "live" or "dead"
  dbUp       \* PostgreSQL is there

poolVars    == <<slots, idle, stale>>
requestVars == <<server, stage, conn>>
vars == <<worker, poolVars, requestVars, dbUp>>

(***************************************************************************)
(* "uploading"  awaits request.body()                                      *)
(* "asking"     awaits a connection for the first statement of its session *)
(* "querying"   awaits a statement or the COMMIT                           *)
(* "replying"   the response is on its way to the client                   *)
(* "over"       sent, or the process has died                              *)
(***************************************************************************)
Stages == {"idle", "uploading", "asking", "querying", "replying", "over"}

Init ==
  /\ worker = [w \in Workers |-> "new"]
  /\ slots = [w \in Workers |-> 0]
  /\ idle = [w \in Workers |-> 0]
  /\ stale = [w \in Workers |-> 0]
  /\ server = [r \in Requests |-> Nobody]
  /\ stage = [r \in Requests |-> "idle"]
  /\ conn = [r \in Requests |-> "none"]
  /\ dbUp \in BOOLEAN

Serving == {w \in Workers : worker[w] = "serving"}

Holders(w) == {r \in Requests : server[r] = w /\ conn[r] # "none"}
Live(w) == {r \in Requests : server[r] = w /\ conn[r] = "live"}

(* Connections PostgreSQL has open, for one worker and for all.            *)
OpenBy(w) == idle[w] + Cardinality(Live(w))
InUse == SumFunction(idle) + Cardinality({r \in Requests : conn[r] = "live"})

CanConnect == dbUp /\ InUse < MaxConnections
-----------------------------------------------------------------------------
(* The life of a process.                                                  *)

(* The lifespan builds the engine and its empty pool before any request.   *)
(* The HPA and the rollout start no pod beyond MaxServing.                 *)
Start(w) ==
  /\ worker[w] = "new" /\ Cardinality(Serving) < MaxServing
  /\ worker' = [worker EXCEPT ![w] = "serving"]
  /\ UNCHANGED <<poolVars, requestVars, dbUp>>

(* SIGTERM: no request is accepted any more.                               *)
Terminate(w) ==
  /\ worker[w] = "serving"
  /\ worker' = [worker EXCEPT ![w] = "draining"]
  /\ UNCHANGED <<poolVars, requestVars, dbUp>>

(* Once the requests are through, the lifespan ends with dispose_engine,   *)
(* which closes the connections that are at rest in the pool.              *)
Dispose(w) ==
  /\ worker[w] = "draining"
  /\ \A r \in Requests : server[r] # w
  /\ worker' = [worker EXCEPT ![w] = "gone"]
  /\ slots' = [slots EXCEPT ![w] = @ - (idle[w] + stale[w])]
  /\ idle' = [idle EXCEPT ![w] = 0] /\ stale' = [stale EXCEPT ![w] = 0]
  /\ UNCHANGED <<requestVars, dbUp>>

(* A crash, or SIGKILL after terminationGracePeriodSeconds.                *)
Kill(w) ==
  /\ worker[w] \in {"serving", "draining"}
  /\ worker' = [worker EXCEPT ![w] = "gone"]
  /\ slots' = [slots EXCEPT ![w] = 0]
  /\ idle' = [idle EXCEPT ![w] = 0] /\ stale' = [stale EXCEPT ![w] = 0]
  /\ stage' = [r \in Requests |-> IF server[r] = w THEN "over" ELSE stage[r]]
  /\ conn' = [r \in Requests |-> IF server[r] = w THEN "none" ELSE conn[r]]
  /\ server' = [r \in Requests |-> IF server[r] = w THEN Nobody ELSE server[r]]
  /\ UNCHANGED dbUp
-----------------------------------------------------------------------------
(* How a request ends.                                                     *)

(* With a response of any status, an exception's 500 included.             *)
Answer(r) == stage' = [stage EXCEPT ![r] = "replying"]

(* Of one that holds no connection, because it needs none or because there *)
(* is none to have; readyz catches that exception and answers 200.         *)
NoConnection(r) ==
  /\ Answer(r)
  /\ UNCHANGED <<worker, poolVars, server, conn, dbUp>>

Release_KeepsOverflow(r) ==
  LET w == server[r]
  IN /\ conn' = [conn EXCEPT ![r] = "none"]
     /\ idle' = [idle EXCEPT ![w] = IF conn[r] = "live" THEN @ + 1 ELSE @]
     /\ stale' = [stale EXCEPT ![w] = IF conn[r] = "dead" THEN @ + 1 ELSE @]
     /\ UNCHANGED slots

(* Closing the session returns its connection: the pool keeps up to        *)
(* PoolSize and closes the others.                                         *)
Release(r) ==
  LET w == server[r]
      keeps == idle[w] + stale[w] < PoolSize
  IN /\ conn' = [conn EXCEPT ![r] = "none"]
     /\ slots' = [slots EXCEPT ![w] = IF keeps THEN @ ELSE @ - 1]
     /\ idle' = [idle EXCEPT ![w] = IF keeps /\ conn[r] = "live" THEN @ + 1 ELSE @]
     /\ stale' = [stale EXCEPT ![w] = IF keeps /\ conn[r] = "dead" THEN @ + 1 ELSE @]
-----------------------------------------------------------------------------
(* A request, from its arrival to its answer.                              *)

(* Only ingest_events reads a body.  get_session has opened a session,     *)
(* which takes no connection before its first statement.                   *)
Arrive(r, w) ==
  /\ stage[r] = "idle" /\ worker[w] = "serving"
  /\ server' = [server EXCEPT ![r] = w]
  /\ stage' = [stage EXCEPT ![r] = IF Kind[r] = "ingest" THEN "uploading" ELSE "asking"]
  /\ UNCHANGED <<worker, poolVars, conn, dbUp>>

BodyArrives(r) ==
  /\ stage[r] = "uploading"
  /\ stage' = [stage EXCEPT ![r] = "asking"]
  /\ UNCHANGED <<worker, poolVars, server, conn, dbUp>>

(* The handler is done without a statement: the client goes away while it  *)
(* uploads, no token, a batch that is refused or empty, an event id that   *)
(* is no UUID, or an event whose props make the validation raise a         *)
(* TypeError that nothing catches.                                         *)
AnswerWithoutDb(r) ==
  /\ stage[r] \in {"uploading", "asking"} /\ Kind[r] # "probe"
  /\ NoConnection(r)

GotConnection(r) ==
  /\ conn' = [conn EXCEPT ![r] = "live"]
  /\ stage' = [stage EXCEPT ![r] = "querying"]
  /\ UNCHANGED <<worker, server, dbUp>>

(* A pooled connection answers the ping.                                   *)
TakeIdle(r) ==
  /\ stage[r] = "asking" /\ idle[server[r]] > 0
  /\ idle' = [idle EXCEPT ![server[r]] = @ - 1]
  /\ GotConnection(r)
  /\ UNCHANGED <<slots, stale>>

(* It does not, after a restart of PostgreSQL: a new one takes its place.  *)
ReplaceStale(r) ==
  /\ stage[r] = "asking" /\ stale[server[r]] > 0
  /\ CanConnect
  /\ stale' = [stale EXCEPT ![server[r]] = @ - 1]
  /\ GotConnection(r)
  /\ UNCHANGED <<slots, idle>>

Exhausted(w) == idle[w] + stale[w] = 0 /\ slots[w] >= PoolSize + MaxOverflow

MayOpen(w) == idle[w] + stale[w] = 0 /\ slots[w] < PoolSize + MaxOverflow

Open(r) ==
  /\ stage[r] = "asking" /\ MayOpen(server[r])
  /\ CanConnect
  /\ slots' = [slots EXCEPT ![server[r]] = @ + 1]
  /\ GotConnection(r)
  /\ UNCHANGED <<idle, stale>>

(* The database is away or has no connection left; the pool gets its       *)
(* record back as it was.                                                  *)
ConnectFails(r) ==
  /\ stage[r] = "asking"
  /\ stale[server[r]] > 0 \/ MayOpen(server[r])
  /\ ~CanConnect
  /\ NoConnection(r)

(* QueuePool waits for a connection for 30 seconds.                        *)
CheckoutTimesOut(r) ==
  /\ stage[r] = "asking" /\ Exhausted(server[r])
  /\ NoConnection(r)

Finish_ForgetsClose(r) ==
  /\ stage[r] = "querying" /\ conn[r] = "live"
  /\ Answer(r)
  /\ UNCHANGED <<worker, poolVars, conn, server, dbUp>>

(* The handler returns, or raises a 404; get_session commits, or rolls     *)
(* back, and closes the session, all before the response goes out.         *)
Finish(r) ==
  /\ stage[r] = "querying" /\ conn[r] = "live"
  /\ Release(r)
  /\ Answer(r)
  /\ UNCHANGED <<worker, server, dbUp>>

Fail_Leaks(r) ==
  /\ stage[r] = "querying"
  /\ conn[r] = "dead" \/ Kind[r] # "probe"
  /\ conn' = [conn EXCEPT ![r] = "none"]
  /\ Answer(r)
  /\ UNCHANGED <<worker, poolVars, server, dbUp>>

(* The connection broke, or PostgreSQL refuses a row that is stored or a   *)
(* filter that is asked for (a NUL, an offset beyond bigint): rolled back, *)
(* closed, raised again.                                                   *)
Fail(r) ==
  /\ stage[r] = "querying"
  /\ conn[r] = "dead" \/ Kind[r] # "probe"
  /\ Release(r)
  /\ Answer(r)
  /\ UNCHANGED <<worker, server, dbUp>>

Sent(r) ==
  /\ stage[r] = "replying"
  /\ stage' = [stage EXCEPT ![r] = "over"]
  /\ server' = [server EXCEPT ![r] = Nobody]
  /\ UNCHANGED <<worker, poolVars, conn, dbUp>>
-----------------------------------------------------------------------------
DbStops ==
  /\ dbUp /\ dbUp' = FALSE
  /\ stale' = [w \in Workers |-> stale[w] + idle[w]]
  /\ idle' = [w \in Workers |-> 0]
  /\ conn' = [r \in Requests |-> IF conn[r] = "live" THEN "dead" ELSE conn[r]]
  /\ UNCHANGED <<worker, slots, server, stage>>

DbStarts ==
  /\ ~dbUp /\ dbUp' = TRUE
  /\ UNCHANGED <<worker, poolVars, requestVars>>

Checkout(r) == TakeIdle(r) \/ ReplaceStale(r) \/ Open(r) \/ ConnectFails(r)

Next ==
  \/ \E w \in Workers : Start(w) \/ Terminate(w) \/ Dispose(w) \/ Kill(w)
  \/ \E r \in Requests : \/ \E w \in Workers : Arrive(r, w)
                         \/ BodyArrives(r) \/ AnswerWithoutDb(r)
                         \/ Checkout(r) \/ CheckoutTimesOut(r)
                         \/ Finish(r) \/ Fail(r) \/ Sent(r)
  \/ DbStops \/ DbStarts

SafeSpec == Init /\ [][Next]_vars

(* The event loop hands free connections out, and PostgreSQL answers what  *)
(* it is asked.  Clients may be as slow as they like, and nobody has to    *)
(* wait for the 30 seconds to pass.                                        *)
Fairness ==
  \A r \in Requests : WF_vars(Checkout(r)) /\ WF_vars(Finish(r) \/ Fail(r))

Spec == SafeSpec /\ Fairness
-----------------------------------------------------------------------------
TypeOK ==
  /\ worker \in [Workers -> {"new", "serving", "draining", "gone"}]
  /\ slots \in [Workers -> 0..(PoolSize + MaxOverflow)]
  /\ idle \in [Workers -> 0..PoolSize]
  /\ stale \in [Workers -> 0..PoolSize]
  /\ server \in [Requests -> Workers \cup {Nobody}]
  /\ stage \in [Requests -> Stages]
  /\ conn \in [Requests -> {"none", "live", "dead"}]
  /\ dbUp \in BOOLEAN

(* Every record of a pool is at rest in it or held by exactly one request  *)
(* that is in the database: no exit of session_scope loses one, whether by *)
(* return, HTTPException, broken connection or a worker that ends, which   *)
(* leaves no connection behind (db.py:64-70, db.py:84-90).                 *)
NoConnectionLeaks ==
  \A w \in Workers :
    /\ slots[w] = idle[w] + stale[w] + Cardinality(Holders(w))
    /\ \A r \in Holders(w) : stage[r] = "querying" /\ worker[w] \in {"serving", "draining"}
    /\ worker[w] \in {"new", "gone"} => slots[w] = 0

(* A serving worker that has fewer than PoolSize connections open is       *)
(* refused another by PostgreSQL only while some worker is in its overflow *)
(* for a request that is in the database, or while one is being drained    *)
(* that still keeps connections: what the pools of the others keep at rest *)
(* never starves it (db.py:50-51, 64-70, cluster.yaml:77).                 *)
RefusedOnlyInOverflow ==
  \A r \in Requests :
    /\ stage[r] = "asking" /\ worker[server[r]] = "serving"
    /\ OpenBy(server[r]) < PoolSize /\ dbUp /\ ~CanConnect
    => \E w \in Workers :
         \/ OpenBy(w) > PoolSize /\ Live(w) # {}
         \/ OpenBy(w) > 0 /\ worker[w] = "draining"

(* A request that needs a connection is answered whatever the clients of   *)
(* other requests do: none is held while a body is awaited or a response   *)
(* sent (db.py:79-96, events.py:82).                                       *)
SlowClientsStarveNobody ==
  \A r \in Requests : stage[r] = "asking" ~> stage[r] \in {"replying", "over"}
=============================================================================
