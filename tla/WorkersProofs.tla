--------------------------- MODULE WorkersProofs ---------------------------
(***************************************************************************)
(* Proofs about Workers, for any number of workers and requests and any    *)
(* size of the pool.                                                       *)
(***************************************************************************)
EXTENDS Workers, Sums

-----------------------------------------------------------------------------
(* The inductive invariant, in parts.                                      *)

Types ==
  /\ worker \in [Workers -> {"new", "serving", "draining", "gone"}]
  /\ slots \in [Workers -> Nat]
  /\ idle \in [Workers -> Nat]
  /\ stale \in [Workers -> Nat]
  /\ server \in [Requests -> Workers \cup {Nobody}]
  /\ stage \in [Requests -> Stages]
  /\ conn \in [Requests -> {"none", "live", "dead"}]
  /\ dbUp \in BOOLEAN

(* A request that is under way has a worker that runs; it has a connection *)
(* while it is in the database and only then.                              *)
Places ==
  \A r \in Requests :
    /\ stage[r] \in {"uploading", "asking", "querying", "replying"} =>
         server[r] \in Workers /\ worker[server[r]] \in {"serving", "draining"}
    /\ stage[r] \in {"idle", "over"} => server[r] = Nobody
    /\ stage[r] = "querying" <=> conn[r] # "none"

Limits ==
  \A w \in Workers :
    /\ slots[w] <= PoolSize + MaxOverflow
    /\ idle[w] + stale[w] <= PoolSize
    /\ worker[w] \in {"new", "gone"} => slots[w] = 0 /\ idle[w] = 0 /\ stale[w] = 0

Accounts == \A w \in Workers : slots[w] = idle[w] + stale[w] + Cardinality(Holders(w))

Capacity == Cardinality(Serving) <= MaxServing

Parts == Types /\ Places /\ Limits /\ Accounts /\ Capacity
-----------------------------------------------------------------------------
(* Counting.                                                               *)

LEMMA Empty == Cardinality({}) = 0
  BY FS_EmptySet

LEMMA OneMore ==
  ASSUME NEW S, NEW T, NEW x, IsFiniteSet(S), x \notin S, T = S \cup {x}
  PROVE  Cardinality(T) = Cardinality(S) + 1 /\ Cardinality(S) \in Nat
  BY FS_AddElement, FS_CardinalityType

LEMMA OneLess ==
  ASSUME NEW S, NEW T, NEW x, IsFiniteSet(S), x \in S, T = S \ {x}
  PROVE  /\ Cardinality(T) = Cardinality(S) - 1
         /\ Cardinality(S) \in Nat /\ Cardinality(T) \in Nat
  BY FS_RemoveElement, FS_CardinalityType

LEMMA FiniteSubsets ==
  ASSUME NEW w
  PROVE  IsFiniteSet(Holders(w)) /\ Cardinality(Holders(w)) \in Nat
<1>1. Holders(w) \subseteq Requests
  BY DEF Holders
<1>2. IsFiniteSet(Requests)
  BY SetsAssumption
<1>3. QED
  BY <1>1, <1>2, FS_Subset, FS_CardinalityType

LEMMA ServingIsFinite ==
  IsFiniteSet(Serving) /\ Cardinality(Serving) \in Nat
<1>1. Serving \subseteq Workers /\ IsFiniteSet(Workers)
  BY SetsAssumption DEF Serving
<1>2. QED
  BY <1>1, FS_Subset, FS_CardinalityType

(* No worker starts to serve.                                              *)
LEMMA FewerServe ==
  ASSUME Capacity, Serving' \subseteq Serving
  PROVE  Capacity'
<1>1. Cardinality(Serving') <= Cardinality(Serving)
  BY ServingIsFinite, FS_Subset
<1>2. Cardinality(Serving') \in Nat
  BY ServingIsFinite, FS_Subset, FS_CardinalityType
<1>3. QED
  BY <1>1, <1>2, ServingIsFinite, CapacityAssumption DEF Capacity

LEMMA SameCapacity ==
  ASSUME Capacity, worker' = worker
  PROVE  Capacity'
  BY DEF Capacity, Serving

LEMMA SameAccounts ==
  ASSUME Accounts, UNCHANGED <<poolVars, server, conn>>
  PROVE  Accounts'
  BY DEF Accounts, Holders, poolVars

(* A request takes a connection: one more holder.                          *)
LEMMA TakeAccounts ==
  ASSUME Types, Accounts, NEW r \in Requests, server[r] \in Workers, conn[r] = "none",
         server' = server, conn' = [conn EXCEPT ![r] = "live"],
         NEW dSlots \in Int, NEW dIdle \in Int, NEW dStale \in Int, dSlots = dIdle + dStale + 1,
         slots' = [slots EXCEPT ![server[r]] = @ + dSlots],
         idle' = [idle EXCEPT ![server[r]] = @ + dIdle],
         stale' = [stale EXCEPT ![server[r]] = @ + dStale]
  PROVE  Accounts'
<1> SUFFICES ASSUME NEW w \in Workers
             PROVE  slots'[w] = idle'[w] + stale'[w] + Cardinality(Holders(w)')
  BY DEF Accounts
<1>0. /\ slots[w] = idle[w] + stale[w] + Cardinality(Holders(w))
      /\ slots[w] \in Nat /\ idle[w] \in Nat /\ stale[w] \in Nat
  BY DEF Accounts, Types
<1>1. CASE w = server[r]
  <2>1. r \notin Holders(w) /\ Holders(w)' = Holders(w) \cup {r}
    BY <1>1 DEF Holders, Types
  <2>2. Cardinality(Holders(w)') = Cardinality(Holders(w)) + 1 /\ Cardinality(Holders(w)) \in Nat
    BY <2>1, FiniteSubsets, OneMore
  <2>3. slots'[w] = slots[w] + dSlots /\ idle'[w] = idle[w] + dIdle /\ stale'[w] = stale[w] + dStale
    BY <1>1 DEF Types
  <2>4. QED
    BY <1>0, <2>2, <2>3
<1>2. CASE w # server[r]
  <2>1. Holders(w)' = Holders(w)
    BY <1>2 DEF Holders, Types
  <2>2. QED
    BY <1>0, <1>2, <2>1 DEF Types
<1>3. QED
  BY <1>1, <1>2

(* A request gives its connection back: one holder less.                   *)
LEMMA ReleaseAccounts ==
  ASSUME Types, Accounts, NEW r \in Requests, server[r] \in Workers, conn[r] # "none",
         server' = server, Release(r)
  PROVE  Accounts'
<1> SUFFICES ASSUME NEW w \in Workers
             PROVE  slots'[w] = idle'[w] + stale'[w] + Cardinality(Holders(w)')
  BY DEF Accounts
<1>0. /\ slots[w] = idle[w] + stale[w] + Cardinality(Holders(w))
      /\ slots[w] \in Nat /\ idle[w] \in Nat /\ stale[w] \in Nat
  BY DEF Accounts, Types
<1>1. CASE w = server[r]
  <2>1. r \in Holders(w) /\ Holders(w)' = Holders(w) \ {r}
    BY <1>1 DEF Holders, Release, Types
  <2>2. /\ Cardinality(Holders(w)') = Cardinality(Holders(w)) - 1
        /\ Cardinality(Holders(w)) \in Nat /\ Cardinality(Holders(w)') \in Nat
    BY <2>1, FiniteSubsets, OneLess
  <2>3. \/ slots'[w] = slots[w] /\ idle'[w] + stale'[w] = idle[w] + stale[w] + 1
        \/ slots'[w] = slots[w] - 1 /\ idle'[w] = idle[w] /\ stale'[w] = stale[w]
    BY <1>0, <1>1 DEF Release, Types
  <2>4. idle'[w] \in Nat /\ stale'[w] \in Nat
    BY <1>0, <1>1 DEF Release, Types
  <2>5. QED
    BY <1>0, <2>2, <2>3, <2>4
<1>2. CASE w # server[r]
  <2>1. Holders(w)' = Holders(w)
    BY <1>2 DEF Holders, Release, Types
  <2>2. QED
    BY <1>0, <1>2, <2>1 DEF Release, Types
<1>3. QED
  BY <1>1, <1>2
-----------------------------------------------------------------------------
LEMMA InitHolds ==
  ASSUME Init
  PROVE  Parts
<1>1. Types /\ Places
  BY SetsAssumption DEF Init, Types, Places, Stages
<1>2. Limits
  BY PoolAssumption DEF Init, Limits
<1>3. (\A w \in Workers : Holders(w) = {}) /\ Serving = {}
  BY DEF Init, Holders, Serving
<1>4. \A w \in Workers : slots[w] = 0 /\ idle[w] = 0 /\ stale[w] = 0
  BY DEF Init
<1>5. Accounts /\ Capacity
  BY <1>3, <1>4, Empty, CapacityAssumption DEF Accounts, Capacity
<1>6. QED
  BY <1>1, <1>2, <1>5 DEF Parts

LEMMA StutterKeeps ==
  ASSUME Parts, UNCHANGED vars
  PROVE  Parts'
<1>0. Types /\ Places /\ Limits /\ Accounts /\ Capacity
  BY DEF Parts
<1> USE DEF vars, poolVars, requestVars
<1>1. Types' /\ Places' /\ Limits'
  BY <1>0 DEF Types, Places, Limits
<1>2. Accounts' /\ Capacity'
  BY <1>0, SameAccounts, SameCapacity
<1>3. QED
  BY <1>1, <1>2 DEF Parts
-----------------------------------------------------------------------------
(* The life of a process.                                                  *)

LEMMA StartOrTerminateKeeps ==
  ASSUME Parts, NEW w \in Workers, Start(w) \/ Terminate(w)
  PROVE  Parts'
<1>0. Types /\ Places /\ Limits /\ Accounts /\ Capacity
  BY DEF Parts
<1> USE DEF Start, Terminate, requestVars
<1>1. Types'
  BY <1>0 DEF Types, poolVars
<1>2. Places'
  BY <1>0 DEF Types, Places, poolVars
<1>3. Limits'
  <2>1. /\ slots' = slots /\ idle' = idle /\ stale' = stale
        /\ \A v \in Workers : worker'[v] \in {"new", "gone"} => worker[v] = worker'[v]
    BY <1>0 DEF Types, poolVars
  <2>2. QED
    BY <1>0, <2>1 DEF Limits
<1>4. Accounts'
  BY <1>0, SameAccounts
<1>5. Capacity'
  <2>1. CASE Start(w)
    <3>1. Serving' = Serving \cup {w} /\ w \notin Serving
      BY <1>0, <2>1 DEF Serving, Types
    <3>2. Cardinality(Serving') = Cardinality(Serving) + 1
      BY <3>1, ServingIsFinite, OneMore
    <3>3. QED
      BY <2>1, <3>2, ServingIsFinite, CapacityAssumption DEF Capacity
  <2>2. CASE Terminate(w)
    <3>1. Serving' \subseteq Serving
      BY <1>0, <2>2 DEF Serving, Types
    <3>2. QED
      BY <1>0, <3>1, FewerServe
  <2>3. QED
    BY <2>1, <2>2
<1>6. QED
  BY <1>1, <1>2, <1>3, <1>4, <1>5 DEF Parts

LEMMA DisposeKeeps ==
  ASSUME Parts, NEW w \in Workers, Dispose(w)
  PROVE  Parts'
<1>0. Types /\ Places /\ Limits /\ Accounts /\ Capacity
  BY DEF Parts
<1> USE DEF requestVars
<1>1. Holders(w) = {}
  BY DEF Dispose, Holders
<1>2. slots[w] = idle[w] + stale[w]
  <2>1. slots[w] = idle[w] + stale[w] + Cardinality(Holders(w))
    BY <1>0 DEF Accounts
  <2>2. Cardinality(Holders(w)) = 0
    BY <1>1, Empty
  <2>3. idle[w] \in Nat /\ stale[w] \in Nat
    BY <1>0 DEF Types
  <2>4. QED
    BY <2>1, <2>2, <2>3
<1>3. slots[w] - (idle[w] + stale[w]) = 0
  BY <1>0, <1>2 DEF Types
<1>4. /\ worker' = [worker EXCEPT ![w] = "gone"] /\ slots' = [slots EXCEPT ![w] = 0]
      /\ idle' = [idle EXCEPT ![w] = 0] /\ stale' = [stale EXCEPT ![w] = 0]
  BY <1>3 DEF Dispose
<1>5. Types' /\ Places'
  <2>1. Types'
    BY <1>0, <1>4 DEF Dispose, Types
  <2>2. Places'
    <3>1. \A r \in Requests : server[r] # w
      BY DEF Dispose
    <3>2. \A v \in Workers \ {w} : worker'[v] = worker[v]
      BY <1>0, <1>4 DEF Types
    <3>3. QED
      BY <1>0, <3>1, <3>2 DEF Dispose, Places
  <2>3. QED
    BY <2>1, <2>2
<1>6. Limits'
  BY <1>0, <1>4, PoolAssumption DEF Limits, Types
<1>7. Accounts'
  <2>1. \A v : Holders(v)' = Holders(v)
    BY DEF Dispose, Holders
  <2>2. Cardinality(Holders(w)) = 0 /\ slots'[w] = 0 /\ idle'[w] = 0 /\ stale'[w] = 0
    BY <1>0, <1>1, <1>4, Empty DEF Types
  <2>3. \A v \in Workers \ {w} : slots'[v] = slots[v] /\ idle'[v] = idle[v] /\ stale'[v] = stale[v]
    BY <1>0, <1>4 DEF Types
  <2>4. \A v \in Workers : Cardinality(Holders(v)') = Cardinality(Holders(v))
    BY <2>1
  <2>5. QED
    BY <1>0, <2>2, <2>3, <2>4 DEF Accounts
<1>8. Capacity'
  <2>1. Serving' \subseteq Serving
    BY <1>0, <1>4 DEF Serving, Types
  <2>2. QED
    BY <1>0, <2>1, FewerServe
<1>9. QED
  BY <1>5, <1>6, <1>7, <1>8 DEF Parts

LEMMA KillKeeps ==
  ASSUME Parts, NEW w \in Workers, Kill(w)
  PROVE  Parts'
<1>0. Types /\ Places /\ Limits /\ Accounts /\ Capacity
  BY DEF Parts
<1>1. Types'
  BY <1>0 DEF Kill, Types, Stages
<1>2. Places'
  BY <1>0 DEF Kill, Types, Places
<1>3. Limits'
  BY <1>0, PoolAssumption DEF Kill, Limits, Types
<1>4. Accounts'
  <2>1. Holders(w)' = {}
    BY <1>0 DEF Kill, Holders, Types
  <2>2. \A v \in Workers \ {w} : Holders(v)' = Holders(v)
    BY <1>0 DEF Kill, Holders, Types
  <2>3. Cardinality(Holders(w)') = 0 /\ slots'[w] = 0 /\ idle'[w] = 0 /\ stale'[w] = 0
    BY <1>0, <2>1, Empty DEF Kill, Types
  <2>4. \A v \in Workers \ {w} : slots'[v] = slots[v] /\ idle'[v] = idle[v] /\ stale'[v] = stale[v]
    BY <1>0 DEF Kill, Types
  <2>5. \A v \in Workers \ {w} : Cardinality(Holders(v)') = Cardinality(Holders(v))
    BY <2>2
  <2>6. QED
    BY <1>0, <2>3, <2>4, <2>5 DEF Accounts
<1>5. Capacity'
  <2>1. Serving' \subseteq Serving
    BY <1>0 DEF Kill, Serving, Types
  <2>2. QED
    BY <1>0, <2>1, FewerServe
<1>6. QED
  BY <1>1, <1>2, <1>3, <1>4, <1>5 DEF Parts
-----------------------------------------------------------------------------
(* A request, from its arrival to its answer.                              *)

LEMMA ArriveKeeps ==
  ASSUME Parts, NEW r \in Requests, NEW w \in Workers, Arrive(r, w)
  PROVE  Parts'
<1>0. Types /\ Places /\ Limits /\ Accounts /\ Capacity
  BY DEF Parts
<1>r. server[r] = Nobody /\ conn[r] = "none" /\ w # Nobody
  BY <1>0, SetsAssumption DEF Arrive, Places, Types
<1>1. Types' /\ Places' /\ Limits'
  BY <1>0, <1>r DEF Arrive, Types, Places, Limits, Stages, poolVars
<1>2. Accounts'
  <2>1. \A v \in Workers : Holders(v)' = Holders(v)
    BY <1>0, <1>r, SetsAssumption DEF Arrive, Holders, Types
  <2>2. QED
    BY <1>0, <2>1 DEF Arrive, Accounts, poolVars
<1>3. Capacity'
  BY <1>0, SameCapacity DEF Arrive
<1>4. QED
  BY <1>1, <1>2, <1>3 DEF Parts

LEMMA WaitKeeps ==
  ASSUME Parts, NEW r \in Requests, BodyArrives(r) \/ Sent(r)
  PROVE  Parts'
<1>0. Types /\ Places /\ Limits /\ Accounts /\ Capacity
  BY DEF Parts
<1>r. conn[r] = "none"
  BY <1>0 DEF BodyArrives, Sent, Places
<1>1. Types'
  BY <1>0 DEF BodyArrives, Sent, Types, Stages, poolVars
<1>2. Places'
  BY <1>0 DEF BodyArrives, Sent, Types, Places
<1>3. Limits'
  BY <1>0 DEF BodyArrives, Sent, Limits, poolVars
<1>4. Accounts'
  <2>1. \A w \in Workers : Holders(w)' = Holders(w)
    BY <1>0, <1>r, SetsAssumption DEF BodyArrives, Sent, Holders, Types
  <2>2. QED
    BY <1>0, <2>1 DEF BodyArrives, Sent, Accounts, poolVars
<1>5. Capacity'
  BY <1>0, SameCapacity DEF BodyArrives, Sent
<1>6. QED
  BY <1>1, <1>2, <1>3, <1>4, <1>5 DEF Parts

(* An answer without a connection.                                         *)
LEMMA BareAnswerKeeps ==
  ASSUME Parts, NEW r \in Requests, stage[r] \in {"uploading", "asking"}, NoConnection(r)
  PROVE  Parts'
<1>0. Types /\ Places /\ Limits /\ Accounts /\ Capacity
  BY DEF Parts
<1>1. Types' /\ Places' /\ Limits'
  BY <1>0 DEF NoConnection, Answer, Types, Places, Limits, Stages, poolVars
<1>2. Accounts' /\ Capacity'
  BY <1>0, SameAccounts, SameCapacity DEF NoConnection
<1>3. QED
  BY <1>1, <1>2 DEF Parts

LEMMA EarlyAnswerKeeps ==
  ASSUME Parts, NEW r \in Requests,
         AnswerWithoutDb(r) \/ ConnectFails(r) \/ CheckoutTimesOut(r)
  PROVE  Parts'
  BY BareAnswerKeeps DEF AnswerWithoutDb, ConnectFails, CheckoutTimesOut, NoConnection

LEMMA CheckoutKeeps ==
  ASSUME Parts, NEW r \in Requests, TakeIdle(r) \/ ReplaceStale(r) \/ Open(r)
  PROVE  Parts'
<1>0. Types /\ Places /\ Limits /\ Accounts /\ Capacity
  BY DEF Parts
<1>1. /\ stage[r] = "asking" /\ GotConnection(r)
      /\ server[r] \in Workers /\ conn[r] = "none" /\ worker[server[r]] \in {"serving", "draining"}
  BY <1>0 DEF TakeIdle, ReplaceStale, Open, Places, Types
<1>n. /\ slots[server[r]] \in Nat /\ idle[server[r]] \in Nat /\ stale[server[r]] \in Nat
      /\ slots = [slots EXCEPT ![server[r]] = @ + 0]
      /\ idle = [idle EXCEPT ![server[r]] = @ + 0]
      /\ stale = [stale EXCEPT ![server[r]] = @ + 0]
  BY <1>0, <1>1 DEF Types
<1>2. PICK dSlots \in {0, 1}, dIdle \in {-1, 0}, dStale \in {-1, 0} :
        /\ dSlots = dIdle + dStale + 1
        /\ slots' = [slots EXCEPT ![server[r]] = @ + dSlots]
        /\ idle' = [idle EXCEPT ![server[r]] = @ + dIdle]
        /\ stale' = [stale EXCEPT ![server[r]] = @ + dStale]
        /\ dSlots = 1 => slots[server[r]] < PoolSize + MaxOverflow
        /\ idle[server[r]] + dIdle >= 0 /\ stale[server[r]] + dStale >= 0
  <2>1. CASE TakeIdle(r)
    <3>0. idle[server[r]] - 1 = idle[server[r]] + (-1) /\ idle[server[r]] + (-1) >= 0
      BY <1>n, <2>1 DEF TakeIdle
    <3>1. slots' = [slots EXCEPT ![server[r]] = @ + 0] /\ stale' = [stale EXCEPT ![server[r]] = @ + 0]
      BY <1>n, <2>1 DEF TakeIdle
    <3>2. idle' = [idle EXCEPT ![server[r]] = @ + (-1)]
      BY <2>1, <3>0, Zenon DEF TakeIdle
    <3>3. 0 \in {0, 1} /\ -1 \in {-1, 0} /\ 0 \in {-1, 0} /\ 0 = -1 + 0 + 1 /\ 0 = 0 + (-1) + 1 /\ 0 # 1
      OBVIOUS
    <3>4. QED
      BY <1>n, <3>0, <3>1, <3>2, <3>3
  <2>2. CASE ReplaceStale(r)
    <3>0. stale[server[r]] - 1 = stale[server[r]] + (-1) /\ stale[server[r]] + (-1) >= 0
      BY <1>n, <2>2 DEF ReplaceStale
    <3>1. slots' = [slots EXCEPT ![server[r]] = @ + 0] /\ idle' = [idle EXCEPT ![server[r]] = @ + 0]
      BY <1>n, <2>2 DEF ReplaceStale
    <3>2. stale' = [stale EXCEPT ![server[r]] = @ + (-1)]
      BY <2>2, <3>0, Zenon DEF ReplaceStale
    <3>3. 0 \in {0, 1} /\ -1 \in {-1, 0} /\ 0 \in {-1, 0} /\ 0 = -1 + 0 + 1 /\ 0 = 0 + (-1) + 1 /\ 0 # 1
      OBVIOUS
    <3>4. QED
      BY <1>n, <3>0, <3>1, <3>2, <3>3
  <2>3. CASE Open(r)
    <3>1. /\ slots' = [slots EXCEPT ![server[r]] = @ + 1]
          /\ idle' = [idle EXCEPT ![server[r]] = @ + 0]
          /\ stale' = [stale EXCEPT ![server[r]] = @ + 0]
          /\ idle[server[r]] + 0 >= 0 /\ stale[server[r]] + 0 >= 0
          /\ slots[server[r]] < PoolSize + MaxOverflow
      BY <1>n, <2>3 DEF Open, MayOpen
    <3>2. QED
      BY <3>1
  <2>4. QED
    BY <2>1, <2>2, <2>3
<1>3. /\ conn' = [conn EXCEPT ![r] = "live"] /\ stage' = [stage EXCEPT ![r] = "querying"]
      /\ UNCHANGED <<worker, server, dbUp>>
  BY <1>1 DEF GotConnection
<1>4. Types'
  BY <1>0, <1>1, <1>2, <1>3 DEF Types, Stages
<1>5. Places'
  BY <1>0, <1>1, <1>3 DEF Types, Places
<1>6. Limits'
  <2>1. /\ slots[server[r]] + dSlots <= PoolSize + MaxOverflow
        /\ (idle[server[r]] + dIdle) + (stale[server[r]] + dStale) <= PoolSize
    BY <1>0, <1>1, <1>2, <1>n, PoolAssumption DEF Limits
  <2>2. /\ slots'[server[r]] = slots[server[r]] + dSlots
        /\ idle'[server[r]] = idle[server[r]] + dIdle
        /\ stale'[server[r]] = stale[server[r]] + dStale
    BY <1>0, <1>1, <1>2 DEF Types
  <2>3. \A w \in Workers \ {server[r]} :
          slots'[w] = slots[w] /\ idle'[w] = idle[w] /\ stale'[w] = stale[w]
    BY <1>0, <1>2 DEF Types
  <2>4. QED
    BY <1>0, <1>1, <1>3, <2>1, <2>2, <2>3 DEF Limits
<1>7. Accounts'
  <2>1. dSlots \in Int /\ dIdle \in Int /\ dStale \in Int
    OBVIOUS
  <2>2. QED
    BY <1>0, <1>1, <1>2, <1>3, <2>1, TakeAccounts
<1>8. Capacity'
  BY <1>0, <1>3, SameCapacity
<1>9. QED
  BY <1>4, <1>5, <1>6, <1>7, <1>8 DEF Parts

LEMMA EndKeeps ==
  ASSUME Parts, NEW r \in Requests, Finish(r) \/ Fail(r)
  PROVE  Parts'
<1>0. Types /\ Places /\ Limits /\ Accounts /\ Capacity
  BY DEF Parts
<1>1. /\ stage[r] = "querying" /\ Release(r) /\ UNCHANGED <<worker, server, dbUp>>
      /\ server[r] \in Workers /\ conn[r] # "none" /\ worker[server[r]] \in {"serving", "draining"}
  BY <1>0 DEF Finish, Fail, Places
<1>3. stage' = [stage EXCEPT ![r] = "replying"]
  BY DEF Finish, Fail, Answer
<1>4. slots[server[r]] >= 1 /\ slots[server[r]] \in Nat
  <2>1. r \in Holders(server[r])
    BY <1>1 DEF Holders
  <2>2. Cardinality(Holders(server[r])) \in Nat /\ Cardinality(Holders(server[r])) # 0
    BY <2>1, FiniteSubsets, FS_EmptySet
  <2>3. /\ slots[server[r]] = idle[server[r]] + stale[server[r]] + Cardinality(Holders(server[r]))
        /\ slots[server[r]] \in Nat /\ idle[server[r]] \in Nat /\ stale[server[r]] \in Nat
    BY <1>0, <1>1 DEF Accounts, Types
  <2>4. QED
    BY <2>2, <2>3
<1>5. Types'
  <2>1. slots' \in [Workers -> Nat] /\ idle' \in [Workers -> Nat] /\ stale' \in [Workers -> Nat]
    BY <1>0, <1>1, <1>4 DEF Release, Types
  <2>2. conn' \in [Requests -> {"none", "live", "dead"}]
    BY <1>0, <1>1 DEF Release, Types
  <2>3. stage' \in [Requests -> Stages]
    BY <1>0, <1>3 DEF Types, Stages
  <2>4. QED
    BY <1>0, <1>1, <2>1, <2>2, <2>3 DEF Types
<1>6. Places'
  BY <1>0, <1>1, <1>3 DEF Release, Types, Places
<1>7. Limits'
  BY <1>0, <1>1, <1>4, PoolAssumption DEF Release, Types, Limits
<1>8. Accounts' /\ Capacity'
  BY <1>0, <1>1, ReleaseAccounts, SameCapacity
<1>9. QED
  BY <1>5, <1>6, <1>7, <1>8 DEF Parts
-----------------------------------------------------------------------------

LEMMA DatabaseKeeps ==
  ASSUME Parts, DbStops \/ DbStarts
  PROVE  Parts'
<1>0. Types /\ Places /\ Limits /\ Accounts /\ Capacity
  BY DEF Parts
<1>1. CASE DbStarts
  <2>1. Types' /\ Places' /\ Limits'
    BY <1>0, <1>1 DEF DbStarts, Types, Places, Limits, poolVars, requestVars
  <2>2. Accounts' /\ Capacity'
    BY <1>0, <1>1, SameAccounts, SameCapacity DEF DbStarts, requestVars
  <2>3. QED
    BY <2>1, <2>2 DEF Parts
<1>2. CASE DbStops
  <2>1. Types'
    <3>1. idle' \in [Workers -> Nat] /\ stale' \in [Workers -> Nat]
      BY <1>0, <1>2 DEF DbStops, Types
    <3>2. conn' \in [Requests -> {"none", "live", "dead"}]
      BY <1>0, <1>2 DEF DbStops, Types
    <3>3. QED
      BY <1>0, <1>2, <3>1, <3>2 DEF DbStops, Types
  <2>p. Places'
    BY <1>0, <1>2 DEF DbStops, Types, Places
  <2>2. Limits'
    BY <1>0, <1>2 DEF DbStops, Types, Limits
  <2>3. \A w \in Workers : Holders(w)' = Holders(w)
    BY <1>0, <1>2 DEF DbStops, Holders, Types
  <2>4. Accounts'
    BY <1>0, <1>2, <2>3 DEF DbStops, Accounts, Types
  <2>5. Capacity'
    BY <1>0, <1>2, SameCapacity DEF DbStops
  <2>6. QED
    BY <2>1, <2>p, <2>2, <2>4, <2>5 DEF Parts
<1>3. QED
  BY <1>1, <1>2

LEMMA StepKeeps ==
  ASSUME Parts, [Next]_vars
  PROVE  Parts'
<1>1. CASE UNCHANGED vars
  BY <1>1, StutterKeeps
<1>2. ASSUME NEW w \in Workers, Start(w) \/ Terminate(w) \/ Dispose(w) \/ Kill(w)
      PROVE  Parts'
  BY <1>2, StartOrTerminateKeeps, DisposeKeeps, KillKeeps
<1>3. ASSUME NEW r \in Requests, NEW w \in Workers, Arrive(r, w)
      PROVE  Parts'
  BY <1>3, ArriveKeeps
<1>4. ASSUME NEW r \in Requests,
             \/ BodyArrives(r) \/ AnswerWithoutDb(r)
             \/ Checkout(r) \/ CheckoutTimesOut(r)
             \/ Finish(r) \/ Fail(r) \/ Sent(r)
      PROVE  Parts'
  BY <1>4, WaitKeeps, EarlyAnswerKeeps, CheckoutKeeps, EndKeeps DEF Checkout
<1>5. CASE DbStops \/ DbStarts
  BY <1>5, DatabaseKeeps
<1>6. QED
  BY <1>1, <1>2, <1>3, <1>4, <1>5 DEF Next

(* Pools, requests and replicas stay within their limits and agree.        *)
THEOREM WorkersInvariance == SafeSpec => []Parts
<1>1. Init => Parts
  BY InitHolds
<1>2. Parts /\ [Next]_vars => Parts'
  BY StepKeeps
<1>3. QED
  BY <1>1, <1>2, PTL DEF SafeSpec

(* Every variable keeps its type; no pool outgrows its limits.             *)
THEOREM WorkersTypeCorrect == SafeSpec => []TypeOK
<1>1. Parts => TypeOK
  <2>1. Parts => /\ slots \in [Workers -> 0..(PoolSize + MaxOverflow)]
                 /\ idle \in [Workers -> 0..PoolSize]
                 /\ stale \in [Workers -> 0..PoolSize]
    BY PoolAssumption DEF Parts, Types, Limits
  <2>2. QED
    BY <2>1 DEF Parts, Types, TypeOK
<1>2. QED
  BY <1>1, WorkersInvariance, PTL

(* No exit of a request and no end of a worker loses a connection record,  *)
(* for any number of workers and requests and any size of the pool.        *)
THEOREM NoConnectionEverLeaks == SafeSpec => []NoConnectionLeaks
<1>1. Parts => NoConnectionLeaks
  <2> SUFFICES ASSUME Parts, NEW w \in Workers
               PROVE  /\ slots[w] = idle[w] + stale[w] + Cardinality(Holders(w))
                      /\ \A r \in Holders(w) :
                           stage[r] = "querying" /\ worker[w] \in {"serving", "draining"}
                      /\ worker[w] \in {"new", "gone"} => slots[w] = 0
    BY DEF NoConnectionLeaks
  <2>1. QED
    BY DEF Parts, Places, Limits, Accounts, Holders
<1>2. QED
  BY <1>1, WorkersInvariance, PTL
-----------------------------------------------------------------------------
(* Who has a connection of PostgreSQL, among some of the workers.          *)

LiveOf(S) == {r \in Requests : conn[r] = "live" /\ server[r] \in S}

LEMMA LiveIsFinite ==
  ASSUME NEW S
  PROVE  IsFiniteSet(LiveOf(S)) /\ Cardinality(LiveOf(S)) \in Nat
<1>1. LiveOf(S) \subseteq Requests /\ IsFiniteSet(Requests)
  BY SetsAssumption DEF LiveOf
<1>2. QED
  BY <1>1, FS_Subset, FS_CardinalityType

LEMMA LiveOfOne ==
  ASSUME NEW w
  PROVE  LiveOf({w}) = Live(w) /\ Cardinality(Live(w)) \in Nat
<1>1. LiveOf({w}) = Live(w)
  BY DEF LiveOf, Live
<1>2. QED
  BY <1>1, LiveIsFinite

LEMMA LiveAddsUp ==
  ASSUME NEW S, NEW w \in S
  PROVE  Cardinality(LiveOf(S)) = Cardinality(Live(w)) + Cardinality(LiveOf(S \ {w}))
<1> DEFINE A == Live(w)
           B == LiveOf(S \ {w})
<1>1. LiveOf(S) = A \cup B /\ A \cap B = {} /\ A = LiveOf({w})
  BY DEF LiveOf, Live
<1>2. IsFiniteSet(A) /\ Cardinality(A) \in Nat /\ IsFiniteSet(B) /\ Cardinality(B) \in Nat
  BY <1>1, LiveIsFinite
<1> HIDE DEF A, B
<1>3. Cardinality(A \cup B) = Cardinality(A) + Cardinality(B) - Cardinality(A \cap B)
  BY <1>2, FS_Union
<1>4. Cardinality(LiveOf(S)) = Cardinality(A) + Cardinality(B)
  <2>1. Cardinality(A \cap B) = 0 /\ Cardinality(LiveOf(S)) = Cardinality(A \cup B)
    BY <1>1, FS_EmptySet
  <2>2. QED
    BY <1>2, <1>3, <2>1
<1>5. QED
  BY <1>4 DEF A, B

(* A worker has no more connections open than records, so none before it   *)
(* starts and after it has ended; beyond PoolSize it has some in use.      *)
LEMMA WithinRecords ==
  ASSUME Parts, NEW w \in Workers
  PROVE  /\ OpenBy(w) \in Nat
         /\ worker[w] \in {"new", "gone"} => OpenBy(w) = 0
         /\ OpenBy(w) > PoolSize => Live(w) # {}
<1>0. /\ slots[w] \in Nat /\ idle[w] \in Nat /\ stale[w] \in Nat
      /\ slots[w] = idle[w] + stale[w] + Cardinality(Holders(w))
      /\ idle[w] + stale[w] <= PoolSize
      /\ worker[w] \in {"new", "gone"} => slots[w] = 0
  BY DEF Parts, Types, Accounts, Limits
<1>1. Live(w) \subseteq Holders(w)
  BY DEF Live, Holders
<1>2. Cardinality(Live(w)) <= Cardinality(Holders(w))
  BY <1>1, FiniteSubsets, FS_Subset
<1>3. Cardinality(Live(w)) \in Nat /\ Cardinality(Holders(w)) \in Nat
  BY FiniteSubsets, LiveOfOne
<1>4. Live(w) = {} => Cardinality(Live(w)) = 0
  BY Empty
<1>5. QED
  BY <1>0, <1>2, <1>3, <1>4, PoolAssumption DEF OpenBy

(* PostgreSQL has a connection left for a serving worker below its pool    *)
(* size while none is in its overflow and those drained have none open.    *)
LEMMA RoomIsLeft ==
  ASSUME Parts, NEW low \in Serving, OpenBy(low) < PoolSize,
         \A w \in Serving : OpenBy(w) <= PoolSize,
         \A w \in Workers \ Serving : OpenBy(w) = 0
  PROVE  InUse < MaxConnections
<1> DEFINE places(T) == Cardinality(T \cap Serving)
           room(T) == IF low \in T THEN 1 ELSE 0
           bound == [T \in SUBSET Workers |->
                       places(T) * PoolSize - Cardinality(LiveOf(T)) - room(T)]
<1>1. IsFiniteSet(Workers) /\ PoolSize \in Nat /\ low \in Workers
  BY SetsAssumption, PoolAssumption DEF Serving
<1>2. idle \in [Workers -> Int]
  BY DEF Parts, Types
<1>3. ASSUME NEW T \in SUBSET Workers
      PROVE  /\ IsFiniteSet(T \cap Serving) /\ places(T) \in Nat
             /\ Cardinality(LiveOf(T)) \in Nat
             /\ places(T) * PoolSize \in Int /\ room(T) \in Int
             /\ bound[T] \in Int
  <2>1. IsFiniteSet(T \cap Serving) /\ places(T) \in Nat /\ Cardinality(LiveOf(T)) \in Nat
    BY <1>1, FS_Subset, FS_CardinalityType, LiveIsFinite
  <2>2. places(T) * PoolSize \in Int
    BY <1>1, <2>1
  <2>3. QED
    BY <2>1, <2>2
<1>4. 0 <= bound[{}]
  <2>1. LiveOf({}) = {} /\ {} \cap Serving = {}
    BY DEF LiveOf
  <2>2. bound[{}] = 0 * PoolSize - 0 - 0
    BY <2>1, Empty
  <2>3. QED
    BY <1>1, <2>2
<1>5. ASSUME NEW T \in SUBSET Workers, NEW w \in T
      PROVE  idle[w] + bound[T \ {w}] <= bound[T]
  <2> DEFINE n == places(T \ {w})
             k == Cardinality(LiveOf(T \ {w}))
             l == Cardinality(Live(w))
             d == room(T)
             e == room(T \ {w})
             m == places(T)
  <2>1. n \in Nat /\ k \in Nat /\ l \in Nat /\ n * PoolSize \in Int
    BY <1>1, <1>3, LiveOfOne
  <2>2. Cardinality(LiveOf(T)) = l + k
    BY LiveAddsUp
  <2>3. bound[T] = m * PoolSize - (l + k) - d /\ bound[T \ {w}] = n * PoolSize - k - e
    <3>1. T \in SUBSET Workers /\ T \ {w} \in SUBSET Workers
      OBVIOUS
    <3>2. bound[T] = places(T) * PoolSize - Cardinality(LiveOf(T)) - room(T)
      BY <3>1
    <3>3. bound[T \ {w}] = n * PoolSize - k - e
      BY <3>1
    <3>4. bound[T] = m * PoolSize - (l + k) - d
      BY <2>2, <3>2, Zenon
    <3>5. QED
      BY <3>3, <3>4
  <2>4. d \in Int /\ e \in Int /\ idle[w] \in Int /\ idle[w] + l = OpenBy(w) /\ OpenBy(w) \in Nat
    BY <1>2, WithinRecords DEF OpenBy
  <2>5. CASE w \in Serving
    <3>1. m = n + 1
      <4>1. IsFiniteSet(T \cap Serving) /\ m \in Nat
        BY <1>3
      <4>2. (T \ {w}) \cap Serving = (T \cap Serving) \ {w} /\ w \in T \cap Serving
        BY <2>5
      <4>3. Cardinality((T \cap Serving) \ {w}) = Cardinality(T \cap Serving) - 1
        BY <4>1, <4>2, FS_RemoveElement
      <4>4. n = m - 1
        BY <4>2, <4>3
      <4> HIDE DEF n, m
      <4>5. QED
        BY <4>1, <4>4
    <3>2. OpenBy(w) <= PoolSize - (d - e)
      <4>1. CASE w = low
        BY <1>1, <2>4, <4>1
      <4>2. CASE w # low
        <5>1. d = e /\ OpenBy(w) <= PoolSize
          BY <2>5, <4>2
        <5> HIDE DEF d, e
        <5>2. QED
          BY <1>1, <2>4, <5>1
      <4>3. QED
        BY <4>1, <4>2
    <3>3. (n + 1) * PoolSize = n * PoolSize + PoolSize
      BY <1>1, <2>1
    <3> HIDE DEF n, k, l, d, e, m, bound
    <3>4. QED
      BY <1>1, <2>1, <2>3, <2>4, <3>1, <3>2, <3>3
  <2>6. CASE w \notin Serving
    <3>1. (T \ {w}) \cap Serving = T \cap Serving
      BY <2>6
    <3>2. m = n /\ d = e /\ OpenBy(w) = 0
      BY <2>6, <3>1
    <3> HIDE DEF n, k, l, d, e, m, bound
    <3>3. QED
      BY <2>1, <2>3, <2>4, <3>2
  <2>7. QED
    BY <2>5, <2>6
<1>6. SumFunction(idle) \in Int /\ SumFunction(idle) <= bound[Workers]
  <2>1. bound \in [SUBSET Workers -> Int]
    BY <1>3
  <2> HIDE DEF bound
  <2>2. QED
    BY <1>1, <1>2, <1>4, <1>5, <2>1, SumAtMost
<1>7. {r \in Requests : conn[r] = "live"} = LiveOf(Workers)
  <2>1. \A r \in Requests : conn[r] = "live" => server[r] \in Workers
    BY DEF Parts, Places, Types
  <2>2. QED
    BY <2>1 DEF LiveOf
<1>8. bound[Workers] = Cardinality(Serving) * PoolSize - Cardinality(LiveOf(Workers)) - 1
  <2>1. Workers \cap Serving = Serving
    BY DEF Serving
  <2>2. bound[Workers] = places(Workers) * PoolSize - Cardinality(LiveOf(Workers)) - room(Workers)
    OBVIOUS
  <2>3. room(Workers) = 1
    BY <1>1
  <2> HIDE DEF bound, room
  <2>4. QED
    BY <2>1, <2>2, <2>3
<1>9. InUse = SumFunction(idle) + Cardinality(LiveOf(Workers))
  BY <1>7 DEF InUse
<1> HIDE DEF bound, room, places
<1>10. Cardinality(Serving) * PoolSize <= MaxServing * PoolSize
  <2>1. /\ Cardinality(Serving) \in Nat /\ MaxServing \in Nat
        /\ Cardinality(Serving) <= MaxServing
    BY ServingIsFinite, CapacityAssumption DEF Parts, Capacity
  <2>2. PICK d \in Nat : MaxServing = Cardinality(Serving) + d
    <3>1. MaxServing - Cardinality(Serving) \in Nat
      BY <2>1
    <3>2. MaxServing = Cardinality(Serving) + (MaxServing - Cardinality(Serving))
      BY <2>1
    <3>3. QED
      BY <3>1, <3>2
  <2>3. d * PoolSize \in Nat /\ Cardinality(Serving) * PoolSize \in Nat
    BY <1>1, <2>1
  <2>4. MaxServing * PoolSize = Cardinality(Serving) * PoolSize + d * PoolSize
    BY <1>1, <2>1, <2>2
  <2>5. QED
    BY <2>3, <2>4
<1>11. /\ Cardinality(Serving) * PoolSize \in Int /\ MaxServing * PoolSize \in Int
       /\ Cardinality(LiveOf(Workers)) \in Nat
  BY <1>1, ServingIsFinite, CapacityAssumption, LiveIsFinite
<1>12. QED
  BY <1>6, <1>8, <1>9, <1>10, <1>11, CapacityAssumption

(* For any number of workers started one after the other, as long as at    *)
(* most MaxServing serve at once: one that serves and is below its pool    *)
(* size is refused only on account of an overflow that is in use or of a   *)
(* worker that is drained (db.py:50-51, 64-70, cluster.yaml:77).           *)
THEOREM RefusedOnlyEverInOverflow == SafeSpec => []RefusedOnlyInOverflow
<1>1. Parts => RefusedOnlyInOverflow
  <2> SUFFICES ASSUME Parts, NEW r \in Requests,
                      stage[r] = "asking", worker[server[r]] = "serving",
                      OpenBy(server[r]) < PoolSize, dbUp, ~CanConnect,
                      \A w \in Workers : /\ OpenBy(w) > PoolSize => Live(w) = {}
                                         /\ worker[w] = "draining" => ~(OpenBy(w) > 0)
               PROVE  FALSE
    BY DEF RefusedOnlyInOverflow
  <2>1. server[r] \in Serving
    BY DEF Parts, Places, Serving
  <2>2. \A w \in Serving : OpenBy(w) <= PoolSize
    <3>1. \A w \in Serving : w \in Workers
      BY DEF Serving
    <3>2. QED
      BY <3>1, WithinRecords, PoolAssumption
  <2>3. \A w \in Workers \ Serving : OpenBy(w) = 0
    <3>1. \A w \in Workers \ Serving : worker[w] \in {"new", "draining", "gone"}
      BY DEF Parts, Types, Serving
    <3>2. QED
      BY <3>1, WithinRecords
  <2>4. InUse < MaxConnections
    BY <2>1, <2>2, <2>3, RoomIsLeft
  <2>5. QED
    BY <2>4 DEF CanConnect
<1>2. QED
  BY <1>1, WorkersInvariance, PTL
=============================================================================
