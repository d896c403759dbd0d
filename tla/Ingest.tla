------------------------------- MODULE Ingest -------------------------------
(***************************************************************************)
(* The way of a batch from the queue of a device into the events table.    *)
(* A device (bz.telemetry, outside this repository) sends the batch at the *)
(* head of its queue as a request; the API handles each request in the     *)
(* stages between which its coroutine awaits; PostgreSQL runs one          *)
(* transaction per request.  Requests of the same batch overlap when the   *)
(* device gives up on one and retries.  Processes die, connections break,  *)
(* the database goes down, answers are lost.                               *)
(* Definitions named Operation_What are faulty variants of Operation: each *)
(* shows that a property below would notice the fault.                     *)
(***************************************************************************)
EXTENDS IngestBatch

CONSTANTS
  Batches,       \* batch files; each is the head of the queue of one device
  Requests,      \* identities of requests and of their transactions
  None,          \* no batch, no request
  Content,       \* the body of each batch
  AuthRequired,  \* settings.auth_required: TELEMETRY_INGEST_TOKENS is set
  Credentials,   \* the bearer tokens devices start with
  MaxFaults      \* bound on crashes, broken connections, outages, lost answers

ASSUME ContentAssumption == Content \in [Batches -> Bodies(Seq(Kinds))]
ASSUME NoneAssumption == None \notin Batches /\ None \notin Requests
ASSUME AuthAssumption == AuthRequired \in BOOLEAN
ASSUME CredentialsAssumption == Credentials \subseteq {"missing", "unknown", "known"}
ASSUME FaultsAssumption == MaxFaults \in Nat

VARIABLES
  fate,        \* device: what became of the batch
  credential,  \* device: the token it sends
  current,     \* device: the request it waits for
  heard,       \* device: how the request ended as the device saw it
  carries,     \* the batch in a request
  bearer,      \* the token in its Authorization header
  stage,       \* API: how far the handler of a request is
  status,      \* API: the status it has answered, 0 for none
  broken,      \* API: requests whose database connection is gone
  tx,          \* PostgreSQL: the transaction of a request
  table,       \* PostgreSQL: the rows of events, each with the request that inserted it
  dbUp,        \* PostgreSQL accepts connections
  faults       \* faults left

deviceVars == <<fate, credential, current, heard>>
dbVars     == <<tx, table, dbUp>>
vars == <<fate, credential, current, heard, carries, bearer, stage, status, broken, tx, table, dbUp, faults>>

Pending == 0     \* the device still waits
Lost    == 1     \* it gave up without an answer
Statuses == {200, 401, 403, 413, 422, 500}

(***************************************************************************)
(* "arrived"     the request is in, its bearer token not yet checked        *)
(* "reading"     awaits request.body()                                     *)
(* "inserting"   parsed and validated, awaits session.execute               *)
(* "inserted"    the handler has returned, get_session is about to commit  *)
(* "committing"  awaits session.commit()                                   *)
(* "over"        answered, or the process has died                         *)
(***************************************************************************)
Stages == {"idle", "arrived", "reading", "inserting", "inserted", "committing", "over"}

(* What IngestBatch makes of each batch: the positions of its rows, the    *)
(* status that refuses it or 0, and whether PostgreSQL will.               *)
RowSet == [b \in Batches |-> DOMAIN Rows(Content[b])]
Verdict == [b \in Batches |-> Refusal(Content[b])]
Unstorable == {b \in Batches : DbRefuses(Content[b])}

Positions == UNION {RowSet[b] : b \in Batches}

RowsBy(r) == {r} \X RowSet[carries[r]]

Init ==
  /\ fate = [b \in Batches |-> "queued"]
  /\ credential \in [Batches -> Credentials]
  /\ current = [b \in Batches |-> None]
  /\ heard = [r \in Requests |-> Pending]
  /\ carries = [r \in Requests |-> None]
  /\ bearer = [r \in Requests |-> "missing"]
  /\ stage = [r \in Requests |-> "idle"]
  /\ status = [r \in Requests |-> 0]
  /\ broken = {}
  /\ tx = [r \in Requests |-> "none"]
  /\ table = {}
  /\ dbUp = TRUE
  /\ faults = MaxFaults
-----------------------------------------------------------------------------
(* The device.                                                             *)

(* The identity of a request that is over and left nothing in the table    *)
(* is used again.                                                          *)
Reusable(r) ==
  /\ stage[r] \in {"idle", "over"}
  /\ tx[r] \in {"none", "aborted"}
  /\ \A b \in Batches : current[b] # r

Send(b, r) ==
  /\ fate[b] = "queued" /\ current[b] = None
  /\ Reusable(r)
  /\ current' = [current EXCEPT ![b] = r]
  /\ heard' = [heard EXCEPT ![r] = Pending]
  /\ carries' = [carries EXCEPT ![r] = b]
  /\ bearer' = [bearer EXCEPT ![r] = credential[b]]
  /\ stage' = [stage EXCEPT ![r] = "arrived"]
  /\ status' = [status EXCEPT ![r] = 0]
  /\ broken' = broken \ {r}
  /\ tx' = [tx EXCEPT ![r] = "none"]
  /\ UNCHANGED <<fate, credential, table, dbUp, faults>>

(* 200: the file is deleted; 401, 403: the uploader pauses; 413, 422: the  *)
(* batch is dropped; 5xx: it stays for the next flush.                     *)
Outcome(code) ==
  CASE code = 200         -> "deleted"
    [] code \in {401, 403} -> "paused"
    [] code \in {413, 422} -> "dropped"
    [] OTHER              -> "queued"

Receive(b) ==
  /\ current[b] # None
  /\ LET r == current[b]
     IN /\ status[r] # 0
        /\ heard' = [heard EXCEPT ![r] = status[r]]
        /\ fate' = [fate EXCEPT ![b] = Outcome(status[r])]
  /\ current' = [current EXCEPT ![b] = None]
  /\ UNCHANGED <<credential, carries, bearer, stage, status, broken, dbVars, faults>>

Abandon(b) ==
  /\ heard' = [heard EXCEPT ![current[b]] = Lost]
  /\ current' = [current EXCEPT ![b] = None]
  /\ UNCHANGED <<fate, credential, carries, bearer, stage, status, broken, dbVars>>

(* The process died with the request: the connection is reset.             *)
NoticeReset(b) ==
  /\ current[b] # None
  /\ stage[current[b]] = "over" /\ status[current[b]] = 0
  /\ Abandon(b)
  /\ UNCHANGED faults

(* The device times out, or the answer is lost on its way.                 *)
GiveUp(b) ==
  /\ current[b] # None
  /\ faults > 0 /\ faults' = faults - 1
  /\ Abandon(b)

FixToken(b) ==
  /\ fate[b] = "paused"
  /\ credential' = [credential EXCEPT ![b] = "known"]
  /\ fate' = [fate EXCEPT ![b] = "queued"]
  /\ UNCHANGED <<current, heard, carries, bearer, stage, status, broken, dbVars, faults>>
-----------------------------------------------------------------------------
(* The API.                                                                *)

Answer(r, code) ==
  /\ stage' = [stage EXCEPT ![r] = "over"]
  /\ status' = [status EXCEPT ![r] = code]

Enter(r, next) ==
  /\ stage' = [stage EXCEPT ![r] = next]
  /\ UNCHANGED status

Authenticate_MatchesNothing(r) ==
  /\ stage[r] = "arrived"
  /\ IF AuthRequired THEN Answer(r, 403) ELSE Enter(r, "reading")
  /\ UNCHANGED <<deviceVars, carries, bearer, broken, dbVars, faults>>

(* require_ingest_token.                                                   *)
Authenticate(r) ==
  /\ stage[r] = "arrived"
  /\ \/ AuthRequired /\ bearer[r] = "missing" /\ Answer(r, 401)
     \/ AuthRequired /\ bearer[r] = "unknown" /\ Answer(r, 403)
     \/ (AuthRequired => bearer[r] = "known") /\ Enter(r, "reading")
  /\ UNCHANGED <<deviceVars, carries, bearer, broken, dbVars, faults>>

(* From the arrival of the body to the first await on the session nothing  *)
(* else of this process runs.  Without a row there is no transaction and   *)
(* the COMMIT is empty.                                                    *)
ParseAndValidate(r) ==
  /\ stage[r] = "reading"
  /\ LET b == carries[r]
     IN \/ Verdict[b] # 0 /\ Answer(r, Verdict[b])
        \/ Verdict[b] = 0 /\ RowSet[b] = {} /\ Answer(r, 200)
        \/ Verdict[b] = 0 /\ RowSet[b] # {} /\ Enter(r, "inserting")
  /\ UNCHANGED <<deviceVars, carries, bearer, broken, dbVars, faults>>

(* session.execute checks out a connection, begins a transaction and       *)
(* inserts every row with one statement.                                   *)
Insert(r) ==
  /\ stage[r] = "inserting"
  /\ dbUp /\ carries[r] \notin Unstorable
  /\ tx' = [tx EXCEPT ![r] = "open"]
  /\ Enter(r, "inserted")
  /\ UNCHANGED <<deviceVars, carries, bearer, broken, table, dbUp, faults>>

InsertFails_As503(r) ==
  /\ stage[r] = "inserting"
  /\ ~dbUp \/ carries[r] \in Unstorable
  /\ Answer(r, 503)
  /\ UNCHANGED <<deviceVars, carries, bearer, broken, dbVars, faults>>

InsertFails_Swallowed(r) ==
  /\ stage[r] = "inserting"
  /\ ~dbUp \/ carries[r] \in Unstorable
  /\ Answer(r, 200)
  /\ UNCHANGED <<deviceVars, carries, bearer, broken, dbVars, faults>>

InsertFails_KeepsTheOthers(r) ==
  /\ stage[r] = "inserting"
  /\ ~dbUp \/ carries[r] \in Unstorable
  /\ Answer(r, 500)
  /\ table' = IF dbUp THEN table \cup {row \in RowsBy(r) : Rows(Content[carries[r]])[row[2]] = "good"} ELSE table
  /\ UNCHANGED <<deviceVars, carries, bearer, broken, tx, dbUp, faults>>

InsertFails(r) ==
  /\ stage[r] = "inserting"
  /\ ~dbUp \/ carries[r] \in Unstorable
  /\ Answer(r, 500)
  /\ UNCHANGED <<deviceVars, carries, bearer, broken, dbVars, faults>>

(* The exit of get_session, before the answer goes out.                    *)
BeginCommit(r) ==
  /\ stage[r] = "inserted" /\ r \notin broken
  /\ tx' = [tx EXCEPT ![r] = "committing"]
  /\ Enter(r, "committing")
  /\ UNCHANGED <<deviceVars, carries, bearer, broken, table, dbUp, faults>>

CommitReturns_TooEarly(r) ==
  /\ stage[r] = "committing" /\ r \notin broken
  /\ Answer(r, 200)
  /\ UNCHANGED <<deviceVars, carries, bearer, broken, dbVars, faults>>

CommitReturns_ThenFails(r) ==
  /\ stage[r] = "committing" /\ r \notin broken
  /\ tx[r] = "committed"
  /\ Answer(r, 500)
  /\ UNCHANGED <<deviceVars, carries, bearer, broken, dbVars, faults>>

CommitReturns(r) ==
  /\ stage[r] = "committing" /\ r \notin broken
  /\ tx[r] = "committed"
  /\ Answer(r, 200)
  /\ UNCHANGED <<deviceVars, carries, bearer, broken, dbVars, faults>>

CommitFails_As422(r) ==
  /\ stage[r] \in {"inserted", "committing"} /\ r \in broken
  /\ Answer(r, 422)
  /\ UNCHANGED <<deviceVars, carries, bearer, broken, dbVars, faults>>

CommitFails_OnlyBefore(r) ==
  /\ stage[r] = "inserted" /\ r \in broken
  /\ Answer(r, 500)
  /\ UNCHANGED <<deviceVars, carries, bearer, broken, dbVars, faults>>

(* The session finds its connection gone; it cannot know whether a COMMIT  *)
(* it has sent took effect.                                                *)
CommitFails(r) ==
  /\ stage[r] \in {"inserted", "committing"} /\ r \in broken
  /\ Answer(r, 500)
  /\ UNCHANGED <<deviceVars, carries, bearer, broken, dbVars, faults>>

Handle(r) ==
  \/ Authenticate(r) \/ ParseAndValidate(r)
  \/ Insert(r) \/ InsertFails(r)
  \/ BeginCommit(r) \/ CommitReturns(r) \/ CommitFails(r)
-----------------------------------------------------------------------------
(* PostgreSQL, and what goes wrong.                                        *)

DbCommits(r) ==
  /\ tx[r] = "committing" /\ dbUp
  /\ tx' = [tx EXCEPT ![r] = "committed"]
  /\ table' = table \cup RowsBy(r)
  /\ UNCHANGED <<deviceVars, carries, bearer, stage, status, broken, dbUp, faults>>

(* A transaction whose client is gone ends aborted, unless its COMMIT has  *)
(* been received: those in `lost` have sent one that never arrives.        *)
AbortAfterLoss(gone, lost) ==
  [r \in Requests |->
     IF r \in gone /\ (tx[r] = "open" \/ (tx[r] = "committing" /\ r \in lost))
       THEN "aborted" ELSE tx[r]]

Connected == {r \in Requests : stage[r] \in {"inserted", "committing"} /\ r \notin broken}

BreakConnection(r) ==
  /\ faults > 0 /\ faults' = faults - 1
  /\ r \in Connected
  /\ broken' = broken \cup {r}
  /\ \E lost \in SUBSET {r} : tx' = AbortAfterLoss({r}, lost)
  /\ UNCHANGED <<deviceVars, carries, bearer, stage, status, table, dbUp>>

(* A worker process dies with the requests it serves; the container        *)
(* runtime starts a new one, which knows nothing of them.                  *)
CrashWorker(served) ==
  /\ faults > 0 /\ faults' = faults - 1
  /\ \A r \in served : stage[r] \notin {"idle", "over"}
  /\ stage' = [r \in Requests |-> IF r \in served THEN "over" ELSE stage[r]]
  /\ \E lost \in SUBSET served : tx' = AbortAfterLoss(served, lost)
  /\ UNCHANGED <<deviceVars, carries, bearer, status, broken, table, dbUp>>

DbStops ==
  /\ faults > 0 /\ faults' = faults - 1
  /\ dbUp /\ dbUp' = FALSE
  /\ broken' = broken \cup Connected
  /\ tx' = AbortAfterLoss(Requests, Requests)
  /\ UNCHANGED <<deviceVars, carries, bearer, stage, status, table>>

DbStarts ==
  /\ ~dbUp /\ dbUp' = TRUE
  /\ UNCHANGED <<deviceVars, carries, bearer, stage, status, broken, tx, table, faults>>

Next ==
  \/ \E b \in Batches, r \in Requests : Send(b, r)
  \/ \E b \in Batches : Receive(b) \/ NoticeReset(b) \/ GiveUp(b) \/ FixToken(b)
  \/ \E r \in Requests : Handle(r) \/ DbCommits(r) \/ BreakConnection(r)
  \/ \E served \in SUBSET Requests \ {{}} : CrashWorker(served)
  \/ DbStops \/ DbStarts

SafeSpec == Init /\ [][Next]_vars

(***************************************************************************)
(* The event loop resumes every handler, PostgreSQL finishes a COMMIT it   *)
(* has received and is started again, the device flushes its queue,        *)
(* notices an answer or a reset, and its user fixes the token.             *)
(***************************************************************************)
Fairness ==
  /\ \A r \in Requests : WF_vars(Handle(r)) /\ WF_vars(DbCommits(r))
  /\ \A b \in Batches : /\ WF_vars(\E r \in Requests : Send(b, r))
                        /\ WF_vars(Receive(b) \/ NoticeReset(b))
                        /\ WF_vars(FixToken(b))
  /\ WF_vars(DbStarts)

Spec == SafeSpec /\ Fairness
-----------------------------------------------------------------------------
TypeOK ==
  /\ fate \in [Batches -> {"queued", "paused", "deleted", "dropped"}]
  /\ credential \in [Batches -> {"missing", "unknown", "known"}]
  /\ current \in [Batches -> Requests \cup {None}]
  /\ heard \in [Requests -> {Pending, Lost} \cup Statuses]
  /\ carries \in [Requests -> Batches \cup {None}]
  /\ bearer \in [Requests -> {"missing", "unknown", "known"}]
  /\ stage \in [Requests -> Stages]
  /\ status \in [Requests -> {0} \cup Statuses]
  /\ broken \subseteq Requests
  /\ tx \in [Requests -> {"none", "open", "committing", "committed", "aborted"}]
  /\ table \subseteq Requests \X Positions
  /\ dbUp \in BOOLEAN
  /\ faults \in 0..MaxFaults

StoredIn(r) == {row \in table : row[1] = r}

(* A batch file is deleted only when every event of it that the API        *)
(* accepted is in the table, whatever crashed, broke or was retried on the *)
(* way: "zero data is lost" (ARCHITECTURE.md:130-132, db.py:85-87).        *)
DeletedIsStored ==
  \A b \in Batches : fate[b] = "deleted" =>
    \A i \in RowSet[b] : \E r \in Requests : carries[r] = b /\ <<r, i>> \in table

(* A batch a device drops after a 413 or 422 is in the table in no part,   *)
(* not even from an earlier or a late attempt (events.py:84-134).          *)
DroppedIsNowhere ==
  \A b \in Batches : fate[b] = "dropped" =>
    \A r \in Requests : carries[r] = b => StoredIn(r) = {}

(* There is no deduplication (ARCHITECTURE.md:139-142), but of two stored  *)
(* copies of a batch at most one comes from a request whose 200 the device *)
(* saw or may still see; a copy it was told 500 about comes from a broken  *)
(* database connection, and no other status leaves a copy behind.          *)
DuplicatesOnlyInDoubt ==
  \A r \in Requests : StoredIn(r) # {} =>
    /\ heard[r] \in {Pending, Lost, 200, 500}
    /\ heard[r] = 500 => r \in broken
    /\ \A s \in Requests :
         /\ s # r /\ carries[s] = carries[r] /\ StoredIn(s) # {}
         /\ heard[s] \in {Pending, 200}
         => heard[r] \notin {Pending, 200}

(* The table only grows, and by all the rows of one batch or by none, also *)
(* when PostgreSQL refuses a row after it has taken others: the INSERT is  *)
(* one statement in one transaction (events.py:148-153, db.py:84-90).      *)
WholeBatchAtOnce ==
  [][\/ table' = table
     \/ \E r \in Requests : /\ carries[r] # None /\ StoredIn(r) = {}
                            /\ table' = table \cup RowsBy(r)]_vars

(* Delivery, read in this state: a copy of a batch is a request that left  *)
(* rows, and a paused batch is still in the queue.                         *)
Promise == INSTANCE Delivery WITH
  Copies    <- Requests,
  Storable  <- {b \in Batches : /\ Verdict[b] = 0
                                /\ b \notin Unstorable /\ RowSet[b] # {}},
  Empty     <- {b \in Batches : Verdict[b] = 0 /\ RowSet[b] = {}},
  Refusable <- {b \in Batches : Verdict[b] \in {413, 422}},
  place     <- [b \in Batches |-> IF fate[b] = "paused" THEN "queued" ELSE fate[b]],
  copies    <- [b \in Batches |-> {r \in Requests : carries[r] = b /\ StoredIn(r) # {}}]

(* Every step of device, API, database and faults together is a step of    *)
(* Delivery or changes nothing Delivery can see (ARCHITECTURE.md:130-142). *)
ImplementsDelivery == Promise!SafeSpec

(* And under the fairness above Delivery's own fairness follows: a batch   *)
(* with rows gets its first copy, and one the API can settle is settled.   *)
DeliversWhatItPromises == Promise!Spec

Settled(b) == fate[b] \in {"deleted", "dropped"}

(* Finitely many faults delay a batch that the API can accept or refuse,   *)
(* and never keep it in the queue for good.                                *)
EveryBatchSettles ==
  \A b \in Batches : ~Poisoned(Content[b]) => <>Settled(b)

(* "skips bad rows with a soft error in the response, so a single rotten   *)
(* event never wedges a device's queue" (events.py:8-9): every batch       *)
(* leaves the queue.                                                       *)
NeverWedged == \A b \in Batches : <>Settled(b)
=============================================================================
