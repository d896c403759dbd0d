---------------------------- MODULE IngestProofs ----------------------------
(***************************************************************************)
(* Proofs about Ingest, for any set of batches, contents, requests and     *)
(* number of faults: what a 200, 413 or 422 is worth, where duplicates     *)
(* come from, and that the ingest path implements Delivery.                *)
(***************************************************************************)
EXTENDS Ingest, TLAPS

-----------------------------------------------------------------------------
(* The inductive invariant, in parts.                                      *)

(* A request and its transaction advance together.                         *)
LifecycleOf(r) ==
  /\ stage[r] # "idle" => carries[r] \in Batches
  /\ stage[r] \in {"idle", "arrived", "reading", "inserting"} => tx[r] = "none"
  /\ stage[r] = "inserted" => tx[r] \in {"open", "aborted"}
  /\ tx[r] = "open" => stage[r] = "inserted"
  /\ r \in broken => stage[r] \in {"inserted", "committing", "over"} /\ tx[r] # "open"
  /\ status[r] # 0 => stage[r] = "over"

Lifecycle == \A r \in Requests : LifecycleOf(r)

(* The table holds the rows of the committed transactions, all of them and *)
(* no others.                                                              *)
TableIsCommitted ==
  \A r \in Requests : \A i \in Positions :
    <<r, i>> \in table <=> tx[r] = "committed" /\ i \in RowSet[carries[r]]

(* Only a request whose batch the API does not refuse has a transaction.   *)
Unrefused ==
  \A r \in Requests :
    stage[r] = "inserting" \/ tx[r] # "none" => Verdict[carries[r]] = 0

(* A 200 says that the rows, if any, are committed; a 413 or a 422 that    *)
(* the batch is refused whenever it is sent.                               *)
AnswersAreTrue ==
  \A r \in Requests :
    /\ status[r] = 200 => RowSet[carries[r]] = {} \/ tx[r] = "committed"
    /\ status[r] \in {413, 422} => Verdict[carries[r]] = status[r]

(* A device waits for a request that carries its batch.                    *)
WaitsForItsOwn ==
  \A b \in Batches :
    current[b] # None => stage[current[b]] # "idle" /\ carries[current[b]] = b

DeletedIsCommitted ==
  \A b \in Batches : fate[b] = "deleted" =>
    RowSet[b] = {} \/ \E r \in Requests : carries[r] = b /\ tx[r] = "committed"

DroppedIsRefused ==
  \A b \in Batches : fate[b] = "dropped" => Verdict[b] \in {413, 422}

IInv ==
  /\ TypeOK
  /\ Lifecycle
  /\ TableIsCommitted
  /\ Unrefused
  /\ AnswersAreTrue
  /\ WaitsForItsOwn
  /\ DeletedIsCommitted
  /\ DroppedIsRefused
-----------------------------------------------------------------------------
(* Lemmas about the operators of the model.                                *)

(* The handler refuses a body with one of three statuses, or not at all.   *)
LEMMA VerdictValues == \A b \in Batches : Verdict[b] \in {0, 413, 422, 500}
  BY DEF Verdict, Refusal

(* Losing clients turns open and committing transactions into aborted ones *)
(* and touches no other: none that is committed, none that has not begun.  *)
LEMMA AbortIsLocal ==
  ASSUME TypeOK, NEW gone, NEW lost, tx' = AbortAfterLoss(gone, lost)
  PROVE  /\ tx' \in [Requests -> {"none", "open", "committing", "committed", "aborted"}]
         /\ \A r \in Requests :
              \/ tx'[r] = tx[r]
              \/ tx[r] \in {"open", "committing"} /\ tx'[r] = "aborted"
         /\ \A r \in Requests : r \in gone => tx'[r] # "open"
  BY DEF AbortAfterLoss, TypeOK

(* A step that leaves the table and the set of committed transactions      *)
(* alone, and the batch of each of these, keeps the table in line.         *)
LEMMA TableFrame ==
  ASSUME TableIsCommitted, table' = table,
         \A r \in Requests :
           /\ tx'[r] = "committed" <=> tx[r] = "committed"
           /\ tx[r] = "committed" => carries'[r] = carries[r]
  PROVE  TableIsCommitted'
  BY DEF TableIsCommitted

-----------------------------------------------------------------------------
(* Each action keeps the invariant.                                        *)

(* A device sends a batch with a request that left nothing behind.         *)
LEMMA SendKeeps ==
  ASSUME IInv, NEW b \in Batches, NEW r \in Requests, Send(b, r)
  PROVE  IInv'
<1> USE DEF Send, Reusable, deviceVars, dbVars
<1>0. /\ TypeOK /\ Lifecycle /\ TableIsCommitted /\ Unrefused
      /\ AnswersAreTrue /\ WaitsForItsOwn /\ DeletedIsCommitted /\ DroppedIsRefused
  BY DEF IInv
<1>1. TypeOK'
  BY <1>0 DEF TypeOK, Stages, Statuses, Pending, Lost
<1>2. Lifecycle'
  BY <1>0 DEF TypeOK, Lifecycle, LifecycleOf
<1>3. TableIsCommitted'
  BY <1>0, TableFrame DEF TypeOK, Lifecycle, LifecycleOf
<1>4. Unrefused'
  BY <1>0 DEF TypeOK, Lifecycle, LifecycleOf, Unrefused
<1>5. AnswersAreTrue'
  BY <1>0 DEF TypeOK, Lifecycle, LifecycleOf, AnswersAreTrue
<1>6. WaitsForItsOwn'
  BY <1>0, NoneAssumption DEF TypeOK, Lifecycle, LifecycleOf, WaitsForItsOwn
<1>7. DeletedIsCommitted'
  BY <1>0 DEF TypeOK, DeletedIsCommitted
<1>8. DroppedIsRefused'
  BY <1>0 DEF TypeOK, DroppedIsRefused
<1>9. QED
  BY <1>1, <1>2, <1>3, <1>4, <1>5, <1>6, <1>7, <1>8 DEF IInv

(* The status decides what becomes of the batch.                           *)
LEMMA ReceiveKeeps ==
  ASSUME IInv, NEW b \in Batches, Receive(b)
  PROVE  IInv'
<1> USE DEF Receive, deviceVars, dbVars
<1>0. /\ TypeOK /\ Lifecycle /\ TableIsCommitted /\ Unrefused
      /\ AnswersAreTrue /\ WaitsForItsOwn /\ DeletedIsCommitted /\ DroppedIsRefused
  BY DEF IInv
<1>a. current[b] \in Requests /\ carries[current[b]] = b
  BY <1>0 DEF TypeOK, WaitsForItsOwn
<1>b. /\ Outcome(status[current[b]]) \in {"queued", "paused", "deleted", "dropped"}
      /\ Outcome(status[current[b]]) = "deleted" => status[current[b]] = 200
      /\ Outcome(status[current[b]]) = "dropped" => status[current[b]] \in {413, 422}
  BY <1>0, <1>a DEF TypeOK, Statuses, Outcome
<1>1. TypeOK'
  BY <1>0, <1>a, <1>b DEF TypeOK, Statuses
<1>2. Lifecycle'
  BY <1>0 DEF TypeOK, Lifecycle, LifecycleOf
<1>3. TableIsCommitted'
  BY <1>0, TableFrame DEF TypeOK, Lifecycle, LifecycleOf
<1>4. Unrefused'
  BY <1>0 DEF TypeOK, Lifecycle, LifecycleOf, Unrefused
<1>5. AnswersAreTrue'
  BY <1>0 DEF TypeOK, Lifecycle, LifecycleOf, AnswersAreTrue
<1>6. WaitsForItsOwn'
  BY <1>0, NoneAssumption DEF TypeOK, Lifecycle, LifecycleOf, WaitsForItsOwn
<1>7. DeletedIsCommitted'
  BY <1>0, <1>a, <1>b DEF TypeOK, AnswersAreTrue, DeletedIsCommitted
<1>8. DroppedIsRefused'
  BY <1>0, <1>a, <1>b DEF TypeOK, AnswersAreTrue, DroppedIsRefused
<1>9. QED
  BY <1>1, <1>2, <1>3, <1>4, <1>5, <1>6, <1>7, <1>8 DEF IInv

(* A reset leaves the batch in the queue.                                  *)
LEMMA NoticeResetKeeps ==
  ASSUME IInv, NEW b \in Batches, NoticeReset(b)
  PROVE  IInv'
<1> USE DEF NoticeReset, Abandon, deviceVars, dbVars
<1>0. /\ TypeOK /\ Lifecycle /\ TableIsCommitted /\ Unrefused
      /\ AnswersAreTrue /\ WaitsForItsOwn /\ DeletedIsCommitted /\ DroppedIsRefused
  BY DEF IInv
<1>1. TypeOK'
  BY <1>0 DEF TypeOK, Stages, Statuses, Pending, Lost
<1>2. Lifecycle'
  BY <1>0 DEF TypeOK, Lifecycle, LifecycleOf
<1>3. TableIsCommitted'
  BY <1>0, TableFrame DEF TypeOK, Lifecycle, LifecycleOf
<1>4. Unrefused'
  BY <1>0 DEF TypeOK, Lifecycle, LifecycleOf, Unrefused
<1>5. AnswersAreTrue'
  BY <1>0 DEF TypeOK, Lifecycle, LifecycleOf, AnswersAreTrue
<1>6. WaitsForItsOwn'
  BY <1>0, NoneAssumption DEF TypeOK, Lifecycle, LifecycleOf, WaitsForItsOwn
<1>7. DeletedIsCommitted'
  BY <1>0 DEF TypeOK, DeletedIsCommitted
<1>8. DroppedIsRefused'
  BY <1>0 DEF TypeOK, DroppedIsRefused
<1>9. QED
  BY <1>1, <1>2, <1>3, <1>4, <1>5, <1>6, <1>7, <1>8 DEF IInv

(* So does a timeout.                                                      *)
LEMMA GiveUpKeeps ==
  ASSUME IInv, NEW b \in Batches, GiveUp(b)
  PROVE  IInv'
<1> USE DEF GiveUp, Abandon, deviceVars, dbVars
<1>0. /\ TypeOK /\ Lifecycle /\ TableIsCommitted /\ Unrefused
      /\ AnswersAreTrue /\ WaitsForItsOwn /\ DeletedIsCommitted /\ DroppedIsRefused
  BY DEF IInv
<1>1. TypeOK'
  BY <1>0, FaultsAssumption DEF TypeOK, Stages, Statuses, Pending, Lost
<1>2. Lifecycle'
  BY <1>0 DEF TypeOK, Lifecycle, LifecycleOf
<1>3. TableIsCommitted'
  BY <1>0, TableFrame DEF TypeOK, Lifecycle, LifecycleOf
<1>4. Unrefused'
  BY <1>0 DEF TypeOK, Lifecycle, LifecycleOf, Unrefused
<1>5. AnswersAreTrue'
  BY <1>0 DEF TypeOK, Lifecycle, LifecycleOf, AnswersAreTrue
<1>6. WaitsForItsOwn'
  BY <1>0, NoneAssumption DEF TypeOK, Lifecycle, LifecycleOf, WaitsForItsOwn
<1>7. DeletedIsCommitted'
  BY <1>0 DEF TypeOK, DeletedIsCommitted
<1>8. DroppedIsRefused'
  BY <1>0 DEF TypeOK, DroppedIsRefused
<1>9. QED
  BY <1>1, <1>2, <1>3, <1>4, <1>5, <1>6, <1>7, <1>8 DEF IInv

(* A fixed token brings a paused batch back.                               *)
LEMMA FixTokenKeeps ==
  ASSUME IInv, NEW b \in Batches, FixToken(b)
  PROVE  IInv'
<1> USE DEF FixToken, deviceVars, dbVars
<1>0. /\ TypeOK /\ Lifecycle /\ TableIsCommitted /\ Unrefused
      /\ AnswersAreTrue /\ WaitsForItsOwn /\ DeletedIsCommitted /\ DroppedIsRefused
  BY DEF IInv
<1>1. TypeOK'
  BY <1>0 DEF TypeOK, Stages, Statuses, Pending, Lost
<1>2. Lifecycle'
  BY <1>0 DEF TypeOK, Lifecycle, LifecycleOf
<1>3. TableIsCommitted'
  BY <1>0, TableFrame DEF TypeOK, Lifecycle, LifecycleOf
<1>4. Unrefused'
  BY <1>0 DEF TypeOK, Lifecycle, LifecycleOf, Unrefused
<1>5. AnswersAreTrue'
  BY <1>0 DEF TypeOK, Lifecycle, LifecycleOf, AnswersAreTrue
<1>6. WaitsForItsOwn'
  BY <1>0, NoneAssumption DEF TypeOK, Lifecycle, LifecycleOf, WaitsForItsOwn
<1>7. DeletedIsCommitted'
  BY <1>0 DEF TypeOK, DeletedIsCommitted
<1>8. DroppedIsRefused'
  BY <1>0 DEF TypeOK, DroppedIsRefused
<1>9. QED
  BY <1>1, <1>2, <1>3, <1>4, <1>5, <1>6, <1>7, <1>8 DEF IInv

(* 401 and 403 come before any transaction.                                *)
LEMMA AuthenticateKeeps ==
  ASSUME IInv, NEW r \in Requests, Authenticate(r)
  PROVE  IInv'
<1> USE DEF Authenticate, Answer, Enter, deviceVars, dbVars
<1>0. /\ TypeOK /\ Lifecycle /\ TableIsCommitted /\ Unrefused
      /\ AnswersAreTrue /\ WaitsForItsOwn /\ DeletedIsCommitted /\ DroppedIsRefused
  BY DEF IInv
<1>1. TypeOK'
  BY <1>0 DEF TypeOK, Stages, Statuses, Pending, Lost
<1>2. Lifecycle'
  BY <1>0 DEF TypeOK, Lifecycle, LifecycleOf
<1>3. TableIsCommitted'
  BY <1>0, TableFrame DEF TypeOK, Lifecycle, LifecycleOf
<1>4. Unrefused'
  BY <1>0 DEF TypeOK, Lifecycle, LifecycleOf, Unrefused
<1>5. AnswersAreTrue'
  BY <1>0 DEF TypeOK, Lifecycle, LifecycleOf, AnswersAreTrue
<1>6. WaitsForItsOwn'
  BY <1>0, NoneAssumption DEF TypeOK, Lifecycle, LifecycleOf, WaitsForItsOwn
<1>7. DeletedIsCommitted'
  BY <1>0 DEF TypeOK, DeletedIsCommitted
<1>8. DroppedIsRefused'
  BY <1>0 DEF TypeOK, DroppedIsRefused
<1>9. QED
  BY <1>1, <1>2, <1>3, <1>4, <1>5, <1>6, <1>7, <1>8 DEF IInv

(* A refusal, an empty batch, or a batch with rows.                        *)
LEMMA ParseAndValidateKeeps ==
  ASSUME IInv, NEW r \in Requests, ParseAndValidate(r)
  PROVE  IInv'
<1> USE DEF ParseAndValidate, Answer, Enter, deviceVars, dbVars
<1>0. /\ TypeOK /\ Lifecycle /\ TableIsCommitted /\ Unrefused
      /\ AnswersAreTrue /\ WaitsForItsOwn /\ DeletedIsCommitted /\ DroppedIsRefused
  BY DEF IInv
<1>1. TypeOK'
  <2>1. stage[r] = "reading" /\ carries[r] \in Batches
    BY <1>0 DEF TypeOK, Lifecycle, LifecycleOf
  <2>2. Verdict[carries[r]] \in {0, 413, 422, 500}
    BY <2>1, VerdictValues
  <2>3. QED
    BY <1>0, <2>1, <2>2 DEF TypeOK, Stages, Statuses, Pending, Lost
<1>2. Lifecycle'
  BY <1>0 DEF TypeOK, Lifecycle, LifecycleOf
<1>3. TableIsCommitted'
  BY <1>0, TableFrame DEF TypeOK, Lifecycle, LifecycleOf
<1>4. Unrefused'
  BY <1>0 DEF TypeOK, Lifecycle, LifecycleOf, Unrefused
<1>5. AnswersAreTrue'
  BY <1>0, VerdictValues DEF TypeOK, Lifecycle, LifecycleOf, AnswersAreTrue
<1>6. WaitsForItsOwn'
  BY <1>0, NoneAssumption DEF TypeOK, Lifecycle, LifecycleOf, WaitsForItsOwn
<1>7. DeletedIsCommitted'
  BY <1>0 DEF TypeOK, DeletedIsCommitted
<1>8. DroppedIsRefused'
  BY <1>0 DEF TypeOK, DroppedIsRefused
<1>9. QED
  BY <1>1, <1>2, <1>3, <1>4, <1>5, <1>6, <1>7, <1>8 DEF IInv

(* The transaction opens.                                                  *)
LEMMA InsertKeeps ==
  ASSUME IInv, NEW r \in Requests, Insert(r)
  PROVE  IInv'
<1> USE DEF Insert, Enter, deviceVars, dbVars
<1>0. /\ TypeOK /\ Lifecycle /\ TableIsCommitted /\ Unrefused
      /\ AnswersAreTrue /\ WaitsForItsOwn /\ DeletedIsCommitted /\ DroppedIsRefused
  BY DEF IInv
<1>1. TypeOK'
  BY <1>0 DEF TypeOK, Stages, Statuses, Pending, Lost
<1>2. Lifecycle'
  BY <1>0 DEF TypeOK, Lifecycle, LifecycleOf
<1>3. TableIsCommitted'
  BY <1>0, TableFrame DEF TypeOK, Lifecycle, LifecycleOf
<1>4. Unrefused'
  BY <1>0 DEF TypeOK, Lifecycle, LifecycleOf, Unrefused
<1>5. AnswersAreTrue'
  BY <1>0 DEF TypeOK, Lifecycle, LifecycleOf, AnswersAreTrue
<1>6. WaitsForItsOwn'
  BY <1>0, NoneAssumption DEF TypeOK, Lifecycle, LifecycleOf, WaitsForItsOwn
<1>7. DeletedIsCommitted'
  BY <1>0 DEF TypeOK, Lifecycle, LifecycleOf, DeletedIsCommitted
<1>8. DroppedIsRefused'
  BY <1>0 DEF TypeOK, DroppedIsRefused
<1>9. QED
  BY <1>1, <1>2, <1>3, <1>4, <1>5, <1>6, <1>7, <1>8 DEF IInv

(* It does not.                                                            *)
LEMMA InsertFailsKeeps ==
  ASSUME IInv, NEW r \in Requests, InsertFails(r)
  PROVE  IInv'
<1> USE DEF InsertFails, Answer, deviceVars, dbVars
<1>0. /\ TypeOK /\ Lifecycle /\ TableIsCommitted /\ Unrefused
      /\ AnswersAreTrue /\ WaitsForItsOwn /\ DeletedIsCommitted /\ DroppedIsRefused
  BY DEF IInv
<1>1. TypeOK'
  BY <1>0 DEF TypeOK, Stages, Statuses, Pending, Lost
<1>2. Lifecycle'
  BY <1>0 DEF TypeOK, Lifecycle, LifecycleOf
<1>3. TableIsCommitted'
  BY <1>0, TableFrame DEF TypeOK, Lifecycle, LifecycleOf
<1>4. Unrefused'
  BY <1>0 DEF TypeOK, Lifecycle, LifecycleOf, Unrefused
<1>5. AnswersAreTrue'
  BY <1>0 DEF TypeOK, Lifecycle, LifecycleOf, AnswersAreTrue
<1>6. WaitsForItsOwn'
  BY <1>0, NoneAssumption DEF TypeOK, Lifecycle, LifecycleOf, WaitsForItsOwn
<1>7. DeletedIsCommitted'
  BY <1>0 DEF TypeOK, DeletedIsCommitted
<1>8. DroppedIsRefused'
  BY <1>0 DEF TypeOK, DroppedIsRefused
<1>9. QED
  BY <1>1, <1>2, <1>3, <1>4, <1>5, <1>6, <1>7, <1>8 DEF IInv

(* COMMIT is sent on a connection that was good.                           *)
LEMMA BeginCommitKeeps ==
  ASSUME IInv, NEW r \in Requests, BeginCommit(r)
  PROVE  IInv'
<1> USE DEF BeginCommit, Enter, deviceVars, dbVars
<1>0. /\ TypeOK /\ Lifecycle /\ TableIsCommitted /\ Unrefused
      /\ AnswersAreTrue /\ WaitsForItsOwn /\ DeletedIsCommitted /\ DroppedIsRefused
  BY DEF IInv
<1>1. TypeOK'
  BY <1>0 DEF TypeOK, Stages, Statuses, Pending, Lost
<1>2. Lifecycle'
  BY <1>0 DEF TypeOK, Lifecycle, LifecycleOf
<1>3. TableIsCommitted'
  BY <1>0, TableFrame DEF TypeOK, Lifecycle, LifecycleOf
<1>4. Unrefused'
  BY <1>0 DEF TypeOK, Lifecycle, LifecycleOf, Unrefused
<1>5. AnswersAreTrue'
  BY <1>0 DEF TypeOK, Lifecycle, LifecycleOf, AnswersAreTrue
<1>6. WaitsForItsOwn'
  BY <1>0, NoneAssumption DEF TypeOK, Lifecycle, LifecycleOf, WaitsForItsOwn
<1>7. DeletedIsCommitted'
  BY <1>0 DEF TypeOK, Lifecycle, LifecycleOf, DeletedIsCommitted
<1>8. DroppedIsRefused'
  BY <1>0 DEF TypeOK, DroppedIsRefused
<1>9. QED
  BY <1>1, <1>2, <1>3, <1>4, <1>5, <1>6, <1>7, <1>8 DEF IInv

(* 200 is answered once PostgreSQL has confirmed.                          *)
LEMMA CommitReturnsKeeps ==
  ASSUME IInv, NEW r \in Requests, CommitReturns(r)
  PROVE  IInv'
<1> USE DEF CommitReturns, Answer, deviceVars, dbVars
<1>0. /\ TypeOK /\ Lifecycle /\ TableIsCommitted /\ Unrefused
      /\ AnswersAreTrue /\ WaitsForItsOwn /\ DeletedIsCommitted /\ DroppedIsRefused
  BY DEF IInv
<1>1. TypeOK'
  BY <1>0 DEF TypeOK, Stages, Statuses, Pending, Lost
<1>2. Lifecycle'
  BY <1>0 DEF TypeOK, Lifecycle, LifecycleOf
<1>3. TableIsCommitted'
  BY <1>0, TableFrame DEF TypeOK, Lifecycle, LifecycleOf
<1>4. Unrefused'
  BY <1>0 DEF TypeOK, Lifecycle, LifecycleOf, Unrefused
<1>5. AnswersAreTrue'
  BY <1>0 DEF TypeOK, Lifecycle, LifecycleOf, AnswersAreTrue
<1>6. WaitsForItsOwn'
  BY <1>0, NoneAssumption DEF TypeOK, Lifecycle, LifecycleOf, WaitsForItsOwn
<1>7. DeletedIsCommitted'
  BY <1>0 DEF TypeOK, DeletedIsCommitted
<1>8. DroppedIsRefused'
  BY <1>0 DEF TypeOK, DroppedIsRefused
<1>9. QED
  BY <1>1, <1>2, <1>3, <1>4, <1>5, <1>6, <1>7, <1>8 DEF IInv

(* 500 is answered whatever became of the COMMIT.                          *)
LEMMA CommitFailsKeeps ==
  ASSUME IInv, NEW r \in Requests, CommitFails(r)
  PROVE  IInv'
<1> USE DEF CommitFails, Answer, deviceVars, dbVars
<1>0. /\ TypeOK /\ Lifecycle /\ TableIsCommitted /\ Unrefused
      /\ AnswersAreTrue /\ WaitsForItsOwn /\ DeletedIsCommitted /\ DroppedIsRefused
  BY DEF IInv
<1>1. TypeOK'
  BY <1>0 DEF TypeOK, Stages, Statuses, Pending, Lost
<1>2. Lifecycle'
  BY <1>0 DEF TypeOK, Lifecycle, LifecycleOf
<1>3. TableIsCommitted'
  BY <1>0, TableFrame DEF TypeOK, Lifecycle, LifecycleOf
<1>4. Unrefused'
  BY <1>0 DEF TypeOK, Lifecycle, LifecycleOf, Unrefused
<1>5. AnswersAreTrue'
  BY <1>0 DEF TypeOK, Lifecycle, LifecycleOf, AnswersAreTrue
<1>6. WaitsForItsOwn'
  BY <1>0, NoneAssumption DEF TypeOK, Lifecycle, LifecycleOf, WaitsForItsOwn
<1>7. DeletedIsCommitted'
  BY <1>0 DEF TypeOK, DeletedIsCommitted
<1>8. DroppedIsRefused'
  BY <1>0 DEF TypeOK, DroppedIsRefused
<1>9. QED
  BY <1>1, <1>2, <1>3, <1>4, <1>5, <1>6, <1>7, <1>8 DEF IInv

(* The rows of one request enter the table.                                *)
LEMMA DbCommitsKeeps ==
  ASSUME IInv, NEW r \in Requests, DbCommits(r)
  PROVE  IInv'
<1> USE DEF DbCommits, deviceVars, dbVars
<1>0. /\ TypeOK /\ Lifecycle /\ TableIsCommitted /\ Unrefused
      /\ AnswersAreTrue /\ WaitsForItsOwn /\ DeletedIsCommitted /\ DroppedIsRefused
  BY DEF IInv
<1>a. carries[r] \in Batches
  BY <1>0 DEF TypeOK, Lifecycle, LifecycleOf
<1>b. RowSet[carries[r]] \subseteq Positions
  BY <1>a DEF Positions
<1>c. \A s \in Requests, i \in Positions :
        <<s, i>> \in table' <=> <<s, i>> \in table \/ (s = r /\ i \in RowSet[carries[r]])
  BY DEF RowsBy
<1>1. TypeOK'
  BY <1>0, <1>b DEF TypeOK, RowsBy, Stages, Statuses
<1>2. Lifecycle'
  BY <1>0 DEF TypeOK, Lifecycle, LifecycleOf
<1>3. TableIsCommitted'
  <2> SUFFICES ASSUME NEW s \in Requests, NEW i \in Positions
               PROVE  <<s, i>> \in table' <=> tx'[s] = "committed" /\ i \in RowSet[carries'[s]]
    BY DEF TableIsCommitted
  <2>1. <<s, i>> \in table <=> tx[s] = "committed" /\ i \in RowSet[carries[s]]
    BY <1>0 DEF TableIsCommitted
  <2>2. CASE s = r
    BY <1>0, <1>c, <2>1, <2>2 DEF TypeOK
  <2>3. CASE s # r
    BY <1>0, <1>c, <2>1, <2>3 DEF TypeOK
  <2>4. QED
    BY <2>2, <2>3
<1>4. Unrefused'
  BY <1>0 DEF TypeOK, Lifecycle, LifecycleOf, Unrefused
<1>5. AnswersAreTrue'
  BY <1>0 DEF TypeOK, Lifecycle, LifecycleOf, AnswersAreTrue
<1>6. WaitsForItsOwn'
  BY <1>0, NoneAssumption DEF TypeOK, Lifecycle, LifecycleOf, WaitsForItsOwn
<1>7. DeletedIsCommitted'
  BY <1>0 DEF TypeOK, DeletedIsCommitted
<1>8. DroppedIsRefused'
  BY <1>0 DEF TypeOK, DroppedIsRefused
<1>9. QED
  BY <1>1, <1>2, <1>3, <1>4, <1>5, <1>6, <1>7, <1>8 DEF IInv

(* A connection breaks under a transaction.                                *)
LEMMA BreakConnectionKeeps ==
  ASSUME IInv, NEW r \in Requests, BreakConnection(r)
  PROVE  IInv'
<1>0. /\ TypeOK /\ Lifecycle /\ TableIsCommitted /\ Unrefused
      /\ AnswersAreTrue /\ WaitsForItsOwn /\ DeletedIsCommitted /\ DroppedIsRefused
  BY DEF IInv
<1>a. PICK lost : tx' = AbortAfterLoss({r}, lost)
  BY DEF BreakConnection
<1>b. /\ tx' \in [Requests -> {"none", "open", "committing", "committed", "aborted"}]
      /\ \A s \in Requests :
           \/ tx'[s] = tx[s]
           \/ tx[s] \in {"open", "committing"} /\ tx'[s] = "aborted"
      /\ tx'[r] # "open"
  BY <1>0, <1>a, AbortIsLocal
<1>c. /\ stage[r] \in {"inserted", "committing"} /\ broken' = broken \cup {r}
      /\ faults' \in 0..MaxFaults
      /\ UNCHANGED <<fate, credential, current, heard, carries, bearer, stage, status, table, dbUp>>
  BY <1>0, FaultsAssumption DEF BreakConnection, Connected, TypeOK, deviceVars
<1>1. TypeOK'
  BY <1>0, <1>b, <1>c DEF TypeOK
<1>2. Lifecycle'
  BY <1>0, <1>b, <1>c DEF TypeOK, Lifecycle, LifecycleOf
<1>3. TableIsCommitted'
  BY <1>0, <1>b, <1>c, TableFrame DEF TypeOK
<1>4. Unrefused'
  BY <1>0, <1>b, <1>c DEF TypeOK, Lifecycle, LifecycleOf, Unrefused
<1>5. AnswersAreTrue'
  BY <1>0, <1>b, <1>c DEF TypeOK, AnswersAreTrue
<1>6. WaitsForItsOwn'
  BY <1>0, <1>c DEF WaitsForItsOwn
<1>7. DeletedIsCommitted'
  BY <1>0, <1>b, <1>c DEF TypeOK, DeletedIsCommitted
<1>8. DroppedIsRefused'
  BY <1>0, <1>c DEF DroppedIsRefused
<1>9. QED
  BY <1>1, <1>2, <1>3, <1>4, <1>5, <1>6, <1>7, <1>8 DEF IInv

(* A process dies with any set of requests.                                *)
LEMMA CrashWorkerKeeps ==
  ASSUME IInv, NEW served \in SUBSET Requests, CrashWorker(served)
  PROVE  IInv'
<1> USE DEF CrashWorker, deviceVars, dbVars
<1>0. /\ TypeOK /\ Lifecycle /\ TableIsCommitted /\ Unrefused
      /\ AnswersAreTrue /\ WaitsForItsOwn /\ DeletedIsCommitted /\ DroppedIsRefused
  BY DEF IInv
<1>a. PICK lost : tx' = AbortAfterLoss(served, lost)
  OBVIOUS
<1>b. /\ tx' \in [Requests -> {"none", "open", "committing", "committed", "aborted"}]
      /\ \A s \in Requests :
           \/ tx'[s] = tx[s]
           \/ tx[s] \in {"open", "committing"} /\ tx'[s] = "aborted"
      /\ \A s \in Requests : s \in served => tx'[s] # "open"
  BY <1>0, <1>a, AbortIsLocal
<1>1. TypeOK'
  BY <1>0, <1>b, FaultsAssumption DEF TypeOK, Stages, Statuses
<1>2. Lifecycle'
  BY <1>0, <1>b DEF TypeOK, Lifecycle, LifecycleOf
<1>3. TableIsCommitted'
  BY <1>0, <1>b, TableFrame DEF TypeOK
<1>4. Unrefused'
  BY <1>0, <1>b DEF TypeOK, Lifecycle, LifecycleOf, Unrefused
<1>5. AnswersAreTrue'
  BY <1>0, <1>b DEF TypeOK, Lifecycle, LifecycleOf, AnswersAreTrue
<1>6. WaitsForItsOwn'
  BY <1>0, NoneAssumption DEF TypeOK, Lifecycle, LifecycleOf, WaitsForItsOwn
<1>7. DeletedIsCommitted'
  BY <1>0, <1>b DEF TypeOK, DeletedIsCommitted
<1>8. DroppedIsRefused'
  BY <1>0 DEF TypeOK, DroppedIsRefused
<1>9. QED
  BY <1>1, <1>2, <1>3, <1>4, <1>5, <1>6, <1>7, <1>8 DEF IInv

(* The database goes down with every open transaction.                     *)
LEMMA DbStopsKeeps ==
  ASSUME IInv, DbStops
  PROVE  IInv'
<1>0. /\ TypeOK /\ Lifecycle /\ TableIsCommitted /\ Unrefused
      /\ AnswersAreTrue /\ WaitsForItsOwn /\ DeletedIsCommitted /\ DroppedIsRefused
  BY DEF IInv
<1>a. tx' = AbortAfterLoss(Requests, Requests)
  BY DEF DbStops
<1>b. /\ tx' \in [Requests -> {"none", "open", "committing", "committed", "aborted"}]
      /\ \A s \in Requests :
           \/ tx'[s] = tx[s]
           \/ tx[s] \in {"open", "committing"} /\ tx'[s] = "aborted"
      /\ \A s \in Requests : tx'[s] # "open"
  BY <1>0, <1>a, AbortIsLocal
<1>c. /\ broken' = broken \cup Connected
      /\ dbUp' = FALSE /\ faults > 0 /\ faults' = faults - 1
      /\ UNCHANGED <<fate, credential, current, heard, carries, bearer, stage, status, table>>
  BY DEF DbStops, deviceVars
<1>d. faults' \in 0..MaxFaults
  BY <1>0, <1>c, FaultsAssumption DEF TypeOK
<1>e. /\ broken' \subseteq Requests
      /\ \A s \in broken' : s \in broken \/ stage[s] \in {"inserted", "committing"}
  BY <1>0, <1>c DEF TypeOK, Connected
<1>1. TypeOK'
  BY <1>0, <1>b, <1>c, <1>d, <1>e DEF TypeOK
<1>2. Lifecycle'
  BY <1>0, <1>b, <1>c, <1>e DEF TypeOK, Lifecycle, LifecycleOf
<1>3. TableIsCommitted'
  BY <1>0, <1>b, <1>c, TableFrame DEF TypeOK
<1>4. Unrefused'
  BY <1>0, <1>b, <1>c DEF TypeOK, Lifecycle, LifecycleOf, Unrefused
<1>5. AnswersAreTrue'
  BY <1>0, <1>b, <1>c DEF TypeOK, AnswersAreTrue
<1>6. WaitsForItsOwn'
  BY <1>0, <1>c DEF WaitsForItsOwn
<1>7. DeletedIsCommitted'
  BY <1>0, <1>b, <1>c DEF TypeOK, DeletedIsCommitted
<1>8. DroppedIsRefused'
  BY <1>0, <1>c DEF DroppedIsRefused
<1>9. QED
  BY <1>1, <1>2, <1>3, <1>4, <1>5, <1>6, <1>7, <1>8 DEF IInv

(* It is up again.                                                         *)
LEMMA DbStartsKeeps ==
  ASSUME IInv, DbStarts
  PROVE  IInv'
<1> USE DEF DbStarts, deviceVars, dbVars
<1>0. /\ TypeOK /\ Lifecycle /\ TableIsCommitted /\ Unrefused
      /\ AnswersAreTrue /\ WaitsForItsOwn /\ DeletedIsCommitted /\ DroppedIsRefused
  BY DEF IInv
<1>1. TypeOK'
  BY <1>0 DEF TypeOK, Stages, Statuses, Pending, Lost
<1>2. Lifecycle'
  BY <1>0 DEF TypeOK, Lifecycle, LifecycleOf
<1>3. TableIsCommitted'
  BY <1>0, TableFrame DEF TypeOK, Lifecycle, LifecycleOf
<1>4. Unrefused'
  BY <1>0 DEF TypeOK, Lifecycle, LifecycleOf, Unrefused
<1>5. AnswersAreTrue'
  BY <1>0 DEF TypeOK, Lifecycle, LifecycleOf, AnswersAreTrue
<1>6. WaitsForItsOwn'
  BY <1>0, NoneAssumption DEF TypeOK, Lifecycle, LifecycleOf, WaitsForItsOwn
<1>7. DeletedIsCommitted'
  BY <1>0 DEF TypeOK, DeletedIsCommitted
<1>8. DroppedIsRefused'
  BY <1>0 DEF TypeOK, DroppedIsRefused
<1>9. QED
  BY <1>1, <1>2, <1>3, <1>4, <1>5, <1>6, <1>7, <1>8 DEF IInv

-----------------------------------------------------------------------------
(* The invariant and what follows from it.                                 *)

(* Before anything is sent every part of the invariant holds.              *)
LEMMA InitHolds == Init => IInv
<1> SUFFICES ASSUME Init PROVE IInv
  OBVIOUS
<1>1. TypeOK
  <2>1. credential \in [Batches -> {"missing", "unknown", "known"}]
    BY CredentialsAssumption DEF Init
  <2>2. faults \in 0..MaxFaults
    BY FaultsAssumption DEF Init
  <2>3. QED
    BY <2>1, <2>2 DEF Init, TypeOK, Stages, Statuses, Pending, Lost
<1>2. Lifecycle /\ TableIsCommitted /\ Unrefused /\ AnswersAreTrue
  BY DEF Init, Lifecycle, LifecycleOf, TableIsCommitted, Unrefused, AnswersAreTrue
<1>3. WaitsForItsOwn /\ DeletedIsCommitted /\ DroppedIsRefused
  BY DEF Init, WaitsForItsOwn, DeletedIsCommitted, DroppedIsRefused
<1>4. QED
  BY <1>1, <1>2, <1>3 DEF IInv

(* A stuttering step changes no variable of the invariant.                 *)
LEMMA StutterKeeps ==
  ASSUME IInv, UNCHANGED vars
  PROVE  IInv'
<1> USE DEF vars
<1>1. TypeOK' /\ Lifecycle' /\ TableIsCommitted' /\ Unrefused'
  BY DEF IInv, TypeOK, Lifecycle, LifecycleOf, TableIsCommitted, Unrefused
<1>2. AnswersAreTrue' /\ WaitsForItsOwn' /\ DeletedIsCommitted' /\ DroppedIsRefused'
  BY DEF IInv, AnswersAreTrue, WaitsForItsOwn, DeletedIsCommitted, DroppedIsRefused
<1>3. QED
  BY <1>1, <1>2 DEF IInv

(* Every step of device, API, database or fault keeps the invariant.       *)
LEMMA NextKeeps == IInv /\ [Next]_vars => IInv'
<1> SUFFICES ASSUME IInv, [Next]_vars PROVE IInv'
  OBVIOUS
<1>1. CASE \E b \in Batches, r \in Requests : Send(b, r)
  BY <1>1, SendKeeps
<1>2. CASE \E b \in Batches : Receive(b) \/ NoticeReset(b) \/ GiveUp(b) \/ FixToken(b)
  BY <1>2, ReceiveKeeps, NoticeResetKeeps, GiveUpKeeps, FixTokenKeeps
<1>3. CASE \E r \in Requests : Handle(r)
  BY <1>3, AuthenticateKeeps, ParseAndValidateKeeps, InsertKeeps, InsertFailsKeeps,
     BeginCommitKeeps, CommitReturnsKeeps, CommitFailsKeeps DEF Handle
<1>4. CASE \E r \in Requests : DbCommits(r) \/ BreakConnection(r)
  BY <1>4, DbCommitsKeeps, BreakConnectionKeeps
<1>5. CASE \E served \in SUBSET Requests \ {{}} : CrashWorker(served)
  BY <1>5, CrashWorkerKeeps
<1>6. CASE DbStops \/ DbStarts
  BY <1>6, DbStopsKeeps, DbStartsKeeps
<1>7. CASE UNCHANGED vars
  BY <1>7, StutterKeeps
<1>8. QED
  BY <1>1, <1>2, <1>3, <1>4, <1>5, <1>6, <1>7 DEF Next

(* Requests, transactions, table and queues agree in every reachable state *)
(* of the ingest path (events.py:71-165, db.py:79-96).                     *)
THEOREM Invariance == SafeSpec => []IInv
  BY InitHolds, NextKeeps, PTL DEF SafeSpec

(* Every variable of the ingest path keeps its type.                       *)
THEOREM TypeCorrect == SafeSpec => []TypeOK
<1>1. IInv => TypeOK
  BY DEF IInv
<1>2. QED
  BY <1>1, Invariance, PTL

(* A batch file that is deleted after a 200 has every event the API        *)
(* accepted in the table, for any number of batches, retries and faults.   *)
THEOREM DeletedMeansStored == SafeSpec => []DeletedIsStored
<1>1. IInv => DeletedIsStored
  <2> SUFFICES ASSUME IInv, NEW b \in Batches, fate[b] = "deleted", NEW i \in RowSet[b]
               PROVE  \E r \in Requests : carries[r] = b /\ <<r, i>> \in table
    BY DEF DeletedIsStored
  <2>1. PICK r \in Requests : carries[r] = b /\ tx[r] = "committed"
    BY DEF IInv, DeletedIsCommitted
  <2>2. i \in Positions
    BY DEF Positions
  <2>3. <<r, i>> \in table
    BY <2>1, <2>2 DEF IInv, TableIsCommitted
  <2>4. QED
    BY <2>1, <2>3
<1>2. QED
  BY <1>1, Invariance, PTL

(* Only a committed request has rows in the table.                         *)
LEMMA UncommittedHasNoRow ==
  ASSUME IInv, NEW r \in Requests, tx[r] # "committed"
  PROVE  StoredIn(r) = {}
<1>1. \A i \in Positions : <<r, i>> \notin table
  BY DEF IInv, TableIsCommitted
<1>2. \A row \in table : row = <<row[1], row[2]>> /\ row[2] \in Positions
  BY DEF IInv, TypeOK
<1>3. QED
  BY <1>1, <1>2 DEF StoredIn

(* No part of a batch that was dropped after a 413 or a 422 is in the      *)
(* table, whichever attempt it may have come from.                         *)
THEOREM DroppedMeansNowhere == SafeSpec => []DroppedIsNowhere
<1>1. IInv => DroppedIsNowhere
  <2> SUFFICES ASSUME IInv, NEW b \in Batches, fate[b] = "dropped",
                      NEW r \in Requests, carries[r] = b
               PROVE  StoredIn(r) = {}
    BY DEF DroppedIsNowhere
  <2>1. Verdict[b] # 0
    BY DEF IInv, DroppedIsRefused
  <2>2. tx[r] = "none"
    BY <2>1 DEF IInv, Unrefused
  <2>3. QED
    BY <2>2, UncommittedHasNoRow
<1>2. QED
  BY <1>1, Invariance, PTL

(* Every step leaves the table alone or adds the whole of one batch, once  *)
(* per request: no event of the table is ever lost or half a batch seen.   *)
THEOREM TableGrowsByBatches == SafeSpec => WholeBatchAtOnce
<1> DEFINE Whole == \/ table' = table
                   \/ \E r \in Requests : /\ carries[r] # None /\ StoredIn(r) = {}
                                          /\ table' = table \cup RowsBy(r)
<1>1. IInv /\ [Next]_vars => [Whole]_vars
  <2> SUFFICES ASSUME IInv, Next PROVE Whole
    OBVIOUS
  <2>1. ASSUME NEW r \in Requests, DbCommits(r) PROVE Whole
    <3>1. StoredIn(r) = {}
      BY <2>1, UncommittedHasNoRow DEF DbCommits
    <3>2. carries[r] # None
      BY <2>1, NoneAssumption DEF DbCommits, IInv, Lifecycle, LifecycleOf
    <3>3. QED
      BY <2>1, <3>1, <3>2 DEF DbCommits
  <2>2. CASE \E b \in Batches, r \in Requests : Send(b, r)
    BY <2>2 DEF Send
  <2>3. CASE \E b \in Batches : Receive(b) \/ NoticeReset(b) \/ GiveUp(b) \/ FixToken(b)
    BY <2>3 DEF Receive, NoticeReset, GiveUp, Abandon, FixToken, dbVars
  <2>4. CASE \E r \in Requests : Handle(r)
    BY <2>4 DEF Handle, Authenticate, ParseAndValidate, Insert, InsertFails,
       BeginCommit, CommitReturns, CommitFails, dbVars
  <2>5. CASE \E r \in Requests : BreakConnection(r)
    BY <2>5 DEF BreakConnection
  <2>6. CASE \E served \in SUBSET Requests \ {{}} : CrashWorker(served)
    BY <2>6 DEF CrashWorker
  <2>7. CASE DbStops \/ DbStarts
    BY <2>7 DEF DbStops, DbStarts
  <2>8. QED
    BY <2>1, <2>2, <2>3, <2>4, <2>5, <2>6, <2>7 DEF Next
<1>2. QED
  BY <1>1, Invariance, PTL DEF SafeSpec, WholeBatchAtOnce
-----------------------------------------------------------------------------
(* What is needed beside IInv.                                             *)

(* What a transaction or a status says of the batch.                       *)
Truthful ==
  \A r \in Requests :
    /\ tx[r] # "none" => carries[r] \notin Unstorable
    /\ status[r] = 200 => Verdict[carries[r]] = 0
    /\ status[r] \in {401, 403, 413, 422} => tx[r] = "none"
    /\ status[r] = 500 => tx[r] = "none" \/ r \in broken

(* What a device has heard is what the API has answered; it waits for one  *)
(* request at a time, and for none once the batch has left the queue.      *)
Hears ==
  /\ \A r \in Requests :
       /\ heard[r] \notin {Pending, Lost} => heard[r] = status[r]
       /\ heard[r] = Pending /\ stage[r] # "idle" => current[carries[r]] = r
       /\ heard[r] = 200 => fate[carries[r]] = "deleted"
  /\ \A r, s \in Requests : heard[r] = 200 /\ heard[s] = 200 /\ carries[r] = carries[s] => r = s
  /\ \A b \in Batches : current[b] # None => fate[b] = "queued" /\ heard[current[b]] = Pending

DInv == IInv /\ Truthful /\ Hears
-----------------------------------------------------------------------------
LEMMA InitTruthful ==
  ASSUME Init
  PROVE  Truthful /\ Hears
  BY NoneAssumption DEF Init, Truthful, Hears, Pending, Lost

(* A step of the API changes stage and status, and perhaps the transaction,*)
(* of one request.                                                         *)
LEMMA HandleKeeps ==
  ASSUME DInv, NEW r \in Requests, Handle(r)
  PROVE  Truthful' /\ Hears'
<1> USE DEF deviceVars, dbVars, Answer, Enter
<1>0. TypeOK /\ Lifecycle /\ Unrefused /\ Truthful /\ Hears
  BY DEF DInv, IInv
<1>1. /\ UNCHANGED <<fate, credential, current, heard, carries, bearer, broken>>
      /\ stage' = [stage EXCEPT ![r] = stage'[r]] /\ stage[r] # "idle" /\ stage'[r] # "idle"
      /\ status' = [status EXCEPT ![r] = status'[r]]
      /\ tx' = [tx EXCEPT ![r] = tx'[r]]
      /\ status[r] = 0
  <2>1. CASE Authenticate(r)
    BY <1>0, <2>1 DEF Authenticate, TypeOK, Lifecycle, LifecycleOf
  <2>2. CASE ParseAndValidate(r)
    BY <1>0, <2>2 DEF ParseAndValidate, TypeOK, Lifecycle, LifecycleOf
  <2>3. CASE Insert(r)
    BY <1>0, <2>3 DEF Insert, TypeOK, Lifecycle, LifecycleOf
  <2>4. CASE InsertFails(r)
    BY <1>0, <2>4 DEF InsertFails, TypeOK, Lifecycle, LifecycleOf
  <2>5. CASE BeginCommit(r)
    BY <1>0, <2>5 DEF BeginCommit, TypeOK, Lifecycle, LifecycleOf
  <2>6. CASE CommitReturns(r)
    BY <1>0, <2>6 DEF CommitReturns, TypeOK, Lifecycle, LifecycleOf
  <2>7. CASE CommitFails(r)
    BY <1>0, <2>7 DEF CommitFails, TypeOK, Lifecycle, LifecycleOf
  <2>8. QED
    BY <2>1, <2>2, <2>3, <2>4, <2>5, <2>6, <2>7 DEF Handle
<1>2. /\ tx'[r] # "none" => carries[r] \notin Unstorable
      /\ status'[r] = 200 => Verdict[carries[r]] = 0
      /\ status'[r] \in {401, 403, 413, 422} => tx'[r] = "none"
      /\ status'[r] = 500 => tx'[r] = "none" \/ r \in broken
  <2>1. CASE Authenticate(r)
    BY <1>0, <2>1 DEF Authenticate, TypeOK, Lifecycle, LifecycleOf
  <2>2. CASE ParseAndValidate(r)
    <3>1. tx'[r] = "none"
      BY <1>0, <2>2 DEF ParseAndValidate, Lifecycle, LifecycleOf
    <3>2. \/ status'[r] = status[r]
          \/ Verdict[carries[r]] = 0 /\ status'[r] = 200
          \/ Verdict[carries[r]] # 0 /\ status'[r] = Verdict[carries[r]]
      BY <1>0, <2>2 DEF ParseAndValidate, TypeOK
    <3>3. Verdict[carries[r]] \in {0, 413, 422, 500}
      BY <1>0, <2>2, VerdictValues DEF ParseAndValidate, TypeOK, Lifecycle, LifecycleOf
    <3>4. QED
      BY <1>1, <3>1, <3>2, <3>3
  <2>3. CASE Insert(r)
    BY <1>0, <1>1, <2>3 DEF Insert, TypeOK
  <2>4. CASE InsertFails(r)
    BY <1>0, <2>4 DEF InsertFails, TypeOK, Lifecycle, LifecycleOf
  <2>5. CASE BeginCommit(r)
    BY <1>0, <1>1, <2>5 DEF BeginCommit, TypeOK, Lifecycle, LifecycleOf, Truthful
  <2>6. CASE CommitReturns(r)
    BY <1>0, <2>6 DEF CommitReturns, TypeOK, Unrefused, Truthful
  <2>7. CASE CommitFails(r)
    BY <1>0, <2>7 DEF CommitFails, TypeOK, Truthful
  <2>8. QED
    BY <2>1, <2>2, <2>3, <2>4, <2>5, <2>6, <2>7 DEF Handle
<1>3. Truthful'
  BY <1>0, <1>1, <1>2 DEF Truthful, TypeOK
<1>4. Hears'
  <2>1. heard[r] \in {Pending, Lost}
    BY <1>0, <1>1 DEF Hears, TypeOK, Pending, Lost, Statuses
  <2>2. QED
    BY <1>0, <1>1, <2>1 DEF Hears, TypeOK
<1>5. QED
  BY <1>3, <1>4

LEMMA SendHears ==
  ASSUME DInv, NEW b \in Batches, NEW r \in Requests, Send(b, r)
  PROVE  Truthful' /\ Hears'
<1>0. TypeOK /\ Lifecycle /\ Truthful /\ Hears
  BY DEF DInv, IInv
<1>1. Truthful'
  BY <1>0 DEF Send, Truthful, TypeOK
<1>2. Hears'
  BY <1>0, NoneAssumption DEF Send, Reusable, Hears, TypeOK, Lifecycle, LifecycleOf, Pending, Lost
<1>3. QED
  BY <1>1, <1>2

LEMMA ReceiveHears ==
  ASSUME DInv, NEW b \in Batches, Receive(b)
  PROVE  Truthful' /\ Hears'
<1>0. TypeOK /\ Lifecycle /\ WaitsForItsOwn /\ Truthful /\ Hears
  BY DEF DInv, IInv
<1>a. /\ current[b] \in Requests /\ carries[current[b]] = b /\ status[current[b]] \in Statuses
      /\ fate[b] = "queued"
  BY <1>0 DEF Receive, TypeOK, WaitsForItsOwn, Hears
<1>1. Truthful'
  BY <1>0 DEF Receive, Truthful, TypeOK, dbVars
<1>2. Hears'
  <2>1. \A s \in Requests : heard[s] = 200 => carries[s] # b
    BY <1>0, <1>a DEF Hears
  <2>2. Outcome(200) = "deleted"
    BY DEF Outcome
  <2>3. \A r \in Requests : carries'[r] = carries[r] /\ stage'[r] = stage[r] /\ status'[r] = status[r]
    BY DEF Receive
  <2>4. heard' = [heard EXCEPT ![current[b]] = status[current[b]]]
    BY DEF Receive
  <2>5. fate' = [fate EXCEPT ![b] = Outcome(status[current[b]])]
    BY DEF Receive
  <2>6. current' = [current EXCEPT ![b] = None]
    BY DEF Receive
  <2>7. \A r \in Requests : heard'[r] = IF r = current[b] THEN status[current[b]] ELSE heard[r]
    BY <1>0, <2>4 DEF TypeOK
  <2>8. \A a \in Batches : /\ fate'[a] = IF a = b THEN Outcome(status[current[b]]) ELSE fate[a]
                           /\ current'[a] = IF a = b THEN None ELSE current[a]
    BY <1>0, <2>5, <2>6 DEF TypeOK
  <2>a. \A r \in Requests : heard'[r] \notin {Pending, Lost} => heard'[r] = status'[r]
    BY <1>0, <2>3, <2>7 DEF Hears
  <2>b. \A r \in Requests : heard'[r] = Pending /\ stage'[r] # "idle" => current'[carries'[r]] = r
    BY <1>0, <1>a, <2>3, <2>7, <2>8 DEF Hears, Statuses, Pending, Lifecycle, LifecycleOf
  <2>c. \A r \in Requests : heard'[r] = 200 => fate'[carries'[r]] = "deleted"
    BY <1>0, <1>a, <2>1, <2>2, <2>3, <2>5, <2>7 DEF Hears, TypeOK
  <2>d. \A r, s \in Requests :
          heard'[r] = 200 /\ heard'[s] = 200 /\ carries'[r] = carries'[s] => r = s
    BY <1>0, <1>a, <2>1, <2>3, <2>7 DEF Hears
  <2>e. \A a \in Batches : current'[a] # None => fate'[a] = "queued" /\ heard'[current'[a]] = Pending
    BY <1>0, <1>a, <2>7, <2>8 DEF Hears, WaitsForItsOwn, TypeOK
  <2>9. QED
    BY <2>a, <2>b, <2>c, <2>d, <2>e DEF Hears
<1>3. QED
  BY <1>1, <1>2

LEMMA AbandonHears ==
  ASSUME DInv, NEW b \in Batches, current[b] # None, Abandon(b)
  PROVE  Truthful' /\ Hears'
<1>0. TypeOK /\ Lifecycle /\ WaitsForItsOwn /\ Truthful /\ Hears
  BY DEF DInv, IInv
<1>a. current[b] \in Requests /\ carries[current[b]] = b
  BY <1>0 DEF TypeOK, WaitsForItsOwn
<1>1. Truthful'
  BY <1>0 DEF Abandon, Truthful, TypeOK, dbVars
<1>2. Hears'
  BY <1>0, <1>a DEF Abandon, Hears, WaitsForItsOwn, TypeOK, Lifecycle, LifecycleOf, Pending, Lost
<1>3. QED
  BY <1>1, <1>2

LEMMA DeviceHears ==
  ASSUME DInv, NEW b \in Batches, NoticeReset(b) \/ GiveUp(b) \/ FixToken(b)
  PROVE  Truthful' /\ Hears'
<1>1. CASE NoticeReset(b) \/ GiveUp(b)
  BY <1>1, AbandonHears DEF NoticeReset, GiveUp
<1>2. CASE FixToken(b)
  <2>1. Truthful'
    BY <1>2 DEF DInv, FixToken, Truthful, dbVars
  <2>2. Hears'
    BY <1>2 DEF DInv, IInv, TypeOK, FixToken, Hears
  <2>3. QED
    BY <2>1, <2>2
<1>3. QED
  BY <1>1, <1>2

(* The database and the faults: no status changes, a transaction begins    *)
(* nowhere, no connection is repaired.                                     *)
LEMMA OthersHear ==
  ASSUME DInv,
         \/ \E r \in Requests : DbCommits(r) \/ BreakConnection(r)
         \/ \E served \in SUBSET Requests \ {{}} : CrashWorker(served)
         \/ DbStops \/ DbStarts
         \/ UNCHANGED vars
  PROVE  Truthful' /\ Hears'
<1>0. TypeOK /\ Truthful /\ Hears
  BY DEF DInv, IInv
<1>1. /\ UNCHANGED <<fate, current, heard, carries, status>>
      /\ broken \subseteq broken'
      /\ \A r \in Requests : /\ tx'[r] = "none" <=> tx[r] = "none"
                             /\ stage'[r] = "idle" <=> stage[r] = "idle"
  <2>1. CASE \E r \in Requests : DbCommits(r)
    BY <1>0, <2>1 DEF DbCommits, TypeOK, deviceVars
  <2>2. CASE \E r \in Requests : BreakConnection(r)
    BY <1>0, <2>2, AbortIsLocal DEF BreakConnection, deviceVars
  <2>3. CASE \E served \in SUBSET Requests \ {{}} : CrashWorker(served)
    BY <1>0, <2>3, AbortIsLocal DEF CrashWorker, TypeOK, deviceVars
  <2>4. CASE DbStops
    BY <1>0, <2>4, AbortIsLocal DEF DbStops, deviceVars
  <2>5. CASE DbStarts \/ UNCHANGED vars
    BY <2>5 DEF DbStarts, deviceVars, vars
  <2>6. QED
    BY <2>1, <2>2, <2>3, <2>4, <2>5
<1>2. Truthful'
  BY <1>0, <1>1 DEF Truthful
<1>3. Hears'
  BY <1>0, <1>1 DEF Hears
<1>4. QED
  BY <1>2, <1>3

LEMMA DInvKeeps == DInv /\ [Next]_vars => DInv'
<1> SUFFICES ASSUME DInv, [Next]_vars PROVE DInv'
  OBVIOUS
<1>1. IInv'
  BY NextKeeps DEF DInv
<1>2. Truthful' /\ Hears'
  BY HandleKeeps, SendHears, ReceiveHears, DeviceHears, OthersHear DEF Next
<1>3. QED
  BY <1>1, <1>2 DEF DInv

(* What devices have heard agrees with what is stored in every reachable   *)
(* state.                                                                  *)
THEOREM DeliveryInvariance == SafeSpec => []DInv
<1>1. Init => DInv
  BY InitHolds, InitTruthful DEF DInv
<1>2. QED
  BY <1>1, DInvKeeps, PTL DEF SafeSpec

(* Of two copies of a batch at most one comes from a request whose 200 the *)
(* device saw or may still see, and a copy it was told 500 about comes     *)
(* from a broken connection.                                               *)
THEOREM DuplicatesOnlyWhenInDoubt == SafeSpec => []DuplicatesOnlyInDoubt
<1>1. DInv => DuplicatesOnlyInDoubt
  <2> SUFFICES ASSUME DInv, NEW r \in Requests, StoredIn(r) # {}
               PROVE  /\ heard[r] \in {Pending, Lost, 200, 500}
                      /\ heard[r] = 500 => r \in broken
                      /\ \A s \in Requests :
                           /\ s # r /\ carries[s] = carries[r] /\ StoredIn(s) # {}
                           /\ heard[s] \in {Pending, 200}
                           => heard[r] \notin {Pending, 200}
    BY DEF DuplicatesOnlyInDoubt
  <2>0. IInv /\ TypeOK /\ Lifecycle /\ Truthful /\ Hears
    BY DEF DInv, IInv
  <2>1. \A s \in Requests : StoredIn(s) # {} => tx[s] = "committed" /\ stage[s] # "idle"
    <3>1. \A s \in Requests : StoredIn(s) # {} => tx[s] = "committed"
      BY <2>0, UncommittedHasNoRow
    <3>2. QED
      BY <2>0, <3>1 DEF Lifecycle, LifecycleOf
  <2>2. heard[r] \in {Pending, Lost, 200, 500} /\ (heard[r] = 500 => r \in broken)
    BY <2>0, <2>1 DEF TypeOK, Truthful, Hears, Statuses, Pending, Lost
  <2>3. ASSUME NEW s \in Requests, s # r, carries[s] = carries[r], StoredIn(s) # {},
               heard[s] \in {Pending, 200}, heard[r] \in {Pending, 200}
        PROVE  FALSE
    <3>1. stage[s] # "idle" /\ stage[r] # "idle" /\ carries[r] \in Batches
      BY <2>0, <2>1, <2>3 DEF Lifecycle, LifecycleOf
    <3>2. \A q \in {r, s} : heard[q] = Pending => current[carries[r]] = q
      BY <2>0, <2>3, <3>1 DEF Hears
    <3>3. \A q \in {r, s} : heard[q] = 200 => fate[carries[r]] = "deleted"
      BY <2>0, <2>3 DEF Hears
    <3>4. heard[r] = 200 /\ heard[s] = 200 => r = s
      BY <2>0, <2>3 DEF Hears
    <3>5. current[carries[r]] # None => fate[carries[r]] = "queued"
      BY <2>0, <3>1 DEF Hears
    <3>6. QED
      BY <2>3, <3>2, <3>3, <3>4, <3>5, NoneAssumption
  <2>4. QED
    BY <2>2, <2>3
<1>2. QED
  BY <1>1, DeliveryInvariance, PTL
-----------------------------------------------------------------------------
(* Ingest implements Delivery.                                             *)

PlaceOf(b) == IF fate[b] = "paused" THEN "queued" ELSE fate[b]
CopiesOf(b) == {r \in Requests : carries[r] = b /\ StoredIn(r) # {}}

(* A step that changes no place and no copy is a stutter of Delivery.      *)
LEMMA DeliveryStutters ==
  ASSUME \A b \in Batches : PlaceOf(b)' = PlaceOf(b) /\ CopiesOf(b)' = CopiesOf(b)
  PROVE  UNCHANGED Promise!vars
  BY DEF Promise!vars, PlaceOf, CopiesOf

(* Without a row more or less, copies stay.                                *)
LEMMA SameCopies ==
  ASSUME table' = table,
         \A r \in Requests : StoredIn(r) = {} \/ carries'[r] = carries[r]
  PROVE  \A b \in Batches : CopiesOf(b)' = CopiesOf(b)
  BY DEF CopiesOf, StoredIn

LEMMA InitMaps ==
  ASSUME Init
  PROVE  Promise!Init
<1>1. \A b \in Batches : fate[b] = "queued"
  BY DEF Init
<1>2. \A r \in Requests : StoredIn(r) = {}
  BY DEF Init, StoredIn
<1>3. QED
  BY <1>1, <1>2 DEF Promise!Init

(* The COMMIT of a batch with rows stores a copy.                          *)
LEMMA DbCommitsStores ==
  ASSUME DInv, NEW r \in Requests, DbCommits(r)
  PROVE  (\E b \in Batches : Promise!Store(b)) \/ UNCHANGED Promise!vars
<1>0. IInv /\ TypeOK /\ Lifecycle /\ Unrefused /\ Truthful
  BY DEF DInv, IInv
<1> PICK b \in Batches : carries[r] = b
  BY <1>0 DEF DbCommits, Lifecycle, LifecycleOf
<1>1. /\ tx[r] = "committing" /\ table' = table \cup RowsBy(r)
      /\ fate' = fate /\ carries' = carries
  BY DEF DbCommits, deviceVars
<1>2. Verdict[b] = 0 /\ b \notin Unstorable
  BY <1>0, <1>1 DEF Lifecycle, LifecycleOf, Unrefused, Truthful
<1>3. StoredIn(r) = {}
  BY <1>0, <1>1, UncommittedHasNoRow
<1>4. StoredIn(r)' = RowsBy(r)
  BY <1>1, <1>3 DEF StoredIn, RowsBy
<1>5. \A s \in Requests \ {r} : StoredIn(s)' = StoredIn(s)
  BY <1>1 DEF StoredIn, RowsBy
<1>6. RowsBy(r) = {} <=> RowSet[b] = {}
  <2>1. RowsBy(r) = {r} \X RowSet[b]
    BY DEF RowsBy
  <2>2. ASSUME NEW i \in RowSet[b] PROVE <<r, i>> \in RowsBy(r)
    BY <2>1
  <2>3. QED
    BY <2>1, <2>2
<1>7. CASE RowSet[b] = {}
  <2>1. \A s \in Requests : StoredIn(s)' = StoredIn(s)
    BY <1>3, <1>4, <1>5, <1>6, <1>7
  <2>2. \A a \in Batches : PlaceOf(a)' = PlaceOf(a) /\ CopiesOf(a)' = CopiesOf(a)
    BY <1>1, <2>1 DEF PlaceOf, CopiesOf
  <2>3. QED
    BY <2>2, DeliveryStutters
<1>8. CASE RowSet[b] # {}
  <2>1. r \notin UNION {CopiesOf(a) : a \in Batches}
    BY <1>3 DEF CopiesOf
  <2>2. CopiesOf(b)' = CopiesOf(b) \cup {r}
    BY <1>1, <1>4, <1>5, <1>6, <1>8 DEF CopiesOf
  <2>3. \A a \in Batches \ {b} : CopiesOf(a)' = CopiesOf(a)
    BY <1>1, <1>5 DEF CopiesOf
  <2>4. \A a \in Batches : PlaceOf(a)' = PlaceOf(a)
    BY <1>1 DEF PlaceOf
  <2>5. Promise!Store(b)
    <3> DEFINE C == [a \in Batches |-> CopiesOf(a)]
               P == [a \in Batches |-> PlaceOf(a)]
    <3>1. C' = [C EXCEPT ![b] = @ \cup {r}]
      BY <1>2, <2>2, <2>3
    <3>2. P' = P
      BY <2>4
    <3>3. r \in Requests \ UNION {C[a] : a \in Batches}
      BY <2>1
    <3>4. QED
      BY <1>2, <1>8, <3>1, <3>2, <3>3 DEF Promise!Store, CopiesOf, PlaceOf
  <2>6. QED
    BY <2>5
<1>9. QED
  BY <1>7, <1>8

(* A device deletes what is stored or has nothing to store, and drops what *)
(* the API refuses.                                                        *)
LEMMA ReceiveSettles ==
  ASSUME DInv, NEW b \in Batches, Receive(b)
  PROVE  Promise!Delete(b) \/ Promise!Drop(b) \/ UNCHANGED Promise!vars
<1> DEFINE r == current[b]
<1>0. IInv /\ TypeOK /\ Lifecycle /\ WaitsForItsOwn /\ AnswersAreTrue /\ Truthful /\ Hears
  BY DEF DInv, IInv
<1>1. r \in Requests /\ carries[r] = b /\ fate[b] = "queued" /\ status[r] # 0
  BY <1>0 DEF Receive, TypeOK, WaitsForItsOwn, Hears
<1>2. /\ fate' = [fate EXCEPT ![b] = Outcome(status[r])]
      /\ carries' = carries /\ table' = table
  BY DEF Receive, dbVars
<1>3. \A a \in Batches : CopiesOf(a)' = CopiesOf(a)
  BY <1>2 DEF CopiesOf, StoredIn
<1>4. /\ PlaceOf(b) = "queued" /\ \A a \in Batches \ {b} : PlaceOf(a)' = PlaceOf(a)
      /\ PlaceOf(b)' = IF Outcome(status[r]) = "paused" THEN "queued" ELSE Outcome(status[r])
  BY <1>0, <1>1, <1>2 DEF PlaceOf, TypeOK
<1> DEFINE C == [a \in Batches |-> CopiesOf(a)]
           P == [a \in Batches |-> PlaceOf(a)]
<1>5. C' = C
  BY <1>3
<1>6. P[b] = "queued" /\ P' = [P EXCEPT ![b] = PlaceOf(b)']
  BY <1>4
<1>7. CASE status[r] = 200
  <2>1. PlaceOf(b)' = "deleted"
    BY <1>4, <1>7 DEF Outcome
  <2>2. Verdict[b] = 0 /\ (RowSet[b] = {} \/ C[b] # {})
    <3>1. Verdict[b] = 0
      BY <1>0, <1>1, <1>7 DEF Truthful
    <3>2. RowSet[b] = {} \/ tx[r] = "committed"
      BY <1>0, <1>1, <1>7 DEF AnswersAreTrue
    <3>3. ASSUME tx[r] = "committed", NEW i \in RowSet[b] PROVE r \in C[b]
      <4>1. <<r, i>> \in table
        BY <1>0, <1>1, <3>3 DEF TableIsCommitted, IInv, Positions
      <4>2. StoredIn(r) # {}
        BY <4>1 DEF StoredIn
      <4>3. QED
        BY <1>1, <4>2 DEF CopiesOf
    <3>4. QED
      BY <3>1, <3>2, <3>3
  <2>3. Promise!Delete(b)
    BY <1>5, <1>6, <2>1, <2>2 DEF Promise!Delete, CopiesOf, PlaceOf
  <2>4. QED
    BY <2>3
<1>8. CASE status[r] \in {413, 422}
  <2>1. PlaceOf(b)' = "dropped"
    BY <1>4, <1>8 DEF Outcome
  <2>2. Verdict[b] \in {413, 422}
    BY <1>0, <1>1, <1>8 DEF AnswersAreTrue
  <2>3. b \in {a \in Batches : Verdict[a] \in {413, 422}}
    BY <2>2
  <2>4. P[b] = "queued" /\ P' = [P EXCEPT ![b] = "dropped"] /\ C' = C
    BY <1>5, <1>6, <2>1
  <2>5. Promise!Drop(b)
    BY <2>3, <2>4 DEF Promise!Drop, CopiesOf, PlaceOf
  <2>6. QED
    BY <2>5
<1>9. CASE status[r] \notin {200, 413, 422}
  <2>1. PlaceOf(b)' = "queued"
    BY <1>4, <1>9 DEF Outcome
  <2>2. QED
    BY <1>3, <1>4, <2>1, DeliveryStutters
<1>10. QED
  BY <1>7, <1>8, <1>9

LEMMA OthersStutter ==
  ASSUME DInv,
         \/ \E b \in Batches, r \in Requests : Send(b, r)
         \/ \E b \in Batches : NoticeReset(b) \/ GiveUp(b) \/ FixToken(b)
         \/ \E r \in Requests : Handle(r) \/ BreakConnection(r)
         \/ \E served \in SUBSET Requests \ {{}} : CrashWorker(served)
         \/ DbStops \/ DbStarts
         \/ UNCHANGED vars
  PROVE  UNCHANGED Promise!vars
<1>0. IInv /\ TypeOK
  BY DEF DInv, IInv
<1>1. table' = table
  BY DEF Send, NoticeReset, GiveUp, Abandon, FixToken, Handle, Authenticate, ParseAndValidate,
     Insert, InsertFails, BeginCommit, CommitReturns, CommitFails, BreakConnection, CrashWorker,
     DbStops, DbStarts, vars, dbVars
<1>2. \A r \in Requests : StoredIn(r) = {} \/ carries'[r] = carries[r]
  <2>1. CASE \E b \in Batches, r \in Requests : Send(b, r)
    BY <1>0, <2>1, UncommittedHasNoRow DEF Send, Reusable, TypeOK
  <2>2. CASE ~\E b \in Batches, r \in Requests : Send(b, r)
    BY <2>2 DEF NoticeReset, GiveUp, Abandon, FixToken, Handle, Authenticate, ParseAndValidate,
       Insert, InsertFails, BeginCommit, CommitReturns, CommitFails, BreakConnection, CrashWorker,
       DbStops, DbStarts, vars
  <2>3. QED
    BY <2>1, <2>2
<1>3. \A b \in Batches : PlaceOf(b)' = PlaceOf(b)
  <2>1. CASE \E b \in Batches : FixToken(b)
    BY <1>0, <2>1 DEF FixToken, PlaceOf, TypeOK
  <2>2. CASE ~\E b \in Batches : FixToken(b)
    BY <2>2 DEF Send, NoticeReset, GiveUp, Abandon, Handle, Authenticate, ParseAndValidate,
       Insert, InsertFails, BeginCommit, CommitReturns, CommitFails, BreakConnection, CrashWorker,
       DbStops, DbStarts, vars, deviceVars, PlaceOf
  <2>3. QED
    BY <2>1, <2>2
<1>4. \A b \in Batches : CopiesOf(b)' = CopiesOf(b)
  BY <1>1, <1>2, SameCopies
<1>5. QED
  BY <1>3, <1>4, DeliveryStutters

LEMMA StepMaps == DInv /\ [Next]_vars => [Promise!Next]_(Promise!vars)
<1> SUFFICES ASSUME DInv, [Next]_vars PROVE [Promise!Next]_(Promise!vars)
  OBVIOUS
<1>1. CASE \E r \in Requests : DbCommits(r)
  BY <1>1, DbCommitsStores DEF Promise!Next
<1>2. CASE \E b \in Batches : Receive(b)
  BY <1>2, ReceiveSettles DEF Promise!Next
<1>3. QED
  BY <1>1, <1>2, OthersStutter DEF Next

(* Every step of device, API, database and faults is a step of Delivery or *)
(* one it cannot see, for any number of batches, requests and faults.      *)
THEOREM IngestImplementsDelivery == SafeSpec => ImplementsDelivery
<1>1. Init => Promise!Init
  BY InitMaps
<1>2. QED
  BY <1>1, StepMaps, DeliveryInvariance, PTL DEF SafeSpec, ImplementsDelivery, Promise!SafeSpec
=============================================================================
