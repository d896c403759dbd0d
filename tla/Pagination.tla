----------------------------- MODULE Pagination -----------------------------
(***************************************************************************)
(* A client that reads GET /v1/events page by page (list_events of         *)
(* app/routes/events.py) while batches are being ingested.  A page is one  *)
(* request of two statements, each with a snapshot of its own (READ        *)
(* COMMITTED): the count, then the rows, ordered by ts alone.              *)
(* Definitions named Operation_What are faulty variants of Operation: each *)
(* shows that a property below would notice the fault.                     *)
(***************************************************************************)
EXTENDS Integers, FiniteSets

CONSTANTS
  Events,     \* the rows that may come to be in the table
  Ts,         \* ts of each
  Matching,   \* those the filters of the request select
  Limit       \* limit of the request

ASSUME EventsAssumption == IsFiniteSet(Events)
ASSUME TsAssumption == Ts \in [Events -> Int]
ASSUME MatchingAssumption == Matching \subseteq Events
ASSUME LimitAssumption == Limit \in Nat \ {0}

VARIABLES
  table,     \* rows of events
  order,     \* "asc" or "desc"
  offset,    \* offset of the current page
  pc,        \* next statement of the request, or the end of the scan
  total,     \* what the count statement returned
  atStart,   \* the table when the client began
  page,      \* the last page
  seen       \* every row of every page so far

vars == <<table, order, offset, pc, total, atStart, page, seen>>

Selected_Unfiltered == table

Selected == table \cap Matching

Before(d, e) == IF order = "asc" THEN Ts[d] < Ts[e] ELSE Ts[d] > Ts[e]

Prefixes_Unordered(n) ==
  {P \in SUBSET Selected :
     Cardinality(P) = IF n < Cardinality(Selected) THEN n ELSE Cardinality(Selected)}

(* The sets of the first n rows in some order by ts that PostgreSQL may    *)
(* return: rows with the same ts come in no particular order.              *)
Prefixes(n) ==
  {P \in SUBSET Selected :
     /\ Cardinality(P) = IF n < Cardinality(Selected) THEN n ELSE Cardinality(Selected)
     /\ \A e \in P, d \in Selected : Before(d, e) => d \in P}

(* LIMIT l OFFSET o of such an order.                                      *)
Pages(o, l) ==
  {P[2] \ P[1] : P \in {Q \in Prefixes(o) \X Prefixes(o + l) : Q[1] \subseteq Q[2]}}

Init ==
  /\ table \in SUBSET Events
  /\ order \in {"asc", "desc"}
  /\ offset = 0
  /\ pc = "count"
  /\ total = 0
  /\ atStart = table
  /\ page = {}
  /\ seen = {}

(* A batch commits: events of any age, for a device may have been offline. *)
Commit(batch) ==
  /\ table' = table \cup batch
  /\ UNCHANGED <<order, offset, pc, total, atStart, page, seen>>

Count ==
  /\ pc = "count"
  /\ total' = Cardinality(Selected)
  /\ pc' = "rows"
  /\ UNCHANGED <<table, order, offset, atStart, page, seen>>

ReadRows_OffsetTooFar ==
  /\ pc = "rows"
  /\ page' \in Pages(offset, Limit)
  /\ seen' = seen \cup page'
  /\ offset' = offset + Limit + 1
  /\ pc' = IF Cardinality(page') < Limit THEN "done" ELSE "count"
  /\ UNCHANGED <<table, order, total, atStart>>

(* The client asks for the next page unless this one was not full.         *)
ReadRows ==
  /\ pc = "rows"
  /\ page' \in Pages(offset, Limit)
  /\ seen' = seen \cup page'
  /\ offset' = offset + Limit
  /\ pc' = IF Cardinality(page') < Limit THEN "done" ELSE "count"
  /\ UNCHANGED <<table, order, total, atStart>>

Next ==
  \/ \E batch \in SUBSET (Events \ table) \ {{}} : Commit(batch)
  \/ Count
  \/ ReadRows

Spec == Init /\ [][Next]_vars
-----------------------------------------------------------------------------
TypeOK ==
  /\ table \subseteq Events
  /\ order \in {"asc", "desc"}
  /\ offset \in Nat
  /\ pc \in {"count", "rows", "done"}
  /\ total \in Nat
  /\ atStart \subseteq Events
  /\ page \subseteq Matching
  /\ seen \subseteq Matching

Untied(e) == \A d \in Matching \ {e} : Ts[d] # Ts[e]

(* A scan that has ended has read every row that was there when it began,  *)
(* tied rows apart, whatever was inserted before, between or behind its    *)
(* pages: inserts push rows towards later pages only.  And the client that *)
(* has read the last page is not short of the total beside it, although    *)
(* count and rows come from two snapshots (events.py:250-262).             *)
ScanMissesNothing ==
  pc = "done" =>
    /\ \A e \in atStart \cap Matching : Untied(e) => e \in seen
    /\ total <= offset - Limit + Cardinality(page)

(* Rows that were there from the start come in the order asked for: no     *)
(* page shows a row while an untied one that belongs before it is still to *)
(* come (events.py:253-255).                                               *)
PagesInOrder ==
  \A e \in atStart \cap Matching, d \in seen : Untied(e) /\ Before(e, d) => e \in seen
=============================================================================
