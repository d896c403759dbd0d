------------------------------ MODULE Queries ------------------------------
(***************************************************************************)
(* The read endpoints beside the scan of Pagination: event_facets of       *)
(* app/routes/events.py, with one statement and one snapshot per column,   *)
(* and the aggregates of app/routes/stats.py.  A client asks one of them   *)
(* while batches are being ingested.                                       *)
(* Definitions named Operation_What are faulty variants of Operation: each *)
(* shows that a property below would notice the fault.                     *)
(***************************************************************************)
EXTENDS Pagination, Sequences, FiniteSetsExt

CONSTANTS
  Value,    \* of each event, the values of those columns, "" for empty
  KindOf,   \* kind of each event
  Since,    \* lower bound on ts of the request: now - hours
  Width     \* bucket_minutes of the timeline

(* In the order in which event_facets reads them.                          *)
Columns == <<"vendor", "device_name", "device_version", "device_id">>
EventKinds == {"event", "error", "metric", "crash"}

ASSUME ValueAssumption == DOMAIN Value = Events /\ \A e \in Events : \A i \in 1..4 : Columns[i] \in DOMAIN Value[e]
ASSUME KindOfAssumption == KindOf \in [Events -> EventKinds]
ASSUME WindowAssumption == Since \in Int /\ Width \in Nat \ {0}

VARIABLES
  query,    \* what the client asks for
  facets,   \* the values of the columns read so far
  chart,    \* the rows of a statistics response, by group or by bucket
  kinds,    \* the kinds a statistics request counts
  read      \* the table as the last statement saw it

queryVars == <<query, facets, chart, kinds, read>>
allVars   == <<vars, queryVars>>

QueryInit ==
  /\ Init
  /\ query \in {"scan", "facets", "recent", "timeline"}
  /\ query # "scan" => order = "asc"
  /\ facets = <<>> /\ chart = <<>>
  /\ kinds \in {EventKinds} \cup {{k} : k \in EventKinds}
  /\ query # "timeline" => kinds = EventKinds
  /\ read = {}

Recent_Exclusive(rows) == {e \in rows : Ts[e] > Since}

Recent(rows) == {e \in rows : Ts[e] >= Since}

(* SELECT DISTINCT of one column; empty strings are left out.              *)
ReadFacet ==
  /\ query = "facets" /\ Len(facets) < Len(Columns)
  /\ LET column == Columns[Len(facets) + 1]
     IN facets' = Append(facets, {Value[e][column] : e \in Recent(table)} \ {""})
  /\ read' = table
  /\ UNCHANGED <<vars, query, chart, kinds>>

GroupOf(e) == <<Value[e]["vendor"], Value[e]["device_name"], Value[e]["device_version"]>>

(* One row per vendor, device and version.                                 *)
DeviceChart(rows) ==
  LET In(g) == {e \in rows : GroupOf(e) = g}
  IN [g \in {GroupOf(e) : e \in rows} |->
        [total    |-> Cardinality(In(g)),
         crashes  |-> Cardinality({e \in In(g) : KindOf[e] = "crash"}),
         errors   |-> Cardinality({e \in In(g) : KindOf[e] = "error"}),
         lastSeen |-> Max({Ts[e] : e \in In(g)})]]

RecentDevices ==
  /\ query = "recent" /\ read = {}
  /\ read' = table
  /\ chart' = DeviceChart(Recent(table))
  /\ UNCHANGED <<vars, query, facets, kinds>>

Bucket_Nearest(t) == ((2 * t + Width) \div (2 * Width)) * Width

(* date_bin with origin 1970-01-01.                                        *)
Bucket(t) == (t \div Width) * Width

(* One row per bucket that has an event.                                   *)
BucketChart(rows) ==
  [b \in {Bucket(Ts[e]) : e \in rows} |-> Cardinality({e \in rows : Bucket(Ts[e]) = b})]

Timeline ==
  /\ query = "timeline" /\ read = {}
  /\ read' = table
  /\ chart' = BucketChart({e \in Recent(table) : KindOf[e] \in kinds})
  /\ UNCHANGED <<vars, query, facets, kinds>>

QueryNext ==
  \/ /\ \/ \E batch \in SUBSET (Events \ table) \ {{}} : Commit(batch)
        \/ query = "scan" /\ (Count \/ ReadRows)
     /\ UNCHANGED queryVars
  \/ ReadFacet \/ RecentDevices \/ Timeline

QuerySpec == QueryInit /\ [][QueryNext]_allVars
-----------------------------------------------------------------------------
(* What list_events can find in a set of rows by the i-th column.          *)
ValuesOf(rows, i) == {Value[e][Columns[i]] : e \in {d \in rows : Ts[d] >= Since}} \ {""}

(* The drop-downs offer every value of the window that was in the table    *)
(* when the request began, although each column is read from a snapshot of *)
(* its own, and nothing that list_events, which ignores an empty filter,   *)
(* would not find (events.py:220-229, 276-288).                            *)
FacetsSelectSomething ==
  \A i \in DOMAIN facets :
    /\ ValuesOf(atStart, i) \subseteq facets[i]
    /\ facets[i] \subseteq ValuesOf(table, i)

(* Every event of the window, and no other, is in exactly one row of the   *)
(* statistics.  A bucket that begins within the window counts all that     *)
(* fell into it; the first may begin before the window and then counts     *)
(* only what fell into both (stats.py:31-47, 79-92).                       *)
StatisticsAddUp ==
  LET rows == {e \in read : Ts[e] >= Since /\ KindOf[e] \in kinds}
  IN /\ query = "recent" =>
          /\ SumFunction([g \in DOMAIN chart |-> chart[g].total]) = Cardinality(rows)
          /\ \A g \in DOMAIN chart :
               /\ chart[g].crashes + chart[g].errors <= chart[g].total
               /\ chart[g].lastSeen >= Since
     /\ query = "timeline" =>
          /\ SumFunction(chart) = Cardinality(rows)
          /\ \A b \in DOMAIN chart :
               /\ chart[b] = Cardinality({e \in rows : b <= Ts[e] /\ Ts[e] < b + Width})
               /\ b < Since => \A other \in DOMAIN chart : b <= other
=============================================================================
