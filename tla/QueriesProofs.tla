--------------------------- MODULE QueriesProofs ---------------------------
(***************************************************************************)
(* Proofs about Queries, and about the scan of Pagination that it          *)
(* contains, for any finite set of events, any ts, filter, limit and       *)
(* window.                                                                 *)
(***************************************************************************)
EXTENDS Queries, Sums

-----------------------------------------------------------------------------
(* The inductive invariant, in parts.                                      *)

(* The rows that must be read before e.                                    *)
Ahead(e) == {d \in Selected : Before(d, e)}

Facet == SUBSET {Value[e][Columns[i]] : e \in Events, i \in 1..4}

Types ==
  /\ table \subseteq Events
  /\ order \in {"asc", "desc"}
  /\ offset \in Nat /\ total \in Nat
  /\ pc \in {"count", "rows", "done"}
  /\ atStart \subseteq table /\ page \subseteq Selected /\ seen \subseteq Selected
  /\ facets \in Seq(Facet) /\ Len(facets) <= 4

(* What the scan has not shown yet lies behind its offset: the rows ahead  *)
(* of it only ever become more.                                            *)
UnseenIsAhead ==
  \A e \in atStart \cap Matching : Untied(e) /\ e \notin seen => Cardinality(Ahead(e)) >= offset

(* Rows never become fewer between the count and the page.                 *)
TotalIsReached == pc = "rows" => total <= Cardinality(Selected)

(* The response of a statistics request, once there is one, is made from   *)
(* the rows that its statement read; they were in the table.               *)
ChartIsOfRead ==
  /\ read \subseteq Events /\ kinds \subseteq EventKinds
  /\ query # "timeline" => kinds = EventKinds
  /\ query = "recent" =>
       \/ read = {} /\ chart = <<>>
       \/ chart = DeviceChart(Recent(read))
  /\ query = "timeline" =>
       \/ read = {} /\ chart = <<>>
       \/ chart = BucketChart({e \in Recent(read) : KindOf[e] \in kinds})

IInv ==
  /\ Types /\ UnseenIsAhead /\ TotalIsReached /\ ChartIsOfRead
  /\ PagesInOrder /\ ScanMissesNothing /\ FacetsSelectSomething
-----------------------------------------------------------------------------
(* What a prefix of an order by ts has and lacks.                          *)

LEMMA SelectedIsFinite ==
  ASSUME Types, NEW S \in SUBSET Selected
  PROVE  IsFiniteSet(S) /\ Cardinality(S) \in Nat /\ Cardinality(S) <= Cardinality(Selected)
         /\ (Cardinality(S) = Cardinality(Selected) => S = Selected)
<1>1. IsFiniteSet(Selected)
  BY EventsAssumption, FS_Subset DEF Types, Selected
<1>2. QED
  BY <1>1, FS_Subset, FS_CardinalityType

LEMMA SizeOfPrefix ==
  ASSUME Types, NEW n \in Nat, NEW P \in Prefixes(n)
  PROVE  /\ P \subseteq Selected /\ Cardinality(P) \in Nat /\ Cardinality(P) <= n
         /\ Cardinality(P) = n \/ P = Selected
<1>1. P \in SUBSET Selected
  BY DEF Prefixes
<1>2. Cardinality(P) \in Nat /\ Cardinality(Selected) \in Nat
      /\ (Cardinality(P) = Cardinality(Selected) => P = Selected)
  BY <1>1, SelectedIsFinite
<1>3. Cardinality(P) = IF n < Cardinality(Selected) THEN n ELSE Cardinality(Selected)
  BY DEF Prefixes
<1>4. QED
  BY <1>1, <1>2, <1>3

(* A row among the first n has fewer than n rows ahead of it.              *)
LEMMA InPrefix ==
  ASSUME Types, NEW n \in Nat, NEW P \in Prefixes(n), NEW e \in P
  PROVE  Cardinality(Ahead(e)) < n
<1>1. P \subseteq Selected /\ \A f \in P, d \in Selected : Before(d, f) => d \in P
  BY DEF Prefixes
<1>2. e \in Events
  BY <1>1 DEF Types, Selected
<1>3. e \notin Ahead(e)
  BY <1>2, TsAssumption DEF Ahead, Before
<1>4. Ahead(e) \cup {e} \in SUBSET P
  BY <1>1 DEF Ahead
<1>5. IsFiniteSet(P) /\ IsFiniteSet(Ahead(e)) /\ Cardinality(Ahead(e)) \in Nat /\ Cardinality(P) \in Nat
  BY <1>1, SelectedIsFinite DEF Ahead
<1>6. Cardinality(Ahead(e) \cup {e}) = Cardinality(Ahead(e)) + 1
  BY <1>3, <1>5, FS_AddElement
<1>7. Cardinality(Ahead(e) \cup {e}) <= Cardinality(P)
  BY <1>4, <1>5, FS_Subset
<1>8. Cardinality(P) <= n
  BY SizeOfPrefix
<1>9. QED
  BY <1>5, <1>6, <1>7, <1>8

(* An untied row that is not among the first n has at least n ahead of it. *)
LEMMA OutsidePrefix ==
  ASSUME Types, NEW n \in Nat, NEW P \in Prefixes(n), NEW e \in Selected, e \notin P, Untied(e)
  PROVE  Cardinality(P) = n /\ Cardinality(Ahead(e)) >= n
<1>1. P \subseteq Selected /\ \A f \in P, d \in Selected : Before(d, f) => d \in P
  BY DEF Prefixes
<1>2. Cardinality(P) = n
  BY SizeOfPrefix
<1>3. ASSUME NEW d \in P PROVE d \in Ahead(e)
  <2>1. d \in Selected /\ d \in Events /\ e \in Events /\ d \in Matching /\ d # e
    BY <1>1 DEF Types, Selected
  <2>2. Ts[d] # Ts[e] /\ Ts[d] \in Int /\ Ts[e] \in Int
    BY <2>1, TsAssumption DEF Untied
  <2>3. ~Before(e, d)
    BY <1>1
  <2>4. Before(d, e)
    BY <2>2, <2>3 DEF Before, Types
  <2>5. QED
    BY <2>1, <2>4 DEF Ahead
<1>4. IsFiniteSet(Ahead(e)) /\ Cardinality(Ahead(e)) \in Nat /\ P \in SUBSET Ahead(e)
  BY <1>3, SelectedIsFinite DEF Ahead
<1>5. Cardinality(P) <= Cardinality(Ahead(e))
  BY <1>4, FS_Subset
<1>6. QED
  BY <1>2, <1>4, <1>5

(* A page is what one prefix has more than another.                        *)
LEMMA PageOfPrefixes ==
  ASSUME Types, pc = "rows", ReadRows
  PROVE  \E P \in Prefixes(offset), Q \in Prefixes(offset + Limit) :
           /\ P \subseteq Q /\ page' = Q \ P
           /\ Cardinality(page') \in Nat /\ Cardinality(Q) = Cardinality(P) + Cardinality(page')
<1>1. \E R \in Prefixes(offset) \X Prefixes(offset + Limit) : R[1] \subseteq R[2] /\ page' = R[2] \ R[1]
  BY DEF ReadRows, Pages
<1>2. PICK P \in Prefixes(offset), Q \in Prefixes(offset + Limit) : P \subseteq Q /\ page' = Q \ P
  BY <1>1
<1>3. Q \subseteq Selected /\ P \subseteq Selected /\ page' \subseteq Selected
  BY <1>2 DEF Prefixes
<1>4. IsFiniteSet(P) /\ IsFiniteSet(page') /\ Cardinality(page') \in Nat /\ Cardinality(P) \in Nat
  BY <1>3, SelectedIsFinite
<1>5. Cardinality(P \cup page') = Cardinality(P) + Cardinality(page') - Cardinality(P \cap page')
  BY <1>4, FS_Union
<1>6. P \cup page' = Q /\ P \cap page' = {}
  BY <1>2
<1>7. Cardinality({}) = 0
  BY FS_EmptySet
<1>8. Cardinality(Q) = Cardinality(P) + Cardinality(page')
  <2>1. Cardinality(P \cup page') = Cardinality(Q)
    BY <1>6
  <2>2. Cardinality(P \cap page') = 0
    BY <1>6, <1>7
  <2>3. QED
    BY <1>4, <1>5, <2>1, <2>2
<1>9. QED
  BY <1>2, <1>4, <1>8
-----------------------------------------------------------------------------
(* The statistics.                                                         *)

(* A finite set of rows has a latest one.                                  *)
LEMMA HasLatest ==
  ASSUME NEW R \in SUBSET Events, R # {}
  PROVE  LET T == {Ts[e] : e \in R} IN Max(T) \in T /\ \A t \in T : Max(T) >= t
<1> DEFINE T == {Ts[e] : e \in R}
           Later(e) == {d \in R : Ts[d] > Ts[e]}
           N == {Cardinality(Later(e)) : e \in R}
<1>1. \A P \in SUBSET R : IsFiniteSet(P) /\ Cardinality(P) \in Nat
  BY EventsAssumption, FS_Subset, FS_CardinalityType
<1>2. \A e \in R : Ts[e] \in Int
  BY TsAssumption
<1>3. N \in SUBSET Nat /\ N # {}
  BY <1>1
<1>4. PICK n \in N : \A m \in N : n <= m
  <2> HIDE DEF N
  <2>1. QED
    BY <1>3, LeastNatural
<1>5. PICK e \in R : n = Cardinality(Later(e))
  OBVIOUS
<1>6. ASSUME NEW d \in R, Ts[d] > Ts[e] PROVE FALSE
  <2>1. Later(d) \subseteq Later(e) /\ d \in Later(e) /\ d \notin Later(d)
    BY <1>2, <1>6
  <2>2. Later(e) \in SUBSET R /\ Later(d) \in SUBSET R
    OBVIOUS
  <2>3. IsFiniteSet(Later(e)) /\ Cardinality(Later(e)) \in Nat /\ Cardinality(Later(d)) \in Nat
    BY <1>1, <2>2
  <2>4. Cardinality(Later(d)) <= Cardinality(Later(e))
        /\ (Cardinality(Later(d)) = Cardinality(Later(e)) => Later(d) = Later(e))
    <3> HIDE DEF Later
    <3>1. QED
      BY <2>1, <2>3, FS_Subset
  <2>5. Cardinality(Later(e)) <= Cardinality(Later(d))
    BY <1>4, <1>5
  <2>6. Later(d) = Later(e)
    <3> HIDE DEF Later
    <3>1. QED
      BY <2>3, <2>4, <2>5
  <2>7. QED
    BY <2>1, <2>6
<1>7. \E t \in T : \A s \in T : t >= s
  <2>1. \A s \in T : Ts[e] >= s
    BY <1>2, <1>6
  <2>2. QED
    BY <2>1
<1>8. QED
  BY <1>7 DEF Max

(* A bucket is a half-open interval of that width, and so is met by no     *)
(* other.                                                                  *)
LEMMA BucketBounds ==
  ASSUME NEW t \in Int
  PROVE  /\ Bucket(t) \in Int /\ Bucket(t) <= t /\ t < Bucket(t) + Width
         /\ \E k \in Int : Bucket(t) = k * Width
<1>1. Width \in Nat /\ Width > 0
  BY WindowAssumption
<1>2. t = Width * (t \div Width) + (t % Width) /\ t \div Width \in Int /\ t % Width \in 0..(Width - 1)
  BY <1>1
<1>3. QED
  BY <1>1, <1>2 DEF Bucket

LEMMA BucketIs ==
  ASSUME NEW t \in Int, NEW k \in Int, k * Width <= t, t < k * Width + Width
  PROVE  Bucket(t) = k * Width
<1>1. Width \in Nat /\ Width > 0
  BY WindowAssumption
<1>2. PICK j \in Int : Bucket(t) = j * Width
  BY BucketBounds
<1>3. j * Width <= t /\ t < j * Width + Width
  BY <1>2, BucketBounds
<1>4. ~(j < k)
  <2>1. SUFFICES ASSUME j < k PROVE FALSE
    OBVIOUS
  <2>2. (j + 1) * Width <= k * Width
    BY <1>1, <2>1
  <2>3. (j + 1) * Width = j * Width + Width
    BY <1>1
  <2>4. j * Width \in Int /\ k * Width \in Int
    BY <1>1
  <2>5. QED
    BY <1>1, <1>3, <2>2, <2>3, <2>4
<1>5. ~(k < j)
  <2>1. SUFFICES ASSUME k < j PROVE FALSE
    OBVIOUS
  <2>2. (k + 1) * Width <= j * Width
    BY <1>1, <2>1
  <2>3. (k + 1) * Width = k * Width + Width
    BY <1>1
  <2>4. j * Width \in Int /\ k * Width \in Int
    BY <1>1
  <2>5. QED
    BY <1>1, <1>3, <2>2, <2>3, <2>4
<1>6. QED
  BY <1>2, <1>4, <1>5

(* The rows of recent_devices share the events of the window out.          *)
LEMMA DevicesAddUp ==
  ASSUME NEW rows \in SUBSET Events, \A e \in rows : Ts[e] >= Since
  PROVE  LET devices == DeviceChart(rows)
         IN /\ SumFunction([g \in DOMAIN devices |-> devices[g].total]) = Cardinality(rows)
            /\ \A g \in DOMAIN devices :
                 /\ devices[g].crashes + devices[g].errors <= devices[g].total
                 /\ devices[g].lastSeen >= Since
<1> DEFINE devices == DeviceChart(rows)
           G == {GroupOf(e) : e \in rows}
           group == [e \in rows |-> GroupOf(e)]
           In(g) == {e \in rows : GroupOf(e) = g}
           crashed(g) == {e \in In(g) : KindOf[e] = "crash"}
           wrong(g) == {e \in In(g) : KindOf[e] = "error"}
<1>1. \A P \in SUBSET rows : IsFiniteSet(P) /\ Cardinality(P) \in Nat
  BY EventsAssumption, FS_Subset, FS_CardinalityType
<1>2. IsFiniteSet(G)
  <2>1. group \in Surjection(rows, G)
    BY DEF Surjection
  <2> HIDE DEF G, group
  <2>2. QED
    BY <1>1, <2>1, FS_Surjection
<1>3. /\ DOMAIN devices = G
      /\ \A g \in G : /\ devices[g].total = Cardinality(In(g))
                      /\ devices[g].crashes = Cardinality(crashed(g))
                      /\ devices[g].errors = Cardinality(wrong(g))
                      /\ devices[g].lastSeen = Max({Ts[e] : e \in In(g)})
  BY DEF DeviceChart
<1>4. SumFunction([g \in G |-> Cardinality({e \in rows : group[e] = g})]) = Cardinality(rows)
  <2>1. group \in [rows -> G]
    OBVIOUS
  <2> HIDE DEF G, group
  <2>2. QED
    BY <1>1, <1>2, <2>1, GroupsAddUp
<1>5. [g \in G |-> Cardinality({e \in rows : group[e] = g})] = [g \in DOMAIN devices |-> devices[g].total]
  <2>1. \A g : {e \in rows : group[e] = g} = In(g)
    OBVIOUS
  <2> HIDE DEF G, devices, group, In
  <2>2. QED
    BY <1>3, <2>1
<1>6. ASSUME NEW g \in G PROVE devices[g].crashes + devices[g].errors <= devices[g].total
  <2>1. /\ crashed(g) \in SUBSET rows /\ wrong(g) \in SUBSET rows /\ In(g) \in SUBSET rows
        /\ crashed(g) \cap wrong(g) = {} /\ crashed(g) \cup wrong(g) \subseteq In(g)
        /\ crashed(g) \cup wrong(g) \in SUBSET rows
    OBVIOUS
  <2> HIDE DEF crashed, wrong, In, devices, G
  <2>2. Cardinality(crashed(g) \cup wrong(g)) = Cardinality(crashed(g)) + Cardinality(wrong(g)) - Cardinality({})
    BY <1>1, <2>1, FS_Union
  <2>3. Cardinality({}) = 0
    BY FS_EmptySet
  <2>4. Cardinality(crashed(g) \cup wrong(g)) <= Cardinality(In(g))
    BY <1>1, <2>1, FS_Subset
  <2>5. /\ Cardinality(crashed(g)) \in Nat /\ Cardinality(wrong(g)) \in Nat
        /\ Cardinality(In(g)) \in Nat /\ Cardinality(crashed(g) \cup wrong(g)) \in Nat
    BY <1>1, <2>1
  <2>6. Cardinality(crashed(g)) + Cardinality(wrong(g)) <= Cardinality(In(g))
    BY <2>2, <2>3, <2>4, <2>5
  <2>7. QED
    BY <1>3, <2>6
<1>7. ASSUME NEW g \in G PROVE devices[g].lastSeen >= Since
  <2>1. In(g) \in SUBSET Events /\ In(g) # {}
    OBVIOUS
  <2>2. Max({Ts[e] : e \in In(g)}) \in {Ts[e] : e \in In(g)}
    <3> HIDE DEF In
    <3>1. QED
      BY <2>1, HasLatest
  <2>3. PICK e \in In(g) : devices[g].lastSeen = Ts[e]
    <3> HIDE DEF In, devices, G
    <3>1. QED
      BY <1>3, <2>2
  <2>4. QED
    BY <2>3
<1>8. QED
  <2> HIDE DEF devices, G
  <2>1. SumFunction([g \in DOMAIN devices |-> devices[g].total]) = Cardinality(rows)
    BY <1>4, <1>5
  <2>2. \A g \in DOMAIN devices :
          devices[g].crashes + devices[g].errors <= devices[g].total /\ devices[g].lastSeen >= Since
    BY <1>3, <1>6, <1>7
  <2>3. QED
    BY <2>1, <2>2 DEF devices

(* So do the buckets of timeline, each with all that fell into it.         *)
LEMMA BucketsAddUp ==
  ASSUME NEW rows \in SUBSET Events, \A e \in rows : Ts[e] >= Since
  PROVE  LET buckets == BucketChart(rows)
         IN /\ SumFunction(buckets) = Cardinality(rows)
            /\ \A b \in DOMAIN buckets :
                 /\ buckets[b] = Cardinality({e \in rows : b <= Ts[e] /\ Ts[e] < b + Width})
                 /\ b < Since => \A other \in DOMAIN buckets : b <= other
<1> DEFINE buckets == BucketChart(rows)
           G == {Bucket(Ts[e]) : e \in rows}
           group == [e \in rows |-> Bucket(Ts[e])]
<1>1. IsFiniteSet(rows) /\ \A e \in rows : Ts[e] \in Int
  BY EventsAssumption, TsAssumption, FS_Subset
<1>2. IsFiniteSet(G)
  <2>1. group \in Surjection(rows, G)
    BY DEF Surjection
  <2> HIDE DEF G, group
  <2>2. QED
    BY <1>1, <2>1, FS_Surjection
<1>3. DOMAIN buckets = G /\ \A b \in G : buckets[b] = Cardinality({e \in rows : Bucket(Ts[e]) = b})
  BY DEF BucketChart
<1>4. SumFunction(buckets) = Cardinality(rows)
  <2>1. group \in [rows -> G]
    OBVIOUS
  <2>2. buckets = [b \in G |-> Cardinality({e \in rows : group[e] = b})]
    <3>1. \A b : {e \in rows : group[e] = b} = {e \in rows : Bucket(Ts[e]) = b}
      OBVIOUS
    <3>2. buckets = [b \in G |-> Cardinality({e \in rows : Bucket(Ts[e]) = b})]
      BY DEF BucketChart
    <3> HIDE DEF G, group, buckets
    <3>3. QED
      BY <3>1, <3>2
  <2> HIDE DEF G, group, buckets
  <2>3. QED
    BY <1>1, <1>2, <2>1, <2>2, GroupsAddUp
<1>5. ASSUME NEW b \in G
      PROVE  buckets[b] = Cardinality({e \in rows : b <= Ts[e] /\ Ts[e] < b + Width})
  <2>1. PICK k \in Int : b = k * Width
    BY <1>1, BucketBounds
  <2>2. \A e \in rows : Bucket(Ts[e]) = b <=> b <= Ts[e] /\ Ts[e] < b + Width
    BY <1>1, <2>1, BucketBounds, BucketIs
  <2>3. {e \in rows : Bucket(Ts[e]) = b} = {e \in rows : b <= Ts[e] /\ Ts[e] < b + Width}
    BY <2>2
  <2>4. buckets[b] = Cardinality({e \in rows : Bucket(Ts[e]) = b})
    BY <1>3
  <2>5. QED
    BY <2>3, <2>4
<1>6. ASSUME NEW b \in G, b < Since, NEW other \in G PROVE b <= other
  <2>1. PICK k \in Int : b = k * Width
    BY <1>1, BucketBounds
  <2>2. PICK e \in rows : other = Bucket(Ts[e])
    OBVIOUS
  <2>3. PICK j \in Int : other = j * Width
    BY <1>1, <2>2, BucketBounds
  <2>4. Ts[e] \in Int /\ Since \in Int /\ Since <= Ts[e] /\ Ts[e] < j * Width + Width
    BY <1>1, <2>2, <2>3, BucketBounds, WindowAssumption
  <2>5. ~(j < k)
    <3>1. SUFFICES ASSUME j < k PROVE FALSE
      OBVIOUS
    <3>2. (j + 1) * Width <= k * Width /\ (j + 1) * Width = j * Width + Width
      BY <3>1, WindowAssumption
    <3>3. j * Width \in Int /\ k * Width \in Int
      BY WindowAssumption
    <3>4. QED
      BY <1>6, <2>1, <2>4, <3>2, <3>3, WindowAssumption
  <2>6. QED
    BY <2>1, <2>3, <2>5, WindowAssumption
<1>7. QED
  <2> HIDE DEF buckets, G
  <2>1. QED
    BY <1>3, <1>4, <1>5, <1>6 DEF buckets
-----------------------------------------------------------------------------
LEMMA ValuesGrow ==
  \A R, S, i : R \subseteq S => ValuesOf(R, i) \subseteq ValuesOf(S, i)
  BY DEF ValuesOf

LEMMA InitIInv ==
  ASSUME QueryInit
  PROVE  IInv
<1> USE DEF QueryInit, Init
<1>1. Types
  BY DEF Types, Selected
<1>2. UnseenIsAhead
  <2>1. ASSUME NEW e \in atStart \cap Matching PROVE Cardinality(Ahead(e)) \in Nat
    BY <1>1, SelectedIsFinite DEF Ahead
  <2>2. QED
    BY <2>1 DEF UnseenIsAhead
<1>3. ChartIsOfRead
  BY DEF ChartIsOfRead, EventKinds
<1>4. QED
  BY <1>1, <1>2, <1>3 DEF IInv, TotalIsReached, PagesInOrder, ScanMissesNothing, FacetsSelectSomething

LEMMA SameChart ==
  ASSUME ChartIsOfRead, UNCHANGED <<query, chart, kinds, read>>
  PROVE  ChartIsOfRead'
  BY DEF ChartIsOfRead, DeviceChart, BucketChart, Recent, GroupOf, Bucket

(* Inserts only put more rows ahead of others.                             *)
LEMMA CommitKeeps ==
  ASSUME IInv, NEW batch \in SUBSET (Events \ table), Commit(batch), UNCHANGED queryVars
  PROVE  IInv'
<1> USE DEF Commit, queryVars
<1>1. Types /\ Types'
  BY DEF IInv, Types, Selected
<1>2. Selected \subseteq Selected'
  BY DEF Selected
<1>3. UnseenIsAhead'
  <2> SUFFICES ASSUME NEW e \in atStart \cap Matching, Untied(e), e \notin seen
               PROVE  Cardinality(Ahead(e)') >= offset
    BY DEF UnseenIsAhead, Untied, Ahead, Before
  <2>1. Ahead(e) \subseteq Ahead(e)' /\ Ahead(e)' \subseteq Selected' /\ Ahead(e) \subseteq Selected
    BY <1>2 DEF Ahead, Before
  <2>2. IsFiniteSet(Selected')
    BY <1>1, EventsAssumption, FS_Subset DEF Types, Selected
  <2>3. IsFiniteSet(Ahead(e)') /\ Cardinality(Ahead(e)') \in Nat /\ Cardinality(Ahead(e)) \in Nat
    BY <1>1, <2>1, <2>2, FS_Subset, FS_CardinalityType, SelectedIsFinite
  <2>4. Cardinality(Ahead(e)) <= Cardinality(Ahead(e)')
    BY <2>1, <2>3, FS_Subset
  <2>5. Cardinality(Ahead(e)) >= offset
    BY DEF IInv, UnseenIsAhead
  <2>6. QED
    BY <1>1, <2>3, <2>4, <2>5 DEF Types
<1>4. TotalIsReached'
  <2>1. IsFiniteSet(Selected')
    BY <1>1, EventsAssumption, FS_Subset DEF Types, Selected
  <2>2. Cardinality(Selected) <= Cardinality(Selected')
        /\ Cardinality(Selected) \in Nat /\ Cardinality(Selected') \in Nat
    BY <1>1, <1>2, <2>1, FS_Subset, FS_CardinalityType, SelectedIsFinite
  <2>3. QED
    BY <1>1, <2>2 DEF IInv, TotalIsReached, Types
<1>5. PagesInOrder' /\ ScanMissesNothing'
  BY DEF IInv, PagesInOrder, ScanMissesNothing, Untied, Before
<1>6. FacetsSelectSomething'
  <2> SUFFICES ASSUME NEW i \in DOMAIN facets
               PROVE  ValuesOf(atStart, i) \subseteq facets[i] /\ facets[i] \subseteq ValuesOf(table', i)
    BY DEF FacetsSelectSomething, ValuesOf
  <2>1. ValuesOf(atStart, i) \subseteq facets[i] /\ facets[i] \subseteq ValuesOf(table, i)
    BY DEF IInv, FacetsSelectSomething
  <2>2. ValuesOf(table, i) \subseteq ValuesOf(table', i)
    BY ValuesGrow
  <2>3. QED
    BY <2>1, <2>2
<1>7. ChartIsOfRead'
  BY SameChart DEF IInv
<1>8. QED
  BY <1>1, <1>3, <1>4, <1>5, <1>6, <1>7 DEF IInv

LEMMA CountKeeps ==
  ASSUME IInv, Count, UNCHANGED queryVars
  PROVE  IInv'
<1> USE DEF Count, queryVars
<1>1. Types /\ Selected' = Selected
  BY DEF IInv, Selected
<1>2. Cardinality(Selected) \in Nat
  BY <1>1, SelectedIsFinite
<1>3. Types'
  BY <1>1, <1>2 DEF Types
<1>4. UnseenIsAhead' /\ PagesInOrder'
  BY <1>1 DEF IInv, UnseenIsAhead, PagesInOrder, Untied, Ahead, Before
<1>5. TotalIsReached' /\ ScanMissesNothing'
  BY <1>1, <1>2 DEF TotalIsReached, ScanMissesNothing
<1>6. FacetsSelectSomething'
  BY DEF IInv, FacetsSelectSomething, ValuesOf
<1>7. ChartIsOfRead'
  BY SameChart DEF IInv
<1>8. QED
  BY <1>3, <1>4, <1>5, <1>6, <1>7 DEF IInv

LEMMA ReadRowsKeeps ==
  ASSUME IInv, ReadRows, UNCHANGED queryVars
  PROVE  IInv'
<1>1. Types /\ Selected' = Selected /\ pc = "rows" /\ offset \in Nat /\ offset + Limit \in Nat
  BY LimitAssumption DEF IInv, ReadRows, Selected, Types
<1>2. PICK P \in Prefixes(offset), Q \in Prefixes(offset + Limit) :
        /\ P \subseteq Q /\ page' = Q \ P
        /\ Cardinality(page') \in Nat /\ Cardinality(Q) = Cardinality(P) + Cardinality(page')
  BY <1>1, PageOfPrefixes
<1>3. /\ P \subseteq Selected /\ Cardinality(P) \in Nat /\ Cardinality(P) <= offset
      /\ Cardinality(P) = offset \/ P = Selected
      /\ Q \subseteq Selected /\ Cardinality(Q) \in Nat /\ Cardinality(Q) <= offset + Limit
      /\ Cardinality(Q) = offset + Limit \/ Q = Selected
  BY <1>1, SizeOfPrefix
<1>4. Types'
  BY <1>1, <1>2, <1>3 DEF Types, ReadRows, queryVars
(* What the earlier pages should have shown they have.                     *)
<1>5. ASSUME NEW e \in atStart \cap Matching, Untied(e), e \in Q PROVE e \in seen'
  <2>1. CASE e \in P
    <3>1. Cardinality(Ahead(e)) < offset
      BY <1>1, <2>1, InPrefix
    <3>2. Cardinality(Ahead(e)) \in Nat
      BY <1>1, SelectedIsFinite DEF Ahead
    <3>3. e \in seen
      BY <1>1, <1>5, <3>1, <3>2 DEF IInv, UnseenIsAhead
    <3>4. QED
      BY <3>3 DEF ReadRows
  <2>2. CASE e \notin P
    BY <1>2, <1>5, <2>2 DEF ReadRows
  <2>3. QED
    BY <2>1, <2>2
<1>6. UnseenIsAhead'
  <2> SUFFICES ASSUME NEW e \in atStart \cap Matching, Untied(e), e \notin seen'
               PROVE  Cardinality(Ahead(e)) >= offset + Limit
    BY <1>1 DEF UnseenIsAhead, Untied, Ahead, Before, ReadRows
  <2>1. e \notin Q /\ e \in Selected
    BY <1>1, <1>5 DEF Types, Selected
  <2>2. QED
    BY <1>1, <2>1, OutsidePrefix
<1>7. PagesInOrder'
  <2> SUFFICES ASSUME NEW e \in atStart \cap Matching, NEW d \in seen', Untied(e), Before(e, d)
               PROVE  e \in seen'
    BY DEF PagesInOrder, Untied, Before, ReadRows
  <2>1. CASE d \in seen
    BY <2>1 DEF IInv, PagesInOrder, ReadRows
  <2>2. CASE d \in Q
    <3>1. e \in Q
      BY <1>1, <2>2 DEF Prefixes, Types, Selected
    <3>2. QED
      BY <1>5, <3>1
  <2>3. QED
    BY <1>2, <2>1, <2>2 DEF ReadRows
<1>8. ScanMissesNothing'
  <2>1. ASSUME Cardinality(page') < Limit
        PROVE  /\ \A e \in atStart \cap Matching : Untied(e) => e \in seen'
               /\ total <= offset + Cardinality(page')
    <3>1. Cardinality(Q) < offset + Limit
      BY <1>1, <1>2, <1>3, <2>1, LimitAssumption
    <3>2. Q = Selected
      BY <1>1, <1>3, <3>1, LimitAssumption
    <3>3. total <= Cardinality(Q)
      BY <1>1, <3>2 DEF IInv, TotalIsReached
    <3>4. QED
      BY <1>1, <1>2, <1>3, <1>5, <3>2, <3>3 DEF Types, Selected
  <2>2. /\ atStart' = atStart /\ total' = total /\ offset' = offset + Limit
        /\ pc' = "done" => Cardinality(page') < Limit
    BY DEF ReadRows
  <2>3. offset' - Limit + Cardinality(page') = offset + Cardinality(page')
    BY <1>1, <1>2, <2>2, LimitAssumption
  <2>4. ASSUME pc' = "done", NEW e \in atStart' \cap Matching, Untied(e)' PROVE e \in seen'
    BY <2>1, <2>2, <2>4 DEF Untied
  <2>5. QED
    BY <2>1, <2>2, <2>3, <2>4 DEF ScanMissesNothing
<1>9. TotalIsReached' /\ FacetsSelectSomething'
  BY DEF IInv, TotalIsReached, FacetsSelectSomething, ValuesOf, ReadRows, queryVars
<1>10. ChartIsOfRead'
  BY SameChart DEF IInv, queryVars
<1>11. QED
  BY <1>4, <1>6, <1>7, <1>8, <1>9, <1>10 DEF IInv

(* A step that leaves the scan and the table alone.                        *)
LEMMA ScanKeeps ==
  ASSUME IInv, UNCHANGED vars
  PROVE  UnseenIsAhead' /\ TotalIsReached' /\ PagesInOrder' /\ ScanMissesNothing'
<1> USE DEF IInv, vars
<1>1. UnseenIsAhead'
  BY DEF UnseenIsAhead, Untied, Ahead, Before, Selected
<1>2. TotalIsReached'
  BY DEF TotalIsReached, Selected
<1>3. PagesInOrder'
  BY DEF PagesInOrder, Untied, Before
<1>4. ScanMissesNothing'
  BY DEF ScanMissesNothing, Untied
<1>5. QED
  BY <1>1, <1>2, <1>3, <1>4

(* A column is read from a table that has what was there at the start, and *)
(* what it shows stays in the table.                                       *)
LEMMA ReadFacetKeeps ==
  ASSUME IInv, ReadFacet
  PROVE  IInv'
<1>1. Types /\ FacetsSelectSomething /\ UNCHANGED vars
  BY DEF IInv, ReadFacet
<1> DEFINE i == Len(facets) + 1
           new == ValuesOf(table, i)
<1>2. i \in 1..4
  <2>1. Len(Columns) = 4
    BY DEF Columns
  <2>2. Len(facets) \in Nat
    BY <1>1 DEF Types
  <2>3. Len(facets) < Len(Columns)
    BY DEF ReadFacet
  <2>4. QED
    BY <2>1, <2>2, <2>3
<1>3. facets' = Append(facets, new)
  BY DEF ReadFacet, ValuesOf, Recent
<1>4. new \in Facet
  <2>1. table \subseteq Events
    BY <1>1 DEF Types
  <2>2. ASSUME NEW e \in table PROVE \E f \in Events, j \in 1..4 : Value[e][Columns[i]] = Value[f][Columns[j]]
    BY <1>2, <2>1
  <2>3. ASSUME NEW v \in new PROVE \E e \in table : v = Value[e][Columns[i]]
    BY DEF ValuesOf
  <2>4. QED
    BY <1>2, <2>1, <2>3 DEF Facet
<1> HIDE DEF new
<1>5. /\ facets' \in Seq(Facet) /\ Len(facets') = i /\ facets'[i] = new
      /\ \A j \in DOMAIN facets : facets'[j] = facets[j]
      /\ DOMAIN facets' = DOMAIN facets \cup {i}
  BY <1>1, <1>3, <1>4 DEF Types
<1>6. Types'
  BY <1>1, <1>2, <1>5 DEF Types, vars, Selected
<1>7. atStart \subseteq table
  BY <1>1 DEF Types, Selected
<1>8. ASSUME NEW j \in DOMAIN facets'
      PROVE  ValuesOf(atStart, j) \subseteq facets'[j] /\ facets'[j] \subseteq ValuesOf(table, j)
  <2>1. CASE j = i
    BY <1>5, <1>7, <2>1, ValuesGrow DEF new
  <2>2. CASE j # i
    BY <1>1, <1>5, <2>2 DEF FacetsSelectSomething
  <2>3. QED
    BY <2>1, <2>2
<1>9. FacetsSelectSomething'
  BY <1>1, <1>8 DEF FacetsSelectSomething, ValuesOf, vars
<1>10. UnseenIsAhead' /\ TotalIsReached' /\ PagesInOrder' /\ ScanMissesNothing'
  BY <1>1, ScanKeeps
<1>11. ChartIsOfRead'
  BY <1>1 DEF IInv, ChartIsOfRead, ReadFacet, Types
<1>12. QED
  BY <1>6, <1>9, <1>10, <1>11 DEF IInv

(* A step that leaves the drop-downs alone as well.                        *)
LEMMA RestKeeps ==
  ASSUME IInv, UNCHANGED <<vars, facets>>, ChartIsOfRead'
  PROVE  IInv'
<1>1. Types'
  BY DEF IInv, vars, Types, Selected
<1>2. FacetsSelectSomething'
  BY DEF IInv, vars, FacetsSelectSomething, ValuesOf
<1>3. QED
  BY <1>1, <1>2, ScanKeeps DEF IInv

LEMMA StatisticsKeep ==
  ASSUME IInv, RecentDevices \/ Timeline
  PROVE  IInv'
<1>1. UNCHANGED <<vars, query, facets, kinds>> /\ read' = table /\ table \subseteq Events
  BY DEF RecentDevices, Timeline, IInv, Types
<1>2. CASE RecentDevices
  <2>1. query' = "recent" /\ chart' = DeviceChart(Recent(read'))
    BY <1>1, <1>2 DEF RecentDevices
  <2>2. ChartIsOfRead'
    BY <1>1, <2>1 DEF IInv, ChartIsOfRead
  <2>3. QED
    BY <1>1, <2>2, RestKeeps
<1>3. CASE Timeline
  <2>1. query' = "timeline" /\ chart' = BucketChart({e \in Recent(read') : KindOf[e] \in kinds'})
    BY <1>1, <1>3 DEF Timeline
  <2>2. ChartIsOfRead'
    BY <1>1, <2>1 DEF IInv, ChartIsOfRead
  <2>3. QED
    BY <1>1, <2>2, RestKeeps
<1>4. QED
  BY <1>2, <1>3

LEMMA NextIInv ==
  ASSUME IInv, [QueryNext]_allVars
  PROVE  IInv'
<1>1. CASE \E batch \in SUBSET (Events \ table) \ {{}} : Commit(batch) /\ UNCHANGED queryVars
  BY <1>1, CommitKeeps
<1>2. CASE Count /\ UNCHANGED queryVars
  BY <1>2, CountKeeps
<1>3. CASE ReadRows /\ UNCHANGED queryVars
  BY <1>3, ReadRowsKeeps
<1>4. CASE ReadFacet
  BY <1>4, ReadFacetKeeps
<1>5. CASE RecentDevices \/ Timeline
  BY <1>5, StatisticsKeep
<1>6. CASE UNCHANGED allVars
  BY <1>6, SameChart, RestKeeps DEF IInv, allVars, queryVars
<1>7. QED
  BY <1>1, <1>2, <1>3, <1>4, <1>5, <1>6 DEF QueryNext

(* The scan and the drop-downs agree with the table in every reachable     *)
(* state (events.py:199-288).                                              *)
THEOREM QueriesInvariance == QuerySpec => []IInv
<1>1. QueryInit => IInv
  BY InitIInv
<1>2. IInv /\ [QueryNext]_allVars => IInv'
  BY NextIInv
<1>3. QED
  BY <1>1, <1>2, PTL DEF QuerySpec

(* Every variable of a scan keeps its type (events.py:199-262).            *)
THEOREM QueriesTypeCorrect == QuerySpec => []TypeOK
<1>1. IInv => TypeOK
  BY MatchingAssumption DEF IInv, Types, TypeOK, Selected
<1>2. QED
  BY <1>1, QueriesInvariance, PTL

(* No page shows a row while an untied one that belongs before it is still *)
(* to come (events.py:253-255).                                            *)
THEOREM PagesAlwaysInOrder == QuerySpec => []PagesInOrder
<1>1. IInv => PagesInOrder
  BY DEF IInv
<1>2. QED
  BY <1>1, QueriesInvariance, PTL

(* A scan that has ended has read every untied row that was there when it  *)
(* began, and its last page is level with its total (events.py:250-262).   *)
THEOREM NoScanMissesAnything == QuerySpec => []ScanMissesNothing
<1>1. IInv => ScanMissesNothing
  BY DEF IInv
<1>2. QED
  BY <1>1, QueriesInvariance, PTL

(* The drop-downs offer what was there at the start and nothing that is    *)
(* not in the table (events.py:276-288).                                   *)
THEOREM FacetsAlwaysSelectSomething == QuerySpec => []FacetsSelectSomething
<1>1. IInv => FacetsSelectSomething
  BY DEF IInv
<1>2. QED
  BY <1>1, QueriesInvariance, PTL

(* Nothing has been counted where nothing has been read.                   *)
LEMMA NothingAddsUp ==
  SumFunction([g \in DOMAIN <<>> |-> <<>>[g].total]) = 0 /\ SumFunction(<<>>) = 0
<1> DEFINE none == [T \in SUBSET {} |-> 0]
<1>1. DOMAIN <<>> = {}
  OBVIOUS
<1>2. ASSUME NEW f, f \in [{} -> Int] PROVE SumFunction(f) = 0
  <2>1. IsFiniteSet({}) /\ none \in [SUBSET {} -> Int] /\ none[{}] = 0
    BY FS_EmptySet
  <2>2. \A T \in SUBSET {} : \A x \in T : none[T] = f[x] + none[T \ {x}]
    OBVIOUS
  <2> HIDE DEF none
  <2>3. SumFunction(f) = none[{}]
    BY <1>2, <2>1, <2>2, SumIs
  <2>4. QED
    BY <2>1, <2>3
<1>3. [g \in DOMAIN <<>> |-> <<>>[g].total] \in [{} -> Int] /\ <<>> \in [{} -> Int]
  BY <1>1
<1>4. QED
  BY <1>2, <1>3

(* What either endpoint of stats.py answers adds up to the events of its   *)
(* window, for any rows, window, width of a bucket and filter              *)
(* (stats.py:23-95).                                                       *)
THEOREM StatisticsAlwaysAddUp == QuerySpec => []StatisticsAddUp
<1>1. ASSUME IInv PROVE StatisticsAddUp
  <2> DEFINE rows == {e \in read : Ts[e] >= Since /\ KindOf[e] \in kinds}
  <2>1. rows \in SUBSET Events /\ \A e \in rows : Ts[e] >= Since
    BY <1>1 DEF IInv, ChartIsOfRead
  <2>2. Cardinality({}) = 0
    BY FS_EmptySet
  <2>3. ASSUME read = {}, chart = <<>> PROVE StatisticsAddUp
    <3>1. rows = {} /\ DOMAIN chart = {}
      BY <2>3
    <3>2. SumFunction([g \in DOMAIN chart |-> chart[g].total]) = 0 /\ SumFunction(chart) = 0
      BY <2>3, NothingAddsUp
    <3>3. QED
      BY <2>2, <3>1, <3>2 DEF StatisticsAddUp
  <2>4. ASSUME query = "recent", chart = DeviceChart(Recent(read)) PROVE StatisticsAddUp
    <3>1. rows = Recent(read)
      BY <1>1, <2>4, KindOfAssumption DEF IInv, ChartIsOfRead, Recent
    <3> HIDE DEF rows
    <3>2. QED
      BY <2>1, <2>4, <3>1, DevicesAddUp DEF StatisticsAddUp, rows
  <2>5. ASSUME query = "timeline", chart = BucketChart({e \in Recent(read) : KindOf[e] \in kinds})
        PROVE  StatisticsAddUp
    <3>1. rows = {e \in Recent(read) : KindOf[e] \in kinds}
      BY DEF Recent
    <3> HIDE DEF rows
    <3>2. QED
      BY <2>1, <2>5, <3>1, BucketsAddUp DEF StatisticsAddUp, rows
  <2>6. QED
    BY <1>1, <2>3, <2>4, <2>5 DEF IInv, ChartIsOfRead, StatisticsAddUp
<1>2. QED
  BY <1>1, QueriesInvariance, PTL
=============================================================================
