--------------------------- MODULE RequestProofs ---------------------------
(***************************************************************************)
(* Proofs about IngestRequest, for bodies of any length and any caps.      *)
(***************************************************************************)
EXTENDS IngestRequest, SequenceTheorems, Sums

-----------------------------------------------------------------------------
(* The inductive invariant, in parts.                                      *)

(* How many texts the parse loop has been through.                         *)
Parsed == IF pc = "parse" THEN cursor ELSE Len(Texts(body))

NonBlank(n) == {i \in 1..n : Texts(body)[i] # "blank"}

Distinct(s) == \A i, j \in DOMAIN s : i # j => s[i] # s[j]

(* Every text that is not blank has become an object or an error, and the  *)
(* errors have the numbers of the texts they are about.                    *)
Parsing ==
  /\ pc = "size" => cursor = 0 /\ objects = <<>> /\ parseErrors = <<>>
  /\ pc = "parse" => cursor <= Len(Texts(body))
  /\ pc \in {"parse", "cap", "validate", "persist", "commit"} =>
       Len(objects) + Len(parseErrors) = Cardinality(NonBlank(Parsed))
  /\ \A i \in DOMAIN objects : IsObject(objects[i])
  /\ \A i \in DOMAIN parseErrors :
       parseErrors[i][2] \in 1..Parsed /\ IsNoise(Texts(body)[parseErrors[i][2]])
  /\ Distinct(parseErrors)

(* e names a rejected one of the first c of the objects os, or a text of b *)
(* that is no object.                                                      *)
PointsAtRejection(e, c, os, b) ==
  IF e[1] = "event" THEN e[2] \in 1..c /\ os[e[2]] = "invalid"
                    ELSE IsNoise(Texts(b)[e[2]])

(* Every object the second loop has been through is a row or an error.     *)
Validating ==
  /\ pc \in {"size", "parse", "cap"} => rows = <<>>
  /\ pc \in {"validate", "persist", "commit"} =>
       /\ cursor <= Len(objects) /\ (pc # "validate" => cursor = Len(objects))
       /\ Len(errors) + Len(rows) = Len(parseErrors) + cursor
       /\ \A i \in DOMAIN errors : PointsAtRejection(errors[i], cursor, objects, body)
       /\ Distinct(errors)

Answered ==
  /\ pc = "commit" =>
       response = [accepted |-> Len(rows),
                   rejected |-> Len(objects) + Len(parseErrors) - Len(rows),
                   errors   |-> SubSeq(errors, 1, SmallerOf(Len(errors), ErrorCap))]
  /\ status # 0 => pc = "done"
  /\ NothingUncounted /\ ErrorsPointAtRejections

IInv == TypeOK /\ Parsing /\ Validating /\ Answered
-----------------------------------------------------------------------------
(* Facts about sequences.                                                  *)

LEMMA AppendKeepsDistinct ==
  ASSUME NEW S, NEW s \in Seq(S), NEW x \in S, Distinct(s), \A i \in DOMAIN s : s[i] # x
  PROVE  Distinct(Append(s, x))
  BY AppendProperties, LenProperties DEF Distinct

LEMMA AppendKeepsAll ==
  ASSUME NEW S, NEW s \in Seq(S), NEW x \in S
  PROVE  /\ Append(s, x) \in Seq(S) /\ Len(Append(s, x)) = Len(s) + 1
         /\ \A i \in DOMAIN Append(s, x) :
              Append(s, x)[i] = x \/ (i \in DOMAIN s /\ Append(s, x)[i] = s[i])
  BY AppendProperties, LenProperties

(* What the handler goes through is a sequence of texts.                   *)
LEMMA LinesAreTexts ==
  ASSUME NEW b, b.texts \in Seq(Kinds)
  PROVE  Lines(b) \in Seq(Kinds)
<1> DEFINE elements == [i \in DOMAIN b.texts |-> IF i = Len(b.texts) THEN b.texts[i] ELSE "broken"]
<1>1. "broken" \in Kinds /\ "scalar" \in Kinds
  BY DEF Kinds
<1>2. <<"broken">> \in Seq(Kinds) /\ <<"scalar">> \in Seq(Kinds) /\ <<"broken", "broken">> \in Seq(Kinds)
  BY <1>1
<1>3. elements \in Seq(Kinds)
  BY <1>1
<1>4. <<"broken">> \o elements \o <<"broken">> \in Seq(Kinds)
  BY <1>2, <1>3, ConcatProperties
<1>5. QED
  BY <1>2, <1>4 DEF Lines

LEMMA TextsAreKinds ==
  ASSUME TypeOK
  PROVE  Texts(body) \in Seq(Kinds) /\ Len(Texts(body)) \in Nat
<1>1. body.texts \in Seq(Kinds)
  BY InputBodiesAssumption DEF TypeOK, Bodies
<1>2. QED
  BY <1>1, LinesAreTexts DEF Texts

LEMMA NonBlankGrows ==
  ASSUME NEW n \in Nat
  PROVE  /\ Cardinality(NonBlank(0)) = 0
         /\ Cardinality(NonBlank(n)) \in Nat
         /\ Cardinality(NonBlank(n + 1)) =
              Cardinality(NonBlank(n)) + IF Texts(body)[n + 1] # "blank" THEN 1 ELSE 0
<1>1. NonBlank(0) = {}
  BY DEF NonBlank
<1>2. IsFiniteSet(1..n) /\ NonBlank(n) \in SUBSET (1..n)
  BY FS_Interval DEF NonBlank
<1>3. IsFiniteSet(NonBlank(n)) /\ Cardinality(NonBlank(n)) \in Nat
  BY <1>2, FS_Subset, FS_CardinalityType
<1>4. n + 1 \notin NonBlank(n)
  BY DEF NonBlank
<1>5. NonBlank(n + 1) = IF Texts(body)[n + 1] # "blank" THEN NonBlank(n) \cup {n + 1} ELSE NonBlank(n)
  BY DEF NonBlank
<1>6. CASE Texts(body)[n + 1] # "blank"
  <2>1. Cardinality(NonBlank(n) \cup {n + 1}) = Cardinality(NonBlank(n)) + 1
    BY <1>3, <1>4, FS_AddElement
  <2>2. QED
    BY <1>1, <1>3, <1>5, <1>6, <2>1, FS_EmptySet
<1>7. CASE Texts(body)[n + 1] = "blank"
  BY <1>1, <1>3, <1>5, <1>7, FS_EmptySet
<1>8. QED
  BY <1>6, <1>7
-----------------------------------------------------------------------------
(* Kept, the filter of the reference reading, grows as a loop over the     *)
(* texts does.                                                             *)

At(s, kinds, n) == {i \in 1..n : s[i] \in kinds}
UpToIn(K, i) == {k \in K : k <= i}
KeptAt(s, K) == [j \in 1..Cardinality(K) |-> s[CHOOSE i \in K : Cardinality(UpToIn(K, i)) = j]]

LEMMA KeptIsAt ==
  ASSUME NEW s, NEW kinds, NEW n
  PROVE  Kept(s, kinds, n) = KeptAt(s, At(s, kinds, n))
  BY DEF Kept, KeptAt, At, UpToIn

LEMMA AtIsFinite ==
  ASSUME NEW s, NEW kinds, NEW n \in Nat, NEW P \in SUBSET At(s, kinds, n)
  PROVE  IsFiniteSet(P) /\ Cardinality(P) \in Nat
         /\ Cardinality(P) <= Cardinality(At(s, kinds, n)) /\ Cardinality(At(s, kinds, n)) \in Nat
<1>1. IsFiniteSet(1..n) /\ At(s, kinds, n) \in SUBSET (1..n)
  BY FS_Interval DEF At
<1>2. IsFiniteSet(At(s, kinds, n))
  BY <1>1, FS_Subset
<1>3. QED
  BY <1>2, FS_Subset, FS_CardinalityType

(* A last position is the last one kept, and changes no earlier one.       *)
LEMMA KeptAtOneMore ==
  ASSUME NEW s, NEW n \in Nat, NEW K \in SUBSET (1..n), NEW L, L = K \cup {n + 1}
  PROVE  /\ Cardinality(K) \in Nat /\ Cardinality(L) = Cardinality(K) + 1
         /\ \A j \in 1..Cardinality(K) : KeptAt(s, L)[j] = KeptAt(s, K)[j]
         /\ KeptAt(s, L)[Cardinality(K) + 1] = s[n + 1]
<1> DEFINE c == Cardinality(K)
           from(M, j) == CHOOSE i \in M : Cardinality(UpToIn(M, i)) = j
<1>1. IsFiniteSet(K) /\ c \in Nat
  <2>1. IsFiniteSet(1..n)
    BY FS_Interval
  <2>2. IsFiniteSet(K)
    BY <2>1, FS_Subset
  <2>3. QED
    BY <2>2, FS_CardinalityType
<1>2. n + 1 \notin K /\ \A i \in K : i \in Nat /\ i <= n
  OBVIOUS
<1>3. Cardinality(L) = c + 1
  BY <1>1, <1>2, FS_AddElement
<1>4. \A i \in K : UpToIn(L, i) = UpToIn(K, i)
  BY <1>2 DEF UpToIn
<1>5. UpToIn(L, n + 1) = L
  <2>1. \A i \in L : i <= n + 1
    BY <1>2
  <2>2. QED
    BY <2>1 DEF UpToIn
<1>6. \A i \in K : Cardinality(UpToIn(K, i)) \in Nat /\ Cardinality(UpToIn(K, i)) <= c
  BY <1>1, FS_Subset, FS_CardinalityType DEF UpToIn
<1>7. /\ \A j \in 1..c : KeptAt(s, K)[j] = s[from(K, j)]
      /\ \A j \in 1..(c + 1) : KeptAt(s, L)[j] = s[from(L, j)]
  <2> HIDE DEF c
  <2>1. \A j \in 1..c : KeptAt(s, K)[j] = s[from(K, j)]
    BY DEF KeptAt, c
  <2>2. \A j \in 1..Cardinality(L) : KeptAt(s, L)[j] = s[from(L, j)]
    BY DEF KeptAt
  <2>3. QED
    BY <1>3, <2>1, <2>2
<1>8. \A i \in L : i \in K \/ i = n + 1
  OBVIOUS
<1>9. ASSUME NEW j \in 1..c PROVE KeptAt(s, L)[j] = KeptAt(s, K)[j]
  <2>1. \A i : (i \in L /\ Cardinality(UpToIn(L, i)) = j) <=> (i \in K /\ Cardinality(UpToIn(K, i)) = j)
    <3> SUFFICES ASSUME NEW i
                 PROVE  (i \in L /\ Cardinality(UpToIn(L, i)) = j) <=> (i \in K /\ Cardinality(UpToIn(K, i)) = j)
      OBVIOUS
    <3>1. CASE i \in K
      BY <1>4, <3>1
    <3>2. CASE i = n + 1
      <4>1. Cardinality(UpToIn(L, i)) = c + 1
        BY <1>3, <1>5, <3>2
      <4>2. c + 1 # j /\ i \notin K
        BY <1>1, <1>2, <3>2
      <4>3. QED
        BY <4>1, <4>2
    <3>3. QED
      BY <1>8, <3>1, <3>2
  <2>2. from(L, j) = from(K, j)
    BY <2>1
  <2>3. j \in 1..(c + 1)
    BY <1>1
  <2> HIDE DEF from, c
  <2>4. QED
    BY <1>7, <2>2, <2>3
<1>10. KeptAt(s, L)[c + 1] = s[n + 1]
  <2>1. \A i \in L : Cardinality(UpToIn(L, i)) = c + 1 <=> i = n + 1
    <3> SUFFICES ASSUME NEW i \in L
                 PROVE  Cardinality(UpToIn(L, i)) = c + 1 <=> i = n + 1
      OBVIOUS
    <3>1. CASE i \in K
      <4>1. Cardinality(UpToIn(L, i)) \in Nat /\ Cardinality(UpToIn(L, i)) <= c
        BY <1>4, <1>6, <3>1
      <4>2. i # n + 1
        BY <1>2, <3>1
      <4> HIDE DEF c
      <4>3. QED
        BY <1>1, <4>1, <4>2
    <3>2. CASE i = n + 1
      BY <1>3, <1>5, <3>2
    <3>3. QED
      BY <1>8, <3>1, <3>2
  <2>2. from(L, c + 1) = n + 1
    BY <2>1
  <2>3. c + 1 \in 1..(c + 1)
    BY <1>1
  <2> HIDE DEF from, c
  <2>4. QED
    BY <1>7, <2>2, <2>3
<1>11. QED
  BY <1>1, <1>3, <1>9, <1>10

LEMMA AtGrows ==
  ASSUME NEW s, NEW kinds, NEW n \in Nat
  PROVE  At(s, kinds, n + 1) =
           IF s[n + 1] \in kinds THEN At(s, kinds, n) \cup {n + 1} ELSE At(s, kinds, n)
  BY DEF At

LEMMA KeptOneMore ==
  ASSUME NEW s, NEW kinds, NEW n \in Nat, s[n + 1] \in kinds
  PROVE  /\ Cardinality(At(s, kinds, n + 1)) = Cardinality(At(s, kinds, n)) + 1
         /\ \A j \in 1..Cardinality(At(s, kinds, n)) : Kept(s, kinds, n + 1)[j] = Kept(s, kinds, n)[j]
         /\ Kept(s, kinds, n + 1)[Cardinality(At(s, kinds, n)) + 1] = s[n + 1]
<1>1. At(s, kinds, n + 1) = At(s, kinds, n) \cup {n + 1} /\ At(s, kinds, n) \in SUBSET (1..n)
  BY AtGrows DEF At
<1>2. /\ Kept(s, kinds, n) = KeptAt(s, At(s, kinds, n))
      /\ Kept(s, kinds, n + 1) = KeptAt(s, At(s, kinds, n + 1))
  BY KeptIsAt, Zenon
<1> DEFINE K == At(s, kinds, n)
           L == At(s, kinds, n + 1)
<1> HIDE DEF K, L
<1>3. K \in SUBSET (1..n) /\ L = K \cup {n + 1}
  BY <1>1 DEF K, L
<1>4. Cardinality(L) = Cardinality(K) + 1
  BY <1>3, KeptAtOneMore
<1>5. KeptAt(s, L)[Cardinality(K) + 1] = s[n + 1]
  BY <1>3, KeptAtOneMore
<1>6. \A j \in 1..Cardinality(K) : KeptAt(s, L)[j] = KeptAt(s, K)[j]
  BY <1>3, KeptAtOneMore
<1>7. QED
  BY <1>2, <1>4, <1>5, <1>6, Zenon DEF K, L

LEMMA KeptNoMore ==
  ASSUME NEW s, NEW kinds, NEW n \in Nat, s[n + 1] \notin kinds
  PROVE  Kept(s, kinds, n + 1) = Kept(s, kinds, n)
<1>1. At(s, kinds, n + 1) = At(s, kinds, n)
  BY DEF At
<1>2. QED
  BY <1>1, KeptIsAt, Zenon

LEMMA KeptDomain ==
  ASSUME NEW s, NEW kinds, NEW n \in Nat
  PROVE  /\ DOMAIN Kept(s, kinds, n) = 1..Cardinality(At(s, kinds, n))
         /\ Kept(s, kinds, n) = [j \in 1..Cardinality(At(s, kinds, n)) |-> Kept(s, kinds, n)[j]]
         /\ Cardinality(At(s, kinds, n)) \in Nat
<1>1. Cardinality(At(s, kinds, n)) \in Nat
  BY AtIsFinite
<1>2. Kept(s, kinds, n) = KeptAt(s, At(s, kinds, n))
  BY KeptIsAt
<1> DEFINE c == Cardinality(At(s, kinds, n))
<1> HIDE DEF c
<1>3. \A K : /\ DOMAIN KeptAt(s, K) = 1..Cardinality(K)
             /\ KeptAt(s, K) = [j \in 1..Cardinality(K) |-> KeptAt(s, K)[j]]
  BY DEF KeptAt
<1>4. QED
  BY <1>1, <1>2, <1>3, Zenon

LEMMA KeptOfNone ==
  ASSUME NEW s, NEW kinds
  PROVE  Kept(s, kinds, 0) = <<>>
<1>1. At(s, kinds, 0) = {} /\ Cardinality({}) = 0
  BY FS_EmptySet DEF At
<1>2. KeptAt(s, {}) = [j \in 1..0 |-> KeptAt(s, {})[j]]
  BY <1>1 DEF KeptAt
<1>3. KeptAt(s, {}) = <<>>
  BY <1>2
<1>4. QED
  BY <1>1, <1>3, KeptIsAt, Zenon

LEMMA MadeSeq ==
  ASSUME NEW S, NEW c \in Nat, NEW f, f = [j \in 1..c |-> f[j]], \A j \in 1..c : f[j] \in S
  PROVE  f \in Seq(S) /\ Len(f) = c
<1>1. f \in [1..c -> S]
  OBVIOUS
<1>2. QED
  BY <1>1, SeqDef

LEMMA KeptIsSeq ==
  ASSUME NEW S, NEW s \in Seq(S), NEW kinds, NEW n \in 0..Len(s)
  PROVE  /\ Kept(s, kinds, n) \in Seq(S \cap kinds)
         /\ Len(Kept(s, kinds, n)) = Cardinality(At(s, kinds, n))
<1> DEFINE Good == {m \in Nat : m <= n => Kept(s, kinds, m) \in Seq(S \cap kinds)}
<1>1. 0 \in Good
  <2>1. Kept(s, kinds, 0) = <<>> /\ <<>> \in Seq(S \cap kinds)
    BY KeptOfNone
  <2>2. Kept(s, kinds, 0) \in Seq(S \cap kinds)
    BY <2>1, Zenon
  <2>3. QED
    BY <2>2
<1>2. ASSUME NEW m \in 0..(n - 1), m \in Good PROVE m + 1 \in Good
  <2> DEFINE old == Kept(s, kinds, m)
             new == Kept(s, kinds, m + 1)
             c == Cardinality(At(s, kinds, m))
             T == S \cap kinds
  <2>1. old \in Seq(T) /\ m \in Nat /\ m + 1 \in Nat /\ m + 1 \in 1..Len(s) /\ s[m + 1] \in S
    BY <1>2
  <2>2. CASE s[m + 1] \notin kinds
    <3>1. new = old
      BY <2>1, <2>2, KeptNoMore
    <3> HIDE DEF new, old
    <3>2. new \in Seq(T)
      BY <2>1, <3>1
    <3>3. QED
      BY <2>1, <3>2 DEF new
  <2>3. CASE s[m + 1] \in kinds
    <3>1. /\ Cardinality(At(s, kinds, m + 1)) = c + 1
          /\ \A j \in 1..c : new[j] = old[j]
          /\ new[c + 1] = s[m + 1]
      BY <2>1, <2>3, KeptOneMore
    <3>2. DOMAIN old = 1..c /\ c \in Nat
      BY <2>1, KeptDomain
    <3>3. new = [j \in 1..Cardinality(At(s, kinds, m + 1)) |-> new[j]]
      BY <2>1, KeptDomain, Zenon
    <3>4. s[m + 1] \in T
      BY <2>1, <2>3
    <3> HIDE DEF old, new, c, T
    <3>5. \A j \in 1..c : old[j] \in T
      BY <2>1, <3>2
    <3>6. \A j \in 1..(c + 1) : new[j] \in T
      BY <3>1, <3>2, <3>4, <3>5
    <3>7. new = [j \in 1..(c + 1) |-> new[j]]
      BY <3>1, <3>3, Zenon
    <3> DEFINE d == c + 1
    <3>8. new \in Seq(T)
      <4>1. d \in Nat /\ new = [j \in 1..d |-> new[j]] /\ \A j \in 1..d : new[j] \in T
        BY <3>2, <3>6, <3>7
      <4> HIDE DEF d
      <4>2. QED
        BY <4>1, MadeSeq
    <3>9. QED
      BY <2>1, <3>8 DEF new, T
  <2>4. QED
    BY <2>2, <2>3
<1>3. n \in Good
  <2> HIDE DEF Good
  <2>1. QED
    BY <1>1, <1>2, UpTo
<1>4. Kept(s, kinds, n) \in Seq(S \cap kinds)
  BY <1>3
<1>5. DOMAIN Kept(s, kinds, n) = 1..Cardinality(At(s, kinds, n)) /\ Cardinality(At(s, kinds, n)) \in Nat
  BY KeptDomain
<1>6. QED
  BY <1>4, <1>5

LEMMA KeptGrows ==
  ASSUME NEW S, NEW s \in Seq(S), NEW kinds, NEW n \in 0..(Len(s) - 1)
  PROVE  Kept(s, kinds, n + 1) =
           IF s[n + 1] \in kinds THEN Append(Kept(s, kinds, n), s[n + 1]) ELSE Kept(s, kinds, n)
<1> DEFINE old == Kept(s, kinds, n)
           new == Kept(s, kinds, n + 1)
           c == Cardinality(At(s, kinds, n))
           T == S \cap kinds
           more == Append(old, s[n + 1])
<1>1. n \in Nat /\ n \in 0..Len(s) /\ n + 1 \in 0..Len(s) /\ s[n + 1] \in S
  OBVIOUS
<1>2. CASE s[n + 1] \notin kinds
  <2>1. new = old
    BY <1>1, <1>2, KeptNoMore
  <2>2. QED
    BY <1>2, <2>1
<1>3. CASE s[n + 1] \in kinds
  <2>1. old \in Seq(T) /\ new \in Seq(T) /\ Len(old) = c
    BY <1>1, KeptIsSeq
  <2>2. Len(new) = Cardinality(At(s, kinds, n + 1))
    BY <1>1, KeptIsSeq
  <2>3. /\ Cardinality(At(s, kinds, n + 1)) = c + 1
        /\ \A j \in 1..c : new[j] = old[j]
        /\ new[c + 1] = s[n + 1]
    BY <1>1, <1>3, KeptOneMore
  <2>4. s[n + 1] \in T
    BY <1>1, <1>3
  <2> HIDE DEF old, new, c, T
  <2>5. c \in Nat /\ Len(new) = c + 1
    BY <2>1, <2>2, <2>3
  <2>6. /\ more \in Seq(T) /\ Len(more) = c + 1
        /\ \A j \in 1..c : more[j] = old[j]
        /\ more[c + 1] = s[n + 1]
    BY <2>1, <2>4, <2>5, AppendProperties
  <2> HIDE DEF more
  <2>7. \A j \in 1..Len(new) : new[j] = more[j]
    BY <2>3, <2>5, <2>6
  <2>8. new = more
    BY <2>1, <2>5, <2>6, <2>7, SeqEqual
  <2>9. QED
    BY <1>3, <2>8 DEF old, new, more
<1>4. QED
  BY <1>2, <1>3
-----------------------------------------------------------------------------
LEMMA InitIInv ==
  ASSUME Init
  PROVE  IInv
<1>1. TypeOK
  BY DEF Init, TypeOK, Stages, NoResponse
<1>2. Parsing /\ Validating
  BY DEF Init, Parsing, Validating, Distinct
<1>3. Answered
  BY DEF Init, Answered, NothingUncounted, ErrorsPointAtRejections
<1>4. QED
  BY <1>1, <1>2, <1>3 DEF IInv

LEMMA FailKeeps ==
  ASSUME IInv, NEW code \in {413, 422, 500}, Fail(code), pc # "done", UNCHANGED body
  PROVE  IInv'
<1>1. TypeOK'
  BY DEF IInv, TypeOK, Fail, Stages
<1>2. Parsing'
  <2>1. \A i \in DOMAIN parseErrors : parseErrors[i][2] \in 1..Len(Texts(body))
    <3>1. \A i \in DOMAIN parseErrors : parseErrors[i][2] \in 1..Parsed
      BY DEF IInv, Parsing
    <3>2. Len(Texts(body)) \in Nat /\ Parsed \in Nat /\ Parsed <= Len(Texts(body))
      BY TextsAreKinds DEF IInv, Parsing, Parsed, TypeOK
    <3>3. QED
      BY <3>1, <3>2
  <2>2. QED
    BY <2>1 DEF IInv, Parsing, Parsed, Fail
<1>3. Validating'
  BY DEF IInv, Validating, Fail
<1>4. Answered'
  BY DEF IInv, Answered, NothingUncounted, ErrorsPointAtRejections, Fail
<1>5. QED
  BY <1>1, <1>2, <1>3, <1>4 DEF IInv

LEMMA ParseTextKeeps ==
  ASSUME IInv, ParseText
  PROVE  IInv'
<1> DEFINE text  == Texts(body)[cursor + 1]
           where == IF TakesLines(body) THEN "line" ELSE "item"
<1>0. /\ TypeOK /\ Parsing /\ Validating /\ Answered
      /\ Texts(body) \in Seq(Kinds) /\ Len(Texts(body)) \in Nat
  BY TextsAreKinds DEF IInv
<1>1. /\ pc = "parse" /\ cursor \in Nat /\ cursor < Len(Texts(body)) /\ cursor' = cursor + 1
      /\ UNCHANGED <<body, pc, rows, errors, stored, status, response>>
      /\ objects' = IF IsObject(text) THEN Append(objects, text) ELSE objects
      /\ parseErrors' = IF IsNoise(text) THEN Append(parseErrors, <<where, cursor + 1>>) ELSE parseErrors
  BY <1>0 DEF ParseText, TypeOK
<1>2. text \in Kinds /\ <<where, cursor + 1>> \in {"line", "item"} \X Nat
  BY <1>0, <1>1
<1>3. \/ text = "blank" /\ ~IsObject(text) /\ ~IsNoise(text)
      \/ text # "blank" /\ IsObject(text) /\ ~IsNoise(text)
      \/ text # "blank" /\ ~IsObject(text) /\ IsNoise(text)
  BY <1>2 DEF Kinds, IsObject, IsNoise
<1>4. /\ objects \in Seq(Kinds) /\ parseErrors \in Seq({"line", "item"} \X Nat)
      /\ Len(objects) \in Nat /\ Len(parseErrors) \in Nat
  BY <1>0 DEF TypeOK
<1> HIDE DEF text, where
<1>5. /\ objects' \in Seq(Kinds)
      /\ Len(objects') = Len(objects) + IF IsObject(text) THEN 1 ELSE 0
      /\ \A i \in DOMAIN objects' : IsObject(objects'[i])
  <2>1. CASE IsObject(text)
    BY <1>0, <1>1, <1>2, <1>4, <2>1, AppendKeepsAll DEF Parsing
  <2>2. CASE ~IsObject(text)
    BY <1>0, <1>1, <1>4, <2>2 DEF Parsing
  <2>3. QED
    BY <2>1, <2>2
<1>6. /\ parseErrors' \in Seq({"line", "item"} \X Nat)
      /\ Len(parseErrors') = Len(parseErrors) + IF IsNoise(text) THEN 1 ELSE 0
      /\ \A i \in DOMAIN parseErrors' :
           parseErrors'[i][2] \in 1..(cursor + 1) /\ IsNoise(Texts(body)[parseErrors'[i][2]])
      /\ Distinct(parseErrors')
  <2>0. \A i \in DOMAIN parseErrors :
          parseErrors[i][2] \in 1..cursor /\ IsNoise(Texts(body)[parseErrors[i][2]])
    BY <1>0, <1>1 DEF Parsing, Parsed
  <2>1. CASE IsNoise(text)
    <3>1. parseErrors' = Append(parseErrors, <<where, cursor + 1>>)
      BY <1>1, <2>1
    <3>2. \A i \in DOMAIN parseErrors : parseErrors[i] # <<where, cursor + 1>>
      BY <1>1, <2>0
    <3>3. Distinct(parseErrors')
      BY <1>0, <1>2, <1>4, <3>1, <3>2, AppendKeepsDistinct DEF Parsing
    <3>4. <<where, cursor + 1>>[2] \in 1..(cursor + 1) /\ IsNoise(Texts(body)[<<where, cursor + 1>>[2]])
      BY <1>1, <2>1 DEF text
    <3>5. \A i \in DOMAIN parseErrors' :
            parseErrors'[i] = <<where, cursor + 1>> \/ (i \in DOMAIN parseErrors /\ parseErrors'[i] = parseErrors[i])
      BY <1>2, <1>4, <3>1, AppendKeepsAll
    <3>6. \A i \in DOMAIN parseErrors' :
            parseErrors'[i][2] \in 1..(cursor + 1) /\ IsNoise(Texts(body)[parseErrors'[i][2]])
      BY <1>1, <2>0, <3>4, <3>5
    <3>7. QED
      BY <1>2, <1>4, <2>1, <3>1, <3>3, <3>6, AppendKeepsAll
  <2>2. CASE ~IsNoise(text)
    BY <1>0, <1>1, <1>4, <2>0, <2>2 DEF Parsing
  <2>3. QED
    BY <2>1, <2>2
<1>7. Cardinality(NonBlank(cursor + 1)) =
        Cardinality(NonBlank(cursor)) + IF text # "blank" THEN 1 ELSE 0
  BY <1>1, NonBlankGrows DEF text
<1>8. Len(objects') + Len(parseErrors') = Cardinality(NonBlank(cursor + 1))
  <2>1. Len(objects) + Len(parseErrors) = Cardinality(NonBlank(cursor))
    BY <1>0, <1>1 DEF Parsing, Parsed
  <2>2. Cardinality(NonBlank(cursor)) \in Nat
    BY <1>1, NonBlankGrows
  <2> DEFINE o == Len(objects)
             e == Len(parseErrors)
             n == Cardinality(NonBlank(cursor))
  <2>3. o \in Nat /\ e \in Nat /\ n \in Nat /\ o + e = n
    BY <1>4, <2>1, <2>2
  <2>4. Len(objects') = o + (IF IsObject(text) THEN 1 ELSE 0)
    BY <1>5
  <2>5. Len(parseErrors') = e + (IF IsNoise(text) THEN 1 ELSE 0)
    BY <1>6
  <2>6. Cardinality(NonBlank(cursor + 1)) = n + (IF text # "blank" THEN 1 ELSE 0)
    BY <1>7
  <2> HIDE DEF o, e, n
  <2>7. QED
    BY <1>3, <2>3, <2>4, <2>5, <2>6
<1>9. TypeOK'
  BY <1>0, <1>1, <1>5, <1>6 DEF TypeOK
<1>10. Parsing'
  <2>1. NonBlank(Parsed)' = NonBlank(cursor + 1) /\ Parsed' = cursor + 1
    BY <1>1 DEF NonBlank, Parsed
  <2>2. pc' = "parse" /\ cursor' <= Len(Texts(body)')
    BY <1>0, <1>1
  <2>3. Texts(body)' = Texts(body)
    BY <1>1
  <2>4. QED
    BY <1>5, <1>6, <1>8, <2>1, <2>2, <2>3 DEF Parsing
<1>11. Validating' /\ Answered'
  BY <1>0, <1>1 DEF Validating, Answered, NothingUncounted, ErrorsPointAtRejections
<1>12. QED
  BY <1>9, <1>10, <1>11 DEF IInv

LEMMA ValidateObjectKeeps ==
  ASSUME IInv, ValidateObject
  PROVE  IInv'
<1>0. TypeOK /\ Parsing /\ Validating /\ Answered
  BY DEF IInv
<1>1. /\ pc = "validate" /\ pc' = "validate" /\ cursor \in Nat /\ cursor < Len(objects) /\ cursor' = cursor + 1
      /\ UNCHANGED <<body, objects, parseErrors, stored, status, response>>
      /\ Len(objects) \in Nat /\ Len(parseErrors) \in Nat /\ Len(rows) \in Nat /\ Len(errors) \in Nat
  BY <1>0 DEF ValidateObject, TypeOK
<1>2. objects[cursor + 1] \in Kinds /\ IsObject(objects[cursor + 1]) /\ objects[cursor + 1] # "typeError"
  BY <1>0, <1>1 DEF TypeOK, Parsing, ValidateObject
<1>3. Parsing' /\ Answered'
  BY <1>0, <1>1 DEF Parsing, Parsed, NonBlank, Answered, NothingUncounted, ErrorsPointAtRejections
<1>4. \A i \in DOMAIN errors : PointsAtRejection(errors[i], cursor, objects, body)
                               /\ (errors[i][1] = "event" => errors[i][2] \in 1..cursor)
  BY <1>0, <1>1 DEF Validating, PointsAtRejection
<1>5. /\ Len(errors) + Len(rows) = Len(parseErrors) + cursor
      /\ cursor' <= Len(objects') /\ Distinct(errors)
  BY <1>0, <1>1 DEF Validating
<1>6. CASE PassesModel(objects[cursor + 1])
  <2>1. rows' = Append(rows, cursor + 1) /\ errors' = errors
    BY <1>1, <1>6 DEF ValidateObject
  <2>2. rows' \in Seq(Nat) /\ Len(rows') = Len(rows) + 1
    BY <1>0, <1>1, <2>1 DEF TypeOK
  <2>3. TypeOK'
    BY <1>0, <1>1, <2>1, <2>2 DEF TypeOK
  <2>4. \A i \in DOMAIN errors' : PointsAtRejection(errors'[i], cursor', objects', body')
    BY <1>1, <1>4, <2>1 DEF PointsAtRejection
  <2>5. Len(errors') + Len(rows') = Len(parseErrors') + cursor'
    <3>1. Len(errors') = Len(errors) /\ Len(parseErrors') = Len(parseErrors)
      BY <1>1, <2>1
    <3>2. QED
      BY <1>1, <1>5, <2>2, <3>1
  <2>6. Validating'
    BY <1>1, <1>5, <2>1, <2>4, <2>5 DEF Validating
  <2>7. QED
    BY <1>3, <2>3, <2>6 DEF IInv
<1>7. CASE ~PassesModel(objects[cursor + 1])
  <2> DEFINE e == <<"event", cursor + 1>>
  <2>1. rows' = rows /\ errors' = Append(errors, e)
    BY <1>1, <1>7 DEF ValidateObject
  <2>2. e \in {"line", "item", "event"} \X Nat /\ errors \in Seq({"line", "item", "event"} \X Nat)
    BY <1>0, <1>1 DEF TypeOK
  <2>3. objects[cursor + 1] = "invalid"
    BY <1>2, <1>7 DEF IsObject, PassesModel
  <2>4. \A i \in DOMAIN errors : errors[i] # e
    BY <1>1, <1>4
  <2>5. /\ errors' \in Seq({"line", "item", "event"} \X Nat) /\ Len(errors') = Len(errors) + 1
        /\ \A i \in DOMAIN errors' : errors'[i] = e \/ (i \in DOMAIN errors /\ errors'[i] = errors[i])
    BY <2>1, <2>2, AppendKeepsAll
  <2>6. Distinct(errors')
    BY <1>0, <1>1, <2>1, <2>2, <2>4, AppendKeepsDistinct DEF Validating
  <2>7. PointsAtRejection(e, cursor', objects', body')
    BY <1>1, <2>3 DEF PointsAtRejection
  <2>8. \A i \in DOMAIN errors : PointsAtRejection(errors[i], cursor', objects', body')
    BY <1>1, <1>4 DEF PointsAtRejection
  <2>9. \A i \in DOMAIN errors' : PointsAtRejection(errors'[i], cursor', objects', body')
    BY <2>5, <2>7, <2>8
  <2>10. TypeOK'
    BY <1>0, <1>1, <2>1, <2>5 DEF TypeOK
  <2>11. Len(errors') + Len(rows') = Len(parseErrors') + cursor'
    <3>1. Len(rows') = Len(rows) /\ Len(parseErrors') = Len(parseErrors)
      BY <1>1, <2>1
    <3>2. Len(errors') = Len(errors) + 1
      BY <2>5
    <3>3. QED
      BY <1>1, <1>5, <3>1, <3>2
  <2>12. Validating'
    BY <1>1, <1>5, <2>1, <2>6, <2>9, <2>11 DEF Validating
  <2>13. QED
    BY <1>3, <2>10, <2>12 DEF IInv
<1>8. QED
  BY <1>6, <1>7

LEMMA BeginsKeep ==
  ASSUME IInv, BeginParse \/ EndParse \/ EndValidate
  PROVE  IInv'
<1>0. /\ TypeOK /\ Parsing /\ Validating /\ Answered
      /\ Texts(body) \in Seq(Kinds) /\ Len(Texts(body)) \in Nat
  BY TextsAreKinds DEF IInv
<1>1. UNCHANGED <<body, cursor, objects, parseErrors, rows, errors, stored, status, response>>
  BY DEF BeginParse, EndParse, EndValidate
<1>2. TypeOK'
  BY <1>0, <1>1 DEF TypeOK, Stages, BeginParse, EndParse, EndValidate
<1>3. Parsing'
  <2>1. CASE BeginParse
    <3>1. /\ pc = "size" /\ pc' = "parse" /\ cursor = 0
          /\ objects = <<>> /\ parseErrors = <<>>
      BY <1>0, <2>1 DEF BeginParse, Parsing
    <3>2. Cardinality(NonBlank(0)) = 0
      BY NonBlankGrows
    <3>3. Parsed' = 0 /\ NonBlank(0)' = NonBlank(0)
      BY <1>1, <3>1 DEF Parsed, NonBlank
    <3>4. QED
      BY <1>0, <1>1, <3>1, <3>2, <3>3 DEF Parsing
  <2>2. CASE EndParse
    BY <1>0, <1>1, <2>2 DEF Parsing, Parsed, NonBlank, EndParse
  <2>3. CASE EndValidate
    BY <1>0, <1>1, <2>3 DEF Parsing, Parsed, NonBlank, EndValidate
  <2>4. QED
    BY <2>1, <2>2, <2>3
<1>4. Validating'
  BY <1>0, <1>1 DEF Validating, PointsAtRejection, BeginParse, EndParse, EndValidate
<1>5. Answered'
  BY <1>0, <1>1
  DEF Answered, NothingUncounted, ErrorsPointAtRejections, BeginParse, EndParse, EndValidate
<1>6. QED
  BY <1>2, <1>3, <1>4, <1>5 DEF IInv

LEMMA BeginValidateKeeps ==
  ASSUME IInv, BeginValidate
  PROVE  IInv'
<1>0. TypeOK /\ Parsing /\ Validating /\ Answered
  BY DEF IInv
<1>1. /\ pc = "cap" /\ pc' = "validate" /\ cursor' = 0 /\ errors' = parseErrors
      /\ UNCHANGED <<body, objects, parseErrors, rows, stored, status, response>>
  BY DEF BeginValidate
<1>2. errors' \in Seq({"line", "item", "event"} \X Nat)
      /\ \A i \in DOMAIN parseErrors : parseErrors[i][1] # "event"
  <2>1. parseErrors \in Seq({"line", "item"} \X Nat)
    BY <1>0 DEF TypeOK
  <2>2. \A i \in 1..Len(parseErrors) : parseErrors[i] \in {"line", "item"} \X Nat
    BY <2>1
  <2>3. \A i \in 1..Len(parseErrors) : parseErrors[i] \in {"line", "item", "event"} \X Nat
    BY <2>2
  <2>4. parseErrors \in Seq({"line", "item", "event"} \X Nat)
    BY <2>1, <2>3, SeqMonotonic
  <2>5. \A i \in DOMAIN parseErrors : parseErrors[i][1] # "event"
    BY <2>1, <2>2
  <2>6. QED
    BY <1>1, <2>4, <2>5
<1>3. TypeOK'
  BY <1>0, <1>1, <1>2 DEF TypeOK, Stages
<1>4. Parsing' /\ Answered'
  BY <1>0, <1>1 DEF Parsing, Parsed, NonBlank, Answered, NothingUncounted, ErrorsPointAtRejections
<1>5. \A i \in DOMAIN errors' : PointsAtRejection(errors'[i], cursor', objects', body')
  BY <1>0, <1>1, <1>2 DEF PointsAtRejection, Parsing
<1>6. rows = <<>> /\ Len(objects) \in Nat /\ Len(parseErrors) \in Nat /\ Distinct(errors')
  BY <1>0, <1>1 DEF Validating, Parsing, TypeOK
<1>7. Validating'
  BY <1>1, <1>5, <1>6 DEF Validating
<1>8. QED
  BY <1>3, <1>4, <1>7 DEF IInv

(* The response counts what the loops have counted.                        *)
LEMMA PersistKeeps ==
  ASSUME IInv, Persist
  PROVE  IInv'
<1>0. TypeOK /\ Parsing /\ Validating /\ Answered
  BY DEF IInv
<1>1. /\ pc = "persist" /\ pc' = "commit"
      /\ UNCHANGED <<body, cursor, objects, parseErrors, rows, errors, stored, status>>
      /\ response' = [accepted |-> Len(rows),
                      rejected |-> Len(objects) + Len(parseErrors) - Len(rows),
                      errors   |-> SubSeq(errors, 1, SmallerOf(Len(errors), ErrorCap))]
  BY DEF Persist
<1>2. /\ Len(rows) \in Nat /\ Len(errors) \in Nat
      /\ Len(objects) + Len(parseErrors) - Len(rows) = Len(errors)
  BY <1>0, <1>1 DEF TypeOK, Validating
<1>3. SubSeq(errors, 1, SmallerOf(Len(errors), ErrorCap)) \in Seq({"line", "item", "event"} \X Nat)
  <2>1. SmallerOf(Len(errors), ErrorCap) \in 0..Len(errors)
    BY <1>2, ErrorCapAssumption DEF SmallerOf
  <2>2. \A i \in 1..SmallerOf(Len(errors), ErrorCap) : errors[i] \in {"line", "item", "event"} \X Nat
    BY <1>0, <1>2, <2>1 DEF TypeOK
  <2>3. QED
    BY <2>1, <2>2, SubSeqProperties
<1>4. TypeOK'
  <2>1. response' \in [accepted : Nat, rejected : Nat, errors : Seq({"line", "item", "event"} \X Nat)]
    BY <1>1, <1>2, <1>3
  <2>2. QED
    BY <1>0, <1>1, <2>1 DEF TypeOK, Stages
<1>5. Parsing' /\ Validating'
  BY <1>0, <1>1 DEF Parsing, Parsed, NonBlank, Validating, PointsAtRejection
<1>6. Answered'
  BY <1>0, <1>1 DEF Answered, NothingUncounted, ErrorsPointAtRejections
<1>7. QED
  BY <1>4, <1>5, <1>6 DEF IInv

LEMMA CommitKeeps ==
  ASSUME IInv, Commit
  PROVE  IInv'
<1>0. /\ TypeOK /\ Parsing /\ Validating /\ Answered
      /\ Texts(body) \in Seq(Kinds) /\ Len(Texts(body)) \in Nat
  BY TextsAreKinds DEF IInv
<1>1. /\ pc = "commit" /\ pc' = "done" /\ stored' = rows /\ status' = 200
      /\ UNCHANGED <<body, cursor, objects, parseErrors, rows, errors, response>>
  BY DEF Commit
<1>2. TypeOK'
  BY <1>0, <1>1 DEF TypeOK, Stages
<1>3. Parsing' /\ Validating'
  BY <1>0, <1>1 DEF Parsing, Parsed, NonBlank, Validating
<1> DEFINE m == SmallerOf(Len(errors), ErrorCap)
<1>4. /\ response.accepted = Len(rows)
      /\ response.rejected = Len(objects) + Len(parseErrors) - Len(rows)
      /\ response.errors = SubSeq(errors, 1, m)
  BY <1>0, <1>1 DEF Answered
<1>5. /\ Len(rows) \in Nat /\ Len(errors) \in Nat /\ Len(objects) \in Nat /\ Len(parseErrors) \in Nat
      /\ response.rejected = Len(errors)
  <2>1. /\ Len(rows) \in Nat /\ Len(errors) \in Nat
        /\ Len(objects) \in Nat /\ Len(parseErrors) \in Nat /\ cursor \in Nat
    BY <1>0 DEF TypeOK
  <2>2. Len(errors) + Len(rows) = Len(parseErrors) + cursor /\ cursor = Len(objects)
    BY <1>0, <1>1 DEF Validating
  <2>3. QED
    BY <1>4, <2>1, <2>2
<1>6. NothingUncounted'
  <2>1. Len(objects) + Len(parseErrors) = Cardinality(NonBlank(Len(Texts(body))))
    BY <1>0, <1>1 DEF Parsing, Parsed
  <2>2. NonBlank(Len(Texts(body))) = {i \in DOMAIN Texts(body) : Texts(body)[i] # "blank"}
    BY <1>0 DEF NonBlank
  <2>3. response.accepted + response.rejected = Len(objects) + Len(parseErrors)
    BY <1>4, <1>5
  <2>4. QED
    BY <1>1, <1>4, <2>1, <2>2, <2>3 DEF NothingUncounted
<1>7. ErrorsPointAtRejections'
  <2>1. m \in 0..Len(errors)
    BY <1>5, ErrorCapAssumption DEF SmallerOf
  <2>2. \A i \in 1..m : errors[i] \in {"line", "item", "event"} \X Nat
    BY <1>0, <1>5, <2>1 DEF TypeOK
  <2> HIDE DEF m
  <2>3. /\ response.errors \in Seq({"line", "item", "event"} \X Nat) /\ Len(response.errors) = m
        /\ \A i \in 1..m : response.errors[i] = errors[i]
    BY <1>4, <2>1, <2>2, SubSeqProperties
  <2>4. DOMAIN response.errors = 1..m /\ 1..m \subseteq DOMAIN errors
    BY <1>0, <1>5, <2>1, <2>3 DEF TypeOK
  <2>5. \A i, j \in DOMAIN response.errors : i # j => response.errors[i] # response.errors[j]
    BY <1>0, <1>1, <2>3, <2>4 DEF Validating, Distinct
  <2>6. \A i \in DOMAIN response.errors : PointsAtRejection(response.errors[i], cursor, objects, body)
    BY <1>0, <1>1, <2>3, <2>4 DEF Validating
  <2>7. Len(response.errors) = SmallerOf(response.rejected, ErrorCap)
    BY <1>5, <2>3 DEF m
  <2>8. QED
    BY <1>1, <2>5, <2>6, <2>7 DEF ErrorsPointAtRejections, PointsAtRejection
<1>8. Answered'
  BY <1>1, <1>6, <1>7 DEF Answered
<1>9. QED
  BY <1>2, <1>3, <1>8 DEF IInv

LEMMA NextIInv ==
  ASSUME IInv, [Next]_vars
  PROVE  IInv'
<1>1. CASE RefuseSize \/ RefuseDocument \/ RefuseCount \/ ValidationEscapes \/ PersistFails \/ CommitFails
  BY <1>1, FailKeeps
  DEF RefuseSize, RefuseDocument, RefuseCount, ValidationEscapes, PersistFails, CommitFails
<1>2. CASE UNCHANGED vars
  BY <1>2
  DEF vars, IInv, TypeOK, Parsing, Parsed, NonBlank, Validating, PointsAtRejection, Answered,
      NothingUncounted, ErrorsPointAtRejections
<1>3. QED
  BY <1>1, <1>2, ParseTextKeeps, ValidateObjectKeeps, BeginsKeep, BeginValidateKeeps, PersistKeeps, CommitKeeps
  DEF Next
-----------------------------------------------------------------------------
(* The two loops of the handler count and number every text once, whatever *)
(* the body (events.py:77-165).                                            *)
THEOREM RequestInvariance == Spec => []IInv
<1>1. Init => IInv
  BY InitIInv
<1>2. IInv /\ [Next]_vars => IInv'
  BY NextIInv
<1>3. QED
  BY <1>1, <1>2, PTL DEF Spec

(* Every variable of the handler keeps its type.                           *)
THEOREM RequestTypeCorrect == Spec => []TypeOK
<1>1. IInv => TypeOK
  BY DEF IInv
<1>2. QED
  BY <1>1, RequestInvariance, PTL

(* Every text of a body answered with 200 is stored or rejected, and       *)
(* counted once (events.py:155-156).                                       *)
THEOREM NothingEverUncounted == Spec => []NothingUncounted
<1>1. IInv => NothingUncounted
  BY DEF IInv, Answered
<1>2. QED
  BY <1>1, RequestInvariance, PTL

(* Every error of a response names a text that was rejected, none twice    *)
(* and none missing below the cap (events.py:138-165, ndjson.py:38-40).    *)
THEOREM ErrorsAlwaysPointAtRejections == Spec => []ErrorsPointAtRejections
<1>1. IInv => ErrorsPointAtRejections
  BY DEF IInv, Answered
<1>2. QED
  BY <1>1, RequestInvariance, PTL
-----------------------------------------------------------------------------
(* The second inductive invariant: after n turns a loop has made of the    *)
(* first n texts what the reference reading makes of them.                 *)

ObjectKinds == {k \in Kinds : IsObject(k)}
RowKinds    == {k \in Kinds : PassesModel(k)}

(* The objects at the positions in rs.                                     *)
Taken(rs, os) == [i \in DOMAIN rs |-> os[rs[i]]]

Parses ==
  /\ pc \notin {"size", "done"} => ~body.oversize /\ (TakesLines(body) \/ ~Undecodable(body))
  /\ pc \in {"parse", "cap", "validate", "persist", "commit"} =>
       objects = Kept(Texts(body), ObjectKinds, Parsed)

Validates ==
  pc \in {"validate", "persist", "commit"} =>
    /\ Len(objects) <= MaxEvents
    /\ \A i \in 1..cursor : objects[i] # "typeError"
    /\ \A i \in DOMAIN rows : rows[i] \in 1..cursor
    /\ Taken(rows, objects) = Kept(objects, RowKinds, cursor)
    /\ pc = "commit" => \A i \in DOMAIN rows : objects[rows[i]] # "unstorable"

(* The handler ends with the reference's refusal, or with the rows of the  *)
(* reference stored, or because the database failed on rows there were.    *)
Ends ==
  /\ pc = "done" => status = Refusal(body) \/ (Refusal(body) = 0 /\ status \in {200, 500})
  /\ pc = "done" => status # 0
  /\ status = 500 /\ Refusal(body) = 0 => rows # <<>>
  /\ status = 200 => ~Poisoned(body)
  /\ StoresTheGoodOnes

RInv == IInv /\ Parses /\ Validates /\ Ends
-----------------------------------------------------------------------------
(* Before the database is involved, the handler has the reference's        *)
(* objects and rows, and the reference refuses the body only where the     *)
(* handler does.                                                           *)

LEMMA ObjectsAre ==
  ASSUME RInv, pc \in {"cap", "validate", "persist", "commit"}
  PROVE  objects = Objects(body) /\ ~body.oversize /\ (TakesLines(body) \/ ~Undecodable(body))
  BY DEF RInv, Parses, Parsed, Objects, ObjectKinds

LEMMA NotRefused ==
  ASSUME RInv, pc \in {"persist", "commit"}
  PROVE  Refusal(body) = 0 /\ Taken(rows, objects) = Rows(body)
<1>1. objects = Objects(body) /\ ~body.oversize /\ (TakesLines(body) \/ ~Undecodable(body))
  BY ObjectsAre
<1>2. /\ Len(objects) <= MaxEvents /\ Len(objects) \in Nat /\ DOMAIN objects = 1..Len(objects)
      /\ cursor = Len(objects)
      /\ \A i \in 1..cursor : objects[i] # "typeError"
      /\ Taken(rows, objects) = Kept(objects, RowKinds, cursor)
  BY DEF RInv, IInv, TypeOK, Validating, Validates
<1>3. ~(Len(objects) > MaxEvents)
  BY <1>2, MaxEventsAssumption
<1>4. Refusal(body) = 0
  BY <1>1, <1>2, <1>3 DEF Refusal
<1>5. Taken(rows, objects) = Rows(body)
  BY <1>1, <1>2 DEF Rows, RowKinds
<1>6. QED
  BY <1>4, <1>5

LEMMA TakeOneMore ==
  ASSUME NEW S, NEW os, NEW rs \in Seq(Nat), NEW x \in Nat,
         \A i \in DOMAIN rs : os[rs[i]] \in S, os[x] \in S
  PROVE  Taken(Append(rs, x), os) = Append(Taken(rs, os), os[x])
<1> DEFINE n == Len(rs)
           longer == Append(rs, x)
           old == Taken(rs, os)
           new == Taken(longer, os)
           more == Append(old, os[x])
<1>1. n \in Nat /\ DOMAIN rs = 1..n
  OBVIOUS
<1>2. /\ longer \in Seq(Nat) /\ DOMAIN longer = 1..(n + 1)
      /\ \A i \in 1..n : longer[i] = rs[i]
      /\ longer[n + 1] = x
  BY <1>1, AppendProperties
<1> HIDE DEF n, longer
<1>3. old \in Seq(S) /\ Len(old) = n /\ \A i \in 1..n : old[i] = os[rs[i]]
  <2>1. old = [i \in 1..n |-> old[i]] /\ \A i \in 1..n : old[i] = os[rs[i]]
    BY <1>1 DEF Taken
  <2> HIDE DEF old
  <2>2. QED
    BY <1>1, <2>1, MadeSeq
<1>4. new \in Seq(S) /\ Len(new) = n + 1 /\ \A i \in 1..(n + 1) : new[i] = os[longer[i]]
  <2>1. new = [i \in 1..(n + 1) |-> new[i]] /\ \A i \in 1..(n + 1) : new[i] = os[longer[i]]
    BY <1>2 DEF Taken
  <2> HIDE DEF new
  <2>2. ASSUME NEW i \in 1..(n + 1) PROVE new[i] \in S
    <3>1. i \in 1..n \/ i = n + 1
      BY <1>1
    <3>2. new[i] = os[longer[i]]
      BY <2>1
    <3>3. CASE i \in 1..n
      BY <1>1, <1>2, <3>2, <3>3
    <3>4. CASE i = n + 1
      BY <1>2, <3>2, <3>4
    <3>5. QED
      BY <3>1, <3>3, <3>4
  <2>3. n + 1 \in Nat
    BY <1>1
  <2>4. QED
    BY <2>1, <2>2, <2>3, MadeSeq
<1> HIDE DEF old, new
<1>5. /\ more \in Seq(S) /\ Len(more) = n + 1
      /\ \A i \in 1..n : more[i] = old[i]
      /\ more[n + 1] = os[x]
  BY <1>3, AppendProperties
<1> HIDE DEF more
<1>6. \A i \in 1..Len(new) : new[i] = more[i]
  BY <1>1, <1>2, <1>3, <1>4, <1>5
<1>7. new = more
  BY <1>4, <1>5, <1>6, SeqEqual
<1>8. QED
  BY <1>7 DEF new, more, old, longer

LEMMA ObjectsAreKinds ==
  ASSUME TypeOK
  PROVE  Objects(body) \in Seq(Kinds) /\ Len(Objects(body)) \in Nat
<1>1. Texts(body) \in Seq(Kinds) /\ Len(Texts(body)) \in 0..Len(Texts(body))
  BY TextsAreKinds
<1>2. Objects(body) \in Seq(Kinds \cap ObjectKinds)
  BY <1>1, KeptIsSeq DEF Objects, ObjectKinds
<1>3. Objects(body) \in Seq(Kinds)
  BY <1>2, SeqMonotonic
<1>4. QED
  BY <1>3

LEMMA InitRInv ==
  ASSUME Init
  PROVE  RInv
<1>1. IInv
  BY InitIInv
<1>2. Parses /\ Validates /\ Ends
  BY DEF Init, Parses, Validates, Ends, StoresTheGoodOnes
<1>3. QED
  BY <1>1, <1>2 DEF RInv

(* An end without a 200 only has to give the right status.                 *)
LEMMA EndsWith ==
  ASSUME RInv, NEW code \in {413, 422, 500}, Fail(code), UNCHANGED body,
         code = Refusal(body) \/ (code = 500 /\ Refusal(body) = 0 /\ rows # <<>>)
  PROVE  Parses' /\ Validates' /\ Ends'
<1>1. /\ pc' = "done" /\ status' = code /\ code # 200 /\ code # 0
      /\ UNCHANGED <<body, cursor, objects, parseErrors, rows, errors, stored, response>>
  BY DEF Fail
<1>2. Parses' /\ Validates'
  BY <1>1 DEF Parses, Validates
<1>3. Ends'
  BY <1>1 DEF Ends, StoresTheGoodOnes
<1>4. QED
  BY <1>2, <1>3

LEMMA FailsRight ==
  ASSUME RInv,
         RefuseSize \/ RefuseDocument \/ RefuseCount \/ ValidationEscapes \/ PersistFails \/ CommitFails
  PROVE  Parses' /\ Validates' /\ Ends'
<1>1. CASE RefuseSize
  <2>1. Refusal(body) = 413 /\ Fail(413) /\ UNCHANGED body
    BY <1>1 DEF RefuseSize, Refusal
  <2>2. QED
    BY <2>1, EndsWith
<1>2. CASE RefuseDocument
  <2>1. Refusal(body) = 422 /\ Fail(422) /\ UNCHANGED body
    BY <1>2 DEF RefuseDocument, Refusal
  <2>2. QED
    BY <2>1, EndsWith
<1>3. CASE RefuseCount
  <2>1. /\ objects = Objects(body) /\ ~body.oversize /\ (TakesLines(body) \/ ~Undecodable(body))
        /\ Len(objects) > MaxEvents /\ Fail(413) /\ UNCHANGED body
    BY <1>3, ObjectsAre DEF RefuseCount
  <2>2. Refusal(body) = 413
    BY <2>1 DEF Refusal
  <2>3. QED
    BY <2>1, <2>2, EndsWith
<1>4. CASE ValidationEscapes
  <2>1. /\ pc = "validate" /\ cursor \in Nat /\ Len(objects) \in Nat /\ cursor < Len(objects)
        /\ DOMAIN objects = 1..Len(objects)
        /\ objects[cursor + 1] = "typeError" /\ Fail(500) /\ UNCHANGED body
    BY <1>4 DEF ValidationEscapes, RInv, IInv, TypeOK
  <2>2. objects = Objects(body) /\ ~body.oversize /\ (TakesLines(body) \/ ~Undecodable(body))
    BY <2>1, ObjectsAre
  <2>3. ~(Len(objects) > MaxEvents)
    BY <2>1, MaxEventsAssumption DEF RInv, Validates
  <2>4. \E i \in DOMAIN objects : objects[i] = "typeError"
    BY <2>1
  <2>5. Refusal(body) = 500
    BY <2>2, <2>3, <2>4 DEF Refusal
  <2>6. QED
    BY <2>1, <2>5, EndsWith
<1>5. CASE PersistFails \/ CommitFails
  <2>1. pc \in {"persist", "commit"} /\ rows # <<>> /\ Fail(500) /\ UNCHANGED body
    BY <1>5 DEF PersistFails, CommitFails
  <2>2. Refusal(body) = 0
    BY <2>1, NotRefused
  <2>3. QED
    BY <2>1, <2>2, EndsWith
<1>6. QED
  BY <1>1, <1>2, <1>3, <1>4, <1>5

(* One more line or item: one more object, if it is one.                   *)
LEMMA ParseTextReads ==
  ASSUME RInv, ParseText
  PROVE  Parses' /\ Validates' /\ Ends'
<1>1. /\ pc = "parse" /\ pc' = "parse" /\ cursor \in Nat /\ cursor < Len(Texts(body)) /\ cursor' = cursor + 1
      /\ UNCHANGED <<body, rows, errors, stored, status, response>>
      /\ objects' = IF IsObject(Texts(body)[cursor + 1])
                      THEN Append(objects, Texts(body)[cursor + 1]) ELSE objects
  BY DEF ParseText, RInv, IInv, TypeOK
<1>2. Texts(body) \in Seq(Kinds) /\ Len(Texts(body)) \in Nat
  BY TextsAreKinds DEF RInv, IInv
<1>3. objects = Kept(Texts(body), ObjectKinds, cursor)
  BY <1>1 DEF RInv, Parses, Parsed
<1>4. cursor \in 0..(Len(Texts(body)) - 1)
  BY <1>1, <1>2
<1>5. IsObject(Texts(body)[cursor + 1]) <=> Texts(body)[cursor + 1] \in ObjectKinds
  BY <1>1, <1>2 DEF ObjectKinds
<1>6. Kept(Texts(body), ObjectKinds, cursor + 1) =
        IF Texts(body)[cursor + 1] \in ObjectKinds
          THEN Append(Kept(Texts(body), ObjectKinds, cursor), Texts(body)[cursor + 1])
          ELSE Kept(Texts(body), ObjectKinds, cursor)
  BY <1>2, <1>4, KeptGrows
<1>7. objects' = Kept(Texts(body), ObjectKinds, cursor + 1)
  BY <1>1, <1>3, <1>5, <1>6
<1>8. Parses'
  BY <1>1, <1>7 DEF RInv, Parses, Parsed
<1>9. status = 0
  BY <1>1 DEF RInv, IInv, Answered
<1>10. Validates' /\ Ends'
  BY <1>1, <1>9 DEF Validates, Ends, StoresTheGoodOnes
<1>11. QED
  BY <1>8, <1>10

(* One more object: one more row, if it passes the model.                  *)
LEMMA ValidateObjectReads ==
  ASSUME RInv, ValidateObject
  PROVE  Parses' /\ Validates' /\ Ends'
<1>1. /\ pc = "validate" /\ pc' = "validate" /\ cursor \in Nat /\ cursor < Len(objects) /\ cursor' = cursor + 1
      /\ UNCHANGED <<body, objects, parseErrors, stored, status, response>>
      /\ rows' = IF PassesModel(objects[cursor + 1]) THEN Append(rows, cursor + 1) ELSE rows
      /\ objects[cursor + 1] # "typeError"
  BY DEF ValidateObject, RInv, IInv, TypeOK
<1>2. objects \in Seq(Kinds) /\ Len(objects) \in Nat /\ rows \in Seq(Nat) /\ Len(rows) \in Nat
  BY DEF RInv, IInv, TypeOK
<1>3. /\ Len(objects) <= MaxEvents
      /\ \A i \in 1..cursor : objects[i] # "typeError"
      /\ \A i \in DOMAIN rows : rows[i] \in 1..cursor
      /\ Taken(rows, objects) = Kept(objects, RowKinds, cursor)
  BY <1>1 DEF RInv, Validates
<1>4. cursor \in 0..(Len(objects) - 1) /\ objects[cursor + 1] \in Kinds
  BY <1>1, <1>2
<1>5. PassesModel(objects[cursor + 1]) <=> objects[cursor + 1] \in RowKinds
  BY <1>4 DEF RowKinds
<1>6. Kept(objects, RowKinds, cursor + 1) =
        IF objects[cursor + 1] \in RowKinds
          THEN Append(Kept(objects, RowKinds, cursor), objects[cursor + 1])
          ELSE Kept(objects, RowKinds, cursor)
  BY <1>2, <1>4, KeptGrows
<1>7. \A i \in 1..(cursor + 1) : objects[i] # "typeError"
  BY <1>1, <1>3
<1>8. \A i \in DOMAIN rows' : rows'[i] \in 1..(cursor + 1)
  BY <1>1, <1>2, <1>3, AppendKeepsAll
<1>9. Taken(rows', objects) = Kept(objects, RowKinds, cursor + 1)
  <2>1. CASE ~PassesModel(objects[cursor + 1])
    BY <1>1, <1>3, <1>5, <1>6, <2>1
  <2>2. CASE PassesModel(objects[cursor + 1])
    <3> DEFINE x == cursor + 1
    <3>1. x \in Nat /\ objects[x] \in Kinds /\ \A i \in DOMAIN rows : objects[rows[i]] \in Kinds
      BY <1>1, <1>2, <1>3, <1>4
    <3> HIDE DEF x
    <3>2. Taken(Append(rows, x), objects) = Append(Taken(rows, objects), objects[x])
      BY <1>2, <3>1, TakeOneMore
    <3>3. QED
      BY <1>1, <1>3, <1>5, <1>6, <2>2, <3>2 DEF x
  <2>3. QED
    BY <2>1, <2>2
<1>10. Validates'
  BY <1>1, <1>3, <1>7, <1>8, <1>9 DEF Validates
<1>11. Parses'
  BY <1>1 DEF RInv, Parses, Parsed
<1>12. status = 0
  BY <1>1 DEF RInv, IInv, Answered
<1>13. Ends'
  BY <1>1, <1>12 DEF Ends, StoresTheGoodOnes
<1>14. QED
  BY <1>10, <1>11, <1>13

LEMMA BeginsRead ==
  ASSUME RInv, BeginParse \/ EndParse \/ BeginValidate \/ EndValidate \/ Persist
  PROVE  Parses' /\ Validates' /\ Ends'
<1>1. /\ UNCHANGED <<body, objects, rows, stored, status>>
      /\ pc' \in {"parse", "cap", "validate", "persist", "commit"} /\ pc # "done"
  BY DEF BeginParse, EndParse, BeginValidate, EndValidate, Persist
<1>2. status = 0
  BY <1>1 DEF RInv, IInv, Answered
<1>3. Ends'
  BY <1>1, <1>2 DEF Ends, StoresTheGoodOnes
<1>4. Parses'
  <2>1. CASE BeginParse
    <3>1. pc = "size" /\ pc' = "parse" /\ cursor' = 0 /\ objects = <<>>
      BY <2>1 DEF BeginParse, RInv, IInv, Parsing
    <3>2. Kept(Texts(body), ObjectKinds, 0) = <<>>
      BY KeptOfNone
    <3>3. QED
      BY <1>1, <2>1, <3>1, <3>2 DEF BeginParse, Parses, Parsed
  <2>2. CASE EndParse \/ BeginValidate \/ EndValidate \/ Persist
    BY <1>1, <2>2 DEF EndParse, BeginValidate, EndValidate, Persist, RInv, Parses, Parsed
  <2>3. QED
    BY <2>1, <2>2
<1>5. Validates'
  <2>1. CASE BeginValidate
    <3>1. /\ pc = "cap" /\ pc' = "validate" /\ cursor' = 0 /\ Len(objects) <= MaxEvents /\ rows = <<>>
      BY <2>1 DEF BeginValidate, RInv, IInv, Validating
    <3>2. Kept(objects, RowKinds, 0) = <<>>
      BY KeptOfNone
    <3>3. Taken(<<>>, objects) = <<>>
      BY DEF Taken
    <3>4. QED
      BY <1>1, <3>1, <3>2, <3>3 DEF Validates
  <2>2. CASE EndValidate \/ Persist
    BY <1>1, <2>2 DEF EndValidate, Persist, RInv, Validates
  <2>3. CASE BeginParse \/ EndParse
    BY <2>3 DEF BeginParse, EndParse, Validates
  <2>4. QED
    BY <2>1, <2>2, <2>3
<1>6. QED
  BY <1>3, <1>4, <1>5

(* What the transaction commits are the reference's rows.                  *)
LEMMA CommitReads ==
  ASSUME RInv, Commit
  PROVE  Parses' /\ Validates' /\ Ends'
<1>1. /\ pc = "commit" /\ pc' = "done" /\ stored' = rows /\ status' = 200
      /\ UNCHANGED <<body, objects, rows>>
  BY DEF Commit
<1>2. Refusal(body) = 0 /\ Taken(rows, objects) = Rows(body)
  BY <1>1, NotRefused
<1>3. \A i \in DOMAIN rows : objects[rows[i]] # "unstorable"
  BY <1>1 DEF RInv, Validates
<1>4. ~DbRefuses(body)
  BY <1>2, <1>3 DEF Taken, DbRefuses
<1>5. StoresTheGoodOnes'
  BY <1>1, <1>2 DEF StoresTheGoodOnes, Taken
<1>6. Ends'
  BY <1>1, <1>2, <1>4, <1>5 DEF Ends, Poisoned
<1>7. QED
  BY <1>1, <1>6 DEF Parses, Validates

LEMMA NextRInv ==
  ASSUME RInv, [Next]_vars
  PROVE  RInv'
<1>1. IInv'
  BY NextIInv DEF RInv
<1>2. CASE UNCHANGED vars
  BY <1>1, <1>2 DEF vars, RInv, Parses, Parsed, Validates, Ends, StoresTheGoodOnes
<1>3. CASE Next
  <2>1. Parses' /\ Validates' /\ Ends'
    BY <1>3, FailsRight, ParseTextReads, ValidateObjectReads, BeginsRead, CommitReads DEF Next
  <2>2. QED
    BY <1>1, <2>1 DEF RInv
<1>4. QED
  BY <1>2, <1>3
-----------------------------------------------------------------------------
(* After every turn of its loops the handler has what the reference        *)
(* reading has, and it ends as the reference says (events.py:77-165).      *)
THEOREM RequestReads == Spec => []RInv
<1>1. Init => RInv
  BY InitRInv
<1>2. RInv /\ [Next]_vars => RInv'
  BY NextRInv
<1>3. QED
  BY <1>1, <1>2, PTL DEF Spec

(* What a 200 has stored is exactly what passed the model, in the order of *)
(* the body (events.py:137-153).                                           *)
THEOREM AlwaysStoresTheGoodOnes == Spec => []StoresTheGoodOnes
<1>1. RInv => StoresTheGoodOnes
  BY DEF RInv, Ends
<1>2. QED
  BY <1>1, RequestReads, PTL

(* The handler, step by step, computes the reading that the delivery model *)
(* takes for a whole request (events.py:84-153).                           *)
THEOREM AlwaysAgreesWithReference == Spec => []AgreesWithReference
<1>1. ASSUME RInv PROVE AgreesWithReference
  <2>1. pc \in {"persist", "commit"} => Refusal(body) = 0 /\ objects = Objects(body)
    BY <1>1, NotRefused, ObjectsAre
  <2>2. QED
    BY <1>1, <2>1 DEF AgreesWithReference, RInv, Ends
<1>2. QED
  BY <1>1, RequestReads, PTL

(* When the only faults of a batch of lines are ones the handler collects, *)
(* nothing but a cap or the database refuses the batch (events.py:8-9,     *)
(* ndjson.py:7-14).                                                        *)
THEOREM BadRowsAreAlwaysSoft == Spec => []BadRowsAreSoft
<1>1. ASSUME RInv PROVE BadRowsAreSoft
  <2> SUFFICES ASSUME status # 0, TakesLines(body), ~body.oversize, Len(Objects(body)) <= MaxEvents,
                      \A i \in DOMAIN Objects(body) : Objects(body)[i] # "typeError"
               PROVE  status = 200 \/ (status = 500 /\ rows # <<>>)
    BY DEF BadRowsAreSoft
  <2>1. Refusal(body) = 0
    <3>1. ~(Len(Objects(body)) > MaxEvents)
      BY MaxEventsAssumption, ObjectsAreKinds, <1>1 DEF RInv, IInv
    <3>2. QED
      BY <3>1 DEF Refusal
  <2>2. pc = "done"
    BY <1>1 DEF RInv, IInv, Answered
  <2>3. QED
    BY <1>1, <2>1, <2>2 DEF RInv, Ends
<1>2. QED
  BY <1>1, RequestReads, PTL
-----------------------------------------------------------------------------
(* How many steps the handler has left at most.                            *)
Remaining ==
  LET n == Len(Texts(body))
  IN CASE pc = "size"     -> 2 * n + 6
       [] pc = "parse"    -> (n - cursor) + n + 5
       [] pc = "cap"      -> n + 4
       [] pc = "validate" -> (Len(objects) - cursor) + 3
       [] pc = "persist"  -> 2
       [] pc = "commit"   -> 1
       [] pc = "done"     -> 0

MovesOn == Remaining \in Nat /\ Remaining' \in 0..(Remaining - 1)

LEMMA AtMostAsMany ==
  ASSUME NEW n \in Nat, NEW S \in SUBSET (1..n)
  PROVE  Cardinality(S) \in Nat /\ Cardinality(S) <= n
<1>1. IsFiniteSet(1..n)
  BY FS_Interval
<1>2. Cardinality(1..n) = n
  <2>1. 1 \in Int /\ n \in Int
    OBVIOUS
  <2>2. Cardinality(1..n) = IF 1 > n THEN 0 ELSE n - 1 + 1
    BY <2>1, FS_Interval
  <2>3. QED
    BY <2>2
<1>3. QED
  BY <1>1, <1>2, FS_Subset, FS_CardinalityType

LEMMA NoMoreObjectsThanTexts ==
  ASSUME IInv, pc \in {"cap", "validate"}
  PROVE  Len(objects) <= Len(Texts(body))
<1> DEFINE n == Len(Texts(body))
<1>1. n \in Nat /\ Len(objects) \in Nat /\ Len(parseErrors) \in Nat
  BY TextsAreKinds DEF IInv, TypeOK
<1> HIDE DEF n
<1>2. Len(objects) + Len(parseErrors) = Cardinality(NonBlank(n))
  BY DEF IInv, Parsing, Parsed, n
<1>3. NonBlank(n) \in SUBSET (1..n)
  BY DEF NonBlank
<1>4. Cardinality(NonBlank(n)) \in Nat /\ Cardinality(NonBlank(n)) <= n
  BY <1>1, <1>3, AtMostAsMany
<1>5. Len(objects) <= n
  BY <1>1, <1>2, <1>4
<1>6. QED
  BY <1>5 DEF n

(* Both loops move on and no step of the handler is taken twice: it        *)
(* answers after at most two steps per text and six others, whatever the   *)
(* body (events.py:77-165, ndjson.py:35-53).                               *)
THEOREM HandlerMovesOn == Spec => [][MovesOn]_vars
<1>1. ASSUME IInv, Next PROVE MovesOn
  <2> SUFFICES Remaining \in Nat /\ Remaining' \in 0..(Remaining - 1)
    BY DEF MovesOn
  <2> DEFINE n == Len(Texts(body))
             o == Len(objects)
  <2>1. n \in Nat /\ o \in Nat /\ cursor \in Nat /\ pc \in Stages
    BY <1>1, TextsAreKinds DEF IInv, TypeOK
  <2>2. /\ pc = "size" => cursor = 0
        /\ pc = "parse" => cursor <= n
        /\ pc \in {"cap", "validate"} => o <= n
        /\ pc = "validate" => cursor <= o
    BY <1>1, NoMoreObjectsThanTexts DEF IInv, Parsing, Validating
  <2>3. Remaining = CASE pc = "size"     -> 2 * n + 6
                      [] pc = "parse"    -> (n - cursor) + n + 5
                      [] pc = "cap"      -> n + 4
                      [] pc = "validate" -> (o - cursor) + 3
                      [] pc = "persist"  -> 2
                      [] pc = "commit"   -> 1
                      [] pc = "done"     -> 0
    BY DEF Remaining
  <2>4. Len(Texts(body)') = n /\ body' = body
    BY <1>1
    DEF Next, RefuseSize, RefuseDocument, BeginParse, ParseText, EndParse, RefuseCount, BeginValidate,
        ValidateObject, ValidationEscapes, EndValidate, Persist, PersistFails, Commit, CommitFails
  <2>5. Remaining' = CASE pc' = "size"     -> 2 * n + 6
                       [] pc' = "parse"    -> (n - cursor') + n + 5
                       [] pc' = "cap"      -> n + 4
                       [] pc' = "validate" -> (Len(objects') - cursor') + 3
                       [] pc' = "persist"  -> 2
                       [] pc' = "commit"   -> 1
                       [] pc' = "done"     -> 0
    BY <2>4 DEF Remaining
  <2> HIDE DEF n, o
  <2>6. CASE RefuseSize \/ RefuseDocument \/ RefuseCount \/ ValidationEscapes \/ PersistFails \/ CommitFails
    <3>1. pc' = "done" /\ pc # "done"
      BY <2>6 DEF Fail, RefuseSize, RefuseDocument, RefuseCount, ValidationEscapes, PersistFails, CommitFails
    <3>2. Remaining' = 0
      BY <2>5, <3>1
    <3>3. Remaining \in Nat \ {0}
      BY <2>1, <2>2, <2>3, <3>1 DEF Stages
    <3>4. QED
      BY <3>2, <3>3
  <2>7. CASE BeginParse \/ ParseText \/ EndParse
    <3>1. CASE BeginParse
      <4>1. pc = "size" /\ pc' = "parse" /\ cursor' = cursor
        BY <3>1 DEF BeginParse
      <4>2. QED
        BY <2>1, <2>2, <2>3, <2>5, <4>1
    <3>2. CASE ParseText
      <4>1. pc = "parse" /\ pc' = "parse" /\ cursor' = cursor + 1 /\ cursor < n
        BY <3>2 DEF ParseText, n
      <4>2. QED
        BY <2>1, <2>2, <2>3, <2>5, <4>1
    <3>3. CASE EndParse
      <4>1. pc = "parse" /\ pc' = "cap" /\ cursor = n
        BY <3>3 DEF EndParse, n
      <4>2. QED
        BY <2>1, <2>2, <2>3, <2>5, <4>1
    <3>4. QED
      BY <2>7, <3>1, <3>2, <3>3
  <2>8. CASE BeginValidate \/ ValidateObject \/ EndValidate
    <3>1. CASE BeginValidate
      <4>1. pc = "cap" /\ pc' = "validate" /\ cursor' = 0 /\ Len(objects') = o
        BY <3>1 DEF BeginValidate, o
      <4>2. QED
        BY <2>1, <2>2, <2>3, <2>5, <4>1
    <3>2. CASE ValidateObject
      <4>1. pc = "validate" /\ pc' = "validate" /\ cursor' = cursor + 1 /\ cursor < o /\ Len(objects') = o
        BY <3>2 DEF ValidateObject, o
      <4>2. QED
        BY <2>1, <2>2, <2>3, <2>5, <4>1
    <3>3. CASE EndValidate
      <4>1. pc = "validate" /\ pc' = "persist" /\ cursor = o
        BY <3>3 DEF EndValidate, o
      <4>2. QED
        BY <2>1, <2>2, <2>3, <2>5, <4>1
    <3>4. QED
      BY <2>8, <3>1, <3>2, <3>3
  <2>9. CASE Persist \/ Commit
    <3>1. (pc = "persist" /\ pc' = "commit") \/ (pc = "commit" /\ pc' = "done")
      BY <2>9 DEF Persist, Commit
    <3>2. QED
      BY <2>3, <2>5, <3>1
  <2>10. QED
    BY <1>1, <2>6, <2>7, <2>8, <2>9 DEF Next
<1>2. IInv /\ [Next]_vars => [MovesOn]_vars
  BY <1>1
<1>3. QED
  BY <1>2, RequestInvariance, PTL DEF Spec
-----------------------------------------------------------------------------
(* Where nothing is filtered out, nothing is lost.                         *)
LEMMA KeptOfAll ==
  ASSUME NEW S, NEW s \in Seq(S), NEW kinds, S \subseteq kinds
  PROVE  Kept(s, kinds, Len(s)) \in Seq(S) /\ Len(Kept(s, kinds, Len(s))) = Len(s)
<1> DEFINE n == Len(s)
<1>1. n \in Nat /\ n \in 0..Len(s)
  OBVIOUS
<1>2. At(s, kinds, n) = 1..n
  BY DEF At
<1>3. S \cap kinds = S
  OBVIOUS
<1>4. Kept(s, kinds, n) \in Seq(S) /\ Len(Kept(s, kinds, n)) = Cardinality(At(s, kinds, n))
  BY <1>1, <1>3, KeptIsSeq
<1> HIDE DEF n
<1>5. Cardinality(1..n) = n
  <2>1. 1 \in Int /\ n \in Int
    BY <1>1
  <2>2. Cardinality(1..n) = IF 1 > n THEN 0 ELSE n - 1 + 1
    BY <2>1, FS_Interval
  <2>3. QED
    BY <1>1, <2>2
<1>6. QED
  BY <1>2, <1>4, <1>5 DEF n

(* A JSON array of good events is accepted as a whole if it has no newline *)
(* (events.py:5-6, 98): the newline is all that run json_newline is about. *)
THEOREM JsonOnOneLineIsAccepted == Spec => [](~HasNewline(body) => JsonDocumentAccepted)
<1>1. ASSUME RInv, ~HasNewline(body) PROVE JsonDocumentAccepted
  <2> SUFFICES ASSUME status = 200, ~body.ndjson, \A i \in DOMAIN body.texts : body.texts[i] = "good"
               PROVE  response.accepted = Len(body.texts)
    BY DEF JsonDocumentAccepted
  <2>1. Texts(body) = body.texts
    <3>1. body.texts # <<"null">>
      <4>1. <<"null">>[1] = "null" /\ 1 \in DOMAIN <<"null">>
        OBVIOUS
      <4>2. QED
        BY <4>1
    <3>2. QED
      BY <1>1, <3>1 DEF Texts, TakesLines, IsNull
  <2>2. body.texts \in Seq(Kinds)
    BY <1>1, <2>1, TextsAreKinds DEF RInv, IInv
  <2>3. body.texts \in Seq({"good"})
    BY <2>2
  <2>4. {"good"} \subseteq {k \in Kinds : IsObject(k)} /\ {"good"} \subseteq {k \in Kinds : PassesModel(k)}
    BY DEF Kinds, IsObject, PassesModel
  <2>5. Objects(body) \in Seq({"good"}) /\ Len(Objects(body)) = Len(body.texts)
    BY <2>1, <2>3, <2>4, KeptOfAll DEF Objects
  <2>6. Rows(body) \in Seq({"good"}) /\ Len(Rows(body)) = Len(body.texts)
    BY <2>4, <2>5, KeptOfAll DEF Rows
  <2>7. [i \in DOMAIN stored |-> objects[stored[i]]] = Rows(body) /\ response.accepted = Len(stored)
    BY <1>1 DEF RInv, IInv, Answered, NothingUncounted, Ends, StoresTheGoodOnes
  <2>8. stored \in Seq(Nat) /\ Len(stored) \in Nat /\ Len(body.texts) \in Nat
    BY <1>1, <2>2 DEF RInv, IInv, TypeOK
  <2>9. DOMAIN stored = DOMAIN Rows(body)
    BY <2>7
  <2>10. 1..Len(stored) = 1..Len(body.texts)
    BY <2>6, <2>8, <2>9
  <2>11. Len(stored) = Len(body.texts)
    <3> DEFINE m == Len(stored)
               k == Len(body.texts)
    <3>1. m \in Nat /\ k \in Nat /\ \A i : i \in 1..m <=> i \in 1..k
      BY <2>8, <2>10
    <3> HIDE DEF m, k
    <3>2. m <= k /\ k <= m
      BY <3>1
    <3>3. QED
      BY <3>1, <3>2 DEF m, k
  <2>12. QED
    BY <2>7, <2>11
<1>2. QED
  BY <1>1, RequestReads, PTL
=============================================================================
