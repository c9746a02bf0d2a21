------------------------- MODULE EdgeRecordsProofs -------------------------
(***************************************************************************)
(* Facts about records and lists that the other proofs rest on: least and  *)
(* greatest values, the merge of versions, the filters over segment        *)
(* metadata, sums, and lists, flattened or sorted.                         *)
(*                                                                         *)
(* A sum is a fold, which the library defines by a CHOOSE among recursive  *)
(* functions.  That there is such a function, and what it computes, is     *)
(* shown by a set without a least element: a least size, or number, at     *)
(* which it went wrong would have a smaller one.                           *)
(***************************************************************************)
EXTENDS EdgeRecords, Sorting, SequencesExt, FiniteSetTheorems, SequenceTheorems,
        WellFoundedInduction, TLAPS

-----------------------------------------------------------------------------
(* Least and greatest values.                                              *)

\* A non-empty set of naturals has a least element, which is its Min.
LEMMA LeastNatural ==
  ASSUME NEW S \in SUBSET Nat, S # {}
  PROVE  Min(S) \in S /\ \A e \in S : Min(S) <= e
<1>1. PICK d \in S : \A e \in S : ~(<<e, d>> \in OpToRel(<, Nat))
  BY WFMin, NatLessThanWellFounded
<1>2. ASSUME NEW e \in S PROVE d <= e
  <2>1. ~(e < d)
    BY <1>1 DEF OpToRel
  <2>2. d \in Nat /\ e \in Nat
    OBVIOUS
  <2> QED BY <2>1, <2>2
<1> QED BY <1>1, <1>2 DEF Min

\* A non-empty set of naturals below a bound has a greatest element.
LEMMA BoundedMax ==
  ASSUME NEW S \in SUBSET Nat, S # {}, NEW n \in Nat, \A x \in S : x <= n
  PROVE  \E m \in S : \A x \in S : x <= m
<1> DEFINE T == {n - x : x \in S}
<1>1. T \subseteq Nat /\ T # {}
  <2>1. \A x \in S : n - x \in Nat
    OBVIOUS
  <2>2. PICK x \in S : TRUE
    OBVIOUS
  <2>3. n - x \in T
    BY <2>2
  <2> QED BY <2>1, <2>3
<1>2. PICK d \in T : \A e \in T : ~(<<e, d>> \in OpToRel(<, Nat))
  BY <1>1, WFMin, NatLessThanWellFounded
<1>3. PICK m \in S : d = n - m
  OBVIOUS
<1>4. ASSUME NEW x \in S PROVE x <= m
  <2>1. n - x \in T
    OBVIOUS
  <2>2. ~(n - x < d)
    BY <1>1, <1>2, <2>1 DEF OpToRel
  <2> QED BY <1>3, <2>2
<1> QED BY <1>4

\* A finite non-empty set of naturals has a greatest element, which is its
\* Max: a smallest set without one would lose an element and keep the defect.
LEMMA GreatestNatural ==
  ASSUME NEW S \in SUBSET Nat, IsFiniteSet(S), S # {}
  PROVE  Max(S) \in S /\ \A x \in S : x <= Max(S)
<1> DEFINE Top(T) == \E m \in T : \A x \in T : x <= m
           Bad == {n \in Nat : \E T \in SUBSET S :
                     T # {} /\ Cardinality(T) = n /\ ~ Top(T)}
<1>1. Bad = {}
  <2> SUFFICES ASSUME Bad # {} PROVE FALSE
    OBVIOUS
  <2>1. Min(Bad) \in Bad /\ \A n \in Bad : Min(Bad) <= n
    BY LeastNatural
  <2>2. PICK T \in SUBSET S :
          T # {} /\ Cardinality(T) = Min(Bad) /\ ~ Top(T)
    BY <2>1
  <2>3. PICK x \in T : TRUE
    BY <2>2
  <2>4. IsFiniteSet(T) /\ Cardinality(T) \in Nat
    BY FS_Subset, FS_CardinalityType
  <2>5. T \ {x} \in SUBSET S
    OBVIOUS
  <2>6. Cardinality(T \ {x}) = Cardinality(T) - 1
    BY <2>3, <2>4, FS_RemoveElement
  <2>7. Cardinality(T \ {x}) \in Nat
    BY <2>4, FS_Subset, FS_CardinalityType
  <2>8. T \ {x} # {}
    <3> SUFFICES ASSUME T \ {x} = {} PROVE FALSE
      OBVIOUS
    <3>1. \A y \in T : y <= x
      BY <2>3
    <3> QED BY <3>1, <2>2, <2>3
  <2>9. Top(T \ {x})
    <3> SUFFICES ASSUME ~ Top(T \ {x}) PROVE FALSE
      OBVIOUS
    <3>1. Cardinality(T \ {x}) \in Bad
      BY <2>5, <2>7, <2>8
    <3> HIDE DEF Bad
    <3> QED BY <3>1, <2>1, <2>2, <2>4, <2>6, <2>7
  <2>10. PICK m \in T \ {x} : \A y \in T \ {x} : y <= m
    BY <2>9
  <2>11. CASE x <= m
    BY <2>2, <2>10, <2>11
  <2>12. CASE m <= x
    <3>1. \A y \in T : y <= x
      BY <2>3, <2>10, <2>12
    <3> QED BY <2>2, <2>3, <3>1
  <2>13. m \in Nat /\ x \in Nat
    OBVIOUS
  <2> QED BY <2>11, <2>12, <2>13
<1>2. Top(S)
  <2>1. Cardinality(S) \in Nat
    BY FS_CardinalityType
  <2> QED BY <1>1, <2>1
<1>3. PICK m \in S : \A x \in S : m >= x
  BY <1>2
<1> QED BY <1>3 DEF Max

LEMMA MaxOfTwo ==
  ASSUME NEW a \in Int, NEW b \in Int
  PROVE  /\ Max({a, b}) \in {a, b}
         /\ Max({a, b}) >= a /\ Max({a, b}) >= b
<1>1. \E m \in {a, b} : \A x \in {a, b} : m >= x
  OBVIOUS
<1> QED BY <1>1 DEF Max

LEMMA MinOfTwo ==
  ASSUME NEW a \in Int, NEW b \in Int
  PROVE  Min({a, b}) <= a /\ Min({a, b}) <= b
<1>1. PICK m \in {a, b} : m <= a /\ m <= b
  OBVIOUS
<1> QED BY <1>1 DEF Min

LEMMA MaxTsOf ==
  ASSUME NEW edges \in SUBSET EdgeRecord
  PROVE  /\ max_ts(edges) \in 0..MaxTs
         /\ \A e \in edges : e.ts <= max_ts(edges)
<1> DEFINE S == {e.ts : e \in edges}
<1>1. CASE edges = {}
  BY <1>1, MaxTsAssumption DEF max_ts
<1>2. CASE edges # {}
  <2>1. S \in SUBSET Nat /\ S # {} /\ \A x \in S : x \in 1..MaxTs /\ x <= MaxTs
    BY <1>2, MaxTsAssumption DEF EdgeRecord
  <2>2. \E m \in S : \A x \in S : m >= x
    BY <2>1, BoundedMax, MaxTsAssumption
  <2>3. Max(S) \in S /\ \A x \in S : Max(S) >= x
    BY <2>2 DEF Max
  <2> QED BY <1>2, <2>1, <2>3 DEF max_ts
<1> QED BY <1>1, <1>2

-----------------------------------------------------------------------------
(* Merging versions.                                                       *)

\* Every record that a snapshot sees is superseded by, or is, one that
\* merge_latest_records keeps.
LEMMA MergeCovers ==
  ASSUME NEW updates \in SUBSET EdgeRecord, NEW snapshot \in Nat,
         NEW r \in updates, r.ts <= snapshot
  PROVE  \E q \in merge_latest_records(updates, snapshot, TRUE) :
            q.key = r.key /\ q.ts >= r.ts
<1> DEFINE same == {e \in updates : e.ts <= snapshot /\ e.key = r.key}
           S == {e.ts : e \in same}
<1>1. S \in SUBSET Nat /\ S # {} /\ \A x \in S : x <= snapshot
  BY DEF EdgeRecord
<1>2. PICK m \in S : \A x \in S : x <= m
  BY <1>1, BoundedMax
<1>3. PICK q \in same : q.ts = m
  OBVIOUS
<1>4. q \in merge_latest_records(updates, snapshot, TRUE)
  BY <1>2, <1>3 DEF merge_latest_records
<1>5. q.ts >= r.ts
  BY <1>1, <1>2, <1>3
<1> QED BY <1>3, <1>4, <1>5

LEMMA MergeSubset ==
  ASSUME NEW updates, NEW snapshot, NEW keep
  PROVE  /\ merge_latest_records(updates, snapshot, keep) \subseteq updates
         /\ merge_visible(updates, snapshot) \subseteq updates
BY DEF merge_latest_records, merge_visible

LEMMA SegmentSubset ==
  ASSUME NEW edges, NEW n
  PROVE  first_range_segment(edges, n) \subseteq edges
BY DEF first_range_segment

\* r is in U, or U has a newer version of its edge that every snapshot from h
\* on can see.
Retained(r, U, h) ==
  r \in U \/ \E q \in U : q.key = r.key /\ q.ts >= r.ts /\ q.ts <= h

LEMMA KeptGrows ==
  ASSUME NEW U \in SUBSET EdgeRecord, NEW V, U \subseteq V,
         NEW h \in Int, NEW k \in Int, h <= k,
         NEW r, Retained(r, U, h)
  PROVE  Retained(r, V, k)
<1>1. \A q \in U : q.ts \in Int
  BY DEF EdgeRecord
<1> QED BY <1>1 DEF Retained

LEMMA KeptThrough ==
  ASSUME NEW U \in SUBSET EdgeRecord, NEW V \in SUBSET EdgeRecord,
         NEW h \in Int, NEW r \in EdgeRecord, Retained(r, U, h),
         \A q \in U : Retained(q, V, h)
  PROVE  Retained(r, V, h)
<1>1. \A q \in EdgeRecord : q.ts \in Int
  BY DEF EdgeRecord
<1>2. CASE r \in U
  BY <1>2
<1>3. CASE \E q \in U : q.key = r.key /\ q.ts >= r.ts /\ q.ts <= h
  <2>1. PICK q \in U : q.key = r.key /\ q.ts >= r.ts /\ q.ts <= h
    BY <1>3
  <2>2. CASE q \in V
    BY <2>1, <2>2 DEF Retained
  <2>3. CASE \E p \in V : p.key = q.key /\ p.ts >= q.ts /\ p.ts <= h
    <3>1. PICK p \in V : p.key = q.key /\ p.ts >= q.ts /\ p.ts <= h
      BY <2>3
    <3>2. p.key = r.key /\ p.ts >= r.ts
      BY <1>1, <2>1, <3>1
    <3> QED BY <3>1, <3>2 DEF Retained
  <2> QED BY <2>1, <2>2, <2>3 DEF Retained
<1> QED BY <1>2, <1>3 DEF Retained

\* What a set lacks of a larger one is invisible if it keeps newer versions.
LEMMA MergeKept ==
  ASSUME NEW V \in SUBSET EdgeRecord, NEW U \in SUBSET V,
         NEW h \in Int, NEW snapshot \in Int, h <= snapshot,
         \A r \in V : Retained(r, U, h),
         \A r, q \in V : r.ts = q.ts => r = q
  PROVE  merge_visible(U, snapshot) = merge_visible(V, snapshot)
<1> DEFINE Newest(W) == {e \in W : /\ e.ts <= snapshot
                                   /\ \A o \in W : o.ts <= snapshot /\ o.key = e.key
                                        => o.ts <= e.ts}
<1>1. \A W : merge_visible(W, snapshot) = {e \in Newest(W) : e.marker = "Insert"}
  BY DEF merge_visible, merge_latest_records
<1>2. \A r \in V : r.ts \in Int
  BY DEF EdgeRecord
<1>3. \A r \in V : r.ts <= snapshot =>
        \E q \in U : q.key = r.key /\ q.ts >= r.ts /\ q.ts <= snapshot
  BY <1>2 DEF Retained
<1>4. ASSUME NEW e \in Newest(V) PROVE e \in Newest(U)
  <2>1. PICK q \in U : q.key = e.key /\ q.ts >= e.ts /\ q.ts <= snapshot
    BY <1>3
  <2>2. q = e
    BY <1>2, <2>1
  <2> QED BY <2>1, <2>2
<1>5. ASSUME NEW e \in Newest(U) PROVE e \in Newest(V)
  <2>1. ASSUME NEW o \in V, o.ts <= snapshot, o.key = e.key
        PROVE  o.ts <= e.ts
    <3>1. PICK q \in U : q.key = o.key /\ q.ts >= o.ts /\ q.ts <= snapshot
      BY <1>3, <2>1
    <3>2. q.ts <= e.ts
      BY <2>1, <3>1
    <3> QED BY <1>2, <3>1, <3>2
  <2> QED BY <2>1
<1>6. Newest(U) = Newest(V)
  BY <1>4, <1>5
<1> QED BY <1>1, <1>6

-----------------------------------------------------------------------------
(* Filters.                                                                *)

\* The values of a function on a finite set are finitely many.
LEMMA ValuesFinite ==
  ASSUME NEW S, IsFiniteSet(S), NEW f, DOMAIN f = S,
         NEW T, T = {f[x] : x \in S}, f \in [S -> T]
  PROVE  IsFiniteSet(T)
<1>1. \A t \in T : \E s \in S : f[s] = t
  OBVIOUS
<1>2. f \in Surjection(S, T)
  BY <1>1, Zenon DEF Surjection
<1> QED BY <1>2, FS_Surjection

\* Records with different timestamps are finitely many.
LEMMA UniqueFinite ==
  ASSUME NEW edges \in SUBSET EdgeRecord,
         \A r, q \in edges : r.ts = q.ts => r = q
  PROVE  IsFiniteSet(edges)
<1> DEFINE f == [r \in edges |-> r.ts]
<1>1. f \in [edges -> 1..MaxTs]
  BY DEF EdgeRecord
<1>2. f \in Injection(edges, 1..MaxTs)
  BY <1>1 DEF Injection, IsInjective
<1>3. IsFiniteSet(1..MaxTs)
  BY FS_Interval, MaxTsAssumption
<1> QED BY <1>2, <1>3, FS_Injection

LEMMA CommonOf ==
  ASSUME NEW S, IsFiniteSet(S), NEW x \in S, NEW several
  PROVE  CommonValue(S, several) \in {several, x}
<1>1. CASE Cardinality(S) = 1
  <2>1. PICK y : S = {y}
    BY <1>1, FS_Singleton
  <2> QED BY <1>1, <2>1 DEF CommonValue
<1>2. CASE Cardinality(S) # 1
  BY <1>2 DEF CommonValue
<1> QED BY <1>1, <1>2

\* The filters of get_neighbors turn away no L0 segment that has an edge of
\* the source and the type asked for.
LEMMA FilterFinds ==
  ASSUME NEW edges \in SUBSET EdgeRecord, IsFiniteSet(edges),
         NEW r \in edges, NEW edge_type,
         edge_type = NoEdgeType \/ r.key.edge_type \in edge_type
  PROVE  /\ may_contain_partition(edges, r.key.src, edge_type)
         /\ min_src(edges) <= r.key.src /\ r.key.src <= max_src(edges)
<1> DEFINE sources == {e.key.src : e \in edges}
           types == {e.key.edge_type : e \in edges}
           labels == {source_label_from_vertex_id(e.key.src) : e \in edges}
<1>1. \A e \in edges : e.key.src \in Nat
  BY KeysAssumption DEF EdgeRecord
<1>2. IsFiniteSet(sources)
  <2> DEFINE f == [e \in edges |-> e.key.src]
  <2>1. sources = {f[e] : e \in edges} /\ f \in [edges -> sources]
    OBVIOUS
  <2> HIDE DEF f, sources
  <2> QED BY <2>1, ValuesFinite
<1>3. IsFiniteSet(types)
  <2> DEFINE f == [e \in edges |-> e.key.edge_type]
  <2>1. types = {f[e] : e \in edges} /\ f \in [edges -> types]
    OBVIOUS
  <2> HIDE DEF f, types
  <2> QED BY <2>1, ValuesFinite
<1>4. IsFiniteSet(labels)
  <2> DEFINE f == [e \in edges |-> source_label_from_vertex_id(e.key.src)]
  <2>1. labels = {f[e] : e \in edges} /\ f \in [edges -> labels]
    OBVIOUS
  <2> HIDE DEF f, labels
  <2> QED BY <2>1, ValuesFinite
<1>5. may_contain_partition(edges, r.key.src, edge_type)
  <2>1. segment_edge_type(edges) \in {MIXED_EDGE_TYPE, r.key.edge_type}
    BY <1>3, CommonOf DEF segment_edge_type
  <2>2. segment_src_label(edges)
          \in {UNKNOWN_SOURCE_LABEL, source_label_from_vertex_id(r.key.src)}
    <3>1. source_label_from_vertex_id(r.key.src) \in labels
      OBVIOUS
    <3>2. segment_src_label(edges) = CommonValue(labels, UNKNOWN_SOURCE_LABEL)
      BY DEF segment_src_label
    <3> HIDE DEF labels
    <3> QED BY <1>4, <3>1, <3>2, CommonOf
  <2> QED BY <2>1, <2>2 DEF may_contain_partition, partition_overlaps_target
<1>6. min_src(edges) <= r.key.src /\ r.key.src <= max_src(edges)
  <2>1. sources \in SUBSET Nat /\ r.key.src \in sources
    BY <1>1
  <2>2. min_src(edges) = Min(sources) /\ max_src(edges) = Max(sources)
    BY DEF min_src, max_src
  <2> HIDE DEF sources
  <2>3. Min(sources) <= r.key.src
    BY <2>1, LeastNatural
  <2>4. r.key.src <= Max(sources)
    BY <1>2, <2>1, GreatestNatural
  <2> QED BY <2>2, <2>3, <2>4
<1> QED BY <1>5, <1>6

-----------------------------------------------------------------------------
(* Folds over finite sets.                                                 *)

\* The function that a fold over the subsets of a finite set computes: it
\* takes the picked element out, and works on what is left.
IsFold(h, f, base, pick, S) ==
  \A s \in SUBSET S :
    h[s] = IF s = {} THEN base ELSE f[pick[s]][h[s \ {pick[s]}]]

Picks(pick, S) == \A s \in SUBSET S : s # {} => pick[s] \in s

\* There is such a function: it can be told for the sets of at most n
\* elements, for every n.
LEMMA FoldExists ==
  ASSUME NEW S, IsFiniteSet(S), NEW Type, NEW base \in Type,
         NEW f \in [S -> [Type -> Type]], NEW pick, Picks(pick, S)
  PROVE  \E h \in [SUBSET S -> Type] : IsFold(h, f, base, pick, S)
<1> DEFINE Value(h, s) ==
             IF s = {} THEN base ELSE f[pick[s]][h[s \ {pick[s]}]]
           Upto(h, n) ==
             \A s \in SUBSET S : Cardinality(s) <= n => h[s] = Value(h, s)
           Bad == {n \in Nat : \A h \in [SUBSET S -> Type] : ~ Upto(h, n)}
<1>1. \A s \in SUBSET S : IsFiniteSet(s) /\ Cardinality(s) \in Nat
  BY FS_Subset, FS_CardinalityType
<1>2. \A s \in SUBSET S : s # {} =>
        /\ pick[s] \in s /\ s \ {pick[s]} \in SUBSET S
        /\ Cardinality(s \ {pick[s]}) = Cardinality(s) - 1
  BY <1>1, FS_RemoveElement DEF Picks
<1>3. ASSUME NEW h \in [SUBSET S -> Type], NEW s \in SUBSET S
      PROVE  Value(h, s) \in Type
  <2>1. CASE s # {}
    <3>1. pick[s] \in S /\ h[s \ {pick[s]}] \in Type
      BY <1>2, <2>1
    <3> QED BY <2>1, <3>1
  <2> QED BY <2>1
<1>4. Bad = {}
  <2> SUFFICES ASSUME Bad # {} PROVE FALSE
    OBVIOUS
  <2> DEFINE n == Min(Bad)
  <2>1. n \in Bad /\ \A m \in Bad : n <= m
    BY LeastNatural
  <2>2. n # 0
    <3> DEFINE h == [s \in SUBSET S |-> base]
    <3>1. Upto(h, 0)
      <4> SUFFICES ASSUME NEW s \in SUBSET S, Cardinality(s) <= 0
                   PROVE  s = {}
        OBVIOUS
      <4>1. Cardinality(s) = 0
        BY <1>1
      <4> QED BY <1>1, <4>1, FS_EmptySet
    <3>2. h \in [SUBSET S -> Type]
      OBVIOUS
    <3>3. 0 \notin Bad
      BY <3>1, <3>2
    <3> QED BY <2>1, <3>3
  <2>3. n - 1 \in Nat /\ n - 1 \notin Bad
    <3>1. n \in Nat
      BY <2>1
    <3> HIDE DEF n, Bad
    <3> QED BY <2>1, <2>2, <3>1
  <2>4. PICK g \in [SUBSET S -> Type] : Upto(g, n - 1)
    BY <2>3
  <2> DEFINE h == [s \in SUBSET S |->
                     IF Cardinality(s) <= n - 1 THEN g[s] ELSE Value(g, s)]
  <2>5. h \in [SUBSET S -> Type]
    BY <1>3
  <2>6. ASSUME NEW s \in SUBSET S, Cardinality(s) <= n
        PROVE  h[s] = Value(h, s)
    <3>1. h[s] = Value(g, s)
      BY <2>4
    <3>2. CASE s # {}
      <4> DEFINE rest == s \ {pick[s]}
      <4>1. rest \in SUBSET S /\ Cardinality(rest) <= n - 1
        BY <1>1, <1>2, <2>1, <2>6, <3>2
      <4>2. h[rest] = g[rest]
        BY <4>1
      <4> HIDE DEF h
      <4> QED BY <3>1, <3>2, <4>2
    <3> QED BY <3>1, <3>2
  <2>7. Upto(h, n)
    BY <2>6
  <2> HIDE DEF h, Upto
  <2>8. n \notin Bad
    BY <2>5, <2>7
  <2> QED BY <2>1, <2>8
<1>5. Cardinality(S) \in Nat
  BY <1>1
<1>6. PICK h \in [SUBSET S -> Type] : Upto(h, Cardinality(S))
  BY <1>4, <1>5
<1>7. \A s \in SUBSET S : Cardinality(s) <= Cardinality(S)
  BY FS_Subset
<1> QED BY <1>6, <1>7 DEF IsFold

\* h computes the fold from values that have the type.
Follows(h, f, base, pick, S, Type) ==
  /\ h[{}] = base
  /\ \A s \in SUBSET S :
       s # {} /\ h[s \ {pick[s]}] \in Type =>
         h[s] = f[pick[s]][h[s \ {pick[s]}]]

\* A function that follows the fold as long as its values have the type does
\* so everywhere.
LEMMA FoldTyped ==
  ASSUME NEW S, IsFiniteSet(S), NEW Type, NEW base \in Type,
         NEW f \in [S -> [Type -> Type]], NEW pick, Picks(pick, S),
         NEW h, Follows(h, f, base, pick, S, Type)
  PROVE  IsFold(h, f, base, pick, S) /\ \A s \in SUBSET S : h[s] \in Type
<1> DEFINE Bad == {n \in Nat :
                     \E s \in SUBSET S : Cardinality(s) = n /\ h[s] \notin Type}
<1>1. \A s \in SUBSET S : IsFiniteSet(s) /\ Cardinality(s) \in Nat
  BY FS_Subset, FS_CardinalityType
<1>2. Bad = {}
  <2> SUFFICES ASSUME Bad # {} PROVE FALSE
    OBVIOUS
  <2>1. Min(Bad) \in Bad /\ \A n \in Bad : Min(Bad) <= n
    BY LeastNatural
  <2>2. PICK s \in SUBSET S : Cardinality(s) = Min(Bad) /\ h[s] \notin Type
    BY <2>1
  <2> DEFINE x == pick[s]
             rest == s \ {x}
  <2>3. s # {} /\ x \in s
    BY <2>2 DEF Picks, Follows
  <2>4. rest \in SUBSET S /\ x \in S
    BY <2>3
  <2>5. h[rest] \in Type
    <3> SUFFICES ASSUME h[rest] \notin Type PROVE FALSE
      OBVIOUS
    <3>1. Cardinality(rest) = Cardinality(s) - 1
      <4>1. IsFiniteSet(s)
        BY <1>1
      <4> HIDE DEF x
      <4> QED BY <2>3, <4>1, FS_RemoveElement
    <3>2. Cardinality(rest) \in Bad
      BY <1>1, <2>4
    <3> HIDE DEF Bad, rest
    <3> QED BY <1>1, <2>1, <2>2, <3>1, <3>2
  <2>6. h[s] = f[x][h[rest]]
    BY <2>3, <2>5 DEF Follows
  <2> HIDE DEF x, rest
  <2> QED BY <2>2, <2>4, <2>5, <2>6
<1>3. \A s \in SUBSET S : h[s] \in Type
  BY <1>1, <1>2
<1>4. \A s \in SUBSET S : s # {} => s \ {pick[s]} \in SUBSET S
  OBVIOUS
<1> QED BY <1>3, <1>4 DEF IsFold, Follows

-----------------------------------------------------------------------------
(* Sums.                                                                   *)

\* t gives the sum of g over every subset of S.
Totals(t, g, S) ==
  /\ t \in [SUBSET S -> Int]
  /\ t[{}] = 0
  /\ \A s \in SUBSET S : \A x \in S \ s : t[s \cup {x}] = t[s] + g[x]

\* A fold that adds does so, whatever order its elements are picked in: of
\* two elements, either one can be taken out first.
LEMMA FoldAdds ==
  ASSUME NEW S, IsFiniteSet(S), NEW g, \A x \in S : g[x] \in Int,
         NEW pick, Picks(pick, S), NEW t \in [SUBSET S -> Int],
         \A s \in SUBSET S :
           t[s] = IF s = {} THEN 0 ELSE g[pick[s]] + t[s \ {pick[s]}]
  PROVE  Totals(t, g, S)
<1> DEFINE Adds(s) == \A x \in S \ s : t[s \cup {x}] = t[s] + g[x]
           Bad == {n \in Nat :
                     \E s \in SUBSET S : Cardinality(s) = n /\ ~ Adds(s)}
<1>1. \A s \in SUBSET S : IsFiniteSet(s) /\ Cardinality(s) \in Nat
  BY FS_Subset, FS_CardinalityType
<1>2. Bad = {}
  <2> SUFFICES ASSUME Bad # {} PROVE FALSE
    OBVIOUS
  <2>1. Min(Bad) \in Bad /\ \A n \in Bad : Min(Bad) <= n
    BY LeastNatural
  <2>2. PICK s \in SUBSET S : Cardinality(s) = Min(Bad) /\ ~ Adds(s)
    BY <2>1
  <2>3. PICK x \in S \ s : t[s \cup {x}] # t[s] + g[x]
    BY <2>2
  <2> DEFINE u == s \cup {x}
             y == pick[u]
  <2>4. u \in SUBSET S /\ u # {} /\ y \in u
    <3>1. u \in SUBSET S /\ u # {}
      BY <2>2, <2>3
    <3> QED BY <3>1 DEF Picks
  <2>5. t[u] = g[y] + t[u \ {y}]
    BY <2>4
  <2>6. y # x
    <3> SUFFICES ASSUME y = x PROVE FALSE
      OBVIOUS
    <3>1. u \ {x} = s
      BY <2>3
    <3>2. g[x] \in Int /\ t[s] \in Int /\ t[u] # t[s] + g[x]
      BY <2>3
    <3>3. t[u] = g[x] + t[s]
      <4> HIDE DEF u, y
      <4> QED BY <2>5, <3>1
    <3> QED BY <3>2, <3>3
  <2> DEFINE rest == s \ {y}
  <2>7. /\ y \in s /\ x \in S \ rest /\ rest \in SUBSET S
        /\ u \ {y} = rest \cup {x} /\ rest \cup {y} = s
    BY <2>3, <2>4, <2>6
  <2>8. Adds(rest)
    <3> SUFFICES ASSUME ~ Adds(rest) PROVE FALSE
      OBVIOUS
    <3>1. Cardinality(rest) = Cardinality(s) - 1
      <4>1. IsFiniteSet(s) /\ y \in s
        BY <1>1, <2>7
      <4> HIDE DEF y
      <4> QED BY <4>1, FS_RemoveElement
    <3>2. Cardinality(rest) \in Bad
      BY <1>1, <2>7
    <3> HIDE DEF Bad, rest, y, u, Adds
    <3> QED BY <1>1, <2>1, <2>2, <3>1, <3>2
  <2>9. t[rest \cup {x}] = t[rest] + g[x] /\ t[rest \cup {y}] = t[rest] + g[y]
    BY <2>7, <2>8
  <2>10. g[x] \in Int /\ g[y] \in Int /\ t[rest] \in Int
    BY <2>7
  <2>11. t[u] # t[s] + g[x]
    BY <2>3
  <2>12. t[u] = g[y] + t[rest \cup {x}] /\ t[s] = t[rest \cup {y}]
    <3> HIDE DEF u, y, rest
    <3> QED BY <2>5, <2>7
  <2> HIDE DEF u, y, rest
  <2> QED BY <2>9, <2>10, <2>11, <2>12
<1>3. \A s \in SUBSET S : Adds(s)
  BY <1>1, <1>2
<1>4. t[{}] = 0
  OBVIOUS
<1> QED BY <1>3, <1>4 DEF Totals

\* The sum over a set depends on the summands only.
LEMMA SameTotals ==
  ASSUME NEW S, NEW R, NEW T, T \subseteq S, T \subseteq R, IsFiniteSet(T),
         NEW f, NEW g, \A x \in T : f[x] = g[x],
         NEW t, Totals(t, f, S), NEW u, Totals(u, g, R)
  PROVE  t[T] = u[T]
<1> DEFINE Bad == {n \in Nat :
                     \E s \in SUBSET T : Cardinality(s) = n /\ t[s] # u[s]}
<1>1. \A s \in SUBSET T : IsFiniteSet(s) /\ Cardinality(s) \in Nat
  BY FS_Subset, FS_CardinalityType
<1>2. Bad = {}
  <2> SUFFICES ASSUME Bad # {} PROVE FALSE
    OBVIOUS
  <2>1. Min(Bad) \in Bad /\ \A n \in Bad : Min(Bad) <= n
    BY LeastNatural
  <2>2. PICK s \in SUBSET T : Cardinality(s) = Min(Bad) /\ t[s] # u[s]
    BY <2>1
  <2>3. PICK x \in s : TRUE
    BY <2>2 DEF Totals
  <2> DEFINE rest == s \ {x}
  <2>4. /\ rest \in SUBSET S /\ x \in S \ rest /\ rest \cup {x} = s
        /\ rest \in SUBSET R /\ x \in R \ rest /\ rest \in SUBSET T
    BY <2>3
  <2>5. t[rest] = u[rest]
    <3> SUFFICES ASSUME t[rest] # u[rest] PROVE FALSE
      OBVIOUS
    <3>1. Cardinality(rest) = Cardinality(s) - 1
      BY <1>1, <2>3, FS_RemoveElement
    <3>2. Cardinality(rest) \in Bad
      BY <1>1, <2>4
    <3> HIDE DEF Bad, rest
    <3> QED BY <1>1, <2>1, <2>2, <3>1, <3>2
  <2>6. t[s] = t[rest] + f[x] /\ u[s] = u[rest] + g[x]
    <3>1. /\ t[rest \cup {x}] = t[rest] + f[x]
          /\ u[rest \cup {x}] = u[rest] + g[x]
      <4> HIDE DEF rest
      <4> QED BY <2>4 DEF Totals
    <3> QED BY <2>4, <3>1
  <2>7. f[x] = g[x]
    BY <2>3
  <2> QED BY <2>2, <2>5, <2>6, <2>7
<1> QED BY <1>1, <1>2

Sum(g, S) == MapThenSumSet(LAMBDA x : g[x], S)

\* The sum is one of the totals of its summands.
LEMMA SumTotal ==
  ASSUME NEW S, IsFiniteSet(S), NEW g, \A x \in S : g[x] \in Int
  PROVE  \E t : Totals(t, g, S) /\ t[S] = Sum(g, S)
<1> DEFINE pick == [s \in SUBSET S |-> CHOOSE x \in s : TRUE]
           add == [x \in S |-> [n \in Int |-> g[x] + n]]
           Fold(h) == h = [s \in SUBSET S |->
                             IF s = {} THEN 0
                             ELSE g[CHOOSE x \in s : TRUE]
                                    + h[s \ {CHOOSE x \in s : TRUE}]]
           iter == CHOOSE h : Fold(h)
<1>1. Picks(pick, S)
  BY DEF Picks
<1>2. add \in [S -> [Int -> Int]] /\ 0 \in Int
  OBVIOUS
<1>3. PICK h \in [SUBSET S -> Int] : IsFold(h, add, 0, pick, S)
  <2> DEFINE Type == Int
  <2>1. add \in [S -> [Type -> Type]] /\ 0 \in Type
    BY <1>2
  <2> HIDE DEF pick, add, Type
  <2>2. \E h \in [SUBSET S -> Type] : IsFold(h, add, 0, pick, S)
    BY <1>1, <2>1, FoldExists
  <2> QED BY <2>2 DEF Type
<1>4. \A s \in SUBSET S : s # {} =>
        LET x == CHOOSE x \in s : TRUE
        IN  x \in s /\ x \in S /\ s \ {x} \in SUBSET S /\ pick[s] = x
  BY <1>1 DEF Picks
<1>5. \A s \in SUBSET S : s # {} =>
        LET x == CHOOSE x \in s : TRUE
        IN  h[s] = g[x] + h[s \ {x}]
  BY <1>3, <1>4 DEF IsFold
<1>6. Fold(h)
  BY <1>3, <1>5 DEF IsFold
<1>7. Fold(iter)
  BY <1>6
<1>8. Sum(g, S) = iter[S]
  BY DEF Sum, MapThenSumSet, MapThenFoldSet
<1>9. iter \in [SUBSET S -> Int]
  <2>1. iter = [s \in SUBSET S |-> iter[s]]
    <3> HIDE DEF iter
    <3> QED BY <1>7
  <2>2. iter[{}] = 0
    <3> HIDE DEF iter
    <3> QED BY <1>7
  <2>3. \A s \in SUBSET S : s # {} /\ iter[s \ {pick[s]}] \in Int =>
          iter[s] = add[pick[s]][iter[s \ {pick[s]}]]
    <3> HIDE DEF iter
    <3> QED BY <1>4, <1>7
  <2> DEFINE Type == Int
  <2>4. add \in [S -> [Type -> Type]] /\ 0 \in Type
    BY <1>2
  <2>5. Follows(iter, add, 0, pick, S, Type)
    <3> HIDE DEF iter, add, pick
    <3> QED BY <2>2, <2>3 DEF Follows
  <2> HIDE DEF iter, pick, add, Type
  <2>6. \A s \in SUBSET S : iter[s] \in Type
    BY <1>1, <2>4, <2>5, FoldTyped
  <2> QED BY <2>1, <2>6 DEF Type
<1>10. Totals(iter, g, S)
  <2>1. \A s \in SUBSET S :
          iter[s] = IF s = {} THEN 0 ELSE g[pick[s]] + iter[s \ {pick[s]}]
    <3> HIDE DEF iter
    <3> QED BY <1>7
  <2> HIDE DEF pick, iter
  <2> QED BY <1>1, <1>9, <2>1, FoldAdds
<1> QED BY <1>8, <1>10

\* Any totals over a larger set give the sum over its part.
LEMMA SumOfTotals ==
  ASSUME NEW R, NEW t, NEW g, Totals(t, g, R), NEW S \in SUBSET R,
         IsFiniteSet(S), \A x \in S : g[x] \in Int
  PROVE  t[S] = Sum(g, S)
<1>1. PICK u : Totals(u, g, S) /\ u[S] = Sum(g, S)
  BY SumTotal
<1>2. t[S] = u[S]
  BY <1>1, SameTotals
<1> QED BY <1>1, <1>2

\* The sum of nothing.
LEMMA SumEmpty == \A g : Sum(g, {}) = 0
<1> TAKE g
<1>1. PICK t : Totals(t, g, {}) /\ t[{}] = Sum(g, {})
  BY FS_EmptySet, SumTotal
<1> QED BY <1>1 DEF Totals

\* The sum of integers is one.
LEMMA SumInt ==
  ASSUME NEW S, IsFiniteSet(S), NEW g, \A x \in S : g[x] \in Int
  PROVE  Sum(g, S) \in Int
<1>1. PICK t : Totals(t, g, S) /\ t[S] = Sum(g, S)
  BY SumTotal
<1> QED BY <1>1 DEF Totals

\* Only what is summed matters.
LEMMA SumSame ==
  ASSUME NEW S, IsFiniteSet(S), NEW f, NEW g,
         \A x \in S : f[x] \in Int /\ f[x] = g[x]
  PROVE  Sum(f, S) = Sum(g, S)
<1>1. PICK t : Totals(t, f, S) /\ t[S] = Sum(f, S)
  BY SumTotal
<1>2. PICK u : Totals(u, g, S) /\ u[S] = Sum(g, S)
  BY SumTotal
<1>3. S \subseteq S /\ \A x \in S : f[x] = g[x]
  OBVIOUS
<1>4. t[S] = u[S]
  BY <1>1, <1>2, <1>3, SameTotals
<1> QED BY <1>1, <1>2, <1>4

\* One more element.
LEMMA SumAdd ==
  ASSUME NEW S, IsFiniteSet(S), NEW x, x \notin S,
         NEW g, \A y \in S \cup {x} : g[y] \in Int
  PROVE  Sum(g, S \cup {x}) = Sum(g, S) + g[x]
<1> DEFINE R == S \cup {x}
<1>1. IsFiniteSet(R) /\ S \in SUBSET R /\ x \in R \ S
  BY FS_AddElement
<1>2. PICK t : Totals(t, g, R) /\ t[R] = Sum(g, R)
  <2> HIDE DEF R
  <2> QED BY <1>1, SumTotal DEF R
<1>3. t[S] = Sum(g, S)
  <2> HIDE DEF R
  <2> QED BY <1>1, <1>2, SumOfTotals DEF R
<1>4. t[S \cup {x}] = t[S] + g[x]
  <2> HIDE DEF R
  <2> QED BY <1>1, <1>2 DEF Totals
<1> QED BY <1>2, <1>3, <1>4

\* One summand changes.
LEMMA SumChange ==
  ASSUME NEW S, IsFiniteSet(S), NEW x \in S, NEW f, NEW g,
         \A y \in S : f[y] \in Int /\ g[y] \in Int,
         \A y \in S : y # x => f[y] = g[y]
  PROVE  Sum(g, S) = Sum(f, S) - f[x] + g[x]
<1> DEFINE R == S \ {x}
<1>1. IsFiniteSet(R) /\ x \notin R /\ R \cup {x} = S
  BY FS_RemoveElement
<1>2. /\ \A y \in R \cup {x} : f[y] \in Int /\ g[y] \in Int
      /\ \A y \in R : f[y] \in Int /\ f[y] = g[y]
  OBVIOUS
<1> HIDE DEF R
<1>3. Sum(f, R \cup {x}) = Sum(f, R) + f[x]
  BY <1>1, <1>2, SumAdd
<1>4. Sum(g, R \cup {x}) = Sum(g, R) + g[x]
  BY <1>1, <1>2, SumAdd
<1>5. Sum(f, R) = Sum(g, R) /\ Sum(f, R) \in Int /\ f[x] \in Int /\ g[x] \in Int
  BY <1>1, <1>2, SumSame, SumInt
<1>6. Sum(f, S) = Sum(f, R) + f[x] /\ Sum(g, S) = Sum(g, R) + g[x]
  BY <1>1, <1>3, <1>4
<1> QED BY <1>5, <1>6

\* Two sums over parts of a set are the sum over it.
LEMMA SumUnion ==
  ASSUME NEW S, NEW T, IsFiniteSet(S), IsFiniteSet(T), S \cap T = {},
         NEW g, \A x \in S \cup T : g[x] \in Int
  PROVE  Sum(g, S \cup T) = Sum(g, S) + Sum(g, T)
<1> DEFINE Bad == {n \in Nat : \E R \in SUBSET T :
                     /\ Cardinality(R) = n
                     /\ Sum(g, S \cup R) # Sum(g, S) + Sum(g, R)}
<1>1. \A R \in SUBSET T : IsFiniteSet(R) /\ Cardinality(R) \in Nat
  BY FS_Subset, FS_CardinalityType
<1>2. Bad = {}
  <2> SUFFICES ASSUME Bad # {} PROVE FALSE
    OBVIOUS
  <2>1. Min(Bad) \in Bad /\ \A n \in Bad : Min(Bad) <= n
    BY LeastNatural
  <2>2. PICK R \in SUBSET T : /\ Cardinality(R) = Min(Bad)
                              /\ Sum(g, S \cup R) # Sum(g, S) + Sum(g, R)
    BY <2>1
  <2>3. R # {}
    <3> SUFFICES ASSUME R = {} PROVE FALSE
      OBVIOUS
    <3>1. S \cup R = S /\ Sum(g, R) = 0 /\ Sum(g, S) \in Int
      BY SumEmpty, SumInt
    <3> QED BY <2>2, <3>1
  <2>4. PICK x \in R : TRUE
    BY <2>3
  <2> DEFINE rest == R \ {x}
  <2>5. /\ rest \in SUBSET T /\ rest \cup {x} = R /\ x \notin rest
        /\ x \notin S \cup rest /\ (S \cup rest) \cup {x} = S \cup R
        /\ IsFiniteSet(rest) /\ IsFiniteSet(S \cup rest)
    BY <1>1, FS_Union
  <2>6. Sum(g, S \cup rest) = Sum(g, S) + Sum(g, rest)
    <3> SUFFICES ASSUME Sum(g, S \cup rest) # Sum(g, S) + Sum(g, rest)
                 PROVE  FALSE
      OBVIOUS
    <3>1. Cardinality(rest) = Cardinality(R) - 1
      BY <1>1, <2>4, FS_RemoveElement
    <3>2. Cardinality(rest) \in Bad
      BY <1>1, <2>5
    <3> HIDE DEF Bad, rest
    <3> QED BY <1>1, <2>1, <2>2, <2>5, <3>1, <3>2
  <2>7. \A y \in (S \cup rest) \cup {x} : g[y] \in Int
    OBVIOUS
  <2>8. Sum(g, (S \cup rest) \cup {x}) = Sum(g, S \cup rest) + g[x]
    <3> HIDE DEF rest
    <3> QED BY <2>5, <2>7, SumAdd
  <2>9. Sum(g, rest \cup {x}) = Sum(g, rest) + g[x]
    <3> HIDE DEF rest
    <3> QED BY <2>5, <2>7, SumAdd
  <2>10. Sum(g, S) \in Int /\ Sum(g, rest) \in Int /\ g[x] \in Int
    <3> HIDE DEF rest
    <3> QED BY <2>5, <2>7, SumInt
  <2>11. /\ Sum(g, S \cup R) = Sum(g, S \cup rest) + g[x]
         /\ Sum(g, R) = Sum(g, rest) + g[x]
    <3> HIDE DEF rest
    <3> QED BY <2>5, <2>8, <2>9
  <2> HIDE DEF rest
  <2> QED BY <2>2, <2>6, <2>10, <2>11
<1> QED BY <1>1, <1>2

\* The sum of naturals is one, and is 0 only if all of them are.
LEMMA SumNat ==
  ASSUME NEW S, IsFiniteSet(S), NEW g, \A x \in S : g[x] \in Nat
  PROVE  /\ Sum(g, S) \in Nat
         /\ \A x \in S : g[x] <= Sum(g, S)
<1> DEFINE Bad == {n \in Nat : \E R \in SUBSET S :
                     Cardinality(R) = n /\ Sum(g, R) \notin Nat}
<1>1. \A R \in SUBSET S : IsFiniteSet(R) /\ Cardinality(R) \in Nat
  BY FS_Subset, FS_CardinalityType
<1>2. Bad = {}
  <2> SUFFICES ASSUME Bad # {} PROVE FALSE
    OBVIOUS
  <2>1. Min(Bad) \in Bad /\ \A n \in Bad : Min(Bad) <= n
    BY LeastNatural
  <2>2. PICK R \in SUBSET S : Cardinality(R) = Min(Bad) /\ Sum(g, R) \notin Nat
    BY <2>1
  <2>3. PICK x \in R : TRUE
    BY <2>2, SumEmpty
  <2> DEFINE rest == R \ {x}
  <2>4. /\ rest \in SUBSET S /\ rest \cup {x} = R /\ x \notin rest
        /\ IsFiniteSet(rest)
    BY <1>1, <2>3
  <2>5. Sum(g, rest) \in Nat
    <3> SUFFICES ASSUME Sum(g, rest) \notin Nat PROVE FALSE
      OBVIOUS
    <3>1. Cardinality(rest) = Cardinality(R) - 1
      BY <1>1, <2>3, FS_RemoveElement
    <3>2. Cardinality(rest) \in Bad
      BY <1>1, <2>4
    <3> HIDE DEF Bad, rest
    <3> QED BY <1>1, <2>1, <2>2, <2>4, <3>1, <3>2
  <2>6. Sum(g, rest \cup {x}) = Sum(g, rest) + g[x] /\ g[x] \in Nat
    <3>1. \A y \in rest \cup {x} : g[y] \in Int
      OBVIOUS
    <3> HIDE DEF rest
    <3> QED BY <2>3, <2>4, <3>1, SumAdd
  <2>7. Sum(g, R) = Sum(g, rest) + g[x]
    <3> HIDE DEF rest
    <3> QED BY <2>4, <2>6
  <2> HIDE DEF rest
  <2> QED BY <2>2, <2>5, <2>6, <2>7
<1>3. \A R \in SUBSET S : Sum(g, R) \in Nat
  BY <1>1, <1>2
<1>4. ASSUME NEW x \in S PROVE g[x] <= Sum(g, S)
  <2> DEFINE R == S \ {x}
  <2>1. /\ R \in SUBSET S /\ IsFiniteSet(R) /\ x \notin R /\ R \cup {x} = S
        /\ \A y \in R \cup {x} : g[y] \in Int
    BY FS_RemoveElement
  <2> HIDE DEF R
  <2>2. Sum(g, R \cup {x}) = Sum(g, R) + g[x]
    BY <2>1, SumAdd
  <2>3. Sum(g, R) \in Nat /\ g[x] \in Nat
    BY <1>3, <2>1
  <2> QED BY <2>1, <2>2, <2>3
<1> QED BY <1>3, <1>4

\* One summand changes, and may be new.
LEMMA SumBump ==
  ASSUME NEW S, IsFiniteSet(S), NEW x, NEW f, NEW g,
         \A y \in S \cup {x} : f[y] \in Int /\ g[y] \in Int,
         \A y \in S : y # x => f[y] = g[y],
         x \notin S => f[x] = 0
  PROVE  Sum(g, S \cup {x}) = Sum(f, S) - f[x] + g[x]
<1>1. CASE x \in S
  <2>1. S \cup {x} = S
    BY <1>1
  <2>2. Sum(g, S) = Sum(f, S) - f[x] + g[x]
    BY <1>1, SumChange
  <2> QED BY <2>1, <2>2
<1>2. CASE x \notin S
  <2>1. Sum(g, S \cup {x}) = Sum(g, S) + g[x]
    BY <1>2, SumAdd
  <2>2. Sum(f, S) = Sum(g, S)
    BY <1>2, SumSame
  <2>3. Sum(f, S) \in Int /\ g[x] \in Int
    BY SumInt
  <2> QED BY <1>2, <2>1, <2>2, <2>3
<1> QED BY <1>1, <1>2

\* A part of a set has no larger sum.
LEMMA SumSubset ==
  ASSUME NEW S, IsFiniteSet(S), NEW T \in SUBSET S,
         NEW g, \A x \in S : g[x] \in Nat
  PROVE  /\ Sum(g, T) \in Nat /\ Sum(g, S) \in Nat
         /\ Sum(g, T) <= Sum(g, S)
<1> DEFINE R == S \ T
<1>1. /\ IsFiniteSet(R) /\ IsFiniteSet(T) /\ T \cap R = {} /\ T \cup R = S
      /\ \A x \in T \cup R : g[x] \in Int
      /\ \A x \in R : g[x] \in Nat
      /\ \A x \in T : g[x] \in Nat
  BY FS_Subset
<1> HIDE DEF R
<1>2. Sum(g, T \cup R) = Sum(g, T) + Sum(g, R)
  BY <1>1, SumUnion
<1>3. Sum(g, T) \in Nat /\ Sum(g, R) \in Nat /\ Sum(g, S) \in Nat
  BY <1>1, SumNat
<1>4. Sum(g, S) = Sum(g, T) + Sum(g, R)
  BY <1>1, <1>2
<1> QED BY <1>3, <1>4

-----------------------------------------------------------------------------
(* Lists, and lists of lists.                                               *)

\* Nothing is in a list twice.
NoTwice(segment) ==
  \A k, l \in 1..Len(segment) : segment[k] = segment[l] => k = l

\* The elements of a list.
LEMMA ToSetIs ==
  ASSUME NEW S, NEW s \in Seq(S)
  PROVE  /\ Len(s) \in Nat /\ DOMAIN s = 1..Len(s)
         /\ ToSet(s) = {s[i] : i \in 1..Len(s)}
         /\ ToSet(s) \in SUBSET S
         /\ ToSet(s) = {} <=> s = <<>>
<1>1. Len(s) \in Nat /\ DOMAIN s = 1..Len(s) /\ \A i \in 1..Len(s) : s[i] \in S
  OBVIOUS
<1>2. ToSet(s) = {s[i] : i \in 1..Len(s)}
  BY <1>1 DEF ToSet
<1>3. s = <<>> => ToSet(s) = {}
  BY DEF ToSet
<1>4. s # <<>> => s[1] \in ToSet(s)
  <2> SUFFICES ASSUME s # <<>> PROVE s[1] \in ToSet(s)
    OBVIOUS
  <2>1. 1 \in 1..Len(s)
    BY EmptySeq, <1>1
  <2> QED BY <1>2, <2>1
<1> QED BY <1>1, <1>2, <1>3, <1>4

LEMMA Concatenation ==
  ASSUME NEW S, NEW s \in Seq(S), NEW t \in Seq(S)
  PROVE  /\ s \o t \in Seq(S)
         /\ ToSet(s \o t) = ToSet(s) \cup ToSet(t)
         /\ NoTwice(s) /\ NoTwice(t) /\ ToSet(s) \cap ToSet(t) = {}
              => NoTwice(s \o t)
<1> DEFINE u == s \o t
           m == Len(s)
           n == Len(t)
<1>1. /\ m \in Nat /\ n \in Nat /\ u \in Seq(S) /\ Len(u) = m + n
      /\ \A i \in 1..(m + n) : u[i] = IF i <= m THEN s[i] ELSE t[i - m]
  BY ConcatProperties
<1>2. /\ ToSet(s) = {s[i] : i \in 1..m} /\ ToSet(t) = {t[i] : i \in 1..n}
      /\ ToSet(u) = {u[i] : i \in 1..(m + n)}
  <2>1. ToSet(s) = {s[i] : i \in 1..m} /\ ToSet(t) = {t[i] : i \in 1..n}
    BY ToSetIs
  <2> HIDE DEF u, m, n
  <2>2. ToSet(u) = {u[i] : i \in 1..Len(u)}
    BY <1>1, ToSetIs
  <2> QED BY <1>1, <2>1, <2>2
<1> HIDE DEF u, m, n
<1>3. \A i \in 1..m : i \in 1..(m + n) /\ u[i] = s[i]
  BY <1>1
<1>4. \A i \in 1..n : m + i \in 1..(m + n) /\ u[m + i] = t[i]
  <2> SUFFICES ASSUME NEW i \in 1..n
               PROVE  m + i \in 1..(m + n) /\ u[m + i] = t[i]
    OBVIOUS
  <2>1. m + i \in 1..(m + n) /\ ~(m + i <= m) /\ (m + i) - m = i
    BY <1>1
  <2> QED BY <1>1, <2>1
<1>5. \A i \in 1..(m + n) : \/ i \in 1..m /\ u[i] = s[i]
                            \/ i - m \in 1..n /\ u[i] = t[i - m] /\ ~(i \in 1..m)
  BY <1>1
<1>6. ToSet(u) = ToSet(s) \cup ToSet(t)
  <2>1. ToSet(u) \subseteq ToSet(s) \cup ToSet(t)
    BY <1>2, <1>5
  <2>2. ToSet(s) \cup ToSet(t) \subseteq ToSet(u)
    BY <1>2, <1>3, <1>4
  <2> QED BY <2>1, <2>2
<1>7. ASSUME NoTwice(s), NoTwice(t), ToSet(s) \cap ToSet(t) = {}
      PROVE  NoTwice(u)
  <2> SUFFICES ASSUME NEW i \in 1..(m + n), NEW j \in 1..(m + n), u[i] = u[j]
               PROVE  i = j
    BY <1>1 DEF NoTwice
  <2>1. CASE i \in 1..m /\ j \in 1..m
    BY <1>3, <1>7, <2>1 DEF NoTwice, m
  <2>2. CASE ~(i \in 1..m) /\ ~(j \in 1..m)
    <3>1. /\ i - m \in 1..n /\ j - m \in 1..n /\ t[i - m] = t[j - m]
      BY <1>5, <2>2
    <3>2. i - m = j - m
      BY <1>7, <3>1 DEF NoTwice, n
    <3> QED BY <1>1, <3>2
  <2>3. ~(i \in 1..m /\ ~(j \in 1..m)) /\ ~(j \in 1..m /\ ~(i \in 1..m))
    BY <1>2, <1>5, <1>7
  <2> QED BY <2>1, <2>2, <2>3
<1> QED BY <1>1, <1>6, <1>7 DEF u

\* What FlattenSeq has put together after the first m lists.
Joins(f, q, m) ==
  \A i \in 1..m : f[i] = IF i = 1 THEN q[i] ELSE f[i - 1] \o q[i]

LEMMA JoinsExist ==
  ASSUME NEW S, NEW q \in Seq(Seq(S))
  PROVE  \E f \in [1..Len(q) -> Seq(S)] : Joins(f, q, Len(q))
<1> DEFINE n == Len(q)
           Fine(m) == \E f \in [1..m -> Seq(S)] : Joins(f, q, m)
           Bad == {m \in Nat : m <= n /\ ~Fine(m)}
<1>1. n \in Nat /\ \A i \in 1..n : q[i] \in Seq(S)
  OBVIOUS
<1>2. Bad = {}
  <2> SUFFICES ASSUME Bad # {} PROVE FALSE
    OBVIOUS
  <2> DEFINE m == Min(Bad)
  <2>1. m \in Bad /\ \A k \in Bad : m <= k
    BY LeastNatural
  <2> HIDE DEF m, Fine, n
  <2>2. m \in Nat /\ m <= n /\ ~Fine(m) /\ \A k \in Nat : k < m => Fine(k)
    BY <1>1, <2>1
  <2>3. m # 0
    <3>1. Joins([i \in 1..0 |-> <<>>], q, 0)
      BY DEF Joins
    <3>2. [i \in 1..0 |-> <<>>] \in [1..0 -> Seq(S)]
      OBVIOUS
    <3>3. Fine(0)
      <4> HIDE DEF Fine
      <4>1. \E f \in [1..0 -> Seq(S)] : Joins(f, q, 0)
        BY <3>1, <3>2
      <4> QED BY <4>1 DEF Fine
    <3> QED BY <2>2, <3>3
  <2>4. m - 1 \in Nat /\ m - 1 < m /\ m \in 1..n
    BY <1>1, <2>2, <2>3
  <2>5. PICK f \in [1..(m - 1) -> Seq(S)] : Joins(f, q, m - 1)
    BY <2>2, <2>4 DEF Fine
  <2> DEFINE last == IF m = 1 THEN q[m] ELSE f[m - 1] \o q[m]
             g == [i \in 1..m |-> IF i = m THEN last ELSE f[i]]
  <2>6. last \in Seq(S)
    <3>1. m # 1 => f[m - 1] \in Seq(S)
      BY <2>2, <2>4
    <3>2. q[m] \in Seq(S)
      BY <1>1, <2>4
    <3> QED BY <3>1, <3>2
  <2> HIDE DEF last
  <2>7. g \in [1..m -> Seq(S)]
    BY <2>2, <2>6
  <2>8. Joins(g, q, m)
    <3> SUFFICES ASSUME NEW i \in 1..m
                 PROVE  g[i] = IF i = 1 THEN q[i] ELSE g[i - 1] \o q[i]
      BY DEF Joins
    <3>1. i - 1 \in 1..m => g[i - 1] = f[i - 1]
      BY <2>2
    <3>2. i # 1 => i - 1 \in 1..m
      BY <2>2
    <3>3. CASE i = m
      BY <3>1, <3>2, <3>3 DEF last
    <3>4. CASE i # m
      <4>1. i \in 1..(m - 1) /\ g[i] = f[i]
        BY <2>2, <3>4
      <4> HIDE DEF g
      <4> QED BY <2>5, <3>1, <3>2, <4>1 DEF Joins
    <3> QED BY <3>3, <3>4
  <2> QED BY <2>2, <2>7, <2>8 DEF Fine
<1> QED BY <1>1, <1>2

LEMMA FlattenIs ==
  ASSUME NEW S, NEW q \in Seq(Seq(S)), q # <<>>
  PROVE  \E f \in [1..Len(q) -> Seq(S)] :
           Joins(f, q, Len(q)) /\ FlattenSeq(q) = f[Len(q)]
<1> DEFINE n == Len(q)
           Flat(f) == f = [i \in 1..n |-> IF i = 1 THEN q[i] ELSE f[i - 1] \o q[i]]
           flat == CHOOSE f : Flat(f)
<1>1. n \in Nat /\ n # 0 /\ \A i \in 1..n : q[i] \in Seq(S)
  BY EmptySeq
<1>2. PICK f \in [1..n -> Seq(S)] : Joins(f, q, n)
  BY JoinsExist
<1>3. Flat(f)
  <2>1. f = [i \in 1..n |-> f[i]]
    OBVIOUS
  <2> QED BY <1>2, <2>1 DEF Joins
<1>4. Flat(flat)
  BY <1>3
<1>5. FlattenSeq(q) = flat[n]
  BY <1>1 DEF FlattenSeq
<1>6. \A i \in 1..n : flat[i] = f[i]
  <2> HIDE DEF flat
  <2> DEFINE Bad == {i \in 1..n : flat[i] # f[i]}
  <2> SUFFICES ASSUME Bad # {} PROVE FALSE
    OBVIOUS
  <2> DEFINE m == Min(Bad)
  <2>1. Bad \in SUBSET Nat
    BY <1>1
  <2>2. m \in Bad /\ \A k \in Bad : m <= k
    <3> HIDE DEF Bad
    <3> QED BY <2>1, LeastNatural
  <2> HIDE DEF m
  <2>3. m \in 1..n /\ flat[m] # f[m]
    BY <2>2
  <2>4. m # 1 => m - 1 \in 1..n /\ flat[m - 1] = f[m - 1]
    BY <1>1, <2>2, <2>3
  <2>5. flat[m] = IF m = 1 THEN q[m] ELSE flat[m - 1] \o q[m]
    <3> HIDE DEF flat
    <3> QED BY <1>4, <2>3
  <2>6. f[m] = IF m = 1 THEN q[m] ELSE f[m - 1] \o q[m]
    BY <1>2, <2>3 DEF Joins
  <2> HIDE DEF flat
  <2> QED BY <2>3, <2>4, <2>5, <2>6
<1>7. FlattenSeq(q) = f[n]
  <2> HIDE DEF flat
  <2> QED BY <1>1, <1>5, <1>6
<1> QED BY <1>2, <1>7

\* No element is in a list twice, or in two lists.
Apart(q) ==
  /\ \A i \in 1..Len(q) : NoTwice(q[i])
  /\ \A i, j \in 1..Len(q) : i # j => ToSet(q[i]) \cap ToSet(q[j]) = {}

Elements(q) == UNION {ToSet(q[i]) : i \in 1..Len(q)}

\* Flattening loses nothing, and repeats nothing.
LEMMA Flattened ==
  ASSUME NEW S, NEW q \in Seq(Seq(S))
  PROVE  /\ FlattenSeq(q) \in Seq(S)
         /\ ToSet(FlattenSeq(q)) = Elements(q)
         /\ Apart(q) => NoTwice(FlattenSeq(q))
<1> DEFINE n == Len(q)
<1>1. n \in Nat /\ \A i \in 1..n : q[i] \in Seq(S)
  OBVIOUS
<1>2. CASE q = <<>>
  <2>1. FlattenSeq(q) = <<>> /\ n = 0 /\ <<>> \in Seq(S)
    BY <1>2 DEF FlattenSeq
  <2>2. ToSet(<<>>) = {} /\ NoTwice(<<>>)
    BY DEF ToSet, NoTwice
  <2>3. Elements(q) = {}
    BY <2>1 DEF Elements
  <2> QED BY <2>1, <2>2, <2>3
<1>3. CASE q # <<>>
  <2>1. PICK f \in [1..n -> Seq(S)] : Joins(f, q, n) /\ FlattenSeq(q) = f[n]
    BY <1>3, FlattenIs
  <2>2. n # 0
    BY <1>1, <1>3, EmptySeq
  <2> DEFINE first(m) == UNION {ToSet(q[i]) : i \in 1..m}
             Fine(m) == ToSet(f[m]) = first(m) /\ (Apart(q) => NoTwice(f[m]))
             Bad == {m \in 1..n : ~Fine(m)}
  <2>3. Bad = {}
    <3> SUFFICES ASSUME Bad # {} PROVE FALSE
      OBVIOUS
    <3> DEFINE m == Min(Bad)
    <3>1. Bad \in SUBSET Nat
      BY <1>1
    <3>2. m \in Bad /\ \A k \in Bad : m <= k
      <4> HIDE DEF Bad
      <4> QED BY <3>1, LeastNatural
    <3> HIDE DEF m, Fine, n
    <3>3. m \in 1..n /\ ~Fine(m) /\ m \in Nat /\ \A k \in 1..n : k < m => Fine(k)
      BY <1>1, <3>2
    <3>4. CASE m = 1
      <4>1. f[m] = q[m]
        BY <2>1, <3>3, <3>4 DEF Joins
      <4>2. first(m) = ToSet(q[m])
        <5>1. 1..m = {m}
          BY <3>4
        <5> QED BY <5>1
      <4>3. Apart(q) => NoTwice(q[m])
        BY <3>3 DEF Apart, n
      <4> HIDE DEF first
      <4> QED BY <3>3, <4>1, <4>2, <4>3 DEF Fine
    <3>5. CASE m # 1
      <4>1. m - 1 \in 1..n /\ m - 1 < m
        BY <1>1, <3>3, <3>5
      <4>2. f[m] = f[m - 1] \o q[m] /\ f[m - 1] \in Seq(S) /\ q[m] \in Seq(S)
        BY <1>1, <2>1, <3>3, <3>5, <4>1 DEF Joins
      <4>3. Fine(m - 1)
        BY <3>3, <4>1
      <4>4. first(m) = first(m - 1) \cup ToSet(q[m])
        <5>1. 1..m = (1..(m - 1)) \cup {m}
          BY <3>3
        <5> QED BY <5>1
      <4>5. Apart(q) => first(m - 1) \cap ToSet(q[m]) = {}
        <5>1. \A i \in 1..(m - 1) : i \in 1..n /\ i # m
          BY <1>1, <3>3
        <5> QED BY <3>3, <5>1 DEF Apart, n
      <4>6. Apart(q) => NoTwice(q[m])
        BY <3>3 DEF Apart, n
      <4> HIDE DEF first
      <4>7. /\ ToSet(f[m]) = ToSet(f[m - 1]) \cup ToSet(q[m])
            /\ NoTwice(f[m - 1]) /\ NoTwice(q[m])
                 /\ ToSet(f[m - 1]) \cap ToSet(q[m]) = {} => NoTwice(f[m])
        BY <4>2, Concatenation
      <4> QED BY <3>3, <4>3, <4>4, <4>5, <4>6, <4>7 DEF Fine
    <3> QED BY <3>4, <3>5
  <2>4. n \in 1..n
    BY <1>1, <2>2
  <2>5. Fine(n)
    <3> HIDE DEF Fine
    <3> QED BY <2>3, <2>4
  <2>6. first(n) = Elements(q)
    BY DEF Elements
  <2> HIDE DEF first
  <2> QED BY <2>1, <2>4, <2>5, <2>6
<1> QED BY <1>2, <1>3

\* A list without repetition is as long as what it lists.
LEMMA OnceLength ==
  ASSUME NEW S, NEW s \in Seq(S), NoTwice(s)
  PROVE  IsFiniteSet(ToSet(s)) /\ Len(s) = Cardinality(ToSet(s))
<1>1. /\ Len(s) \in Nat /\ DOMAIN s = 1..Len(s)
      /\ ToSet(s) = {s[i] : i \in 1..Len(s)}
  BY ToSetIs
<1>2. s \in [1..Len(s) -> ToSet(s)]
  BY <1>1
<1>3. s \in Bijection(1..Len(s), ToSet(s))
  BY <1>1, <1>2 DEF Bijection, Injection, Surjection, IsInjective, NoTwice
<1>4. ExistsBijection(1..Len(s), ToSet(s))
  BY <1>3 DEF ExistsBijection
<1>5. Cardinality(ToSet(s)) = Len(s) /\ IsFiniteSet(ToSet(s))
  BY <1>1, <1>4, FS_CountingElements, FS_NatBijection
<1> QED BY <1>5

-----------------------------------------------------------------------------
(* Sorting.                                                                *)

\* R is a strict and total order on S.
Orders(R, S) ==
  /\ \A x \in S : <<x, x>> \notin R
  /\ \A x, y \in S : x = y \/ <<x, y>> \in R \/ <<y, x>> \in R
  /\ \A x, y, z \in S : <<x, y>> \in R /\ <<y, z>> \in R => <<x, z>> \in R

\* Every element once, in ascending order.
Sorts(s, S, R) ==
  /\ s \in Seq(S)
  /\ Len(s) = Cardinality(S)
  /\ \A x \in S : \E i \in 1..Len(s) : s[i] = x
  /\ \A i, j \in 1..Len(s) : i < j => <<s[i], s[j]>> \in R

\* SortedSet, with the order as a relation.
Ranked(S, R) ==
  [i \in 1..Cardinality(S) |->
     CHOOSE x \in S : Cardinality({y \in S : <<y, x>> \in R}) = i - 1]

\* The numbers of the elements before the elements of a set are all numbers
\* below its size, so that every position is taken once.
LEMMA RanksSort ==
  ASSUME NEW S, IsFiniteSet(S), NEW R, Orders(R, S)
  PROVE  Sorts(Ranked(S, R), S, R)
<1> DEFINE n == Cardinality(S)
           before(x) == {y \in S : <<y, x>> \in R}
           rank == [x \in S |-> Cardinality(before(x)) + 1]
           at(i) == CHOOSE x \in S : Cardinality(before(x)) = i - 1
           s == [i \in 1..n |-> at(i)]
<1>1. n \in Nat
  BY FS_CardinalityType
<1>2. \A x \in S : IsFiniteSet(before(x)) /\ Cardinality(before(x)) \in Nat
  <2> SUFFICES ASSUME NEW x \in S
               PROVE  IsFiniteSet(before(x)) /\ Cardinality(before(x)) \in Nat
    OBVIOUS
  <2>1. before(x) \in SUBSET S
    OBVIOUS
  <2> HIDE DEF before
  <2> QED BY <2>1, FS_Subset, FS_CardinalityType
<1>3. \A x \in S : rank[x] \in 1..n
  <2> SUFFICES ASSUME NEW x \in S PROVE rank[x] \in 1..n
    OBVIOUS
  <2>1. before(x) \in SUBSET S /\ x \in S \ before(x)
    BY DEF Orders
  <2>2. rank[x] = Cardinality(before(x)) + 1
    OBVIOUS
  <2> HIDE DEF before, rank
  <2>3. Cardinality(before(x)) <= n /\ Cardinality(before(x)) # n
    BY <2>1, FS_Subset
  <2> QED BY <1>1, <1>2, <2>2, <2>3
<1>4. ASSUME NEW x \in S, NEW y \in S, <<x, y>> \in R
      PROVE  rank[x] < rank[y]
  <2>1. before(x) \in SUBSET before(y) /\ x \in before(y) /\ x \notin before(x)
    BY <1>4 DEF Orders
  <2>2. /\ rank[x] = Cardinality(before(x)) + 1
        /\ rank[y] = Cardinality(before(y)) + 1
    OBVIOUS
  <2> HIDE DEF before, rank
  <2>3. /\ Cardinality(before(x)) <= Cardinality(before(y))
        /\ Cardinality(before(x)) # Cardinality(before(y))
    BY <1>2, <2>1, FS_Subset
  <2> QED BY <1>2, <2>2, <2>3
<1>5. rank \in Injection(S, 1..n)
  <2>1. rank \in [S -> 1..n]
    BY <1>3
  <2>2. ASSUME NEW x \in S, NEW y \in S, x # y PROVE rank[x] # rank[y]
    <3>1. <<x, y>> \in R \/ <<y, x>> \in R
      BY <2>2 DEF Orders
    <3>2. rank[x] \in Nat /\ rank[y] \in Nat
      BY <1>1, <1>3
    <3> HIDE DEF rank
    <3> QED BY <1>4, <3>1, <3>2
  <2> HIDE DEF rank
  <2> QED BY <2>1, <2>2 DEF Injection, IsInjective
<1>6. rank \in Surjection(S, 1..n)
  <2>1. IsFiniteSet(1..n) /\ Cardinality(1..n) = n
    BY <1>1, FS_Interval
  <2> HIDE DEF rank
  <2> QED BY <1>5, <2>1, FS_Injection
<1>7. \A i \in 1..n : \E x \in S : rank[x] = i
  <2> HIDE DEF rank
  <2> QED BY <1>6 DEF Surjection
<1>8. \A i \in 1..n : s[i] \in S /\ rank[s[i]] = i
  <2> SUFFICES ASSUME NEW i \in 1..n PROVE s[i] \in S /\ rank[s[i]] = i
    OBVIOUS
  <2>1. PICK x \in S : rank[x] = i
    BY <1>7
  <2>2. Cardinality(before(x)) = i - 1
    <3>1. rank[x] = Cardinality(before(x)) + 1
      OBVIOUS
    <3> HIDE DEF rank, before
    <3> QED BY <1>1, <1>2, <2>1, <3>1
  <2>3. s[i] \in S /\ Cardinality(before(s[i])) = i - 1
    BY <2>2
  <2> HIDE DEF s, before
  <2> QED BY <1>1, <2>3
<1>9. /\ s \in Seq(S) /\ Len(s) = n /\ DOMAIN s = 1..n
  <2>1. DOMAIN s = 1..n
    OBVIOUS
  <2>2. \A i \in 1..n : at(i) \in S
    BY <1>8
  <2> HIDE DEF at, n
  <2>3. s \in [1..n -> S]
    BY <2>2
  <2> HIDE DEF s
  <2> QED BY <1>1, <2>1, <2>3
<1>10. \A x \in S : s[rank[x]] = x
  <2> SUFFICES ASSUME NEW x \in S PROVE s[rank[x]] = x
    OBVIOUS
  <2>1. rank[x] \in 1..n
    BY <1>3
  <2>2. s[rank[x]] \in S /\ rank[s[rank[x]]] = rank[x]
    BY <1>8, <2>1
  <2> HIDE DEF s, rank
  <2> QED BY <1>5, <2>2 DEF Injection, IsInjective
<1>11. ASSUME NEW i \in 1..n, NEW j \in 1..n, i < j
       PROVE  <<s[i], s[j]>> \in R
  <2>1. s[i] \in S /\ s[j] \in S /\ rank[s[i]] = i /\ rank[s[j]] = j
    BY <1>8
  <2> HIDE DEF s, rank
  <2>2. s[i] # s[j] /\ ~(<<s[j], s[i]>> \in R)
    BY <1>1, <1>4, <1>11, <2>1
  <2> QED BY <2>1, <2>2 DEF Orders
<1>12. Sorts(s, S, R)
  <2> HIDE DEF s, rank
  <2> QED BY <1>3, <1>9, <1>10, <1>11 DEF Sorts
<1> QED BY <1>12 DEF Ranked

\* What was sorted is in the list once.
LEMMA SortedOnce ==
  ASSUME NEW S, NEW R, Orders(R, S), NEW s, Sorts(s, S, R)
  PROVE  /\ s \in Seq(S) /\ Len(s) \in Nat /\ DOMAIN s = 1..Len(s)
         /\ ToSet(s) = S
         /\ NoTwice(s)
<1>1. s \in Seq(S) /\ Len(s) \in Nat /\ DOMAIN s = 1..Len(s)
  BY DEF Sorts
<1>2. \A i \in 1..Len(s) : s[i] \in S
  BY <1>1
<1>3. ToSet(s) = S
  BY <1>1, <1>2 DEF Sorts, ToSet
<1>4. NoTwice(s)
  <2> SUFFICES ASSUME NEW i \in 1..Len(s), NEW j \in 1..Len(s), s[i] = s[j], i # j
               PROVE  FALSE
    BY DEF NoTwice
  <2>1. i < j \/ j < i
    BY <1>1
  <2> QED BY <1>2, <2>1 DEF Sorts, Orders
<1> QED BY <1>1, <1>3, <1>4

\* What comes before everything else stands in the first places.
LEMMA InitialSegment ==
  ASSUME NEW S, NEW R, Orders(R, S), NEW s, Sorts(s, S, R),
         NEW T \in SUBSET S, \A x \in T, y \in S : <<y, x>> \in R => y \in T
  PROVE  /\ Cardinality(T) \in 0..Len(s)
         /\ \A p \in 1..Len(s) : s[p] \in T <=> p <= Cardinality(T)
<1> DEFINE P == {p \in 1..Len(s) : s[p] \in T}
           m == IF P = {} THEN 0 ELSE Max(P)
           t == [p \in 1..m |-> s[p]]
<1>1. /\ s \in Seq(S) /\ Len(s) \in Nat /\ DOMAIN s = 1..Len(s)
      /\ ToSet(s) = S /\ NoTwice(s)
  BY SortedOnce
<1>2. P \in SUBSET Nat /\ IsFiniteSet(P) /\ P \in SUBSET (1..Len(s))
  <2>1. IsFiniteSet(1..Len(s)) /\ P \in SUBSET (1..Len(s))
    BY <1>1, FS_Interval
  <2>2. 1..Len(s) \subseteq Nat
    OBVIOUS
  <2> HIDE DEF P
  <2> QED BY <2>1, <2>2, FS_Subset
<1>3. m \in 0..Len(s) /\ \A p \in P : p <= m
  <2> HIDE DEF P
  <2>1. CASE P = {}
    BY <1>1, <2>1
  <2>2. CASE P # {}
    <3>1. Max(P) \in P /\ \A p \in P : p <= Max(P)
      BY <1>2, <2>2, GreatestNatural
    <3>2. m = Max(P)
      BY <2>2
    <3>3. Max(P) \in 1..Len(s)
      BY <1>2, <3>1
    <3> HIDE DEF m
    <3> QED BY <1>1, <3>1, <3>2, <3>3
  <2> QED BY <2>1, <2>2
<1>4. \A p \in 1..m : s[p] \in T
  <2> SUFFICES ASSUME NEW p \in 1..m PROVE s[p] \in T
    OBVIOUS
  <2>1. P # {} /\ m = Max(P)
    <3> HIDE DEF P
    <3> QED OBVIOUS
  <2>2. m \in P
    <3> HIDE DEF P, m
    <3> QED BY <1>2, <2>1, GreatestNatural
  <2>3. m \in 1..Len(s) /\ s[m] \in T
    BY <2>2
  <2> HIDE DEF P, m
  <2>4. p \in 1..Len(s) /\ (p = m \/ p < m)
    BY <1>1, <2>3
  <2>5. p < m => <<s[p], s[m]>> \in R
    BY <2>3, <2>4 DEF Sorts
  <2>6. s[p] \in S
    BY <1>1, <2>4
  <2> QED BY <2>3, <2>4, <2>5, <2>6
<1>5. \A p \in 1..Len(s) : s[p] \in T <=> p <= m
  <2> SUFFICES ASSUME NEW p \in 1..Len(s) PROVE s[p] \in T <=> p <= m
    OBVIOUS
  <2>1. s[p] \in T => p \in P
    OBVIOUS
  <2>2. p <= m => p \in 1..m
    <3> HIDE DEF m
    <3> QED BY <1>1, <1>3
  <2> HIDE DEF P, m
  <2> QED BY <1>3, <1>4, <2>1, <2>2
<1> HIDE DEF P, m
<1>6. t \in Seq(S) /\ Len(t) = m /\ \A p \in 1..m : t[p] = s[p]
  <2>1. m \in Nat /\ \A p \in 1..m : s[p] \in S
    BY <1>1, <1>3
  <2> QED BY <2>1
<1>7. NoTwice(t)
  <2>1. \A p \in 1..m : p \in 1..Len(s)
    BY <1>1, <1>3
  <2> HIDE DEF t
  <2> QED BY <1>1, <1>6, <2>1 DEF NoTwice
<1>8. ToSet(t) = T
  <2>1. ToSet(t) = {t[p] : p \in 1..m}
    <3> HIDE DEF t
    <3> QED BY <1>6, ToSetIs
  <2>2. ASSUME NEW x \in T PROVE \E p \in 1..m : t[p] = x
    <3>1. PICK p \in 1..Len(s) : s[p] = x
      BY DEF Sorts
    <3>2. p \in 1..m
      BY <1>1, <1>3, <1>5, <3>1
    <3> HIDE DEF t
    <3> QED BY <1>6, <3>1, <3>2
  <2> HIDE DEF t
  <2> QED BY <1>4, <1>6, <2>1, <2>2
<1>9. Cardinality(T) = m
  <2> HIDE DEF t
  <2> QED BY <1>6, <1>7, <1>8, OnceLength
<1> QED BY <1>3, <1>5, <1>9

\* The image of a finite set.
LEMMA ImageFinite ==
  ASSUME NEW S, IsFiniteSet(S), NEW f
  PROVE  IsFiniteSet({f[x] : x \in S})
<1> DEFINE T == {f[x] : x \in S}
           g == [x \in S |-> f[x]]
<1>1. g \in Surjection(S, T)
  <2>1. g \in [S -> T] /\ \A t \in T : \E x \in S : g[x] = t
    OBVIOUS
  <2> HIDE DEF g, T
  <2> QED BY <2>1 DEF Surjection
<1> HIDE DEF g, T
<1>2. IsFiniteSet(T)
  BY <1>1, FS_Surjection
<1> QED BY <1>2 DEF T

=============================================================================
