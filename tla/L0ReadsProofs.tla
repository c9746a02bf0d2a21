--------------------------- MODULE L0ReadsProofs ----------------------------
(***************************************************************************)
(* Proofs about MetadataCache and about the L0 loop over it, for every     *)
(* number of segments, readers and cache entries: the cache keeps its      *)
(* bound, no query is misled by the bloom filter or by an entry of the     *)
(* cache, the loop with its counters uses the cache as MetadataCache       *)
(* describes, what is looked up for a key is what its compaction takes,    *)
(* the counters of a partition agree, no latency extreme is lost, the      *)
(* totals account for every probe, and count, sum and percentiles are      *)
(* those of the durations that were recorded.                              *)
(***************************************************************************)
EXTENDS L0Reads, EdgeRecordsProofs, SequenceTheorems

\* The bound alone is not inductive: an eviction could run out of queue.
CacheInv == TypeOK /\ Queued /\ CacheBounded

-----------------------------------------------------------------------------
(* The eviction loop.                                                      *)

\* Adding one element to a set with room left keeps the bound.
LEMMA AddOne ==
  ASSUME NEW S, IsFiniteSet(S), NEW x, Cardinality(S) < max_entries
  PROVE  Cardinality(S \cup {x}) <= max_entries
<1>1. Cardinality(S) \in Nat
  BY FS_CardinalityType
<1>2. Cardinality(S \cup {x}) = Cardinality(S)
        \/ Cardinality(S \cup {x}) = Cardinality(S) + 1
  BY FS_AddElement
<1> QED BY <1>1, <1>2, CacheAssumption

\* The eviction loop of insert ends with room for one more segment, before
\* the queue does.
LEMMA PoppedMakesRoom ==
  ASSUME TypeOK, Queued, NEW f \in Files \ DOMAIN map
  PROVE  /\ Popped(f) \in 0..Len(lru)
         /\ Cardinality(DOMAIN map \ Victims(f, Popped(f))) < max_entries
<1> DEFINE room == {n \in 0..Len(lru) : Enough(f, n)}
<1>1. Len(lru) \in Nat /\ DOMAIN lru = 1..Len(lru)
  BY DEF TypeOK
<1>2. DOMAIN map \ Victims(f, Len(lru)) = {}
  BY <1>1 DEF Queued, Victims
<1>3. Enough(f, Len(lru))
  <2>1. Cardinality(DOMAIN map \ Victims(f, Len(lru))) = 0
    BY <1>2, FS_EmptySet
  <2> QED BY <2>1, CacheAssumption DEF Enough
<1>4. Len(lru) \in room /\ room \in SUBSET Nat
  BY <1>1, <1>3
<1>5. Min(room) \in room
  BY <1>4, LeastNatural
<1>6. Popped(f) = Min(room)
  BY <1>4 DEF Popped
<1> QED BY <1>5, <1>6 DEF Enough

-----------------------------------------------------------------------------
(* The cache operations.                                                   *)

\* A hit only lengthens the queue.
LEMMA GetKeeps ==
  ASSUME TypeOK, Queued, NEW f \in Files, CacheGet(f)
  PROVE  /\ map' = map
         /\ lru' \in Seq(Files)
         /\ Queued'
<1>1. lru' \in Seq(Files) /\ map' = map
  BY DEF CacheGet, TypeOK
<1>2. ASSUME NEW g \in DOMAIN map PROVE \E i \in DOMAIN lru' : lru'[i] = g
  <2>1. PICK i \in DOMAIN lru : lru[i] = g
    BY <1>2 DEF Queued
  <2>2. i \in DOMAIN lru' /\ lru'[i] = lru[i]
    BY <2>1 DEF CacheGet, TypeOK
  <2> QED BY <2>1, <2>2
<1> QED BY <1>1, <1>2 DEF Queued

\* What is left of a queue after its first n entries.
LEMMA QueueSuffix ==
  ASSUME NEW S, NEW q \in Seq(S), NEW n \in 0..Len(q)
  PROVE  /\ SubSeq(q, n + 1, Len(q)) \in Seq(S)
         /\ Len(SubSeq(q, n + 1, Len(q))) = Len(q) - n
         /\ \A i \in 1..(Len(q) - n) : SubSeq(q, n + 1, Len(q))[i] = q[n + i]
<1> DEFINE m == n + 1
<1> DEFINE k == Len(q)
<1> DEFINE rest == SubSeq(q, m, k)
<1>1. m \in Int /\ k \in Int /\ m = n + 1 /\ n <= k /\ n \in Int
  OBVIOUS
<1>2. \A i \in m..k : q[i] \in S
  OBVIOUS
<1>3. k - m + 1 = k - n /\ \A i \in Int : m + i - 1 = n + i
  BY <1>1
<1> HIDE DEF m, k
<1>4. /\ rest \in Seq(S)
      /\ Len(rest) = IF m <= k THEN k - m + 1 ELSE 0
      /\ \A i \in 1..(k - m + 1) : rest[i] = q[m + i - 1]
  BY <1>1, <1>2, SubSeqProperties
<1> HIDE DEF rest
<1>5. Len(rest) = k - n /\ \A i \in 1..(k - n) : rest[i] = q[n + i]
  BY <1>1, <1>3, <1>4
<1> QED BY <1>4, <1>5 DEF rest, m, k

\* An insert keeps the bound, the queue and what the other entries hold.
LEMMA InsertKeeps ==
  ASSUME CacheInv, NEW f \in Files, CacheInsert(f, Metadata(offsets[f]))
  PROVE  /\ lru' \in Seq(Files)
         /\ DOMAIN map' \subseteq Files
         /\ \A g \in DOMAIN map' : map'[g] = Metadata(offsets[g])
         /\ Queued'
         /\ CacheBounded'
<1> USE DEF CacheInv
<1>1. CASE /\ f \in DOMAIN map
           /\ map' = Put(DOMAIN map, f, Metadata(offsets[f]))
           /\ lru' = Append(lru, f)
  <2>1. DOMAIN map' = DOMAIN map
    BY <1>1 DEF Put
  <2>2. lru' \in Seq(Files)
    BY <1>1 DEF TypeOK
  <2>3. \A g \in DOMAIN map' : map'[g] = Metadata(offsets[g])
    BY <1>1 DEF Put, TypeOK
  <2>4. ASSUME NEW g \in DOMAIN map PROVE \E i \in DOMAIN lru' : lru'[i] = g
    <3>1. PICK i \in DOMAIN lru : lru[i] = g
      BY <2>4 DEF Queued
    <3>2. i \in DOMAIN lru' /\ lru'[i] = lru[i]
      BY <1>1, <3>1 DEF TypeOK
    <3> QED BY <3>1, <3>2
  <2> QED BY <2>1, <2>2, <2>3, <2>4 DEF Queued, CacheBounded, TypeOK
<1>2. CASE /\ f \notin DOMAIN map
           /\ map' = Put(DOMAIN map \ Victims(f, Popped(f)), f,
                         Metadata(offsets[f]))
           /\ lru' = Append(SubSeq(lru, Popped(f) + 1, Len(lru)), f)
  <2> DEFINE p == Popped(f)
  <2> DEFINE kept == DOMAIN map \ Victims(f, p)
  <2>1. p \in 0..Len(lru) /\ Cardinality(kept) < max_entries
    BY <1>2, PoppedMakesRoom
  <2>2. lru \in Seq(Files) /\ Len(lru) \in Nat /\ DOMAIN lru = 1..Len(lru)
    BY DEF TypeOK
  <2>3. DOMAIN map' = kept \cup {f}
    BY <1>2 DEF Put
  <2>4. IsFiniteSet(kept)
    <3>1. kept \in SUBSET Files
      BY DEF TypeOK
    <3> QED BY <3>1, FS_Subset, CacheAssumption
  <2>5. CacheBounded'
    BY <2>1, <2>3, <2>4, AddOne DEF CacheBounded
  <2>6. \A g \in DOMAIN map' : map'[g] = Metadata(offsets[g])
    BY <1>2, <2>3 DEF Put, TypeOK
  <2> DEFINE rest == SubSeq(lru, p + 1, Len(lru))
  <2> HIDE DEF p
  <2>7. /\ rest \in Seq(Files)
        /\ Len(rest) = Len(lru) - p
        /\ \A i \in 1..(Len(lru) - p) : rest[i] = lru[p + i]
    BY <2>1, <2>2, QueueSuffix
  <2> HIDE DEF rest
  <2>8. lru' = Append(rest, f)
    BY <1>2 DEF p, rest
  <2>9. lru' \in Seq(Files)
    BY <2>7, <2>8
  <2>10. ASSUME NEW g \in kept PROVE \E i \in DOMAIN lru' : lru'[i] = g
    <3>1. PICK i \in 1..Len(lru) : lru[i] = g
      BY <2>2, <2>10 DEF Queued
    <3>2. g # f
      BY <1>2, <2>10
    <3>3. i > p
      BY <2>1, <2>10, <3>1, <3>2 DEF Victims
    <3>4. i - p \in 1..Len(rest) /\ rest[i - p] = g
      BY <2>1, <2>2, <2>7, <3>1, <3>3
    <3> QED BY <2>7, <2>8, <3>4
  <2>11. \E i \in DOMAIN lru' : lru'[i] = f
    <3>1. Len(rest) + 1 \in DOMAIN lru' /\ lru'[Len(rest) + 1] = f
      BY <2>1, <2>2, <2>7, <2>8
    <3> QED BY <3>1
  <2>12. Queued'
    BY <2>3, <2>10, <2>11 DEF Queued
  <2> QED BY <2>3, <2>5, <2>6, <2>9, <2>12 DEF TypeOK
<1> QED BY <1>1, <1>2 DEF CacheInsert

-----------------------------------------------------------------------------
(* The filter and the readers.                                             *)

\* The filter of a segment has no false negatives.
LEMMA FilterSound ==
  ASSUME NEW f \in Files, NEW s \in offsets[f]
  PROVE  may_contain(Metadata(offsets[f]), s)
  BY DEF may_contain, Metadata

LEMMA InitCache == Init => CacheInv /\ AnswerExact
<1> SUFFICES ASSUME Init PROVE CacheInv /\ AnswerExact
  OBVIOUS
<1>1. DOMAIN map = {}
  BY DEF Init
<1>2. TypeOK
  BY <1>1 DEF Init, TypeOK, ReaderState
<1>3. CacheBounded
  <2>1. Cardinality(DOMAIN map) = 0
    BY <1>1, FS_EmptySet
  <2> QED BY <2>1, CacheAssumption DEF CacheBounded
<1> QED BY <1>1, <1>2, <1>3 DEF Init, CacheInv, Queued, AnswerExact

\* What a step of a query leaves behind: its own new state is well-typed and
\* exact, and the others keep theirs.
LEMMA ReaderMoves ==
  ASSUME TypeOK, AnswerExact, NEW r \in Readers, NEW s \in ReaderState,
         s.pc = "answered" => (s.found <=> s.src \in offsets[s.file]),
         reader' = [reader EXCEPT ![r] = s]
  PROVE  reader' \in [Readers -> ReaderState] /\ AnswerExact'
<1>1. reader' \in [Readers -> ReaderState]
  BY DEF TypeOK
<1>2. ASSUME NEW q \in Readers, reader'[q].pc = "answered"
      PROVE  reader'[q].found <=> reader'[q].src \in offsets[reader'[q].file]
  BY <1>2 DEF TypeOK, AnswerExact
<1> QED BY <1>1, <1>2 DEF AnswerExact

LEMMA CacheStep ==
  CacheInv /\ AnswerExact /\ [Next]_vars => CacheInv' /\ AnswerExact'
<1> SUFFICES ASSUME CacheInv, AnswerExact, [Next]_vars
             PROVE  CacheInv' /\ AnswerExact'
  OBVIOUS
<1> USE DEF CacheInv
<1>1. CASE UNCHANGED vars
  BY <1>1 DEF vars, TypeOK, Queued, CacheBounded, AnswerExact
<1>2. ASSUME NEW r \in Readers, ReaderStep(r)
      PROVE  CacheInv' /\ AnswerExact'
  <2> DEFINE f == reader[r].file
  <2> DEFINE src == reader[r].src
  <2>0. /\ reader[r] \in ReaderState
        /\ reader[r].pc \in {"probe", "lookup", "read"}
             => f \in Files /\ src \in Sources
    BY DEF TypeOK, ReaderState
  <2>1. CASE Visit(r)
    <3>1. PICK g \in Files, s \in Sources :
            reader' = [reader EXCEPT ![r] =
                         [pc |-> "probe", file |-> g, src |-> s]]
      BY <2>1 DEF Visit
    <3>2. [pc |-> "probe", file |-> g, src |-> s] \in ReaderState
      BY DEF ReaderState
    <3>3. reader' \in [Readers -> ReaderState] /\ AnswerExact'
      BY <3>1, <3>2, ReaderMoves
    <3> QED BY <2>1, <3>3 DEF Visit, TypeOK, Queued, CacheBounded
  <2>2. ASSUME NEW pc \in {"lookup", "read"}, Goto(r, pc),
               f \in Files, src \in Sources
        PROVE  reader' \in [Readers -> ReaderState] /\ AnswerExact'
    <3>1. [pc |-> pc, file |-> f, src |-> src] \in ReaderState
      BY <2>2 DEF ReaderState
    <3> QED BY <2>2, <3>1, ReaderMoves DEF Goto
  <2>3. ASSUME NEW found \in BOOLEAN, Answer(r, found),
               f \in Files, src \in Sources, found <=> src \in offsets[f]
        PROVE  reader' \in [Readers -> ReaderState] /\ AnswerExact'
    <3> DEFINE s == [pc |-> "answered", file |-> f, src |-> src,
                     found |-> found]
    <3>1. s \in ReaderState
      BY <2>3 DEF ReaderState
    <3>2. s.found <=> s.src \in offsets[s.file]
      BY <2>3
    <3> QED BY <2>3, <3>1, <3>2, ReaderMoves DEF Answer
  <2>4. CASE ProbeHit(r)
    <3>1. f \in Files /\ src \in Sources /\ f \in DOMAIN map /\ CacheGet(f)
      BY <2>0, <2>4 DEF ProbeHit, CacheGet
    <3>2. map' = map /\ lru' \in Seq(Files) /\ Queued'
      BY <3>1, GetKeeps
    <3>3. reader' \in [Readers -> ReaderState] /\ AnswerExact'
      <4>1. CASE may_contain(map[f], src)
        BY <2>2, <2>4, <3>1, <4>1 DEF ProbeHit
      <4>2. CASE ~may_contain(map[f], src)
        <5>1. src \notin offsets[f]
          BY <3>1, <4>2, FilterSound DEF TypeOK
        <5>2. Answer(r, FALSE)
          BY <2>4, <4>2 DEF ProbeHit
        <5> QED BY <2>3, <3>1, <5>1, <5>2
      <4> QED BY <4>1, <4>2
    <3> QED BY <3>2, <3>3 DEF TypeOK, CacheBounded
  <2>5. CASE ProbeMiss(r)
    BY <2>0, <2>2, <2>5 DEF ProbeMiss, TypeOK, Queued, CacheBounded
  <2>6. CASE LookupHit(r)
    <3>1. f \in Files /\ src \in Sources /\ f \in DOMAIN map /\ CacheGet(f)
      BY <2>0, <2>6 DEF LookupHit, CacheGet
    <3>2. map' = map /\ lru' \in Seq(Files) /\ Queued'
      BY <3>1, GetKeeps
    <3>3. map[f].sources = offsets[f]
      BY <3>1 DEF TypeOK, Metadata
    <3>4. Answer(r, src \in offsets[f])
      BY <2>6, <3>3 DEF LookupHit
    <3>5. reader' \in [Readers -> ReaderState] /\ AnswerExact'
      <4> DEFINE found == src \in offsets[f]
      <4>1. found \in BOOLEAN /\ (found <=> src \in offsets[f])
        OBVIOUS
      <4>2. Answer(r, found)
        BY <3>4
      <4> HIDE DEF found
      <4> QED BY <2>3, <3>1, <4>1, <4>2
    <3> QED BY <3>2, <3>5 DEF TypeOK, CacheBounded
  <2>7. CASE LookupMiss(r)
    BY <2>0, <2>2, <2>7 DEF LookupMiss, TypeOK, Queued, CacheBounded
  <2>8. CASE ReadInsert(r)
    <3>1. f \in Files /\ src \in Sources
      BY <2>0, <2>8 DEF ReadInsert
    <3>2. /\ CacheInsert(f, Metadata(offsets[f]))
          /\ Answer(r, src \in offsets[f])
      BY <2>8 DEF ReadInsert
    <3>3. reader' \in [Readers -> ReaderState] /\ AnswerExact'
      <4> DEFINE found == src \in offsets[f]
      <4>1. found \in BOOLEAN /\ (found <=> src \in offsets[f])
        OBVIOUS
      <4>2. Answer(r, found)
        BY <3>2
      <4> HIDE DEF found
      <4> QED BY <2>3, <3>1, <4>1, <4>2
    <3> QED BY <3>1, <3>2, <3>3, InsertKeeps DEF TypeOK
  <2>9. CASE ReadFail(r)
    <3>1. [pc |-> "idle"] \in ReaderState
      BY DEF ReaderState
    <3>2. reader' \in [Readers -> ReaderState] /\ AnswerExact'
      BY <2>9, <3>1, ReaderMoves DEF ReadFail
    <3> QED BY <2>9, <3>2 DEF ReadFail, TypeOK, Queued, CacheBounded
  <2>10. CASE BodyFail(r)
    <3>1. [pc |-> "idle"] \in ReaderState
      BY DEF ReaderState
    <3>2. reader' \in [Readers -> ReaderState] /\ AnswerExact'
      BY <2>10, <3>1, ReaderMoves DEF BodyFail
    <3> QED BY <2>10, <3>2 DEF BodyFail, TypeOK, Queued, CacheBounded
  <2> QED BY <1>2, <2>1, <2>4, <2>5, <2>6, <2>7, <2>8, <2>9, <2>10
         DEF ReaderStep
<1> QED BY <1>1, <1>2 DEF Next

\* The inductive invariant of the cache: every cached segment is queued, so
\* the eviction loop always finds a victim and the bound is kept.
THEOREM CacheInvariant == Spec => [](CacheInv /\ AnswerExact)
  BY InitCache, CacheStep, PTL DEF Spec

\* The metadata cache never holds more than max_entries segments.
THEOREM CacheBoundCorrect == Spec => []CacheBounded
  BY CacheInvariant, PTL DEF CacheInv

\* A query that skips a segment because of its filter, takes the table from
\* the cache or reads it, learns exactly whether the source is in it.
THEOREM AnswersCorrect == Spec => []AnswerExact
  BY CacheInvariant, PTL

-----------------------------------------------------------------------------
(* The L0 loop over the cache.                                             *)

\* Every step of a query is a step of its reader, or leaves the cache alone.
LEMMA QueryStepImplementsReader == L0Next => [Next]_vars
<1> SUFFICES ASSUME L0Next PROVE [Next]_vars
  OBVIOUS
<1>1. PICK r \in Readers :
        \/ QueryStart(r) \/ Turn(r) \/ CachedProbe(r) \/ UncachedProbe(r)
        \/ LookupUncached(r) \/ LookupCached(r) \/ LookupRead(r) \/ BodyRead(r)
        \/ Fail(r) \/ QueryEnd(r) \/ RecordLatency(r)
  BY DEF L0Next
<1>2. CASE QueryStart(r) \/ BodyRead(r) \/ QueryEnd(r) \/ RecordLatency(r)
  BY <1>2 DEF QueryStart, BodyRead, QueryEnd, RecordLatency
<1>3. CASE Turn(r)
  BY <1>3 DEF Turn, Next, ReaderStep
<1>4. CASE CachedProbe(r)
  BY <1>4 DEF CachedProbe, Next, ReaderStep
<1>5. CASE UncachedProbe(r)
  BY <1>5 DEF UncachedProbe, Next, ReaderStep
<1>6. CASE LookupUncached(r) \/ LookupCached(r) \/ LookupRead(r)
  BY <1>6 DEF LookupUncached, LookupCached, LookupRead, Next, ReaderStep
<1>7. CASE Fail(r)
  BY <1>7 DEF Fail, Next, ReaderStep
<1> QED BY <1>1, <1>2, <1>3, <1>4, <1>5, <1>6, <1>7

\* The cache keeps its bound, and no query is misled about a segment, in
\* every execution of the L0 loop.
THEOREM L0ReadsCorrect == L0Spec => [](CacheBounded /\ AnswerExact)
<1>1. L0Init => Init
  BY DEF L0Init
<1>2. [L0Next]_readVars => [Next]_vars
  BY QueryStepImplementsReader DEF readVars
<1>3. L0Spec => Spec
  BY <1>1, <1>2, PTL DEF L0Spec, Spec
<1> QED BY <1>3, CacheInvariant, PTL DEF CacheInv

-----------------------------------------------------------------------------
(* What is picked.                                                         *)

IsOption(edge_type) == IsFiniteSet(edge_type) /\ Cardinality(edge_type) <= 1

QueryFields == {"pc", "src", "edge_type", "at", "touched", "probe"}

\* A segment that a query looks into may hold what is asked for, and its
\* range includes the source.
Sound(q) ==
  /\ q.pc \in {"idle", "turn", "segment", "body"}
  /\ q.pc # "idle" => /\ DOMAIN q = QueryFields
                      /\ q.src \in Nat
                      /\ IsOption(q.edge_type)
  /\ q.pc = "segment" =>
       /\ q.at \in DOMAIN l0
       /\ may_contain_partition(edges_of[l0[q.at]], q.src, q.edge_type)
       /\ InRange(l0[q.at], q.src)

\* What the queries rely on, and what was looked up for a key is what its
\* compaction takes.
ReadsInv ==
  /\ DOMAIN query = Readers
  /\ \A r \in Readers : Sound(query[r])
  /\ \A key \in DOMAIN looked_up : looked_up[key] \subseteq Selected(key)

\* The least and the greatest source of a segment are naturals, so that its
\* range can be compared with that of a key.
LEMMA RangeType ==
  ASSUME NEW f \in Files
  PROVE  min_src(edges_of[f]) \in Nat /\ max_src(edges_of[f]) \in Nat
<1> DEFINE S == {e.key.src : e \in edges_of[f]}
<1>1. S = offsets[f] /\ IsFiniteSet(S) /\ S \in SUBSET Nat
  BY L0ReadsAssumption, CacheAssumption
<1>2. CASE edges_of[f] = {}
  BY <1>2 DEF min_src, max_src
<1>3. CASE edges_of[f] # {}
  <2>1. S # {}
    BY <1>3
  <2>2. Min(S) \in S /\ Max(S) \in S
    <3> HIDE DEF S
    <3> QED BY <1>1, <2>1, LeastNatural, GreatestNatural
  <2> QED BY <1>1, <1>3, <2>2 DEF min_src, max_src
<1> QED BY <1>2, <1>3

\* A segment that may hold what is asked for, with the source in its range,
\* is one of those that the compaction of its key takes.
LEMMA KeySelects ==
  ASSUME NEW f \in ToSet(l0), NEW src \in Nat,
         NEW edge_type, IsOption(edge_type),
         may_contain_partition(edges_of[f], src, edge_type), InRange(f, src)
  PROVE  f \in Selected(l0_partition_key(src, edge_type, f))
<1> DEFINE key == l0_partition_key(src, edge_type, f)
           B == l0_ra_range_bucket_size
<1>1. f \in Files
  BY L0ReadsAssumption DEF ToSet
<1>2. B \in Nat \ {0}
  BY L0ReadsAssumption
<1>3. src % B \in 0..(B - 1)
  BY <1>2
<1>4. /\ src - (src % B) \in Int
      /\ src - (src % B) <= src
      /\ src <= src - (src % B) + B - 1
  BY <1>2, <1>3
<1>5. ranges_overlap(min_src(edges_of[f]), max_src(edges_of[f]),
                     key.range_start, key.range_start + B - 1)
  <2>1. key.range_start = src - (src % B)
    BY DEF l0_partition_key
  <2>2. min_src(edges_of[f]) <= src /\ src <= max_src(edges_of[f])
    BY DEF InRange
  <2> HIDE DEF key
  <2> QED BY <1>1, <1>2, <1>4, <2>1, <2>2, RangeType DEF ranges_overlap
<1>6. partition_overlaps_target(edges_of[f], key.src_label, {key.edge_type})
  <2> DEFINE label == source_label_from_vertex_id(src)
             type == CommonValue(edge_type, segment_edge_type(edges_of[f]))
  <2>1. /\ key.src_label = IF label = UNKNOWN_SOURCE_LABEL
                           THEN segment_src_label(edges_of[f]) ELSE label
        /\ key.edge_type = type
    BY DEF l0_partition_key
  <2>2. \/ edge_type = {} /\ type = segment_edge_type(edges_of[f])
        \/ edge_type = {type}
    <3>1. CASE edge_type = {}
      <4>1. Cardinality({}) = 0
        BY FS_EmptySet
      <4> QED BY <3>1, <4>1 DEF CommonValue
    <3>2. CASE edge_type # {}
      <4>1. PICK x \in edge_type : TRUE
        BY <3>2
      <4>2. Cardinality(edge_type) \in Nat /\ Cardinality(edge_type) # 0
        BY <3>2, FS_CardinalityType, FS_EmptySet DEF IsOption
      <4>3. Cardinality(edge_type) = 1
        BY <4>2 DEF IsOption
      <4>4. edge_type = {x}
        BY <4>1, <4>3, FS_Singleton DEF IsOption
      <4> QED BY <4>3, <4>4 DEF CommonValue
    <3> QED BY <3>1, <3>2
  <2>3. partition_overlaps_target(edges_of[f], label, edge_type)
    BY DEF may_contain_partition
  <2> HIDE DEF key, type, label
  <2> QED BY <2>1, <2>2, <2>3 DEF partition_overlaps_target, NoEdgeType
<1> QED BY <1>5, <1>6 DEF Selected, target_matches_meta

\* A change of one query's state to a sound one keeps the invariant, if what
\* is looked up stays among what is selected.
LEMMA QueryMoves ==
  ASSUME ReadsInv, NEW r \in Readers, NEW q, Sound(q),
         query' = [query EXCEPT ![r] = q],
         \A key \in DOMAIN looked_up' : looked_up'[key] \subseteq Selected(key)
  PROVE  ReadsInv'
<1>1. query'[r] = q /\ DOMAIN query' = Readers
        /\ \A o \in Readers \ {r} : query'[o] = query[o]
  BY DEF ReadsInv
<1>2. \A o \in Readers : Sound(query'[o])
  BY <1>1 DEF ReadsInv
<1>3. \A key : Selected(key)' = Selected(key)
  BY DEF Selected
<1> QED BY <1>1, <1>2, <1>3 DEF ReadsInv, Sound

\* The changes of a query's state that the actions are made of.
LEMMA SoundMoves ==
  ASSUME NEW q, Sound(q), q.pc # "idle"
  PROVE  /\ Sound([q EXCEPT !.pc = "turn", !.probe = {}])
         /\ Sound([q EXCEPT !.pc = "body"])
         /\ \A P : Sound([q EXCEPT !.probe = P])
<1>1. DOMAIN q = QueryFields
  BY DEF Sound
<1> QED BY <1>1 DEF Sound, QueryFields

LEMMA IdleSound == Sound([pc |-> "idle"])
  BY DEF Sound

\* A segment that has passed the filters is one that its key selects.
LEMMA PassKeeps ==
  ASSUME ReadsInv, NEW r \in Readers, NEW seen, query[r].pc = "segment",
         Pass(r, seen)
  PROVE  ReadsInv'
<1>1. Sound(query[r])
  BY DEF ReadsInv
<1> DEFINE q == [query[r] EXCEPT !.probe = @ \cup {"filter_passed", seen}]
<1>2. Sound(q)
  BY <1>1, SoundMoves
<1>3. query' = [query EXCEPT ![r] = q]
  BY DEF Pass
<1>4. Segment(r) \in Selected(Key(r))
  <2>1. query[r].at \in DOMAIN l0 /\ query[r].src \in Nat
          /\ IsOption(query[r].edge_type)
    BY <1>1 DEF Sound
  <2>2. may_contain_partition(edges_of[Segment(r)], query[r].src,
                              query[r].edge_type)
          /\ InRange(Segment(r), query[r].src)
    BY <1>1 DEF Sound, Segment
  <2>3. Segment(r) \in ToSet(l0)
    BY <2>1 DEF Segment, ToSet
  <2> QED BY <2>1, <2>2, <2>3, KeySelects DEF Key, KeyOf
<1>5. \A key \in DOMAIN looked_up' : looked_up'[key] \subseteq Selected(key)
  <2> SUFFICES ASSUME NEW key \in DOMAIN looked_up'
               PROVE  looked_up'[key] \subseteq Selected(key)
    OBVIOUS
  <2>1. key \in DOMAIN looked_up \cup {Key(r)}
    BY DEF Pass
  <2>2. looked_up'[key] =
          (IF key \in DOMAIN looked_up THEN looked_up[key] ELSE {})
            \cup IF key = Key(r) THEN {Segment(r)} ELSE {}
    BY <2>1 DEF Pass
  <2>3. key \in DOMAIN looked_up => looked_up[key] \subseteq Selected(key)
    BY DEF ReadsInv
  <2> QED BY <2>2, <2>3, <1>4
<1> HIDE DEF q
<1> QED BY <1>2, <1>3, <1>5, QueryMoves

\* When the offset table has been searched, the query reads the bodies or
\* is done with the segment.
LEMMA SearchKeeps ==
  ASSUME ReadsInv, NEW r \in Readers, NEW cached, query[r].pc = "segment",
         Search(r, cached), looked_up' = looked_up
  PROVE  ReadsInv'
<1>1. Sound(query[r])
  BY DEF ReadsInv
<1>2. \A key \in DOMAIN looked_up' : looked_up'[key] \subseteq Selected(key)
  BY DEF ReadsInv
<1>3. \/ query' = [query EXCEPT ![r] = [query[r] EXCEPT !.pc = "body"]]
      \/ query' = [query EXCEPT
           ![r] = [query[r] EXCEPT !.pc = "turn", !.probe = {}]]
  BY DEF Search, Finish
<1> QED BY <1>1, <1>2, <1>3, SoundMoves, QueryMoves

LEMMA TurnKeeps ==
  ASSUME ReadsInv, NEW r \in Readers, Turn(r)
  PROVE  ReadsInv'
<1> DEFINE i == Min(Left(r))
           touched == query[r].touched \cup {KeyOf(r, l0[i])}
           next == [query[r] EXCEPT !.at = i, !.touched = touched]
           at_segment == [next EXCEPT !.pc = "segment", !.probe = {"candidate"}]
<1>1. Sound(query[r]) /\ query[r].pc = "turn" /\ DOMAIN query[r] = QueryFields
  BY DEF Turn, ReadsInv, Sound
<1>2. i \in DOMAIN l0 /\ May(r, l0[i])
  <2>1. Left(r) \in SUBSET Nat /\ Left(r) # {}
    BY L0ReadsAssumption DEF Left, Turn
  <2>2. i \in Left(r)
    BY <2>1, LeastNatural
  <2> QED BY <2>2 DEF Left
<1>3. Sound(next)
  BY <1>1 DEF Sound, QueryFields
<1>4. \A key \in DOMAIN looked_up' : looked_up'[key] \subseteq Selected(key)
  BY DEF ReadsInv, Turn
<1>5. \/ query' = [query EXCEPT ![r] = next]
      \/ InRange(l0[i], query[r].src)
           /\ query' = [query EXCEPT ![r] = at_segment]
  BY DEF Turn
<1>6. ASSUME InRange(l0[i], query[r].src)
      PROVE  Sound(at_segment)
  BY <1>1, <1>2, <1>6 DEF Sound, QueryFields, May
<1> HIDE DEF next, at_segment
<1> QED BY <1>3, <1>4, <1>5, <1>6, QueryMoves

LEMMA ReadsStep ==
  ASSUME ReadsInv, [L0Next]_readVars
  PROVE  ReadsInv'
<1>1. CASE UNCHANGED readVars
  BY <1>1 DEF ReadsInv, readVars, l0Vars, Selected
<1>2. CASE L0Next
  <2>1. PICK r \in Readers :
          \/ QueryStart(r) \/ Turn(r) \/ CachedProbe(r) \/ UncachedProbe(r)
          \/ LookupUncached(r) \/ LookupCached(r) \/ LookupRead(r)
          \/ BodyRead(r) \/ Fail(r) \/ QueryEnd(r) \/ RecordLatency(r)
    BY <1>2 DEF L0Next
  <2>2. Sound(query[r])
    BY DEF ReadsInv
  <2>3. looked_up' = looked_up =>
          \A key \in DOMAIN looked_up' : looked_up'[key] \subseteq Selected(key)
    BY DEF ReadsInv
  <2>4. CASE QueryStart(r)
    <3>1. PICK q \in Queries :
            query' = [query EXCEPT ![r] =
              [pc |-> "turn", src |-> q.src, edge_type |-> q.edge_type,
               at |-> 0, touched |-> {}, probe |-> {}]]
      BY <2>4 DEF QueryStart
    <3>2. q.src \in Nat /\ IsOption(q.edge_type)
      BY L0ReadsAssumption DEF IsOption
    <3>3. Sound([pc |-> "turn", src |-> q.src, edge_type |-> q.edge_type,
                 at |-> 0, touched |-> {}, probe |-> {}])
      BY <3>2 DEF Sound, QueryFields
    <3> QED BY <2>3, <2>4, <3>1, <3>3, QueryMoves DEF QueryStart
  <2>5. CASE Turn(r)
    BY <2>5, TurnKeeps
  <2>6. CASE CachedProbe(r)
    <3>1. CASE Pass(r, "cache_hit")
      BY <2>6, <3>1, PassKeeps DEF CachedProbe
    <3>2. CASE Finish(r, query[r].probe \cup {"bloom_filtered", "cache_hit"})
                 /\ UNCHANGED looked_up
      BY <2>2, <2>3, <2>6, <3>2, SoundMoves, QueryMoves DEF CachedProbe, Finish
    <3> QED BY <2>6, <3>1, <3>2 DEF CachedProbe
  <2>7. CASE UncachedProbe(r)
    BY <2>7, PassKeeps DEF UncachedProbe
  <2>8. CASE LookupCached(r) \/ LookupRead(r)
    BY <2>8, SearchKeeps DEF LookupCached, LookupRead
  <2>9. CASE BodyRead(r)
    BY <2>2, <2>3, <2>9, SoundMoves, QueryMoves DEF BodyRead, Finish
  <2>10. CASE Fail(r) \/ QueryEnd(r)
    BY <2>3, <2>10, IdleSound, QueryMoves DEF Fail, QueryEnd
  <2>11. CASE LookupUncached(r) \/ RecordLatency(r)
    BY <2>11 DEF LookupUncached, RecordLatency, l0Vars, ReadsInv, Selected
  <2> QED BY <2>1, <2>4, <2>5, <2>6, <2>7, <2>8, <2>9, <2>10, <2>11
<1> QED BY <1>1, <1>2

\* The compaction that is picked by score takes every segment that the
\* queries looked into for its key, whatever was counted.
THEOREM PicksCorrect == L0Spec => []PickCoversReads
<1>1. L0Init => ReadsInv
  BY IdleSound DEF L0Init, ReadsInv
<1>2. ReadsInv => PickCoversReads
  BY DEF ReadsInv, PickCoversReads
<1> QED BY <1>1, <1>2, ReadsStep, PTL DEF L0Spec
-----------------------------------------------------------------------------
(* The minimum and the maximum of a latency metric.                        *)

Recorder ==
  [pc : {"idle"}]
    \cup [pc : {"swap_min", "load_max", "swap_max"}, us : Durations,
          current : Nat]

LatencyTypeOK ==
  /\ min_us \in Nat /\ max_us \in Nat
  /\ recorded \in [Durations -> Nat]
  /\ rec \in [Recorders -> Recorder]

Begun == {us \in Durations : recorded[us] > 0}

\* A recorder is on its way with a begun duration; an exchange it is about to
\* try would improve on what it has loaded, and past the minimum it has seen
\* to it that the minimum is no larger.
Underpinned(r) ==
  /\ rec[r].pc # "idle" => rec[r].us \in Begun
  /\ rec[r].pc = "swap_min" => rec[r].us < rec[r].current
  /\ rec[r].pc = "swap_max" => rec[r].us > rec[r].current
  /\ rec[r].pc \in {"load_max", "swap_max"} => min_us <= rec[r].us

\* The extremes are begun durations or what they were in the beginning, and
\* a duration beyond them is still with its recorder.
ExtremesInv ==
  /\ LatencyTypeOK
  /\ min_us = bounds[Len(bounds)] \/ min_us \in Begun
  /\ max_us = 0 \/ max_us \in Begun
  /\ \A r \in Recorders : Underpinned(r)
  /\ \A us \in Begun :
       /\ min_us <= us
            \/ \E r \in Recorders : rec[r].pc = "swap_min" /\ rec[r].us = us
       /\ us <= max_us
            \/ \E r \in Recorders : rec[r].pc # "idle" /\ rec[r].us = us

LEMMA InitExtremes == LatencyInit => ExtremesInv
<1> SUFFICES ASSUME LatencyInit PROVE ExtremesInv
  OBVIOUS
<1>1. bounds[Len(bounds)] \in Nat
  <2>1. bounds \in Seq(Nat) /\ bounds # <<>>
    BY LatencyAssumption
  <2>2. Len(bounds) \in 1..Len(bounds)
    BY <2>1
  <2> QED BY <2>1, <2>2
<1>2. \A r \in Recorders : rec[r] = [pc |-> "idle"]
  BY DEF LatencyInit
<1>3. \A us \in Durations : recorded[us] = 0
  BY DEF LatencyInit
<1>4. LatencyTypeOK
  BY <1>1 DEF LatencyInit, LatencyTypeOK, Recorder
<1>5. \A us : us \notin Begun
  BY <1>3 DEF Begun
<1>6. min_us = bounds[Len(bounds)] /\ max_us = 0
  BY DEF LatencyInit
<1> QED BY <1>2, <1>4, <1>5, <1>6 DEF ExtremesInv, Underpinned

\* One recorder moves with what is begun and what the extremes are; the
\* conditions are what the invariant says of the step.
LEMMA RecorderMoves ==
  ASSUME ExtremesInv, NEW r \in Recorders,
         rec' \in [Recorders -> Recorder],
         \A o \in Recorders : o # r => rec'[o] = rec[o],
         min_us' \in Nat, max_us' \in Nat, recorded' \in [Durations -> Nat],
         min_us' <= min_us, max_us <= max_us',
         min_us' = min_us \/ min_us' \in Begun',
         max_us' = max_us \/ max_us' \in Begun',
         Begun \subseteq Begun',
         \A us \in Begun' :
           us \in Begun \/ (rec'[r].pc # "idle" /\ us = rec'[r].us),
         rec'[r].pc # "idle" => rec'[r].us \in Begun',
         rec'[r].pc # "idle" /\ rec[r].pc # "idle" => rec'[r].us = rec[r].us,
         rec'[r].pc = "swap_min" => rec'[r].us < rec'[r].current,
         rec'[r].pc = "swap_max" => rec'[r].us > rec'[r].current,
         rec'[r].pc \in {"load_max", "swap_max"} => min_us' <= rec'[r].us,
         rec[r].pc = "idle" => rec'[r].pc # "idle",
         rec[r].pc = "swap_min" => rec'[r].pc # "idle",
         rec'[r].pc = "idle" => rec[r].us <= max_us'
  PROVE  ExtremesInv'
<1>1. /\ rec \in [Recorders -> Recorder] /\ min_us \in Nat /\ max_us \in Nat
      /\ Durations \subseteq Nat
  BY LatencyAssumption DEF ExtremesInv, LatencyTypeOK
<1>2. Begun' \subseteq Nat
  BY LatencyAssumption DEF Begun
<1>3. LatencyTypeOK'
  BY DEF LatencyTypeOK, Recorder
<1>4. /\ min_us' = bounds[Len(bounds)] \/ min_us' \in Begun'
      /\ max_us' = 0 \/ max_us' \in Begun'
  BY DEF ExtremesInv
<1>5. ASSUME NEW o \in Recorders
      PROVE  /\ rec'[o].pc # "idle" => rec'[o].us \in Begun'
             /\ rec'[o].pc = "swap_min" => rec'[o].us < rec'[o].current
             /\ rec'[o].pc = "swap_max" => rec'[o].us > rec'[o].current
             /\ rec'[o].pc \in {"load_max", "swap_max"} => min_us' <= rec'[o].us
  <2>1. CASE o = r
    BY <2>1
  <2>2. CASE o # r
    <3>1. Underpinned(o) /\ rec'[o] = rec[o]
      BY <2>2 DEF ExtremesInv
    <3>2. rec[o].pc \in {"load_max", "swap_max"} => min_us' <= rec[o].us
      <4>1. rec[o].pc # "idle" => rec[o].us \in Nat
        BY <1>1, <3>1 DEF Underpinned, Begun
      <4> QED BY <1>1, <3>1, <4>1 DEF Underpinned
    <3>3. rec[o].pc # "idle" => rec[o].us \in Begun'
      BY <3>1 DEF Underpinned
    <3> QED BY <3>1, <3>2, <3>3 DEF Underpinned
  <2> QED BY <2>1, <2>2
<1>6. ASSUME NEW us \in Begun'
      PROVE  min_us' <= us
               \/ \E o \in Recorders : rec'[o].pc = "swap_min" /\ rec'[o].us = us
  <2>1. CASE rec'[r].pc # "idle" /\ us = rec'[r].us
    <3>1. rec'[r].pc \in {"swap_min", "load_max", "swap_max"}
      BY <1>3, <2>1 DEF LatencyTypeOK, Recorder
    <3> QED BY <2>1, <3>1
  <2>2. CASE us \in Begun
    <3>1. CASE min_us <= us
      BY <1>1, <1>2, <3>1
    <3>2. CASE \E o \in Recorders : rec[o].pc = "swap_min" /\ rec[o].us = us
      <4>1. PICK o \in Recorders : rec[o].pc = "swap_min" /\ rec[o].us = us
        BY <3>2
      <4>2. CASE o = r
        BY <2>1, <4>1, <4>2
      <4>3. CASE o # r
        BY <4>1, <4>3
      <4> QED BY <4>2, <4>3
    <3> QED BY <2>2, <3>1, <3>2 DEF ExtremesInv
  <2> QED BY <1>6, <2>1, <2>2
<1>7. ASSUME NEW us \in Begun'
      PROVE  us <= max_us'
               \/ \E o \in Recorders : rec'[o].pc # "idle" /\ rec'[o].us = us
  <2>1. CASE rec'[r].pc # "idle" /\ us = rec'[r].us
    BY <2>1
  <2>2. CASE us \in Begun
    <3>1. CASE us <= max_us
      BY <1>1, <1>2, <3>1
    <3>2. CASE \E o \in Recorders : rec[o].pc # "idle" /\ rec[o].us = us
      <4>1. PICK o \in Recorders : rec[o].pc # "idle" /\ rec[o].us = us
        BY <3>2
      <4>2. CASE o = r
        BY <2>1, <4>1, <4>2
      <4>3. CASE o # r
        BY <4>1, <4>3
      <4> QED BY <4>2, <4>3
    <3> QED BY <2>2, <3>1, <3>2 DEF ExtremesInv
  <2> QED BY <1>7, <2>1, <2>2
<1> QED BY <1>3, <1>4, <1>5, <1>6, <1>7 DEF ExtremesInv, Underpinned

\* The addition of a duration, and the load of fetch_min.
LEMMA AddExtremes ==
  ASSUME ExtremesInv, NEW r \in Recorders, NEW us \in Durations, Add(r, us)
  PROVE  ExtremesInv'
<1> DEFINE new == [pc |-> AfterMin(us, min_us), us |-> us, current |-> min_us]
<1>1. /\ rec[r].pc = "idle" /\ rec' = [rec EXCEPT ![r] = new]
      /\ recorded' = [recorded EXCEPT ![us] = @ + 1]
      /\ min_us' = min_us /\ max_us' = max_us
  BY DEF Add
<1>2. /\ min_us \in Nat /\ max_us \in Nat /\ recorded \in [Durations -> Nat]
      /\ us \in Nat
  BY LatencyAssumption DEF ExtremesInv, LatencyTypeOK
<1>3. /\ new.us = us /\ new.current = min_us
      /\ new.pc \in {"swap_min", "load_max"}
      /\ new.pc = "swap_min" => us < min_us
      /\ new.pc = "load_max" => min_us <= us
      /\ new \in Recorder
  BY <1>2 DEF AfterMin, Recorder
<1>4. /\ recorded' \in [Durations -> Nat] /\ recorded'[us] > 0
      /\ \A x \in Durations : x # us => recorded'[x] = recorded[x]
  BY <1>1, <1>2
<1>5. /\ Begun \subseteq Begun'
      /\ \A x \in Begun' : x \in Begun \/ x = us
      /\ us \in Begun'
  BY <1>4 DEF Begun
<1>6. /\ rec' \in [Recorders -> Recorder] /\ rec'[r] = new
      /\ \A o \in Recorders : o # r => rec'[o] = rec[o]
  <2>1. rec \in [Recorders -> Recorder]
    BY DEF ExtremesInv, LatencyTypeOK
  <2> HIDE DEF new
  <2> QED BY ONLY r \in Recorders, <1>1, <1>3, <2>1
<1>7. rec'[r].pc # "idle" => rec'[r].us \in Begun'
  BY <1>3, <1>5, <1>6
<1> HIDE DEF new
<1> QED BY ONLY ExtremesInv, r \in Recorders, <1>1, <1>2, <1>3, <1>4, <1>5,
                <1>6, <1>7, RecorderMoves

\* An exchange of fetch_min or fetch_max, or another turn of its loop.
LEMMA RecordExtremes ==
  ASSUME ExtremesInv, NEW r \in Recorders, RecordStep(r)
  PROVE  ExtremesInv'
<1>1. /\ min_us \in Nat /\ max_us \in Nat /\ recorded \in [Durations -> Nat]
      /\ rec \in [Recorders -> Recorder] /\ Durations \subseteq Nat
  BY LatencyAssumption DEF ExtremesInv, LatencyTypeOK
<1>2. rec[r].pc \in {"swap_min", "load_max", "swap_max"} /\ recorded' = recorded
  BY DEF RecordStep, SwapMin, LoadMax, SwapMax
<1>3. PICK at \in {"swap_min", "load_max", "swap_max"}, us \in Durations,
           current \in Nat :
        /\ rec[r] = [pc |-> at, us |-> us, current |-> current]
        /\ rec[r].pc = at /\ rec[r].us = us /\ rec[r].current = current
  BY <1>1, <1>2 DEF Recorder
<1>4. /\ us \in Nat /\ us \in Begun /\ us \in Begun'
      /\ Begun' = Begun
      /\ rec[r].pc = "swap_min" => us < current
      /\ rec[r].pc = "swap_max" => us > current
      /\ rec[r].pc \in {"load_max", "swap_max"} => min_us <= us
  BY <1>1, <1>2, <1>3 DEF ExtremesInv, Underpinned, Begun
<1> DEFINE To(pc, seen) == [pc |-> pc, us |-> us, current |-> seen]
<1>7. ASSUME NEW pc \in {"swap_min", "load_max", "swap_max"}, NEW seen \in Nat
      PROVE  /\ To(pc, seen) \in Recorder
             /\ To(pc, seen).pc = pc /\ To(pc, seen).us = us
             /\ To(pc, seen).current = seen
  BY <1>3 DEF Recorder
<1>8. ASSUME NEW pc \in {"swap_min", "load_max", "swap_max"}, NEW seen \in Nat
      PROVE  /\ [rec EXCEPT ![r].pc = pc, ![r].current = seen]
                  = [rec EXCEPT ![r] = To(pc, seen)]
             /\ [rec EXCEPT ![r].pc = pc] = [rec EXCEPT ![r] = To(pc, current)]
  <2>1. /\ [rec[r] EXCEPT !.pc = pc, !.current = seen] = To(pc, seen)
        /\ [rec[r] EXCEPT !.pc = pc] = To(pc, current)
    <3> DEFINE Moving == [pc : {"swap_min", "load_max", "swap_max"},
                          us : Durations, current : Nat]
    <3>1. rec[r] \in Moving
      BY <1>3
    <3>2. /\ [rec[r] EXCEPT !.pc = pc, !.current = seen] \in Moving
          /\ [rec[r] EXCEPT !.pc = pc] \in Moving
      BY <3>1
    <3>3. /\ [rec[r] EXCEPT !.pc = pc, !.current = seen].pc = pc
          /\ [rec[r] EXCEPT !.pc = pc, !.current = seen].us = us
          /\ [rec[r] EXCEPT !.pc = pc, !.current = seen].current = seen
          /\ [rec[r] EXCEPT !.pc = pc].pc = pc
          /\ [rec[r] EXCEPT !.pc = pc].us = us
          /\ [rec[r] EXCEPT !.pc = pc].current = current
      BY <1>3, <3>1
    <3>4. ASSUME NEW m \in Moving
          PROVE  m = [pc |-> m.pc, us |-> m.us, current |-> m.current]
      OBVIOUS
    <3> HIDE DEF Moving
    <3> QED BY <3>2, <3>3, <3>4
  <2> HIDE DEF To
  <2> QED BY ONLY <1>1, <2>1, r \in Recorders
<1>9. ASSUME NEW new \in Recorder, rec' = [rec EXCEPT ![r] = new]
      PROVE  /\ rec' \in [Recorders -> Recorder] /\ rec'[r] = new
             /\ \A o \in Recorders : o # r => rec'[o] = rec[o]
  BY ONLY <1>1, <1>9, r \in Recorders
<1> HIDE DEF To
<1>5. CASE SwapMin(r)
  <2>1. PICK pc \in {"swap_min", "load_max"}, seen \in Nat :
          /\ rec' = [rec EXCEPT ![r] = To(pc, seen)]
          /\ max_us' = max_us
          /\ \/ min_us = current /\ min_us' = us /\ pc = "load_max"
             \/ min_us' = min_us /\ pc = AfterMin(us, min_us) /\ seen = min_us
    <3>1. CASE min_us = rec[r].current
      <4>1. /\ rec' = [rec EXCEPT ![r] = To("load_max", current)]
            /\ min_us = current /\ min_us' = us /\ max_us' = max_us
        BY <1>3, <1>5, <1>8, <3>1 DEF SwapMin
      <4> QED BY <1>3, <4>1
    <3>2. CASE min_us # rec[r].current
      <4>1. /\ rec' = [rec EXCEPT ![r] = To(AfterMin(us, min_us), min_us)]
            /\ min_us' = min_us /\ max_us' = max_us
        BY <1>3, <1>5, <1>8, <3>2 DEF SwapMin
      <4>2. AfterMin(us, min_us) \in {"swap_min", "load_max"}
        BY DEF AfterMin
      <4> QED BY <1>1, <4>1, <4>2
    <3> QED BY <3>1, <3>2
  <2>2. /\ min_us' \in Nat /\ min_us' <= min_us
        /\ min_us' = min_us \/ min_us' \in Begun'
        /\ pc = "swap_min" => us < seen
        /\ pc = "load_max" => min_us' <= us
    <3>1. rec[r].pc = "swap_min"
      BY <1>5 DEF SwapMin
    <3>2. min_us' = us => min_us' \in Begun'
      BY <1>4 DEF Begun
    <3> QED BY <1>1, <1>4, <2>1, <3>1, <3>2 DEF AfterMin
  <2>3. /\ rec[r].pc = "swap_min" /\ pc # "idle" /\ pc # "swap_max"
        /\ To(pc, seen) \in Recorder
        /\ To(pc, seen).pc = pc /\ To(pc, seen).us = us
        /\ To(pc, seen).current = seen
    BY <1>5, <1>7, <2>1 DEF SwapMin
  <2>4. /\ rec' \in [Recorders -> Recorder] /\ rec'[r] = To(pc, seen)
        /\ \A o \in Recorders : o # r => rec'[o] = rec[o]
    BY <1>9, <2>1, <2>3
  <2> QED BY ONLY ExtremesInv, r \in Recorders, <1>1, <1>3, <1>4, <1>2, <2>1,
                  <2>2, <2>3, <2>4, RecorderMoves
<1>6. CASE LoadMax(r) \/ SwapMax(r)
  <2>1. rec[r].pc \in {"load_max", "swap_max"} /\ min_us' = min_us
    BY <1>6 DEF LoadMax, SwapMax
  <2>2. \/ /\ max_us' = max_us /\ us > max_us
           /\ rec' = [rec EXCEPT ![r] = To("swap_max", max_us)]
        \/ /\ max_us' = max_us /\ us <= max_us
           /\ rec' = [rec EXCEPT ![r] = [pc |-> "idle"]]
        \/ /\ rec[r].pc = "swap_max" /\ max_us = current /\ max_us' = us
           /\ rec' = [rec EXCEPT ![r] = [pc |-> "idle"]]
    <3>1. CASE AfterMax(r) /\ max_us' = max_us
      <4>1. CASE rec[r].us > max_us /\ rec' = [rec EXCEPT
                   ![r].pc = "swap_max", ![r].current = max_us]
        <5>1. rec' = [rec EXCEPT ![r] = To("swap_max", max_us)]
          BY <1>1, <1>8, <4>1
        <5> QED BY <1>3, <3>1, <4>1, <5>1
      <4>2. CASE rec[r].us <= max_us /\ Finished(r)
        BY <1>3, <3>1, <4>2 DEF Finished
      <4> QED BY <3>1, <4>1, <4>2 DEF AfterMax
    <3>2. CASE /\ rec[r].pc = "swap_max" /\ max_us = rec[r].current
               /\ max_us' = rec[r].us /\ Finished(r)
      BY <1>3, <3>2 DEF Finished
    <3> QED BY <1>6, <3>1, <3>2 DEF LoadMax, SwapMax
  <2>4. CASE /\ max_us' = max_us /\ us > max_us
             /\ rec' = [rec EXCEPT ![r] = To("swap_max", max_us)]
    <3>1. /\ To("swap_max", max_us) \in Recorder
          /\ To("swap_max", max_us).pc = "swap_max"
          /\ To("swap_max", max_us).us = us
          /\ To("swap_max", max_us).current = max_us
      BY <1>1, <1>7
    <3>2. /\ rec' \in [Recorders -> Recorder]
          /\ rec'[r] = To("swap_max", max_us)
          /\ \A o \in Recorders : o # r => rec'[o] = rec[o]
      BY <1>9, <2>4, <3>1
    <3> QED BY ONLY ExtremesInv, r \in Recorders, <1>1, <1>2, <1>3, <1>4, <2>1,
                    <2>4, <3>1, <3>2, RecorderMoves
  <2>5. CASE /\ max_us' \in {max_us, us} /\ max_us <= max_us' /\ us <= max_us'
             /\ rec' = [rec EXCEPT ![r] = [pc |-> "idle"]]
    <3>1. max_us' = max_us \/ max_us' \in Begun'
      BY <1>4, <2>5
    <3>2. /\ [pc |-> "idle"] \in Recorder
          /\ [pc |-> "idle"].pc = "idle"
      BY DEF Recorder
    <3>3. /\ rec' \in [Recorders -> Recorder] /\ rec'[r].pc = "idle"
          /\ \A o \in Recorders : o # r => rec'[o] = rec[o]
      BY <1>9, <2>5, <3>2
    <3> QED BY ONLY ExtremesInv, r \in Recorders, <1>1, <1>2, <1>3, <1>4, <2>1,
                    <2>5, <3>1, <3>3, RecorderMoves
  <2>6. /\ max_us <= max_us /\ us <= us
        /\ rec[r].pc = "swap_max" /\ max_us = current => max_us <= us
    BY <1>1, <1>4
  <2> QED BY <2>2, <2>4, <2>5, <2>6
<1> QED BY <1>5, <1>6 DEF RecordStep

LEMMA ExtremesStep ==
  ASSUME ExtremesInv, [LatencyNext]_latencyVars
  PROVE  ExtremesInv'
<1>1. CASE UNCHANGED latencyVars
  BY <1>1 DEF ExtremesInv, LatencyTypeOK, Underpinned, Begun, latencyVars
<1>2. CASE LatencyNext
  BY <1>2, AddExtremes, RecordExtremes DEF LatencyNext
<1> QED BY <1>1, <1>2

\* At rest the extremes are those of the durations that were begun.
LEMMA ExtremesFollow ==
  ASSUME ExtremesInv
  PROVE  ExtremesExact
<1> DEFINE values == {us \in Durations : recorded[us] > 0}
<1> SUFFICES ASSUME \A r \in Recorders : rec[r].pc = "idle", values # {}
             PROVE  min_us = Min(values) /\ max_us = Max(values)
  BY DEF ExtremesExact
<1>1. /\ min_us \in Nat /\ max_us \in Nat /\ values \subseteq Nat
      /\ \A us \in values : us < bounds[Len(bounds)]
  BY LatencyAssumption DEF ExtremesInv, LatencyTypeOK
<1>2. \A us \in values : min_us <= us /\ us <= max_us
  BY DEF ExtremesInv, Begun
<1>3. PICK some \in values : TRUE
  OBVIOUS
<1>4. bounds[Len(bounds)] \in Nat
  <2>1. bounds \in Seq(Nat) /\ bounds # <<>>
    BY LatencyAssumption
  <2>2. Len(bounds) \in 1..Len(bounds)
    BY <2>1
  <2> QED BY <2>1, <2>2
<1>5. min_us \in values
  BY <1>1, <1>2, <1>3, <1>4 DEF ExtremesInv, Begun
<1>6. max_us \in values
  <2>1. max_us = 0 => some = max_us
    BY <1>1, <1>2, <1>3
  <2> QED BY <1>3, <2>1 DEF ExtremesInv, Begun
<1> HIDE DEF values
<1>7. \A us \in values : max_us >= us
  BY <1>1, <1>2
<1>8. min_us = Min(values)
  <2>1. \A x \in values : (\A y \in values : x <= y) => x = min_us
    BY <1>1, <1>2, <1>5
  <2> QED BY ONLY <1>2, <1>5, <2>1 DEF Min
<1>9. max_us = Max(values)
  <2>1. \A x \in values : (\A y \in values : x >= y) => x = max_us
    BY <1>1, <1>2, <1>6
  <2> QED BY ONLY <1>6, <1>7, <2>1 DEF Max
<1> QED BY <1>8, <1>9

\* fetch_min and fetch_max lose no extreme to another recorder, for any
\* recorders, durations and bounds.
THEOREM ExtremesCorrect == LatencySpec => []ExtremesExact
<1>1. ExtremesInv => ExtremesExact
  BY ExtremesFollow
<1> QED BY <1>1, InitExtremes, ExtremesStep, PTL DEF LatencySpec

\* The queries of the L0 loop record their latency while others go on.
LEMMA L0RecordsLatency == L0Spec => LatencySpec
<1>1. L0Init => LatencyInit
  BY DEF L0Init
<1>2. [L0Next]_readVars => [LatencyNext]_latencyVars
  <2> SUFFICES ASSUME L0Next PROVE [LatencyNext]_latencyVars
    BY DEF readVars
  <2>1. PICK r \in Readers :
          \/ QueryStart(r) \/ Turn(r) \/ CachedProbe(r) \/ UncachedProbe(r)
          \/ LookupUncached(r) \/ LookupCached(r) \/ LookupRead(r)
          \/ BodyRead(r) \/ Fail(r) \/ QueryEnd(r) \/ RecordLatency(r)
    BY DEF L0Next
  <2>2. r \in Recorders
    BY L0ReadsAssumption
  <2>3. CASE QueryEnd(r) \/ RecordLatency(r)
    BY <2>2, <2>3 DEF QueryEnd, RecordLatency, LatencyNext
  <2>4. CASE \/ QueryStart(r) \/ Turn(r) \/ CachedProbe(r) \/ UncachedProbe(r)
             \/ LookupUncached(r) \/ LookupCached(r) \/ LookupRead(r)
             \/ BodyRead(r) \/ Fail(r)
    BY <2>4 DEF QueryStart, Turn, CachedProbe, UncachedProbe, LookupUncached,
                LookupCached, LookupRead, BodyRead, Fail
  <2> QED BY <2>1, <2>3, <2>4
<1> QED BY <1>1, <1>2, PTL DEF L0Spec, LatencySpec

\* The same of the latency of the queries of the L0 loop, which is recorded
\* while other queries go on.
THEOREM QueryExtremesCorrect == L0Spec => []ExtremesExact
<1> QED BY L0RecordsLatency, ExtremesCorrect, PTL

-----------------------------------------------------------------------------
(* The counters of a partition.                                            *)

MetricFields == ProbeFields \cup {"query"}

Balanced(m) ==
  /\ m.candidate = m.range_filtered + m.bloom_filtered + m.filter_passed
  /\ m.cache_hit + m.cache_miss = m.bloom_filtered + m.filter_passed
  /\ m.matched <= m.filter_passed

Partitioned ==
  \A key \in DOMAIN partitions :
    partitions[key] \in [MetricFields -> Nat] /\ Balanced(partitions[key])

\* What is counted at once for a segment keeps the balance.
BalancedFields(F) ==
  /\ "candidate" \in F <=>
       "range_filtered" \in F \/ "bloom_filtered" \in F \/ "filter_passed" \in F
  /\ "cache_hit" \in F \/ "cache_miss" \in F <=>
       "bloom_filtered" \in F \/ "filter_passed" \in F
  /\ "range_filtered" \in F => "bloom_filtered" \notin F /\ "filter_passed" \notin F
  /\ ~("bloom_filtered" \in F /\ "filter_passed" \in F)
  /\ ~("cache_hit" \in F /\ "cache_miss" \in F)
  /\ "matched" \in F => "filter_passed" \in F

\* What a query has yet to count for its segment is settled by how far its
\* reader is.
Probed(q, at) ==
  /\ q.pc = "segment" /\ at.pc = "probe" => q.probe = {"candidate"}
  /\ q.pc = "body" \/ (q.pc = "segment" /\ at.pc \in {"lookup", "read"}) =>
       q.probe \in {{"candidate", "filter_passed", "cache_hit"},
                    {"candidate", "filter_passed", "cache_miss"}}

BalanceInv == Partitioned /\ \A r \in Readers : Probed(query[r], reader[r])

LEMMA RecordKeeps ==
  ASSUME Partitioned, NEW key, NEW F, BalancedFields(F),
         record_l0_partition(key, F)
  PROVE  Partitioned'
<1> SUFFICES ASSUME NEW k \in DOMAIN partitions'
             PROVE  /\ partitions'[k] \in [MetricFields -> Nat]
                    /\ Balanced(partitions'[k])
  BY DEF Partitioned, Balanced
<1>1. /\ k \in DOMAIN partitions \cup {key}
      /\ partitions'[k] = IF k = key THEN Plus(metric(key), F) ELSE partitions[k]
  BY DEF record_l0_partition
<1>2. CASE k # key
  BY <1>1, <1>2 DEF Partitioned
<1>3. CASE k = key
  <2> DEFINE m == metric(key)
             one(x) == IF x \in F THEN 1 ELSE 0
  <2>1. m \in [MetricFields -> Nat] /\ Balanced(m)
    <3>1. CASE key \in DOMAIN partitions
      BY <3>1 DEF Partitioned, metric
    <3>2. CASE key \notin DOMAIN partitions
      <4>1. m = [x \in MetricFields |-> 0]
        BY <3>2 DEF metric, Zero, MetricFields
      <4> HIDE DEF m
      <4> QED BY <4>1 DEF Balanced, MetricFields, ProbeFields
    <3> QED BY <3>1, <3>2
  <2>2. partitions'[k] = [x \in MetricFields |-> m[x] + one(x)]
    <3>1. DOMAIN m = MetricFields
      BY <2>1
    <3> QED BY <1>1, <1>3, <3>1 DEF Plus
  <2>3. \A x : one(x) \in {0, 1}
    OBVIOUS
  <2>4. /\ one("candidate") = one("range_filtered") + one("bloom_filtered")
                                + one("filter_passed")
        /\ one("cache_hit") + one("cache_miss")
             = one("bloom_filtered") + one("filter_passed")
        /\ one("matched") <= one("filter_passed")
    BY DEF BalancedFields
  <2> HIDE DEF m, one
  <2>5. partitions'[k] \in [MetricFields -> Nat]
    <3>1. \A x \in MetricFields : m[x] + one(x) \in Nat
      BY <2>1, <2>3
    <3> QED BY <2>2, <3>1
  <2>6. Balanced(partitions'[k])
    <3>1. \A x \in MetricFields : partitions'[k][x] = m[x] + one(x) /\ m[x] \in Nat
      BY <2>1, <2>2
    <3>2. {"candidate", "range_filtered", "bloom_filtered", "filter_passed",
           "cache_hit", "cache_miss", "matched"} \subseteq MetricFields
      BY DEF MetricFields, ProbeFields
    <3> QED BY <2>1, <2>3, <2>4, <3>1, <3>2 DEF Balanced
  <2> QED BY <2>5, <2>6
<1> QED BY <1>2, <1>3

\* One query moves with its reader.
LEMMA BalanceMoves ==
  ASSUME BalanceInv, NEW r \in Readers,
         \A o \in Readers : o # r => query'[o] = query[o] /\ reader'[o] = reader[o],
         Probed(query'[r], reader'[r]), Partitioned'
  PROVE  BalanceInv'
<1>1. \A o \in Readers : Probed(query'[o], reader'[o])
  BY DEF BalanceInv
<1> QED BY <1>1 DEF BalanceInv, Probed

\* A query leaves the others and their readers alone.
LEMMA QueryFrame ==
  ASSUME ReadsInv, TypeOK, NEW r \in Readers,
         \/ QueryStart(r) \/ Turn(r) \/ CachedProbe(r) \/ UncachedProbe(r)
         \/ LookupUncached(r) \/ LookupCached(r) \/ LookupRead(r)
         \/ BodyRead(r) \/ Fail(r) \/ QueryEnd(r) \/ RecordLatency(r)
  PROVE  \A o \in Readers : o # r => query'[o] = query[o] /\ reader'[o] = reader[o]
<1>1. DOMAIN query = Readers /\ DOMAIN reader = Readers
  BY DEF ReadsInv, TypeOK
<1>2. ASSUME NEW q, query' = [query EXCEPT ![r] = q]
      PROVE  \A o \in Readers : o # r => query'[o] = query[o]
  BY <1>1, <1>2
<1>3. ASSUME NEW at, reader' = [reader EXCEPT ![r] = at]
      PROVE  \A o \in Readers : o # r => reader'[o] = reader[o]
  BY <1>1, <1>3
<1>4. \A o \in Readers : o # r => query'[o] = query[o]
  <2>1. CASE QueryStart(r)
    BY <1>2, <2>1 DEF QueryStart
  <2>2. CASE Turn(r)
    BY <1>2, <2>2 DEF Turn
  <2>3. CASE CachedProbe(r) \/ UncachedProbe(r)
    BY <1>2, <2>3 DEF CachedProbe, UncachedProbe, Pass, Finish
  <2>4. CASE LookupCached(r) \/ LookupRead(r)
    BY <1>2, <2>4 DEF LookupCached, LookupRead, Search, Finish
  <2>5. CASE BodyRead(r) \/ Fail(r) \/ QueryEnd(r)
    BY <1>2, <2>5 DEF BodyRead, Finish, Fail, QueryEnd
  <2>6. CASE LookupUncached(r) \/ RecordLatency(r)
    BY <2>6 DEF LookupUncached, RecordLatency, l0Vars
  <2> QED BY <2>1, <2>2, <2>3, <2>4, <2>5, <2>6
<1>5. \A o \in Readers : o # r => reader'[o] = reader[o]
  <2>1. CASE Visit(r) \/ ReadFail(r) \/ BodyFail(r)
    BY <1>3, <2>1 DEF Visit, ReadFail, BodyFail
  <2>2. CASE ProbeHit(r) \/ ProbeMiss(r)
    BY <1>3, <2>2 DEF ProbeHit, ProbeMiss, Goto, Answer
  <2>3. CASE LookupHit(r) \/ LookupMiss(r) \/ ReadInsert(r)
    BY <1>3, <2>3 DEF LookupHit, LookupMiss, ReadInsert, Goto, Answer
  <2>4. CASE reader' = reader
    BY <2>4
  <2> QED BY <2>1, <2>2, <2>3, <2>4
          DEF QueryStart, Turn, CachedProbe, UncachedProbe, LookupUncached,
              LookupCached, LookupRead, BodyRead, Fail, QueryEnd, RecordLatency,
              vars
<1> QED BY <1>4, <1>5

LEMMA BalanceStep ==
  ASSUME BalanceInv, ReadsInv, TypeOK, [L0Next]_readVars
  PROVE  BalanceInv'
<1>1. CASE UNCHANGED readVars
  BY <1>1 DEF BalanceInv, Partitioned, Balanced, Probed, readVars, vars, l0Vars
<1>2. CASE L0Next
  <2>1. PICK r \in Readers :
          \/ QueryStart(r) \/ Turn(r) \/ CachedProbe(r) \/ UncachedProbe(r)
          \/ LookupUncached(r) \/ LookupCached(r) \/ LookupRead(r)
          \/ BodyRead(r) \/ Fail(r) \/ QueryEnd(r) \/ RecordLatency(r)
    BY <1>2 DEF L0Next
  <2>2. \A o \in Readers : o # r => query'[o] = query[o] /\ reader'[o] = reader[o]
    BY <2>1, QueryFrame
  <2>3. SUFFICES Probed(query'[r], reader'[r]) /\ Partitioned'
    BY <2>2, BalanceMoves
  <2>4. /\ DOMAIN query = Readers /\ DOMAIN reader = Readers
        /\ Sound(query[r]) /\ Probed(query[r], reader[r]) /\ Partitioned
    BY DEF ReadsInv, TypeOK, BalanceInv
  <2>5. query[r].pc # "idle" => DOMAIN query[r] = QueryFields
    BY <2>4 DEF Sound
  <2>6. partitions' = partitions => Partitioned'
    BY <2>4 DEF Partitioned, Balanced
  <2>7. ASSUME NEW F, Finish(r, F), BalancedFields(F), query[r].pc # "idle"
        PROVE  Probed(query'[r], reader'[r]) /\ Partitioned'
    <3>1. Partitioned'
      BY <2>4, <2>7, RecordKeeps DEF Finish
    <3>2. query'[r].pc = "turn"
      BY <2>4, <2>5, <2>7 DEF Finish, QueryFields
    <3> QED BY <3>1, <3>2 DEF Probed
  <2>8. CASE QueryStart(r) \/ Fail(r) \/ QueryEnd(r)
    <3>1. query'[r].pc \in {"turn", "idle"} /\ partitions' = partitions
      BY <2>4, <2>8 DEF QueryStart, Fail, QueryEnd
    <3> QED BY <2>6, <3>1 DEF Probed
  <2>9. CASE LookupUncached(r)
    <3>1. /\ reader[r].pc = "lookup" /\ reader'[r].pc = "read"
          /\ query' = query /\ partitions' = partitions
      BY <2>4, <2>9 DEF LookupUncached, LookupMiss, Goto
    <3> QED BY <2>4, <2>6, <3>1 DEF Probed
  <2>10. CASE RecordLatency(r)
    BY <2>4, <2>6, <2>10 DEF RecordLatency, vars, l0Vars
  <2>11. CASE Turn(r)
    <3>1. query[r].pc = "turn" /\ DOMAIN query[r] = QueryFields
      BY <2>5, <2>11 DEF Turn
    <3> DEFINE i == Min(Left(r))
               key == KeyOf(r, l0[i])
               first == IF key \in query[r].touched THEN {} ELSE {"query"}
               next == [query[r] EXCEPT !.at = i, !.touched = @ \cup {key}]
               at_segment == [next EXCEPT !.pc = "segment", !.probe = {"candidate"}]
    <3>2. \/ /\ record_l0_partition(key, first \cup {"candidate", "range_filtered"})
             /\ query' = [query EXCEPT ![r] = next]
          \/ /\ record_l0_partition(key, first)
             /\ query' = [query EXCEPT ![r] = at_segment]
             /\ Visit(r)
      BY <2>11 DEF Turn
    <3>3. /\ BalancedFields(first)
          /\ BalancedFields(first \cup {"candidate", "range_filtered"})
      BY DEF BalancedFields
    <3>4. /\ next.pc = "turn"
          /\ at_segment.pc = "segment" /\ at_segment.probe = {"candidate"}
      BY <3>1 DEF QueryFields
    <3> HIDE DEF first, next, at_segment
    <3>5. Partitioned'
      BY <2>4, <3>2, <3>3, RecordKeeps
    <3>6. query'[r] = next \/ (query'[r] = at_segment /\ Visit(r))
      BY <2>4, <3>2
    <3>7. Visit(r) => reader'[r].pc = "probe"
      BY <2>4 DEF Visit
    <3> QED BY <3>4, <3>5, <3>6, <3>7 DEF Probed
  <2>12. CASE CachedProbe(r) \/ UncachedProbe(r)
    <3>1. /\ query[r].pc = "segment" /\ reader[r].pc = "probe"
          /\ query[r].probe = {"candidate"} /\ DOMAIN query[r] = QueryFields
      BY <2>4, <2>5, <2>12
         DEF CachedProbe, UncachedProbe, ProbeHit, ProbeMiss, Probed
    <3>2. ASSUME NEW seen \in {"cache_hit", "cache_miss"}, Pass(r, seen),
                 reader'[r].pc = "lookup"
          PROVE  Probed(query'[r], reader'[r]) /\ Partitioned'
      <4>1. /\ query'[r].pc = "segment"
            /\ query'[r].probe = {"candidate", "filter_passed", seen}
        BY <2>4, <3>1, <3>2 DEF Pass, QueryFields
      <4>2. partitions' = partitions
        BY <3>2 DEF Pass
      <4> QED BY <2>6, <3>2, <4>1, <4>2 DEF Probed
    <3>3. BalancedFields(query[r].probe \cup {"bloom_filtered", "cache_hit"})
      BY <3>1 DEF BalancedFields
    <3>4. CASE CachedProbe(r)
      BY <2>7, <3>1, <3>2, <3>3, <3>4 DEF CachedProbe
    <3>5. CASE UncachedProbe(r)
      <4>1. reader'[r].pc = "lookup"
        BY <2>4, <3>5 DEF UncachedProbe, ProbeMiss, Goto
      <4> QED BY <3>2, <3>5, <4>1 DEF UncachedProbe
    <3> QED BY <2>12, <3>4, <3>5
  <2>13. CASE LookupCached(r) \/ LookupRead(r)
    <3>1. /\ query[r].pc = "segment" /\ reader[r].pc \in {"lookup", "read"}
          /\ DOMAIN query[r] = QueryFields
      BY <2>5, <2>13 DEF LookupCached, LookupRead, LookupHit, ReadInsert
    <3>2. query[r].probe \in {{"candidate", "filter_passed", "cache_hit"},
                              {"candidate", "filter_passed", "cache_miss"}}
      BY <2>4, <3>1 DEF Probed
    <3>3. ASSUME NEW known \in SUBSET {"false_positive"}
          PROVE  BalancedFields(query[r].probe \cup known)
      BY <3>2 DEF BalancedFields
    <3>4. PICK known \in SUBSET {"false_positive"} :
            \/ /\ query' = [query EXCEPT ![r] = [query[r] EXCEPT !.pc = "body"]]
               /\ partitions' = partitions
            \/ Finish(r, query[r].probe \cup known)
      BY <2>13 DEF LookupCached, LookupRead, Search
    <3>5. CASE /\ query' = [query EXCEPT ![r] = [query[r] EXCEPT !.pc = "body"]]
               /\ partitions' = partitions
      <4>1. query'[r].pc = "body" /\ query'[r].probe = query[r].probe
        BY <2>4, <3>1, <3>5 DEF QueryFields
      <4> QED BY <2>6, <3>2, <3>5, <4>1 DEF Probed
    <3>6. CASE Finish(r, query[r].probe \cup known)
      BY <2>7, <3>1, <3>3, <3>6
    <3> QED BY <3>4, <3>5, <3>6
  <2>14. CASE BodyRead(r)
    <3>1. query[r].pc = "body"
      BY <2>14 DEF BodyRead
    <3>2. BalancedFields(query[r].probe \cup {"matched", "body_read"})
      BY <2>4, <3>1 DEF Probed, BalancedFields
    <3> QED BY <2>7, <2>14, <3>1, <3>2 DEF BodyRead
  <2> QED BY <2>1, <2>8, <2>9, <2>10, <2>11, <2>12, <2>13, <2>14
<1> QED BY <1>1, <1>2

\* Whatever the other queries insert or evict, the counters of a partition
\* agree with each other: the filtered and the passed candidates are all, and
\* the cache was asked about all but those outside the range.
THEOREM PartitionsCorrect == L0Spec => []PartitionsBalanced
<1>1. L0Init => Init /\ ReadsInv /\ BalanceInv
  BY IdleSound
     DEF L0Init, Init, ReadsInv, BalanceInv, Partitioned, Probed
<1>2. [L0Next]_readVars => [Next]_vars
  BY QueryStepImplementsReader DEF readVars
<1>3. L0Spec => []CacheInv
  <2>1. L0Spec => Spec
    BY <1>1, <1>2, PTL DEF L0Spec, Spec
  <2> QED BY <2>1, CacheInvariant, PTL
<1>4. CacheInv => TypeOK
  BY DEF CacheInv
<1>5. BalanceInv => PartitionsBalanced
  BY DEF BalanceInv, Partitioned, Balanced, PartitionsBalanced
<1> QED BY <1>1, <1>3, <1>4, <1>5, ReadsStep, BalanceStep, PTL DEF L0Spec

-----------------------------------------------------------------------------
(* The totals and the partitions.                                          *)

TotalFields == ProbeFields \cup {"get_neighbors_ops", "lookup_hit", "lookup_miss"}

\* What a query has seen of the segment that it is at.
Carried(q) == IF q.pc \in {"segment", "body"} THEN q.probe ELSE {}

AtSegment == {r \in Readers : query[r].pc \in {"segment", "body"}}

\* Everything that is counted is finite.
AccountTypeOK ==
  /\ totals \in [TotalFields -> Nat]
  /\ IsFiniteSet(DOMAIN partitions)
  /\ IsFiniteSet(AtSegment)
  /\ IsFiniteSet(failed)

\* A query fails once: the query its reader runs now started later.
FailedBefore(x) ==
  /\ x.reader \in Readers
  /\ x.ops \in Nat /\ x.ops <= totals.get_neighbors_ops
  /\ query[x.reader].pc # "idle" => x.ops < totals.get_neighbors_ops

\* The reader of a query looks for its source in the segment that the query
\* is at, and a segment that has passed its cached filter has all its bits.
FollowsQuery(r) ==
  query[r].pc = "segment" =>
    /\ reader[r].pc \in {"probe", "lookup", "read"}
    /\ reader[r].file = Segment(r)
    /\ reader[r].src = query[r].src
    /\ "cache_hit" \in query[r].probe =>
         may_contain(Metadata(offsets[Segment(r)]), query[r].src)

AccountInv ==
  /\ AccountTypeOK
  /\ \A x \in failed : FailedBefore(x)
  /\ \A r \in Readers : FollowsQuery(r)
  /\ ProbesAccounted

One(b) == IF b THEN 1 ELSE 0

\* The sum over a field of the metrics p.
LEMMA FieldSum ==
  ASSUME NEW p, NEW field
  PROVE  MapThenSumSet(LAMBDA k : p[k][field], DOMAIN p)
           = Sum([k \in DOMAIN p |-> p[k][field]], DOMAIN p)
<1> DEFINE D == DOMAIN p
           g == [k \in D |-> p[k][field]]
           pick(s) == CHOOSE x \in s : TRUE
           F(h) == [s \in SUBSET D |->
                      IF s = {} THEN 0
                      ELSE p[pick(s)][field] + h[s \ {pick(s)}]]
           G(h) == [s \in SUBSET D |->
                      IF s = {} THEN 0 ELSE g[pick(s)] + h[s \ {pick(s)}]]
<1>1. \A s \in SUBSET D : s # {} => pick(s) \in D
  OBVIOUS
<1>2. \A s \in SUBSET D : s # {} => g[pick(s)] = p[pick(s)][field]
  BY <1>1
<1>3. \A h : F(h) = G(h)
  <2> HIDE DEF pick, g
  <2> QED BY <1>2
<1>4. (CHOOSE h : h = F(h)) = (CHOOSE h : h = G(h))
  <2> HIDE DEF F, G
  <2> QED BY <1>3
<1> QED BY <1>4 DEF Sum, MapThenSumSet, MapThenFoldSet

\* Recording a set of fields adds one to what is counted in each.
LEMMA RecordCounts ==
  ASSUME Partitioned, IsFiniteSet(DOMAIN partitions), NEW key, NEW F,
         record_l0_partition(key, F)
  PROVE  /\ IsFiniteSet(DOMAIN partitions')
         /\ \A field \in MetricFields :
              Counted(field)' = Counted(field) + One(field \in F)
<1> DEFINE D == DOMAIN partitions
<1>1. DOMAIN partitions' = D \cup {key} /\ IsFiniteSet(D \cup {key})
  BY FS_AddElement DEF record_l0_partition
<1>2. ASSUME NEW field \in MetricFields
      PROVE  Counted(field)' = Counted(field) + One(field \in F)
  <2> DEFINE g == [k \in D |-> partitions[k][field]]
             h == [k \in D \cup {key} |-> partitions'[k][field]]
  <2>1. Counted(field) = Sum(g, D)
    BY FieldSum DEF Counted
  <2>2. Counted(field)' = Sum(h, D \cup {key})
    <3>1. Counted(field)'
            = Sum([k \in DOMAIN partitions' |-> partitions'[k][field]],
                  DOMAIN partitions')
      <4>1. Counted(field)'
              = MapThenSumSet(LAMBDA k : partitions'[k][field], DOMAIN partitions')
        BY DEF Counted, MapThenSumSet, MapThenFoldSet
      <4> QED BY <4>1, FieldSum
    <3> QED BY <1>1, <3>1
  <2>3. \A k \in D : partitions[k] \in [MetricFields -> Nat]
    BY DEF Partitioned
  <2>4. \A k \in D : g[k] \in Int
    BY <2>3
  <2>5. \A k \in D : k # key => h[k] = g[k]
    BY DEF record_l0_partition
  <2>6. CASE key \in D
    <3>1. h[key] = g[key] + One(field \in F)
      BY <2>3, <2>6 DEF record_l0_partition, metric, Plus, One
    <3>2. D \cup {key} = D /\ \A k \in D : h[k] \in Int
      <4>1. D \cup {key} = D
        BY <2>6
      <4>2. h[key] \in Int
        BY <2>4, <2>6, <3>1 DEF One
      <4>3. \A k \in D : k # key => h[k] \in Int
        BY <2>4, <2>5
      <4> HIDE DEF h
      <4> QED BY <4>1, <4>2, <4>3
    <3>3. Sum(h, D) = Sum(g, D) - g[key] + h[key]
      <4>1. /\ \A k \in D : g[k] \in Int /\ h[k] \in Int
            /\ \A k \in D : k # key => g[k] = h[k]
        <5> HIDE DEF h, g
        <5> QED BY <2>4, <2>5, <3>2
      <4>2. IsFiniteSet(D)
        OBVIOUS
      <4> HIDE DEF D, g, h
      <4> QED BY <2>6, <4>1, <4>2, SumChange
    <3>4. Sum(g, D) \in Int /\ g[key] \in Int
      <4> HIDE DEF D, g
      <4> QED BY <2>4, <2>6, SumInt DEF D
    <3>5. Counted(field)' = Sum(h, D)
      <4> HIDE DEF D, h
      <4> QED BY <2>2, <3>2
    <3> HIDE DEF D, g, h
    <3> QED BY <2>1, <3>1, <3>3, <3>4, <3>5 DEF One
  <2>7. CASE key \notin D
    <3>1. h[key] = One(field \in F)
      BY <2>7 DEF record_l0_partition, metric, Zero, Plus, One, MetricFields
    <3>2. \A k \in D \cup {key} : h[k] \in Int
      BY <2>4, <2>5, <3>1 DEF One
    <3>3. Sum(h, D \cup {key}) = Sum(h, D) + h[key]
      <4> HIDE DEF D, h
      <4> QED BY <2>7, <3>2, SumAdd DEF D
    <3>4. Sum(h, D) = Sum(g, D)
      <4>1. \A k \in D : h[k] \in Int /\ h[k] = g[k]
        BY <2>5, <2>7, <3>2
      <4> HIDE DEF D, g, h
      <4> QED BY <4>1, SumSame DEF D
    <3> HIDE DEF D, g, h
    <3> QED BY <2>1, <2>2, <3>1, <3>3, <3>4
  <2> QED BY <2>6, <2>7
<1> QED BY <1>1, <1>2

\* A finite set that may lose or gain r.
LEMMA MemberMoves ==
  ASSUME NEW S, NEW T, IsFiniteSet(S), NEW r, T \ {r} = S \ {r}
  PROVE  /\ IsFiniteSet(T) /\ Cardinality(S) \in Nat
         /\ Cardinality(T) = Cardinality(S) - One(r \in S) + One(r \in T)
<1> DEFINE R == S \ {r}
<1>1. IsFiniteSet(R) /\ Cardinality(R) \in Nat /\ r \notin R
  BY FS_Subset, FS_CardinalityType
<1>2. IsFiniteSet(R \cup {r}) /\ Cardinality(R \cup {r}) = Cardinality(R) + 1
  BY <1>1, FS_AddElement
<1>3. ASSUME NEW U, U \ {r} = R
      PROVE  IsFiniteSet(U) /\ Cardinality(U) = Cardinality(R) + One(r \in U)
  <2>1. CASE r \in U
    <3>1. U = R \cup {r}
      BY <1>3, <2>1
    <3> QED BY <1>2, <2>1, <3>1 DEF One
  <2>2. CASE r \notin U
    <3>1. U = R
      BY <1>3, <2>2
    <3> QED BY <1>1, <2>2, <3>1 DEF One
  <2> QED BY <2>1, <2>2
<1>4. /\ Cardinality(S) = Cardinality(R) + One(r \in S)
      /\ IsFiniteSet(T) /\ Cardinality(T) = Cardinality(R) + One(r \in T)
  BY <1>3
<1> HIDE DEF R
<1> QED BY <1>1, <1>4 DEF One

Carriers(field) == {r \in Readers : field \in Carried(query[r])}

\* What is underway is carried by a query, or was by one that failed.
LEMMA UnderwayType ==
  ASSUME AccountTypeOK, NEW field
  PROVE  /\ Underway(field) = Cardinality(Carriers(field))
                                + Cardinality({x \in failed : field \in x.probe})
         /\ IsFiniteSet(Carriers(field)) /\ Cardinality(Carriers(field)) \in Nat
         /\ Cardinality({x \in failed : field \in x.probe}) \in Nat
<1>1. Carriers(field) = {r \in Readers : /\ query[r].pc \in {"segment", "body"}
                                         /\ field \in query[r].probe}
  BY DEF Carriers, Carried
<1>2. Carriers(field) \in SUBSET AtSegment
  BY <1>1 DEF AtSegment
<1>3. {x \in failed : field \in x.probe} \in SUBSET failed
  OBVIOUS
<1>4. IsFiniteSet(Carriers(field)) /\ Cardinality(Carriers(field)) \in Nat
  BY <1>2, FS_Subset, FS_CardinalityType DEF AccountTypeOK
<1>5. Cardinality({x \in failed : field \in x.probe}) \in Nat
  BY <1>3, FS_Subset, FS_CardinalityType DEF AccountTypeOK
<1> QED BY <1>1, <1>4, <1>5 DEF Underway
\* What a step of a query counts at once (F), for a partition (G), and has
\* carried before (A) and carries after it (B), add up.
AddsUp(F, G, A, B) ==
  /\ \A field \in {"candidate", "range_filtered", "filter_passed", "matched",
                   "body_read"} :
       One(field \in F) = One(field \in G) - One(field \in A) + One(field \in B)
  /\ \A field \in {"bloom_filtered", "false_positive"} :
       One(field \in G) <= One(field \in F)
  /\ One("filter_passed" \in F)
       = One("matched" \in F) + One("false_positive" \in F)
           + One("bloom_filtered" \in F) - One("bloom_filtered" \in G)
           - One("filter_passed" \in A) + One("filter_passed" \in B)

\* A query that adds up what it counts keeps the accounts.
LEMMA AccountMoves ==
  ASSUME AccountTypeOK, Partitioned, ProbesAccounted, PartitionsBalanced',
         NEW r \in Readers, NEW F, NEW G, NEW key,
         \A o \in Readers : o # r => query'[o] = query[o],
         failed' = failed,
         totals' = Plus(totals, F),
         record_l0_partition(key, G) \/ (G = {} /\ partitions' = partitions),
         AddsUp(F, G, Carried(query[r]), Carried(query'[r]))
  PROVE  AccountTypeOK' /\ ProbesAccounted'
<1> DEFINE A == Carried(query[r])
           B == Carried(query'[r])
<1>1. /\ totals' \in [TotalFields -> Nat]
      /\ \A x \in TotalFields : totals'[x] = totals[x] + One(x \in F)
  BY DEF AccountTypeOK, Plus, One
<1>2. /\ IsFiniteSet(DOMAIN partitions')
      /\ \A field \in MetricFields :
           Counted(field)' = Counted(field) + One(field \in G)
  <2>1. CASE record_l0_partition(key, G)
    BY <2>1, RecordCounts DEF AccountTypeOK
  <2>2. CASE G = {} /\ partitions' = partitions
    <3>1. \A field \in MetricFields :
            /\ Counted(field)' = Counted(field)
            /\ Counted(field) \in Int
      <4> SUFFICES ASSUME NEW field \in MetricFields
                   PROVE  Counted(field)' = Counted(field) /\ Counted(field) \in Int
        OBVIOUS
      <4> DEFINE g == [k \in DOMAIN partitions |-> partitions[k][field]]
      <4>1. \A k \in DOMAIN partitions : g[k] \in Int
        BY DEF Partitioned
      <4>2. Sum(g, DOMAIN partitions) \in Int
        <5> HIDE DEF g
        <5> QED BY <4>1, SumInt DEF AccountTypeOK
      <4>3. Counted(field) \in Int
        BY <4>2, FieldSum DEF Counted
      <4>4. Counted(field)' = Counted(field)
        BY <2>2 DEF Counted, MapThenSumSet, MapThenFoldSet
      <4> QED BY <4>3, <4>4
    <3> QED BY <2>2, <3>1 DEF AccountTypeOK, One
  <2> QED BY <2>1, <2>2
<1>3. /\ IsFiniteSet(AtSegment')
      /\ \A field : Underway(field)' = Underway(field) - One(field \in A)
                                                       + One(field \in B)
  <2>1. AtSegment' \ {r} = AtSegment \ {r}
    BY DEF AtSegment
  <2>2. IsFiniteSet(AtSegment')
    BY <2>1, MemberMoves DEF AccountTypeOK
  <2>3. AccountTypeOK'
    BY <1>1, <1>2, <2>2 DEF AccountTypeOK
  <2>4. ASSUME NEW field
        PROVE  Underway(field)' = Underway(field) - One(field \in A)
                                                  + One(field \in B)
    <3> DEFINE C == Carriers(field)
               lost == Cardinality({x \in failed : field \in x.probe})
    <3>1. C' \ {r} = C \ {r}
      BY DEF Carriers
    <3>2. (r \in C <=> field \in A) /\ (r \in C' <=> field \in B)
      BY DEF Carriers
    <3>3. /\ Underway(field) = Cardinality(C) + lost
          /\ IsFiniteSet(C) /\ Cardinality(C) \in Nat /\ lost \in Nat
      BY UnderwayType
    <3>4. Underway(field)' = Cardinality(C') + lost
      <4>1. Carriers(field)' = {o \in Readers :
                                  /\ query'[o].pc \in {"segment", "body"}
                                  /\ field \in query'[o].probe}
        BY DEF Carriers, Carried
      <4> QED BY <4>1 DEF Underway
    <3>5. Cardinality(C') = Cardinality(C) - One(r \in C) + One(r \in C')
      <4> HIDE DEF C
      <4> QED BY <3>1, <3>3, MemberMoves
    <3> HIDE DEF C, lost, A, B
    <3> QED BY <3>2, <3>3, <3>4, <3>5 DEF One
  <2> QED BY <2>2, <2>4
<1>4. AccountTypeOK'
  BY <1>1, <1>2, <1>3 DEF AccountTypeOK
<1>5. \A b : One(b) \in {0, 1}
  BY DEF One
<1>6. \A field \in TotalFields : totals[field] \in Nat
  BY DEF AccountTypeOK
<1>7. ASSUME NEW field \in MetricFields PROVE Counted(field) \in Int
  <2> DEFINE g == [k \in DOMAIN partitions |-> partitions[k][field]]
  <2>1. \A k \in DOMAIN partitions : g[k] \in Int
    BY DEF Partitioned
  <2>2. Sum(g, DOMAIN partitions) \in Int
    <3> HIDE DEF g
    <3> QED BY <2>1, SumInt DEF AccountTypeOK
  <2> QED BY <2>2, FieldSum DEF Counted
<1>8. \A field : Underway(field) \in Int
  <2> TAKE field
  <2> DEFINE lost == Cardinality({x \in failed : field \in x.probe})
  <2>1. /\ Underway(field) = Cardinality(Carriers(field)) + lost
        /\ Cardinality(Carriers(field)) \in Nat /\ lost \in Nat
    BY UnderwayType
  <2> HIDE DEF lost
  <2> QED BY <2>1
<1>9. {"candidate", "range_filtered", "filter_passed", "matched", "body_read",
       "bloom_filtered", "false_positive"} \subseteq MetricFields \cap TotalFields
  BY DEF MetricFields, TotalFields, ProbeFields
<1>10. AddsUp(F, G, A, B)
  OBVIOUS
<1> HIDE DEF A, B
<1>11. ASSUME NEW field \in {"candidate", "range_filtered", "filter_passed",
                             "matched", "body_read"}
       PROVE  totals'[field] = Counted(field)' + Underway(field)'
  <2>1. totals[field] = Counted(field) + Underway(field)
    BY DEF ProbesAccounted
  <2>2. /\ totals'[field] = totals[field] + One(field \in F)
        /\ Counted(field)' = Counted(field) + One(field \in G)
        /\ Underway(field)' = Underway(field) - One(field \in A)
                                              + One(field \in B)
        /\ Counted(field) \in Int
    BY <1>1, <1>2, <1>3, <1>7, <1>9
  <2>3. One(field \in F) = One(field \in G) - One(field \in A) + One(field \in B)
    BY <1>10 DEF AddsUp
  <2> QED BY <1>5, <1>8, <2>1, <2>2, <2>3
<1>12. ASSUME NEW field \in {"bloom_filtered", "false_positive"}
       PROVE  /\ totals'[field] = totals[field] + One(field \in F)
              /\ Counted(field)' = Counted(field) + One(field \in G)
              /\ Counted(field) \in Int /\ totals[field] \in Int
              /\ One(field \in G) <= One(field \in F)
              /\ Counted(field) <= totals[field]
  <2>1. /\ totals'[field] = totals[field] + One(field \in F)
        /\ Counted(field)' = Counted(field) + One(field \in G)
        /\ Counted(field) \in Int /\ totals[field] \in Int
    BY <1>1, <1>2, <1>6, <1>7, <1>9
  <2>2. One(field \in G) <= One(field \in F)
    BY <1>10 DEF AddsUp
  <2>3. Counted(field) <= totals[field]
    BY <2>1 DEF ProbesAccounted
  <2> QED BY <2>1, <2>2, <2>3
<1>13. /\ totals'.bloom_filtered - Counted("bloom_filtered")' >= 0
       /\ Counted("false_positive")' <= totals'.false_positive
  BY <1>5, <1>12
<1>14. totals'.filter_passed
         = totals'.matched + totals'.false_positive
             + (totals'.bloom_filtered - Counted("bloom_filtered")')
             + Underway("filter_passed")'
  <2>1. totals.filter_passed
          = totals.matched + totals.false_positive
              + (totals.bloom_filtered - Counted("bloom_filtered"))
              + Underway("filter_passed")
    BY DEF ProbesAccounted
  <2>2. \A x \in {"filter_passed", "matched", "false_positive", "bloom_filtered"} :
          totals'[x] = totals[x] + One(x \in F) /\ totals[x] \in Int
    BY <1>1, <1>6, <1>9
  <2>3. One("filter_passed" \in F)
          = One("matched" \in F) + One("false_positive" \in F)
              + One("bloom_filtered" \in F) - One("bloom_filtered" \in G)
              - One("filter_passed" \in A) + One("filter_passed" \in B)
    BY <1>10 DEF AddsUp
  <2>4. /\ Counted("bloom_filtered")'
             = Counted("bloom_filtered") + One("bloom_filtered" \in G)
        /\ Underway("filter_passed")'
             = Underway("filter_passed") - One("filter_passed" \in A)
                                         + One("filter_passed" \in B)
        /\ Counted("bloom_filtered") \in Int /\ Underway("filter_passed") \in Int
    BY <1>3, <1>8, <1>12
  <2> QED BY <1>5, <2>1, <2>2, <2>3, <2>4
<1> QED BY <1>4, <1>11, <1>13, <1>14 DEF ProbesAccounted

\* Only one query moves: the others still follow their readers.
LEMMA FollowsStep ==
  ASSUME TypeOK, ReadsInv, BalanceInv, \A o \in Readers : FollowsQuery(o),
         NEW r \in Readers,
         \/ QueryStart(r) \/ Turn(r) \/ CachedProbe(r) \/ UncachedProbe(r)
         \/ LookupUncached(r) \/ LookupCached(r) \/ LookupRead(r)
         \/ BodyRead(r) \/ Fail(r) \/ QueryEnd(r) \/ RecordLatency(r)
  PROVE  \A o \in Readers : FollowsQuery(o)'
<1>1. \A o \in Readers : o # r => query'[o] = query[o] /\ reader'[o] = reader[o]
  BY QueryFrame
<1>2. ASSUME NEW o \in Readers, o # r PROVE FollowsQuery(o)'
  BY <1>1, <1>2 DEF FollowsQuery, Segment
<1>3. FollowsQuery(r)'
  <2>1. /\ DOMAIN query = Readers /\ DOMAIN reader = Readers
        /\ Sound(query[r]) /\ Probed(query[r], reader[r]) /\ FollowsQuery(r)
    BY DEF ReadsInv, TypeOK, BalanceInv
  <2>2. query[r].pc # "idle" => DOMAIN query[r] = QueryFields
    BY <2>1 DEF Sound
  <2>3. query'[r].pc # "segment" => FollowsQuery(r)'
    BY DEF FollowsQuery
  <2>4. ASSUME NEW F, Finish(r, F), query[r].pc # "idle"
        PROVE  FollowsQuery(r)'
    <3>1. query'[r].pc = "turn"
      BY <2>1, <2>2, <2>4 DEF Finish, QueryFields
    <3> QED BY <2>3, <3>1
  <2>5. CASE QueryStart(r) \/ Fail(r) \/ QueryEnd(r)
    <3>1. query'[r].pc \in {"turn", "idle"}
      BY <2>1, <2>5 DEF QueryStart, Fail, QueryEnd
    <3> QED BY <2>3, <3>1
  <2>6. CASE RecordLatency(r)
    BY <2>1, <2>6 DEF RecordLatency, vars, l0Vars, FollowsQuery, Segment
  <2>7. CASE LookupUncached(r)
    <3>1. /\ reader'[r].pc = "read" /\ query' = query
          /\ reader'[r].file = reader[r].file /\ reader'[r].src = reader[r].src
      BY <2>1, <2>7 DEF LookupUncached, LookupMiss, Goto
    <3> QED BY <2>1, <3>1 DEF FollowsQuery, Segment
  <2>8. CASE Turn(r)
    <3>1. query[r].pc = "turn" /\ DOMAIN query[r] = QueryFields
      BY <2>2, <2>8 DEF Turn
    <3> DEFINE i == Min(Left(r))
               touched == query[r].touched \cup {KeyOf(r, l0[i])}
               next == [query[r] EXCEPT !.at = i, !.touched = touched]
               at_segment == [next EXCEPT !.pc = "segment",
                                          !.probe = {"candidate"}]
    <3>2. \/ query' = [query EXCEPT ![r] = next]
          \/ /\ query' = [query EXCEPT ![r] = at_segment]
             /\ Visit(r)
             /\ reader'[r].file = l0[i] /\ reader'[r].src = query[r].src
      BY <2>8 DEF Turn
    <3>3. /\ next.pc = "turn"
          /\ at_segment.pc = "segment" /\ at_segment.probe = {"candidate"}
          /\ at_segment.at = i /\ at_segment.src = query[r].src
      BY <3>1 DEF QueryFields
    <3> HIDE DEF next, at_segment, i
    <3>4. CASE query' = [query EXCEPT ![r] = next]
      BY <2>1, <2>3, <3>3, <3>4
    <3>5. CASE /\ query' = [query EXCEPT ![r] = at_segment]
               /\ Visit(r)
               /\ reader'[r].file = l0[i] /\ reader'[r].src = query[r].src
      <4>1. query'[r] = at_segment
        BY <2>1, <3>5
      <4>2. reader'[r].pc = "probe"
        BY <2>1, <3>5 DEF Visit
      <4> QED BY <3>3, <3>5, <4>1, <4>2 DEF FollowsQuery, Segment
    <3> QED BY <3>2, <3>4, <3>5
  <2>9. CASE CachedProbe(r) \/ UncachedProbe(r)
    <3>1. /\ query[r].pc = "segment" /\ reader[r].pc = "probe"
          /\ query[r].probe = {"candidate"} /\ DOMAIN query[r] = QueryFields
      BY <2>1, <2>2, <2>9
         DEF CachedProbe, UncachedProbe, ProbeHit, ProbeMiss, Probed
    <3>2. reader[r].file = Segment(r) /\ reader[r].src = query[r].src
      BY <2>1, <3>1 DEF FollowsQuery
    <3>3. ASSUME NEW seen \in {"cache_hit", "cache_miss"}, Pass(r, seen),
                 Goto(r, "lookup"),
                 seen = "cache_hit" =>
                   may_contain(Metadata(offsets[Segment(r)]), query[r].src)
          PROVE  FollowsQuery(r)'
      <4>1. /\ query'[r].pc = "segment" /\ query'[r].at = query[r].at
            /\ query'[r].src = query[r].src
            /\ query'[r].probe = {"candidate", "filter_passed", seen}
        BY <2>1, <3>1, <3>3 DEF Pass, QueryFields
      <4>2. /\ reader'[r].pc = "lookup" /\ reader'[r].file = reader[r].file
            /\ reader'[r].src = reader[r].src
        BY <2>1, <3>3 DEF Goto
      <4> QED BY <3>2, <3>3, <4>1, <4>2 DEF FollowsQuery, Segment
    <3>4. CASE CachedProbe(r)
      <4>1. CASE reader'[r].pc = "lookup" /\ Pass(r, "cache_hit")
        <5>1. may_contain(map[reader[r].file], reader[r].src) /\ Goto(r, "lookup")
          BY <2>1, <3>4, <4>1 DEF CachedProbe, ProbeHit, Answer
        <5>2. map[reader[r].file] = Metadata(offsets[reader[r].file])
          BY <3>4 DEF CachedProbe, ProbeHit, CacheGet, TypeOK
        <5> QED BY <3>2, <3>3, <4>1, <5>1, <5>2
      <4>2. CASE Finish(r, query[r].probe \cup {"bloom_filtered", "cache_hit"})
        BY <2>4, <3>1, <4>2
      <4> QED BY <3>4, <4>1, <4>2 DEF CachedProbe
    <3>5. CASE UncachedProbe(r)
      BY <3>3, <3>5 DEF UncachedProbe, ProbeMiss
    <3> QED BY <2>9, <3>4, <3>5
  <2>10. CASE LookupCached(r) \/ LookupRead(r)
    <3>1. query[r].pc = "segment" /\ DOMAIN query[r] = QueryFields
      BY <2>2, <2>10 DEF LookupCached, LookupRead
    <3>2. PICK F :
            \/ query' = [query EXCEPT ![r] = [query[r] EXCEPT !.pc = "body"]]
            \/ Finish(r, F)
      BY <2>10 DEF LookupCached, LookupRead, Search
    <3>3. CASE query' = [query EXCEPT ![r] = [query[r] EXCEPT !.pc = "body"]]
      <4>1. query'[r].pc = "body"
        BY <2>1, <3>1, <3>3 DEF QueryFields
      <4> QED BY <2>3, <4>1
    <3>4. CASE Finish(r, F)
      BY <2>4, <3>1, <3>4
    <3> QED BY <3>2, <3>3, <3>4
  <2>11. CASE BodyRead(r)
    <3>1. /\ query[r].pc = "body"
          /\ Finish(r, query[r].probe \cup {"matched", "body_read"})
      BY <2>11 DEF BodyRead
    <3> QED BY <2>4, <3>1
  <2> QED BY <2>5, <2>6, <2>7, <2>8, <2>9, <2>10, <2>11
<1> QED BY <1>2, <1>3

\* A query that fails has not failed before, and what it carried is lost.
LEMMA FailStep ==
  ASSUME AccountInv, ReadsInv, NEW r \in Readers, Fail(r)
  PROVE  /\ AccountTypeOK' /\ ProbesAccounted'
         /\ \A x \in failed' : FailedBefore(x)'
<1> DEFINE x == [ops |-> totals.get_neighbors_ops, reader |-> r,
                 probe |-> query[r].probe]
<1>1. /\ query[r].pc \in {"segment", "body"}
      /\ failed' = failed \cup {x}
      /\ query' = [query EXCEPT ![r] = [pc |-> "idle"]]
      /\ partitions' = partitions /\ totals' = totals
  BY DEF Fail
<1>2. /\ query'[r] = [pc |-> "idle"]
      /\ \A o \in Readers : o # r => query'[o] = query[o]
  BY <1>1 DEF ReadsInv
<1>3. x \notin failed
  <2> SUFFICES ASSUME x \in failed PROVE FALSE
    OBVIOUS
  <2>1. /\ x.ops \in Nat
        /\ query[x.reader].pc # "idle" => x.ops < totals.get_neighbors_ops
    BY DEF AccountInv, FailedBefore
  <2>2. x.ops = totals.get_neighbors_ops /\ x.reader = r
    OBVIOUS
  <2> HIDE DEF x
  <2> QED BY <1>1, <2>1, <2>2
<1>4. AccountTypeOK'
  <2>1. AtSegment' \ {r} = AtSegment \ {r}
    BY <1>2 DEF AtSegment
  <2>2. IsFiniteSet(AtSegment')
    BY <2>1, MemberMoves DEF AccountInv, AccountTypeOK
  <2>3. IsFiniteSet(failed')
    BY <1>1, FS_AddElement DEF AccountInv, AccountTypeOK
  <2> QED BY <1>1, <2>2, <2>3 DEF AccountInv, AccountTypeOK
<1>5. ASSUME NEW field PROVE Underway(field)' = Underway(field)
  <2> DEFINE C == Carriers(field)
             L == {y \in failed : field \in y.probe}
             M == {y \in failed' : field \in y.probe}
  <2>1. /\ Underway(field) = Cardinality(C) + Cardinality(L)
        /\ IsFiniteSet(C) /\ Cardinality(C) \in Nat /\ Cardinality(L) \in Nat
    BY UnderwayType DEF AccountInv
  <2>2. Underway(field)' = Cardinality(C') + Cardinality(M)
    <3>1. C' = {o \in Readers : /\ query'[o].pc \in {"segment", "body"}
                                /\ field \in query'[o].probe}
      BY DEF Carriers, Carried
    <3> QED BY <3>1 DEF Underway
  <2>3. C' \ {r} = C \ {r} /\ r \notin C' /\ (r \in C <=> field \in x.probe)
    BY <1>1, <1>2 DEF Carriers, Carried
  <2>4. M \ {x} = L \ {x} /\ x \notin L /\ (x \in M <=> field \in x.probe)
    <3> HIDE DEF x
    <3> QED BY <1>1, <1>3
  <2>5. IsFiniteSet(L)
    <3>1. L \in SUBSET failed
      OBVIOUS
    <3> QED BY <3>1, FS_Subset DEF AccountInv, AccountTypeOK
  <2> HIDE DEF C, L, M, x
  <2>6. Cardinality(C') = Cardinality(C) - One(r \in C) + One(r \in C')
    BY <2>1, <2>3, MemberMoves
  <2>7. Cardinality(M) = Cardinality(L) - One(x \in L) + One(x \in M)
    <3>1. M \ {x} = L \ {x} /\ IsFiniteSet(L)
      BY <2>4, <2>5
    <3> QED BY <3>1, MemberMoves
  <2> QED BY <2>1, <2>2, <2>3, <2>4, <2>6, <2>7 DEF One
<1>6. \A field : Counted(field)' = Counted(field)
  BY <1>1 DEF Counted, MapThenSumSet, MapThenFoldSet
<1>7. PartitionsBalanced'
  BY <1>1 DEF AccountInv, ProbesAccounted, PartitionsBalanced
<1>8. ProbesAccounted'
  BY <1>1, <1>5, <1>6, <1>7 DEF AccountInv, ProbesAccounted
<1>9. ASSUME NEW y \in failed' PROVE FailedBefore(y)'
  <2>1. CASE y \in failed
    <3>1. FailedBefore(y)
      BY <2>1 DEF AccountInv
    <3> QED BY <1>1, <1>2, <3>1 DEF FailedBefore
  <2>2. CASE y = x
    <3>1. totals.get_neighbors_ops \in Nat
      BY DEF AccountInv, AccountTypeOK, TotalFields
    <3>2. y.reader = r /\ y.ops = totals.get_neighbors_ops
      BY <2>2
    <3> HIDE DEF x
    <3> QED BY <1>1, <1>2, <3>1, <3>2 DEF FailedBefore
  <2> QED BY <1>1, <2>1, <2>2
<1> QED BY <1>4, <1>8, <1>9

\* Between its start and its end a query counts no query, and fails none.
LEMMA FailedStays ==
  ASSUME AccountInv, NEW r \in Readers, query[r].pc # "idle",
         \A o \in Readers : o # r => query'[o] = query[o],
         failed' = failed,
         totals'.get_neighbors_ops = totals.get_neighbors_ops
  PROVE  \A x \in failed' : FailedBefore(x)'
<1> SUFFICES ASSUME NEW x \in failed PROVE FailedBefore(x)'
  OBVIOUS
<1>1. FailedBefore(x)
  BY DEF AccountInv
<1> QED BY <1>1 DEF FailedBefore

\* A step of nobody.
LEMMA AccountStays ==
  ASSUME AccountInv, UNCHANGED l0Vars
  PROVE  /\ AccountTypeOK' /\ ProbesAccounted'
         /\ \A x \in failed' : FailedBefore(x)'
<1>1. \A field : Counted(field)' = Counted(field)
  BY DEF Counted, MapThenSumSet, MapThenFoldSet, l0Vars
<1>2. \A field : Underway(field)' = Underway(field)
  BY DEF Underway, l0Vars
<1>3. AccountTypeOK' /\ \A x \in failed' : FailedBefore(x)'
  BY DEF AccountInv, AccountTypeOK, AtSegment, FailedBefore, l0Vars
<1>4. ProbesAccounted'
  BY <1>1, <1>2 DEF AccountInv, ProbesAccounted, PartitionsBalanced, l0Vars
<1> QED BY <1>3, <1>4

\* Every step of the L0 loop keeps the accounts.
LEMMA AccountStep ==
  ASSUME AccountInv, BalanceInv, ReadsInv, TypeOK, [L0Next]_readVars,
         BalanceInv'
  PROVE  AccountInv'
<1>1. CASE UNCHANGED readVars
  <2>1. \A r \in Readers : FollowsQuery(r)'
    BY <1>1 DEF AccountInv, FollowsQuery, Segment, readVars, vars, l0Vars
  <2> QED BY <1>1, <2>1, AccountStays DEF AccountInv, readVars
<1>2. CASE L0Next
  <2>1. PICK r \in Readers :
          \/ QueryStart(r) \/ Turn(r) \/ CachedProbe(r) \/ UncachedProbe(r)
          \/ LookupUncached(r) \/ LookupCached(r) \/ LookupRead(r)
          \/ BodyRead(r) \/ Fail(r) \/ QueryEnd(r) \/ RecordLatency(r)
    BY <1>2 DEF L0Next
  <2>2. \A o \in Readers : FollowsQuery(o)'
    BY <2>1, FollowsStep DEF AccountInv
  <2>3. SUFFICES /\ AccountTypeOK' /\ ProbesAccounted'
                 /\ \A x \in failed' : FailedBefore(x)'
    BY <2>2 DEF AccountInv
  <2>4. \A o \in Readers : o # r => query'[o] = query[o]
    BY <2>1, QueryFrame
  <2>5. /\ DOMAIN query = Readers /\ DOMAIN reader = Readers
        /\ Sound(query[r]) /\ Probed(query[r], reader[r]) /\ FollowsQuery(r)
        /\ AccountTypeOK /\ ProbesAccounted /\ Partitioned
        /\ PartitionsBalanced'
    BY DEF ReadsInv, TypeOK, BalanceInv, AccountInv, Partitioned, Balanced,
           PartitionsBalanced
  <2>6. query[r].pc # "idle" => DOMAIN query[r] = QueryFields
    BY <2>5 DEF Sound
  <2>7. CASE Fail(r)
    BY <2>7, FailStep
  <2>8. CASE RecordLatency(r)
    BY <2>8, AccountStays DEF RecordLatency
  <2>9. CASE QueryStart(r) \/ QueryEnd(r)
    <3>1. /\ query[r].pc \in {"idle", "turn"} /\ query'[r].pc \in {"idle", "turn"}
          /\ failed' = failed /\ partitions' = partitions
      BY <2>5, <2>9 DEF QueryStart, QueryEnd
    <3>2. PICK F \in {{}, {"get_neighbors_ops"}} :
            totals' = Plus(totals, F)
              /\ (F = {} => query'[r].pc = "idle")
      <4>1. CASE QueryStart(r)
        BY <4>1 DEF QueryStart, Count
      <4>2. CASE QueryEnd(r)
        <5>1. Plus(totals, {}) = totals
          BY <2>5 DEF Plus, AccountTypeOK
        <5> QED BY <2>5, <4>2, <5>1 DEF QueryEnd
      <4> QED BY <2>9, <4>1, <4>2
    <3>3. AddsUp(F, {}, Carried(query[r]), Carried(query'[r]))
      BY <3>1 DEF AddsUp, Carried, One
    <3>4. AccountTypeOK' /\ ProbesAccounted'
      BY <2>4, <2>5, <3>1, <3>2, <3>3, AccountMoves
    <3>5. ASSUME NEW x \in failed' PROVE FailedBefore(x)'
      <4>1. FailedBefore(x) /\ totals.get_neighbors_ops \in Nat
        BY <3>1, <3>5 DEF AccountInv, AccountTypeOK, TotalFields
      <4>2. totals'.get_neighbors_ops
              = totals.get_neighbors_ops + One("get_neighbors_ops" \in F)
        BY <2>5, <3>2 DEF Plus, One, AccountTypeOK, TotalFields
      <4>3. CASE F = {}
        <5>1. totals'.get_neighbors_ops = totals.get_neighbors_ops
          BY <4>1, <4>2, <4>3 DEF One
        <5> QED BY <2>4, <3>2, <4>1, <4>3, <5>1 DEF FailedBefore
      <4>4. CASE F = {"get_neighbors_ops"}
        <5>1. totals'.get_neighbors_ops = totals.get_neighbors_ops + 1
          BY <4>2, <4>4 DEF One
        <5> QED BY <4>1, <5>1 DEF FailedBefore
      <4> QED BY <3>2, <4>3, <4>4
    <3> QED BY <3>4, <3>5
  \* A query counts F at once, G for a partition.
  <2>10. ASSUME NEW F, NEW G, NEW key, query[r].pc # "idle",
                "get_neighbors_ops" \notin F, failed' = failed, Count(F),
                \/ record_l0_partition(key, G)
                \/ G = {} /\ partitions' = partitions,
                AddsUp(F, G, Carried(query[r]), Carried(query'[r]))
         PROVE  /\ AccountTypeOK' /\ ProbesAccounted'
                /\ \A x \in failed' : FailedBefore(x)'
    <3>1. AccountTypeOK' /\ ProbesAccounted'
      BY <2>4, <2>5, <2>10, AccountMoves DEF Count
    <3>2. totals'.get_neighbors_ops = totals.get_neighbors_ops
      BY <2>5, <2>10 DEF Count, Plus, AccountTypeOK, TotalFields
    <3> QED BY <2>4, <2>10, <3>1, <3>2, FailedStays
  <2>11. ASSUME NEW F, NEW G, query[r].pc # "idle",
                "get_neighbors_ops" \notin F, failed' = failed, Count(F),
                Finish(r, G), AddsUp(F, G, Carried(query[r]), {})
         PROVE  /\ AccountTypeOK' /\ ProbesAccounted'
                /\ \A x \in failed' : FailedBefore(x)'
    <3>1. query'[r].pc = "turn" /\ record_l0_partition(Key(r), G)
      BY <2>5, <2>6, <2>11 DEF Finish, QueryFields
    <3>2. Carried(query'[r]) = {}
      BY <3>1 DEF Carried
    <3> QED BY <2>10, <2>11, <3>1, <3>2
  <2>12. CASE LookupUncached(r)
    <3>1. /\ query[r].pc = "segment" /\ query' = query /\ failed' = failed
          /\ Count({"lookup_miss"}) /\ partitions' = partitions
      BY <2>12 DEF LookupUncached
    <3>2. AddsUp({"lookup_miss"}, {}, Carried(query[r]), Carried(query'[r]))
      BY <3>1 DEF AddsUp, One
    <3> QED BY <2>10, <3>1, <3>2
  <2>13. CASE Turn(r)
    <3>1. query[r].pc = "turn" /\ DOMAIN query[r] = QueryFields /\ failed' = failed
      BY <2>6, <2>13 DEF Turn
    <3> DEFINE i == Min(Left(r))
               key == KeyOf(r, l0[i])
               first == IF key \in query[r].touched THEN {} ELSE {"query"}
               next == [query[r] EXCEPT !.at = i, !.touched = @ \cup {key}]
               at_segment == [next EXCEPT !.pc = "segment", !.probe = {"candidate"}]
               outside == first \cup {"candidate", "range_filtered"}
    <3>2. \/ /\ record_l0_partition(key, outside)
             /\ Count({"candidate", "range_filtered"})
             /\ query' = [query EXCEPT ![r] = next]
          \/ /\ record_l0_partition(key, first)
             /\ Count({"candidate"})
             /\ query' = [query EXCEPT ![r] = at_segment]
      BY <2>13 DEF Turn
    <3>3. /\ AddsUp({"candidate", "range_filtered"}, outside, {}, {})
          /\ AddsUp({"candidate"}, first, {}, {"candidate"})
      BY DEF AddsUp, One
    <3>4. /\ Carried(query[r]) = {} /\ Carried(next) = {}
          /\ Carried(at_segment) = {"candidate"}
      BY <3>1 DEF Carried, QueryFields
    <3>5. query' = [query EXCEPT ![r] = next] => query'[r] = next
      BY <2>5
    <3>6. query' = [query EXCEPT ![r] = at_segment] => query'[r] = at_segment
      BY <2>5
    <3> HIDE DEF next, at_segment, first, outside, key
    <3> QED BY <2>10, <3>1, <3>2, <3>3, <3>4, <3>5, <3>6
  <2>14. CASE CachedProbe(r) \/ UncachedProbe(r)
    <3>1. /\ query[r].pc = "segment" /\ reader[r].pc = "probe"
          /\ query[r].probe = {"candidate"} /\ DOMAIN query[r] = QueryFields
          /\ failed' = failed
      BY <2>5, <2>6, <2>14
         DEF CachedProbe, UncachedProbe, ProbeHit, ProbeMiss, Probed
    <3>2. Carried(query[r]) = {"candidate"}
      BY <3>1 DEF Carried
    <3>3. ASSUME NEW seen \in {"cache_hit", "cache_miss"}, Pass(r, seen)
          PROVE  /\ AccountTypeOK' /\ ProbesAccounted'
                 /\ \A x \in failed' : FailedBefore(x)'
      <4>1. /\ Carried(query'[r]) = {"candidate", "filter_passed", seen}
            /\ partitions' = partitions /\ Count({"filter_passed"})
        BY <2>5, <3>1, <3>3 DEF Pass, QueryFields, Carried
      <4>2. AddsUp({"filter_passed"}, {}, {"candidate"},
                   {"candidate", "filter_passed", seen})
        BY DEF AddsUp, One
      <4> QED BY <2>10, <3>1, <3>2, <4>1, <4>2
    <3>4. CASE UncachedProbe(r)
      BY <3>3, <3>4 DEF UncachedProbe
    <3>5. CASE /\ Finish(r, query[r].probe \cup {"bloom_filtered", "cache_hit"})
               /\ Count({"bloom_filtered"})
      <4>1. AddsUp({"bloom_filtered"},
                   {"candidate", "bloom_filtered", "cache_hit"},
                   {"candidate"}, {})
        BY DEF AddsUp, One
      <4>2. query[r].probe \cup {"bloom_filtered", "cache_hit"}
              = {"candidate", "bloom_filtered", "cache_hit"}
        BY <3>1
      <4> QED BY <2>11, <3>1, <3>2, <3>5, <4>1, <4>2
    <3> QED BY <2>14, <3>3, <3>4, <3>5 DEF CachedProbe
  <2>15. CASE LookupCached(r) \/ LookupRead(r)
    <3>1. /\ query[r].pc = "segment" /\ reader[r].pc \in {"lookup", "read"}
          /\ DOMAIN query[r] = QueryFields /\ failed' = failed
      BY <2>6, <2>15 DEF LookupCached, LookupRead, LookupHit, ReadInsert
    <3>2. PICK seen \in {"cache_hit", "cache_miss"} :
            query[r].probe = {"candidate", "filter_passed", seen}
      BY <2>5, <3>1 DEF Probed
    <3>3. Carried(query[r]) = {"candidate", "filter_passed", seen}
      BY <3>1, <3>2 DEF Carried
    <3> DEFINE table == Metadata(offsets[Segment(r)])
               bloom == IF may_contain(table, query[r].src)
                        THEN {"false_positive"} ELSE {"bloom_filtered"}
               known == IF "cache_hit" \in query[r].probe
                        THEN {"false_positive"} ELSE {}
    <3>4. PICK hit \in {{}, {"lookup_hit"}} :
            \/ /\ Count(hit) /\ partitions' = partitions
               /\ query' = [query EXCEPT ![r] = [query[r] EXCEPT !.pc = "body"]]
            \/ Count(hit \cup bloom) /\ Finish(r, query[r].probe \cup known)
      BY <2>15 DEF LookupCached, LookupRead, Search
    <3>5. CASE /\ Count(hit) /\ partitions' = partitions
               /\ query' = [query EXCEPT ![r] = [query[r] EXCEPT !.pc = "body"]]
      <4>1. Carried(query'[r]) = query[r].probe
        BY <2>5, <3>1, <3>5 DEF QueryFields, Carried
      <4>2. AddsUp(hit, {}, query[r].probe, query[r].probe)
        BY DEF AddsUp, One
      <4>3. Carried(query[r]) = query[r].probe
        BY <3>1 DEF Carried
      <4> QED BY <2>10, <3>1, <3>5, <4>1, <4>2, <4>3
    <3>6. CASE Count(hit \cup bloom) /\ Finish(r, query[r].probe \cup known)
      <4>1. seen = "cache_hit" => bloom = {"false_positive"}
        BY <2>5, <3>1, <3>2 DEF FollowsQuery
      <4>2. known = IF seen = "cache_hit" THEN {"false_positive"} ELSE {}
        BY <3>2
      <4>3. bloom \in {{"false_positive"}, {"bloom_filtered"}}
        OBVIOUS
      <4> HIDE DEF bloom, known
      <4>4. AddsUp(hit \cup bloom, query[r].probe \cup known,
                   {"candidate", "filter_passed", seen}, {})
        BY <3>2, <4>1, <4>2, <4>3 DEF AddsUp, One
      <4>5. "get_neighbors_ops" \notin hit \cup bloom
        BY <4>3
      <4> QED BY <2>11, <3>1, <3>3, <3>6, <4>4, <4>5
    <3> QED BY <3>4, <3>5, <3>6
  <2>16. CASE BodyRead(r)
    <3>1. /\ query[r].pc = "body" /\ failed' = failed
          /\ Count({"matched", "body_read"})
          /\ Finish(r, query[r].probe \cup {"matched", "body_read"})
      BY <2>16 DEF BodyRead
    <3>2. PICK seen \in {"cache_hit", "cache_miss"} :
            query[r].probe = {"candidate", "filter_passed", seen}
      BY <2>5, <3>1 DEF Probed
    <3>3. Carried(query[r]) = {"candidate", "filter_passed", seen}
      BY <3>1, <3>2 DEF Carried
    <3>4. AddsUp({"matched", "body_read"},
                 query[r].probe \cup {"matched", "body_read"},
                 {"candidate", "filter_passed", seen}, {})
      BY <3>2 DEF AddsUp, One
    <3> QED BY <2>11, <3>1, <3>3, <3>4
  <2> QED BY <2>1, <2>7, <2>8, <2>9, <2>12, <2>13, <2>14, <2>15, <2>16
<1> QED BY <1>1, <1>2

\* Nothing is counted and no query is underway at first.
LEMMA AccountInit == L0Init => AccountInv
<1> SUFFICES ASSUME L0Init PROVE AccountInv
  OBVIOUS
<1>1. /\ totals = [x \in TotalFields |-> 0] /\ failed = {}
      /\ DOMAIN partitions = {} /\ \A r \in Readers : query[r] = [pc |-> "idle"]
  BY DEF L0Init, Zero, TotalFields
<1>2. AtSegment = {}
  BY <1>1 DEF AtSegment
<1>3. AccountTypeOK
  BY <1>1, <1>2, FS_EmptySet DEF AccountTypeOK
<1>4. ASSUME NEW field PROVE Counted(field) = 0
  <2>1. Counted(field)
          = Sum([k \in DOMAIN partitions |-> partitions[k][field]],
                DOMAIN partitions)
    BY FieldSum DEF Counted
  <2> QED BY <1>1, <2>1, SumEmpty
<1>5. ASSUME NEW field PROVE Underway(field) = 0
  <2>1. /\ {r \in Readers : /\ query[r].pc \in {"segment", "body"}
                            /\ field \in query[r].probe} = {}
        /\ {x \in failed : field \in x.probe} = {}
    BY <1>1
  <2>2. Underway(field) = Cardinality({}) + Cardinality({})
    BY <2>1 DEF Underway
  <2> QED BY <2>2, FS_EmptySet
<1>6. \A field \in TotalFields : totals[field] = 0
  BY <1>1
<1>7. ProbesAccounted
  <2>1. {"candidate", "range_filtered", "filter_passed", "matched",
         "body_read", "bloom_filtered", "false_positive"} \subseteq TotalFields
    BY DEF TotalFields, ProbeFields
  <2>2. PartitionsBalanced
    BY <1>1 DEF PartitionsBalanced
  <2> QED BY <1>4, <1>5, <1>6, <2>1, <2>2 DEF ProbesAccounted
<1>8. \A r \in Readers : FollowsQuery(r)
  BY <1>1 DEF FollowsQuery
<1> QED BY <1>1, <1>3, <1>7, <1>8 DEF AccountInv

\* Nothing is lost or counted twice between the totals and the partitions,
\* for any number of queries, segments and cache entries, although a query
\* counts an outcome at once and its partition when it is done with the
\* segment, and others insert and evict between its probe and its lookup.
THEOREM AccountsCorrect == L0Spec => []ProbesAccounted
<1>1. L0Init => Init /\ ReadsInv /\ BalanceInv
  BY IdleSound
     DEF L0Init, Init, ReadsInv, BalanceInv, Partitioned, Probed
<1>2. [L0Next]_readVars => [Next]_vars
  BY QueryStepImplementsReader DEF readVars
<1>3. L0Spec => []CacheInv
  <2>1. L0Spec => Spec
    BY <1>1, <1>2, PTL DEF L0Spec, Spec
  <2> QED BY <2>1, CacheInvariant, PTL
<1>4. CacheInv => TypeOK
  BY DEF CacheInv
<1>5. L0Spec => [](BalanceInv /\ ReadsInv /\ TypeOK)
  BY <1>1, <1>3, <1>4, ReadsStep, BalanceStep, PTL DEF L0Spec
<1>6. AccountInv => ProbesAccounted
  BY DEF AccountInv
<1> QED BY <1>5, <1>6, AccountInit, AccountStep, PTL DEF L0Spec

-----------------------------------------------------------------------------
(* The count, the sum and the histogram.                                   *)

\* A duration is counted in the first bucket that it fits.
LEMMA BucketOf ==
  ASSUME NEW us \in Durations
  PROVE  /\ Bucket(us) \in DOMAIN bounds
         /\ us <= bounds[Bucket(us)]
         /\ \A j \in DOMAIN bounds : us <= bounds[j] => Bucket(us) <= j
<1> DEFINE fits == {i \in DOMAIN bounds : us <= bounds[i]}
<1>1. /\ bounds \in Seq(Nat) /\ Len(bounds) \in Nat /\ DOMAIN bounds = 1..Len(bounds)
      /\ us \in Nat /\ us < bounds[Len(bounds)] /\ Len(bounds) # 0
  BY LatencyAssumption
<1>2. fits \in SUBSET Nat /\ Len(bounds) \in fits
  <2>1. Len(bounds) \in DOMAIN bounds /\ bounds[Len(bounds)] \in Nat
    BY <1>1
  <2> QED BY <1>1, <2>1
<1> DEFINE i == Min(fits)
<1>3. i \in fits /\ \A j \in fits : i <= j
  <2> HIDE DEF fits
  <2> QED BY <1>2, LeastNatural
<1> HIDE DEF i
<1>4. us <= bounds[i] /\ \A j \in 1..(i - 1) : bounds[j] < us
  <2> SUFFICES ASSUME NEW j \in 1..(i - 1) PROVE bounds[j] < us
    BY <1>3
  <2>1. j \in DOMAIN bounds /\ j < i /\ j \in Nat /\ i \in Nat
    BY <1>1, <1>3
  <2>2. ~(us <= bounds[j])
    BY <1>3, <2>1
  <2>3. bounds[j] \in Nat
    BY <1>1, <2>1
  <2> QED BY <1>1, <2>2, <2>3
<1>5. /\ Bucket(us) \in DOMAIN bounds
      /\ us <= bounds[Bucket(us)] /\ \A j \in 1..(Bucket(us) - 1) : bounds[j] < us
  BY <1>3, <1>4 DEF Bucket
<1>6. ASSUME NEW j \in DOMAIN bounds, us <= bounds[j] PROVE Bucket(us) <= j
  <2> SUFFICES ASSUME ~(Bucket(us) <= j) PROVE FALSE
    OBVIOUS
  <2>1. j \in 1..(Bucket(us) - 1)
    BY <1>1, <1>5
  <2>2. bounds[j] \in Nat
    BY <1>1
  <2> QED BY <1>1, <1>5, <1>6, <2>1, <2>2
<1> QED BY <1>5, <1>6

\* Longer durations are counted in later buckets.
LEMMA BucketGrows ==
  ASSUME NEW x \in Durations, NEW y \in Durations, x <= y
  PROVE  Bucket(x) <= Bucket(y)
<1>1. Bucket(y) \in DOMAIN bounds /\ y <= bounds[Bucket(y)]
  BY BucketOf
<1>2. x \in Nat /\ y \in Nat /\ bounds[Bucket(y)] \in Nat
  BY <1>1, LatencyAssumption
<1>3. x <= bounds[Bucket(y)]
  BY <1>1, <1>2
<1> QED BY <1>1, <1>3, BucketOf

Weighed == [us \in Durations |-> us * recorded[us]]

\* Recorders that have yet to count a duration in bucket i.
Recording(i) ==
  {r \in Recorders : rec[r].pc # "idle" /\ Bucket(rec[r].us) = i}

InBucket(i) == {us \in Durations : Bucket(us) = i}

HistogramInv ==
  /\ IsFiniteSet(Begun)
  /\ IsFiniteSet({r \in Recorders : rec[r].pc # "idle"})
  /\ buckets \in [DOMAIN bounds -> Nat]
  /\ count = Sum(recorded, Begun)
  /\ sum_us = Sum(Weighed, Begun)
  /\ \A i \in DOMAIN bounds :
       buckets[i] + Cardinality(Recording(i))
         = Sum(recorded, Begun \cap InBucket(i))

\* Nothing is recorded at first.
LEMMA InitHistogram == LatencyInit => HistogramInv
<1> SUFFICES ASSUME LatencyInit PROVE HistogramInv
  OBVIOUS
<1>1. Begun = {}
  BY DEF LatencyInit, Begun
<1>2. {r \in Recorders : rec[r].pc # "idle"} = {} /\ \A i : Recording(i) = {}
  BY DEF LatencyInit, Recording
<1>3. \A i : Begun \cap InBucket(i) = {}
  BY <1>1
<1>4. /\ buckets = [i \in DOMAIN bounds |-> 0] /\ count = 0 /\ sum_us = 0
      /\ Sum(recorded, {}) = 0 /\ Sum(Weighed, {}) = 0
      /\ IsFiniteSet({}) /\ Cardinality({}) = 0
  BY SumEmpty, FS_EmptySet DEF LatencyInit
<1>5. ASSUME NEW i \in DOMAIN bounds
      PROVE  buckets[i] + Cardinality(Recording(i))
               = Sum(recorded, Begun \cap InBucket(i))
  <2>1. buckets[i] = 0
    BY <1>4
  <2>2. Cardinality(Recording(i)) = 0
    BY <1>2, <1>4
  <2>3. Sum(recorded, Begun \cap InBucket(i)) = 0
    BY <1>3, <1>4
  <2> QED BY <2>1, <2>2, <2>3
<1> QED BY <1>1, <1>2, <1>4, <1>5 DEF HistogramInv

\* A recording that begins adds one to what is recorded of its duration.
LEMMA BegunGrows ==
  ASSUME LatencyTypeOK, IsFiniteSet(Begun), NEW us \in Durations, NEW Q,
         recorded' = [recorded EXCEPT ![us] = @ + 1]
  PROVE  /\ Begun' = Begun \cup {us}
         /\ Sum(recorded', Begun' \cap Q) = Sum(recorded, Begun \cap Q)
                                              + One(us \in Q)
         /\ Sum(Weighed', Begun') = Sum(Weighed, Begun) + us
<1>1. /\ recorded \in [Durations -> Nat] /\ recorded'[us] = recorded[us] + 1
      /\ \A x \in Durations : x # us => recorded'[x] = recorded[x]
      /\ recorded' \in [Durations -> Nat] /\ Durations \subseteq Nat
  BY LatencyAssumption DEF LatencyTypeOK
<1>7. \A x \in Durations : recorded[x] \in Int /\ recorded'[x] \in Int
  BY <1>1
<1>2. Begun' = Begun \cup {us}
  BY <1>1 DEF Begun
<1>3. us \notin Begun => recorded[us] = 0
  BY <1>1 DEF Begun
<1>4. Begun \subseteq Durations
  BY DEF Begun
<1>5. Sum(recorded', Begun' \cap Q) = Sum(recorded, Begun \cap Q) + One(us \in Q)
  <2> DEFINE B == Begun \cap Q
  <2>1. IsFiniteSet(B) /\ B \subseteq Durations
    BY <1>4, FS_Intersection
  <2>2. CASE us \in Q
    <3>1. Begun' \cap Q = B \cup {us}
      BY <1>2, <2>2
    <3>2. us \notin B => recorded[us] = 0
      BY <1>3, <2>2
    <3>3. Sum(recorded', B \cup {us}) = Sum(recorded, B) - recorded[us]
                                          + recorded'[us]
      <4>1. /\ \A y \in B \cup {us} : recorded[y] \in Int /\ recorded'[y] \in Int
            /\ \A y \in B : y # us => recorded[y] = recorded'[y]
        <5> HIDE DEF B
        <5> QED BY <1>1, <1>7, <2>1
      <4> HIDE DEF B
      <4> QED BY ONLY <2>1, <3>2, <4>1, SumBump
    <3>4. Sum(recorded, B) \in Int
      <4>1. \A y \in B : recorded[y] \in Int
        <5> HIDE DEF B
        <5> QED BY <1>7, <2>1
      <4> HIDE DEF B
      <4> QED BY <2>1, <4>1, SumInt
    <3>5. Sum(recorded', Begun' \cap Q) = Sum(recorded', B \cup {us})
      BY <3>1
    <3> HIDE DEF B
    <3> QED BY <1>1, <2>2, <3>3, <3>4, <3>5 DEF B, One
  <2>3. CASE us \notin Q
    <3>1. Begun' \cap Q = B
      BY <1>2, <2>3
    <3>2. \A y \in B : recorded[y] \in Int /\ recorded[y] = recorded'[y]
      <4>1. us \notin B
        BY <2>3
      <4> HIDE DEF B
      <4> QED BY <1>1, <1>7, <2>1, <4>1
    <3>3. Sum(recorded, B) = Sum(recorded', B)
      <4> HIDE DEF B
      <4> QED BY <2>1, <3>2, SumSame
    <3>4. Sum(recorded, B) \in Int
      <4> HIDE DEF B
      <4> QED BY <2>1, <3>2, SumInt
    <3>5. Sum(recorded', Begun' \cap Q) = Sum(recorded', B)
      BY <3>1
    <3> HIDE DEF B
    <3> QED BY <2>3, <3>3, <3>4, <3>5 DEF B, One
  <2> QED BY <2>2, <2>3
<1>6. Sum(Weighed', Begun') = Sum(Weighed, Begun) + us
  <2>1. \A x \in Durations : x * recorded[x] \in Nat /\ x * recorded'[x] \in Nat
    BY <1>1
  <2>2. \A x \in Durations :
          /\ Weighed[x] = x * recorded[x] /\ Weighed'[x] = x * recorded'[x]
          /\ Weighed[x] \in Int /\ Weighed'[x] \in Int
    BY <2>1 DEF Weighed
  <2>3. us \notin Begun => Weighed[us] = 0
    BY <1>1, <1>3, <2>2
  <2>4. Weighed'[us] = Weighed[us] + us
    BY <1>1, <2>2
  <2>5. Sum(Weighed', Begun \cup {us}) = Sum(Weighed, Begun) - Weighed[us]
                                          + Weighed'[us]
    <3>1. /\ \A y \in Begun \cup {us} : Weighed[y] \in Int /\ Weighed'[y] \in Int
          /\ \A y \in Begun : y # us => Weighed[y] = Weighed'[y]
      BY <1>1, <1>4, <2>2
    <3> QED BY <2>3, <3>1, SumBump
  <2>6. Sum(Weighed, Begun) \in Int /\ Weighed[us] \in Int /\ us \in Int
    <3>1. \A x \in Begun : Weighed[x] \in Int
      BY <1>4, <2>2
    <3> QED BY <1>1, <2>2, <3>1, SumInt
  <2> QED BY <1>2, <2>4, <2>5, <2>6
<1> QED BY <1>2, <1>5, <1>6

\* A recorder begins, goes on with its duration, or ends and counts it.
LEMMA HistogramMoves ==
  ASSUME HistogramInv, NEW r \in Recorders,
         \A o \in Recorders : o # r => rec'[o] = rec[o]
  PROVE  /\ IsFiniteSet({o \in Recorders : rec'[o].pc # "idle"})
         /\ \A i : Cardinality(Recording(i)) \in Nat
         /\ \A i : Cardinality(Recording(i)')
                     = Cardinality(Recording(i)) - One(r \in Recording(i))
                         + One(r \in Recording(i)')
<1> DEFINE A == {o \in Recorders : rec[o].pc # "idle"}
<1>1. IsFiniteSet(A)
  BY DEF HistogramInv
<1>2. IsFiniteSet({o \in Recorders : rec'[o].pc # "idle"})
  <2>1. {o \in Recorders : rec'[o].pc # "idle"} \ {r} = A \ {r}
    OBVIOUS
  <2> HIDE DEF A
  <2> QED BY <1>1, <2>1, MemberMoves
<1>3. ASSUME NEW i
      PROVE  /\ Cardinality(Recording(i)) \in Nat
             /\ Cardinality(Recording(i)')
                  = Cardinality(Recording(i)) - One(r \in Recording(i))
                      + One(r \in Recording(i)')
  <2>1. Recording(i)' \ {r} = Recording(i) \ {r}
    BY DEF Recording
  <2>2. IsFiniteSet(Recording(i))
    <3>1. Recording(i) \subseteq A
      BY DEF Recording
    <3> HIDE DEF A
    <3> QED BY <1>1, <3>1, FS_Subset
  <2> QED BY <2>1, <2>2, MemberMoves
<1> QED BY <1>2, <1>3

\* The recording of a duration begins: its count is due.
LEMMA AddHistogram ==
  ASSUME ExtremesInv, HistogramInv, NEW r \in Recorders, NEW us \in Durations,
         Add(r, us)
  PROVE  HistogramInv'
<1>1. /\ rec[r].pc = "idle" /\ rec'[r].pc # "idle" /\ rec'[r].us = us
      /\ \A o \in Recorders : o # r => rec'[o] = rec[o]
  BY DEF Add, AfterMin, ExtremesInv, LatencyTypeOK
<1>2. /\ LatencyTypeOK /\ IsFiniteSet(Begun)
      /\ recorded' = [recorded EXCEPT ![us] = @ + 1]
      /\ count' = count + 1 /\ sum_us' = sum_us + us /\ buckets' = buckets
  BY DEF Add, ExtremesInv, HistogramInv
<1>3. Begun' = Begun \cup {us} /\ IsFiniteSet(Begun')
  <2>1. Begun' = Begun \cup {us}
    BY <1>2, BegunGrows
  <2> QED BY <1>2, <2>1, FS_AddElement
<1>4. count' = Sum(recorded', Begun')
  <2>1. Sum(recorded', Begun' \cap Durations)
          = Sum(recorded, Begun \cap Durations) + One(us \in Durations)
    BY <1>2, BegunGrows
  <2>2. Begun' \cap Durations = Begun' /\ Begun \cap Durations = Begun
    BY DEF Begun
  <2> QED BY <1>2, <2>1, <2>2 DEF HistogramInv, One
<1>5. sum_us' = Sum(Weighed', Begun')
  BY <1>2, BegunGrows DEF HistogramInv
<1>6. ASSUME NEW i \in DOMAIN bounds
      PROVE  buckets'[i] + Cardinality(Recording(i)')
               = Sum(recorded', Begun' \cap InBucket(i))
  <2>1. Sum(recorded', Begun' \cap InBucket(i))
          = Sum(recorded, Begun \cap InBucket(i)) + One(us \in InBucket(i))
    BY <1>2, BegunGrows
  <2>2. /\ Cardinality(Recording(i)) \in Nat
        /\ Cardinality(Recording(i)')
             = Cardinality(Recording(i)) - One(r \in Recording(i))
                 + One(r \in Recording(i)')
    BY <1>1, HistogramMoves
  <2>3. /\ r \notin Recording(i)
        /\ r \in Recording(i)' <=> us \in InBucket(i)
    BY <1>1 DEF Recording, InBucket
  <2>4. buckets[i] \in Nat
    BY DEF HistogramInv
  <2> QED BY <1>2, <2>1, <2>2, <2>3, <2>4 DEF HistogramInv, One
<1>7. InBucket(1)' = InBucket(1)
  BY DEF InBucket, Bucket
<1>8. IsFiniteSet({o \in Recorders : rec'[o].pc # "idle"})
  BY <1>1, HistogramMoves
<1> QED BY <1>2, <1>3, <1>4, <1>5, <1>6, <1>8 DEF HistogramInv, InBucket

\* A recorder goes on, and may count its duration in its bucket.
LEMMA RecordHistogram ==
  ASSUME ExtremesInv, HistogramInv, NEW r \in Recorders, RecordStep(r)
  PROVE  HistogramInv'
<1> DEFINE us == rec[r].us
<1>1. /\ rec[r].pc # "idle" /\ us \in Durations
      /\ recorded' = recorded /\ count' = count /\ sum_us' = sum_us
  BY DEF RecordStep, SwapMin, LoadMax, SwapMax, ExtremesInv, Underpinned, Begun
<1>2. \A o \in Recorders : o # r => rec'[o] = rec[o]
  BY DEF RecordStep, SwapMin, LoadMax, SwapMax, AfterMax, Finished, ExtremesInv,
         LatencyTypeOK
<1>3. \/ rec'[r].pc # "idle" /\ rec'[r].us = us /\ buckets' = buckets
      \/ /\ rec'[r].pc = "idle"
         /\ buckets' = [buckets EXCEPT ![Bucket(us)] = @ + 1]
  <2>1. rec \in [Recorders -> Recorder]
    BY DEF ExtremesInv, LatencyTypeOK
  <2>2. rec[r] \in [pc : {"swap_min", "load_max", "swap_max"}, us : Durations,
                    current : Nat]
    BY <1>1, <2>1 DEF Recorder
  <2>3. CASE Finished(r)
    BY <2>1, <2>3 DEF Finished
  <2>4. CASE /\ rec' = [rec EXCEPT ![r].pc = "load_max"]
             /\ buckets' = buckets
    BY <2>1, <2>2, <2>4
  <2>5. ASSUME NEW pc, pc # "idle", NEW c,
               rec' = [rec EXCEPT ![r].pc = pc, ![r].current = c],
               buckets' = buckets
        PROVE  rec'[r].pc # "idle" /\ rec'[r].us = us /\ buckets' = buckets
    BY <2>1, <2>2, <2>5
  <2>6. CASE SwapMin(r)
    BY <2>4, <2>5, <2>6 DEF SwapMin, AfterMin
  <2>7. CASE LoadMax(r)
    BY <2>3, <2>5, <2>7 DEF LoadMax, AfterMax
  <2>8. CASE SwapMax(r)
    BY <2>3, <2>5, <2>8 DEF SwapMax, AfterMax
  <2> QED BY <2>6, <2>7, <2>8 DEF RecordStep
<1>4. Begun' = Begun /\ Weighed' = Weighed
  BY <1>1 DEF Begun, Weighed
<1>5. buckets' \in [DOMAIN bounds -> Nat]
  BY <1>1, <1>3, BucketOf DEF HistogramInv
<1>6. ASSUME NEW i \in DOMAIN bounds
      PROVE  buckets'[i] + Cardinality(Recording(i)')
               = Sum(recorded', Begun' \cap InBucket(i))
  <2>1. buckets[i] + Cardinality(Recording(i))
          = Sum(recorded, Begun \cap InBucket(i))
    BY DEF HistogramInv
  <2>2. /\ Cardinality(Recording(i)) \in Nat
        /\ Cardinality(Recording(i)')
             = Cardinality(Recording(i)) - One(r \in Recording(i))
                 + One(r \in Recording(i)')
    BY <1>2, HistogramMoves
  <2>3. r \in Recording(i) <=> Bucket(us) = i
    BY <1>1 DEF Recording
  <2>4. /\ buckets \in [DOMAIN bounds -> Nat] /\ buckets[i] \in Nat
        /\ Bucket(us) \in DOMAIN bounds
    BY <1>1, BucketOf DEF HistogramInv
  <2>5. CASE rec'[r].pc # "idle" /\ rec'[r].us = us /\ buckets' = buckets
    <3>1. r \in Recording(i)' <=> Bucket(us) = i
      BY <2>5 DEF Recording
    <3> HIDE DEF us
    <3> QED BY <1>1, <1>4, <2>1, <2>2, <2>3, <2>4, <2>5, <3>1 DEF One
  <2>6. CASE /\ rec'[r].pc = "idle"
             /\ buckets' = [buckets EXCEPT ![Bucket(us)] = @ + 1]
    <3>1. r \notin Recording(i)'
      BY <2>6 DEF Recording
    <3>2. buckets'[i] = buckets[i] + One(Bucket(us) = i)
      BY <2>4, <2>6 DEF One
    <3> HIDE DEF us
    <3> QED BY <1>1, <1>4, <2>1, <2>2, <2>3, <2>4, <3>1, <3>2 DEF One
  <2> QED BY <1>3, <2>5, <2>6
<1>7. IsFiniteSet({o \in Recorders : rec'[o].pc # "idle"})
  BY <1>2, HistogramMoves
<1> QED BY <1>1, <1>4, <1>5, <1>6, <1>7 DEF HistogramInv, InBucket

\* Every step of a recorder keeps the histogram.
LEMMA HistogramStep ==
  ASSUME ExtremesInv, HistogramInv, [LatencyNext]_latencyVars
  PROVE  HistogramInv'
<1>1. CASE UNCHANGED latencyVars
  BY <1>1 DEF HistogramInv, Begun, Weighed, Recording, InBucket, latencyVars
<1>2. CASE LatencyNext
  BY <1>2, AddHistogram, RecordHistogram DEF LatencyNext
<1> QED BY <1>1, <1>2

\* Adding up a sequence from the left is the sum over its indices.
LEMMA FoldLeftSum ==
  ASSUME NEW q \in Seq(Int)
  PROVE  FoldLeft(LAMBDA a, b : a + b, 0, q) = Sum(q, 1..Len(q))
<1> DEFINE S == 1..Len(q)
           pick == [s \in SUBSET S |-> Max(s)]
           add == [x \in S |-> [n \in Int |-> n + q[x]]]
           Fold(h) == h = [s \in SUBSET S |->
                             IF s = {} THEN 0
                             ELSE h[s \ {Max(s)}] + q[Max(s)]]
           iter == CHOOSE h : Fold(h)
<1>1. /\ IsFiniteSet(S) /\ S \subseteq Nat /\ DOMAIN q = S
      /\ \A x \in S : q[x] \in Int
  BY FS_Interval
<1>2. \A s \in SUBSET S : s # {} => Max(s) \in s /\ pick[s] = Max(s)
  <2> HIDE DEF S
  <2>1. ASSUME NEW s \in SUBSET S, s # {} PROVE Max(s) \in s
    <3>1. s \in SUBSET Nat /\ IsFiniteSet(s)
      BY <1>1, FS_Subset
    <3> QED BY <2>1, <3>1, GreatestNatural
  <2> QED BY <2>1
<1>3. Picks(pick, S)
  BY <1>2 DEF Picks
<1> DEFINE Type == Int
<1>4. add \in [S -> [Type -> Type]] /\ 0 \in Type
  BY <1>1
<1>5. PICK h \in [SUBSET S -> Type] : IsFold(h, add, 0, pick, S)
  <2> HIDE DEF pick, add, Type, S
  <2> QED BY <1>1, <1>3, <1>4, FoldExists
<1>6. \A s \in SUBSET S : s # {} =>
        /\ Max(s) \in S /\ s \ {Max(s)} \in SUBSET S
        /\ h[s] = h[s \ {Max(s)}] + q[Max(s)]
  <2> HIDE DEF S
  <2> QED BY <1>2, <1>5 DEF IsFold
<1>7. Fold(h)
  <2> HIDE DEF S
  <2> QED BY <1>5, <1>6 DEF IsFold
<1>8. Fold(iter)
  BY <1>7
<1>9. FoldLeft(LAMBDA a, b : a + b, 0, q) = iter[S]
  BY <1>1 DEF FoldLeft, MapThenFoldSet
<1>10. /\ iter = [s \in SUBSET S |-> iter[s]]
       /\ iter[{}] = 0
       /\ \A s \in SUBSET S : s # {} => iter[s] = iter[s \ {Max(s)}] + q[Max(s)]
  <2> HIDE DEF iter, S
  <2> QED BY <1>8
<1>11. Follows(iter, add, 0, pick, S, Type)
  <2>1. \A s \in SUBSET S : s # {} /\ iter[s \ {pick[s]}] \in Type =>
          iter[s] = add[pick[s]][iter[s \ {pick[s]}]]
    <3> HIDE DEF iter, S
    <3> QED BY <1>2, <1>6, <1>10
  <2> HIDE DEF iter, add, pick, Type, S
  <2> QED BY <1>10, <2>1 DEF Follows
<1>12. \A s \in SUBSET S : iter[s] \in Type
  <2> HIDE DEF iter, add, pick, Type, S
  <2> QED BY <1>1, <1>3, <1>4, <1>11, FoldTyped
<1>13. Totals(iter, q, S)
  <2>1. iter \in [SUBSET S -> Int]
    <3> HIDE DEF iter, S
    <3> QED BY <1>10, <1>12
  <2>2. \A s \in SUBSET S :
          iter[s] = IF s = {} THEN 0 ELSE q[pick[s]] + iter[s \ {pick[s]}]
    <3> SUFFICES ASSUME NEW s \in SUBSET S, s # {}
                 PROVE  iter[s] = q[pick[s]] + iter[s \ {pick[s]}]
      <4> HIDE DEF iter, pick, S
      <4> QED BY <1>10
    <3>1. /\ pick[s] = Max(s) /\ Max(s) \in S
          /\ iter[s] = iter[s \ {Max(s)}] + q[Max(s)]
      <4> HIDE DEF iter, S
      <4> QED BY <1>2, <1>6, <1>10
    <3>2. q[Max(s)] \in Int
      <4> HIDE DEF iter, S
      <4> QED BY <1>1, <3>1
    <3>3. iter[s \ {Max(s)}] \in Int
      <4> HIDE DEF iter, S
      <4> QED BY <1>12
    <3> HIDE DEF iter, pick, S
    <3> QED BY <3>1, <3>2, <3>3
  <2> HIDE DEF iter, pick, S
  <2> QED BY <1>1, <1>3, <2>1, <2>2, FoldAdds
<1>14. iter[S] = Sum(q, S)
  <2> HIDE DEF iter, S
  <2> QED BY <1>1, <1>13, SumOfTotals
<1> QED BY <1>9, <1>14

AtRest == \A r \in Recorders : rec[r].pc = "idle"

\* What the first i buckets have counted.
LEMMA BucketsSum ==
  ASSUME ExtremesInv, HistogramInv, AtRest, NEW n \in 0..Len(bounds)
  PROVE  Sum(buckets, 1..n) = Sum(recorded, {us \in Begun : Bucket(us) <= n})
<1> DEFINE upto(i) == {us \in Begun : Bucket(us) <= i}
           Bad == {i \in Nat : i <= Len(bounds)
                                 /\ Sum(buckets, 1..i) # Sum(recorded, upto(i))}
<1>1. /\ Len(bounds) \in Nat /\ DOMAIN bounds = 1..Len(bounds)
      /\ buckets \in [1..Len(bounds) -> Nat]
  BY LatencyAssumption DEF HistogramInv
<1>2. /\ IsFiniteSet(Begun) /\ Begun \subseteq Durations
      /\ \A us \in Begun : recorded[us] \in Nat /\ Bucket(us) \in 1..Len(bounds)
  BY <1>1, BucketOf DEF HistogramInv, Begun, ExtremesInv, LatencyTypeOK
<1>3. \A i : Recording(i) = {}
  BY DEF Recording, AtRest
<1>4. Bad = {}
  <2> SUFFICES ASSUME Bad # {} PROVE FALSE
    OBVIOUS
  <2> DEFINE m == Min(Bad)
  <2>1. m \in Bad /\ \A i \in Bad : m <= i
    BY LeastNatural
  <2>2. /\ m \in Nat /\ m <= Len(bounds)
        /\ Sum(buckets, 1..m) # Sum(recorded, upto(m))
    BY <2>1
  <2> HIDE DEF m
  <2>3. m # 0
    <3> SUFFICES ASSUME m = 0 PROVE FALSE
      OBVIOUS
    <3>1. 1..m = {} /\ upto(m) = {}
      BY <1>2
    <3>2. Sum(buckets, {}) = 0 /\ Sum(recorded, {}) = 0
      BY SumEmpty
    <3> HIDE DEF upto
    <3> QED BY <2>2, <3>1, <3>2
  <2> DEFINE k == m - 1
             new == Begun \cap InBucket(m)
  <2>4. k \in Nat /\ k <= Len(bounds) /\ k < m
    BY <1>1, <2>2, <2>3
  <2>5. Sum(buckets, 1..k) = Sum(recorded, upto(k))
    <3>1. k \notin Bad
      <4> HIDE DEF Bad, k
      <4> QED BY <2>1, <2>2, <2>4
    <3> HIDE DEF k, upto
    <3> QED BY <2>4, <3>1
  <2>6. Sum(buckets, 1..m) = Sum(buckets, 1..k) + buckets[m]
    <3>1. /\ IsFiniteSet(1..k) /\ m \notin 1..k /\ (1..k) \cup {m} = 1..m
          /\ \A i \in (1..k) \cup {m} : buckets[i] \in Int
      <4>1. (1..k) \cup {m} = 1..m /\ m \notin 1..k
        BY <2>2, <2>3
      <4>2. IsFiniteSet(1..k)
        <5> HIDE DEF k
        <5> QED BY <2>4, FS_Interval
      <4>3. \A i \in 1..m : buckets[i] \in Int
        BY <1>1, <2>2
      <4> HIDE DEF k
      <4> QED BY <4>1, <4>2, <4>3
    <3>2. Sum(buckets, (1..k) \cup {m}) = Sum(buckets, 1..k) + buckets[m]
      <4> DEFINE S == 1..k
      <4>1. IsFiniteSet(S) /\ m \notin S /\ \A i \in S \cup {m} : buckets[i] \in Int
        BY <3>1
      <4> HIDE DEF S
      <4>2. Sum(buckets, S \cup {m}) = Sum(buckets, S) + buckets[m]
        BY <4>1, SumAdd
      <4> QED BY <4>2 DEF S
    <3> QED BY <3>1, <3>2
  <2>7. buckets[m] = Sum(recorded, new)
    <3>1. m \in DOMAIN bounds
      BY <1>1, <2>2, <2>3
    <3>2. buckets[m] + Cardinality(Recording(m)) = Sum(recorded, new)
      BY <3>1 DEF HistogramInv
    <3>3. Cardinality(Recording(m)) = 0 /\ buckets[m] \in Nat
      BY <1>1, <1>3, <3>1, FS_EmptySet
    <3> HIDE DEF new
    <3> QED BY <3>2, <3>3
  <2>8. Sum(recorded, upto(m)) = Sum(recorded, upto(k)) + Sum(recorded, new)
    <3>1. /\ upto(m) = upto(k) \cup new /\ upto(k) \cap new = {}
          /\ upto(k) \subseteq Begun /\ new \subseteq Begun
      <4>1. \A us \in Begun : us \in Durations /\ Bucket(us) \in Nat
        BY <1>2
      <4> QED BY <2>2, <4>1 DEF InBucket
    <3> HIDE DEF upto, new, k
    <3>2. IsFiniteSet(upto(k)) /\ IsFiniteSet(new)
      BY <1>2, <3>1, FS_Subset
    <3>3. \A us \in upto(k) \cup new : recorded[us] \in Int
      BY <1>2, <3>1
    <3>4. Sum(recorded, upto(k) \cup new) = Sum(recorded, upto(k)) + Sum(recorded, new)
      BY <3>1, <3>2, <3>3, SumUnion
    <3> QED BY <3>1, <3>4
  <2> HIDE DEF upto, k, new
  <2> QED BY <2>2, <2>5, <2>6, <2>7, <2>8
<1>5. n \in Nat /\ n <= Len(bounds)
  BY <1>1
<1> QED BY <1>4, <1>5

\* The buckets up to the one of a duration.
Shorter(us) == {x \in Begun : x <= us}
FirstBuckets(i) == {us \in Begun : Bucket(us) <= i}

\* What percentile_from_buckets has seen after bucket i.
LEMMA SeenExact ==
  ASSUME ExtremesInv, HistogramInv, AtRest, NEW i \in DOMAIN bounds
  PROVE  FoldLeft(LAMBDA a, b : a + b, 0, SubSeq(buckets, 1, i))
           = Sum(recorded, FirstBuckets(i))
<1> DEFINE q == SubSeq(buckets, 1, i)
<1>1. /\ Len(bounds) \in Nat /\ DOMAIN bounds = 1..Len(bounds)
      /\ buckets \in [1..Len(bounds) -> Nat]
  BY LatencyAssumption DEF HistogramInv
<1>2. i \in Nat /\ i \in 1..Len(bounds)
  BY <1>1
<1>3. buckets \in Seq(Nat) /\ Len(buckets) = Len(bounds)
  BY <1>1
<1>4. q \in Seq(Int) /\ Len(q) = i /\ \A k \in 1..i : q[k] = buckets[k]
  BY <1>2, <1>3
<1> HIDE DEF q
<1>5. FoldLeft(LAMBDA a, b : a + b, 0, q) = Sum(q, 1..i)
  <2>1. FoldLeft(LAMBDA a, b : a + b, 0, q) = Sum(q, 1..Len(q))
    BY <1>4, FoldLeftSum
  <2> QED BY <1>4, <2>1
<1>6. Sum(q, 1..i) = Sum(buckets, 1..i)
  <2>1. /\ IsFiniteSet(1..i)
        /\ \A k \in 1..i : q[k] \in Int /\ q[k] = buckets[k]
    BY <1>1, <1>2, <1>4, FS_Interval
  <2> QED BY <2>1, SumSame
<1>7. Sum(buckets, 1..i) = Sum(recorded, FirstBuckets(i))
  BY <1>1, <1>2, BucketsSum DEF FirstBuckets
<1> QED BY <1>5, <1>6, <1>7 DEF q

\* Rounding the wanted rank up loses nothing.
LEMMA RoundedUp ==
  ASSUME NEW n \in Nat, NEW s \in Nat
  PROVE  s >= (n + 99) \div 100 <=> 100 * s >= n
OBVIOUS

\* The sum of all that was recorded.
LEMMA WeighedSum ==
  ASSUME NEW S \in SUBSET Durations
  PROVE  MapThenSumSet(LAMBDA us : us * recorded[us], S) = Sum(Weighed, S)
<1> DEFINE pick(s) == CHOOSE x \in s : TRUE
           F(h) == [s \in SUBSET S |->
                      IF s = {} THEN 0
                      ELSE pick(s) * recorded[pick(s)] + h[s \ {pick(s)}]]
           G(h) == [s \in SUBSET S |->
                      IF s = {} THEN 0 ELSE Weighed[pick(s)] + h[s \ {pick(s)}]]
<1>1. \A s \in SUBSET S : s # {} => pick(s) \in Durations
  OBVIOUS
<1>2. \A s \in SUBSET S : s # {} =>
        Weighed[pick(s)] = pick(s) * recorded[pick(s)]
  <2> HIDE DEF pick
  <2> QED BY <1>1 DEF Weighed
<1>3. \A h : F(h) = G(h)
  <2> HIDE DEF pick
  <2> QED BY <1>2
<1>4. (CHOOSE h : h = F(h)) = (CHOOSE h : h = G(h))
  <2> HIDE DEF F, G
  <2> QED BY <1>3
<1> QED BY <1>4 DEF Sum, MapThenSumSet, MapThenFoldSet

\* A percentile is the bound of the bucket of the least duration that its
\* share of the recordings does not exceed.
LEMMA PercentileExact ==
  ASSUME ExtremesInv, HistogramInv, AtRest, Begun # {},
         NEW percent \in 1..100
  PROVE  percentile_from_buckets(percent) =
           bounds[Bucket(Min({us \in Begun :
             100 * Sum(recorded, Shorter(us)) >= percent * count}))]
<1> DEFINE enough == {us \in Begun :
                        100 * Sum(recorded, Shorter(us)) >= percent * count}
           wanted == (count * percent + 99) \div 100
           target == IF wanted > 1 THEN wanted ELSE 1
           reached == {i \in DOMAIN buckets :
                         FoldLeft(LAMBDA a, b : a + b, 0, SubSeq(buckets, 1, i))
                           >= target}
           n == count * percent
<1>1. /\ Len(bounds) \in Nat /\ DOMAIN bounds = 1..Len(bounds)
      /\ DOMAIN buckets = DOMAIN bounds
  BY LatencyAssumption DEF HistogramInv
<1>2. /\ IsFiniteSet(Begun) /\ Begun \subseteq Durations /\ Begun \subseteq Nat
      /\ \A us \in Begun : recorded[us] \in Nat /\ Bucket(us) \in DOMAIN bounds
  BY LatencyAssumption, BucketOf
     DEF HistogramInv, Begun, ExtremesInv, LatencyTypeOK
<1>3. \A S \in SUBSET Begun :
        /\ IsFiniteSet(S) /\ Sum(recorded, S) \in Nat
        /\ Sum(recorded, S) <= count
  <2> SUFFICES ASSUME NEW S \in SUBSET Begun
               PROVE  /\ IsFiniteSet(S) /\ Sum(recorded, S) \in Nat
                      /\ Sum(recorded, S) <= count
    OBVIOUS
  <2>1. IsFiniteSet(S)
    BY <1>2, FS_Subset
  <2>2. Sum(recorded, S) \in Nat /\ Sum(recorded, S) <= Sum(recorded, Begun)
    BY <1>2, SumSubset
  <2> QED BY <2>1, <2>2 DEF HistogramInv
<1>4. count \in Nat /\ count >= 1
  <2>1. PICK us \in Begun : TRUE
    OBVIOUS
  <2>2. count = Sum(recorded, Begun)
    BY DEF HistogramInv
  <2>3. count \in Nat
    BY <1>3, <2>2
  <2>4. Sum(recorded, {us}) = recorded[us]
    <3>1. Sum(recorded, {} \cup {us}) = Sum(recorded, {}) + recorded[us]
      <4> DEFINE S == {}
      <4>1. IsFiniteSet(S) /\ us \notin S /\ \A y \in S \cup {us} : recorded[y] \in Int
        BY <1>2, FS_EmptySet
      <4> HIDE DEF S
      <4>2. Sum(recorded, S \cup {us}) = Sum(recorded, S) + recorded[us]
        BY <4>1, SumAdd
      <4> QED BY <4>2 DEF S
    <3>2. Sum(recorded, {}) = 0 /\ {} \cup {us} = {us}
      BY SumEmpty
    <3> QED BY <1>2, <3>1, <3>2
  <2>5. recorded[us] >= 1 /\ recorded[us] <= count
    <3>1. recorded[us] <= count
      BY <1>3, <2>4
    <3>2. recorded[us] > 0 /\ recorded[us] \in Nat
      BY <1>2 DEF Begun
    <3> QED BY <3>1, <3>2
  <2> QED BY <1>2, <2>3, <2>5
<1>5. /\ n \in Nat /\ n = percent * count /\ n >= 1
  <2>1. percent \in Nat /\ percent >= 1
    OBVIOUS
  <2> QED BY <1>4, <2>1
<1>6. \A s \in Nat : s >= target <=> 100 * s >= n
  <2> SUFFICES ASSUME NEW s \in Nat PROVE s >= target <=> 100 * s >= n
    OBVIOUS
  <2> HIDE DEF n
  <2>1. s >= (n + 99) \div 100 <=> 100 * s >= n
    BY <1>5, RoundedUp
  <2>2. (n + 99) \div 100 >= 1 /\ (n + 99) \div 100 \in Int
    BY <1>5
  <2>3. target = (n + 99) \div 100
    BY <2>2 DEF n
  <2> HIDE DEF target
  <2> QED BY <2>1, <2>3
<1>7. reached = {i \in DOMAIN bounds :
                   100 * Sum(recorded, FirstBuckets(i)) >= n}
  <2>1. \A i \in DOMAIN bounds :
          /\ FoldLeft(LAMBDA a, b : a + b, 0, SubSeq(buckets, 1, i))
               = Sum(recorded, FirstBuckets(i))
          /\ Sum(recorded, FirstBuckets(i)) \in Nat
    BY <1>3, SeenExact DEF FirstBuckets
  <2> HIDE DEF target, n
  <2> QED BY <1>1, <1>6, <2>1
<1>8. enough = {us \in Begun : 100 * Sum(recorded, Shorter(us)) >= n}
  BY <1>5
<1> HIDE DEF reached, enough, n, target
<1> DEFINE d == Min(enough)
<1>9. d \in enough /\ \A us \in enough : d <= us
  <2>1. Max(Begun) \in Begun /\ \A us \in Begun : us <= Max(Begun)
    BY <1>2, GreatestNatural
  <2>2. Shorter(Max(Begun)) = Begun
    BY <2>1 DEF Shorter
  <2>3. 100 * Sum(recorded, Shorter(Max(Begun))) >= n
    <3>1. Sum(recorded, Shorter(Max(Begun))) = count
      BY <2>2 DEF HistogramInv
    <3>2. 100 * count >= percent * count
      <4>1. percent \in Nat /\ percent <= 100
        OBVIOUS
      <4>2. (100 - percent) * count >= 0
        BY <1>4, <4>1
      <4> QED BY <1>4, <4>1, <4>2
    <3> QED BY <1>5, <3>1, <3>2
  <2>4. enough # {} /\ enough \in SUBSET Nat
    BY <1>2, <1>8, <2>1, <2>3
  <2> QED BY <2>4, LeastNatural
<1> HIDE DEF d
<1>10. /\ d \in Begun /\ d \in Durations /\ d \in Nat
       /\ 100 * Sum(recorded, Shorter(d)) >= n
       /\ Bucket(d) \in DOMAIN bounds /\ Bucket(d) \in Nat
  BY <1>1, <1>2, <1>8, <1>9
<1>11. Bucket(d) \in reached
  <2>1. Shorter(d) \subseteq FirstBuckets(Bucket(d))
    BY <1>2, <1>10, BucketGrows DEF Shorter, FirstBuckets
  <2>2. FirstBuckets(Bucket(d)) \in SUBSET Begun
    BY DEF FirstBuckets
  <2>3. /\ Sum(recorded, Shorter(d)) <= Sum(recorded, FirstBuckets(Bucket(d)))
        /\ Sum(recorded, Shorter(d)) \in Nat
        /\ Sum(recorded, FirstBuckets(Bucket(d))) \in Nat
    <3>1. IsFiniteSet(FirstBuckets(Bucket(d)))
      BY <1>3, <2>2
    <3>2. \A us \in FirstBuckets(Bucket(d)) : recorded[us] \in Nat
      BY <1>2, <2>2
    <3> QED BY <2>1, <3>1, <3>2, SumSubset
  <2> QED BY <1>5, <1>7, <1>10, <2>3
<1>12. \A i \in reached : Bucket(d) <= i
  <2> SUFFICES ASSUME NEW i \in reached PROVE Bucket(d) <= i
    OBVIOUS
  <2> DEFINE F == FirstBuckets(i)
  <2>1. i \in DOMAIN bounds /\ i \in Nat /\ 100 * Sum(recorded, F) >= n
    BY <1>1, <1>7
  <2>2. F \in SUBSET Begun
    BY DEF FirstBuckets
  <2>3. F # {}
    <3> SUFFICES ASSUME F = {} PROVE FALSE
      OBVIOUS
    <3>1. Sum(recorded, F) = 0
      BY SumEmpty
    <3> HIDE DEF F
    <3> QED BY <1>5, <2>1, <3>1
  <2>4. IsFiniteSet(F) /\ F \in SUBSET Nat
    BY <1>2, <1>3, <2>2
  <2> DEFINE m == Max(F)
  <2>5. m \in F /\ \A us \in F : us <= m
    <3> HIDE DEF F
    <3> QED BY <2>3, <2>4, GreatestNatural
  <2> HIDE DEF m
  <2>6. m \in Begun /\ m \in Durations /\ m \in Nat /\ Bucket(m) <= i
    BY <1>2, <2>5 DEF FirstBuckets
  <2>7. F \subseteq Shorter(m)
    BY <2>2, <2>5 DEF Shorter
  <2>8. Shorter(m) \in SUBSET Begun
    BY DEF Shorter
  <2>9. Sum(recorded, F) <= Sum(recorded, Shorter(m))
    <3>1. IsFiniteSet(Shorter(m))
      BY <1>3, <2>8
    <3>2. \A us \in Shorter(m) : recorded[us] \in Nat
      BY <1>2, <2>8
    <3> HIDE DEF F
    <3> QED BY <2>7, <3>1, <3>2, SumSubset
  <2>10. 100 * Sum(recorded, Shorter(m)) >= n
    <3>1. Sum(recorded, F) \in Nat /\ Sum(recorded, Shorter(m)) \in Nat
      BY <1>3, <2>2, <2>8
    <3> HIDE DEF F
    <3> QED BY <1>5, <2>1, <2>9, <3>1
  <2>11. d <= m
    BY <1>8, <1>9, <2>6, <2>10
  <2>12. Bucket(d) <= Bucket(m) /\ Bucket(m) \in Nat
    BY <1>1, <1>2, <1>10, <2>6, <2>11, BucketGrows
  <2> QED BY <1>10, <2>1, <2>6, <2>12
<1>13. Min(reached) = Bucket(d)
  <2>1. reached \in SUBSET Nat
    BY <1>1, <1>7
  <2>2. \A x \in reached : (\A y \in reached : x <= y) => x = Bucket(d)
    BY <1>10, <1>11, <1>12, <2>1
  <2> QED BY ONLY <1>11, <1>12, <2>2 DEF Min
<1>14. percentile_from_buckets(percent)
         = bounds[IF reached = {} THEN Len(bounds) ELSE Min(reached)]
  <2>1. count # 0
    BY <1>4
  <2> QED BY <2>1 DEF percentile_from_buckets, reached, target
<1> QED BY <1>11, <1>13, <1>14 DEF d, enough

\* At rest the atomics describe what was recorded.
LEMMA LatencyFollows ==
  ASSUME ExtremesInv, HistogramInv
  PROVE  LatencyExact
<1> DEFINE values == {us \in Durations : recorded[us] > 0}
           upto(us) ==
             MapThenSumSet(LAMBDA x : recorded[x], {x \in values : x <= us})
<1>1. values = Begun
  BY DEF Begun
<1>2. \A us : upto(us) = Sum(recorded, Shorter(us))
  BY DEF Begun, Shorter, Sum
<1> HIDE DEF values, upto
<1>3. SUFFICES ASSUME AtRest, values # {}
               PROVE  /\ count = upto(Max(values))
                      /\ sum_us = MapThenSumSet(LAMBDA us : us * recorded[us], values)
                      /\ \A percent \in {50, 90, 99} :
                           percentile_from_buckets(percent) =
                             bounds[Bucket(Min({us \in values :
                                      100 * upto(us) >= percent * count}))]
  BY ExtremesFollow DEF LatencyExact, AtRest, values, upto
<1>4. count = upto(Max(values))
  <2>1. Begun \subseteq Nat /\ IsFiniteSet(Begun)
    BY LatencyAssumption DEF Begun, HistogramInv
  <2>2. Max(Begun) \in Begun /\ \A us \in Begun : us <= Max(Begun)
    BY <1>1, <1>3, <2>1, GreatestNatural
  <2>3. Shorter(Max(Begun)) = Begun
    BY <2>2 DEF Shorter
  <2> QED BY <1>1, <1>2, <2>3 DEF HistogramInv
<1>5. sum_us = MapThenSumSet(LAMBDA us : us * recorded[us], values)
  <2>1. Begun \in SUBSET Durations
    BY DEF Begun
  <2>2. MapThenSumSet(LAMBDA us : us * recorded[us], Begun) = Sum(Weighed, Begun)
    BY <2>1, WeighedSum
  <2> QED BY <1>1, <2>2 DEF HistogramInv
<1>6. ASSUME NEW percent \in {50, 90, 99}
      PROVE  percentile_from_buckets(percent) =
               bounds[Bucket(Min({us \in values :
                        100 * upto(us) >= percent * count}))]
  <2>1. percent \in 1..100
    OBVIOUS
  <2>2. percentile_from_buckets(percent) =
          bounds[Bucket(Min({us \in Begun :
            100 * Sum(recorded, Shorter(us)) >= percent * count}))]
    BY <1>1, <1>3, <2>1, PercentileExact
  <2>3. {us \in values : 100 * upto(us) >= percent * count}
          = {us \in Begun : 100 * Sum(recorded, Shorter(us)) >= percent * count}
    BY <1>1, <1>2
  <2> QED BY <2>2, <2>3
<1> QED BY <1>4, <1>5, <1>6

\* When nobody is recording, count, sum, extremes and percentiles are those of
\* the durations recorded, for any recorders, durations and bounds.
THEOREM LatencyCorrect == LatencySpec => []LatencyExact
<1>1. LatencyInit => ExtremesInv /\ HistogramInv
  BY InitExtremes, InitHistogram
<1>2. ExtremesInv /\ HistogramInv /\ [LatencyNext]_latencyVars
        => ExtremesInv' /\ HistogramInv'
  BY ExtremesStep, HistogramStep
<1>3. ExtremesInv /\ HistogramInv => LatencyExact
  BY LatencyFollows
<1> QED BY <1>1, <1>2, <1>3, PTL DEF LatencySpec

\* Also of the latency that queries record.
THEOREM QueryLatencyCorrect == L0Spec => []LatencyExact
<1>1. L0Spec => LatencySpec
  BY L0RecordsLatency
<1> QED BY <1>1, LatencyCorrect, PTL

=============================================================================
