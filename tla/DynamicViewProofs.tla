------------------------- MODULE DynamicViewProofs --------------------------
(***************************************************************************)
(* Proofs about the two graphs below a dynamic view, for every input,      *)
(* capacity and number of builds: a memgraph of the delta returns what was *)
(* inserted, across the move of a source from its inline segment to its    *)
(* tree; a flush cuts it into segments that hold every record once and no  *)
(* neighborhood in two places, and that answer lookups like it did; a      *)
(* saved catalog names files of one build only; and a read through the     *)
(* view returns the neighbors of both graphs.                              *)
(*                                                                         *)
(* Most of the module is about pure functions: sorts, lists of lists, the  *)
(* loop that cuts, the joins under the cap, files, adjacencies and scans.  *)
(***************************************************************************)
EXTENDS DynamicView, EdgeRecordsProofs, SequenceTheorems

-----------------------------------------------------------------------------
(* The memgraph: types and the inductive invariant.                        *)

MemTypeOK ==
  /\ vertex_map \in [Sources -> [kind : {"Absent", "Inline", "Overflow"},
                                 segment_id : Nat]]
  /\ low_degree_segments \in Seq(Seq(EdgeRecord))
  /\ high_degree \in [Sources -> SUBSET EdgeRecord]
  /\ inserted \in SUBSET EdgeRecord
  /\ IsFiniteSet(inserted) /\ edge_count = Cardinality(inserted)

Of(s) == {e \in inserted : e.key.src = s}

\* A source has its records in one place, which vertex_map names.
PlacedAt(s) ==
  /\ vertex_map[s].kind # "Overflow" => high_degree[s] = {}
  /\ vertex_map[s].kind = "Absent" => Of(s) = {}
  /\ vertex_map[s].kind = "Inline" =>
       /\ vertex_map[s].segment_id \in 1..Len(low_degree_segments)
       /\ Values(low_degree_segments[vertex_map[s].segment_id]) = Of(s)
  /\ vertex_map[s].kind = "Overflow" => high_degree[s] = Of(s)

Placed == \A s \in Sources : PlacedAt(s)

Owns(s, i) == vertex_map[s].kind = "Inline" /\ vertex_map[s].segment_id = i

\* A segment belongs to one source, or was left behind empty.
Owned ==
  /\ \A i \in 1..Len(low_degree_segments) :
       low_degree_segments[i] = <<>> \/ \E s \in Sources : Owns(s, i)
  /\ \A s, t \in Sources : \A i \in Nat : Owns(s, i) /\ Owns(t, i) => s = t

MemInv ==
  /\ MemTypeOK
  /\ \A r, q \in inserted : r.ts = q.ts => r = q
  /\ Placed
  /\ Owned
  /\ \A i \in 1..Len(low_degree_segments) : NoTwice(low_degree_segments[i])

-----------------------------------------------------------------------------
(* Segments and trees.                                                     *)

LEMMA SourceOf ==
  ASSUME NEW e \in EdgeRecord
  PROVE  e.key.src \in Sources
BY DEF EdgeRecord, Sources

LEMMA ValuesOf ==
  ASSUME NEW S, NEW segment \in Seq(S)
  PROVE  Values(segment) = {segment[k] : k \in 1..Len(segment)}
BY DEF Values

LEMMA ValuesAppend ==
  ASSUME NEW S, NEW segment \in Seq(S), NEW e \in S
  PROVE  Values(Append(segment, e)) = Values(segment) \cup {e}
<1>1. /\ Append(segment, e) \in Seq(S)
      /\ Len(Append(segment, e)) = Len(segment) + 1
      /\ \A k \in 1..Len(segment) : Append(segment, e)[k] = segment[k]
      /\ Append(segment, e)[Len(segment) + 1] = e
      /\ Len(segment) \in Nat
  OBVIOUS
<1> DEFINE longer == Append(segment, e)
<1>2. Values(segment) = {segment[k] : k \in 1..Len(segment)}
  BY ValuesOf
<1>3. Values(longer) = {longer[k] : k \in 1..(Len(segment) + 1)}
  BY <1>1, ValuesOf
<1> HIDE DEF longer
<1>4. ASSUME NEW x \in Values(longer) PROVE x \in Values(segment) \cup {e}
  <2>1. PICK k \in 1..(Len(segment) + 1) : x = longer[k]
    BY <1>3
  <2>2. k \in 1..Len(segment) \/ k = Len(segment) + 1
    BY <1>1
  <2> QED BY <1>1, <1>2, <2>1, <2>2 DEF longer
<1>5. ASSUME NEW x \in Values(segment) \cup {e} PROVE x \in Values(longer)
  <2>1. CASE x = e
    BY <1>1, <1>3, <2>1 DEF longer
  <2>2. CASE x \in Values(segment)
    <3>1. PICK k \in 1..Len(segment) : x = segment[k]
      BY <1>2, <2>2
    <3>2. k \in 1..(Len(segment) + 1)
      BY <1>1
    <3> QED BY <1>1, <1>3, <3>1, <3>2 DEF longer
  <2> QED BY <2>1, <2>2
<1> QED BY <1>4, <1>5 DEF longer

LEMMA NoTwiceAppend ==
  ASSUME NEW S, NEW segment \in Seq(S), NEW e \in S, NoTwice(segment),
         e \notin Values(segment)
  PROVE  NoTwice(Append(segment, e))
<1>1. /\ Len(Append(segment, e)) = Len(segment) + 1
      /\ \A k \in 1..Len(segment) : Append(segment, e)[k] = segment[k]
      /\ Append(segment, e)[Len(segment) + 1] = e
      /\ Len(segment) \in Nat
  OBVIOUS
<1>2. \A k \in 1..Len(segment) : segment[k] # e
  BY ValuesOf
<1> QED BY <1>1, <1>2 DEF NoTwice

\* A tree loses nothing to a record with a timestamp of its own.
LEMMA TreeInsertNew ==
  ASSUME NEW tree, NEW e, \A o \in tree : o.ts # e.ts
  PROVE  TreeInsert(tree, e) = tree \cup {e}
BY DEF TreeInsert, TreeKey

LEMMA TreeInsertSegment ==
  ASSUME NEW segment \in Seq(EdgeRecord), NoTwice(segment),
         \A r, q \in Values(segment) : r.ts = q.ts => r = q
  PROVE  TreeInsertAll({}, segment) = Values(segment)
<1>1. Values(segment) = {segment[k] : k \in 1..Len(segment)}
  BY ValuesOf
<1>2. DOMAIN segment = 1..Len(segment) /\ Len(segment) \in Nat
  OBVIOUS
<1>3. ASSUME NEW k \in 1..Len(segment), NEW j \in 1..Len(segment), k > j
      PROVE  TreeKey(segment[k]) # TreeKey(segment[j])
  <2>1. segment[k] # segment[j]
    BY <1>2, <1>3 DEF NoTwice
  <2>2. segment[k].ts # segment[j].ts
    BY <1>1, <2>1
  <2> QED BY <2>2 DEF TreeKey
<1> QED BY <1>1, <1>2, <1>3 DEF TreeInsertAll

-----------------------------------------------------------------------------
(* The invariant is inductive.                                             *)

LEMMA MemInitial == MemInit => MemInv
<1> SUFFICES ASSUME MemInit PROVE MemInv
  OBVIOUS
<1>1. MemTypeOK
  BY FS_EmptySet DEF MemInit, MemTypeOK, Absent
<1>2. Placed /\ Owned
  BY DEF MemInit, Placed, PlacedAt, Owned, Owns, Of, Absent
<1> QED BY <1>1, <1>2 DEF MemInit, MemInv

\* What every insertion does.
LEMMA InsertsOne ==
  ASSUME MemInv, NEW e \in EdgeRecord, Inserting(e)
  PROVE  /\ inserted' = inserted \cup {e} /\ e \notin inserted
         /\ inserted' \in SUBSET EdgeRecord
         /\ IsFiniteSet(inserted') /\ edge_count' = Cardinality(inserted')
         /\ \A r, q \in inserted' : r.ts = q.ts => r = q
         /\ Of(e.key.src)' = Of(e.key.src) \cup {e}
         /\ \A s \in Sources \ {e.key.src} : Of(s)' = Of(s)
<1>1. /\ inserted' = inserted \cup {e}
      /\ \A o \in inserted : o.ts # e.ts
      /\ edge_count' = edge_count + 1
  BY DEF Inserting
<1>2. e \notin inserted
  BY <1>1
<1>3. /\ IsFiniteSet(inserted) /\ edge_count = Cardinality(inserted)
      /\ inserted \in SUBSET EdgeRecord
      /\ \A r, q \in inserted : r.ts = q.ts => r = q
  BY DEF MemInv, MemTypeOK
<1>4. IsFiniteSet(inserted') /\ Cardinality(inserted') = edge_count + 1
  BY <1>1, <1>2, <1>3, FS_AddElement
<1>5. \A r, q \in inserted' : r.ts = q.ts => r = q
  BY <1>1, <1>3
<1> QED BY <1>1, <1>2, <1>3, <1>4, <1>5 DEF Of

LEMMA InsertFirstStep ==
  ASSUME MemInv, NEW e \in EdgeRecord, InsertFirst(e)
  PROVE  MemInv'
<1> DEFINE n == Len(low_degree_segments)
<1>1. /\ MemTypeOK /\ Placed /\ Owned /\ e.key.src \in Sources
      /\ \A i \in 1..n : NoTwice(low_degree_segments[i])
  BY SourceOf DEF MemInv
<1>2. /\ Inserting(e) /\ vertex_map[e.key.src].kind = "Absent"
      /\ low_degree_segments' = Append(low_degree_segments, <<e>>)
      /\ vertex_map' = [vertex_map EXCEPT
           ![e.key.src] = [kind |-> "Inline", segment_id |-> n + 1]]
      /\ high_degree' = high_degree
  BY DEF InsertFirst, Absent, Inline
<1>3. /\ n \in Nat /\ <<e>> \in Seq(EdgeRecord)
      /\ Len(low_degree_segments') = n + 1
      /\ \A i \in 1..n : low_degree_segments'[i] = low_degree_segments[i]
      /\ low_degree_segments'[n + 1] = <<e>>
      /\ low_degree_segments' \in Seq(Seq(EdgeRecord))
  BY <1>1, <1>2 DEF MemTypeOK
<1>4. /\ vertex_map'[e.key.src].kind = "Inline"
      /\ vertex_map'[e.key.src].segment_id = n + 1
      /\ \A s \in Sources \ {e.key.src} : vertex_map'[s] = vertex_map[s]
  BY <1>1, <1>2 DEF MemTypeOK
<1>5. MemTypeOK'
  BY <1>1, <1>2, <1>3, InsertsOne DEF MemTypeOK
<1>6. Values(<<e>>) = {e} /\ NoTwice(<<e>>)
  BY DEF Values, NoTwice
<1>7. Placed'
  <2>1. Of(e.key.src) = {} /\ high_degree[e.key.src] = {}
    BY <1>1, <1>2 DEF Placed, PlacedAt
  <2>2. Of(e.key.src)' = {e} /\ \A s \in Sources \ {e.key.src} : Of(s)' = Of(s)
    BY <1>2, <2>1, InsertsOne
  <2>3. ASSUME NEW s \in Sources \ {e.key.src} PROVE PlacedAt(s)'
    <3>1. PlacedAt(s)
      BY <1>1 DEF Placed
    <3>2. ASSUME vertex_map[s].kind = "Inline"
          PROVE  /\ vertex_map[s].segment_id \in 1..(n + 1)
                 /\ low_degree_segments'[vertex_map[s].segment_id]
                      = low_degree_segments[vertex_map[s].segment_id]
      BY <1>3, <3>1, <3>2 DEF PlacedAt
    <3> QED BY <1>2, <1>3, <1>4, <2>2, <3>1, <3>2 DEF PlacedAt
  <2>4. PlacedAt(e.key.src)'
    BY <1>2, <1>3, <1>4, <1>6, <2>1, <2>2 DEF PlacedAt
  <2> QED BY <2>3, <2>4 DEF Placed
<1>8. Owned'
  <2>1. \A s \in Sources \ {e.key.src} : \A i \in Nat :
          /\ Owns(s, i)' <=> Owns(s, i)
          /\ Owns(s, i) => i # n + 1
    BY <1>1, <1>3, <1>4 DEF Owns, Placed, PlacedAt
  <2>2. \A i \in Nat : /\ Owns(e.key.src, i)' <=> i = n + 1
                       /\ ~Owns(e.key.src, i)
    BY <1>2, <1>4 DEF Owns
  <2>3. ASSUME NEW i \in 1..(n + 1)
        PROVE  \/ low_degree_segments'[i] = <<>>
               \/ \E s \in Sources : Owns(s, i)'
    <3>1. CASE i = n + 1
      BY <1>1, <1>3, <2>2, <3>1
    <3>2. CASE i \in 1..n
      <4>1. i \in Nat
        BY <1>3
      <4>2. low_degree_segments[i] = <<>> \/ \E s \in Sources : Owns(s, i)
        BY <1>1, <3>2 DEF Owned
      <4>3. ASSUME NEW s \in Sources, Owns(s, i) PROVE Owns(s, i)'
        BY <2>1, <2>2, <4>1, <4>3
      <4> QED BY <1>3, <3>2, <4>2, <4>3
    <3> QED BY <1>3, <3>1, <3>2
  <2>4. \A s, t \in Sources : \A i \in Nat : (Owns(s, i) /\ Owns(t, i))' => s = t
    BY <1>1, <2>1, <2>2 DEF Owned
  <2> QED BY <1>3, <2>3, <2>4 DEF Owned
<1>9. \A i \in 1..Len(low_degree_segments') : NoTwice(low_degree_segments'[i])
  <2> SUFFICES ASSUME NEW i \in 1..(n + 1)
               PROVE  NoTwice(low_degree_segments'[i])
    BY <1>3
  <2>1. CASE i = n + 1
    BY <1>3, <1>6, <2>1
  <2>2. CASE i # n + 1
    <3>1. i \in 1..n
      BY <1>3, <2>2
    <3> QED BY <1>1, <1>3, <3>1
  <2> QED BY <2>1, <2>2
<1> QED BY <1>2, <1>5, <1>7, <1>8, <1>9, InsertsOne DEF MemInv

LEMMA InsertInlineStep ==
  ASSUME MemInv, NEW e \in EdgeRecord, InsertInline(e)
  PROVE  MemInv'
<1> DEFINE n == Len(low_degree_segments)
           i == vertex_map[e.key.src].segment_id
<1>1. /\ MemTypeOK /\ Placed /\ Owned /\ e.key.src \in Sources
      /\ \A j \in 1..n : NoTwice(low_degree_segments[j])
  BY SourceOf DEF MemInv
<1>2. /\ Inserting(e) /\ vertex_map[e.key.src].kind = "Inline"
      /\ low_degree_segments' = [low_degree_segments EXCEPT ![i] = Append(@, e)]
      /\ vertex_map' = vertex_map /\ high_degree' = high_degree
  BY DEF InsertInline
<1>3. /\ i \in 1..n /\ Values(low_degree_segments[i]) = Of(e.key.src)
      /\ high_degree[e.key.src] = {}
  BY <1>1, <1>2 DEF Placed, PlacedAt
<1>4. low_degree_segments[i] \in Seq(EdgeRecord) /\ n \in Nat /\ i \in Nat
  BY <1>1, <1>3 DEF MemTypeOK
<1> HIDE DEF n, i
<1>5. /\ Len(low_degree_segments') = n
      /\ \A j \in 1..n \ {i} : low_degree_segments'[j] = low_degree_segments[j]
      /\ low_degree_segments'[i] = Append(low_degree_segments[i], e)
      /\ low_degree_segments' \in Seq(Seq(EdgeRecord))
  BY <1>1, <1>2, <1>3, <1>4 DEF MemTypeOK, n
<1>6. MemTypeOK'
  BY <1>1, <1>2, <1>5, InsertsOne DEF MemTypeOK
<1>7. Values(low_degree_segments'[i]) = Of(e.key.src)'
  <2>1. Of(e.key.src)' = Of(e.key.src) \cup {e}
    BY <1>2, InsertsOne
  <2>2. Values(Append(low_degree_segments[i], e))
          = Values(low_degree_segments[i]) \cup {e}
    BY <1>4, ValuesAppend
  <2> QED BY <1>3, <1>5, <2>1, <2>2
<1>8. \A s \in Sources \ {e.key.src} : ~Owns(s, i)
  <2>1. Owns(e.key.src, i)
    BY <1>2 DEF Owns, i
  <2> QED BY <1>1, <1>4, <2>1 DEF Owned
<1>9. Placed'
  <2>1. ASSUME NEW s \in Sources \ {e.key.src} PROVE PlacedAt(s)'
    <3>1. PlacedAt(s) /\ Of(s)' = Of(s)
      BY <1>1, <1>2, InsertsOne DEF Placed
    <3>2. ASSUME vertex_map[s].kind = "Inline"
          PROVE  low_degree_segments'[vertex_map[s].segment_id]
                   = low_degree_segments[vertex_map[s].segment_id]
      BY <1>5, <1>8, <3>1, <3>2 DEF PlacedAt, Owns, n
    <3> QED BY <1>2, <1>5, <3>1, <3>2 DEF PlacedAt, n
  <2>2. PlacedAt(e.key.src)'
    BY <1>2, <1>3, <1>5, <1>7 DEF PlacedAt, i
  <2> QED BY <2>1, <2>2 DEF Placed
<1>10. Owned'
  <2>1. \A s \in Sources, j \in Nat : Owns(s, j)' <=> Owns(s, j)
    BY <1>2 DEF Owns
  <2>2. Owns(e.key.src, i)
    BY <1>2 DEF Owns, i
  <2>3. ASSUME NEW j \in 1..n
        PROVE  \/ low_degree_segments'[j] = <<>>
               \/ \E s \in Sources : Owns(s, j)'
    <3>1. CASE j = i
      BY <1>1, <1>4, <2>1, <2>2, <3>1
    <3>2. CASE j # i
      BY <1>1, <1>2, <1>5, <3>2 DEF Owned, Owns, n
    <3> QED BY <3>1, <3>2
  <2>4. \A s, t \in Sources : \A j \in Nat : (Owns(s, j) /\ Owns(t, j))' => s = t
    BY <1>1, <2>1 DEF Owned
  <2> QED BY <1>5, <2>3, <2>4 DEF Owned
<1>11. NoTwice(low_degree_segments'[i])
  <2>1. e \notin Values(low_degree_segments[i])
    BY <1>2, <1>3, InsertsOne DEF Of
  <2> QED BY <1>1, <1>3, <1>4, <1>5, <2>1, NoTwiceAppend
<1>12. \A j \in 1..Len(low_degree_segments') : NoTwice(low_degree_segments'[j])
  BY <1>1, <1>5, <1>11
<1> QED BY <1>2, <1>6, <1>9, <1>10, <1>12, InsertsOne DEF MemInv

LEMMA InsertSpillStep ==
  ASSUME MemInv, NEW e \in EdgeRecord, InsertSpill(e)
  PROVE  MemInv'
<1> DEFINE n == Len(low_degree_segments)
           i == vertex_map[e.key.src].segment_id
<1>1. /\ MemTypeOK /\ Placed /\ Owned /\ e.key.src \in Sources
      /\ \A j \in 1..n : NoTwice(low_degree_segments[j])
  BY SourceOf DEF MemInv
<1>2. /\ Inserting(e) /\ vertex_map[e.key.src].kind = "Inline"
      /\ low_degree_segments' = [low_degree_segments EXCEPT ![i] = <<>>]
      /\ high_degree' = [high_degree EXCEPT ![e.key.src] =
           TreeInsert(TreeInsertAll(high_degree[e.key.src],
                                    low_degree_segments[i]), e)]
      /\ vertex_map' = [vertex_map EXCEPT
           ![e.key.src] = [kind |-> "Overflow", segment_id |-> 0]]
  BY DEF InsertSpill, Overflow
<1>3. /\ i \in 1..n /\ Values(low_degree_segments[i]) = Of(e.key.src)
      /\ high_degree[e.key.src] = {}
  BY <1>1, <1>2 DEF Placed, PlacedAt
<1>4. low_degree_segments[i] \in Seq(EdgeRecord) /\ n \in Nat /\ i \in Nat
  BY <1>1, <1>3 DEF MemTypeOK
<1>5. \A s \in Sources \ {e.key.src} : ~Owns(s, i)
  BY <1>1, <1>2, <1>4 DEF Owned, Owns
<1> HIDE DEF n, i
<1>6. /\ Len(low_degree_segments') = n
      /\ \A j \in 1..n \ {i} : low_degree_segments'[j] = low_degree_segments[j]
      /\ low_degree_segments'[i] = <<>>
      /\ low_degree_segments' \in Seq(Seq(EdgeRecord))
  BY <1>1, <1>2, <1>3, <1>4 DEF MemTypeOK, n
<1>7. high_degree'[e.key.src] = Of(e.key.src)'
  <2>1. TreeInsertAll({}, low_degree_segments[i]) = Of(e.key.src)
    <3>1. \A r, q \in Of(e.key.src) : r.ts = q.ts => r = q
      BY DEF MemInv, Of
    <3> QED BY <1>1, <1>3, <1>4, <3>1, TreeInsertSegment
  <2>2. \A o \in Of(e.key.src) : o.ts # e.ts
    BY <1>2 DEF Inserting, Of
  <2>3. TreeInsert(Of(e.key.src), e) = Of(e.key.src) \cup {e}
    BY <2>2, TreeInsertNew
  <2> QED BY <1>1, <1>2, <1>3, <2>1, <2>3, InsertsOne DEF MemTypeOK
<1>8. /\ vertex_map'[e.key.src].kind = "Overflow"
      /\ \A s \in Sources \ {e.key.src} :
           vertex_map'[s] = vertex_map[s] /\ high_degree'[s] = high_degree[s]
      /\ vertex_map' \in [Sources -> [kind : {"Absent", "Inline", "Overflow"},
                                       segment_id : Nat]]
      /\ high_degree' \in [Sources -> SUBSET EdgeRecord]
  <2>1. Of(e.key.src)' \in SUBSET EdgeRecord
    BY <1>2, InsertsOne DEF Of
  <2> QED BY <1>1, <1>2, <1>7, <2>1 DEF MemTypeOK
<1>9. MemTypeOK'
  BY <1>2, <1>6, <1>8, InsertsOne DEF MemTypeOK
<1>10. Placed'
  <2>1. ASSUME NEW s \in Sources \ {e.key.src} PROVE PlacedAt(s)'
    <3>1. PlacedAt(s) /\ Of(s)' = Of(s)
      BY <1>1, <1>2, InsertsOne DEF Placed
    <3>2. ASSUME vertex_map[s].kind = "Inline"
          PROVE  low_degree_segments'[vertex_map[s].segment_id]
                   = low_degree_segments[vertex_map[s].segment_id]
      BY <1>5, <1>6, <3>1, <3>2 DEF PlacedAt, Owns, n
    <3> QED BY <1>6, <1>8, <3>1, <3>2 DEF PlacedAt, n
  <2>2. PlacedAt(e.key.src)'
    BY <1>7, <1>8 DEF PlacedAt
  <2> QED BY <2>1, <2>2 DEF Placed
<1>11. Owned'
  <2>1. \A s \in Sources \ {e.key.src} : \A j \in Nat :
          Owns(s, j)' <=> Owns(s, j)
    BY <1>8 DEF Owns
  <2>2. \A j \in Nat : /\ ~Owns(e.key.src, j)'
                       /\ Owns(e.key.src, j) <=> j = i
    BY <1>2, <1>8 DEF Owns, i
  <2>3. ASSUME NEW j \in 1..n
        PROVE  \/ low_degree_segments'[j] = <<>>
               \/ \E s \in Sources : Owns(s, j)'
    <3>1. CASE j = i
      BY <1>6, <3>1
    <3>2. CASE j # i
      <4>1. j \in Nat
        BY <1>4
      <4>2. low_degree_segments[j] = <<>> \/ \E s \in Sources : Owns(s, j)
        BY <1>1 DEF Owned, n
      <4>3. ASSUME NEW s \in Sources, Owns(s, j) PROVE Owns(s, j)'
        BY <2>1, <2>2, <3>2, <4>1, <4>3
      <4> QED BY <1>6, <3>2, <4>2, <4>3
    <3> QED BY <3>1, <3>2
  <2>4. \A s, t \in Sources : \A j \in Nat : (Owns(s, j) /\ Owns(t, j))' => s = t
    BY <1>1, <2>1, <2>2 DEF Owned
  <2> QED BY <1>6, <2>3, <2>4 DEF Owned
<1>12. \A j \in 1..Len(low_degree_segments') : NoTwice(low_degree_segments'[j])
  <2>1. NoTwice(<<>>)
    BY DEF NoTwice
  <2> QED BY <1>1, <1>6, <2>1 DEF n
<1> QED BY <1>2, <1>9, <1>10, <1>11, <1>12, InsertsOne DEF MemInv

LEMMA InsertOverflowStep ==
  ASSUME MemInv, NEW e \in EdgeRecord, InsertOverflow(e)
  PROVE  MemInv'
<1>1. MemTypeOK /\ Placed /\ Owned /\ e.key.src \in Sources
  BY SourceOf DEF MemInv
<1>2. /\ Inserting(e) /\ vertex_map[e.key.src].kind = "Overflow"
      /\ high_degree' = [high_degree EXCEPT
           ![e.key.src] = TreeInsert(high_degree[e.key.src], e)]
      /\ vertex_map' = vertex_map /\ low_degree_segments' = low_degree_segments
  BY DEF InsertOverflow
<1>3. high_degree[e.key.src] = Of(e.key.src)
  BY <1>1, <1>2 DEF Placed, PlacedAt
<1>4. \A o \in Of(e.key.src) : o.ts # e.ts
  BY <1>2 DEF Inserting, Of
<1>5. high_degree'[e.key.src] = Of(e.key.src)'
  <2>1. Of(e.key.src)' = Of(e.key.src) \cup {e}
    BY <1>2, InsertsOne
  <2>2. TreeInsert(Of(e.key.src), e) = Of(e.key.src) \cup {e}
    BY <1>4, TreeInsertNew
  <2> QED BY <1>1, <1>2, <1>3, <2>1, <2>2 DEF MemTypeOK
<1>6. \A s \in Sources \ {e.key.src} : high_degree'[s] = high_degree[s]
  BY <1>1, <1>2 DEF MemTypeOK
<1>7. high_degree' \in [Sources -> SUBSET EdgeRecord]
  <2>1. Of(e.key.src)' \in SUBSET EdgeRecord
    BY <1>2, InsertsOne DEF Of
  <2> QED BY <1>1, <1>2, <1>5, <2>1 DEF MemTypeOK
<1>8. MemTypeOK'
  BY <1>1, <1>2, <1>7, InsertsOne DEF MemTypeOK
<1>9. Placed'
  <2>1. ASSUME NEW s \in Sources \ {e.key.src} PROVE PlacedAt(s)'
    BY <1>1, <1>2, <1>6, InsertsOne DEF Placed, PlacedAt
  <2>2. PlacedAt(e.key.src)'
    BY <1>2, <1>5 DEF PlacedAt
  <2> QED BY <2>1, <2>2 DEF Placed
<1>10. Owned'
  BY <1>1, <1>2 DEF Owned, Owns
<1> QED BY <1>2, <1>8, <1>9, <1>10, InsertsOne DEF MemInv

LEMMA MemStep ==
  ASSUME MemInv, [Insert]_memVars
  PROVE  MemInv'
<1>1. CASE Insert
  BY <1>1, InsertFirstStep, InsertInlineStep, InsertSpillStep,
     InsertOverflowStep DEF Insert
<1>2. CASE UNCHANGED memVars
  <2> USE <1>2 DEF memVars
  <2>1. MemTypeOK' /\ Owned' /\ (\A s : Of(s)' = Of(s))
    BY DEF MemInv, MemTypeOK, Owned, Owns, Of
  <2>2. Placed'
    BY <2>1 DEF MemInv, Placed, PlacedAt
  <2> QED BY <2>1, <2>2 DEF MemInv
<1> QED BY <1>1, <1>2

-----------------------------------------------------------------------------
(* What a memgraph returns.                                                *)

LEMMA ContentsFollow == MemInv => ContentsExact
<1> SUFFICES ASSUME MemInv PROVE ContentsExact
  OBVIOUS
<1>1. /\ MemTypeOK /\ Placed /\ Owned
      /\ \A i \in 1..Len(low_degree_segments) : NoTwice(low_degree_segments[i])
  BY DEF MemInv
<1>2. \A e \in inserted : e.key.src \in Sources
  BY <1>1, SourceOf DEF MemTypeOK
<1>3. DOMAIN low_degree_segments = 1..Len(low_degree_segments)
      /\ \A i \in 1..Len(low_degree_segments) :
           /\ low_degree_segments[i] \in Seq(EdgeRecord)
           /\ DOMAIN low_degree_segments[i] = 1..Len(low_degree_segments[i])
           /\ i \in Nat
  BY <1>1 DEF MemTypeOK
<1>4. ASSUME NEW s \in Sources PROVE get_edges_for_src(s) = Of(s)
  BY <1>1 DEF get_edges_for_src, Placed, PlacedAt, MemTypeOK
<1>5. ASSUME NEW i \in 1..Len(low_degree_segments),
             NEW e \in Values(low_degree_segments[i])
      PROVE  /\ e \in inserted
             /\ Owns(e.key.src, i)
  <2>1. low_degree_segments[i] # <<>>
    BY <1>5 DEF Values
  <2>2. PICK s \in Sources : Owns(s, i)
    BY <1>1, <2>1 DEF Owned
  <2>3. Values(low_degree_segments[i]) = Of(s)
    BY <1>1, <2>2 DEF Owns, Placed, PlacedAt
  <2> QED BY <1>5, <2>2, <2>3 DEF Of
<1>6. \A s \in Sources : high_degree[s] = {} \/ high_degree[s] = Of(s)
  BY <1>1 DEF Placed, PlacedAt, MemTypeOK
<1>7. all_edges_sorted = inserted
  <2>1. all_edges_sorted \subseteq inserted
    BY <1>3, <1>5, <1>6 DEF all_edges_sorted, Of
  <2>2. ASSUME NEW e \in inserted PROVE e \in all_edges_sorted
    <3>1. e.key.src \in Sources /\ e \in Of(e.key.src)
      BY <1>2 DEF Of
    <3>2. PlacedAt(e.key.src)
      BY <1>1, <3>1 DEF Placed
    <3>3. CASE vertex_map[e.key.src].kind = "Inline"
      BY <1>3, <3>1, <3>2, <3>3 DEF PlacedAt, all_edges_sorted
    <3>4. CASE vertex_map[e.key.src].kind = "Overflow"
      BY <3>1, <3>2, <3>4 DEF PlacedAt, all_edges_sorted
    <3> QED BY <1>1, <3>1, <3>2, <3>3, <3>4 DEF PlacedAt, MemTypeOK
  <2> QED BY <2>1, <2>2
<1>8. HeldOnce
  <2> SUFFICES ASSUME NEW i \in 1..Len(low_degree_segments),
                      NEW k \in 1..Len(low_degree_segments[i])
               PROVE  LET e == low_degree_segments[i][k]
                      IN /\ vertex_map[e.key.src] = Inline(i)
                         /\ \A l \in 1..Len(low_degree_segments[i]) :
                              low_degree_segments[i][l] = e => l = k
                         /\ \A s \in Sources : e \notin high_degree[s]
    BY <1>3 DEF HeldOnce
  <2> DEFINE e == low_degree_segments[i][k]
  <2>1. e \in Values(low_degree_segments[i])
    BY <1>3 DEF Values
  <2>2. e \in inserted /\ Owns(e.key.src, i) /\ e.key.src \in Sources
    BY <1>2, <1>5, <2>1
  <2>3. vertex_map[e.key.src] = Inline(i)
    BY <1>1, <2>2 DEF Owns, MemTypeOK, Inline
  <2>4. \A l \in 1..Len(low_degree_segments[i]) :
          low_degree_segments[i][l] = e => l = k
    BY <1>1 DEF NoTwice
  <2>5. ASSUME NEW s \in Sources, e \in high_degree[s] PROVE FALSE
    <3>1. e \in Of(s)
      BY <1>6, <2>5
    <3>2. e.key.src = s
      BY <3>1 DEF Of
    <3>3. high_degree[s] = {}
      BY <1>1, <2>2, <3>2 DEF Owns, Placed, PlacedAt
    <3> QED BY <2>5, <3>3
  <2> QED BY <2>3, <2>4, <2>5
<1>9. edge_count = Cardinality(inserted)
  BY <1>1 DEF MemTypeOK
<1> QED BY <1>4, <1>7, <1>8, <1>9 DEF ContentsExact, Of

\* A memgraph returns what was inserted, by source and all of it, whatever
\* the capacity of its inline segments and the order of the timestamps.
THEOREM MemGraphCorrect == MemSpec => []ContentsExact
BY MemInitial, MemStep, ContentsFollow, PTL DEF MemSpec

\* So does the memgraph of a delta while it is flushed and read.
THEOREM ContentsCorrect == ViewSpec => []ContentsExact
<1>1. ViewInit => MemInv
  BY MemInitial DEF ViewInit, Init
<1>2. MemInv /\ [ViewNext]_viewVars => MemInv'
  <2>1. [ViewNext]_viewVars => [Insert]_memVars
    BY DEF ViewNext, Build, Open, Delta, Next, MemInsert, BuildSegments,
           WriteNext, viewVars, vars, memVars
  <2> QED BY <2>1, MemStep
<1> QED BY <1>1, <1>2, ContentsFollow, PTL DEF ViewSpec

-----------------------------------------------------------------------------
(* Records in the order of their keys.                                     *)

Timestamped(E) ==
  /\ E \in SUBSET EdgeRecord /\ IsFiniteSet(E)
  /\ \A r, q \in E : r.ts = q.ts => r = q

KeyOrder(E) == {p \in E \X E : Before(p[1], p[2])}

LEMMA RecordType ==
  ASSUME NEW e \in EdgeRecord
  PROVE  /\ e.key \in Keys /\ e.key.src \in Nat /\ e.key.edge_type \in Int
         /\ e.key.dst \in Nat /\ e.ts \in Nat /\ e.ts \in Int
BY KeysAssumption, MaxTsAssumption DEF EdgeRecord

LEMMA BeforeIs ==
  ASSUME NEW a, NEW b
  PROVE  Before(a, b) <=>
           \/ a.key.src < b.key.src
           \/ /\ a.key.src = b.key.src
              /\ \/ a.key.edge_type < b.key.edge_type
                 \/ /\ a.key.edge_type = b.key.edge_type
                    /\ \/ a.key.dst < b.key.dst
                       \/ a.key.dst = b.key.dst /\ a.ts < b.ts
<1> DEFINE x == <<a.key.src, a.key.edge_type, a.key.dst, a.ts>>
           y == <<b.key.src, b.key.edge_type, b.key.dst, b.ts>>
           first(i) == x[i] < y[i] /\ \A j \in 1..(i - 1) : x[j] = y[j]
<1>1. Before(a, b) <=> \E i \in 1..4 : first(i)
  BY DEF Before
<1>2. (\E i \in 1..4 : first(i)) <=> first(1) \/ first(2) \/ first(3) \/ first(4)
  <2> HIDE DEF first
  <2>1. 1..4 = {1, 2, 3, 4}
    OBVIOUS
  <2> QED BY <2>1
<1>3. 1..(1 - 1) = {} /\ 1..(2 - 1) = {1} /\ 1..(3 - 1) = {1, 2} /\ 1..(4 - 1) = {1, 2, 3}
  OBVIOUS
<1>4. /\ first(1) <=> x[1] < y[1]
      /\ first(2) <=> x[2] < y[2] /\ x[1] = y[1]
      /\ first(3) <=> x[3] < y[3] /\ x[1] = y[1] /\ x[2] = y[2]
      /\ first(4) <=> x[4] < y[4] /\ x[1] = y[1] /\ x[2] = y[2] /\ x[3] = y[3]
  <2> HIDE DEF x, y
  <2> QED BY <1>3
<1>5. /\ x[1] = a.key.src /\ x[2] = a.key.edge_type /\ x[3] = a.key.dst /\ x[4] = a.ts
      /\ y[1] = b.key.src /\ y[2] = b.key.edge_type /\ y[3] = b.key.dst /\ y[4] = b.ts
  OBVIOUS
<1> HIDE DEF x, y, first
<1> QED BY <1>1, <1>2, <1>4, <1>5

\* Records with timestamps of their own have one order.
LEMMA KeyOrders ==
  ASSUME NEW E, Timestamped(E)
  PROVE  Orders(KeyOrder(E), E)
<1>1. \A e \in E : /\ e.key.src \in Int /\ e.key.edge_type \in Int
                   /\ e.key.dst \in Int /\ e.ts \in Int
  BY RecordType DEF Timestamped
<1>2. \A x \in E : ~Before(x, x)
  BY <1>1, BeforeIs
<1>3. \A x, y \in E : x = y \/ Before(x, y) \/ Before(y, x)
  BY <1>1, BeforeIs DEF Timestamped
<1>4. \A x, y, z \in E : Before(x, y) /\ Before(y, z) => Before(x, z)
  BY <1>1, BeforeIs
<1>5. \A x, y \in E : <<x, y>> \in KeyOrder(E) <=> Before(x, y)
  BY DEF KeyOrder
<1> QED BY <1>2, <1>3, <1>4, <1>5 DEF Orders

LEMMA KeySorted ==
  ASSUME NEW E, Timestamped(E)
  PROVE  Sorts(sort_by_key(E), E, KeyOrder(E))
<1> DEFINE less(x) == {y \in E : Before(y, x)}
           before(x) == {y \in E : <<y, x>> \in KeyOrder(E)}
<1>1. \A x \in E : less(x) = before(x)
  BY DEF KeyOrder
<1>2. sort_by_key(E) = Ranked(E, KeyOrder(E))
  <2>1. sort_by_key(E) =
          [i \in 1..Cardinality(E) |->
             CHOOSE x \in E : Cardinality(less(x)) = i - 1]
    BY DEF sort_by_key, SortedSet
  <2>2. Ranked(E, KeyOrder(E)) =
          [i \in 1..Cardinality(E) |->
             CHOOSE x \in E : Cardinality(before(x)) = i - 1]
    BY DEF Ranked
  <2> HIDE DEF less, before
  <2> QED BY <1>1, <2>1, <2>2
<1>3. Orders(KeyOrder(E), E) /\ IsFiniteSet(E)
  BY KeyOrders DEF Timestamped
<1> QED BY <1>2, <1>3, RanksSort

\* sort_by_key lists every record once, source by source.
LEMMA SortByKey ==
  ASSUME NEW E, Timestamped(E)
  PROVE  LET s == sort_by_key(E)
         IN  /\ s \in Seq(E) /\ Len(s) \in Nat /\ DOMAIN s = 1..Len(s)
             /\ Len(s) = Cardinality(E) /\ ToSet(s) = E /\ NoTwice(s)
             /\ \A i, j \in 1..Len(s) : i <= j => s[i].key.src <= s[j].key.src
<1> DEFINE s == sort_by_key(E)
<1>1. Orders(KeyOrder(E), E) /\ Sorts(s, E, KeyOrder(E))
  BY KeyOrders, KeySorted
<1> HIDE DEF s
<1>2. /\ s \in Seq(E) /\ Len(s) \in Nat /\ DOMAIN s = 1..Len(s)
      /\ ToSet(s) = E /\ NoTwice(s)
  BY <1>1, SortedOnce
<1>3. Len(s) = Cardinality(E)
  BY <1>1 DEF Sorts
<1>4. ASSUME NEW i \in 1..Len(s), NEW j \in 1..Len(s), i <= j
      PROVE  s[i].key.src <= s[j].key.src
  <2>1. /\ s[i] \in E /\ s[j] \in E
        /\ s[i].key.src \in Int /\ s[j].key.src \in Int
    BY <1>2, RecordType DEF Timestamped
  <2>2. CASE i = j
    BY <2>1, <2>2
  <2>3. CASE i < j
    <3>1. Before(s[i], s[j])
      BY <1>1, <2>3 DEF Sorts, KeyOrder
    <3> QED BY <2>1, <3>1, BeforeIs
  <2> QED BY <1>2, <1>4, <2>2, <2>3
<1> QED BY <1>2, <1>3, <1>4 DEF s

-----------------------------------------------------------------------------
(* Cutting a sorted list.                                                  *)

CutState(E) == [segments : Seq(Seq(E)), current : Seq(E)]

NoCut == [segments |-> <<>>, current |-> <<>>]

LEMMA CutType ==
  ASSUME NEW E, NEW cut \in CutState(E), NEW edge \in E
  PROVE  Cut(cut, edge) \in CutState(E)
<1>1. /\ cut.segments \in Seq(Seq(E)) /\ cut.current \in Seq(E)
  BY DEF CutState
<1>2. Append(cut.segments, cut.current) \in Seq(Seq(E)) /\ <<edge>> \in Seq(E)
  BY <1>1
<1>3. Append(cut.current, edge) \in Seq(E)
  BY <1>1
<1>4. [segments |-> Append(cut.segments, cut.current), current |-> <<edge>>]
        \in CutState(E)
  BY <1>2 DEF CutState
<1>5. [cut EXCEPT !.current = Append(@, edge)] \in CutState(E)
  BY <1>3 DEF CutState
<1> QED BY <1>4, <1>5 DEF Cut

\* The loop of split_range_bounded_segments, round by round.
LEMMA CutRounds ==
  ASSUME NEW E, NEW edges \in Seq(E)
  PROVE  \E f \in [0..Len(edges) -> CutState(E)] :
           /\ f[0] = NoCut
           /\ \A k \in 1..Len(edges) : f[k] = Cut(f[k - 1], edges[k])
           /\ FoldLeft(Cut, NoCut, edges) = f[Len(edges)]
<1> DEFINE n == Len(edges)
           S == 1..n
           Type == CutState(E)
           pick == [s \in SUBSET S |-> Max(s)]
           next == [x \in S |-> [c \in Type |-> Cut(c, edges[x])]]
           Fold(h) == h = [s \in SUBSET S |->
                             IF s = {} THEN NoCut
                             ELSE Cut(h[s \ {Max(s)}], edges[Max(s)])]
           iter == CHOOSE h : Fold(h)
<1>1. /\ n \in Nat /\ IsFiniteSet(S) /\ S \subseteq Nat /\ DOMAIN edges = S
      /\ \A x \in S : edges[x] \in E
  BY FS_Interval
<1>2. \A s \in SUBSET S : s # {} => Max(s) \in s /\ pick[s] = Max(s)
  <2> HIDE DEF S
  <2>1. ASSUME NEW s \in SUBSET S, s # {} PROVE Max(s) \in s
    <3>1. s \in SUBSET Nat /\ IsFiniteSet(s)
      BY <1>1, FS_Subset
    <3> QED BY <2>1, <3>1, GreatestNatural
  <2> QED BY <2>1
<1>3. Picks(pick, S)
  BY <1>2 DEF Picks
<1>4. next \in [S -> [Type -> Type]] /\ NoCut \in Type
  <2>1. \A x \in S : \A c \in Type : Cut(c, edges[x]) \in Type
    <3> HIDE DEF S
    <3> QED BY <1>1, CutType
  <2>2. NoCut \in Type
    BY DEF NoCut, CutState
  <2> HIDE DEF Type, S
  <2> QED BY <2>1, <2>2
<1>5. PICK h \in [SUBSET S -> Type] : IsFold(h, next, NoCut, pick, S)
  <2> HIDE DEF pick, next, Type, S
  <2> QED BY <1>1, <1>3, <1>4, FoldExists
<1>6. \A s \in SUBSET S : s # {} =>
        /\ Max(s) \in S /\ s \ {Max(s)} \in SUBSET S
        /\ h[s \ {Max(s)}] \in Type
        /\ h[s] = Cut(h[s \ {Max(s)}], edges[Max(s)])
  <2> SUFFICES ASSUME NEW s \in SUBSET S, s # {}
               PROVE  /\ Max(s) \in S /\ s \ {Max(s)} \in SUBSET S
                      /\ h[s \ {Max(s)}] \in Type
                      /\ h[s] = Cut(h[s \ {Max(s)}], edges[Max(s)])
    OBVIOUS
  <2> HIDE DEF S, Type
  <2>1. /\ Max(s) \in S /\ s \ {Max(s)} \in SUBSET S /\ pick[s] = Max(s)
        /\ h[s \ {Max(s)}] \in Type
    BY <1>2
  <2>2. h[s] = next[Max(s)][h[s \ {Max(s)}]]
    <3> HIDE DEF pick, next
    <3> QED BY <1>5, <2>1 DEF IsFold
  <2> QED BY <2>1, <2>2
<1>7. Fold(h)
  <2>1. h = [s \in SUBSET S |-> h[s]]
    OBVIOUS
  <2>2. h[{}] = NoCut
    <3> HIDE DEF S, Type, pick, next
    <3> QED BY <1>5 DEF IsFold
  <2> HIDE DEF S, Type
  <2> QED BY <1>6, <2>1, <2>2
<1>8. Fold(iter)
  BY <1>7
<1>9. FoldLeft(Cut, NoCut, edges) = iter[S]
  BY <1>1 DEF FoldLeft, MapThenFoldSet
<1>10. /\ iter[{}] = NoCut
       /\ \A s \in SUBSET S : s # {} => iter[s] = Cut(iter[s \ {Max(s)}], edges[Max(s)])
  <2> HIDE DEF iter, S
  <2> QED BY <1>8
<1> DEFINE f == [k \in 0..n |-> iter[1..k]]
<1>11. \A k \in 1..n : /\ 1..k \in SUBSET S /\ 1..k # {} /\ Max(1..k) = k
                       /\ (1..k) \ {k} = 1..(k - 1)
  <2> SUFFICES ASSUME NEW k \in 1..n
               PROVE  /\ 1..k \in SUBSET S /\ 1..k # {} /\ Max(1..k) = k
                      /\ (1..k) \ {k} = 1..(k - 1)
    OBVIOUS
  <2>1. 1..k \in SUBSET S /\ 1..k # {} /\ (1..k) \ {k} = 1..(k - 1)
    BY <1>1
  <2>2. Max(1..k) \in 1..k /\ \A x \in 1..k : x <= Max(1..k)
    <3> DEFINE T == 1..k
    <3>1. T \in SUBSET Nat /\ T # {} /\ IsFiniteSet(T)
      BY <1>1, <2>1, FS_Subset
    <3> HIDE DEF T
    <3>2. Max(T) \in T /\ \A x \in T : x <= Max(T)
      BY <3>1, GreatestNatural
    <3> QED BY <3>2 DEF T
  <2>3. Max(1..k) = k
    BY <1>1, <2>2
  <2> QED BY <2>1, <2>3
<1>12. \A k \in 1..n : iter[1..k] = Cut(iter[1..(k - 1)], edges[k])
  <2> SUFFICES ASSUME NEW k \in 1..n
               PROVE  iter[1..k] = Cut(iter[1..(k - 1)], edges[k])
    OBVIOUS
  <2> HIDE DEF iter, S
  <2>1. iter[1..k] = Cut(iter[(1..k) \ {Max(1..k)}], edges[Max(1..k)])
    BY <1>10, <1>11
  <2> QED BY <1>11, <2>1
<1>13. f[0] = NoCut /\ \A k \in 1..n : f[k] = Cut(f[k - 1], edges[k])
  <2> HIDE DEF iter
  <2>1. f[0] = iter[1..0] /\ 1..0 = {}
    BY <1>1
  <2>2. \A k \in 1..n : f[k] = iter[1..k] /\ f[k - 1] = iter[1..(k - 1)]
    BY <1>1
  <2> HIDE DEF f, S
  <2> QED BY <1>10, <1>12, <2>1, <2>2
<1>14. \A k \in 0..n : f[k] \in Type
  <2> HIDE DEF f
  <2> DEFINE Bad == {k \in 0..n : f[k] \notin Type}
  <2> SUFFICES ASSUME Bad # {} PROVE FALSE
    OBVIOUS
  <2> DEFINE m == Min(Bad)
  <2>1. m \in Bad /\ \A k \in Bad : m <= k
    <3>1. Bad \in SUBSET Nat
      BY <1>1
    <3> HIDE DEF Bad
    <3> QED BY <3>1, LeastNatural
  <2> HIDE DEF m, Type, n
  <2>2. m \in 0..n /\ f[m] \notin Type /\ \A k \in 0..n : k < m => f[k] \in Type
    BY <1>1, <2>1
  <2>3. m # 0
    BY <1>4, <1>13, <2>2
  <2>4. m \in 1..n /\ m - 1 \in 0..n /\ m - 1 < m
    BY <1>1, <2>2, <2>3
  <2>5. f[m] = Cut(f[m - 1], edges[m]) /\ edges[m] \in E
    BY <1>1, <1>13, <2>4
  <2>6. f[m - 1] \in CutState(E)
    BY <2>2, <2>4 DEF Type
  <2>7. f[m] \in CutState(E)
    BY <2>5, <2>6, CutType
  <2> QED BY <2>2, <2>7 DEF Type
<1>15. f \in [0..n -> Type] /\ f[n] = iter[S]
  <2>1. f = [k \in 0..n |-> f[k]]
    <3> HIDE DEF iter
    <3> QED OBVIOUS
  <2>2. f[n] = iter[S]
    <3> HIDE DEF iter
    <3> QED BY <1>1
  <2> HIDE DEF f, Type
  <2> QED BY <1>14, <2>1, <2>2
<1> HIDE DEF f, iter
<1> QED BY <1>9, <1>13, <1>15

\* The sources of list s are below those of list t.
Below(s, t) == \A a \in ToSet(s), b \in ToSet(t) : a.key.src < b.key.src

SourceSorted(edges) ==
  /\ NoTwice(edges)
  /\ \A i, j \in 1..Len(edges) : i <= j => edges[i].key.src <= edges[j].key.src

\* The first k records are cut into closed segments and the current one, at
\* changes of the source.
CutInv(cut, edges, k) ==
  /\ \A i \in 1..Len(cut.segments) :
       /\ cut.segments[i] # <<>> /\ NoTwice(cut.segments[i])
       /\ Below(cut.segments[i], cut.current)
  /\ \A i, j \in 1..Len(cut.segments) :
       i < j => Below(cut.segments[i], cut.segments[j])
  /\ NoTwice(cut.current)
  /\ Elements(cut.segments) \cup ToSet(cut.current) = {edges[i] : i \in 1..k}
  /\ IF k = 0 THEN cut = NoCut
     ELSE cut.current # <<>> /\ Last(cut.current) = edges[k]

\* Appending to a list of lists.
LEMMA ElementsAppend ==
  ASSUME NEW S, NEW q \in Seq(Seq(S)), NEW s \in Seq(S)
  PROVE  /\ Append(q, s) \in Seq(Seq(S)) /\ Len(Append(q, s)) = Len(q) + 1
         /\ \A i \in 1..Len(q) : Append(q, s)[i] = q[i]
         /\ Append(q, s)[Len(q) + 1] = s
         /\ Elements(Append(q, s)) = Elements(q) \cup ToSet(s)
<1> DEFINE r == Append(q, s)
           n == Len(q)
<1>1. /\ r \in Seq(Seq(S)) /\ Len(r) = n + 1 /\ n \in Nat
      /\ \A i \in 1..n : r[i] = q[i]
      /\ r[n + 1] = s
  BY AppendProperties
<1> HIDE DEF r
<1>2. Elements(r) = Elements(q) \cup ToSet(s)
  <2>1. 1..(n + 1) = (1..n) \cup {n + 1}
    BY <1>1
  <2>2. Elements(r) = (UNION {ToSet(r[i]) : i \in 1..n}) \cup ToSet(r[n + 1])
    BY <1>1, <2>1 DEF Elements
  <2> HIDE DEF n
  <2>3. {ToSet(r[i]) : i \in 1..n} = {ToSet(q[i]) : i \in 1..n}
    BY <1>1
  <2> QED BY <1>1, <2>2, <2>3 DEF Elements, n
<1> QED BY <1>1, <1>2 DEF r

LEMMA ToSetAppend ==
  ASSUME NEW S, NEW s \in Seq(S), NEW e \in S
  PROVE  /\ Append(s, e) \in Seq(S) /\ Append(s, e) # <<>>
         /\ ToSet(Append(s, e)) = ToSet(s) \cup {e}
         /\ Last(Append(s, e)) = e
         /\ NoTwice(s) /\ e \notin ToSet(s) => NoTwice(Append(s, e))
<1>1. /\ Append(s, e) \in Seq(S) /\ Append(s, e) # <<>>
      /\ Len(Append(s, e)) = Len(s) + 1
      /\ Append(s, e)[Len(s) + 1] = e
  BY AppendProperties
<1>2. Values(s) = ToSet(s) /\ Values(Append(s, e)) = ToSet(Append(s, e))
  BY DEF Values, ToSet
<1>3. Values(Append(s, e)) = Values(s) \cup {e}
  BY ValuesAppend
<1>4. NoTwice(s) /\ e \notin ToSet(s) => NoTwice(Append(s, e))
  BY <1>2, NoTwiceAppend
<1>5. Last(Append(s, e)) = e
  BY <1>1 DEF Last
<1> QED BY <1>1, <1>2, <1>3, <1>4, <1>5

LEMMA CutKeeps ==
  ASSUME NEW E \in SUBSET EdgeRecord, NEW edges \in Seq(E), SourceSorted(edges),
         NEW k \in 0..(Len(edges) - 1),
         NEW cut \in CutState(E), CutInv(cut, edges, k)
  PROVE  CutInv(Cut(cut, edges[k + 1]), edges, k + 1)
<1> DEFINE edge == edges[k + 1]
           next == Cut(cut, edge)
<1>1. /\ Len(edges) \in Nat /\ k \in Nat /\ k + 1 \in 1..Len(edges)
      /\ k # 0 => k \in 1..Len(edges)
      /\ \A i \in 1..Len(edges) : edges[i] \in E /\ edges[i].key.src \in Nat
  <2>1. \A i \in 1..Len(edges) : edges[i] \in E
    OBVIOUS
  <2> QED BY <2>1, RecordType
<1>2. edge \in E /\ edge.key.src \in Nat
  BY <1>1
<1>3. /\ cut.segments \in Seq(Seq(E)) /\ cut.current \in Seq(E)
      /\ Len(cut.segments) \in Nat
      /\ \A i \in 1..Len(cut.segments) : cut.segments[i] \in Seq(E)
  BY DEF CutState
<1>4. ASSUME NEW i \in 1..k
      PROVE  /\ i \in 1..Len(edges) /\ edges[i] # edge
             /\ k # 0 /\ edges[i].key.src <= edges[k].key.src
             /\ edges[k].key.src <= edge.key.src
  <2>1. i \in 1..Len(edges) /\ i # k + 1 /\ i <= k /\ k # 0 /\ k <= k + 1
    BY <1>1
  <2> QED BY <1>1, <2>1 DEF SourceSorted, NoTwice
<1>5. {edges[i] : i \in 1..(k + 1)} = {edges[i] : i \in 1..k} \cup {edge}
  <2>1. 1..(k + 1) = (1..k) \cup {k + 1}
    BY <1>1
  <2> QED BY <2>1
<1>6. \A a \in Elements(cut.segments) \cup ToSet(cut.current) :
        /\ a \in E /\ a # edge /\ a.key.src \in Nat
        /\ k # 0 /\ a.key.src <= edges[k].key.src
        /\ edges[k].key.src <= edge.key.src
  BY <1>1, <1>4 DEF CutInv
<1>7. \A i \in 1..Len(cut.segments) : ToSet(cut.segments[i]) \subseteq Elements(cut.segments)
  BY DEF Elements
<1> HIDE DEF edge, next
<1>8. CASE /\ Len(cut.current) >= segment_target_edges
           /\ Last(cut.current).key.src # edge.key.src
  <2> DEFINE closed == Append(cut.segments, cut.current)
             n == Len(cut.segments)
  <2>1. next = [segments |-> closed, current |-> <<edge>>]
    BY <1>8 DEF Cut, next
  <2>2. /\ closed \in Seq(Seq(E)) /\ Len(closed) = n + 1
        /\ \A i \in 1..n : closed[i] = cut.segments[i]
        /\ closed[n + 1] = cut.current
        /\ Elements(closed) = Elements(cut.segments) \cup ToSet(cut.current)
    BY <1>3, ElementsAppend
  <2>3. cut.current # <<>> /\ k # 0
    <3>1. segment_target_edges \in Nat \ {0}
      BY L0Assumption
    <3>2. cut.current # <<>>
      BY <1>3, <1>8, <3>1, EmptySeq
    <3>3. k # 0
      BY <3>2 DEF CutInv, NoCut
    <3> QED BY <3>2, <3>3
  <2>4. edges[k].key.src < edge.key.src
    <3>1. Last(cut.current) = edges[k]
      BY <2>3 DEF CutInv
    <3>2. edges[k].key.src <= edge.key.src
      BY <1>1, <1>4, <2>3
    <3> QED BY <1>1, <1>2, <1>8, <2>3, <3>1, <3>2
  <2>5. /\ ToSet(<<edge>>) = {edge} /\ NoTwice(<<edge>>)
        /\ <<edge>> # <<>> /\ Last(<<edge>>) = edge
    BY DEF ToSet, NoTwice, Last
  <2>6. \A a \in Elements(closed) : a.key.src < edge.key.src
    BY <1>1, <1>2, <1>6, <2>2, <2>3, <2>4
  <2> HIDE DEF closed, n
  <2>7. \A i \in 1..Len(closed) : i \in 1..n \/ i = n + 1
    BY <1>3, <2>2 DEF n
  <2>8. ASSUME NEW i \in 1..Len(closed)
        PROVE  closed[i] # <<>> /\ NoTwice(closed[i]) /\ Below(closed[i], <<edge>>)
    <3>1. closed[i] # <<>> /\ NoTwice(closed[i])
      BY <2>2, <2>3, <2>7 DEF CutInv, n
    <3>2. ToSet(closed[i]) \subseteq Elements(closed)
      BY DEF Elements
    <3> QED BY <2>5, <2>6, <3>1, <3>2 DEF Below
  <2>9. ASSUME NEW i \in 1..Len(closed), NEW j \in 1..Len(closed), i < j
        PROVE  Below(closed[i], closed[j])
    <3>1. i \in 1..n
      BY <1>3, <2>2, <2>9 DEF n
    <3> QED BY <2>2, <2>7, <2>9, <3>1 DEF CutInv, n
  <2>10. next.segments = closed /\ next.current = <<edge>>
    BY <2>1
  <2>11. Elements(closed) \cup ToSet(<<edge>>) = {edges[i] : i \in 1..(k + 1)}
    BY <1>5, <2>2, <2>5 DEF CutInv
  <2>12. k + 1 # 0
    BY <1>1
  <2> QED BY <2>5, <2>8, <2>9, <2>10, <2>11, <2>12 DEF CutInv, next, edge
<1>9. CASE ~(/\ Len(cut.current) >= segment_target_edges
             /\ Last(cut.current).key.src # edge.key.src)
  <2> DEFINE longer == Append(cut.current, edge)
  <2>1. next.segments = cut.segments /\ next.current = longer
    <3>1. next = [cut EXCEPT !.current = longer]
      BY <1>9 DEF Cut, next
    <3> HIDE DEF longer
    <3> QED BY <3>1 DEF CutState
  <2>2. /\ longer \in Seq(E) /\ longer # <<>> /\ Last(longer) = edge
        /\ ToSet(longer) = ToSet(cut.current) \cup {edge}
        /\ NoTwice(longer)
    <3>1. edge \notin ToSet(cut.current)
      BY <1>6
    <3> DEFINE s == cut.current
    <3>2. s \in Seq(E) /\ NoTwice(s) /\ edge \notin ToSet(s)
      BY <1>3, <3>1 DEF CutInv
    <3> HIDE DEF s
    <3>3. /\ Append(s, edge) \in Seq(E) /\ Append(s, edge) # <<>>
          /\ Last(Append(s, edge)) = edge
          /\ ToSet(Append(s, edge)) = ToSet(s) \cup {edge}
          /\ NoTwice(Append(s, edge))
      BY <1>2, <3>2, ToSetAppend
    <3> QED BY <3>3 DEF s
  <2> HIDE DEF longer
  <2>3. ASSUME NEW i \in 1..Len(cut.segments)
        PROVE  Below(cut.segments[i], longer)
    <3> SUFFICES ASSUME NEW a \in ToSet(cut.segments[i]), NEW b \in ToSet(longer)
                 PROVE  a.key.src < b.key.src
      BY DEF Below
    <3>1. Below(cut.segments[i], cut.current) /\ a \in Elements(cut.segments)
      BY <1>7 DEF CutInv
    <3>2. CASE b \in ToSet(cut.current)
      BY <3>1, <3>2 DEF Below
    <3>3. CASE b = edge
      <4>1. k # 0 /\ edges[k].key.src <= edge.key.src
        BY <1>6, <3>1
      <4>2. edges[k] \in ToSet(cut.current)
        <5>1. cut.current # <<>> /\ Last(cut.current) = edges[k]
          BY <4>1 DEF CutInv
        <5>2. Len(cut.current) \in 1..Len(cut.current)
          BY <1>3, <5>1, EmptySeq
        <5>3. ToSet(cut.current) = {cut.current[p] : p \in 1..Len(cut.current)}
          BY ONLY <1>3, ToSetIs
        <5>4. cut.current[Len(cut.current)] = edges[k]
          BY <5>1 DEF Last
        <5> QED BY ONLY <5>2, <5>3, <5>4
      <4>3. a.key.src < edges[k].key.src
        BY <3>1, <4>2 DEF Below
      <4> QED BY <1>1, <1>2, <1>6, <3>1, <3>3, <4>1, <4>3
    <3> QED BY <2>2, <3>2, <3>3
  <2>4. Elements(cut.segments) \cup ToSet(longer) = {edges[i] : i \in 1..(k + 1)}
    BY <1>5, <2>2 DEF CutInv
  <2>5. k + 1 # 0
    BY <1>1
  <2>6. /\ \A i \in 1..Len(cut.segments) :
             cut.segments[i] # <<>> /\ NoTwice(cut.segments[i])
        /\ \A i, j \in 1..Len(cut.segments) :
             i < j => Below(cut.segments[i], cut.segments[j])
    BY DEF CutInv
  <2> QED BY <2>1, <2>2, <2>3, <2>4, <2>5, <2>6 DEF CutInv, next, edge
<1> QED BY <1>8, <1>9 DEF next, edge

\* The records of E, each in one list, none of which is empty.
Segmented(q, E) ==
  /\ q \in Seq(Seq(E))
  /\ \A i \in 1..Len(q) : q[i] # <<>>
  /\ Apart(q)
  /\ Elements(q) = E

\* The records of one source are in one list.
BySource(q) ==
  \A i, j \in 1..Len(q) : \A a \in ToSet(q[i]), b \in ToSet(q[j]) :
    a.key.src = b.key.src => i = j

\* split_range_bounded_segments cuts a sorted list where its source changes.
LEMMA SplitBySource ==
  ASSUME NEW E \in SUBSET EdgeRecord, NEW edges \in Seq(E), edges # <<>>,
         SourceSorted(edges), ToSet(edges) = E
  PROVE  /\ Segmented(split_range_bounded_segments(edges), E)
         /\ BySource(split_range_bounded_segments(edges))
<1> DEFINE n == Len(edges)
<1>1. n \in Nat /\ n # 0
  BY EmptySeq
<1>2. PICK f \in [0..n -> CutState(E)] :
        /\ f[0] = NoCut
        /\ \A k \in 1..n : f[k] = Cut(f[k - 1], edges[k])
        /\ FoldLeft(Cut, NoCut, edges) = f[n]
  BY CutRounds
<1>3. CutInv(NoCut, edges, 0)
  <2>1. Len(<<>>) = 0 /\ ToSet(<<>>) = {} /\ Elements(<<>>) = {} /\ NoTwice(<<>>)
    BY DEF ToSet, Elements, NoTwice
  <2>2. NoCut.segments = <<>> /\ NoCut.current = <<>> /\ {edges[i] : i \in 1..0} = {}
    BY DEF NoCut
  <2> QED BY <2>1, <2>2 DEF CutInv
<1>4. \A k \in 0..n : CutInv(f[k], edges, k)
  <2> DEFINE Bad == {k \in 0..n : ~CutInv(f[k], edges, k)}
  <2> SUFFICES ASSUME Bad # {} PROVE FALSE
    OBVIOUS
  <2> DEFINE m == Min(Bad)
  <2>1. m \in Bad /\ \A k \in Bad : m <= k
    <3>1. Bad \in SUBSET Nat
      BY <1>1
    <3> HIDE DEF Bad
    <3> QED BY <3>1, LeastNatural
  <2> HIDE DEF m
  <2>2. /\ m \in 0..n /\ ~CutInv(f[m], edges, m)
        /\ \A k \in 0..n : k < m => CutInv(f[k], edges, k)
    BY <1>1, <2>1
  <2>3. m # 0
    BY <1>2, <1>3, <2>2
  <2> DEFINE k == m - 1
  <2>4. k \in 0..(n - 1) /\ k \in 0..n /\ k < m /\ k + 1 = m /\ m \in 1..n
    BY <1>1, <2>2, <2>3
  <2>5. f[k] \in CutState(E) /\ CutInv(f[k], edges, k)
    BY <1>2, <2>2, <2>4
  <2>6. f[m] = Cut(f[k], edges[m])
    BY <1>2, <2>4
  <2> HIDE DEF k
  <2>7. CutInv(Cut(f[k], edges[k + 1]), edges, k + 1)
    BY <2>4, <2>5, CutKeeps
  <2> QED BY <2>2, <2>4, <2>6, <2>7
<1> DEFINE cut == f[n]
           q == Append(cut.segments, cut.current)
           m == Len(cut.segments)
<1>5. CutInv(cut, edges, n) /\ cut \in CutState(E)
  BY <1>1, <1>2, <1>4
<1>6. split_range_bounded_segments(edges) = q
  BY <1>2 DEF split_range_bounded_segments, NoCut
<1> HIDE DEF cut
<1>7. /\ cut.segments \in Seq(Seq(E)) /\ cut.current \in Seq(E) /\ m \in Nat
  BY <1>5 DEF CutState
<1>8. /\ q \in Seq(Seq(E)) /\ Len(q) = m + 1
      /\ \A i \in 1..m : q[i] = cut.segments[i]
      /\ q[m + 1] = cut.current
      /\ Elements(q) = Elements(cut.segments) \cup ToSet(cut.current)
  BY <1>7, ElementsAppend
<1>9. Elements(q) = E
  <2>1. Elements(q) = {edges[i] : i \in 1..n}
    BY <1>5, <1>8 DEF CutInv
  <2>2. ToSet(edges) = {edges[i] : i \in 1..n}
    BY ToSetIs
  <2> QED BY <2>1, <2>2
<1> HIDE DEF q
<1>10. \A i \in 1..Len(q) : i \in 1..m \/ i = m + 1
  BY <1>7, <1>8
<1>11. \A i \in 1..Len(q) : q[i] # <<>> /\ NoTwice(q[i])
  BY <1>1, <1>5, <1>8, <1>10 DEF CutInv
<1>12. \A i, j \in 1..Len(q) : i < j => Below(q[i], q[j])
  <2> SUFFICES ASSUME NEW i \in 1..Len(q), NEW j \in 1..Len(q), i < j
               PROVE  Below(q[i], q[j])
    OBVIOUS
  <2>1. i \in 1..m
    BY <1>7, <1>8
  <2> QED BY <1>5, <1>8, <1>10, <2>1 DEF CutInv
<1>13. \A i \in 1..Len(q) : q[i] \in Seq(E)
  BY <1>8
<1>14. \A i, j \in 1..Len(q) : \A a \in ToSet(q[i]), b \in ToSet(q[j]) :
         a.key.src = b.key.src => i = j
  <2> SUFFICES ASSUME NEW i \in 1..Len(q), NEW j \in 1..Len(q),
                      NEW a \in ToSet(q[i]), NEW b \in ToSet(q[j]),
                      a.key.src = b.key.src, i # j
               PROVE  FALSE
    OBVIOUS
  <2>1. a \in E /\ b \in E
    BY <1>13, ToSetIs
  <2>2. a.key.src \in Nat /\ b.key.src \in Nat
    BY <2>1, RecordType
  <2>3. i < j \/ j < i
    BY <1>7, <1>8
  <2>4. a.key.src < b.key.src \/ b.key.src < a.key.src
    BY <1>12, <2>3 DEF Below
  <2> QED BY <2>2, <2>4
<1>15. Apart(q)
  BY <1>11, <1>14 DEF Apart
<1> QED BY <1>6, <1>8, <1>9, <1>11, <1>14, <1>15 DEF Segmented, BySource

-----------------------------------------------------------------------------
(* Joining segments under the cap.                                         *)

\* Division of naturals.
LEMMA Quotient ==
  ASSUME NEW a \in Nat, NEW b \in Nat \ {0}
  PROVE  /\ a \div b \in Nat
         /\ (a \div b) * b <= a
         /\ a < (a \div b) * b + b
BY Z3

\* A quotient that is rounded up.
LEMMA RoundUp ==
  ASSUME NEW a \in Nat, NEW b \in Nat \ {0}
  PROVE  /\ (a + b - 1) \div b \in Nat
         /\ a <= ((a + b - 1) \div b) * b
         /\ ((a + b - 1) \div b - 1) * b < a
<1> DEFINE s == a + b - 1
           d == s \div b
<1>1. s \in Nat
  OBVIOUS
<1>2. d \in Nat /\ d * b <= s /\ s < d * b + b
  <2> HIDE DEF s
  <2> QED BY <1>1, Quotient
<1> HIDE DEF d
<1>3. (d - 1) * b = d * b - b
  BY <1>2, Z3
<1>4. a <= d * b /\ d * b - b < a /\ d * b \in Int
  BY <1>2
<1> QED BY <1>2, <1>3, <1>4 DEF d

LEMMA TimesMonotonic ==
  ASSUME NEW m \in Int, NEW k \in Int, NEW c \in Nat, m <= k
  PROVE  m * c <= k * c /\ m * c \in Int /\ k * c \in Int
BY Z3

\* merge_segments_to_cap takes the segments from lo to hi together, for every
\* segment of the result: these ranges partition the segments.
Ranges(n, m, lo, hi) ==
  /\ \A i \in 1..m : lo[i] \in 1..n /\ hi[i] \in lo[i]..n
  /\ \A j \in 1..n : \E i \in 1..m : j \in lo[i]..hi[i]
  /\ \A i, k \in 1..m : \A j \in 1..n :
       j \in lo[i]..hi[i] /\ j \in lo[k]..hi[k] => i = k

LEMMA Chunks ==
  ASSUME NEW n \in Nat \ {0}, NEW c \in Nat \ {0}, NEW m, m = (n + c - 1) \div c
  PROVE  LET lo == [i \in 1..m |-> (i - 1) * c + 1]
             hi == [i \in 1..m |-> IF i * c < n THEN i * c ELSE n]
         IN  /\ m \in Nat \ {0} /\ n <= m * c /\ (m - 1) * c < n
             /\ \A i \in 1..m : (i - 1) * c \in Nat /\ i * c \in Nat
             /\ Ranges(n, m, lo, hi)
<1> DEFINE lo == [i \in 1..m |-> (i - 1) * c + 1]
           hi == [i \in 1..m |-> IF i * c < n THEN i * c ELSE n]
<1>2. c \in Nat
  OBVIOUS
<1>3. c # 0 /\ n \in Nat
  OBVIOUS
<1>4. m \in Nat /\ n <= m * c /\ (m - 1) * c < n
  BY RoundUp
<1>6. m >= 1
  <2> SUFFICES ASSUME m = 0 PROVE FALSE
    BY <1>4
  <2>1. 0 * c = 0
    BY <1>2
  <2> QED BY <1>3, <1>4, <2>1
<1>7. ASSUME NEW i \in 1..m
      PROVE  /\ (i - 1) * c \in Nat /\ i * c = (i - 1) * c + c
             /\ (i - 1) * c < n
             /\ i * c \in Nat
  <2>1. i - 1 \in Int /\ m - 1 \in Int /\ i - 1 <= m - 1 /\ 0 <= i - 1 /\ i \in Int
    BY <1>4
  <2>2. (i - 1) * c <= (m - 1) * c /\ (i - 1) * c \in Int /\ (m - 1) * c \in Int
    BY <1>2, <2>1, TimesMonotonic
  <2>3. 0 * c <= (i - 1) * c /\ 0 * c = 0
    BY <1>2, <2>1, TimesMonotonic
  <2>4. i * c = (i - 1) * c + c
    BY <1>2, <2>1, Z3
  <2> QED BY <1>2, <1>4, <2>2, <2>3, <2>4
<1>8. ASSUME NEW i \in 1..m
      PROVE  /\ lo[i] = (i - 1) * c + 1 /\ hi[i] = IF i * c < n THEN i * c ELSE n
             /\ lo[i] \in 1..n /\ hi[i] \in lo[i]..n
  <2>1. lo[i] = (i - 1) * c + 1 /\ hi[i] = IF i * c < n THEN i * c ELSE n
    OBVIOUS
  <2> HIDE DEF lo, hi
  <2> QED BY <1>2, <1>3, <1>7, <2>1
<1> HIDE DEF lo, hi
<1>9. ASSUME NEW j \in 1..n PROVE \E i \in 1..m : j \in lo[i]..hi[i]
  <2> DEFINE i == (j + c - 1) \div c
  <2>1. i \in Nat /\ j <= i * c /\ (i - 1) * c < j
    BY <1>2, <1>3, RoundUp
  <2> HIDE DEF i
  <2>2. i # 0
    <3>1. 0 * c = 0
      BY <1>2
    <3> QED BY <2>1, <3>1
  <2>3. i <= m
    <3> SUFFICES ASSUME ~(i <= m) PROVE FALSE
      OBVIOUS
    <3>1. m \in Int /\ i - 1 \in Int /\ m <= i - 1
      BY <1>4, <2>1
    <3>2. m * c <= (i - 1) * c /\ m * c \in Int /\ (i - 1) * c \in Int
      BY <1>2, <3>1, TimesMonotonic
    <3> QED BY <1>4, <2>1, <3>2
  <2>4. i \in 1..m
    BY <1>4, <2>1, <2>2, <2>3
  <2>5. /\ (i - 1) * c \in Nat /\ i * c \in Nat
        /\ lo[i] = (i - 1) * c + 1 /\ hi[i] = IF i * c < n THEN i * c ELSE n
    BY <1>7, <1>8, <2>4
  <2>6. j \in Nat /\ j <= n /\ n \in Nat
    BY <1>3
  <2>7. lo[i] <= j /\ j <= hi[i] /\ lo[i] \in Int /\ hi[i] \in Int
    BY ONLY <2>1, <2>5, <2>6
  <2>8. j \in lo[i]..hi[i]
    BY <2>6, <2>7
  <2> QED BY <2>4, <2>8
<1>10. ASSUME NEW i \in 1..m, NEW k \in 1..m, i < k,
              NEW j \in 1..n, j \in lo[i]..hi[i], j \in lo[k]..hi[k]
       PROVE  FALSE
  <2>1. i \in Int /\ k - 1 \in Int /\ i <= k - 1
    BY <1>4, <1>10
  <2>2. i * c <= (k - 1) * c
    BY <1>2, <2>1, TimesMonotonic
  <2> QED BY <1>7, <1>8, <1>10, <2>2
<1>11. \A i, k \in 1..m : \A j \in 1..n :
         j \in lo[i]..hi[i] /\ j \in lo[k]..hi[k] => i = k
  <2> SUFFICES ASSUME NEW i \in 1..m, NEW k \in 1..m, NEW j \in 1..n,
                      j \in lo[i]..hi[i], j \in lo[k]..hi[k], i # k
               PROVE  FALSE
    OBVIOUS
  <2>1. i < k \/ k < i
    BY <1>4
  <2> QED BY <1>10, <2>1
<1>12. Ranges(n, m, lo, hi)
  BY <1>8, <1>9, <1>11 DEF Ranges
<1>13. \A i \in 1..m : (i - 1) * c \in Nat /\ i * c \in Nat
  BY <1>7
<1>14. m \in Nat \ {0}
  BY <1>4, <1>6
<1> QED BY <1>4, <1>12, <1>13, <1>14 DEF lo, hi

\* The ranges that merge_segments_to_cap takes are as many as the cap allows.
LEMMA ChunkRanges ==
  ASSUME NEW n \in Nat, max_l0_segments_per_flush # 0,
         n > max_l0_segments_per_flush
  PROVE  LET c == chunk_size(n)
             m == merged_count(n)
             lo == [i \in 1..m |-> (i - 1) * c + 1]
             hi == [i \in 1..m |-> IF i * c < n THEN i * c ELSE n]
         IN  m \in 1..max_l0_segments_per_flush /\ Ranges(n, m, lo, hi)
<1> DEFINE cap == max_l0_segments_per_flush
           c == chunk_size(n)
           m == merged_count(n)
           lo == [i \in 1..m |-> (i - 1) * c + 1]
           hi == [i \in 1..m |-> IF i * c < n THEN i * c ELSE n]
<1>1. cap \in Nat \ {0} /\ n > cap
  BY L0Assumption
<1>2. c \in Nat /\ n <= c * cap
  <2>1. c = (n + cap - 1) \div cap
    BY DEF chunk_size
  <2> HIDE DEF cap
  <2> QED BY <1>1, <2>1, RoundUp
<1> HIDE DEF cap, c
<1>3. c # 0
  <2> SUFFICES ASSUME c = 0 PROVE FALSE
    OBVIOUS
  <2>1. 0 * cap = 0
    BY <1>1
  <2> QED BY <1>1, <1>2, <2>1
<1>4. m \in Nat /\ n <= m * c /\ (m - 1) * c < n
  <2>1. m = (n + c - 1) \div c
    BY DEF merged_count, c
  <2>2. c \in Nat \ {0}
    BY <1>2, <1>3
  <2> QED BY <2>1, <2>2, RoundUp
<1> HIDE DEF m
<1>5. m <= cap
  <2> SUFFICES ASSUME ~(m <= cap) PROVE FALSE
    OBVIOUS
  <2>1. cap \in Int /\ m - 1 \in Int /\ cap <= m - 1
    BY <1>1, <1>4
  <2>2. cap * c <= (m - 1) * c /\ cap * c \in Int /\ (m - 1) * c \in Int
    BY <1>2, <2>1, TimesMonotonic
  <2>3. cap * c = c * cap
    BY <1>1, <1>2, Z3
  <2> QED BY <1>2, <1>4, <2>2, <2>3
<1>6. n \in Nat \ {0} /\ c \in Nat \ {0}
  BY <1>1, <1>2, <1>3
<1>7. m \in Nat \ {0} /\ Ranges(n, m, lo, hi)
  <2>1. m = (n + c - 1) \div c
    BY DEF merged_count, c, m
  <2> QED BY <1>6, <2>1, Chunks
<1> QED BY <1>5, <1>7 DEF lo, hi, m, c, cap

\* What is flattened of a range of lists.
LEMMA FlattenRange ==
  ASSUME NEW S, NEW q \in Seq(Seq(S)), Apart(q),
         NEW lo \in 1..Len(q), NEW hi \in lo..Len(q)
  PROVE  /\ FlattenSeq(SubSeq(q, lo, hi)) \in Seq(S)
         /\ NoTwice(FlattenSeq(SubSeq(q, lo, hi)))
         /\ ToSet(FlattenSeq(SubSeq(q, lo, hi))) = UNION {ToSet(q[j]) : j \in lo..hi}
<1> DEFINE r == SubSeq(q, lo, hi)
           n == hi - lo + 1
<1>1. /\ Len(q) \in Nat /\ lo \in Nat /\ hi \in Nat /\ lo <= hi /\ n \in Nat
      /\ \A j \in lo..hi : j \in 1..Len(q) /\ q[j] \in Seq(S)
  OBVIOUS
<1>2. r \in Seq(Seq(S)) /\ Len(r) = n /\ \A i \in 1..n : r[i] = q[lo + i - 1]
  <2>1. lo \in Int /\ hi \in Int /\ \A i \in lo..hi : q[i] \in Seq(S)
    BY <1>1
  <2> DEFINE T == Seq(S)
  <2> HIDE DEF T
  <2>2. \A i \in lo..hi : q[i] \in T
    BY <2>1 DEF T
  <2>3. /\ SubSeq(q, lo, hi) \in Seq(T)
        /\ Len(SubSeq(q, lo, hi)) = IF lo <= hi THEN hi - lo + 1 ELSE 0
        /\ \A i \in 1..hi - lo + 1 : SubSeq(q, lo, hi)[i] = q[lo + i - 1]
    BY ONLY <2>1, <2>2, SubSeqProperties
  <2>4. r \in Seq(T) /\ \A i \in 1..n : r[i] = q[lo + i - 1]
    BY <2>3
  <2>5. Len(r) = n
    BY <1>1, <2>3
  <2> QED BY <2>4, <2>5 DEF T
<1> HIDE DEF r
<1>3. \A i \in 1..n : lo + i - 1 \in lo..hi /\ lo + i - 1 \in 1..Len(q)
  BY <1>1
<1>4. \A j \in lo..hi : j - lo + 1 \in 1..n /\ lo + (j - lo + 1) - 1 = j
  BY <1>1
<1> HIDE DEF n
<1>5. Apart(r)
  <2>1. \A i \in 1..n : NoTwice(r[i])
    BY <1>2, <1>3 DEF Apart
  <2>2. \A i, k \in 1..n : i # k => lo + i - 1 # lo + k - 1
    BY <1>1
  <2>3. \A i, k \in 1..n : i # k => ToSet(r[i]) \cap ToSet(r[k]) = {}
    BY <1>2, <1>3, <2>2 DEF Apart
  <2> QED BY <1>2, <2>1, <2>3 DEF Apart
<1>6. Elements(r) = UNION {ToSet(q[j]) : j \in lo..hi}
  <2>1. \A i \in 1..n : \E j \in lo..hi : r[i] = q[j]
    BY <1>2, <1>3
  <2>2. \A j \in lo..hi : \E i \in 1..n : r[i] = q[j]
    BY <1>2, <1>4
  <2>3. Elements(r) \subseteq UNION {ToSet(q[j]) : j \in lo..hi}
    BY <1>2, <2>1 DEF Elements
  <2>4. UNION {ToSet(q[j]) : j \in lo..hi} \subseteq Elements(r)
    BY <1>2, <2>2 DEF Elements
  <2> QED BY <2>3, <2>4
<1>7. FlattenSeq(r) \in Seq(S) /\ ToSet(FlattenSeq(r)) = Elements(r) /\ NoTwice(FlattenSeq(r))
  BY <1>2, <1>5, Flattened
<1> QED BY <1>6, <1>7 DEF r

\* The records of one source and type are in one list.
ByNeighborhood(q) ==
  \A i, j \in 1..Len(q) : \A a \in ToSet(q[i]), b \in ToSet(q[j]) :
    a.key.src = b.key.src /\ a.key.edge_type = b.key.edge_type => i = j

LEMMA SegmentedParts ==
  ASSUME NEW E, NEW q, Segmented(q, E)
  PROVE  /\ Len(q) \in Nat
         /\ \A i \in 1..Len(q) :
              /\ q[i] \in Seq(E) /\ q[i] # <<>> /\ NoTwice(q[i])
              /\ ToSet(q[i]) \in SUBSET E /\ ToSet(q[i]) # {}
         /\ \A e \in E : \E i \in 1..Len(q) : e \in ToSet(q[i])
<1>1. q \in Seq(Seq(E)) /\ Len(q) \in Nat /\ \A i \in 1..Len(q) : q[i] \in Seq(E)
  BY DEF Segmented
<1>2. \A s \in Seq(E) : ToSet(s) \in SUBSET E /\ (ToSet(s) = {} <=> s = <<>>)
  BY ToSetIs
<1>3. \A e \in E : \E i \in 1..Len(q) : e \in ToSet(q[i])
  BY DEF Segmented, Elements
<1> QED BY <1>1, <1>2, <1>3 DEF Segmented, Apart

\* Joining segments splits no neighborhood and repeats no record.
LEMMA JoinedRanges ==
  ASSUME NEW E, NEW q, Segmented(q, E), ByNeighborhood(q),
         NEW m \in Nat, NEW lo, NEW hi, Ranges(Len(q), m, lo, hi),
         NEW r, r = [i \in 1..m |-> FlattenSeq(SubSeq(q, lo[i], hi[i]))]
  PROVE  Segmented(r, E) /\ ByNeighborhood(r) /\ Len(r) = m
<1>1. q \in Seq(Seq(E)) /\ Apart(q) /\ Len(q) \in Nat
  BY SegmentedParts DEF Segmented
<1>2. ASSUME NEW i \in 1..m
      PROVE  /\ r[i] \in Seq(E) /\ NoTwice(r[i])
             /\ ToSet(r[i]) = UNION {ToSet(q[j]) : j \in lo[i]..hi[i]}
             /\ lo[i] \in 1..Len(q) /\ lo[i] \in lo[i]..hi[i]
             /\ \A j \in lo[i]..hi[i] : j \in 1..Len(q)
  <2>1. lo[i] \in 1..Len(q) /\ hi[i] \in lo[i]..Len(q)
    BY DEF Ranges
  <2>2. r[i] = FlattenSeq(SubSeq(q, lo[i], hi[i]))
    OBVIOUS
  <2>3. lo[i] \in lo[i]..hi[i] /\ \A j \in lo[i]..hi[i] : j \in 1..Len(q)
    BY <1>1, <2>1
  <2> DEFINE p == FlattenSeq(SubSeq(q, lo[i], hi[i]))
             records == UNION {ToSet(q[j]) : j \in lo[i]..hi[i]}
  <2>4. p \in Seq(E) /\ NoTwice(p) /\ ToSet(p) = records
    BY <1>1, <2>1, FlattenRange
  <2> HIDE DEF p, records
  <2>5. r[i] \in Seq(E) /\ NoTwice(r[i]) /\ ToSet(r[i]) = records
    BY <2>2, <2>4 DEF p
  <2> QED BY <2>1, <2>3, <2>5 DEF records
<1>3. r \in Seq(Seq(E)) /\ Len(r) = m
  <2>1. DOMAIN r = 1..m /\ r = [i \in 1..m |-> r[i]]
    OBVIOUS
  <2>2. r \in [1..m -> Seq(E)]
    BY <1>2, <2>1
  <2> QED BY <2>1, <2>2
<1>4. ASSUME NEW i \in 1..m, NEW k \in 1..m, NEW a \in ToSet(r[i]), NEW b \in ToSet(r[k]),
             a.key.src = b.key.src, a.key.edge_type = b.key.edge_type
      PROVE  i = k
  <2>1. PICK j \in lo[i]..hi[i] : a \in ToSet(q[j])
    <3>1. ToSet(r[i]) = UNION {ToSet(q[x]) : x \in lo[i]..hi[i]}
      BY <1>2
    <3> QED BY ONLY <3>1, a \in ToSet(r[i])
  <2>2. PICK l \in lo[k]..hi[k] : b \in ToSet(q[l])
    <3>1. ToSet(r[k]) = UNION {ToSet(q[x]) : x \in lo[k]..hi[k]}
      BY <1>2
    <3> QED BY ONLY <3>1, b \in ToSet(r[k])
  <2>3. j \in 1..Len(q) /\ l \in 1..Len(q)
    BY <1>2
  <2>4. j = l
    BY <1>4, <2>1, <2>2, <2>3 DEF ByNeighborhood
  <2> QED BY <2>3, <2>4 DEF Ranges
<1>5. ByNeighborhood(r)
  BY <1>3, <1>4 DEF ByNeighborhood
<1>6. Apart(r)
  <2>1. \A i, k \in 1..m : i # k => ToSet(r[i]) \cap ToSet(r[k]) = {}
    BY <1>4
  <2> QED BY <1>2, <1>3, <2>1 DEF Apart
<1>7. Elements(r) = E
  <2>1. ASSUME NEW e \in E PROVE e \in Elements(r)
    <3>1. PICK j \in 1..Len(q) : e \in ToSet(q[j])
      BY SegmentedParts
    <3>2. PICK i \in 1..m : j \in lo[i]..hi[i]
      BY DEF Ranges
    <3>3. e \in ToSet(r[i])
      BY <1>2, <3>1, <3>2
    <3> QED BY <1>3, <3>3 DEF Elements
  <2>2. ASSUME NEW e \in Elements(r) PROVE e \in E
    <3>1. PICK i \in 1..m : e \in ToSet(r[i])
      BY <1>3 DEF Elements
    <3>2. ToSet(r[i]) \in SUBSET E
      BY <1>2, ToSetIs
    <3> QED BY <3>1, <3>2
  <2> QED BY <2>1, <2>2
<1>8. \A i \in 1..m : r[i] # <<>>
  <2> SUFFICES ASSUME NEW i \in 1..m PROVE r[i] # <<>>
    OBVIOUS
  <2>1. /\ ToSet(r[i]) = UNION {ToSet(q[j]) : j \in lo[i]..hi[i]}
        /\ lo[i] \in lo[i]..hi[i] /\ lo[i] \in 1..Len(q) /\ r[i] \in Seq(E)
    BY <1>2
  <2>2. ToSet(q[lo[i]]) # {}
    <3>1. \A j \in 1..Len(q) : ToSet(q[j]) # {}
      BY SegmentedParts
    <3> QED BY <2>1, <3>1
  <2>3. ToSet(q[lo[i]]) \subseteq ToSet(r[i])
    BY ONLY <2>1
  <2> QED BY <2>1, <2>2, <2>3, ToSetIs
<1> QED BY <1>3, <1>5, <1>6, <1>7, <1>8 DEF Segmented

\* merge_segments_to_cap.
LEMMA MergedToCap ==
  ASSUME NEW E, NEW q, Segmented(q, E), ByNeighborhood(q), q # <<>>
  PROVE  LET r == merge_segments_to_cap(q)
         IN  /\ Segmented(r, E) /\ ByNeighborhood(r) /\ r # <<>>
             /\ max_l0_segments_per_flush > 0 => Len(r) <= max_l0_segments_per_flush
<1> DEFINE n == Len(q)
           cap == max_l0_segments_per_flush
<1>1. n \in Nat /\ cap \in Nat
  BY SegmentedParts, L0Assumption
<1>2. CASE n <= cap \/ cap = 0
  BY <1>1, <1>2 DEF merge_segments_to_cap
<1>3. CASE ~(n <= cap \/ cap = 0)
  <2> DEFINE c == chunk_size(n)
             m == merged_count(n)
             lo == [i \in 1..m |-> (i - 1) * c + 1]
             hi == [i \in 1..m |-> IF i * c < n THEN i * c ELSE n]
             r == [i \in 1..m |-> FlattenSeq(SubSeq(q, lo[i], hi[i]))]
  <2>1. m \in 1..cap /\ Ranges(n, m, lo, hi)
    BY <1>1, <1>3, ChunkRanges
  <2>2. merge_segments_to_cap(q) = r
    BY <1>3 DEF merge_segments_to_cap
  <2> HIDE DEF c, m, lo, hi
  <2>3. m \in Nat /\ m # 0 /\ m <= cap
    BY <1>1, <2>1
  <2>4. r = [i \in 1..m |-> FlattenSeq(SubSeq(q, lo[i], hi[i]))]
    OBVIOUS
  <2> HIDE DEF r, cap
  <2>5. Segmented(r, E) /\ ByNeighborhood(r) /\ Len(r) = m
    BY <2>1, <2>3, <2>4, JoinedRanges
  <2>6. r # <<>>
    BY <2>3, <2>5
  <2> QED BY <2>2, <2>3, <2>5, <2>6 DEF cap
<1> QED BY <1>2, <1>3

-----------------------------------------------------------------------------
(* The segments of a flush.                                                *)

\* The sorted keys of partitions.
PartitionKeys(E) ==
  SortedSet({Partition(e, E) : e \in E},
            LAMBDA p, q : p[1] < q[1] \/ (p[1] = q[1] /\ p[2] < q[2]))

LEMMA PartitionType ==
  ASSUME NEW E \in SUBSET EdgeRecord, NEW e \in E
  PROVE  Partition(e, E) \in Int \X Int
<1>1. e.key.src \in Nat /\ e.key.edge_type \in Int
  BY RecordType
<1>2. source_label_from_vertex_id(e.key.src) \in Int
  BY DEF source_label_from_vertex_id, UNKNOWN_SOURCE_LABEL
<1> QED BY <1>1, <1>2 DEF Partition, MIXED_EDGE_TYPE

\* Every partition has its place.
LEMMA PartitionsSorted ==
  ASSUME NEW E \in SUBSET EdgeRecord, IsFiniteSet(E)
  PROVE  LET keys == PartitionKeys(E)
             P == {Partition(e, E) : e \in E}
         IN  /\ keys \in Seq(P) /\ Len(keys) \in Nat /\ DOMAIN keys = 1..Len(keys)
             /\ ToSet(keys) = P /\ NoTwice(keys)
<1> DEFINE P == {Partition(e, E) : e \in E}
           R == {t \in P \X P : \/ t[1][1] < t[2][1]
                                \/ t[1][1] = t[2][1] /\ t[1][2] < t[2][2]}
           keys == PartitionKeys(E)
           less(x) == {y \in P : y[1] < x[1] \/ (y[1] = x[1] /\ y[2] < x[2])}
           before(x) == {y \in P : <<y, x>> \in R}
<1>1. P \subseteq Int \X Int
  BY PartitionType
<1>2. IsFiniteSet(P)
  <2> DEFINE f == [e \in E |-> Partition(e, E)]
  <2>1. P = {f[e] : e \in E}
    OBVIOUS
  <2> HIDE DEF f
  <2> QED BY <2>1, ImageFinite
<1> HIDE DEF P
<1>3. \A x, y \in P : <<x, y>> \in R <=> x[1] < y[1] \/ (x[1] = y[1] /\ x[2] < y[2])
  OBVIOUS
<1>4. \A x \in P : x[1] \in Int /\ x[2] \in Int /\ x = <<x[1], x[2]>>
  BY <1>1
<1>5. Orders(R, P)
  <2> HIDE DEF R
  <2> QED BY <1>3, <1>4 DEF Orders
<1>6. keys = Ranked(P, R)
  <2>1. keys = [i \in 1..Cardinality(P) |->
                CHOOSE x \in P : Cardinality(less(x)) = i - 1]
    BY DEF PartitionKeys, SortedSet, P
  <2>2. Ranked(P, R) = [i \in 1..Cardinality(P) |->
                        CHOOSE x \in P : Cardinality(before(x)) = i - 1]
    BY DEF Ranked
  <2>3. \A x \in P : less(x) = before(x)
    BY <1>3
  <2> HIDE DEF less, before, R, keys
  <2> QED BY <2>1, <2>2, <2>3
<1>7. Sorts(keys, P, R)
  <2> HIDE DEF R, keys
  <2> QED BY <1>2, <1>5, <1>6, RanksSort
<1>8. /\ keys \in Seq(P) /\ Len(keys) \in Nat /\ DOMAIN keys = 1..Len(keys)
      /\ ToSet(keys) = P /\ NoTwice(keys)
  <2> HIDE DEF R, keys
  <2> QED BY <1>5, <1>7, SortedOnce
<1> QED BY <1>8 DEF P

\* The records of E, group by group, with every neighborhood in one group.
Groups(E, G, n) ==
  /\ \A i \in 1..n : G[i] \in SUBSET E
  /\ \A i, j \in 1..n : i # j => G[i] \cap G[j] = {}
  /\ \A e \in E : \E i \in 1..n : e \in G[i]
  /\ \A i \in 1..n : \A a \in G[i], b \in E :
       a.key.src = b.key.src /\ a.key.edge_type = b.key.edge_type => b \in G[i]

\* Groups that are segmented one by one.
LEMMA GroupsSegmented ==
  ASSUME NEW E, NEW n \in Nat, NEW G, Groups(E, G, n),
         NEW parts, parts = [i \in 1..n |-> parts[i]],
         \A i \in 1..n : Segmented(parts[i], G[i]) /\ BySource(parts[i])
  PROVE  Segmented(FlattenSeq(parts), E) /\ ByNeighborhood(FlattenSeq(parts))
<1> DEFINE q == FlattenSeq(parts)
<1>1. ASSUME NEW i \in 1..n
      PROVE  /\ Len(parts[i]) \in Nat
             /\ \A k \in 1..Len(parts[i]) :
                  /\ parts[i][k] \in Seq(E) /\ NoTwice(parts[i][k])
                  /\ parts[i][k] # <<>>
                  /\ ToSet(parts[i][k]) \in SUBSET G[i] /\ ToSet(parts[i][k]) # {}
             /\ \A e \in G[i] : \E k \in 1..Len(parts[i]) : e \in ToSet(parts[i][k])
             /\ parts[i] \in Seq(Seq(E))
  <2>1. /\ Len(parts[i]) \in Nat
        /\ \A k \in 1..Len(parts[i]) :
             /\ parts[i][k] \in Seq(G[i]) /\ NoTwice(parts[i][k])
             /\ parts[i][k] # <<>>
             /\ ToSet(parts[i][k]) \in SUBSET G[i] /\ ToSet(parts[i][k]) # {}
        /\ \A e \in G[i] : \E k \in 1..Len(parts[i]) : e \in ToSet(parts[i][k])
    BY SegmentedParts
  <2>2. Seq(G[i]) \subseteq Seq(E)
    BY SeqMonotonic DEF Groups
  <2>3. Seq(Seq(G[i])) \subseteq Seq(Seq(E)) /\ parts[i] \in Seq(Seq(G[i]))
    BY <2>2, SeqMonotonic DEF Segmented
  <2> QED BY <2>1, <2>2, <2>3
<1>2. parts \in Seq(Seq(Seq(E))) /\ Len(parts) = n
  <2>1. parts \in [1..n -> Seq(Seq(E))]
    BY <1>1
  <2> QED BY <2>1
<1>3. ASSUME NEW i \in 1..n
      PROVE  /\ ToSet(parts[i]) = {parts[i][k] : k \in 1..Len(parts[i])}
             /\ \A k, l \in 1..Len(parts[i]) :
                  k # l => ToSet(parts[i][k]) \cap ToSet(parts[i][l]) = {}
  BY <1>1, ToSetIs DEF Segmented, Apart
<1>4. Apart(parts)
  <2>1. ASSUME NEW i \in 1..n PROVE NoTwice(parts[i])
    <3> SUFFICES ASSUME NEW k \in 1..Len(parts[i]), NEW l \in 1..Len(parts[i]),
                        parts[i][k] = parts[i][l], k # l
                 PROVE  FALSE
      BY DEF NoTwice
    <3>1. ToSet(parts[i][k]) \cap ToSet(parts[i][l]) = {} /\ ToSet(parts[i][k]) # {}
      BY <1>1, <1>3
    <3>2. ToSet(parts[i][k]) = ToSet(parts[i][l])
      OBVIOUS
    <3> QED BY ONLY <3>1, <3>2
  <2>2. ASSUME NEW i \in 1..n, NEW j \in 1..n, i # j
        PROVE  ToSet(parts[i]) \cap ToSet(parts[j]) = {}
    <3> SUFFICES ASSUME NEW x \in ToSet(parts[i]), x \in ToSet(parts[j]) PROVE FALSE
      OBVIOUS
    <3>1. ToSet(x) \in SUBSET G[i] /\ ToSet(x) # {}
      <4>1. PICK k \in 1..Len(parts[i]) : x = parts[i][k]
        BY <1>3
      <4> QED BY <1>1, <4>1
    <3>3. ToSet(x) \in SUBSET G[j]
      <4>1. PICK k \in 1..Len(parts[j]) : x = parts[j][k]
        BY <1>3
      <4> QED BY <1>1, <4>1
    <3>2. G[i] \cap G[j] = {}
      BY <2>2 DEF Groups
    <3> QED BY ONLY <3>1, <3>2, <3>3
  <2> QED BY <1>2, <2>1, <2>2 DEF Apart
<1>5. q \in Seq(Seq(E)) /\ ToSet(q) = Elements(parts) /\ NoTwice(q)
  BY <1>2, <1>4, Flattened
<1> HIDE DEF q
<1>6. Len(q) \in Nat /\ ToSet(q) = {q[k] : k \in 1..Len(q)}
  BY <1>5, ToSetIs
<1>7. \A k \in 1..Len(q) : \E i \in 1..n : \E l \in 1..Len(parts[i]) : q[k] = parts[i][l]
  <2> SUFFICES ASSUME NEW k \in 1..Len(q)
               PROVE  \E i \in 1..n : \E l \in 1..Len(parts[i]) : q[k] = parts[i][l]
    OBVIOUS
  <2>1. q[k] \in Elements(parts)
    BY <1>5, <1>6
  <2>2. PICK i \in 1..n : q[k] \in ToSet(parts[i])
    BY <1>2, <2>1 DEF Elements
  <2> QED BY <1>3, <2>2
<1>8. \A i \in 1..n : \A l \in 1..Len(parts[i]) : \E k \in 1..Len(q) : q[k] = parts[i][l]
  <2> SUFFICES ASSUME NEW i \in 1..n, NEW l \in 1..Len(parts[i])
               PROVE  \E k \in 1..Len(q) : q[k] = parts[i][l]
    OBVIOUS
  <2>1. parts[i][l] \in ToSet(parts[i])
    BY <1>3
  <2>2. parts[i][l] \in ToSet(q)
    BY <1>2, <1>5, <2>1 DEF Elements
  <2> QED BY <1>6, <2>2
<1>9. \A k \in 1..Len(q) : q[k] # <<>> /\ NoTwice(q[k])
  BY <1>1, <1>7
<1>10. ASSUME NEW k \in 1..Len(q), NEW l \in 1..Len(q),
              NEW a \in ToSet(q[k]), NEW b \in ToSet(q[l]),
              a.key.src = b.key.src, a.key.edge_type = b.key.edge_type
       PROVE  k = l
  <2>1. PICK i \in 1..n : \E x \in 1..Len(parts[i]) : q[k] = parts[i][x]
    BY <1>7
  <2>2. PICK x \in 1..Len(parts[i]) : q[k] = parts[i][x]
    BY <2>1
  <2>3. PICK j \in 1..n : \E y \in 1..Len(parts[j]) : q[l] = parts[j][y]
    BY <1>7
  <2>4. PICK y \in 1..Len(parts[j]) : q[l] = parts[j][y]
    BY <2>3
  <2>5. a \in G[i] /\ b \in G[j] /\ b \in E
    BY <1>1, <2>2, <2>4 DEF Groups
  <2>6. b \in G[i]
    BY <1>10, <2>5 DEF Groups
  <2>7. i = j
    BY <2>5, <2>6 DEF Groups
  <2>8. x = y
    <3>1. a \in ToSet(parts[i][x]) /\ b \in ToSet(parts[i][y]) /\ y \in 1..Len(parts[i])
      BY <2>2, <2>4, <2>7
    <3>2. BySource(parts[i])
      OBVIOUS
    <3> QED BY <1>10, <3>1, <3>2 DEF BySource
  <2> QED BY <1>5, <2>2, <2>4, <2>7, <2>8 DEF NoTwice
<1>11. Apart(q) /\ ByNeighborhood(q)
  BY <1>9, <1>10 DEF Apart, ByNeighborhood
<1>12. Elements(q) = E
  <2>1. ASSUME NEW e \in E PROVE e \in Elements(q)
    <3>1. PICK i \in 1..n : e \in G[i]
      BY DEF Groups
    <3>2. PICK l \in 1..Len(parts[i]) : e \in ToSet(parts[i][l])
      BY <1>1, <3>1
    <3>3. PICK k \in 1..Len(q) : q[k] = parts[i][l]
      BY <1>8
    <3> QED BY <3>2, <3>3 DEF Elements
  <2>2. ASSUME NEW e \in Elements(q) PROVE e \in E
    <3>1. PICK k \in 1..Len(q) : e \in ToSet(q[k])
      BY DEF Elements
    <3> QED BY <1>5, <3>1, ToSetIs
  <2> QED BY <2>1, <2>2
<1> QED BY <1>5, <1>9, <1>11, <1>12 DEF Segmented, q

\* The segments of one partition.
LEMMA GroupCut ==
  ASSUME NEW G, Timestamped(G), G # {}
  PROVE  LET q == split_range_bounded_segments(sort_by_key(G))
         IN  Segmented(q, G) /\ BySource(q)
<1> DEFINE s == sort_by_key(G)
<1>1. /\ s \in Seq(G) /\ ToSet(s) = G /\ NoTwice(s)
      /\ \A i, j \in 1..Len(s) : i <= j => s[i].key.src <= s[j].key.src
  BY SortByKey
<1> HIDE DEF s
<1>2. SourceSorted(s) /\ s # <<>> /\ G \in SUBSET EdgeRecord
  BY <1>1, ToSetIs DEF SourceSorted, Timestamped
<1>3. /\ Segmented(split_range_bounded_segments(s), G)
      /\ BySource(split_range_bounded_segments(s))
  BY <1>1, <1>2, SplitBySource
<1> QED BY <1>3 DEF s

LEMMA SubsetTimestamped ==
  ASSUME NEW E, Timestamped(E), NEW G \in SUBSET E
  PROVE  Timestamped(G)
BY FS_Subset DEF Timestamped

\* build_l0_flush_segments loses no record, repeats none, splits no
\* neighborhood and obeys the cap.
LEMMA BuildExact ==
  ASSUME NEW E, Timestamped(E), E # {}
  PROVE  LET r == build_l0_flush_segments(E)
         IN  /\ Segmented(r, E) /\ ByNeighborhood(r) /\ r # <<>>
             /\ graph_aware_l0 /\ max_l0_segments_per_flush > 0
                  => Len(r) <= max_l0_segments_per_flush
<1>1. CASE ~graph_aware_l0
  <2> DEFINE s == sort_by_key(E)
             r == <<s>>
  <2>1. s \in Seq(E) /\ ToSet(s) = E /\ NoTwice(s)
    BY SortByKey
  <2>2. build_l0_flush_segments(E) = r
    BY <1>1 DEF build_l0_flush_segments
  <2> HIDE DEF s
  <2>3. r \in Seq(Seq(E)) /\ r # <<>> /\ Len(r) = 1 /\ r[1] = s /\ 1..1 = {1}
    BY <2>1
  <2> HIDE DEF r
  <2>4. s # <<>>
    BY <2>1, ToSetIs
  <2>5. \A i \in 1..Len(r) : i = 1
    BY <2>3
  <2>6. Elements(r) = E
    BY <2>1, <2>3 DEF Elements
  <2>7. Segmented(r, E)
    BY <2>1, <2>3, <2>4, <2>5, <2>6 DEF Segmented, Apart
  <2>8. ByNeighborhood(r)
    BY <2>5 DEF ByNeighborhood
  <2> QED BY <1>1, <2>2, <2>3, <2>7, <2>8
<1>2. CASE graph_aware_l0
  <2> DEFINE keys == PartitionKeys(E)
             P == {Partition(e, E) : e \in E}
             n == Len(keys)
             G == [i \in 1..n |-> {e \in E : Partition(e, E) = keys[i]}]
             parts == [i \in 1..n |-> split_range_bounded_segments(sort_by_key(G[i]))]
             q == FlattenSeq(parts)
  <2>1. E \in SUBSET EdgeRecord /\ IsFiniteSet(E)
    BY DEF Timestamped
  <2>2. /\ keys \in Seq(P) /\ n \in Nat /\ DOMAIN keys = 1..n
        /\ ToSet(keys) = P /\ NoTwice(keys)
    BY <2>1, PartitionsSorted
  <2>3. build_l0_flush_segments(E) = merge_segments_to_cap(q)
    <3> DEFINE group(p) == sort_by_key({e \in E : Partition(e, E) = p})
               list == [i \in DOMAIN keys |-> split_range_bounded_segments(group(keys[i]))]
    <3>1. build_l0_flush_segments(E) = merge_segments_to_cap(FlattenSeq(list))
      BY <1>2 DEF build_l0_flush_segments, PartitionKeys
    <3>2. list = parts
      <4> HIDE DEF keys
      <4> QED BY <2>2
    <3> QED BY <3>1, <3>2
  <2> HIDE DEF keys
  <2>4. \A i \in 1..n : G[i] = {e \in E : Partition(e, E) = keys[i]}
    OBVIOUS
  <2>5. \A i \in 1..n : keys[i] \in P
    BY <2>2
  <2>6. \A e \in E : \E i \in 1..n : Partition(e, E) = keys[i]
    BY <2>2 DEF ToSet
  <2> HIDE DEF G, n
  <2>7. Groups(E, G, n)
    <3>1. \A i, j \in 1..n : i # j => keys[i] # keys[j]
      BY <2>2 DEF NoTwice, n
    <3>2. \A a, b \in E : a.key.src = b.key.src /\ a.key.edge_type = b.key.edge_type
            => Partition(a, E) = Partition(b, E)
      BY DEF Partition
    <3>3. \A i, j \in 1..n : i # j => G[i] \cap G[j] = {}
      BY <2>4, <3>1
    <3>4. \A i \in 1..n : \A a \in G[i], b \in E :
            a.key.src = b.key.src /\ a.key.edge_type = b.key.edge_type => b \in G[i]
      BY <2>4, <3>2
    <3>5. \A e \in E : \E i \in 1..n : e \in G[i]
      BY <2>4, <2>6
    <3>6. \A i \in 1..n : G[i] \in SUBSET E
      BY <2>4
    <3> QED BY <3>3, <3>4, <3>5, <3>6 DEF Groups
  <2>8. ASSUME NEW i \in 1..n
        PROVE  Segmented(parts[i], G[i]) /\ BySource(parts[i])
    <3>1. PICK e \in E : keys[i] = Partition(e, E)
      BY <2>5
    <3>2. G[i] # {} /\ G[i] \in SUBSET E
      BY <2>4, <3>1
    <3>3. Timestamped(G[i])
      BY <3>2, SubsetTimestamped
    <3>4. parts[i] = split_range_bounded_segments(sort_by_key(G[i]))
      OBVIOUS
    <3> QED BY <3>2, <3>3, <3>4, GroupCut
  <2>9. parts = [i \in 1..n |-> parts[i]]
    OBVIOUS
  <2> HIDE DEF parts
  <2>10. Segmented(q, E) /\ ByNeighborhood(q)
    BY <2>2, <2>7, <2>8, <2>9, GroupsSegmented DEF n
  <2> HIDE DEF q
  <2>11. q # <<>>
    <3> SUFFICES ASSUME q = <<>> PROVE FALSE
      OBVIOUS
    <3>1. Elements(q) = {} /\ Elements(q) = E
      BY <2>10 DEF Elements, Segmented
    <3> QED BY <3>1
  <2>12. LET r == merge_segments_to_cap(q)
         IN  /\ Segmented(r, E) /\ ByNeighborhood(r) /\ r # <<>>
             /\ max_l0_segments_per_flush > 0 => Len(r) <= max_l0_segments_per_flush
    BY <2>10, <2>11, MergedToCap
  <2> QED BY <2>3, <2>12
<1> QED BY <1>1, <1>2

-----------------------------------------------------------------------------
(* A segment on disk and back.                                             *)

\* Numbers in ascending order.
Ascending(S) == SortedSet(S, LAMBDA a, b : a < b)

LEMMA NumbersSorted ==
  ASSUME NEW S \in SUBSET Nat, IsFiniteSet(S)
  PROVE  LET s == Ascending(S)
         IN  /\ s \in Seq(S) /\ Len(s) \in Nat /\ DOMAIN s = 1..Len(s)
             /\ Len(s) = Cardinality(S) /\ ToSet(s) = S /\ NoTwice(s)
<1> DEFINE R == {t \in S \X S : t[1] < t[2]}
           s == Ascending(S)
           less(x) == {y \in S : y < x}
           before(x) == {y \in S : <<y, x>> \in R}
<1>1. \A x, y \in S : <<x, y>> \in R <=> x < y
  OBVIOUS
<1>2. Orders(R, S)
  <2> HIDE DEF R
  <2> QED BY <1>1 DEF Orders
<1>3. s = Ranked(S, R)
  <2>1. s = [i \in 1..Cardinality(S) |->
                CHOOSE x \in S : Cardinality(less(x)) = i - 1]
    BY DEF Ascending, SortedSet
  <2>2. Ranked(S, R) = [i \in 1..Cardinality(S) |->
                        CHOOSE x \in S : Cardinality(before(x)) = i - 1]
    BY DEF Ranked
  <2>3. \A x \in S : less(x) = before(x)
    BY <1>1
  <2> HIDE DEF less, before, R, s
  <2> QED BY <2>1, <2>2, <2>3
<1>4. Sorts(s, S, R)
  <2> HIDE DEF R
  <2> QED BY <1>2, <1>3, RanksSort
<1>5. /\ s \in Seq(S) /\ Len(s) \in Nat /\ DOMAIN s = 1..Len(s)
      /\ Len(s) = Cardinality(S) /\ ToSet(s) = S /\ NoTwice(s)
  <2> HIDE DEF R, s
  <2> QED BY <1>2, <1>4, SortedOnce DEF Sorts
<1> QED BY <1>5

\* A set of positions without gaps is an interval.
LEMMA NoGaps ==
  ASSUME NEW n \in Nat, NEW A \in SUBSET (1..n), A # {},
         \A i, k \in A : \A j \in 1..n : i <= j /\ j <= k => j \in A
  PROVE  /\ Min(A) \in 1..n /\ Cardinality(A) \in Nat /\ Cardinality(A) # 0
         /\ Min(A) + Cardinality(A) - 1 \in Min(A)..n
         /\ A = Min(A)..(Min(A) + Cardinality(A) - 1)
<1> DEFINE lo == Min(A)
           hi == Max(A)
<1>1. A \in SUBSET Nat /\ IsFiniteSet(A)
  <2>1. IsFiniteSet(1..n) /\ 1..n \subseteq Nat
    BY FS_Interval
  <2> QED BY <2>1, FS_Subset
<1>2. lo \in A /\ \A x \in A : lo <= x
  BY <1>1, LeastNatural
<1>3. hi \in A /\ \A x \in A : x <= hi
  BY <1>1, GreatestNatural
<1> HIDE DEF lo, hi
<1>4. A = lo..hi
  <2>1. \A j \in lo..hi : j \in 1..n
    BY <1>1, <1>2, <1>3
  <2>2. \A j \in lo..hi : j \in A
    BY <1>2, <1>3, <2>1
  <2>3. \A j \in A : j \in lo..hi
    BY <1>1, <1>2, <1>3
  <2> QED BY <2>2, <2>3
<1>5. lo \in 1..n /\ hi \in lo..n /\ lo \in Int /\ hi \in Int
  BY <1>1, <1>2, <1>3
<1>6. Cardinality(A) = hi - lo + 1
  BY <1>4, <1>5, FS_Interval
<1> QED BY <1>4, <1>5, <1>6 DEF lo

\* What the writer takes apart, the reader puts together.
LEMMA RecordBack ==
  ASSUME NEW e \in EdgeRecord
  PROVE  to_edge_record(DiskEdgeBody(e), e.key.src) = e
<1>1. e.key \in [src : Nat, edge_type : Int, dst : Nat]
  BY KeysAssumption DEF EdgeRecord
<1>2. e.key = [src |-> e.key.src, edge_type |-> e.key.edge_type, dst |-> e.key.dst]
  BY <1>1
<1>3. e = [key |-> e.key, ts |-> e.ts, marker |-> e.marker]
  BY DEF EdgeRecord
<1> QED BY <1>2, <1>3 DEF to_edge_record, DiskEdgeBody

\* file is what was written of the records of R.
Holds(file, R) ==
  /\ Len(file.offsets) \in Nat /\ DOMAIN file.offsets = 1..Len(file.offsets)
  /\ \A k \in 1..Len(file.offsets) :
       LET read == ReadBodies(file, file.offsets[k])
       IN  /\ read \in Seq(R) /\ NoTwice(read)
           /\ ToSet(read) = {e \in R : e.key.src = file.offsets[k].src}
  /\ \A k, l \in 1..Len(file.offsets) :
       file.offsets[k].src = file.offsets[l].src => k = l
  /\ \A e \in R : \E k \in 1..Len(file.offsets) : file.offsets[k].src = e.key.src
  /\ file.min_src = min_src(R) /\ file.max_src = max_src(R)
  /\ file.src_label = segment_src_label(R)
  /\ file.edge_type_partition = segment_edge_type(R)

\* What is written of a sorted list.
Bodies(sorted) == [i \in DOMAIN sorted |-> DiskEdgeBody(sorted[i])]

OffsetOf(sorted, s) ==
  LET at == {i \in DOMAIN sorted : sorted[i].key.src = s}
  IN [src |-> s, first_edge_idx |-> Min(at) - 1, edge_count |-> Cardinality(at)]

\* The slice of one source.
LEMMA SliceRead ==
  ASSUME NEW R, Timestamped(R), NEW sorted \in Seq(R),
         ToSet(sorted) = R, SourceSorted(sorted),
         NEW file, file.bodies = Bodies(sorted),
         NEW e0 \in R, NEW s, s = e0.key.src,
         NEW offset, offset = OffsetOf(sorted, s)
  PROVE  /\ ReadBodies(file, offset) \in Seq(R) /\ NoTwice(ReadBodies(file, offset))
         /\ ToSet(ReadBodies(file, offset)) = {e \in R : e.key.src = s}
<1> DEFINE n == Len(sorted)
           A == {i \in 1..n : sorted[i].key.src = s}
           lo == Min(A)
           hi == lo + Cardinality(A) - 1
           bodies == [i \in 1..n |-> DiskEdgeBody(sorted[i])]
           slice == SubSeq(bodies, lo, hi)
           m == hi - lo + 1
           read == [i \in DOMAIN slice |-> to_edge_record(slice[i], s)]
           list == [i \in 1..m |-> sorted[lo + i - 1]]
<1>1. /\ n \in Nat /\ DOMAIN sorted = 1..n /\ \A i \in 1..n : sorted[i] \in R
      /\ R = {sorted[i] : i \in 1..n}
  <2>1. \A i \in 1..n : sorted[i] \in R
    OBVIOUS
  <2> QED BY <2>1, ToSetIs
<1>2. \A i \in 1..n : sorted[i] \in EdgeRecord /\ sorted[i].key.src \in Nat
  BY <1>1, RecordType DEF Timestamped
<1>3. A # {} /\ A \in SUBSET (1..n)
  BY <1>1
<1>4. \A i, k \in A : \A j \in 1..n : i <= j /\ j <= k => j \in A
  <2> SUFFICES ASSUME NEW i \in A, NEW k \in A, NEW j \in 1..n, i <= j, j <= k
               PROVE  sorted[j].key.src = s
    OBVIOUS
  <2>1. i \in 1..n /\ k \in 1..n /\ sorted[i].key.src = s /\ sorted[k].key.src = s
    OBVIOUS
  <2>2. sorted[i].key.src <= sorted[j].key.src /\ sorted[j].key.src <= sorted[k].key.src
    BY <2>1 DEF SourceSorted
  <2> QED BY <1>2, <2>1, <2>2
<1>5. /\ lo \in 1..n /\ Cardinality(A) \in Nat /\ hi \in lo..n /\ A = lo..hi
  <2> HIDE DEF A
  <2> QED BY <1>1, <1>3, <1>4, NoGaps
<1>6. n \in Nat /\ lo \in 1..n /\ hi \in lo..n /\ lo \in Int /\ hi \in Int
  <2>1. n \in Nat
    BY <1>1
  <2>2. lo \in 1..n /\ hi \in lo..n
    BY <1>5
  <2> HIDE DEF n, A, lo, hi
  <2> QED BY ONLY <2>1, <2>2
<1>7. ReadBodies(file, offset) = read
  <2>1. /\ offset.src = s /\ offset.first_edge_idx = lo - 1
        /\ offset.edge_count = Cardinality(A)
    BY <1>1 DEF OffsetOf
  <2>2. file.bodies = bodies
    BY <1>1 DEF Bodies
  <2>3. (lo - 1) + 1 = lo /\ (lo - 1) + Cardinality(A) = hi
    <3>1. \A x \in 1..n, y \in Nat : (x - 1) + 1 = x /\ (x - 1) + y = x + y - 1
      BY <1>1
    <3>2. lo \in 1..n /\ Cardinality(A) \in Nat
      BY <1>5
    <3> HIDE DEF A, lo, n
    <3> QED BY ONLY <3>1, <3>2
  <2> HIDE DEF A, bodies, lo, hi
  <2> QED BY <2>1, <2>2, <2>3 DEF ReadBodies
<1>8. \A i \in 1..m : lo + i - 1 \in 1..n /\ lo + i - 1 \in lo..hi
  <2> HIDE DEF A, lo, hi, n
  <2> QED BY <1>6 DEF m
<1>9. \A j \in lo..hi : j - lo + 1 \in 1..m /\ lo + (j - lo + 1) - 1 = j
  <2> HIDE DEF A, lo, hi, n
  <2> QED BY <1>6 DEF m
<1>10. DOMAIN slice = 1..m /\ \A i \in 1..m : slice[i] = DiskEdgeBody(sorted[lo + i - 1])
  <2> DEFINE T == {DiskEdgeBody(sorted[i]) : i \in 1..n}
  <2>1. bodies \in Seq(T) /\ Len(bodies) = n /\ \A i \in 1..n : bodies[i] = DiskEdgeBody(sorted[i])
    <3>1. \A i \in 1..n : bodies[i] = DiskEdgeBody(sorted[i]) /\ bodies[i] \in T
      OBVIOUS
    <3>2. bodies = [i \in 1..n |-> bodies[i]]
      OBVIOUS
    <3> HIDE DEF bodies, T, n
    <3>3. bodies \in [1..n -> T]
      BY <3>1, <3>2
    <3>4. n \in Nat
      BY <1>1
    <3>5. bodies \in Seq(T) /\ Len(bodies) = n
      BY <3>3, <3>4
    <3> QED BY <3>1, <3>5
  <2>2. \A i \in lo..hi : i \in 1..n
    <3> HIDE DEF A, lo, hi, n
    <3> QED BY <1>6
  <2> HIDE DEF T, bodies, A
  <2>3. lo \in Int /\ hi \in Int
    BY <1>6
  <2> HIDE DEF lo, hi
  <2>4. slice \in Seq(T) /\ Len(slice) = m /\ \A i \in 1..m : slice[i] = bodies[lo + i - 1]
    <3> HIDE DEF n
    <3>1. \A i \in lo..hi : bodies[i] \in T
      <4>1. \A i \in 1..n : bodies[i] \in T
        BY <2>1
      <4> QED BY <2>2, <4>1
    <3>2. /\ slice \in Seq(T) /\ Len(slice) = IF lo <= hi THEN hi - lo + 1 ELSE 0
          /\ \A i \in 1..(hi - lo + 1) : slice[i] = bodies[lo + i - 1]
      <4> HIDE DEF T, bodies, lo, hi
      <4>1. lo \in Int /\ hi \in Int
        BY <2>3
      <4> QED BY <3>1, <4>1, SubSeqProperties
    <3>3. lo <= hi
      <4> HIDE DEF lo, hi, n
      <4> QED BY <1>6
    <3> QED BY <3>2, <3>3 DEF m
  <2> HIDE DEF slice, m
  <2> QED BY <1>8, <2>1, <2>4
<1> HIDE DEF slice, m
<1>11. read = list
  <2>1. ASSUME NEW i \in 1..m
        PROVE  to_edge_record(slice[i], s) = sorted[lo + i - 1]
    <3> DEFINE e == sorted[lo + i - 1]
    <3>1. lo + i - 1 \in A
      <4> HIDE DEF A
      <4> QED BY <1>5, <1>8
    <3>2. e.key.src = s
      BY <3>1
    <3>3. e \in EdgeRecord
      BY <1>2, <1>8
    <3> HIDE DEF e
    <3>4. to_edge_record(DiskEdgeBody(e), s) = e
      BY <3>2, <3>3, RecordBack
    <3> QED BY <1>10, <3>4 DEF e
  <2> HIDE DEF lo
  <2> QED BY <1>10, <2>1
<1> HIDE DEF read
<1>12. list \in Seq(R) /\ Len(list) = m /\ m \in Nat
  <2>1. m \in Nat
    <3> HIDE DEF lo, hi, n
    <3> QED BY <1>6 DEF m
  <2>2. \A i \in 1..m : list[i] \in R
    <3> HIDE DEF lo
    <3> QED BY <1>1, <1>8
  <2>3. list \in [1..m -> R]
    <3> HIDE DEF lo
    <3> QED BY <2>2
  <2> HIDE DEF list
  <2> QED BY <2>1, <2>3
<1>13. NoTwice(list)
  <2> SUFFICES ASSUME NEW i \in 1..m, NEW j \in 1..m, list[i] = list[j]
               PROVE  i = j
    BY <1>12 DEF NoTwice
  <2> HIDE DEF lo
  <2>1. sorted[lo + i - 1] = sorted[lo + j - 1]
    OBVIOUS
  <2>2. lo + i - 1 = lo + j - 1
    BY <1>8, <2>1 DEF SourceSorted, NoTwice
  <2> QED BY <1>1, <1>5, <1>12, <2>2
<1>14. ToSet(list) = {e \in R : e.key.src = s}
  <2>1. ToSet(list) = {list[i] : i \in 1..m}
    <3> HIDE DEF list
    <3> QED BY <1>12, ToSetIs
  <2>2. ASSUME NEW i \in 1..m PROVE list[i] \in R /\ list[i].key.src = s
    <3>1. lo + i - 1 \in A
      <4> HIDE DEF A
      <4> QED BY <1>5, <1>8
    <3>2. list[i] = sorted[lo + i - 1]
      BY <2>2
    <3> HIDE DEF lo, list
    <3> QED BY <1>1, <3>1, <3>2
  <2>3. ASSUME NEW e \in R, e.key.src = s PROVE e \in ToSet(list)
    <3>1. PICK j \in 1..n : e = sorted[j]
      BY <1>1
    <3>2. j \in A
      BY <2>3, <3>1
    <3>3. j - lo + 1 \in 1..m /\ lo + (j - lo + 1) - 1 = j
      <4> HIDE DEF A
      <4> QED BY <1>5, <1>9, <3>2
    <3>4. list[j - lo + 1] = e
      <4> HIDE DEF lo
      <4> QED BY <3>1, <3>3
    <3> HIDE DEF list, lo
    <3> QED BY <2>1, <3>3, <3>4
  <2> HIDE DEF list
  <2> QED BY <2>1, <2>2, <2>3
<1> HIDE DEF list
<1> QED BY <1>7, <1>11, <1>12, <1>13, <1>14

\* A written segment has the records of the segment.
LEMMA WrittenHolds ==
  ASSUME NEW seg, Timestamped(ToSet(seg)), ToSet(seg) # {}
  PROVE  Holds(write_segment(seg), ToSet(seg))
<1> DEFINE R == ToSet(seg)
           sorted == sort_by_key(R)
           file == write_segment(seg)
           Srcs == {sorted[i].key.src : i \in DOMAIN sorted}
           sources == Ascending(Srcs)
<1>1. /\ sorted \in Seq(R) /\ Len(sorted) \in Nat /\ DOMAIN sorted = 1..Len(sorted)
      /\ ToSet(sorted) = R /\ SourceSorted(sorted)
  <2> HIDE DEF R
  <2> QED BY SortByKey DEF SourceSorted, R
<1>2. /\ file.offsets = EdgeOffsets(sorted)
      /\ file.bodies = Bodies(sorted)
      /\ file.min_src = min_src(R) /\ file.max_src = max_src(R)
      /\ file.src_label = segment_src_label(R)
      /\ file.edge_type_partition = segment_edge_type(R)
  BY DEF write_segment, Bodies
<1>3. EdgeOffsets(sorted) = [k \in DOMAIN sources |-> OffsetOf(sorted, sources[k])]
  <2> HIDE DEF sorted
  <2> QED BY DEF EdgeOffsets, OffsetOf, Ascending
<1> HIDE DEF R, sorted, file
<1>4. Srcs = {e.key.src : e \in R}
  <2>1. R = {sorted[i] : i \in DOMAIN sorted}
    BY <1>1, ToSetIs
  <2> QED BY <2>1
<1>5. Timestamped(R) /\ R \in SUBSET EdgeRecord /\ IsFiniteSet(R)
  BY DEF Timestamped, R
<1> HIDE DEF Srcs
<1>6. Srcs \in SUBSET Nat /\ IsFiniteSet(Srcs)
  <2>1. Srcs \in SUBSET Nat
    BY <1>4, <1>5, RecordType
  <2> DEFINE f == [e \in R |-> e.key.src]
  <2>2. Srcs = {f[e] : e \in R}
    BY <1>4
  <2> HIDE DEF f
  <2> QED BY <1>5, <2>1, <2>2, ImageFinite
<1>7. /\ Len(sources) \in Nat /\ DOMAIN sources = 1..Len(sources)
      /\ ToSet(sources) = Srcs /\ NoTwice(sources)
      /\ \A k \in 1..Len(sources) : sources[k] \in Srcs
  BY <1>6, NumbersSorted
<1> HIDE DEF sources
<1> DEFINE n == Len(sources)
<1>8. /\ DOMAIN file.offsets = 1..n /\ n \in Nat /\ Len(file.offsets) = n
      /\ \A k \in 1..n : file.offsets[k] = OffsetOf(sorted, sources[k])
  <2>1. file.offsets = [k \in 1..n |-> OffsetOf(sorted, sources[k])]
    BY <1>2, <1>3, <1>7
  <2> QED BY <1>7, <2>1
<1>9. \A k \in 1..n : file.offsets[k].src = sources[k]
  <2>1. \A s : OffsetOf(sorted, s).src = s
    BY DEF OffsetOf
  <2> QED BY <1>8, <2>1
<1>10. ASSUME NEW k \in 1..n
       PROVE  LET read == ReadBodies(file, file.offsets[k])
              IN  /\ read \in Seq(R) /\ NoTwice(read)
                  /\ ToSet(read) = {e \in R : e.key.src = file.offsets[k].src}
  <2> DEFINE s == sources[k]
             offset == file.offsets[k]
  <2>1. PICK e \in R : s = e.key.src
    BY <1>4, <1>7
  <2>2. offset = OffsetOf(sorted, s) /\ offset.src = s
    BY <1>8, <1>9
  <2> HIDE DEF s, offset
  <2>3. /\ ReadBodies(file, offset) \in Seq(R) /\ NoTwice(ReadBodies(file, offset))
        /\ ToSet(ReadBodies(file, offset)) = {o \in R : o.key.src = s}
    BY <1>1, <1>2, <1>5, <2>1, <2>2, SliceRead
  <2> QED BY <2>2, <2>3 DEF offset
<1>11. \A k, l \in 1..n : file.offsets[k].src = file.offsets[l].src => k = l
  BY <1>7, <1>9 DEF NoTwice
<1>12. \A e \in R : \E k \in 1..n : file.offsets[k].src = e.key.src
  <2> SUFFICES ASSUME NEW e \in R PROVE \E k \in 1..n : file.offsets[k].src = e.key.src
    OBVIOUS
  <2>1. e.key.src \in ToSet(sources)
    BY <1>4, <1>7
  <2>2. PICK k \in 1..n : sources[k] = e.key.src
    BY <1>7, <2>1 DEF ToSet
  <2> QED BY <1>9, <2>2
<1>13. Holds(file, R)
  BY <1>2, <1>8, <1>10, <1>11, <1>12 DEF Holds
<1> QED BY <1>13 DEF R, file

\* Reading a file from end to end.
LEMMA AllRead ==
  ASSUME NEW R, R # {}, NEW file, Holds(file, R)
  PROVE  /\ read_all_edges(file) \in Seq(R) /\ NoTwice(read_all_edges(file))
         /\ ToSet(read_all_edges(file)) = R /\ read_all_edges(file) # <<>>
<1> DEFINE n == Len(file.offsets)
           read(k) == ReadBodies(file, file.offsets[k])
           q == [k \in DOMAIN file.offsets |-> read(k)]
<1>1. /\ n \in Nat /\ DOMAIN file.offsets = 1..n
      /\ \A k \in 1..n :
           /\ read(k) \in Seq(R) /\ NoTwice(read(k))
           /\ ToSet(read(k)) = {e \in R : e.key.src = file.offsets[k].src}
      /\ \A k, l \in 1..n : file.offsets[k].src = file.offsets[l].src => k = l
      /\ \A e \in R : \E k \in 1..n : file.offsets[k].src = e.key.src
  BY DEF Holds
<1>2. read_all_edges(file) = FlattenSeq(q)
  BY DEF read_all_edges
<1>3. q = [k \in 1..n |-> read(k)]
  <2> HIDE DEF read
  <2> QED BY <1>1
<1> HIDE DEF n, read
<1>4. q \in Seq(Seq(R)) /\ Len(q) = n /\ \A k \in 1..n : q[k] = read(k)
  <2>1. \A k \in 1..n : q[k] = read(k)
    BY <1>3
  <2> HIDE DEF q
  <2>2. q \in [1..n -> Seq(R)]
    BY <1>1, <1>3
  <2> QED BY <1>1, <2>1, <2>2
<1> HIDE DEF q
<1>5. Apart(q)
  BY <1>1, <1>4 DEF Apart
<1>6. Elements(q) = R
  <2>1. ASSUME NEW e \in R PROVE e \in Elements(q)
    <3>1. PICK k \in 1..n : file.offsets[k].src = e.key.src
      BY <1>1
    <3>2. e \in ToSet(q[k])
      BY <1>1, <1>4, <3>1
    <3> QED BY <1>4, <3>2 DEF Elements
  <2>2. ASSUME NEW e \in Elements(q) PROVE e \in R
    BY <1>1, <1>4, <2>2 DEF Elements
  <2> QED BY <2>1, <2>2
<1>7. FlattenSeq(q) \in Seq(R) /\ NoTwice(FlattenSeq(q)) /\ ToSet(FlattenSeq(q)) = R
  BY <1>4, <1>5, <1>6, Flattened
<1> QED BY <1>2, <1>7, ToSetIs

\* A lookup finds the records of its source and no others.
LEMMA SourceRead ==
  ASSUME NEW R \in SUBSET EdgeRecord, IsFiniteSet(R), NEW file, Holds(file, R),
         NEW s
  PROVE  ToSet(CsrNeighbors(file, s)) = {e \in R : e.key.src = s}
<1> DEFINE n == Len(file.offsets)
           found == {i \in DOMAIN file.offsets : file.offsets[i].src = s}
           out == s < file.min_src \/ s > file.max_src
<1>1. /\ n \in Nat /\ DOMAIN file.offsets = 1..n
      /\ \A k \in 1..n : ToSet(ReadBodies(file, file.offsets[k]))
                           = {e \in R : e.key.src = file.offsets[k].src}
      /\ \A e \in R : \E k \in 1..n : file.offsets[k].src = e.key.src
      /\ file.min_src = min_src(R) /\ file.max_src = max_src(R)
  BY DEF Holds
<1>2. ToSet(<<>>) = {}
  BY DEF ToSet
<1>3. \A e \in R : /\ min_src(R) <= e.key.src /\ e.key.src <= max_src(R)
                   /\ e.key.src \in Nat /\ min_src(R) \in Int /\ max_src(R) \in Int
  <2> SUFFICES ASSUME NEW e \in R
               PROVE  /\ min_src(R) <= e.key.src /\ e.key.src <= max_src(R)
                      /\ e.key.src \in Nat /\ min_src(R) \in Int /\ max_src(R) \in Int
    OBVIOUS
  <2>1. min_src(R) <= e.key.src /\ e.key.src <= max_src(R)
    BY FilterFinds
  <2> DEFINE S == {o.key.src : o \in R}
             f == [o \in R |-> o.key.src]
  <2>2. S \in SUBSET Nat /\ S # {}
    BY RecordType
  <2>3. IsFiniteSet(S)
    <3>1. S = {f[o] : o \in R}
      OBVIOUS
    <3> HIDE DEF f, S
    <3> QED BY <3>1, ImageFinite
  <2>4. min_src(R) = Min(S) /\ max_src(R) = Max(S)
    BY DEF min_src, max_src
  <2> HIDE DEF S
  <2>5. Min(S) \in Nat /\ Max(S) \in Nat
    BY <2>2, <2>3, LeastNatural, GreatestNatural
  <2> QED BY <2>1, <2>4, <2>5, RecordType
<1>4. CASE out \/ found = {}
  <2>1. CsrNeighbors(file, s) = <<>>
    BY <1>4 DEF CsrNeighbors
  <2>2. ASSUME NEW e \in R, e.key.src = s PROVE FALSE
    BY <1>1, <1>3, <1>4, <2>2
  <2> QED BY <1>2, <2>1, <2>2
<1>5. CASE ~(out \/ found = {})
  <2> DEFINE k == CHOOSE i \in found : TRUE
  <2>1. CsrNeighbors(file, s) = ReadBodies(file, file.offsets[k])
    BY <1>5 DEF CsrNeighbors
  <2>2. k \in found
    BY <1>5
  <2> HIDE DEF k
  <2>3. k \in 1..n /\ file.offsets[k].src = s
    BY <1>1, <2>2
  <2> QED BY <1>1, <2>1, <2>3
<1> QED BY <1>4, <1>5

\* The metadata of a file turns away no lookup that it has a record for.
LEMMA FileFound ==
  ASSUME NEW R \in SUBSET EdgeRecord, IsFiniteSet(R), NEW file, Holds(file, R),
         NEW e \in R, NEW t, t = NoEdgeType \/ e.key.edge_type \in t
  PROVE  FileMayContain(file, e.key.src, t)
<1>1. may_contain_partition(R, e.key.src, t)
  BY FilterFinds
<1>2. /\ file.src_label = segment_src_label(R)
      /\ file.edge_type_partition = segment_edge_type(R)
  BY DEF Holds
<1> QED BY <1>1, <1>2 DEF may_contain_partition, partition_overlaps_target, FileMayContain

-----------------------------------------------------------------------------
(* The flush.                                                              *)

\* AllSegments, of the files fs and the segments ss.
AllOf(fs, ss) == [i \in DOMAIN fs |-> read_all_edges(fs[i])] \o ss

LEMMA AllSegmentsIs == AllSegments = AllOf(files, segments)
BY DEF AllSegments, AllOf

\* Every list of q keeps its records.
LEMMA SameRecords ==
  ASSUME NEW E, NEW q, Segmented(q, E), ByNeighborhood(q),
         NEW r \in Seq(Seq(E)), Len(r) = Len(q),
         \A i \in 1..Len(q) : ToSet(r[i]) = ToSet(q[i]) /\ NoTwice(r[i])
  PROVE  Segmented(r, E) /\ ByNeighborhood(r)
<1>1. /\ Len(q) \in Nat /\ \A i \in 1..Len(q) : q[i] \in Seq(E) /\ ToSet(q[i]) # {}
      /\ Apart(q) /\ Elements(q) = E
  <2>1. Apart(q) /\ Elements(q) = E
    BY DEF Segmented
  <2> QED BY <2>1, SegmentedParts
<1>2. \A i \in 1..Len(q) : r[i] # <<>>
  <2>1. ToSet(<<>>) = {}
    BY DEF ToSet
  <2> QED BY <1>1, <2>1
<1>3. Apart(r)
  BY <1>1 DEF Apart
<1>4. Elements(r) = Elements(q)
  <2>1. {ToSet(r[i]) : i \in 1..Len(r)} = {ToSet(q[i]) : i \in 1..Len(q)}
    OBVIOUS
  <2> QED BY <2>1 DEF Elements
<1>5. ByNeighborhood(r)
  BY DEF ByNeighborhood
<1> QED BY <1>1, <1>2, <1>3, <1>4, <1>5 DEF Segmented

\* Files that the flush wrote, of records of E.
WrittenFiles(E) == {write_segment(seg) : seg \in Seq(E) \ {<<>>}}

LEMMA FileHolds ==
  ASSUME NEW E, Timestamped(E), NEW file \in WrittenFiles(E)
  PROVE  \E R \in SUBSET E :
           /\ R # {} /\ Timestamped(R) /\ Holds(file, R)
           /\ read_all_edges(file) \in Seq(E) /\ NoTwice(read_all_edges(file))
           /\ ToSet(read_all_edges(file)) = R
<1>1. PICK seg \in Seq(E) : seg # <<>> /\ file = write_segment(seg)
  BY DEF WrittenFiles
<1> DEFINE R == ToSet(seg)
<1>2. R \in SUBSET E /\ R # {}
  BY <1>1, ToSetIs
<1>3. Timestamped(R)
  BY <1>2, SubsetTimestamped
<1>4. Holds(file, R)
  BY <1>1, <1>2, <1>3, WrittenHolds
<1> HIDE DEF R
<1>5. /\ read_all_edges(file) \in Seq(R) /\ NoTwice(read_all_edges(file))
      /\ ToSet(read_all_edges(file)) = R
  BY <1>2, <1>4, AllRead
<1>6. read_all_edges(file) \in Seq(E)
  BY <1>2, <1>5, SeqMonotonic
<1> QED BY <1>2, <1>3, <1>4, <1>5, <1>6

LEMMA AllOfIs ==
  ASSUME NEW E, Timestamped(E), NEW fs \in Seq(WrittenFiles(E)), NEW ss \in Seq(Seq(E))
  PROVE  LET q == AllOf(fs, ss)
         IN  /\ q \in Seq(Seq(E)) /\ Len(q) = Len(fs) + Len(ss)
             /\ \A i \in 1..Len(q) :
                  q[i] = IF i <= Len(fs) THEN read_all_edges(fs[i]) ELSE ss[i - Len(fs)]
<1> DEFINE n == Len(fs)
           reads == [i \in DOMAIN fs |-> read_all_edges(fs[i])]
<1>1. n \in Nat /\ DOMAIN fs = 1..n /\ \A i \in 1..n : fs[i] \in WrittenFiles(E)
  OBVIOUS
<1>2. \A i \in 1..n : read_all_edges(fs[i]) \in Seq(E)
  BY <1>1, FileHolds
<1>3. reads \in Seq(Seq(E)) /\ Len(reads) = n
      /\ \A i \in 1..n : reads[i] = read_all_edges(fs[i])
  <2>1. reads = [i \in 1..n |-> read_all_edges(fs[i])]
    BY <1>1
  <2>2. \A i \in 1..n : reads[i] = read_all_edges(fs[i])
    BY <1>1
  <2> HIDE DEF reads, n
  <2>3. reads \in [1..n -> Seq(E)]
    BY <1>2, <2>1
  <2>4. n \in Nat
    BY <1>1
  <2>5. reads \in Seq(Seq(E)) /\ Len(reads) = n
    BY <2>3, <2>4
  <2> QED BY <2>2, <2>5
<1> HIDE DEF reads, n
<1>4. /\ Len(reads \o ss) = n + Len(ss) /\ reads \o ss \in Seq(Seq(E))
      /\ \A i \in 1..(n + Len(ss)) :
           (reads \o ss)[i] = IF i <= n THEN reads[i] ELSE ss[i - n]
  BY <1>3, ConcatProperties
<1>5. Len(ss) \in Nat
  OBVIOUS
<1>6. AllOf(fs, ss) = reads \o ss
  BY DEF AllOf, reads
<1>7. \A i \in 1..(n + Len(ss)) : i <= n => reads[i] = read_all_edges(fs[i])
  BY <1>1, <1>3, <1>5
<1> QED BY <1>4, <1>6, <1>7 DEF n

\* The write of the next segment changes nothing that a scan returns.
LEMMA WrittenSame ==
  ASSUME NEW E, Timestamped(E), NEW fs \in Seq(WrittenFiles(E)),
         NEW ss \in Seq(Seq(E)), ss # <<>>,
         Segmented(AllOf(fs, ss), E), ByNeighborhood(AllOf(fs, ss))
  PROVE  LET gs == Append(fs, write_segment(Head(ss)))
             q == AllOf(gs, Tail(ss))
         IN  /\ gs \in Seq(WrittenFiles(E)) /\ Tail(ss) \in Seq(Seq(E))
             /\ Segmented(q, E) /\ ByNeighborhood(q)
             /\ Len(q) = Len(AllOf(fs, ss))
<1> DEFINE n == Len(fs)
           m == Len(ss)
           seg == Head(ss)
           gs == Append(fs, write_segment(seg))
           ts == Tail(ss)
           p == AllOf(fs, ss)
           q == AllOf(gs, ts)
<1>1. /\ n \in Nat /\ m \in Nat /\ m # 0 /\ seg = ss[1] /\ seg \in Seq(E)
      /\ ts \in Seq(Seq(E)) /\ Len(ts) = m - 1
      /\ \A i \in 1..(m - 1) : ts[i] = ss[i + 1]
  BY EmptySeq, HeadTailProperties
<1> HIDE DEF seg, ts
<1>2. /\ p \in Seq(Seq(E)) /\ Len(p) = n + m
      /\ \A i \in 1..(n + m) : p[i] = IF i <= n THEN read_all_edges(fs[i]) ELSE ss[i - n]
  BY AllOfIs
<1>3. p[n + 1] = seg /\ n + 1 \in 1..(n + m)
  <2>1. n + 1 \in 1..(n + m) /\ ~(n + 1 <= n) /\ (n + 1) - n = 1
    BY <1>1
  <2> HIDE DEF p, n
  <2> QED BY <1>1, <1>2, <2>1
<1>4. seg # <<>> /\ NoTwice(seg)
  <2>1. Segmented(p, E)
    OBVIOUS
  <2> HIDE DEF p
  <2> QED BY <1>2, <1>3, <2>1 DEF Segmented, Apart
<1>5. write_segment(seg) \in WrittenFiles(E)
  BY <1>1, <1>4 DEF WrittenFiles
<1>6. /\ gs \in Seq(WrittenFiles(E)) /\ Len(gs) = n + 1
      /\ gs[n + 1] = write_segment(seg) /\ \A i \in 1..n : gs[i] = fs[i]
  BY <1>5, AppendProperties
<1> HIDE DEF gs
<1>7. /\ q \in Seq(Seq(E)) /\ Len(q) = Len(gs) + Len(ts)
      /\ \A i \in 1..Len(q) : q[i] = IF i <= Len(gs) THEN read_all_edges(gs[i])
                                     ELSE ts[i - Len(gs)]
  BY <1>1, <1>6, AllOfIs
<1>8. /\ ToSet(read_all_edges(write_segment(seg))) = ToSet(seg)
      /\ NoTwice(read_all_edges(write_segment(seg)))
  <2>1. ToSet(seg) \in SUBSET E /\ ToSet(seg) # {}
    BY <1>1, <1>4, ToSetIs
  <2>2. Timestamped(ToSet(seg))
    BY <2>1, SubsetTimestamped
  <2>3. Holds(write_segment(seg), ToSet(seg))
    BY <2>1, <2>2, WrittenHolds
  <2> QED BY <2>1, <2>3, AllRead
<1> HIDE DEF p, q, n, m
<1>9. Len(q) = n + m /\ Len(q) = Len(p)
  BY <1>1, <1>2, <1>6, <1>7
<1>10. ASSUME NEW i \in 1..Len(p)
       PROVE  ToSet(q[i]) = ToSet(p[i]) /\ NoTwice(q[i])
  <2>1. NoTwice(p[i])
    BY DEF Segmented, Apart, p
  <2>2. i \in 1..(n + m) /\ i \in 1..Len(q)
    BY <1>2, <1>9
  <2>3. CASE i <= n
    <3>1. i \in 1..n /\ i <= n + 1
      BY <1>1, <2>2, <2>3
    <3>2. q[i] = read_all_edges(gs[i]) /\ p[i] = read_all_edges(fs[i]) /\ gs[i] = fs[i]
      BY <1>2, <1>6, <1>7, <2>2, <2>3, <3>1
    <3> QED BY <2>1, <3>2
  <2>4. CASE i = n + 1
    <3>1. q[i] = read_all_edges(write_segment(seg))
      BY <1>1, <1>6, <1>7, <2>2, <2>4
    <3> QED BY <1>3, <1>8, <2>4, <3>1
  <2>5. CASE i > n + 1
    <3>1. i - n - 1 \in 1..(m - 1) /\ (i - n - 1) + 1 = i - n /\ i - (n + 1) = i - n - 1
      BY <1>1, <2>2, <2>5
    <3>2. q[i] = ts[i - (n + 1)]
      BY <1>1, <1>6, <1>7, <2>2, <2>5
    <3>3. p[i] = ss[i - n]
      BY <1>1, <1>2, <2>2, <2>5
    <3>4. ts[i - n - 1] = ss[i - n]
      BY <1>1, <3>1
    <3> QED BY <2>1, <3>1, <3>2, <3>3, <3>4
  <2> QED BY <1>1, <2>2, <2>3, <2>4, <2>5
<1>11. Segmented(p, E) /\ ByNeighborhood(p)
  BY DEF p
<1>12. Segmented(q, E) /\ ByNeighborhood(q)
  BY <1>7, <1>9, <1>10, <1>11, SameRecords
<1> QED BY <1>1, <1>6, <1>9, <1>12 DEF q, p, gs, ts, seg

\* From the cut on, the segments and files hold every record once, with its
\* neighborhood, and a file was written of one segment.
FlushInv ==
  /\ MemInv
  /\ phase \in {"open", "flushing", "flushed"}
  /\ files \in Seq(WrittenFiles(inserted))
  /\ segments \in Seq(Seq(inserted))
  /\ IF phase = "open" THEN files = <<>> /\ segments = <<>>
     ELSE /\ Segmented(AllOf(files, segments), inserted)
          /\ ByNeighborhood(AllOf(files, segments))
          /\ graph_aware_l0 /\ max_l0_segments_per_flush > 0 =>
               Len(AllOf(files, segments)) <= max_l0_segments_per_flush
          /\ phase = "flushed" <=> segments = <<>>

LEMMA MemTimestamped == MemInv => Timestamped(inserted)
BY DEF MemInv, MemTypeOK, Timestamped

LEMMA NothingYet ==
  ASSUME NEW S
  PROVE  AllOf(<<>>, <<>>) = <<>> /\ \A ss \in Seq(S) : AllOf(<<>>, ss) = ss
<1>1. [i \in DOMAIN <<>> |-> read_all_edges(<<>>[i])] = <<>>
  OBVIOUS
<1> QED BY <1>1, ConcatEmptySeq DEF AllOf

LEMMA FlushInitial == Init => FlushInv
<1> SUFFICES ASSUME Init PROVE FlushInv
  OBVIOUS
<1>1. MemInv
  BY MemInitial DEF Init
<1>2. phase = "open" /\ files = <<>> /\ segments = <<>>
  BY DEF Init
<1>3. files \in Seq(WrittenFiles(inserted)) /\ segments \in Seq(Seq(inserted))
  BY <1>2
<1> QED BY <1>1, <1>2, <1>3 DEF FlushInv

LEMMA InsertKept ==
  ASSUME FlushInv, MemInsert, MemInv'
  PROVE  FlushInv'
<1>1. phase = "open" /\ phase' = phase /\ files' = files /\ segments' = segments
  BY DEF MemInsert
<1>2. files = <<>> /\ segments = <<>>
  BY <1>1 DEF FlushInv
<1>3. files' \in Seq(WrittenFiles(inserted')) /\ segments' \in Seq(Seq(inserted'))
  BY <1>1, <1>2
<1> QED BY <1>1, <1>2, <1>3 DEF FlushInv

LEMMA BuildKept ==
  ASSUME FlushInv, BuildSegments, MemInv'
  PROVE  FlushInv'
<1> DEFINE E == inserted
           r == build_l0_flush_segments(E)
<1>1. /\ phase = "open" /\ phase' = "flushing" /\ files' = files
      /\ inserted' = E /\ edge_count > 0
      /\ segments' = build_l0_flush_segments(all_edges_sorted)
  BY DEF BuildSegments, memVars
<1>2. files = <<>> /\ MemInv /\ Timestamped(E)
  BY <1>1, MemTimestamped DEF FlushInv
<1>3. segments' = r
  BY <1>1, <1>2, ContentsFollow DEF ContentsExact
<1>4. E # {}
  <2>1. edge_count = Cardinality(E)
    BY <1>2 DEF MemInv, MemTypeOK
  <2>2. ~(0 > 0)
    OBVIOUS
  <2> QED BY <1>1, <2>1, <2>2, FS_EmptySet, Zenon
<1>5. /\ Segmented(r, E) /\ ByNeighborhood(r) /\ r # <<>>
      /\ graph_aware_l0 /\ max_l0_segments_per_flush > 0
           => Len(r) <= max_l0_segments_per_flush
  BY <1>2, <1>4, BuildExact
<1> HIDE DEF r, E
<1>6. r \in Seq(Seq(E))
  BY <1>5 DEF Segmented
<1>7. AllOf(files', segments') = r
  BY <1>1, <1>2, <1>3, <1>6, NothingYet
<1>8. files' \in Seq(WrittenFiles(inserted'))
  BY <1>1, <1>2
<1> QED BY <1>1, <1>3, <1>5, <1>6, <1>7, <1>8 DEF FlushInv

LEMMA WriteKept ==
  ASSUME FlushInv, WriteNext, MemInv'
  PROVE  FlushInv'
<1> DEFINE E == inserted
           q == AllOf(files, segments)
           r == AllOf(files', segments')
<1>1. /\ phase = "flushing" /\ segments # <<>> /\ inserted' = E
      /\ files' = Append(files, write_segment(Head(segments)))
      /\ segments' = Tail(segments)
      /\ phase' = IF Len(segments) = 1 THEN "flushed" ELSE phase
  BY DEF WriteNext, memVars
<1>2. /\ Timestamped(E) /\ files \in Seq(WrittenFiles(E)) /\ segments \in Seq(Seq(E))
      /\ Segmented(q, E) /\ ByNeighborhood(q)
      /\ graph_aware_l0 /\ max_l0_segments_per_flush > 0 =>
           Len(q) <= max_l0_segments_per_flush
  BY <1>1, MemTimestamped DEF FlushInv
<1>3. /\ files' \in Seq(WrittenFiles(E)) /\ segments' \in Seq(Seq(E))
      /\ Segmented(r, E) /\ ByNeighborhood(r) /\ Len(r) = Len(q)
  <2> HIDE DEF E
  <2> QED BY <1>1, <1>2, WrittenSame
<1>4. phase' \in {"flushing", "flushed"} /\ (phase' = "flushed" <=> segments' = <<>>)
  <2> HIDE DEF E
  <2>1. Len(segments) \in Nat /\ Len(segments') = Len(segments) - 1
    BY <1>1, <1>2, HeadTailProperties
  <2>2. segments' = <<>> <=> Len(segments') = 0
    BY <1>3, EmptySeq
  <2> QED BY <1>1, <2>1, <2>2
<1> HIDE DEF q, r, E
<1>5. graph_aware_l0 /\ max_l0_segments_per_flush > 0 =>
        Len(r) <= max_l0_segments_per_flush
  BY <1>2, <1>3
<1> QED BY <1>1, <1>3, <1>4, <1>5 DEF FlushInv, r, E

LEMMA FlushStep ==
  ASSUME FlushInv, [Next]_vars
  PROVE  FlushInv'
<1>1. MemInv'
  <2>1. [Insert]_memVars
    BY DEF Next, MemInsert, BuildSegments, WriteNext, vars, memVars
  <2> QED BY <2>1, MemStep DEF FlushInv
<1>2. CASE MemInsert
  BY <1>1, <1>2, InsertKept
<1>3. CASE BuildSegments
  BY <1>1, <1>3, BuildKept
<1>4. CASE WriteNext
  BY <1>1, <1>4, WriteKept
<1>5. CASE UNCHANGED vars
  BY <1>1, <1>5 DEF FlushInv, vars, memVars
<1> QED BY <1>2, <1>3, <1>4, <1>5 DEF Next

LEMMA PartitionFollows == FlushInv => SegmentsPartition
<1> SUFFICES ASSUME FlushInv, phase # "open" PROVE SegmentsPartition
  BY DEF SegmentsPartition
<1> DEFINE q == AllOf(files, segments)
           records == FlattenSeq(q)
<1>1. /\ Segmented(q, inserted) /\ q = AllSegments
      /\ graph_aware_l0 /\ max_l0_segments_per_flush > 0 =>
           Len(q) <= max_l0_segments_per_flush
  BY AllSegmentsIs DEF FlushInv
<1> HIDE DEF q
<1>2. /\ q \in Seq(Seq(inserted)) /\ Apart(q) /\ Elements(q) = inserted
      /\ DOMAIN q = 1..Len(q) /\ \A i \in 1..Len(q) : q[i] # <<>>
  BY <1>1 DEF Segmented
<1>3. records \in Seq(inserted) /\ NoTwice(records) /\ ToSet(records) = inserted
  BY <1>2, Flattened
<1> HIDE DEF records
<1>4. Len(records) = Cardinality(inserted)
  BY <1>3, OnceLength
<1> QED BY <1>1, <1>2, <1>3, <1>4 DEF SegmentsPartition, records

LEMMA NeighborhoodsFollow == FlushInv => NeighborhoodsWhole
<1> SUFFICES ASSUME FlushInv PROVE NeighborhoodsWhole
  OBVIOUS
<1> DEFINE q == AllOf(files, segments)
<1>1. q = AllSegments
  BY AllSegmentsIs
<1>2. CASE phase = "open"
  <2>1. q = <<>>
    BY <1>2, NothingYet DEF FlushInv
  <2> HIDE DEF q
  <2>2. DOMAIN q = {}
    BY <2>1
  <2> QED BY <1>1, <2>2 DEF NeighborhoodsWhole
<1>3. CASE phase # "open"
  <2>1. Segmented(q, inserted) /\ ByNeighborhood(q)
    BY <1>3 DEF FlushInv
  <2> HIDE DEF q
  <2>2. q \in Seq(Seq(inserted)) /\ DOMAIN q = 1..Len(q)
    BY <2>1 DEF Segmented
  <2>3. \A i \in 1..Len(q) : \A k \in DOMAIN q[i] : q[i][k] \in ToSet(q[i])
    BY DEF ToSet
  <2> SUFFICES ASSUME NEW i \in 1..Len(q), NEW j \in 1..Len(q),
                      NEW k \in DOMAIN q[i], NEW l \in DOMAIN q[j],
                      q[i][k].key.src = q[j][l].key.src,
                      q[i][k].key.edge_type = q[j][l].key.edge_type
               PROVE  i = j
    BY <1>1, <2>2 DEF NeighborhoodsWhole
  <2> QED BY <2>1, <2>3 DEF ByNeighborhood
<1> QED BY <1>2, <1>3

LEMMA FlushedRead ==
  ASSUME FlushInv, phase = "flushed", NEW s \in Sources, NEW t
  PROVE  SegmentRecords(s, t) = Typed(get_edges_for_src(s), t)
<1> DEFINE E == inserted
           q == AllOf(files, segments)
           n == Len(files)
           found == {j \in DOMAIN files : FileMayContain(files[j], s, t)}
           read(i) == ToSet(CsrNeighbors(files[i], s))
<1>1. get_edges_for_src(s) = {e \in E : e.key.src = s}
  BY ContentsFollow DEF FlushInv, ContentsExact
<1>2. /\ Timestamped(E) /\ segments = <<>> /\ Segmented(q, E)
      /\ files \in Seq(WrittenFiles(E)) /\ segments \in Seq(Seq(E))
  BY MemTimestamped DEF FlushInv
<1> HIDE DEF E
<1>3. n \in Nat /\ DOMAIN files = 1..n /\ \A i \in 1..n : files[i] \in WrittenFiles(E)
  BY <1>2
<1>4. Len(q) = n /\ \A i \in 1..n : q[i] = read_all_edges(files[i])
  <2>1. /\ Len(q) = Len(files) + Len(segments)
        /\ \A i \in 1..Len(q) : q[i] = IF i <= Len(files) THEN read_all_edges(files[i])
                                       ELSE segments[i - Len(files)]
    BY <1>2, AllOfIs
  <2>2. Len(segments) = 0
    BY <1>2
  <2> HIDE DEF q, n
  <2> QED BY <1>3, <2>1, <2>2 DEF n
<1> HIDE DEF q
<1>5. \A i \in 1..n : \E R \in SUBSET E : /\ Timestamped(R) /\ Holds(files[i], R)
                                          /\ ToSet(q[i]) = R
  BY <1>2, <1>3, <1>4, FileHolds
<1>6. ASSUME NEW i \in 1..n
      PROVE  read(i) = {e \in ToSet(q[i]) : e.key.src = s} /\ ToSet(q[i]) \in SUBSET E
  <2>1. PICK R \in SUBSET E : Timestamped(R) /\ Holds(files[i], R) /\ ToSet(q[i]) = R
    BY <1>5
  <2>2. read(i) = {e \in R : e.key.src = s}
    BY <2>1, SourceRead DEF Timestamped
  <2> QED BY <2>1, <2>2
<1>7. ASSUME NEW e \in SegmentRecords(s, t)
      PROVE  e \in Typed({o \in E : o.key.src = s}, t)
  <2>1. e \in Typed(UNION {read(i) : i \in found}, t)
    BY <1>7 DEF SegmentRecords
  <2> HIDE DEF read
  <2>2. PICK i \in 1..n : e \in read(i)
    BY <1>3, <2>1 DEF Typed
  <2>3. e \in E /\ e.key.src = s
    BY <1>6, <2>2
  <2> QED BY <2>1, <2>3 DEF Typed
<1>8. ASSUME NEW e \in Typed({o \in E : o.key.src = s}, t)
      PROVE  e \in SegmentRecords(s, t)
  <2>1. e \in E /\ e.key.src = s /\ (t = NoEdgeType \/ e.key.edge_type \in t)
    BY <1>8 DEF Typed
  <2>2. PICK i \in 1..n : e \in ToSet(q[i])
    <3>1. e \in Elements(q)
      BY <1>2, <2>1 DEF Segmented
    <3> QED BY <1>4, <3>1 DEF Elements
  <2>3. PICK R \in SUBSET E : Timestamped(R) /\ Holds(files[i], R) /\ ToSet(q[i]) = R
    BY <1>5
  <2>4. FileMayContain(files[i], s, t)
    BY <2>1, <2>2, <2>3, FileFound DEF Timestamped
  <2>5. e \in read(i)
    BY <1>6, <2>1, <2>2
  <2>6. i \in found
    BY <1>3, <2>4
  <2> HIDE DEF read, found
  <2>7. e \in Typed(UNION {read(j) : j \in found}, t)
    BY <2>1, <2>5, <2>6 DEF Typed
  <2> QED BY <2>7 DEF SegmentRecords, read, found
<1> QED BY <1>1, <1>7, <1>8

LEMMA ReadsFollow == FlushInv => FlushedReadsSame
BY FlushedRead DEF FlushedReadsSame

\* A flush loses no record of the memgraph, repeats none, writes no empty
\* segment and obeys the cap, for every capacity, partition size and target
\* size.
THEOREM FlushCorrect == Spec => []SegmentsPartition
BY FlushInitial, FlushStep, PartitionFollows, PTL DEF Spec

\* No source and type is split over two segments of a flush, whatever the
\* sizes that the cut aims at, and wherever the joins under the cap fall.
THEOREM NeighborhoodsCorrect == Spec => []NeighborhoodsWhole
BY FlushInitial, FlushStep, NeighborhoodsFollow, PTL DEF Spec

\* What the writer put on disk answers every lookup like the memgraph did:
\* neither the table of offsets nor the filters on the metadata lose a record.
THEOREM FlushedReadsCorrect == Spec => []FlushedReadsSame
BY FlushInitial, FlushStep, ReadsFollow, PTL DEF Spec

\* The delta of a view is such a flush, so that all three hold of it.
THEOREM DeltaFlushCorrect ==
  ViewSpec => [](SegmentsPartition /\ NeighborhoodsWhole /\ FlushedReadsSame)
<1>1. ViewInit => FlushInv
  BY FlushInitial DEF ViewInit
<1>2. FlushInv /\ [ViewNext]_viewVars => FlushInv'
  <2>1. [ViewNext]_viewVars => [Next]_vars
    BY DEF ViewNext, Build, Open, Delta, viewVars
  <2> QED BY <2>1, FlushStep
<1> QED BY <1>1, <1>2, PartitionFollows, NeighborhoodsFollow, ReadsFollow, PTL DEF ViewSpec

-----------------------------------------------------------------------------
(* The catalog of a base.                                                  *)

\* CatalogWhole says nothing of a build that is under way: the files that it
\* has written so far are its own, whatever was there before, and nobody
\* touches the files of a catalog without an interruption.
CatalogInv ==
  /\ DOMAIN base_files = Files
  /\ built \in 0..Len(Plan)
  /\ source \in Inputs \cup {NoInput}
  /\ source # NoInput => \A i \in 1..built : base_files[Plan[i]] = source
  /\ source # NoInput => interrupted = (catalog # NoInput)
  /\ CatalogWhole

\* The plan is a sequence of files.
LEMMA PlanFiles ==
  /\ Len(Plan) \in Nat
  /\ \A i \in 1..Len(Plan) : Plan[i] \in Files
  /\ \A f \in Files : \E i \in 1..Len(Plan) : f = Plan[i]
<1>1. DOMAIN Plan = 1..Len(Plan) /\ Len(Plan) \in Nat
  BY DEF Plan
<1> QED BY <1>1 DEF Files

LEMMA CatalogInitial == BaseInit => CatalogInv
  BY PlanFiles, InputsAssumption DEF BaseInit, CatalogInv, CatalogWhole

LEMMA CatalogStep ==
  ASSUME CatalogInv, [BaseNext]_baseVars
  PROVE  CatalogInv'
<1> USE PlanFiles, InputsAssumption
<1>1. CASE UNCHANGED baseVars
  BY <1>1 DEF CatalogInv, CatalogWhole, baseVars
<1>2. CASE BuildStart
  <2>1. interrupted' = (catalog # NoInput) /\ catalog' = catalog
          /\ base_files' = base_files
    BY <1>2 DEF BuildStart
  <2>2. CatalogWhole'
    BY <2>1 DEF CatalogWhole
  <2>3. built' = 0 /\ source' \in Inputs
    BY <1>2 DEF BuildStart
  <2>4. DOMAIN base_files' = Files /\ built' \in 0..Len(Plan)
    BY <2>1, <2>3 DEF CatalogInv
  <2>5. \A i \in 1..built' : base_files'[Plan[i]] = source'
    BY <2>3
  <2> QED BY <2>1, <2>2, <2>3, <2>4, <2>5 DEF CatalogInv
<1>3. CASE BuildFile
  <2>1. \A i \in 1..built' : base_files'[Plan[i]] = source
    BY <1>3 DEF BuildFile, CatalogInv
  <2>2. catalog = NoInput \/ interrupted
    BY <1>3 DEF BuildFile, CatalogInv
  <2>3. CatalogWhole'
    BY <1>3, <2>2 DEF BuildFile, CatalogWhole
  <2>4. built' \in 0..Len(Plan)
    BY <1>3 DEF BuildFile, CatalogInv
  <2> QED BY <1>3, <2>1, <2>3, <2>4 DEF BuildFile, CatalogInv
<1>4. CASE BuildError
  BY <1>4 DEF BuildError, CatalogInv, CatalogWhole
<1>5. CASE BuildKilled
  <2>1. catalog = NoInput \/ interrupted
    BY <1>5 DEF BuildKilled, CatalogInv
  <2>2. CatalogWhole'
    BY <1>5, <2>1 DEF BuildKilled, CatalogWhole
  <2> QED BY <1>5, <2>2 DEF BuildKilled, CatalogInv
<1>6. CASE SaveCatalog
  <2>1. \A f \in Files : base_files[f] = source
    BY <1>6 DEF SaveCatalog, CatalogInv
  <2>2. CatalogWhole'
    BY <1>6, <2>1 DEF SaveCatalog, CatalogWhole
  <2> QED BY <1>6, <2>2 DEF SaveCatalog, CatalogInv
<1> QED BY <1>1, <1>2, <1>3, <1>4, <1>5, <1>6 DEF BaseNext

\* A base that can be opened was written by one build, as long as no build
\* over an existing catalog was interrupted.
THEOREM CatalogCorrect == BaseSpec => []CatalogWhole
<1>1. CatalogInv => CatalogWhole
  BY DEF CatalogInv
<1> QED BY <1>1, CatalogInitial, CatalogStep, PTL DEF BaseSpec

\* Opening a view and writing to its delta do not touch the base.
THEOREM ViewCatalogCorrect == ViewSpec => []CatalogWhole
<1>1. CatalogInv => CatalogWhole
  BY DEF CatalogInv
<1>2. ViewInit => CatalogInv
  BY CatalogInitial DEF ViewInit
<1>3. CatalogInv /\ [ViewNext]_viewVars => CatalogInv'
  <2>1. CASE Open
    BY <2>1 DEF Open, CatalogInv, CatalogWhole
  <2>2. CASE Build \/ Delta \/ UNCHANGED viewVars
    <3>1. [BaseNext]_baseVars
      BY <2>2 DEF Build, Delta, viewVars, baseVars
    <3> QED BY <3>1, CatalogStep
  <2> QED BY <2>1, <2>2 DEF ViewNext
<1> QED BY <1>1, <1>2, <1>3, PTL DEF ViewSpec

-----------------------------------------------------------------------------
(* The adjacencies of the base.                                            *)

\* The edges of an adjacency with the vertices below n as sources, by row.
IsEdges(edges, D, n) ==
  /\ D \subseteq Nat /\ IsFiniteSet(D)
  /\ edges = [i \in D |-> edges[i]]
  /\ \A i \in D : /\ edges[i] = <<edges[i][1], edges[i][2]>>
                  /\ edges[i][1] \in 0..(n - 1) /\ edges[i][2] \in Nat

EdgeOrder(edges, D) ==
  {t \in D \X D :
     \/ edges[t[1]][1] < edges[t[2]][1]
     \/ edges[t[1]][1] = edges[t[2]][1] /\ edges[t[1]][2] < edges[t[2]][2]
     \/ edges[t[1]] = edges[t[2]] /\ t[1] < t[2]}

LEMMA EdgesSorted ==
  ASSUME NEW D, NEW n \in Nat, NEW edges, IsEdges(edges, D, n)
  PROVE  /\ Orders(EdgeOrder(edges, D), D)
         /\ Sorts(SortedEdges(edges), D, EdgeOrder(edges, D))
<1> DEFINE R == EdgeOrder(edges, D)
           s == SortedEdges(edges)
           less(j) == {i \in D : \/ edges[i][1] < edges[j][1]
                                 \/ edges[i][1] = edges[j][1] /\ edges[i][2] < edges[j][2]
                                 \/ edges[i] = edges[j] /\ i < j}
           before(j) == {i \in D : <<i, j>> \in R}
<1>1. \A i, j \in D : <<i, j>> \in R <=> \/ edges[i][1] < edges[j][1]
                                         \/ edges[i][1] = edges[j][1] /\ edges[i][2] < edges[j][2]
                                         \/ edges[i] = edges[j] /\ i < j
  BY DEF EdgeOrder
<1>2. /\ DOMAIN edges = D /\ IsFiniteSet(D) /\ D \subseteq Nat
      /\ \A i \in D : /\ edges[i] = <<edges[i][1], edges[i][2]>>
                      /\ edges[i][1] \in Int /\ edges[i][2] \in Int /\ i \in Int
  BY DEF IsEdges
<1>3. \A j \in D : less(j) = before(j)
  BY <1>1
<1>4. \A i, j \in D : edges[i] = edges[j]
                        <=> edges[i][1] = edges[j][1] /\ edges[i][2] = edges[j][2]
  BY <1>2
<1>5. Orders(R, D)
  <2> HIDE DEF R
  <2>1. \A x \in D : <<x, x>> \notin R
    BY <1>1, <1>2
  <2>2. ASSUME NEW x \in D, NEW y \in D, x # y PROVE <<x, y>> \in R \/ <<y, x>> \in R
    <3>1. /\ edges[x][1] \in Int /\ edges[x][2] \in Int /\ x \in Int
          /\ edges[y][1] \in Int /\ edges[y][2] \in Int /\ y \in Int
      BY <1>2
    <3>2. \/ edges[x][1] < edges[y][1] \/ edges[y][1] < edges[x][1]
          \/ edges[x][1] = edges[y][1] /\ (edges[x][2] < edges[y][2] \/ edges[y][2] < edges[x][2])
          \/ edges[x][1] = edges[y][1] /\ edges[x][2] = edges[y][2] /\ (x < y \/ y < x)
      BY ONLY <2>2, <3>1
    <3> QED BY <1>1, <1>4, <3>2
  <2>3. ASSUME NEW x \in D, NEW y \in D, NEW z \in D,
               <<x, y>> \in R, <<y, z>> \in R
        PROVE  <<x, z>> \in R
    <3>1. /\ edges[x][1] \in Int /\ edges[x][2] \in Int /\ x \in Int
          /\ edges[y][1] \in Int /\ edges[y][2] \in Int /\ y \in Int
          /\ edges[z][1] \in Int /\ edges[z][2] \in Int /\ z \in Int
      BY <1>2
    <3>2. \/ edges[x][1] < edges[y][1]
          \/ edges[x][1] = edges[y][1] /\ edges[x][2] < edges[y][2]
          \/ edges[x][1] = edges[y][1] /\ edges[x][2] = edges[y][2] /\ x < y
      BY <1>1, <1>4, <2>3
    <3>3. \/ edges[y][1] < edges[z][1]
          \/ edges[y][1] = edges[z][1] /\ edges[y][2] < edges[z][2]
          \/ edges[y][1] = edges[z][1] /\ edges[y][2] = edges[z][2] /\ y < z
      BY <1>1, <1>4, <2>3
    <3>4. \/ edges[x][1] < edges[z][1]
          \/ edges[x][1] = edges[z][1] /\ edges[x][2] < edges[z][2]
          \/ edges[x][1] = edges[z][1] /\ edges[x][2] = edges[z][2] /\ x < z
      BY ONLY <3>1, <3>2, <3>3
    <3> QED BY <1>1, <1>4, <3>4
  <2> QED BY <2>1, <2>2, <2>3 DEF Orders
<1>6. s = Ranked(D, R)
  <2>1. s = [i \in 1..Cardinality(D) |->
               CHOOSE x \in D : Cardinality(less(x)) = i - 1]
    BY <1>2 DEF SortedEdges, SortedSet
  <2>2. Ranked(D, R) = [i \in 1..Cardinality(D) |->
                          CHOOSE x \in D : Cardinality(before(x)) = i - 1]
    BY DEF Ranked
  <2> HIDE DEF less, before, R, s
  <2> QED BY <1>3, <2>1, <2>2
<1>7. Sorts(s, D, R)
  <2> HIDE DEF R, s
  <2> QED BY <1>2, <1>5, <1>6, RanksSort
<1> QED BY <1>5, <1>7

\* What the edges of a source lead to.
Named(edges, D, v) == {edges[i][2] : i \in {j \in D : edges[j][1] = v}}

\* The range of a source.
Encloses(csr, v, a, b) ==
  /\ csr.neighbors \in Seq(Nat)
  /\ range(csr, v) = <<a, b>> /\ a \in Nat /\ b \in a..Len(csr.neighbors)

\* It holds X.
Covers(csr, v, X) ==
  \E a, b : Encloses(csr, v, a, b) /\ X = {csr.neighbors[p] : p \in (a + 1)..b}

\* The offsets of a source enclose its neighbors.
LEMMA CsrRange ==
  ASSUME NEW D, NEW n \in Nat, NEW edges, IsEdges(edges, D, n), NEW v \in Nat,
         NEW csr, csr = write_csr(n, edges)
  PROVE  Covers(csr, v, Named(edges, D, v))
<1> DEFINE R == EdgeOrder(edges, D)
           s == SortedEdges(edges)
           below(w) == {i \in D : edges[i][1] < w}
<1>1. /\ DOMAIN edges = D /\ D \subseteq Nat
      /\ \A i \in D : edges[i][1] \in 0..(n - 1) /\ edges[i][2] \in Nat
  BY DEF IsEdges
<1>2. Orders(R, D) /\ Sorts(s, D, R)
  BY EdgesSorted
<1>3. \A i, j \in D : <<i, j>> \in R => edges[i][1] <= edges[j][1]
  BY <1>1 DEF EdgeOrder
<1>4. /\ csr.offsets = [w \in 0..n |-> Cardinality(below(w))]
      /\ csr.neighbors = [k \in DOMAIN s |-> edges[s[k]][2]]
  BY <1>1 DEF write_csr
<1> HIDE DEF R, s
<1>5. /\ s \in Seq(D) /\ Len(s) \in Nat /\ DOMAIN s = 1..Len(s) /\ ToSet(s) = D
  BY <1>2, SortedOnce
<1>6. \A p \in 1..Len(s) : s[p] \in D
  BY <1>5
<1>7. /\ csr.neighbors \in Seq(Nat) /\ Len(csr.neighbors) = Len(s)
      /\ \A p \in 1..Len(s) : csr.neighbors[p] = edges[s[p]][2]
  <2>1. \A p \in 1..Len(s) : edges[s[p]][2] \in Nat
    BY <1>1, <1>6
  <2> DEFINE g == [k \in 1..Len(s) |-> edges[s[k]][2]]
  <2>2. csr.neighbors = g
    BY <1>4, <1>5
  <2>3. g \in Seq(Nat) /\ Len(g) = Len(s)
    BY <1>5, <2>1
  <2> QED BY <2>2, <2>3
<1>8. ASSUME NEW w \in Nat
      PROVE  /\ Cardinality(below(w)) \in 0..Len(s)
             /\ \A p \in 1..Len(s) : edges[s[p]][1] < w <=> p <= Cardinality(below(w))
  <2>1. /\ below(w) \in SUBSET D
        /\ \A i \in D : i \in below(w) <=> edges[i][1] < w
    OBVIOUS
  <2> HIDE DEF below
  <2>2. \A x \in below(w), y \in D : <<y, x>> \in R => y \in below(w)
    <3> SUFFICES ASSUME NEW x \in below(w), NEW y \in D, <<y, x>> \in R
                 PROVE  y \in below(w)
      OBVIOUS
    <3>1. x \in D /\ edges[x][1] < w /\ edges[y][1] <= edges[x][1]
      BY <1>3, <2>1
    <3>2. edges[y][1] < w
      BY <1>1, <3>1
    <3> QED BY <2>1, <3>2
  <2> QED BY <1>2, <1>6, <2>1, <2>2, InitialSegment
<1>9. CASE v < n
  <2> DEFINE a == Cardinality(below(v))
             b == Cardinality(below(v + 1))
  <2>1. v \in 0..n /\ v + 1 \in 0..n /\ v + 1 \in Nat
    BY <1>9
  <2>2. range(csr, v) = <<a, b>>
    BY <1>4, <2>1 DEF range
  <2>3. /\ a \in 0..Len(s) /\ b \in 0..Len(s)
        /\ \A p \in 1..Len(s) : /\ edges[s[p]][1] < v <=> p <= a
                                /\ edges[s[p]][1] < v + 1 <=> p <= b
    BY <1>8, <2>1
  <2> HIDE DEF a, b
  <2>4. \A p \in 1..Len(s) : edges[s[p]][1] = v <=> p \in (a + 1)..b
    <3> SUFFICES ASSUME NEW p \in 1..Len(s)
                 PROVE  edges[s[p]][1] = v <=> p \in (a + 1)..b
      OBVIOUS
    <3>1. edges[s[p]][1] \in Int
      BY <1>1, <1>6
    <3> QED BY <2>3, <3>1
  <2>5. a <= b
    <3> SUFFICES ASSUME b < a PROVE FALSE
      BY <2>3
    <3>1. a \in 1..Len(s)
      BY <2>3
    <3>2. edges[s[a]][1] < v /\ ~(edges[s[a]][1] < v + 1)
      BY <2>3, <3>1
    <3>3. edges[s[a]][1] \in Int
      BY <1>1, <1>6, <3>1
    <3> QED BY <3>2, <3>3
  <2>6. ASSUME NEW p \in (a + 1)..b PROVE csr.neighbors[p] \in Named(edges, D, v)
    <3>1. p \in 1..Len(s)
      BY <2>3, <2>6
    <3>2. s[p] \in D /\ edges[s[p]][1] = v /\ csr.neighbors[p] = edges[s[p]][2]
      BY <1>6, <1>7, <2>4, <3>1
    <3> QED BY <3>2 DEF Named
  <2>7. ASSUME NEW x \in Named(edges, D, v)
        PROVE  \E p \in (a + 1)..b : csr.neighbors[p] = x
    <3>1. PICK i \in D : edges[i][1] = v /\ x = edges[i][2]
      BY DEF Named
    <3>2. PICK p \in 1..Len(s) : s[p] = i
      BY <1>2 DEF Sorts
    <3>3. p \in (a + 1)..b /\ csr.neighbors[p] = x
      BY <1>7, <2>4, <3>1, <3>2
    <3> QED BY <3>3
  <2>8. {csr.neighbors[p] : p \in (a + 1)..b} = Named(edges, D, v)
    BY <2>6, <2>7
  <2>9. a \in Nat /\ b \in a..Len(csr.neighbors)
    BY <1>7, <2>3, <2>5
  <2> QED BY <1>7, <2>2, <2>8, <2>9 DEF Encloses, Covers
<1>10. CASE ~(v < n)
  <2>1. v + 1 \notin 0..n
    BY <1>10
  <2>2. range(csr, v) = <<0, 0>>
    BY <1>4, <2>1 DEF range
  <2>3. \A i \in D : edges[i][1] # v
    BY <1>1, <1>10
  <2>4. Named(edges, D, v) = {}
    BY <2>3 DEF Named
  <2>5. {csr.neighbors[p] : p \in (0 + 1)..0} = {}
    OBVIOUS
  <2>6. 0 \in 0..Len(csr.neighbors)
    BY <1>5, <1>7
  <2>7. Encloses(csr, v, 0, 0)
    BY <1>7, <2>2, <2>6 DEF Encloses
  <2> QED BY <2>4, <2>5, <2>7 DEF Covers
<1> QED BY <1>9, <1>10

\* A scan reads its range, whatever the size of the chunks.
LEMMA ScanReads ==
  ASSUME NEW csr, NEW v, NEW a, NEW b, Encloses(csr, v, a, b)
  PROVE  ToSet(csr_neighbors(csr, v)) = {csr.neighbors[p] : p \in (a + 1)..b}
<1> DEFINE nb == csr.neighbors
           q == scan_chunks(csr, v)
           d == b - a
           c == choose_chunk_items(d)
           m == (d + c - 1) \div c
           lo == [i \in 1..m |-> (i - 1) * c + 1]
           hi == [i \in 1..m |-> IF i * c < d THEN i * c ELSE d]
<1>1. /\ a \in Nat /\ b \in Nat /\ a <= b /\ b <= Len(nb) /\ Len(nb) \in Nat
      /\ nb \in Seq(Nat) /\ DOMAIN nb = 1..Len(nb) /\ d \in Nat
  <2>1. a \in Nat /\ b \in a..Len(nb) /\ nb \in Seq(Nat)
    BY DEF Encloses
  <2> HIDE DEF nb
  <2> QED BY <2>1
<1>2. CASE a = b
  <2>1. q = <<>>
    BY <1>2 DEF scan_chunks, Encloses
  <2>2. csr_neighbors(csr, v) = FlattenSeq(<<>>)
    BY <2>1 DEF csr_neighbors
  <2>3. ToSet(FlattenSeq(<<>>)) = Elements(<<>>)
    BY EmptySeq, Flattened
  <2>4. Elements(<<>>) = {} /\ (a + 1)..b = {}
    BY <1>1, <1>2 DEF Elements
  <2> QED BY <2>2, <2>3, <2>4
<1>3. CASE a # b
  <2>1. d \in Nat \ {0} /\ c \in Nat \ {0}
    BY <1>1, <1>3, BaseAssumption DEF choose_chunk_items
  <2>2. q = [k \in 1..m |-> SubSeq(nb, a + (k - 1) * c + 1, Min({a + k * c, b}))]
    BY <1>3 DEF scan_chunks, Encloses
  <2> HIDE DEF d, c, q
  <2>3. /\ m \in Nat \ {0}
        /\ \A i \in 1..m : (i - 1) * c \in Nat /\ i * c \in Nat
        /\ Ranges(d, m, lo, hi)
    BY <2>1, Chunks
  <2>4. /\ \A i \in 1..m : /\ lo[i] = (i - 1) * c + 1
                           /\ hi[i] = IF i * c < d THEN i * c ELSE d
    OBVIOUS
  <2> HIDE DEF m, lo, hi, nb
  <2>5. ASSUME NEW k \in 1..m
        PROVE  /\ a + (k - 1) * c + 1 = a + lo[k]
               /\ Min({a + k * c, b}) = a + hi[k]
               /\ lo[k] \in 1..d /\ hi[k] \in lo[k]..d
    <3>1. (k - 1) * c \in Nat /\ k * c \in Nat
      BY <2>3
    <3>2. lo[k] \in 1..d /\ hi[k] \in lo[k]..d
      BY <2>3 DEF Ranges
    <3>3. lo[k] = (k - 1) * c + 1 /\ hi[k] = IF k * c < d THEN k * c ELSE d
      BY <2>4
    <3>4. a + hi[k] = IF a + k * c < b THEN a + k * c ELSE b
      BY <1>1, <3>1, <3>3 DEF d
    <3>5. \A x, y \in Int : Min({x, y}) = IF x < y THEN x ELSE y
      BY MinOfTwo DEF Min
    <3> DEFINE e == a + k * c
    <3>6. e \in Int /\ b \in Int
      BY <1>1, <3>1
    <3> HIDE DEF e
    <3>7. Min({e, b}) = IF e < b THEN e ELSE b
      BY <3>5, <3>6
    <3>8. Min({a + k * c, b}) = IF a + k * c < b THEN a + k * c ELSE b
      BY <3>7 DEF e
    <3>9. a + (k - 1) * c + 1 = a + lo[k]
      <4> DEFINE f == (k - 1) * c
      <4>1. f \in Nat /\ lo[k] = f + 1
        BY <3>1, <3>3
      <4> HIDE DEF f
      <4>2. a + f + 1 = a + lo[k]
        BY <1>1, <4>1
      <4> QED BY <4>2 DEF f
    <3> QED BY <3>2, <3>4, <3>8, <3>9
  <2>6. ASSUME NEW k \in 1..m
        PROVE  /\ q[k] \in Seq(Nat)
               /\ ToSet(q[k]) = {nb[a + j] : j \in lo[k]..hi[k]}
    <3> DEFINE l == a + lo[k]
               h == a + hi[k]
    <3>1. /\ l \in Nat \ {0} /\ h \in Nat /\ l <= h /\ h <= Len(nb)
          /\ lo[k] \in Int /\ hi[k] \in Int
      <4>1. lo[k] \in 1..d /\ hi[k] \in lo[k]..d
        BY <2>5
      <4>2. /\ a \in Nat /\ b \in Nat /\ a <= b /\ b <= Len(nb) /\ Len(nb) \in Nat
            /\ d = b - a
        BY <1>1 DEF d
      <4> HIDE DEF d
      <4>3. /\ lo[k] \in Int /\ hi[k] \in Int /\ 1 <= lo[k] /\ lo[k] <= hi[k] /\ hi[k] <= d
        BY ONLY <4>1, <4>2
      <4> QED BY ONLY <4>2, <4>3 DEF l, h
    <3>2. q[k] = SubSeq(nb, l, h)
      BY <2>2, <2>5
    <3> HIDE DEF l, h
    <3>3. \A i \in l..h : nb[i] \in Nat
      BY <1>1, <3>1
    <3>4. /\ SubSeq(nb, l, h) \in Seq(Nat)
          /\ Len(SubSeq(nb, l, h)) = IF l <= h THEN h - l + 1 ELSE 0
          /\ \A i \in 1..h - l + 1 : SubSeq(nb, l, h)[i] = nb[l + i - 1]
      BY <3>1, <3>3, SubSeqProperties
    <3>5. /\ q[k] \in Seq(Nat) /\ Len(q[k]) = h - l + 1
          /\ \A i \in 1..(h - l + 1) : q[k][i] = nb[l + i - 1]
      BY <3>1, <3>2, <3>4
    <3>6. ToSet(q[k]) = {q[k][i] : i \in 1..(h - l + 1)}
      BY <3>5, ToSetIs
    <3>7. ASSUME NEW i \in 1..(h - l + 1)
          PROVE  \E j \in lo[k]..hi[k] : q[k][i] = nb[a + j]
      <4>1. lo[k] + i - 1 \in lo[k]..hi[k] /\ l + i - 1 = a + (lo[k] + i - 1)
        <5>1. /\ i \in Int /\ 1 <= i /\ i <= h - l + 1 /\ a \in Int
              /\ l = a + lo[k] /\ h = a + hi[k] /\ lo[k] \in Int /\ hi[k] \in Int
          BY <1>1, <3>1 DEF l, h
        <5> QED BY ONLY <5>1
      <4>2. q[k][i] = nb[l + i - 1]
        BY <3>5
      <4> QED BY <4>1, <4>2
    <3>8. ASSUME NEW j \in lo[k]..hi[k]
          PROVE  \E i \in 1..(h - l + 1) : q[k][i] = nb[a + j]
      <4>1. /\ j - lo[k] + 1 \in 1..(h - l + 1)
            /\ l + (j - lo[k] + 1) - 1 = a + j
        <5>1. /\ j \in Int /\ lo[k] <= j /\ j <= hi[k] /\ a \in Int
              /\ l = a + lo[k] /\ h = a + hi[k] /\ lo[k] \in Int /\ hi[k] \in Int
          BY <1>1, <3>1 DEF l, h
        <5> QED BY ONLY <5>1
      <4>2. q[k][j - lo[k] + 1] = nb[l + (j - lo[k] + 1) - 1]
        BY <3>5, <4>1
      <4> QED BY <4>1, <4>2
    <3>9. {q[k][i] : i \in 1..(h - l + 1)} = {nb[a + j] : j \in lo[k]..hi[k]}
      <4> DEFINE X == {q[k][i] : i \in 1..(h - l + 1)}
                 Y == {nb[a + j] : j \in lo[k]..hi[k]}
      <4>1. \A x \in X : x \in Y
        BY <3>7
      <4>2. \A y \in Y : y \in X
        BY <3>8
      <4> HIDE DEF X, Y
      <4>3. X = Y
        BY <4>1, <4>2
      <4> QED BY <4>3 DEF X, Y
    <3> QED BY <3>5, <3>6, <3>9
  <2>7. q \in Seq(Seq(Nat)) /\ Len(q) = m
    <3>1. q = [k \in 1..m |-> q[k]] /\ m \in Nat
      BY <2>2, <2>3
    <3>2. \A k \in 1..m : q[k] \in Seq(Nat)
      BY <2>6
    <3> DEFINE T == Seq(Nat)
    <3> HIDE DEF T
    <3>3. q \in [1..m -> T]
      BY <3>1, <3>2 DEF T
    <3>4. q \in Seq(T) /\ Len(q) = m
      BY <3>1, <3>3
    <3> QED BY <3>4 DEF T
  <2>8. ToSet(csr_neighbors(csr, v)) = UNION {ToSet(q[k]) : k \in 1..m}
    <3>1. ToSet(FlattenSeq(q)) = Elements(q)
      BY <2>7, Flattened
    <3>2. csr_neighbors(csr, v) = FlattenSeq(q)
      BY DEF csr_neighbors, q
    <3> QED BY <2>7, <3>1, <3>2 DEF Elements
  <2>9. ASSUME NEW p \in (a + 1)..b
        PROVE  nb[p] \in UNION {ToSet(q[k]) : k \in 1..m}
    <3>1. p - a \in 1..d /\ a + (p - a) = p
      BY <1>1 DEF d
    <3>2. PICK k \in 1..m : p - a \in lo[k]..hi[k]
      BY <2>3, <3>1 DEF Ranges
    <3>3. nb[p] \in ToSet(q[k])
      BY <2>6, <3>1, <3>2
    <3> QED BY <3>3
  <2>10. ASSUME NEW k \in 1..m, NEW x \in ToSet(q[k])
         PROVE  \E p \in (a + 1)..b : x = nb[p]
    <3>1. PICK j \in lo[k]..hi[k] : x = nb[a + j]
      BY <2>6
    <3>2. lo[k] \in 1..d /\ hi[k] \in lo[k]..d
      BY <2>5
    <3>3. a + j \in (a + 1)..b
      BY <1>1, <3>2 DEF d
    <3> QED BY <3>1, <3>3
  <2>11. UNION {ToSet(q[k]) : k \in 1..m} = {nb[p] : p \in (a + 1)..b}
    <3> DEFINE X == UNION {ToSet(q[k]) : k \in 1..m}
               Y == {nb[p] : p \in (a + 1)..b}
    <3>1. \A x \in X : x \in Y
      BY <2>10
    <3>2. \A y \in Y : y \in X
      BY <2>9
    <3> HIDE DEF X, Y
    <3>3. X = Y
      BY <3>1, <3>2
    <3> QED BY <3>3 DEF X, Y
  <2> QED BY <2>8, <2>11 DEF nb
<1> QED BY <1>2, <1>3

\* An id that occurs is the id of a vertex.
LEMMA LocalFound ==
  ASSUME NEW input \in Inputs, NEW file \in CsvFiles, NEW external,
         Occurrences(csv[input][file], external) # {}
  PROVE  Local(csv[input][file], external) \in LocalIds(csv[input][file])
<1> DEFINE rows == csv[input][file].rows
           S == Occurrences(csv[input][file], external)
<1>1. Len(rows) \in Nat /\ DOMAIN rows = 1..Len(rows)
  BY CsvAssumption
<1>2. S \in SUBSET (1..Len(rows))
  BY <1>1 DEF Occurrences, Rows
<1> HIDE DEF S
<1>3. S \in SUBSET Nat /\ IsFiniteSet(S)
  <2>1. 1..Len(rows) \subseteq Nat /\ IsFiniteSet(1..Len(rows))
    BY <1>1, FS_Interval
  <2> QED BY <1>2, <2>1, FS_Subset
<1>4. S # {}
  BY DEF S
<1>5. Max(S) \in S
  BY <1>3, <1>4, GreatestNatural
<1>6. Max(S) \in 1..Len(rows)
  BY <1>2, <1>5
<1>7. Local(csv[input][file], external) = Max(S) - 1
  BY DEF Local, S
<1> QED BY <1>1, <1>6, <1>7 DEF LocalIds

\* A cell that must name a vertex.
Names(input, scan, row, column) ==
  \/ column \notin {"replyOfPost", "replyOfComment"}
  \/ column = "replyOfPost" /\ Cell(csv[input][scan], row, column) # Empty
  \/ /\ column = "replyOfComment" /\ Cell(csv[input][scan], row, column) # Empty
     /\ Cell(csv[input][scan], row, "replyOfPost") = Empty

\* In a file that was scanned without an error it does.
LEMMA TargetFound ==
  ASSUME NEW input \in Inputs, NEW scan, Resolves(input, scan),
         NEW row \in Rows(csv[input][scan]), NEW column, NEW target \in CsvFiles,
         <<column, target>> \in References(scan), Names(input, scan, row, column)
  PROVE  Target(input, scan, row, column, target) \in LocalIds(csv[input][target])
<1>1. \/ Occurrences(csv[input][target], Cell(csv[input][scan], row, column)) # {}
      \/ /\ column \in {"replyOfPost", "replyOfComment"}
         /\ Cell(csv[input][scan], row, column) = Empty
      \/ /\ column = "replyOfComment"
         /\ Cell(csv[input][scan], row, "replyOfPost") # Empty
  BY DEF Resolves
<1>2. Occurrences(csv[input][target], Cell(csv[input][scan], row, column)) # {}
  BY <1>1 DEF Names
<1> QED BY <1>2, LocalFound DEF Target

\* A row of a vertex file stands for a vertex.
LEMMA VertexFound ==
  ASSUME NEW input \in Inputs, NEW file \in CsvFiles, NEW row \in Rows(csv[input][file])
  PROVE  Vertex(csv[input][file], row) \in LocalIds(csv[input][file])
<1>1. row \in Occurrences(csv[input][file], Cell(csv[input][file], row, "id"))
  BY DEF Occurrences
<1>2. Occurrences(csv[input][file], Cell(csv[input][file], row, "id")) # {}
  BY <1>1
<1> QED BY <1>2, LocalFound DEF Vertex

LEMMA RowsFinite ==
  ASSUME NEW input \in Inputs, NEW file \in CsvFiles, NEW D \in SUBSET Rows(csv[input][file])
  PROVE  D \subseteq Nat /\ IsFiniteSet(D) /\ Len(csv[input][file].rows) \in Nat
<1>1. /\ Len(csv[input][file].rows) \in Nat
      /\ Rows(csv[input][file]) = 1..Len(csv[input][file].rows)
  BY CsvAssumption DEF Rows
<1>2. \A n \in Nat : IsFiniteSet(1..n) /\ 1..n \subseteq Nat
  BY FS_Interval
<1> QED BY <1>1, <1>2, FS_Subset

\* The edges of both directions.
BothEnds(input, from, to, scan) ==
  [row \in Rows(csv[input][scan]) |->
     <<Target(input, scan, row, from[1], from[2]), Target(input, scan, row, to[1], to[2])>>]

\* The edges of a derived adjacency.
OneEnd(input, scan, rows, named, target) ==
  [row \in rows |->
     <<Target(input, scan, row, named, target), Vertex(csv[input][scan], row)>>]

LEMMA BothEndsFound ==
  ASSUME NEW input \in Inputs, NEW scan \in CsvFiles, Resolves(input, scan),
         NEW a, NEW f \in CsvFiles, NEW b, NEW g \in CsvFiles,
         <<a, f>> \in References(scan), <<b, g>> \in References(scan),
         a \notin {"replyOfPost", "replyOfComment"},
         b \notin {"replyOfPost", "replyOfComment"}
  PROVE  IsEdges(BothEnds(input, <<a, f>>, <<b, g>>, scan), Rows(csv[input][scan]),
                 Len(csv[input][f].rows))
<1> DEFINE D == Rows(csv[input][scan])
           edges == BothEnds(input, <<a, f>>, <<b, g>>, scan)
           n == Len(csv[input][f].rows)
<1>1. D \subseteq Nat /\ IsFiniteSet(D) /\ n \in Nat /\ Len(csv[input][g].rows) \in Nat
  <2>1. D \in SUBSET Rows(csv[input][scan])
    OBVIOUS
  <2>2. {} \in SUBSET Rows(csv[input][f]) /\ {} \in SUBSET Rows(csv[input][g])
    OBVIOUS
  <2> HIDE DEF D
  <2> QED BY <2>1, <2>2, RowsFinite
<1>2. \A row \in D : Target(input, scan, row, a, f) \in LocalIds(csv[input][f])
  BY TargetFound DEF Names
<1>3. \A row \in D : Target(input, scan, row, b, g) \in LocalIds(csv[input][g])
  BY TargetFound DEF Names
<1>4. edges = [row \in D |-> <<Target(input, scan, row, a, f),
                               Target(input, scan, row, b, g)>>]
  BY DEF BothEnds
<1>5. LocalIds(csv[input][f]) = 0..(n - 1) /\ LocalIds(csv[input][g]) \subseteq Nat
  BY <1>1 DEF LocalIds
<1> HIDE DEF D, edges, n
<1>6. \A row \in D : /\ edges[row] = <<edges[row][1], edges[row][2]>>
                     /\ edges[row][1] \in 0..(n - 1) /\ edges[row][2] \in Nat
  BY <1>2, <1>3, <1>4, <1>5
<1>7. edges = [row \in D |-> edges[row]]
  BY <1>4
<1> QED BY <1>1, <1>6, <1>7 DEF IsEdges, D, edges, n

LEMMA OneEndFound ==
  ASSUME NEW input \in Inputs, NEW scan \in CsvFiles, Resolves(input, scan),
         NEW a, NEW f \in CsvFiles, <<a, f>> \in References(scan),
         NEW D \in SUBSET Rows(csv[input][scan]),
         \A row \in D : Names(input, scan, row, a)
  PROVE  IsEdges(OneEnd(input, scan, D, a, f), D, Len(csv[input][f].rows))
<1> DEFINE edges == OneEnd(input, scan, D, a, f)
           n == Len(csv[input][f].rows)
<1>1. /\ D \subseteq Nat /\ IsFiniteSet(D) /\ n \in Nat
      /\ Len(csv[input][scan].rows) \in Nat
  <2>1. {} \in SUBSET Rows(csv[input][f])
    OBVIOUS
  <2> QED BY <2>1, RowsFinite
<1>2. \A row \in D : Target(input, scan, row, a, f) \in LocalIds(csv[input][f])
  BY TargetFound
<1>3. \A row \in D : Vertex(csv[input][scan], row) \in LocalIds(csv[input][scan])
  BY VertexFound
<1>4. edges = [row \in D |-> <<Target(input, scan, row, a, f),
                               Vertex(csv[input][scan], row)>>]
  BY DEF OneEnd
<1>5. LocalIds(csv[input][f]) = 0..(n - 1) /\ LocalIds(csv[input][scan]) \subseteq Nat
  BY <1>1 DEF LocalIds
<1> HIDE DEF edges, n
<1>6. \A row \in D : /\ edges[row] = <<edges[row][1], edges[row][2]>>
                     /\ edges[row][1] \in 0..(n - 1) /\ edges[row][2] \in Nat
  BY <1>2, <1>3, <1>4, <1>5
<1>7. edges = [row \in D |-> edges[row]]
  BY <1>4
<1> QED BY <1>1, <1>6, <1>7 DEF IsEdges, edges, n

\* A scan of an adjacency of either kind finds what its edges say.
LEMMA EdgesRead ==
  ASSUME NEW D, NEW n \in Nat, NEW edges, IsEdges(edges, D, n), NEW v \in Nat
  PROVE  ToSet(csr_neighbors(write_csr(n, edges), v)) = Named(edges, D, v)
<1> DEFINE csr == write_csr(n, edges)
<1> HIDE DEF csr
<1>1. csr = write_csr(n, edges)
  BY DEF csr
<1>2. Covers(csr, v, Named(edges, D, v))
  BY <1>1, CsrRange
<1>3. PICK a, b : /\ Encloses(csr, v, a, b)
                  /\ Named(edges, D, v) = {csr.neighbors[p] : p \in (a + 1)..b}
  BY <1>2 DEF Covers
<1>4. ToSet(csr_neighbors(csr, v)) = {csr.neighbors[p] : p \in (a + 1)..b}
  BY <1>3, ScanReads
<1> QED BY <1>1, <1>3, <1>4

\* The files and columns that adjacencies are made from.
LEMMA MultiNames ==
  ASSUME NEW name \in DOMAIN MultiEdges
  PROVE  LET m == MultiEdges[name]
         IN  /\ m[1] \in CsvFiles /\ m[2][2] \in CsvFiles /\ m[3][2] \in CsvFiles
             /\ m[2] = <<m[2][1], m[2][2]>> /\ m[3] = <<m[3][1], m[3][2]>>
             /\ m[2] \in References(m[1]) /\ m[3] \in References(m[1])
             /\ m[2][1] \notin {"replyOfPost", "replyOfComment"}
             /\ m[3][1] \notin {"replyOfPost", "replyOfComment"}
<1>1. DOMAIN MultiEdges = {"KNOWS", "PERSON_LIKES_POST", "PERSON_LIKES_COMMENT", "FORUM_HAS_MEMBER"}
  BY DEF MultiEdges
<1>2. CASE name = "KNOWS"
  BY <1>2 DEF MultiEdges, CsvFiles, References
<1>3. CASE name = "PERSON_LIKES_POST"
  BY <1>3 DEF MultiEdges, CsvFiles, References
<1>4. CASE name = "PERSON_LIKES_COMMENT"
  BY <1>4 DEF MultiEdges, CsvFiles, References
<1>5. CASE name = "FORUM_HAS_MEMBER"
  BY <1>5 DEF MultiEdges, CsvFiles, References
<1> QED BY <1>1, <1>2, <1>3, <1>4, <1>5

LEMMA DerivedNames ==
  ASSUME NEW name \in DOMAIN DerivedIndexes, NEW input
  PROVE  LET d == DerivedIndexes[name]
         IN  /\ d[1] \in CsvFiles /\ d[3] \in CsvFiles
             /\ <<d[2], d[3]>> \in References(d[1])
             /\ DerivedRows(input, name) \in SUBSET Rows(csv[input][d[1]])
             /\ \A row \in DerivedRows(input, name) : Names(input, d[1], row, d[2])
<1>1. DOMAIN DerivedIndexes =
        {"PERSON_CREATED_POST", "FORUM_CONTAINER_OF_POST", "PERSON_CREATED_COMMENT",
         "POST_CHILD_COMMENTS", "COMMENT_CHILD_COMMENTS"}
  BY DEF DerivedIndexes
<1>2. CASE name = "PERSON_CREATED_POST"
  BY <1>2 DEF DerivedIndexes, CsvFiles, References, DerivedRows, Names
<1>3. CASE name = "FORUM_CONTAINER_OF_POST"
  BY <1>3 DEF DerivedIndexes, CsvFiles, References, DerivedRows, Names
<1>4. CASE name = "PERSON_CREATED_COMMENT"
  BY <1>4 DEF DerivedIndexes, CsvFiles, References, DerivedRows, Names
<1>5. CASE name = "POST_CHILD_COMMENTS"
  BY <1>5 DEF DerivedIndexes, CsvFiles, References, DerivedRows, Names, PostReplies
<1>6. CASE name = "COMMENT_CHILD_COMMENTS"
  BY <1>6 DEF DerivedIndexes, CsvFiles, References, DerivedRows, Names, PostReplies,
              CommentReplies
<1> QED BY <1>1, <1>2, <1>3, <1>4, <1>5, <1>6

LEMMA PlanAdjacencies ==
  ASSUME NEW f \in Adjacencies
  PROVE  /\ f = <<f[1], f[2]>>
         /\ \/ f[1] \in {"OUT", "IN"} /\ f[2] \in DOMAIN MultiEdges
            \/ f[1] = "derived" /\ f[2] \in DOMAIN DerivedIndexes
<1>1. /\ DOMAIN MultiEdges = {"KNOWS", "PERSON_LIKES_POST", "PERSON_LIKES_COMMENT",
                              "FORUM_HAS_MEMBER"}
      /\ DOMAIN DerivedIndexes =
           {"PERSON_CREATED_POST", "FORUM_CONTAINER_OF_POST", "PERSON_CREATED_COMMENT",
            "POST_CHILD_COMMENTS", "COMMENT_CHILD_COMMENTS"}
  BY DEF MultiEdges, DerivedIndexes
<1>2. PICK i \in DOMAIN Plan : f = Plan[i]
  BY DEF Adjacencies, Files
<1>3. DOMAIN Plan = 1..27
  BY DEF Plan
<1>4. f[1] \in {"OUT", "IN", "derived"}
  BY DEF Adjacencies
<1>5. CASE i \in 1..12
  BY <1>2, <1>4, <1>5 DEF Plan
<1>6. CASE i \in 13..20
  BY <1>1, <1>2, <1>4, <1>6 DEF Plan
<1>7. CASE i \in 21..27
  BY <1>1, <1>2, <1>4, <1>7 DEF Plan
<1>8. i \in 1..12 \/ i \in 13..20 \/ i \in 21..27
  BY <1>3
<1> QED BY <1>5, <1>6, <1>7, <1>8

\* The edges that an adjacency is written from, by the rows they are in.
EdgesOf(input, f) ==
  LET m == MultiEdges[f[2]]
      d == DerivedIndexes[f[2]]
  IN CASE f[1] = "OUT" -> BothEnds(input, m[2], m[3], m[1])
       [] f[1] = "IN" -> BothEnds(input, m[3], m[2], m[1])
       [] OTHER -> OneEnd(input, d[1], DerivedRows(input, f[2]), d[2], d[3])

RowsOf(input, f) ==
  IF f[1] = "derived" THEN DerivedRows(input, f[2])
  ELSE Rows(csv[input][MultiEdges[f[2]][1]])

\* Where the neighbors of the sources are vertices.
SourcesOf(input, f) ==
  CASE f[1] = "OUT" -> Len(csv[input][MultiEdges[f[2]][2][2]].rows)
    [] f[1] = "IN" -> Len(csv[input][MultiEdges[f[2]][3][2]].rows)
    [] OTHER -> Len(csv[input][DerivedIndexes[f[2]][3]].rows)

LEMMA AdjacencyEdges ==
  ASSUME NEW input \in Inputs, NEW f \in Adjacencies, Resolves(input, ScanFor(f))
  PROVE  /\ Adjacency(input, f) = write_csr(SourcesOf(input, f), EdgesOf(input, f))
         /\ SourcesOf(input, f) \in Nat
         /\ IsEdges(EdgesOf(input, f), RowsOf(input, f), SourcesOf(input, f))
<1> DEFINE m == MultiEdges[f[2]]
           d == DerivedIndexes[f[2]]
<1>1. /\ f = <<f[1], f[2]>>
      /\ \/ f[1] \in {"OUT", "IN"} /\ f[2] \in DOMAIN MultiEdges
         \/ f[1] = "derived" /\ f[2] \in DOMAIN DerivedIndexes
  BY PlanAdjacencies
<1>5. f[2] \notin DOMAIN SingleColumns /\ f[2] # "post_root_post"
  <2>1. DOMAIN MultiEdges = {"KNOWS", "PERSON_LIKES_POST", "PERSON_LIKES_COMMENT",
                             "FORUM_HAS_MEMBER"}
    BY DEF MultiEdges
  <2>2. DOMAIN DerivedIndexes =
          {"PERSON_CREATED_POST", "FORUM_CONTAINER_OF_POST", "PERSON_CREATED_COMMENT",
           "POST_CHILD_COMMENTS", "COMMENT_CHILD_COMMENTS"}
    BY DEF DerivedIndexes
  <2>3. DOMAIN SingleColumns =
          {"person_place", "post_creator", "post_forum", "post_place",
           "comment_creator", "comment_place", "forum_moderator",
           "organisation_place", "tag_tagclass"}
    BY DEF SingleColumns
  <2> QED BY <1>1, <2>1, <2>2, <2>3
<1>2. CASE f[1] = "OUT"
  <2>1. /\ m[1] \in CsvFiles /\ m[2][2] \in CsvFiles /\ m[3][2] \in CsvFiles
        /\ m[2] = <<m[2][1], m[2][2]>> /\ m[3] = <<m[3][1], m[3][2]>>
        /\ m[2] \in References(m[1]) /\ m[3] \in References(m[1])
        /\ m[2][1] \notin {"replyOfPost", "replyOfComment"}
        /\ m[3][1] \notin {"replyOfPost", "replyOfComment"}
    BY <1>1, <1>2, MultiNames
  <2>2. Resolves(input, m[1])
    <3>1. ScanFor(f) = m[1]
      BY <1>5, <1>2 DEF ScanFor
    <3> QED BY <3>1
  <2>3. /\ Adjacency(input, f) = write_csr(Len(csv[input][m[2][2]].rows),
                                           BothEnds(input, m[2], m[3], m[1]))
        /\ SourcesOf(input, f) = Len(csv[input][m[2][2]].rows)
        /\ EdgesOf(input, f) = BothEnds(input, m[2], m[3], m[1])
        /\ RowsOf(input, f) = Rows(csv[input][m[1]])
    BY <1>2 DEF Adjacency, bidirectional_csr, BothEnds, SourcesOf, EdgesOf, RowsOf
  <2>4. Len(csv[input][m[2][2]].rows) \in Nat
    BY <2>1, CsvAssumption
  <2> HIDE DEF m
  <2>5. IsEdges(BothEnds(input, m[2], m[3], m[1]), Rows(csv[input][m[1]]),
                Len(csv[input][m[2][2]].rows))
    <3> DEFINE a == m[2][1]
               x == m[2][2]
               b == m[3][1]
               y == m[3][2]
    <3>1. m[2] = <<a, x>> /\ m[3] = <<b, y>>
      BY <2>1
    <3>2. /\ m[1] \in CsvFiles /\ x \in CsvFiles /\ y \in CsvFiles
          /\ <<a, x>> \in References(m[1]) /\ <<b, y>> \in References(m[1])
          /\ a \notin {"replyOfPost", "replyOfComment"}
          /\ b \notin {"replyOfPost", "replyOfComment"}
      BY <2>1
    <3> HIDE DEF a, b, x
    <3>3. IsEdges(BothEnds(input, <<a, x>>, <<b, y>>, m[1]), Rows(csv[input][m[1]]),
                  Len(csv[input][x].rows))
      BY <2>2, <3>2, BothEndsFound
    <3> QED BY <3>1, <3>3 DEF x
  <2> QED BY <2>3, <2>4, <2>5
<1>3. CASE f[1] = "IN"
  <2>1. /\ m[1] \in CsvFiles /\ m[2][2] \in CsvFiles /\ m[3][2] \in CsvFiles
        /\ m[2] = <<m[2][1], m[2][2]>> /\ m[3] = <<m[3][1], m[3][2]>>
        /\ m[2] \in References(m[1]) /\ m[3] \in References(m[1])
        /\ m[2][1] \notin {"replyOfPost", "replyOfComment"}
        /\ m[3][1] \notin {"replyOfPost", "replyOfComment"}
    BY <1>1, <1>3, MultiNames
  <2>2. Resolves(input, m[1])
    <3>1. ScanFor(f) = m[1]
      BY <1>5, <1>3 DEF ScanFor
    <3> QED BY <3>1
  <2>3. /\ Adjacency(input, f) = write_csr(Len(csv[input][m[3][2]].rows),
                                           BothEnds(input, m[3], m[2], m[1]))
        /\ SourcesOf(input, f) = Len(csv[input][m[3][2]].rows)
        /\ EdgesOf(input, f) = BothEnds(input, m[3], m[2], m[1])
        /\ RowsOf(input, f) = Rows(csv[input][m[1]])
    BY <1>3 DEF Adjacency, bidirectional_csr, BothEnds, SourcesOf, EdgesOf, RowsOf
  <2>4. Len(csv[input][m[3][2]].rows) \in Nat
    BY <2>1, CsvAssumption
  <2> HIDE DEF m
  <2>5. IsEdges(BothEnds(input, m[3], m[2], m[1]), Rows(csv[input][m[1]]),
                Len(csv[input][m[3][2]].rows))
    <3> DEFINE a == m[3][1]
               x == m[3][2]
               b == m[2][1]
               y == m[2][2]
    <3>1. m[3] = <<a, x>> /\ m[2] = <<b, y>>
      BY <2>1
    <3>2. /\ m[1] \in CsvFiles /\ x \in CsvFiles /\ y \in CsvFiles
          /\ <<a, x>> \in References(m[1]) /\ <<b, y>> \in References(m[1])
          /\ a \notin {"replyOfPost", "replyOfComment"}
          /\ b \notin {"replyOfPost", "replyOfComment"}
      BY <2>1
    <3> HIDE DEF a, b, x
    <3>3. IsEdges(BothEnds(input, <<a, x>>, <<b, y>>, m[1]), Rows(csv[input][m[1]]),
                  Len(csv[input][x].rows))
      BY <2>2, <3>2, BothEndsFound
    <3> QED BY <3>1, <3>3 DEF x
  <2> QED BY <2>3, <2>4, <2>5
<1>4. CASE f[1] = "derived"
  <2>1. /\ d[1] \in CsvFiles /\ d[3] \in CsvFiles
        /\ <<d[2], d[3]>> \in References(d[1])
        /\ DerivedRows(input, f[2]) \in SUBSET Rows(csv[input][d[1]])
        /\ \A row \in DerivedRows(input, f[2]) : Names(input, d[1], row, d[2])
    BY <1>1, <1>4, DerivedNames
  <2>2. Resolves(input, d[1])
    <3>1. ScanFor(f) = d[1]
      BY <1>5, <1>4 DEF ScanFor
    <3> QED BY <3>1
  <2>3. /\ Adjacency(input, f)
             = write_csr(Len(csv[input][d[3]].rows),
                         OneEnd(input, d[1], DerivedRows(input, f[2]), d[2], d[3]))
        /\ SourcesOf(input, f) = Len(csv[input][d[3]].rows)
        /\ EdgesOf(input, f) = OneEnd(input, d[1], DerivedRows(input, f[2]), d[2], d[3])
        /\ RowsOf(input, f) = DerivedRows(input, f[2])
    BY <1>4 DEF Adjacency, derived_csr, OneEnd, SourcesOf, EdgesOf, RowsOf
  <2>4. Len(csv[input][d[3]].rows) \in Nat
    BY <2>1, CsvAssumption
  <2> HIDE DEF d
  <2>5. IsEdges(OneEnd(input, d[1], DerivedRows(input, f[2]), d[2], d[3]),
                DerivedRows(input, f[2]), Len(csv[input][d[3]].rows))
    BY <2>1, <2>2, OneEndFound
  <2> QED BY <2>3, <2>4, <2>5
<1> QED BY <1>1, <1>2, <1>3, <1>4

\* RowNeighbors are the edges of the adjacency, seen from their rows.
LEMMA RowNeighborsNamed ==
  ASSUME NEW f \in Adjacencies, NEW v
  PROVE  RowNeighbors(f, v) = Named(EdgesOf(catalog, f), RowsOf(catalog, f), v)
<1> DEFINE m == MultiEdges[f[2]]
           d == DerivedIndexes[f[2]]
           edges == EdgesOf(catalog, f)
           D == RowsOf(catalog, f)
<1>1. \/ f[1] \in {"OUT", "IN"} /\ f[2] \in DOMAIN MultiEdges
      \/ f[1] = "derived" /\ f[2] \in DOMAIN DerivedIndexes
  BY PlanAdjacencies
<1>2. CASE f[1] = "OUT"
  <2>1. /\ D = Rows(csv[catalog][m[1]])
        /\ edges = [row \in D |-> <<Target(catalog, m[1], row, m[2][1], m[2][2]),
                                    Target(catalog, m[1], row, m[3][1], m[3][2])>>]
    BY <1>2 DEF EdgesOf, RowsOf, BothEnds
  <2>2. RowNeighbors(f, v)
          = {Target(catalog, m[1], row, m[3][1], m[3][2]) :
               row \in {r \in Rows(csv[catalog][m[1]]) :
                          Target(catalog, m[1], r, m[2][1], m[2][2]) = v}}
    BY <1>2 DEF RowNeighbors
  <2> HIDE DEF m, edges, D
  <2>3. \A r \in D : /\ edges[r][1] = Target(catalog, m[1], r, m[2][1], m[2][2])
                     /\ edges[r][2] = Target(catalog, m[1], r, m[3][1], m[3][2])
    BY <2>1
  <2>4. RowNeighbors(f, v) = Named(edges, D, v)
    BY <2>1, <2>2, <2>3 DEF Named
  <2> QED BY <2>4 DEF edges, D
<1>3. CASE f[1] = "IN"
  <2>1. /\ D = Rows(csv[catalog][m[1]])
        /\ edges = [row \in D |-> <<Target(catalog, m[1], row, m[3][1], m[3][2]),
                                    Target(catalog, m[1], row, m[2][1], m[2][2])>>]
    BY <1>3 DEF EdgesOf, RowsOf, BothEnds
  <2>2. RowNeighbors(f, v)
          = {Target(catalog, m[1], row, m[2][1], m[2][2]) :
               row \in {r \in Rows(csv[catalog][m[1]]) :
                          Target(catalog, m[1], r, m[3][1], m[3][2]) = v}}
    BY <1>3 DEF RowNeighbors
  <2> HIDE DEF m, edges, D
  <2>3. \A r \in D : /\ edges[r][1] = Target(catalog, m[1], r, m[3][1], m[3][2])
                     /\ edges[r][2] = Target(catalog, m[1], r, m[2][1], m[2][2])
    BY <2>1
  <2>4. RowNeighbors(f, v) = Named(edges, D, v)
    BY <2>1, <2>2, <2>3 DEF Named
  <2> QED BY <2>4 DEF edges, D
<1>4. CASE f[1] = "derived"
  <2>1. /\ D = DerivedRows(catalog, f[2])
        /\ edges = [row \in D |-> <<Target(catalog, d[1], row, d[2], d[3]),
                                    Vertex(csv[catalog][d[1]], row)>>]
    BY <1>4 DEF EdgesOf, RowsOf, OneEnd
  <2>2. RowNeighbors(f, v)
          = {Vertex(csv[catalog][d[1]], row) :
               row \in {r \in DerivedRows(catalog, f[2]) :
                          Target(catalog, d[1], r, d[2], d[3]) = v}}
    BY <1>4 DEF RowNeighbors
  <2> HIDE DEF d, edges, D
  <2>3. \A r \in D : /\ edges[r][1] = Target(catalog, d[1], r, d[2], d[3])
                     /\ edges[r][2] = Vertex(csv[catalog][d[1]], r)
    BY <2>1
  <2>4. RowNeighbors(f, v) = Named(edges, D, v)
    BY <2>1, <2>2, <2>3 DEF Named
  <2> QED BY <2>4 DEF edges, D
<1> QED BY <1>1, <1>2, <1>3, <1>4

\* A scan of an adjacency returns what the rows say.
LEMMA AdjacencyRead ==
  ASSUME catalog \in Inputs, NEW f \in Adjacencies, Resolves(catalog, ScanFor(f)),
         NEW v \in Nat
  PROVE  /\ ToSet(csr_neighbors(Adjacency(catalog, f), v)) = RowNeighbors(f, v)
         /\ RowNeighbors(f, v) \subseteq Nat /\ IsFiniteSet(RowNeighbors(f, v))
<1> DEFINE edges == EdgesOf(catalog, f)
           D == RowsOf(catalog, f)
           n == SourcesOf(catalog, f)
           S == {j \in D : edges[j][1] = v}
           g == [i \in S |-> edges[i][2]]
<1>1. Adjacency(catalog, f) = write_csr(n, edges) /\ n \in Nat /\ IsEdges(edges, D, n)
  BY AdjacencyEdges
<1>2. RowNeighbors(f, v) = Named(edges, D, v)
  BY RowNeighborsNamed
<1> HIDE DEF edges, D, n
<1>3. ToSet(csr_neighbors(Adjacency(catalog, f), v)) = Named(edges, D, v)
  BY <1>1, EdgesRead
<1>4. S \in SUBSET D /\ IsFiniteSet(D) /\ \A i \in D : edges[i][2] \in Nat
  BY <1>1 DEF IsEdges
<1>5. Named(edges, D, v) = {g[i] : i \in S}
  BY DEF Named
<1> HIDE DEF S
<1>6. IsFiniteSet(S)
  BY <1>4, FS_Subset
<1>7. \A i \in S : g[i] \in Nat
  BY <1>4
<1> HIDE DEF g
<1>8. IsFiniteSet({g[i] : i \in S}) /\ {g[i] : i \in S} \subseteq Nat
  BY <1>6, <1>7, ImageFinite
<1> QED BY <1>2, <1>3, <1>5, <1>8

-----------------------------------------------------------------------------
(* The view.                                                               *)

\* Scans of the saved input met no unknown id, neither did those of a build
\* so far, and an open view has the adjacencies of the saved input.
Scanned ==
  /\ source # NoInput => \A i \in 1..built : Resolves(source, ScanFor(Plan[i]))
  /\ catalog \in Inputs => \A f \in Files : Resolves(catalog, ScanFor(f))

ViewInv ==
  /\ CatalogInv
  /\ FlushInv
  /\ Scanned
  /\ view # <<>> => /\ catalog \in Inputs
                    /\ view = <<[f \in Adjacencies |-> Adjacency(catalog, f)]>>

LEMMA ScannedInitial == BaseInit => Scanned
BY InputsAssumption DEF BaseInit, Scanned

LEMMA ScannedStep ==
  ASSUME CatalogInv, Scanned, [BaseNext]_baseVars
  PROVE  Scanned'
<1> USE PlanFiles, InputsAssumption
<1>1. CASE UNCHANGED baseVars
  BY <1>1 DEF Scanned, baseVars
<1>2. CASE BuildStart
  <2>1. catalog' = catalog /\ built' = 0
    BY <1>2 DEF BuildStart
  <2>2. \A i \in 1..built' : FALSE
    BY <2>1
  <2> QED BY <2>1, <2>2 DEF Scanned
<1>3. CASE BuildFile
  <2>1. /\ source # NoInput /\ source' = source /\ built' = built + 1
        /\ catalog' = catalog /\ Resolves(source, ScanFor(Plan[built + 1]))
    BY <1>3 DEF BuildFile
  <2>2. built \in Nat
    BY DEF CatalogInv
  <2>3. \A i \in 1..built' : i \in 1..built \/ i = built + 1
    BY <2>1, <2>2
  <2> QED BY <2>1, <2>3 DEF Scanned
<1>4. CASE BuildError
  BY <1>4 DEF BuildError, Scanned
<1>5. CASE BuildKilled
  <2>1. source' = NoInput /\ (catalog' = catalog \/ catalog' = Torn)
    BY <1>5 DEF BuildKilled
  <2> QED BY <2>1 DEF Scanned
<1>6. CASE SaveCatalog
  <2>1. source # NoInput /\ built = Len(Plan) /\ catalog' = source /\ source' = NoInput
    BY <1>6 DEF SaveCatalog
  <2>2. \A f \in Files : Resolves(source, ScanFor(f))
    BY <2>1 DEF Scanned
  <2> QED BY <2>1, <2>2 DEF Scanned
<1> QED BY <1>1, <1>2, <1>3, <1>4, <1>5, <1>6 DEF BaseNext

LEMMA ViewInitial == ViewInit => ViewInv
BY FlushInitial, CatalogInitial, ScannedInitial DEF ViewInit, ViewInv

LEMMA ViewStep ==
  ASSUME ViewInv, [ViewNext]_viewVars
  PROVE  ViewInv'
<1>1. CASE Build
  <2>1. view = <<>> /\ view' = view /\ BaseNext /\ UNCHANGED vars
    BY <1>1 DEF Build
  <2>2. [BaseNext]_baseVars /\ [Next]_vars
    BY <2>1
  <2>3. CatalogInv' /\ Scanned' /\ FlushInv'
    BY <2>2, CatalogStep, ScannedStep, FlushStep DEF ViewInv
  <2> QED BY <2>1, <2>3 DEF ViewInv
<1>2. CASE Open
  <2>1. /\ catalog \in Inputs /\ ~interrupted /\ UNCHANGED vars
        /\ view' = <<[f \in Adjacencies |-> Adjacency(base_files[f], f)]>>
        /\ UNCHANGED <<base_files, catalog, source, built, interrupted>>
    BY <1>2 DEF Open
  <2>2. [Next]_vars
    BY <2>1
  <2>3. FlushInv'
    BY <2>2, FlushStep DEF ViewInv
  <2>4. CatalogInv' /\ Scanned'
    BY <2>1 DEF ViewInv, CatalogInv, CatalogWhole, Scanned
  <2>5. \A f \in Adjacencies : base_files[f] = catalog
    BY <2>1 DEF ViewInv, CatalogInv, CatalogWhole, Adjacencies
  <2>6. [f \in Adjacencies |-> Adjacency(base_files[f], f)]
          = [f \in Adjacencies |-> Adjacency(catalog, f)]
    BY <2>5
  <2> QED BY <2>1, <2>3, <2>4, <2>6 DEF ViewInv
<1>3. CASE Delta
  <2>1. view' = view /\ UNCHANGED baseVars /\ [Next]_vars
    BY <1>3 DEF Delta
  <2>2. [BaseNext]_baseVars /\ catalog' = catalog
    BY <2>1 DEF baseVars
  <2>3. CatalogInv' /\ Scanned' /\ FlushInv'
    BY <2>1, <2>2, CatalogStep, ScannedStep, FlushStep DEF ViewInv
  <2> QED BY <2>1, <2>2, <2>3 DEF ViewInv
<1>4. CASE UNCHANGED viewVars
  <2>1. view' = view /\ [BaseNext]_baseVars /\ [Next]_vars /\ catalog' = catalog
    BY <1>4 DEF viewVars, baseVars
  <2>2. CatalogInv' /\ Scanned' /\ FlushInv'
    BY <2>1, CatalogStep, ScannedStep, FlushStep DEF ViewInv
  <2> QED BY <2>1, <2>2 DEF ViewInv
<1> QED BY <1>1, <1>2, <1>3, <1>4 DEF ViewNext

\* The delta merges the records of a source, wherever they are.
LEMMA DeltaRead ==
  ASSUME FlushInv, NEW s \in Sources, NEW t, NEW snapshot
  PROVE  delta_get_neighbors(s, t, snapshot)
           = merge_visible(Typed({e \in inserted : e.key.src = s}, t), snapshot)
<1>1. get_edges_for_src(s) = {e \in inserted : e.key.src = s}
  BY ContentsFollow DEF FlushInv, ContentsExact
<1>2. CASE phase = "flushed"
  BY <1>1, <1>2, FlushedRead DEF delta_get_neighbors
<1>3. CASE phase # "flushed"
  BY <1>1, <1>3 DEF delta_get_neighbors
<1> QED BY <1>2, <1>3

\* The part of ViewExact that the delta answers.
Seen(k, snapshot) == {e \in inserted : e.key = k /\ e.ts <= snapshot}

Alive(k, snapshot) ==
  \E e \in Seen(k, snapshot) : /\ e.marker = "Insert"
                               /\ \A o \in Seen(k, snapshot) : o.ts <= e.ts

DeltaNeighbors(call, snapshot) ==
  {k.dst : k \in {l \in Keys : /\ l.src = call.delta_src
                               /\ call.edge_type \in {NoEdgeType, {l.edge_type}}
                               /\ Alive(l, snapshot)}}

DeltaFound(call, snapshot) ==
  {e.key.dst : e \in delta_get_neighbors(call.delta_src, call.edge_type, snapshot)}

LEMMA DeltaExact ==
  ASSUME FlushInv, NEW call \in Calls, NEW snapshot
  PROVE  /\ DeltaFound(call, snapshot) = DeltaNeighbors(call, snapshot)
         /\ DeltaFound(call, snapshot) \subseteq Nat
         /\ IsFiniteSet(DeltaFound(call, snapshot))
<1> DEFINE s == call.delta_src
           t == call.edge_type
           U == Typed({e \in inserted : e.key.src = s}, t)
           M == merge_visible(U, snapshot)
<1>1. s \in Sources /\ \A x, y \in t : x = y
  BY CallsAssumption DEF IsOption
<1>2. inserted \in SUBSET EdgeRecord /\ IsFiniteSet(inserted)
  BY DEF FlushInv, MemInv, MemTypeOK
<1>3. delta_get_neighbors(s, t, snapshot) = M
  BY <1>1, DeltaRead
<1> HIDE DEF s, t
<1>4. \A e \in inserted : /\ e.key \in Keys /\ e.key.dst \in Nat
                          /\ e \in U <=> /\ e.key.src = s
                                         /\ t \in {NoEdgeType, {e.key.edge_type}}
  <2> SUFFICES ASSUME NEW e \in inserted
               PROVE  /\ e.key \in Keys /\ e.key.dst \in Nat
                      /\ e \in U <=> /\ e.key.src = s
                                     /\ t \in {NoEdgeType, {e.key.edge_type}}
    OBVIOUS
  <2>1. e.key \in Keys /\ e.key.dst \in Nat
    BY <1>2, KeysAssumption DEF EdgeRecord
  <2>2. t = NoEdgeType \/ e.key.edge_type \in t <=> t \in {NoEdgeType, {e.key.edge_type}}
    <3>1. e.key.edge_type \in t => t = {e.key.edge_type}
      BY <1>1
    <3> QED BY <3>1
  <2> QED BY <2>1, <2>2 DEF Typed
<1>5. U \in SUBSET inserted
  BY DEF Typed
<1> HIDE DEF U
<1>6. M = {e \in U : /\ e.ts <= snapshot /\ e.marker = "Insert"
                     /\ \A o \in U : o.ts <= snapshot /\ o.key = e.key => o.ts <= e.ts}
  BY DEF merge_visible, merge_latest_records
<1> HIDE DEF M
<1>7. ASSUME NEW e \in M
      PROVE  /\ e.key \in Keys /\ e.key.src = s /\ t \in {NoEdgeType, {e.key.edge_type}}
             /\ Alive(e.key, snapshot)
  <2>1. e \in inserted /\ e \in U /\ e.ts <= snapshot /\ e.marker = "Insert"
    BY <1>5, <1>6
  <2>2. e.key \in Keys /\ e.key.src = s /\ t \in {NoEdgeType, {e.key.edge_type}}
    BY <1>4, <2>1
  <2>3. \A o \in Seen(e.key, snapshot) : o \in U /\ o.ts <= snapshot /\ o.key = e.key
    BY <1>4, <2>2 DEF Seen
  <2>4. \A o \in Seen(e.key, snapshot) : o.ts <= e.ts
    BY <1>6, <2>3
  <2>5. e \in Seen(e.key, snapshot)
    BY <2>1 DEF Seen
  <2> QED BY <2>1, <2>2, <2>4, <2>5 DEF Alive
<1>8. ASSUME NEW k \in Keys, k.src = s, t \in {NoEdgeType, {k.edge_type}},
             Alive(k, snapshot)
      PROVE  \E e \in M : e.key = k
  <2>1. PICK e \in Seen(k, snapshot) : /\ e.marker = "Insert"
                                       /\ \A o \in Seen(k, snapshot) : o.ts <= e.ts
    BY <1>8 DEF Alive
  <2>2. e \in inserted /\ e.key = k /\ e.ts <= snapshot
    BY DEF Seen
  <2>3. e \in U
    BY <1>4, <1>8, <2>2
  <2>4. \A o \in U : o.ts <= snapshot /\ o.key = e.key => o \in Seen(k, snapshot)
    BY <1>5, <2>2 DEF Seen
  <2>5. e \in M
    BY <1>6, <2>1, <2>2, <2>3, <2>4
  <2> QED BY <2>2, <2>5
<1>9. DeltaFound(call, snapshot) = {e.key.dst : e \in M}
  BY <1>3 DEF DeltaFound, s, t
<1>10. DeltaNeighbors(call, snapshot)
         = {k.dst : k \in {l \in Keys : /\ l.src = s /\ t \in {NoEdgeType, {l.edge_type}}
                                        /\ Alive(l, snapshot)}}
  BY DEF DeltaNeighbors, s, t
<1>11. {e.key.dst : e \in M} = DeltaNeighbors(call, snapshot)
  <2>1. ASSUME NEW x \in DeltaNeighbors(call, snapshot)
        PROVE  x \in {e.key.dst : e \in M}
    <3>1. PICK k \in Keys : /\ x = k.dst /\ k.src = s /\ t \in {NoEdgeType, {k.edge_type}}
                            /\ Alive(k, snapshot)
      BY <1>10
    <3>2. PICK e \in M : e.key = k
      BY <1>8, <3>1
    <3> QED BY <3>1, <3>2
  <2>2. ASSUME NEW x \in {e.key.dst : e \in M}
        PROVE  x \in DeltaNeighbors(call, snapshot)
    <3>1. PICK e \in M : x = e.key.dst
      BY <2>2
    <3> QED BY <1>7, <1>10, <3>1
  <2> QED BY <2>1, <2>2
<1>12. /\ \A e \in M : e.key.dst \in Nat
       /\ IsFiniteSet({e.key.dst : e \in M})
  <2>1. M \in SUBSET inserted
    BY <1>5, <1>6
  <2>2. IsFiniteSet(M)
    BY <1>2, <2>1, FS_Subset
  <2> DEFINE g == [e \in M |-> e.key.dst]
  <2>3. {e.key.dst : e \in M} = {g[e] : e \in M}
    OBVIOUS
  <2> HIDE DEF g
  <2>4. IsFiniteSet({g[e] : e \in M})
    BY <2>2, ImageFinite
  <2> QED BY <1>4, <2>1, <2>3, <2>4
<1> QED BY <1>9, <1>11, <1>12

\* The part of ViewExact that the base answers.
BaseNeighbors(call) ==
  UNION {RowNeighbors(f, v) : f \in call.csr, v \in call.base_src}

LEMMA BaseExact ==
  ASSUME ViewInv, view # <<>>, NEW call \in Calls
  PROVE  /\ scan_base(call.csr, call.base_src) = BaseNeighbors(call)
         /\ BaseNeighbors(call) \subseteq Nat /\ IsFiniteSet(BaseNeighbors(call))
<1>1. /\ \A f, g \in call.csr : f = g
      /\ call.csr \subseteq Adjacencies
      /\ \A v, w \in call.base_src : v = w
      /\ call.base_src \subseteq Nat
  BY CallsAssumption DEF IsOption
<1>2. /\ catalog \in Inputs
      /\ view = <<[f \in Adjacencies |-> Adjacency(catalog, f)]>>
      /\ \A f \in Adjacencies : Resolves(catalog, ScanFor(f))
  BY DEF ViewInv, Scanned, Adjacencies
<1>3. ASSUME NEW f \in call.csr, NEW v \in call.base_src
      PROVE  /\ ToSet(csr_neighbors(view[1][f], v)) = RowNeighbors(f, v)
             /\ RowNeighbors(f, v) \subseteq Nat /\ IsFiniteSet(RowNeighbors(f, v))
  <2>1. f \in Adjacencies /\ v \in Nat
    BY <1>1
  <2>2. view[1][f] = Adjacency(catalog, f)
    BY <1>2, <2>1
  <2> QED BY <1>2, <2>1, <2>2, AdjacencyRead
<1>4. scan_base(call.csr, call.base_src) = BaseNeighbors(call)
  BY <1>3 DEF scan_base, BaseNeighbors
<1>5. CASE call.csr = {} \/ call.base_src = {}
  <2>1. BaseNeighbors(call) = {}
    BY <1>5 DEF BaseNeighbors
  <2> QED BY <1>4, <2>1, FS_EmptySet
<1>6. CASE call.csr # {} /\ call.base_src # {}
  <2>1. PICK f \in call.csr : TRUE
    BY <1>6
  <2>2. PICK v \in call.base_src : TRUE
    BY <1>6
  <2>3. BaseNeighbors(call) = RowNeighbors(f, v)
    BY <1>1 DEF BaseNeighbors
  <2> QED BY <1>3, <1>4, <2>3
<1> QED BY <1>4, <1>5, <1>6

LEMMA ViewFollows == ViewInv => ViewExact
<1> SUFFICES ASSUME ViewInv, view # <<>>, NEW call \in Calls, NEW snapshot
             PROVE  /\ ToSet(neighbors_vec(call, snapshot))
                         = BaseNeighbors(call) \cup DeltaNeighbors(call, snapshot)
                    /\ Len(neighbors_vec(call, snapshot))
                         = Cardinality(ToSet(neighbors_vec(call, snapshot)))
  BY DEF ViewExact, BaseNeighbors, DeltaNeighbors, Alive, Seen
<1> DEFINE S == scan_base(call.csr, call.base_src) \cup DeltaFound(call, snapshot)
<1>1. S = BaseNeighbors(call) \cup DeltaNeighbors(call, snapshot)
  BY BaseExact, DeltaExact DEF ViewInv
<1>2. S \in SUBSET Nat /\ IsFiniteSet(S)
  <2>1. /\ scan_base(call.csr, call.base_src) \subseteq Nat
        /\ IsFiniteSet(scan_base(call.csr, call.base_src))
    BY BaseExact
  <2>2. DeltaFound(call, snapshot) \subseteq Nat /\ IsFiniteSet(DeltaFound(call, snapshot))
    BY DeltaExact DEF ViewInv
  <2> QED BY <2>1, <2>2, FS_Union
<1>3. neighbors_vec(call, snapshot) = Ascending(S)
  BY DEF neighbors_vec, Ascending, DeltaFound
<1> HIDE DEF S
<1>4. Len(Ascending(S)) = Cardinality(S) /\ ToSet(Ascending(S)) = S
  BY <1>2, NumbersSorted
<1> QED BY <1>1, <1>3, <1>4

\* A read through an open view returns the neighbors of the base and of the
\* delta, sorted and each once, across the chunks of the one, the flush of the
\* other and the builds before it, for every input that can be built.
THEOREM ViewCorrect == ViewSpec => []ViewExact
BY ViewInitial, ViewStep, ViewFollows, PTL DEF ViewSpec

=============================================================================
