------------------------------ MODULE MemGraph ------------------------------
(***************************************************************************)
(* One memgraph (src/memgraph/mod.rs), which LsmEngine takes for the set   *)
(* of the records inserted into it.  The records of a source start in an   *)
(* inline segment; the one that finds the segment full moves them all to   *)
(* an ordered tree, where the later ones go too.  Every operation runs     *)
(* under the memgraph's mutex and is one step.                             *)
(***************************************************************************)
EXTENDS EdgeRecords, Sequences

CONSTANTS
  inline_segment_capacity,  \* records that fit into an inline segment
  MaxEdges                  \* bound: records inserted

ASSUME MemGraphAssumption ==
  inline_segment_capacity \in Nat /\ MaxEdges \in Nat

Sources == {k.src : k \in Keys}

\* AdjRef, or Absent for a source that vertex_map does not have.
Absent == [kind |-> "Absent", segment_id |-> 0]
Inline(i) == [kind |-> "Inline", segment_id |-> i]
Overflow == [kind |-> "Overflow", segment_id |-> 0]

VARIABLES
  vertex_map,           \* source -> AdjRef
  low_degree_segments,  \* the inline segments, numbered from 1
  high_degree,          \* source -> its tree, as the set of its values
  edge_count,
  inserted              \* the records inserted so far

memVars == <<vertex_map, low_degree_segments, high_degree, edge_count, inserted>>

\* Trees are keyed by type, destination and timestamp: a record with the key
\* of another one replaces it.
TreeKey(e) == <<e.key.edge_type, e.key.dst, e.ts>>

TreeInsert(tree, e) == {o \in tree : TreeKey(o) # TreeKey(e)} \cup {e}

Values(segment) == {segment[i] : i \in DOMAIN segment}

\* The tree after inserting the records of a segment one after the other.
TreeInsertAll(tree, segment) ==
  {o \in tree : \A e \in Values(segment) : TreeKey(o) # TreeKey(e)}
    \cup {segment[i] : i \in {j \in DOMAIN segment :
            \A k \in DOMAIN segment :
              k > j => TreeKey(segment[k]) # TreeKey(segment[j])}}

-----------------------------------------------------------------------------

MemInit ==
  /\ vertex_map = [s \in Sources |-> Absent]
  /\ low_degree_segments = <<>>
  /\ high_degree = [s \in Sources |-> {}]
  /\ edge_count = 0
  /\ inserted = {}

\* Callers bring records with timestamps of their own, in any order.
Inserting(e) ==
  /\ edge_count < MaxEdges
  /\ \A o \in inserted : o.ts # e.ts
  /\ edge_count' = edge_count + 1
  /\ inserted' = inserted \cup {e}

\* The first record of a source opens a new inline segment.
InsertFirst(e) ==
  /\ Inserting(e)
  /\ vertex_map[e.key.src] = Absent
  /\ low_degree_segments' = Append(low_degree_segments, <<e>>)
  /\ vertex_map' = [vertex_map EXCEPT
                      ![e.key.src] = Inline(Len(low_degree_segments) + 1)]
  /\ UNCHANGED high_degree

InsertInline(e) ==
  LET i == vertex_map[e.key.src].segment_id
  IN /\ Inserting(e)
     /\ vertex_map[e.key.src].kind = "Inline"
     /\ Len(low_degree_segments[i]) < inline_segment_capacity
     /\ low_degree_segments' = [low_degree_segments EXCEPT ![i] = Append(@, e)]
     /\ UNCHANGED <<vertex_map, high_degree>>

\* Slip: the inline segment is copied instead of taken.
InsertSpillCopies(e) ==
  LET i == vertex_map[e.key.src].segment_id
  IN /\ Inserting(e)
     /\ vertex_map[e.key.src].kind = "Inline"
     /\ Len(low_degree_segments[i]) >= inline_segment_capacity
     /\ high_degree' = [high_degree EXCEPT ![e.key.src] =
          TreeInsert(TreeInsertAll(@, low_degree_segments[i]), e)]
     /\ vertex_map' = [vertex_map EXCEPT ![e.key.src] = Overflow]
     /\ UNCHANGED low_degree_segments

\* The segment is full: its records and the new one go to the tree, and the
\* segment stays behind, empty.
InsertSpill(e) ==
  LET i == vertex_map[e.key.src].segment_id
  IN /\ Inserting(e)
     /\ vertex_map[e.key.src].kind = "Inline"
     /\ Len(low_degree_segments[i]) >= inline_segment_capacity
     /\ low_degree_segments' = [low_degree_segments EXCEPT ![i] = <<>>]
     /\ high_degree' = [high_degree EXCEPT ![e.key.src] =
          TreeInsert(TreeInsertAll(@, low_degree_segments[i]), e)]
     /\ vertex_map' = [vertex_map EXCEPT ![e.key.src] = Overflow]

InsertOverflow(e) ==
  /\ Inserting(e)
  /\ vertex_map[e.key.src].kind = "Overflow"
  /\ high_degree' = [high_degree EXCEPT ![e.key.src] = TreeInsert(@, e)]
  /\ UNCHANGED <<vertex_map, low_degree_segments>>

Insert ==
  \E e \in EdgeRecord :
    InsertFirst(e) \/ InsertInline(e) \/ InsertSpill(e) \/ InsertOverflow(e)

MemSpec == MemInit /\ [][Insert]_memVars

-----------------------------------------------------------------------------
(* Reads.                                                                  *)

get_edges_for_src(s) ==
  CASE vertex_map[s].kind = "Absent" -> {}
    [] vertex_map[s].kind = "Inline" ->
         Values(low_degree_segments[vertex_map[s].segment_id])
    [] OTHER -> high_degree[s]

\* all_edges_sorted walks all segments and all trees.
all_edges_sorted ==
  (UNION {Values(low_degree_segments[i]) : i \in DOMAIN low_degree_segments})
    \cup (UNION {high_degree[s] : s \in Sources})

-----------------------------------------------------------------------------
(* Properties.                                                             *)

\* No record is in two places, or twice in one.
HeldOnce ==
  \A i \in DOMAIN low_degree_segments :
    \A k \in DOMAIN low_degree_segments[i] :
      LET e == low_degree_segments[i][k]
      IN /\ vertex_map[e.key.src] = Inline(i)
         /\ \A l \in DOMAIN low_degree_segments[i] :
              low_degree_segments[i][l] = e => l = k
         /\ \A s \in Sources : e \notin high_degree[s]

\* Both ways of reading a memgraph, by source and all of it, return exactly
\* what was inserted, each record once, before, at and after the move to the
\* tree; and is_empty (edge_count = 0) holds only of a memgraph with nothing
\* to flush.
ContentsExact ==
  /\ \A s \in Sources :
       get_edges_for_src(s) = {e \in inserted : e.key.src = s}
  /\ all_edges_sorted = inserted
  /\ edge_count = Cardinality(inserted)
  /\ HeldOnce

=============================================================================
