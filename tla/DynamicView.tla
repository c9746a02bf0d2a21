---------------------------- MODULE DynamicView -----------------------------
(***************************************************************************)
(* DynamicGraphView (src/dynamic_view/mod.rs): one view over a read-only   *)
(* base graph and a delta, a storage engine of its own below the same      *)
(* directory (src/delta/mod.rs).  The delta is the memgraph of FlushPath   *)
(* and the segments it is flushed to.  A base is built before the view is  *)
(* opened; the view reads the offsets of its adjacencies once.             *)
(***************************************************************************)
EXTENDS FlushPath, BaseTopology

CONSTANTS
  Calls  \* bound: reads [csr, base_src, delta_src, edge_type] that are checked

\* Option: a set of at most one element.
IsOption(S) == \A x, y \in S : x = y

ASSUME CallsAssumption ==
  \A call \in Calls :
    /\ IsOption(call.csr) /\ call.csr \subseteq Adjacencies
    /\ IsOption(call.base_src) /\ call.base_src \subseteq Nat
    /\ call.delta_src \in Sources
    /\ IsOption(call.edge_type)

VARIABLES
  view  \* empty, or the adjacencies of the opened base

viewVars == <<vars, baseVars, view>>

ViewInit == Init /\ BaseInit /\ view = <<>>

\* BaseGraph::open fails at a catalog that is cut short.  Only a base that no
\* interrupted build has touched is opened here, and no build follows.
Open ==
  /\ view = <<>>
  /\ source = NoInput
  /\ catalog \in Inputs
  /\ ~interrupted
  /\ view' = <<[f \in Adjacencies |-> Adjacency(base_files[f], f)]>>
  /\ builds_left' = 0
  /\ UNCHANGED <<vars, base_files, catalog, source, built, interrupted>>

Build == view = <<>> /\ BaseNext /\ UNCHANGED <<vars, view>>

Delta == view # <<>> /\ Next /\ UNCHANGED <<baseVars, view>>

ViewNext == Build \/ Open \/ Delta

ViewSpec == ViewInit /\ [][ViewNext]_viewVars

-----------------------------------------------------------------------------
(* Reads.                                                                  *)

\* DeltaGraph::get_neighbors: the frozen memgraph until it is on disk.
delta_get_neighbors(src, edge_type, snapshot) ==
  merge_visible(IF phase = "flushed" THEN SegmentRecords(src, edge_type)
                ELSE Typed(get_edges_for_src(src), edge_type), snapshot)

\* Without a name or a source, an empty set, only the delta is read.
scan_base(csr, base_src) ==
  UNION {ToSet(csr_neighbors(view[1][f], v)) : f \in csr, v \in base_src}

\* neighbors_vec: the neighbors of both in one list, sorted, each once.
neighbors_vec(call, snapshot) ==
  SortedSet(scan_base(call.csr, call.base_src)
      \cup {e.key.dst : e \in delta_get_neighbors(call.delta_src, call.edge_type,
                                                  snapshot)},
      LAMBDA a, b : a < b)

-----------------------------------------------------------------------------
(* Properties.                                                             *)

\* What the rows of the input say about an adjacency.
RowNeighbors(file, v) ==
  LET m == MultiEdges[file[2]]
      from == IF file[1] = "OUT" THEN m[2] ELSE m[3]
      to == IF file[1] = "OUT" THEN m[3] ELSE m[2]
      d == DerivedIndexes[file[2]]
  IN IF file[1] = "derived"
     THEN {Vertex(csv[catalog][d[1]], row) :
             row \in {r \in DerivedRows(catalog, file[2]) :
                        Target(catalog, d[1], r, d[2], d[3]) = v}}
     ELSE {Target(catalog, m[1], row, to[1], to[2]) :
             row \in {r \in Rows(csv[catalog][m[1]]) :
                        Target(catalog, m[1], r, from[1], from[2]) = v}}

\* A read through the view returns the neighbors in the rows of the base and
\* those whose newest visible record in the delta is an insert, across the
\* chunks of the one and the flush of the other.  A delete in the delta hides
\* no edge of the base.
ViewExact ==
  view # <<>> =>
    \A call \in Calls, snapshot \in {MaxTs \div 2, MaxTs} :
      LET seen(k) == {e \in inserted : e.key = k /\ e.ts <= snapshot}
          alive(k) == \E e \in seen(k) :
                        /\ e.marker = "Insert"
                        /\ \A o \in seen(k) : o.ts <= e.ts
          result == neighbors_vec(call, snapshot)
      IN /\ ToSet(result) =
              (UNION {RowNeighbors(f, v) : f \in call.csr, v \in call.base_src})
                \cup {k.dst : k \in {l \in Keys :
                        /\ l.src = call.delta_src
                        /\ call.edge_type \in {NoEdgeType, {l.edge_type}}
                        /\ alive(l)}}
         /\ Len(result) = Cardinality(ToSet(result))

=============================================================================
