----------------------------- MODULE MCL0Reads ------------------------------
(***************************************************************************)
(* A small instance of L0Reads for TLC: three L0 segments for two cache    *)
(* entries, one of them with enough sources for a larger filter.  Sources  *)
(* 1 to 3 have no label.  Source 6 is in none of the small segments, and   *)
(* its bits are those of sources 4 and 5 together: a false positive.       *)
(***************************************************************************)
EXTENDS L0Reads, TLC

ReaderSymmetry == Permutations(Readers)

SomeKeys ==
  {[src |-> s, edge_type |-> t, dst |-> 1] : s \in 1..9, t \in {1, 2}}

Edges(sources, types) ==
  {[key |-> k, ts |-> 1, marker |-> "Insert"] :
     k \in {x \in SomeKeys : x.src \in sources /\ x.edge_type \in types}}

SomeEdges ==
  [f1 |-> Edges({4, 5, 9}, {1}),
   f2 |-> Edges({2, 3, 4, 5, 7}, {1, 2}),
   f3 |-> Edges({3}, {2})]

SomeFiles == DOMAIN SomeEdges

SomeOffsets == [f \in SomeFiles |-> {e.key.src : e \in SomeEdges[f]}]

SomeHashes == [s \in 1..9 |->
  CASE s = 4 -> {1, 12, 70}
    [] s = 5 -> {3, 9, 100}
    [] s = 3 -> {5, 17, 80}
    [] s = 6 -> {1, 9, 36}
    [] OTHER -> {s, s + 64, 3 * s}]

SomeL0 == <<"f1", "f2", "f3">>

SomeBounds == <<1, 5, 1000>>

SomeMib == [f \in SomeFiles |-> 1]

SomeQueries ==
  {[src |-> 6, edge_type |-> {1}], [src |-> 3, edge_type |-> NoEdgeType]}

=============================================================================
