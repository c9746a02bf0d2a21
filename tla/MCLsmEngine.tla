---------------------------- MODULE MCLsmEngine ----------------------------
(* Small instances of LsmEngine for TLC. *)
EXTENDS LsmEngine, TLC

\* Callers are interchangeable.
Symmetry == Permutations(Callers)

\* Two edges of one type whose sources carry different labels, and a third
\* of the reverse type that shares the first source.
EdgeA == [src |-> 2, edge_type |-> 1, dst |-> 1]
EdgeB == [src |-> 4, edge_type |-> 1, dst |-> 1]
EdgeC == [src |-> 2, edge_type |-> -1, dst |-> 1]

OneKey == {EdgeA}
TwoKeys == {EdgeA, EdgeB}
ThreeKeys == {EdgeA, EdgeB, EdgeC}

PartitionTarget == [src_label |-> 1, edge_type |-> NoEdgeType,
                    bounded |-> FALSE, min_src |-> 0, max_src |-> 0]
RangeTarget == [src_label |-> 0, edge_type |-> {1},
                bounded |-> TRUE, min_src |-> 3, max_src |-> 5]

NoTargets == {}
SomeTargets == {PartitionTarget, RangeTarget}

=============================================================================
