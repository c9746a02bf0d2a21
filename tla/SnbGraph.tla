------------------------------ MODULE SnbGraph ------------------------------
(***************************************************************************)
(* The graph that an SNB server has in memory (SnbGraph in src/snb/        *)
(* props.rs): vertices, properties of edges, and for every vertex and edge *)
(* type the list of its neighbors.                                         *)
(***************************************************************************)
EXTENDS SnbSchema, Sorting

NoGraph == [vertices |-> {}, edge_props |-> <<>>, adjacency |-> <<>>]

EdgesIn(adjacency) ==
  UNION {{Key(g[1], g[2], adjacency[g][i]) : i \in DOMAIN adjacency[g]} :
           g \in DOMAIN adjacency}

Record(key, ts) == [key |-> key, ts |-> ts, marker |-> "Insert"]

\* AdjacencyBuilder::build: the newest record of every edge, and in every
\* group the newest neighbor first.
build(records) ==
  LET newest == {e \in records :
                   \A o \in records : o.key = e.key => o.ts <= e.ts}
      group(e) == <<e.key.src, e.key.edge_type>>
  IN [g \in {group(e) : e \in newest} |->
        LET list == SortedSet({e \in newest : group(e) = g},
                              LAMBDA a, b :
                                \/ a.ts > b.ts
                                \/ a.ts = b.ts /\ a.key.dst < b.key.dst)
        IN [i \in DOMAIN list |-> list[i].key.dst]]

\* The last row of an edge counts.
WithProps(props, rows) ==
  LET of(k) == {i \in DOMAIN rows : rows[i].key = k}
  IN [k \in DOMAIN props \cup {rows[i].key : i \in DOMAIN rows} |->
        IF of(k) = {} THEN props[k] ELSE rows[Max(of(k))].prop]

PropRows(writes) ==
  ForEach(writes, LAMBDA w : IF w.prop = EmptyProp THEN <<>> ELSE <<w>>)

Neighbors(graph, vid, edge_type) ==
  IF <<vid, edge_type>> \in DOMAIN graph.adjacency
    THEN graph.adjacency[<<vid, edge_type>>] ELSE <<>>

out_neighbors_cached(graph, vid, edge_label) == Neighbors(graph, vid, edge_label)

in_neighbors_cached(graph, vid, edge_label) == Neighbors(graph, vid, -edge_label)

insert_edge_by_type(graph, write) ==
  LET group == <<write.key.src, write.key.edge_type>>
      dsts == Neighbors(graph, write.key.src, write.key.edge_type)
      added == IF write.key.dst \in ToSet(dsts) THEN dsts
               ELSE Append(dsts, write.key.dst)
  IN [graph EXCEPT
        !.adjacency = [g \in DOMAIN @ \cup {group} |-> IF g = group THEN added ELSE @[g]],
        !.edge_props = WithProps(@, PropRows(<<write>>))]

\* A missing property counts as 0, a present one is a single number.
edge_prop_by_type(graph, src, edge_type, dst) ==
  LET key == Key(src, edge_type, dst)
  IN IF key \in DOMAIN graph.edge_props
       THEN CHOOSE value \in graph.edge_props[key] : TRUE ELSE 0

\* One request to the server, under its write lock.
Updated(graph, u) ==
  FoldLeft(insert_edge_by_type,
           [graph EXCEPT !.vertices = @ \cup ToSet(AddedVertex(u))],
           run_dgs_http_update(u))

\* The vertex of a label with an external id, and whether it is there.
vertex_label(graph, vid) == IF vid \in graph.vertices THEN vid \div LabelSpan ELSE NoId
IsA(graph, vid, label) == vertex_label(graph, vid) = label
external_id(vid) == vid % LabelSpan

=============================================================================
