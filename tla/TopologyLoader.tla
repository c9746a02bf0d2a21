--------------------------- MODULE TopologyLoader ---------------------------
(***************************************************************************)
(* import_snb_topology (src/loader/snb.rs): one pass per relation over the *)
(* CSV files, every pass a loop of insert_edge calls with raw external ids *)
(* and a type; and validate_person_knows, which compares the neighbors in  *)
(* the store with the rows of the knows file.                              *)
(***************************************************************************)
EXTENDS SnbCsv

\* The passes in their order.  A pass by position takes the first two cells
\* of a row, a pass by name the columns with the names.
ByPosition(file, type) == [file |-> file, type |-> type, named |-> FALSE]

ByName(file, src, dst, type) ==
  [file |-> file, type |-> type, named |-> TRUE, src |-> src, dst |-> dst]

Passes ==
  <<ByPosition("knows", "Knows"),
    ByPosition("likes_comment", "LikesComment"),
    ByPosition("likes_post", "LikesPost"),
    ByPosition("has_interest", "HasInterest"),
    ByPosition("study_at", "StudyAt"),
    ByPosition("work_at", "WorkAt"),
    ByPosition("has_member", "HasMember"),
    ByPosition("forum_tag", "HasTag"),
    ByPosition("comment_tag", "HasTag"),
    ByPosition("post_tag", "HasTag"),
    ByName("person", "id", "place", "IsLocatedIn"),
    ByName("forum", "id", "moderator", "HasModerator"),
    ByName("post", "id", "creator", "HasCreator"),
    ByName("post", "Forum.id", "id", "ContainerOf"),
    ByName("post", "id", "place", "IsLocatedIn"),
    ByName("comment", "id", "creator", "HasCreator"),
    ByName("comment", "id", "place", "IsLocatedIn"),
    ByName("comment", "id", "replyOfPost", "ReplyOfPost"),
    ByName("comment", "id", "replyOfComment", "ReplyOfComment"),
    ByName("organisation", "id", "place", "IsLocatedIn"),
    ByName("place", "id", "isPartOf", "IsPartOf"),
    ByName("tag", "id", "hasType", "HasType"),
    ByName("tagclass", "id", "isSubclassOf", "IsSubclassOf")>>

\* Only the rows of the knows file are inserted in both directions.
import_index_edge_file(input, pass) ==
  LET rows == csv[input][pass.file].rows
      edge(a, b) == [src |-> a, edge_type |-> pass.type, dst |-> b]
  IN FlattenSeq([r \in DOMAIN rows |->
       <<edge(rows[r][1], rows[r][2])>>
         \o IF pass.type = "Knows" THEN <<edge(rows[r][2], rows[r][1])>>
            ELSE <<>>])

\* A row with an empty cell is skipped.
import_named_edge_file(input, pass) ==
  LET table == csv[input][pass.file]
      edge(row) == [src |-> Cell(table, row, pass.src), edge_type |-> pass.type,
                    dst |-> Cell(table, row, pass.dst)]
  IN SelectSeq([row \in Rows(table) |-> edge(row)],
               LAMBDA e : e.src # Empty /\ e.dst # Empty)

\* The edges that a pass inserts, in order.
PassInserts(input, pass) ==
  IF pass.named THEN import_named_edge_file(input, pass)
  ELSE import_index_edge_file(input, pass)

\* import_snb_topology: what it inserts, and the counts it returns.
import_snb_topology(input) ==
  FlattenSeq([p \in DOMAIN Passes |-> PassInserts(input, Passes[p])])

import_person_knows(input) ==
  import_index_edge_file(input, ByPosition("knows", "Knows"))

\* load_person_knows_adjacency, as pairs: both ways of every row.
KnowsPairs(input) ==
  LET rows == csv[input]["knows"].rows
  IN UNION {{<<rows[r][1], rows[r][2]>>, <<rows[r][2], rows[r][1]>>} :
              r \in DOMAIN rows}

\* validate_person_knows against the edges that are visible in a store, when
\* max_vertices covers them all.
validate_person_knows(input, edges) ==
  \A a \in {p[1] : p \in KnowsPairs(input)} :
    {e.dst : e \in {f \in edges : f.src = a /\ f.edge_type = "Knows"}}
      = {p[2] : p \in {q \in KnowsPairs(input) : q[1] = a}}

=============================================================================
