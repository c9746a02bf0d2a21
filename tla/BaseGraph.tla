----------------------------- MODULE BaseGraph ------------------------------
(***************************************************************************)
(* The read-only base graph: build_from_snb (src/base_graph/builder.rs)    *)
(* turns the CSV files of an input into columns and CSR adjacencies, one   *)
(* file after the other, and names them in a catalog that it saves last;   *)
(* BaseGraph::open reads what the catalog names (catalog.rs, graph.rs,     *)
(* csr.rs).  A build can be killed between any two files and inside one,   *)
(* and a build into the same directory starts without clearing it.         *)
(*                                                                         *)
(* A file is represented by the input it was written from; Contents gives  *)
(* what is in it.  External ids are mapped to local ids, the positions of  *)
(* the rows in their file, from zero.                                      *)
(***************************************************************************)
EXTENDS SnbCsv, Sorting

CONSTANTS
  small_degree_threshold,
  neighbor_block_items,   \* neighbors in neighbor_block_bytes
  MaxBuilds               \* bound: builds started

ASSUME BaseAssumption ==
  /\ small_degree_threshold \in Nat
  /\ neighbor_block_items \in Nat \ {0}
  /\ MaxBuilds \in Nat

\* The files a build reads.
CsvFiles ==
  {"place", "organisation", "tagclass", "tag", "person", "forum", "post", "comment",
   "knows", "likes_post", "likes_comment", "has_member"}

ASSUME CsvAssumption ==
  \A input \in Inputs : \A file \in CsvFiles :
    LET rows == csv[input][file].rows
    IN Len(rows) \in Nat /\ DOMAIN rows = 1..Len(rows)

NoLocal == -1  \* u32::MAX

-----------------------------------------------------------------------------
(* Id maps.                                                                *)

\* IdMap: an external id that occurs twice keeps its last position.
Occurrences(table, external) ==
  {row \in Rows(table) : Cell(table, row, "id") = external}

Local(table, external) == Max(Occurrences(table, external)) - 1

LocalIds(table) == 0..(Len(table.rows) - 1)

\* The vertex a row of a vertex file stands for.
Vertex(table, row) == Local(table, Cell(table, row, "id"))

\* The vertex that a row names in a column, of the vertices of target.
Target(input, scan, row, column, target) ==
  Local(csv[input][target], Cell(csv[input][scan], row, column))

\* The columns of a file that name a vertex, with the file of that vertex.
References(scan) ==
  CASE scan = "person" -> {<<"place", "place">>}
    [] scan = "post" ->
         {<<"creator", "person">>, <<"Forum.id", "forum">>, <<"place", "place">>}
    [] scan = "comment" ->
         {<<"creator", "person">>, <<"place", "place">>,
          <<"replyOfPost", "post">>, <<"replyOfComment", "comment">>}
    [] scan = "forum" -> {<<"moderator", "person">>}
    [] scan = "organisation" -> {<<"place", "place">>}
    [] scan = "tag" -> {<<"hasType", "tagclass">>}
    [] scan = "knows" -> {<<"Person.id", "person">>}
    [] scan = "likes_post" -> {<<"Person.id", "person">>, <<"Post.id", "post">>}
    [] scan = "likes_comment" ->
         {<<"Person.id", "person">>, <<"Comment.id", "comment">>}
    [] scan = "has_member" -> {<<"Forum.id", "forum">>, <<"Person.id", "person">>}
    [] OTHER -> {}

\* A scan ends with an error at an id that its map does not have.  Only the
\* two reply cells may be empty, and the second is read if the first is.
Resolves(input, scan) ==
  \A ref \in References(scan) : \A row \in Rows(csv[input][scan]) :
    LET cell(column) == Cell(csv[input][scan], row, column)
    IN \/ Occurrences(csv[input][ref[2]], cell(ref[1])) # {}
       \/ ref[1] \in {"replyOfPost", "replyOfComment"} /\ cell(ref[1]) = Empty
       \/ ref[1] = "replyOfComment" /\ cell("replyOfPost") # Empty

-----------------------------------------------------------------------------
(* Columns.                                                                *)

\* The vector of a vertex file whose rows assign the given values: one entry
\* per vertex, the value of the last row that assigns to it.
Column(table, value) ==
  LET rows(v) == {row \in DOMAIN value : Vertex(table, row) = v}
  IN [v \in LocalIds(table) |->
        IF rows(v) = {} THEN NoLocal ELSE value[Max(rows(v))]]

\* File, column and target of the columns of single edges.
SingleColumns ==
  [person_place |-> <<"person", "place", "place">>,
   post_creator |-> <<"post", "creator", "person">>,
   post_forum |-> <<"post", "Forum.id", "forum">>,
   post_place |-> <<"post", "place", "place">>,
   comment_creator |-> <<"comment", "creator", "person">>,
   comment_place |-> <<"comment", "place", "place">>,
   forum_moderator |-> <<"forum", "moderator", "person">>,
   organisation_place |-> <<"organisation", "place", "place">>,
   tag_tagclass |-> <<"tag", "hasType", "tagclass">>]

single_column(input, name) ==
  LET c == SingleColumns[name]
      table == csv[input][c[1]]
  IN Column(table, [row \in Rows(table) |-> Target(input, c[1], row, c[2], c[3])])

\* The rows of comments that reply to a post, and those that do not but reply
\* to a comment.
PostReplies(input) ==
  {row \in Rows(csv[input].comment) :
     Cell(csv[input].comment, row, "replyOfPost") # Empty}

CommentReplies(input) ==
  {row \in Rows(csv[input].comment) :
     Cell(csv[input].comment, row, "replyOfComment") # Empty}
    \ PostReplies(input)

comment_parent_kind(input) ==
  Column(csv[input].comment,
         [row \in PostReplies(input) \cup CommentReplies(input) |->
            IF row \in PostReplies(input) THEN 0 ELSE 1])

ParentOf(input, row) ==
  IF row \in PostReplies(input)
    THEN Target(input, "comment", row, "replyOfPost", "post")
    ELSE Target(input, "comment", row, "replyOfComment", "comment")

comment_parent_id(input) ==
  Column(csv[input].comment,
         [row \in PostReplies(input) \cup CommentReplies(input) |->
            ParentOf(input, row)])

\* Slip: the root of a parent is taken from the memo as it is, resolved or not.
resolve_comment_root_unresolved(comment, parent_kind, parent_id, memo) ==
  [memo EXCEPT ![comment] =
     CASE @ # NoLocal -> @
       [] @ = NoLocal /\ parent_kind[comment] = 0 -> parent_id[comment]
       [] @ = NoLocal /\ parent_kind[comment] = 1 -> memo[parent_id[comment]]
       [] OTHER -> NoLocal]

\* The memo after a call: the walk goes up to the first comment that has an
\* entry or replies to a post or to nothing, and enters what it finds for every
\* comment on the way.
resolve_comment_root(comment, parent_kind, parent_id, memo) ==
  LET known(c) == memo[c] # NoLocal
      root[c \in DOMAIN memo] ==
        CASE known(c) -> memo[c]
          [] ~known(c) /\ parent_kind[c] = 0 -> parent_id[c]
          [] ~known(c) /\ parent_kind[c] = 1 -> root[parent_id[c]]
          [] OTHER -> NoLocal
      way[c \in DOMAIN memo] ==
        IF known(c) THEN {}
        ELSE {c} \cup IF parent_kind[c] = 1 THEN way[parent_id[c]] ELSE {}
  IN [c \in DOMAIN memo |-> IF c \in way[comment] THEN root[c] ELSE memo[c]]

\* Every comment is resolved, in the order of the local ids, with one memo.
comment_root_post(input) ==
  LET comments == Len(csv[input].comment.rows)
      kind == comment_parent_kind(input)
      parent == comment_parent_id(input)
  IN FoldLeft(LAMBDA memo, row : resolve_comment_root(row - 1, kind, parent, memo),
              [c \in 0..(comments - 1) |-> NoLocal],
              [row \in 1..comments |-> row])

post_root_post(input) ==
  LET post == csv[input].post
  IN Column(post, [row \in Rows(post) |-> Vertex(post, row)])

-----------------------------------------------------------------------------
(* Adjacencies.                                                            *)

\* Edges are pairs of local ids, numbered in the order they were read in.
SortedEdges(edges) ==
  SortedSet(DOMAIN edges, LAMBDA i, j :
              \/ edges[i][1] < edges[j][1]
              \/ edges[i][1] = edges[j][1] /\ edges[i][2] < edges[j][2]
              \/ edges[i] = edges[j] /\ i < j)

\* Slip: the end of a source is counted with the sources up to the next one.
write_csr_shifted(num_src, edges) ==
  LET sorted == SortedEdges(edges)
  IN [offsets |-> [s \in 0..num_src |->
                     Cardinality({i \in DOMAIN edges : edges[i][1] <= s})],
      neighbors |-> [k \in DOMAIN sorted |-> edges[sorted[k]][2]]]

\* Offset s is where the neighbors of s start.
write_csr(num_src, edges) ==
  LET sorted == SortedEdges(edges)
  IN [offsets |-> [s \in 0..num_src |->
                     Cardinality({i \in DOMAIN edges : edges[i][1] < s})],
      neighbors |-> [k \in DOMAIN sorted |-> edges[sorted[k]][2]]]

\* File, and column and target of both ends, of the edges in both directions.
MultiEdges ==
  [KNOWS |-> <<"knows", <<"Person.id", "person">>, <<"Person.id", "person">>>>,
   PERSON_LIKES_POST |->
     <<"likes_post", <<"Person.id", "person">>, <<"Post.id", "post">>>>,
   PERSON_LIKES_COMMENT |->
     <<"likes_comment", <<"Person.id", "person">>, <<"Comment.id", "comment">>>>,
   FORUM_HAS_MEMBER |->
     <<"has_member", <<"Forum.id", "forum">>, <<"Person.id", "person">>>>]

\* build_bidirectional_csr, with the ends in the order of the direction.
bidirectional_csr(input, from, to, scan) ==
  write_csr(Len(csv[input][from[2]].rows),
            [row \in Rows(csv[input][scan]) |->
               <<Target(input, scan, row, from[1], from[2]),
                 Target(input, scan, row, to[1], to[2])>>])

\* The edges from what the given rows of a file name to their own vertices.
derived_csr(input, scan, rows, named, target) ==
  write_csr(Len(csv[input][target].rows),
            [row \in rows |-> <<Target(input, scan, row, named, target),
                                Vertex(csv[input][scan], row)>>])

DerivedIndexes ==
  [PERSON_CREATED_POST |-> <<"post", "creator", "person">>,
   FORUM_CONTAINER_OF_POST |-> <<"post", "Forum.id", "forum">>,
   PERSON_CREATED_COMMENT |-> <<"comment", "creator", "person">>,
   POST_CHILD_COMMENTS |-> <<"comment", "replyOfPost", "post">>,
   COMMENT_CHILD_COMMENTS |-> <<"comment", "replyOfComment", "comment">>]

DerivedRows(input, name) ==
  CASE name = "POST_CHILD_COMMENTS" -> PostReplies(input)
    [] name = "COMMENT_CHILD_COMMENTS" -> CommentReplies(input)
    [] OTHER -> Rows(csv[input][DerivedIndexes[name][1]])

\* The files of a base in the order in which a build writes them.
Plan ==
  <<<<"vertices", "ext_id_to_local">>,
    <<"column", "person_place">>, <<"column", "post_creator">>,
    <<"column", "post_forum">>, <<"column", "post_place">>,
    <<"column", "comment_creator">>, <<"column", "comment_place">>,
    <<"column", "comment_parent_kind">>, <<"column", "comment_parent_id">>,
    <<"column", "forum_moderator">>, <<"column", "organisation_place">>,
    <<"column", "tag_tagclass">>,
    <<"OUT", "KNOWS">>, <<"IN", "KNOWS">>,
    <<"OUT", "PERSON_LIKES_POST">>, <<"IN", "PERSON_LIKES_POST">>,
    <<"OUT", "PERSON_LIKES_COMMENT">>, <<"IN", "PERSON_LIKES_COMMENT">>,
    <<"OUT", "FORUM_HAS_MEMBER">>, <<"IN", "FORUM_HAS_MEMBER">>,
    <<"derived", "PERSON_CREATED_POST">>,
    <<"derived", "FORUM_CONTAINER_OF_POST">>, <<"column", "post_root_post">>,
    <<"derived", "PERSON_CREATED_COMMENT">>,
    <<"derived", "POST_CHILD_COMMENTS">>,
    <<"derived", "COMMENT_CHILD_COMMENTS">>, <<"column", "comment_root_post">>>>

Files == {Plan[i] : i \in DOMAIN Plan}

Adjacencies == {f \in Files : f[1] \in {"OUT", "IN", "derived"}}

\* The CSV file that is scanned before a file is written.
ScanFor(file) ==
  CASE file[1] = "vertices" -> "place"
    [] file[1] \in {"OUT", "IN"} -> MultiEdges[file[2]][1]
    [] file[1] = "derived" -> DerivedIndexes[file[2]][1]
    [] file[2] \in DOMAIN SingleColumns -> SingleColumns[file[2]][1]
    [] file[2] = "post_root_post" -> "post"
    [] OTHER -> "comment"

Adjacency(input, file) ==
  LET multi == MultiEdges[file[2]]
      derived == DerivedIndexes[file[2]]
  IN CASE file[1] = "OUT" ->
            bidirectional_csr(input, multi[2], multi[3], multi[1])
       [] file[1] = "IN" ->
            bidirectional_csr(input, multi[3], multi[2], multi[1])
       [] OTHER ->
            derived_csr(input, derived[1], DerivedRows(input, file[2]),
                        derived[2], derived[3])

ColumnContents(input, name) ==
  CASE name = "comment_parent_kind" -> comment_parent_kind(input)
    [] name = "comment_parent_id" -> comment_parent_id(input)
    [] name = "comment_root_post" -> comment_root_post(input)
    [] name = "post_root_post" -> post_root_post(input)
    [] OTHER -> single_column(input, name)

-----------------------------------------------------------------------------
(* Builds.                                                                 *)

NoInput == "none"  \* no catalog, no build, or a file that is not there
Torn == "torn"     \* a file cut short

ASSUME InputsAssumption == Inputs \cap {NoInput, Torn} = {}

VARIABLES
  base_files,   \* file -> the input it was written from
  catalog,      \* the input that catalog.json was saved for
  source,       \* the input of the running build
  built,        \* files it has written
  interrupted,  \* a build over the catalog was not completed
  builds_left   \* what is left of MaxBuilds

baseVars == <<base_files, catalog, source, built, interrupted, builds_left>>

BaseInit ==
  /\ base_files = [f \in Files |-> NoInput]
  /\ catalog = NoInput
  /\ source = NoInput
  /\ built = 0
  /\ interrupted = FALSE
  /\ builds_left = MaxBuilds

\* build_from_snb; an older catalog stays in place.
BuildStart ==
  /\ source = NoInput
  /\ builds_left > 0
  /\ builds_left' = builds_left - 1
  /\ source' \in Inputs
  /\ built' = 0
  /\ interrupted' = (catalog # NoInput)
  /\ UNCHANGED <<base_files, catalog>>

BuildFile ==
  /\ source # NoInput
  /\ built < Len(Plan)
  /\ Resolves(source, ScanFor(Plan[built + 1]))
  /\ base_files' = [base_files EXCEPT ![Plan[built + 1]] = source]
  /\ built' = built + 1
  /\ UNCHANGED <<catalog, source, interrupted, builds_left>>

\* A scan meets an unknown id: the build returns the error.
BuildError ==
  /\ source # NoInput
  /\ built < Len(Plan)
  /\ ~Resolves(source, ScanFor(Plan[built + 1]))
  /\ source' = NoInput
  /\ built' = 0
  /\ UNCHANGED <<base_files, catalog, interrupted, builds_left>>

\* The process dies, maybe inside the next file.
BuildKilled ==
  /\ source # NoInput
  /\ source' = NoInput
  /\ built' = 0
  /\ \/ UNCHANGED <<base_files, catalog>>
     \/ /\ built < Len(Plan)
        /\ base_files' = [base_files EXCEPT ![Plan[built + 1]] = Torn]
        /\ UNCHANGED catalog
     \/ /\ built = Len(Plan)
        /\ catalog' = Torn
        /\ UNCHANGED base_files
  /\ UNCHANGED <<interrupted, builds_left>>

\* Slip: the catalog is saved before the derived indexes are built.
SaveCatalogEarly ==
  /\ source # NoInput
  /\ \/ /\ Plan[built + 1] = <<"derived", "PERSON_CREATED_POST">>
        /\ UNCHANGED <<source, built>>
     \/ /\ built = Len(Plan)
        /\ source' = NoInput
        /\ built' = 0
  /\ catalog' = source
  /\ interrupted' = FALSE
  /\ UNCHANGED <<base_files, builds_left>>

SaveCatalog ==
  /\ source # NoInput
  /\ built = Len(Plan)
  /\ catalog' = source
  /\ source' = NoInput
  /\ built' = 0
  /\ interrupted' = FALSE
  /\ UNCHANGED <<base_files, builds_left>>

BaseNext ==
  BuildStart \/ BuildFile \/ BuildError \/ BuildKilled \/ SaveCatalog

BaseSpec == BaseInit /\ [][BaseNext]_baseVars

-----------------------------------------------------------------------------
(* Reads: BaseGraph and CsrAdjacency.                                      *)

single_value(input, name, v) ==
  LET values == ColumnContents(input, name)
  IN IF v \in DOMAIN values THEN values[v] ELSE NoLocal

\* comment_reply_of, as the kind and the id of the parent.
comment_reply_of(input, comment) ==
  LET kind == single_value(input, "comment_parent_kind", comment)
  IN IF kind = NoLocal THEN <<>>
     ELSE <<kind, single_value(input, "comment_parent_id", comment)>>

\* A source out of the offsets has an empty range.
range(csr, src) ==
  IF src + 1 \in DOMAIN csr.offsets
    THEN <<csr.offsets[src], csr.offsets[src + 1]>> ELSE <<0, 0>>

choose_chunk_items(degree) ==
  IF degree <= small_degree_threshold THEN degree ELSE neighbor_block_items

\* Slip: every chunk is read in full.
scan_chunks_full(csr, src) ==
  LET start == range(csr, src)[1]
      end == range(csr, src)[2]
      n == choose_chunk_items(end - start)
  IN IF start = end THEN <<>>
     ELSE [k \in 1..((end - start + n - 1) \div n) |->
             SubSeq(csr.neighbors, start + (k - 1) * n + 1,
                    Min({start + k * n, Len(csr.neighbors)}))]

scan_chunks(csr, src) ==
  LET start == range(csr, src)[1]
      end == range(csr, src)[2]
      n == choose_chunk_items(end - start)
  IN IF start = end THEN <<>>
     ELSE [k \in 1..((end - start + n - 1) \div n) |->
             SubSeq(csr.neighbors, start + (k - 1) * n + 1,
                    Min({start + k * n, end}))]

csr_neighbors(csr, src) == FlattenSeq(scan_chunks(csr, src))

-----------------------------------------------------------------------------
(* Properties.                                                             *)

\* A catalog names files that were all completed, and all from one input:
\* wherever builds fail or are killed, unless they are killed or fail over a
\* catalog that was there before.
CatalogWhole ==
  catalog \in Inputs /\ ~interrupted =>
    \A f \in Files : base_files[f] = catalog

\* The derived indexes agree with the columns: the root of a comment is the
\* root of its parent, and the children of a vertex are the ones that name
\* it, whatever the order of the rows.
DerivedExact(input) ==
  LET comments == LocalIds(csv[input].comment)
      posts == LocalIds(csv[input].post)
      roots == comment_root_post(input)
      lists(name, parents, children, Names(_, _)) ==
        LET csr == Adjacency(input, <<"derived", name>>)
        IN \A v \in parents :
             csr_neighbors(csr, v) = SetToSortSeq({c \in children : Names(c, v)},
                                                  LAMBDA a, b : a < b)
  IN /\ \A c \in comments :
          LET reply == comment_reply_of(input, c)
          IN roots[c] = CASE reply = <<>> -> NoLocal
                          [] reply[1] = 0 -> reply[2]
                          [] OTHER -> roots[reply[2]]
     /\ lists("POST_CHILD_COMMENTS", posts, comments,
              LAMBDA c, v : comment_reply_of(input, c) = <<0, v>>)
     /\ lists("COMMENT_CHILD_COMMENTS", comments, comments,
              LAMBDA c, v : comment_reply_of(input, c) = <<1, v>>)
     /\ lists("PERSON_CREATED_COMMENT", LocalIds(csv[input].person), comments,
              LAMBDA c, v : single_value(input, "comment_creator", c) = v)
     /\ lists("PERSON_CREATED_POST", LocalIds(csv[input].person), posts,
              LAMBDA p, v : single_value(input, "post_creator", p) = v)
     /\ lists("FORUM_CONTAINER_OF_POST", LocalIds(csv[input].forum), posts,
              LAMBDA p, v : single_value(input, "post_forum", p) = v)

DerivedAgree == [][catalog' # catalog /\ catalog' \in Inputs =>
                     DerivedExact(catalog')]_baseVars

=============================================================================
