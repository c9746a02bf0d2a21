---------------------------- MODULE BaseTopology ----------------------------
(***************************************************************************)
(* The base graph against the topology loader: two programs read the same  *)
(* CSV files, and each edge of one of them is an edge of the other.        *)
(***************************************************************************)
EXTENDS BaseGraph, TopologyLoader

\* The external id of a vertex, read back from the order of its file.
External(table, v) == Cell(table, v + 1, "id")

\* The edges of an adjacency, with external ids.
AdjacencyPairs(input, file, from, to) ==
  UNION {{<<External(csv[input][from], v), External(csv[input][to], w)>> :
            w \in ToSet(csr_neighbors(Adjacency(input, file), v))} :
           v \in LocalIds(csv[input][from])}

Swap(pairs) == {<<p[2], p[1]>> : p \in pairs}

ColumnPairs(input, name) ==
  LET c == SingleColumns[name]
      column == single_column(input, name)
  IN {<<External(csv[input][c[1]], v), External(csv[input][c[3]], column[v])>> :
        v \in {u \in DOMAIN column : column[u] # NoLocal}}

ReplyPairs(input, kind, target) ==
  LET comment == csv[input].comment
  IN {<<External(comment, c),
        External(csv[input][target], comment_reply_of(input, c)[2])>> :
        c \in {d \in LocalIds(comment) :
                 comment_reply_of(input, d) # <<>>
                   /\ comment_reply_of(input, d)[1] = kind}}

\* The edges the topology loader inserts for a file, by position, or for a
\* column of a file, by name; from the vertex of the row to the named one.
InsertedPairs(input, file) ==
  {<<e.src, e.dst>> :
     e \in ToSet(import_index_edge_file(input, ByPosition(file, "any")))}

InsertedByName(input, file, column) ==
  UNION {LET pairs == {<<e.src, e.dst>> : e \in ToSet(PassInserts(input, p))}
         IN IF p.src = "id" THEN pairs ELSE Swap(pairs) :
           p \in {q \in ToSet(Passes) : /\ q.named
                                        /\ q.file = file
                                        /\ {q.src, q.dst} = {"id", column}}}

-----------------------------------------------------------------------------
(* Properties.                                                             *)

\* Columns, adjacencies in both directions and replies hold the edges that
\* the topology loader inserts, and validate-knows accepts what it inserts,
\* alone or with the other relations.
SameEdges(input) ==
  /\ \A name \in DOMAIN SingleColumns :
       ColumnPairs(input, name)
         = InsertedByName(input, SingleColumns[name][1], SingleColumns[name][2])
  /\ \A name \in DOMAIN MultiEdges \ {"KNOWS"} :
       LET m == MultiEdges[name]
           pairs == InsertedPairs(input, m[1])
       IN /\ AdjacencyPairs(input, <<"OUT", name>>, m[2][2], m[3][2]) = pairs
          /\ AdjacencyPairs(input, <<"IN", name>>, m[3][2], m[2][2]) = Swap(pairs)
  /\ ReplyPairs(input, 0, "post")
       = InsertedByName(input, "comment", "replyOfPost")
  /\ ReplyPairs(input, 1, "comment")
       = InsertedByName(input, "comment", "replyOfComment")
  /\ validate_person_knows(input, ToSet(import_snb_topology(input)))
  /\ validate_person_knows(input, ToSet(import_person_knows(input)))

\* Whenever a build saves a catalog, the base it names has the edges of the
\* topology loader (person_knows aside, see KnowsExact).
LoadersAgree == [][catalog' # catalog /\ catalog' \in Inputs =>
                     SameEdges(catalog')]_baseVars

\* The persons that know each other in the rows of the file are neighbors in
\* the base, in one direction or the other.  The code builds both adjacencies
\* from the first of the two columns, which have the same name.
KnowsExact ==
  catalog \in Inputs =>
    LET out == AdjacencyPairs(catalog, <<"OUT", "KNOWS">>, "person", "person")
        in == AdjacencyPairs(catalog, <<"IN", "KNOWS">>, "person", "person")
    IN out \cup in = KnowsPairs(catalog)

=============================================================================
