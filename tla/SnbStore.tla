------------------------------ MODULE SnbStore ------------------------------
(***************************************************************************)
(* An SNB store: the edges in the engine, and beside them a vertex file,   *)
(* an edge property file and an adjacency cache (src/snb/full_loader.rs,   *)
(* props.rs).  The commands import, snb-updates, snb-cache, snb-props and  *)
(* snb-server run one after the other, each in a process of its own that   *)
(* may be killed; the server answers updates from memory alone.            *)
(*                                                                         *)
(* The engine appears by what GraphStore promises: a crash keeps what was  *)
(* flushed, and of the memgraphs frozen since then those whose flush task  *)
(* was through.  A command is the list of the steps it has still to do.    *)
(***************************************************************************)
EXTENDS SnbGraph

CONSTANTS
  Csv,                \* the CSV files: name -> rows
  Stream,             \* the lines of the update streams, in file order
  HttpUpdates,        \* updates that clients may send to the server
  memgraph_capacity,  \* records after which a memgraph is frozen
  MaxCommands,        \* bound: commands started
  MaxCrashes,         \* bound: commands killed
  MaxHttpUpdates      \* bound: updates sent to one server

ASSUME SnbAssumption ==
  /\ memgraph_capacity \in Nat \ {0}
  /\ {MaxCommands, MaxCrashes, MaxHttpUpdates} \subseteq Nat

\* Updates of the eight kinds, with tags of the given ids.
Updates(ids) ==
  LET Optional == Nat \cup {NoId}
      Years == Seq([org : Nat, year : Int])
  IN [kind : {1}, id : Nat, place : Nat, tags : Seq(ids),
      study_at : Years, work_at : Years]
       \cup [kind : {2, 3, 5, 8}, a : Nat, b : Nat, date : Int]
       \cup [kind : {4}, id : Nat, moderator : Nat, tags : Seq(ids)]
       \cup [kind : {6}, id : Nat, creator : Nat, forum : Nat, place : Nat,
             tags : Seq(ids)]
       \cup [kind : {7}, id : Nat, creator : Nat, place : Nat, post : Optional,
             comment : Optional, tags : Seq(ids)]

\* Lines of a stream may be of other kinds, and leave tags out.
ASSUME UpdatesAssumption ==
  /\ Stream \in Seq(Updates(Nat \cup {NoId}) \cup [kind : Int \ (1..8)])
  /\ HttpUpdates \subseteq Updates(Nat)

ASSUME RowsAssumption ==
  /\ \A f \in ToSet(VertexFiles) :
       /\ Len(Csv[f[1]]) \in Nat /\ DOMAIN Csv[f[1]] = 1..Len(Csv[f[1]])
       /\ \A i \in DOMAIN Csv[f[1]] : Csv[f[1]][i].id \in Nat
  /\ \A r \in ToSet(Relations) :
       /\ Len(Csv[r.file]) \in Nat /\ DOMAIN Csv[r.file] = 1..Len(Csv[r.file])
       /\ \A i \in DOMAIN Csv[r.file] :
            LET row == Csv[r.file][i]
            IN /\ {row[r.src_col], row[r.dst_col]} \subseteq Nat \cup {NoId}
               /\ r.prop_col # "" => row[r.prop_col] \in Int

VARIABLES
  edges,        \* records in the engine
  timestamp,    \* the engine's timestamp counter
  flushed,      \* records up to this timestamp are durable
  vertex_file,  \* snb_vertices.jsonl: [state, rows]
  prop_file,    \* snb_edge_props.jsonl: [state, rows]
  cache,        \* snb_adjacency.bin: [exists, groups]
  vertex_buf,   \* rows in the BufWriter of a running command
  prop_buf,
  builder,      \* AdjacencyBuilder: records
  todo,         \* steps left of the running import or update
  running,      \* "none", "import", "updates" or "server"
  served,       \* SnbGraph of the running server
  history       \* what has been done to the store, for the properties

engineVars == <<edges, timestamp, flushed>>
fileVars == <<vertex_file, prop_file, cache>>
bufVars == <<vertex_buf, prop_buf, builder>>
vars == <<engineVars, fileVars, bufVars, todo, running, served, history>>

\* No file, or one of whole lines, or one with a line cut short by a crash;
\* the rows of a torn file are those that were meant.
FileState == {"absent", "whole", "torn"}

-----------------------------------------------------------------------------
(* Adjacency.                                                              *)

\* Slip: every loaded neighbor counts as old as the snapshot.
from_adjacency_flat(groups, max_existing_ts) ==
  UNION {{Record(Key(g[1], g[2], groups[g][i]), max_existing_ts) :
            i \in DOMAIN groups[g]} : g \in DOMAIN groups}

\* A loaded cache has no timestamps: they are made up so that the order of
\* every group stays and new records come first.
from_adjacency(groups, max_existing_ts) ==
  UNION {{Record(Key(g[1], g[2], groups[g][i]),
                 IF max_existing_ts >= i - 1 THEN max_existing_ts - (i - 1) ELSE 0) :
            i \in DOMAIN groups[g]} : g \in DOMAIN groups}

scan_edges == merge_visible(edges, timestamp)

-----------------------------------------------------------------------------
(* Commands as lists of steps.                                             *)

Step(op) == [op |-> op]
VertexStep(vid) == [op |-> "vertex", vid |-> vid]
EdgeStep(write) == [op |-> "edge", key |-> write.key, prop |-> write.prop]

Steps(seq, Op(_)) == [i \in DOMAIN seq |-> Op(seq[i])]

import_snb_full ==
  Steps(import_vertices(Csv), VertexStep) \o <<Step("flush_vertices")>>
    \o Steps(import_edges(Csv), EdgeStep)
    \o <<Step("flush_props"), Step("flush_active"), Step("write_cache")>>

import_update_stream ==
  ForEach(Stream, LAMBDA u : Steps(AddedVertex(u), VertexStep)
                               \o Steps(import_update(u), EdgeStep))

\* Slip: the cache is written before the property file is.
import_snb_updates_cache_first ==
  import_update_stream
    \o <<Step("flush_vertices"), Step("flush_active"), Step("write_cache"),
         Step("flush_props")>>

import_snb_updates ==
  import_update_stream
    \o <<Step("flush_vertices"), Step("flush_props"), Step("flush_active"),
         Step("write_cache")>>

-----------------------------------------------------------------------------

Init ==
  /\ edges = {}
  /\ timestamp = 0
  /\ flushed = 0
  /\ vertex_file = [state |-> "absent", rows |-> {}]
  /\ prop_file = [state |-> "absent", rows |-> <<>>]
  /\ cache = [exists |-> FALSE, groups |-> <<>>]
  /\ vertex_buf = <<>>
  /\ prop_buf = <<>>
  /\ builder = {}
  /\ todo = <<>>
  /\ running = "none"
  /\ served = NoGraph
  /\ history = [pedigree |-> "none", complete |-> FALSE, behind |-> FALSE,
                cut |-> FALSE, applied |-> <<>>, opened |-> NoGraph,
                commands |-> 0, crashes |-> 0]

Starting(command) ==
  /\ running = "none"
  /\ history.commands < MaxCommands
  /\ running' = command

\* lsmgraph import: Engine::create removes the directory, then the files are
\* created.
BeginImport ==
  /\ Starting("import")
  /\ edges' = {}
  /\ timestamp' = 0
  /\ flushed' = 0
  /\ vertex_file' = [state |-> "whole", rows |-> {}]
  /\ prop_file' = [state |-> "whole", rows |-> <<>>]
  /\ cache' = [exists |-> FALSE, groups |-> <<>>]
  /\ builder' = {}
  /\ todo' = import_snb_full
  /\ history' = [history EXCEPT !.pedigree = "none", !.complete = FALSE,
                   !.behind = FALSE, !.cut = FALSE, !.commands = @ + 1]
  /\ UNCHANGED <<vertex_buf, prop_buf, served>>

\* open and append; a missing file is created.
Appending(file) == [file EXCEPT !.state = IF @ = "absent" THEN "whole" ELSE @]

\* lsmgraph snb-updates.  Without a cache the builder starts empty.
BeginUpdates ==
  /\ Starting("updates")
  /\ vertex_file' = Appending(vertex_file)
  /\ prop_file' = Appending(prop_file)
  /\ builder' = IF cache.exists THEN from_adjacency(cache.groups, timestamp) ELSE {}
  /\ todo' = import_snb_updates
  /\ history' = [history EXCEPT !.commands = @ + 1]
  /\ UNCHANGED <<engineVars, cache, vertex_buf, prop_buf, served>>

-----------------------------------------------------------------------------
(* The steps of an import or an update.                                    *)

Doing(op) ==
  /\ running \in {"import", "updates"}
  /\ Head(todo).op = op
  /\ todo' = Tail(todo)
  /\ running' = IF Len(todo) = 1 THEN "none" ELSE running
  /\ UNCHANGED served

WriteVertex ==
  /\ Doing("vertex")
  /\ vertex_buf' = Append(vertex_buf, Head(todo).vid)
  /\ UNCHANGED <<engineVars, fileVars, prop_buf, builder, history>>

\* One insertion of insert_forward_reverse.
InsertEdge ==
  /\ Doing("edge")
  /\ timestamp' = timestamp + 1
  /\ edges' = edges \cup {Record(Head(todo).key, timestamp')}
  /\ builder' = builder \cup {Record(Head(todo).key, timestamp')}
  /\ prop_buf' = prop_buf \o PropRows(<<Head(todo)>>)
  /\ UNCHANGED <<flushed, fileVars, vertex_buf, history>>

FlushVertices ==
  /\ Doing("flush_vertices")
  /\ vertex_file' = [vertex_file EXCEPT !.rows = @ \cup ToSet(vertex_buf)]
  /\ vertex_buf' = <<>>
  /\ UNCHANGED <<engineVars, prop_file, cache, prop_buf, builder, history>>

FlushProps ==
  /\ Doing("flush_props")
  /\ prop_file' = [prop_file EXCEPT !.rows = WithProps(@, prop_buf)]
  /\ prop_buf' = <<>>
  /\ UNCHANGED <<engineVars, vertex_file, cache, vertex_buf, builder, history>>

FlushActive ==
  /\ Doing("flush_active")
  /\ flushed' = timestamp
  /\ UNCHANGED <<edges, timestamp, fileVars, bufVars, history>>

\* The new cache replaces the old one by a rename.  An update completes a
\* store that only an earlier update left incomplete.
WriteCache ==
  /\ Doing("write_cache")
  /\ cache' = [exists |-> TRUE, groups |-> build(builder)]
  /\ builder' = {}
  /\ LET pedigree == IF running = "import" THEN "whole"
                     ELSE IF cache.exists THEN history.pedigree ELSE "partial"
     IN history' = [history EXCEPT !.pedigree = pedigree, !.behind = FALSE,
                      !.cut = FALSE, !.complete = @ \/ pedigree = "whole"]
  /\ UNCHANGED <<engineVars, vertex_file, prop_file, vertex_buf, prop_buf>>

-----------------------------------------------------------------------------
(* A kill.                                                                 *)

\* The memgraph of a record that is not flushed, counted from the oldest.
memgraph_of(e) == (e.ts - flushed - 1) \div memgraph_capacity

frozen == 0..(((timestamp - flushed) \div memgraph_capacity) - 1)

\* What a BufWriter has passed on: some rows, maybe the start of another.
Spilled(file, rows, torn) ==
  [file EXCEPT !.rows = rows, !.state = IF torn THEN "torn" ELSE @]

\* An import or update ends early, killed or with an error.
Crash ==
  /\ running \in {"import", "updates"}
  /\ history.crashes < MaxCrashes
  /\ \E through \in SUBSET frozen :
       edges' = {e \in edges : e.ts <= flushed \/ memgraph_of(e) \in through}
  /\ timestamp' = max_ts(edges')
  /\ flushed' = timestamp'
  /\ \E n \in 0..Len(vertex_buf), torn \in BOOLEAN :
       /\ torn => n < Len(vertex_buf)
       /\ vertex_file' = Spilled(vertex_file,
            vertex_file.rows \cup ToSet(SubSeq(vertex_buf, 1, n)), torn)
  /\ \E n \in 0..Len(prop_buf), torn \in BOOLEAN :
       /\ torn => n < Len(prop_buf)
       /\ prop_file' = Spilled(prop_file,
            WithProps(prop_file.rows, SubSeq(prop_buf, 1, n)), torn)
  /\ vertex_buf' = <<>>
  /\ prop_buf' = <<>>
  /\ builder' = {}
  /\ todo' = <<>>
  /\ running' = "none"
  /\ history' = [history EXCEPT !.complete = FALSE, !.behind = TRUE,
                   !.crashes = @ + 1]
  /\ UNCHANGED <<cache, served>>

-----------------------------------------------------------------------------
(* The other commands.                                                     *)

Scanned == [history EXCEPT !.pedigree = IF history.complete THEN "whole" ELSE "scan",
                           !.behind = FALSE, !.commands = @ + 1]

\* lsmgraph snb-cache.
BuildAdjacencyCache ==
  /\ Starting("none")
  /\ cache' = [exists |-> TRUE, groups |-> build(scan_edges)]
  /\ history' = Scanned
  /\ UNCHANGED <<engineVars, vertex_file, prop_file, bufVars, todo, served>>

\* lsmgraph snb-props: the property file is replaced by that of the import.
RebuildEdgeProps ==
  /\ Starting("none")
  /\ prop_file' = [state |-> "whole",
                   rows |-> WithProps(<<>>, PropRows(rebuild_snb_edge_props(Csv)))]
  /\ history' = [history EXCEPT !.cut = TRUE, !.commands = @ + 1]
  /\ UNCHANGED <<engineVars, vertex_file, cache, bufVars, todo, served>>

\* lsmgraph snb-server: a missing cache is built and written.
OpenServer ==
  /\ Starting("server")
  /\ vertex_file.state = "whole"
  /\ prop_file.state # "torn"
  /\ cache' = IF cache.exists THEN cache
              ELSE [exists |-> TRUE, groups |-> build(scan_edges)]
  /\ served' = [vertices |-> vertex_file.rows, edge_props |-> prop_file.rows,
                adjacency |-> cache'.groups]
  /\ history' =
       [(IF cache.exists THEN [history EXCEPT !.commands = @ + 1] ELSE Scanned)
          EXCEPT !.opened = served', !.applied = <<>>]
  /\ UNCHANGED <<engineVars, vertex_file, prop_file, bufVars, todo>>

\* The server applies an update while it holds the write lock.
HttpUpdate ==
  /\ running = "server"
  /\ Len(history.applied) < MaxHttpUpdates
  /\ \E u \in HttpUpdates :
       /\ served' = Updated(served, u)
       /\ history' = [history EXCEPT !.applied = Append(@, u)]
  /\ UNCHANGED <<engineVars, fileVars, bufVars, todo, running>>

\* Nothing that the server was told is saved.
StopServer ==
  /\ running = "server"
  /\ running' = "none"
  /\ served' = NoGraph
  /\ history' = [history EXCEPT !.opened = NoGraph, !.applied = <<>>]
  /\ UNCHANGED <<engineVars, fileVars, bufVars, todo>>

Next ==
  \/ BeginImport \/ BeginUpdates
  \/ WriteVertex \/ InsertEdge
  \/ FlushVertices \/ FlushProps \/ FlushActive \/ WriteCache
  \/ Crash
  \/ BuildAdjacencyCache \/ RebuildEdgeProps
  \/ OpenServer \/ HttpUpdate \/ StopServer

Spec == Init /\ [][Next]_vars

-----------------------------------------------------------------------------
(* Properties.                                                             *)

AtRest == running \in {"none", "server"}

\* The adjacency cache is what a scan of the engine would give, in the same
\* order, although imports and updates build it from the rows they read and
\* from a cache without timestamps: whenever no command runs, unless an
\* update was killed after the cache was written, or found no cache.
CacheExact ==
  AtRest /\ cache.exists /\ ~history.behind /\ history.pedigree # "partial" =>
    cache.groups = build(scan_edges)

\* Labels whose edges have a property.
PropLabels == {Knows, LikesComment, LikesPost, HasMember, StudyAt, WorkAt}

ImportKeys == {w.key : w \in ToSet(import_edges(Csv))}

\* Every edge of a graph is between known vertices, and has its property
\* if its label has one.
Known(adjacency, vertices, edge_props, cut) ==
  \A k \in EdgesIn(adjacency) :
    /\ {k.src, k.dst} \subseteq vertices
    /\ {k.edge_type, -k.edge_type} \cap PropLabels # {}
         => k \in DOMAIN edge_props \/ (cut /\ k \notin ImportKeys)

\* Every edge is there from both ends: an edge of type Knows in both
\* directions, another one with its reverse.
Mirrored(adjacency) ==
  LET E == EdgesIn(adjacency)
  IN \A k \in E :
       IF k.edge_type = Knows THEN Key(k.dst, Knows, k.src) \in E
       ELSE Key(k.dst, -k.edge_type, k.src) \in E

\* The vertices and the edges that a command loads.
LoadedVertices(command) == {s.vid : s \in {x \in ToSet(command) : x.op = "vertex"}}
LoadedKeys(command) == {s.key : s \in {x \in ToSet(command) : x.op = "edge"}}

\* What CacheUsable asks of the input, which no command looks at: the edges of
\* the CSV files are between vertices of the CSV files, those of the streams
\* between these and vertices that the streams add.
Referential ==
  LET Between(keys, vids) == \A k \in keys : {k.src, k.dst} \subseteq vids
      imported == LoadedVertices(import_snb_full)
  IN /\ Between(LoadedKeys(import_snb_full), imported)
     /\ Between(LoadedKeys(import_snb_updates),
                imported \cup LoadedVertices(import_snb_updates))

\* A cache that accounts for complete commands can be used with the files
\* beside it at any time, also after an update was killed half-way: its
\* edges are mirrored, between known vertices and with their properties,
\* except those that snb-props drops.
CacheUsable ==
  history.pedigree = "whole" /\ vertex_file.state = "whole" /\ prop_file.state = "whole" =>
    /\ Mirrored(cache.groups)
    /\ Known(cache.groups, vertex_file.rows, prop_file.rows, history.cut)

\* A server that was sent updates has the graph that an update stream with
\* the same updates would have led to, up to the order of neighbors, and no
\* neighbor twice.
ServedLikeStream ==
  running = "server" =>
    LET writes == ForEach(history.applied, import_update)
        added == ForEach(history.applied, AddedVertex)
    IN /\ EdgesIn(served.adjacency) =
            EdgesIn(history.opened.adjacency) \cup {w.key : w \in ToSet(writes)}
       /\ served.edge_props =
            WithProps(history.opened.edge_props, PropRows(writes))
       /\ served.vertices = history.opened.vertices \cup ToSet(added)
       /\ \A g \in DOMAIN served.adjacency : IsInjective(served.adjacency[g])

=============================================================================
