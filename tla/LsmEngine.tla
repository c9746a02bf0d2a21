----------------------------- MODULE LsmEngine -----------------------------
(***************************************************************************)
(* The storage engine of lsmgraph (src/graph.rs with version.rs, index.rs, *)
(* levels.rs and csr/manifest.rs): an active memgraph that rotates into    *)
(* background flush tasks, a published version naming the memgraphs and    *)
(* the segments of L0 and L1, a vertex index over L1, and a manifest from  *)
(* which a store is reopened.                                              *)
(*                                                                         *)
(* Actors are the callers of the public operations and one task per frozen *)
(* memgraph.  A step of an actor is a stretch of code between two points   *)
(* where another actor can observe or change shared state; in particular   *)
(* pinning the current version and publishing a new one are two steps.     *)
(***************************************************************************)
EXTENDS EdgeRecords, Sequences

CONSTANTS
  Callers,         \* concurrent users of one Engine
  Operations,      \* the operations that callers issue
  Targets,         \* arguments of the partition and range compactions
  Capacity,        \* records that fill a memgraph
  L0FileThreshold, \* l0_file_threshold
  TargetEdges,     \* records in segment_target_bytes
  GraphAwareL0,    \* graph_aware_l0
  AutoCompaction,  \* auto_compaction
  Preemptive,      \* multi_thread runtime; FALSE is the current_thread one
  MaxMem,          \* bound: memgraphs of one run of the engine
  MaxFiles,        \* bound: file ids
  MaxReads,        \* bound: reads in a behaviour
  MaxCompactions,  \* bound: compactions started in a behaviour
  MaxFaults,       \* bound: failed I/O operations in a behaviour
  MaxCrashes       \* bound: restarts in a behaviour

ASSUME ConfigAssumption ==
  /\ Capacity \in Nat \ {0}
  /\ L0FileThreshold \in Nat
  /\ TargetEdges \in Nat \ {0}
  /\ GraphAwareL0 \in BOOLEAN
  /\ AutoCompaction \in BOOLEAN
  /\ Preemptive \in BOOLEAN

ASSUME BoundsAssumption ==
  /\ MaxMem \in Nat \ {0}
  /\ MaxFiles \in Nat
  /\ MaxReads \in Nat
  /\ MaxCompactions \in Nat
  /\ MaxFaults \in Nat
  /\ MaxCrashes \in Nat

ASSUME TargetsAssumption ==
  Targets \subseteq [src_label : Nat, edge_type : SUBSET Int,
                     bounded : BOOLEAN, min_src : Nat, max_src : Nat]

MemId == 1..MaxMem
FileId == 1..MaxFiles

Version == [memgraphs : SUBSET MemId, l0 : SUBSET FileId, l1 : SUBSET FileId]

Segment == [level : {0, 1}, edges : SUBSET EdgeRecord]

ManifestState == [live : SUBSET FileId, created : SUBSET FileId,
                  max_file_id : 0..MaxFiles, max_ts : 0..MaxTs]

Budget == [reads : 0..MaxReads, compactions : 0..MaxCompactions,
           faults : 0..MaxFaults, crashes : 0..MaxCrashes]

Queries == [src : {k.src : k \in Keys},
            edge_type : {{k.edge_type} : k \in Keys} \cup {NoEdgeType}]

\* The argument of operations that take none.
NoArg == <<>>

VARIABLES
  timestamp,     \* Engine.timestamp
  mem,           \* memgraph id -> the records inserted into it
  active,        \* EngineState.active; ids are handed out in rotation order
  next_file_id,  \* EngineState.next_file_id
  flush_tasks,   \* EngineState.flush_tasks: handles, as memgraph ids
  version,       \* VersionManager.current
  index,         \* the L1 segments reachable through MultiLevelIndex
  disk,          \* file id -> the segment stored under it
  manifest,      \* what Manifest::load computes from the log
  caller,        \* the local state of every caller
  task           \* the local state of every flush task

\* Auxiliary variables: they record history and never enable a step.
VARIABLES
  written,       \* records inserted since the store was opened, or recovered
  horizon,       \* newest snapshot a compaction has merged at
  budget         \* what is left of the bounds on reads, faults, ...

engineVars == <<timestamp, mem, active, next_file_id, flush_tasks>>
storeVars == <<disk, manifest>>
auxVars == <<written, horizon, budget>>
vars == <<engineVars, version, index, storeVars, caller, task, auxVars>>

-----------------------------------------------------------------------------
(* Local states.                                                           *)

NoVersion == [memgraphs |-> {}, l0 |-> {}, l1 |-> {}]

IdleCaller ==
  [pc |-> "idle", op |-> "none", arg |-> NoArg, snapshot |-> 0, handle |-> 1,
   recs |-> {}, old |-> NoVersion, sel |-> {}, del |-> {}, outs |-> {},
   file |-> {}]

NoTask ==
  [pc |-> "none", recs |-> {}, files |-> {}, file |-> {}, old |-> NoVersion]

\* Between pin_current and publish of a rotation the state mutex is held.
StateLocked == \E c \in Callers : caller[c].pc = "rotate"

\* The code between these points has no await: on a current_thread runtime
\* nobody else runs while an actor is there.
CallerBusy(c) ==
  caller[c].pc \in {"insert", "rotate", "push", "delete", "pin", "publish",
                    "index", "read"}

TaskBusy(m) == task[m].pc \in {"pin", "publish", "index"}

CallerTurn(c) ==
  Preemptive \/ /\ \A d \in Callers \ {c} : ~CallerBusy(d)
                /\ \A m \in MemId : ~TaskBusy(m)

TaskTurn(m) ==
  Preemptive \/ /\ \A c \in Callers : ~CallerBusy(c)
                /\ \A n \in MemId \ {m} : ~TaskBusy(n)

\* VertexLockTable: write_edge holds the lock of its source until it returns,
\* get_neighbors holds the same lock shared.
HoldsWrite(c, src) ==
  /\ caller[c].op = "write" /\ caller[c].pc \in {"rotate", "push"}
  /\ \E r \in caller[c].recs : r.key.src = src

HoldsRead(c, src) ==
  /\ caller[c].op = "neighbors" /\ caller[c].pc \in {"read", "lookup"}
  /\ caller[c].arg.src = src

-----------------------------------------------------------------------------
(* Files.                                                                  *)

EdgesOf(files) == UNION {disk[f].edges : f \in files}

LevelOf(files, level) == {f \in files : disk[f].level = level}

\* Everything whose CreateFile record reached the manifest, and what of it a
\* replay of the manifest still finds.
DurableEdges == EdgesOf(manifest.created)
LiveEdges == EdgesOf(manifest.live)

\* alloc_file_id, then CsrWriter::write_segment under the new id.
WriteSegment(level, edges) ==
  /\ ~StateLocked
  /\ next_file_id <= MaxFiles
  /\ disk' = [disk EXCEPT ![next_file_id] = [level |-> level, edges |-> edges]]
  /\ next_file_id' = next_file_id + 1

\* Manifest::append of a CreateFile or a DeleteFile record, seen through the
\* replay in Manifest::load.
AppendCreate(f) ==
  manifest' = [live |-> manifest.live \cup {f},
               created |-> manifest.created \cup {f},
               max_file_id |-> Max({manifest.max_file_id, f}),
               max_ts |-> Max({manifest.max_ts, max_ts(disk[f].edges)})]

AppendDelete(f) == manifest' = [manifest EXCEPT !.live = @ \ {f}]

Spend(what) ==
  /\ budget[what] > 0
  /\ budget' = [budget EXCEPT ![what] = @ - 1]

\* MultiLevelIndex::rebuild with the segments whose offsets could be read: a
\* segment that cannot be read is skipped without an error.
StoreIndex(files) ==
  \/ index' = files /\ UNCHANGED budget
  \/ /\ Spend("faults")
     /\ \E skipped \in SUBSET files \ {{}} : index' = files \ skipped

Finish(c) == caller' = [caller EXCEPT ![c] = IdleCaller]

-----------------------------------------------------------------------------
(* Engine::create and Engine::open.                                        *)

Init ==
  /\ timestamp = 0
  /\ mem = [m \in MemId |-> {}]
  /\ active = 1
  /\ next_file_id = 1
  /\ flush_tasks = <<>>
  /\ version = [memgraphs |-> {1}, l0 |-> {}, l1 |-> {}]
  /\ index = {}
  /\ disk = [f \in FileId |-> [level |-> 0, edges |-> {}]]
  /\ manifest = [live |-> {}, created |-> {}, max_file_id |-> 0, max_ts |-> 0]
  /\ caller = [c \in Callers |-> IdleCaller]
  /\ task = [m \in MemId |-> NoTask]
  /\ written = {}
  /\ horizon = 0
  /\ budget = [reads |-> MaxReads, compactions |-> MaxCompactions,
               faults |-> MaxFaults, crashes |-> MaxCrashes]

\* rebuild_index at the end of open_inner, which spends a restart and, when
\* the offsets of some segment cannot be read, a fault.
OpenIndex(files) ==
  /\ budget.crashes > 0
  /\ \/ /\ index' = files
        /\ budget' = [budget EXCEPT !.crashes = @ - 1]
     \/ /\ budget.faults > 0
        /\ \E skipped \in SUBSET files \ {{}} : index' = files \ skipped
        /\ budget' = [budget EXCEPT !.crashes = @ - 1, !.faults = @ - 1]

\* The process stops anywhere and the store is opened again: every memgraph,
\* task and caller is gone, the rest comes from the manifest.
OpenInner(file_id, ts) ==
  /\ timestamp' = ts
  /\ mem' = [m \in MemId |-> {}]
  /\ active' = 1
  /\ next_file_id' = file_id
  /\ flush_tasks' = <<>>
  /\ version' = [memgraphs |-> {1},
                 l0 |-> LevelOf(manifest.live, 0),
                 l1 |-> LevelOf(manifest.live, 1)]
  /\ OpenIndex(LevelOf(manifest.live, 1))
  /\ caller' = [c \in Callers |-> IdleCaller]
  /\ task' = [m \in MemId |-> NoTask]
  /\ written' = LiveEdges
  /\ horizon' = Min({horizon, manifest.max_ts})
  /\ UNCHANGED storeVars

\* Slip: the next file id is the last one used, not its successor.
ReopenReusesId == OpenInner(manifest.max_file_id, manifest.max_ts)

\* Slip: the next file id is computed from the live files.
ReopenCountsLive ==
  OpenInner(Cardinality(manifest.live) + 1, manifest.max_ts)

\* Slip: the timestamp counter starts again at zero.
ReopenResetsClock == OpenInner(manifest.max_file_id + 1, 0)

Reopen == OpenInner(manifest.max_file_id + 1, manifest.max_ts)

-----------------------------------------------------------------------------
(* insert_edge, delete_edge and the rotation of the active memgraph.       *)

\* The timestamp is taken before any lock.
WriteBegin(c) ==
  /\ caller[c].pc = "idle" /\ "write" \in Operations
  /\ CallerTurn(c)
  /\ timestamp < MaxTs
  /\ timestamp' = timestamp + 1
  /\ \E key \in Keys, marker \in EdgeMarker :
       caller' = [caller EXCEPT
         ![c].pc = "insert", ![c].op = "write",
         ![c].recs = {[key |-> key, ts |-> timestamp + 1, marker |-> marker]}]
  /\ UNCHANGED <<mem, active, next_file_id, flush_tasks, version, index,
                 storeVars, task, auxVars>>

is_full(edges) == Cardinality(edges) >= Capacity

\* write_edge under the vertex and the state lock, when the memgraph has
\* room left: the operation is over.
WriteInsert(c) ==
  LET filled == mem[active] \cup caller[c].recs
  IN /\ caller[c].pc = "insert"
     /\ CallerTurn(c) /\ ~StateLocked
     /\ \A r \in caller[c].recs, d \in Callers \ {c} :
          ~HoldsWrite(d, r.key.src) /\ ~HoldsRead(d, r.key.src)
     /\ ~is_full(filled)
     /\ mem' = [mem EXCEPT ![active] = filled]
     /\ written' = written \cup caller[c].recs
     /\ Finish(c)
     /\ UNCHANGED <<timestamp, active, next_file_id, flush_tasks, version,
                    index, storeVars, task, horizon, budget>>

\* The same when the record fills the memgraph: a new one becomes active and
\* the current version is pinned, still under the state lock.
WriteInsertFull(c) ==
  LET filled == mem[active] \cup caller[c].recs
  IN /\ caller[c].pc = "insert"
     /\ CallerTurn(c) /\ ~StateLocked
     /\ \A r \in caller[c].recs, d \in Callers \ {c} :
          ~HoldsWrite(d, r.key.src) /\ ~HoldsRead(d, r.key.src)
     /\ is_full(filled)
     /\ active < MaxMem
     /\ mem' = [mem EXCEPT ![active] = filled]
     /\ active' = active + 1
     /\ written' = written \cup caller[c].recs
     /\ caller' = [caller EXCEPT ![c].pc = "rotate", ![c].handle = active,
                                 ![c].old = version]
     /\ UNCHANGED <<timestamp, next_file_id, flush_tasks, version, index,
                    storeVars, task, horizon, budget>>

\* flush_active: freeze the active memgraph unless it is empty.
FlushActive(c) ==
  /\ caller[c].pc = "idle" /\ "flush" \in Operations
  /\ CallerTurn(c) /\ ~StateLocked
  /\ \/ /\ mem[active] = {}
        /\ caller' = [caller EXCEPT ![c].pc = "wait", ![c].op = "flush"]
        /\ UNCHANGED active
     \/ /\ mem[active] # {}
        /\ active < MaxMem
        /\ active' = active + 1
        /\ caller' = [caller EXCEPT ![c].pc = "rotate", ![c].op = "flush",
                                    ![c].handle = active, ![c].old = version]
  /\ UNCHANGED <<timestamp, mem, next_file_id, flush_tasks, version, index,
                 storeVars, task, auxVars>>

\* Slip: the task is given the new memgraph instead of the frozen one.
RotatePublishNew(c) ==
  /\ caller[c].pc = "rotate"
  /\ CallerTurn(c)
  /\ version' = [caller[c].old EXCEPT !.memgraphs = @ \cup {active}]
  /\ task' = [task EXCEPT ![caller[c].handle] =
                [NoTask EXCEPT !.pc = "write", !.recs = mem[active]]]
  /\ caller' = [caller EXCEPT ![c].pc = "push", ![c].old = NoVersion]
  /\ UNCHANGED <<engineVars, index, storeVars, auxVars>>

\* Publish the pinned version plus the new memgraph, release the state lock,
\* spawn the flush task of the frozen one.
RotatePublish(c) ==
  /\ caller[c].pc = "rotate"
  /\ CallerTurn(c)
  /\ version' = [caller[c].old EXCEPT !.memgraphs = @ \cup {active}]
  /\ task' = [task EXCEPT ![caller[c].handle] =
                [NoTask EXCEPT !.pc = "write", !.recs = mem[caller[c].handle]]]
  /\ caller' = [caller EXCEPT ![c].pc = "push", ![c].old = NoVersion]
  /\ UNCHANGED <<engineVars, index, storeVars, auxVars>>

\* enqueue_flush stores the handle only after the task has been spawned.
PushHandle(c) ==
  /\ caller[c].pc = "push"
  /\ CallerTurn(c) /\ ~StateLocked
  /\ flush_tasks' = Append(flush_tasks, caller[c].handle)
  /\ caller' = [caller EXCEPT
       ![c] = IF caller[c].op = "write" THEN IdleCaller
              ELSE [IdleCaller EXCEPT !.op = "flush", !.pc = "wait"]]
  /\ UNCHANGED <<timestamp, mem, active, next_file_id, version, index,
                 storeVars, task, auxVars>>

-----------------------------------------------------------------------------
(* wait_for_flushes, on behalf of flush_active or of a compaction.         *)

\* Slip: the last handle is read and stays in the list.
WaitPeek(c) ==
  /\ caller[c].pc = "wait"
  /\ CallerTurn(c) /\ ~StateLocked
  /\ flush_tasks # <<>>
  /\ caller' = [caller EXCEPT
       ![c].pc = "join", ![c].handle = flush_tasks[Len(flush_tasks)]]
  /\ UNCHANGED <<engineVars, version, index, storeVars, task, auxVars>>

WaitPop(c) ==
  /\ caller[c].pc = "wait"
  /\ CallerTurn(c) /\ ~StateLocked
  /\ flush_tasks # <<>>
  /\ flush_tasks' = SubSeq(flush_tasks, 1, Len(flush_tasks) - 1)
  /\ caller' = [caller EXCEPT
       ![c].pc = "join", ![c].handle = flush_tasks[Len(flush_tasks)]]
  /\ UNCHANGED <<timestamp, mem, active, next_file_id, version, index,
                 storeVars, task, auxVars>>

\* Slip: the handle is dropped, which detaches the task.
WaitDetach(c) ==
  /\ caller[c].pc = "join"
  /\ CallerTurn(c)
  /\ caller' = [caller EXCEPT ![c].pc = "wait", ![c].handle = 1]
  /\ UNCHANGED <<engineVars, version, index, storeVars, task, auxVars>>

WaitJoin(c) ==
  /\ caller[c].pc = "join"
  /\ CallerTurn(c)
  /\ task[caller[c].handle].pc = "done"
  /\ caller' = [caller EXCEPT ![c].pc = "wait", ![c].handle = 1]
  /\ UNCHANGED <<engineVars, version, index, storeVars, task, auxVars>>

\* A failed task ends the wait and the operation with its error.
WaitError(c) ==
  /\ caller[c].pc = "join"
  /\ CallerTurn(c)
  /\ task[caller[c].handle].pc = "failed"
  /\ Finish(c)
  /\ UNCHANGED <<engineVars, version, index, storeVars, task, auxVars>>

\* No handle is left.  flush_active returns, or goes on to the automatic
\* compaction, which waits once more; a compaction selects its inputs.
WaitEnd(c) ==
  /\ caller[c].pc = "wait"
  /\ CallerTurn(c) /\ ~StateLocked
  /\ flush_tasks = <<>>
  /\ \/ /\ caller[c].op = "flush" /\ ~AutoCompaction
        /\ Finish(c)
     \/ /\ caller[c].op = "flush" /\ AutoCompaction
        /\ caller' = [caller EXCEPT ![c].op = "auto"]
     \/ /\ caller[c].op \in {"auto", "compact", "target"}
        /\ caller' = [caller EXCEPT ![c].pc = "select"]
  /\ UNCHANGED <<engineVars, version, index, storeVars, task, auxVars>>

-----------------------------------------------------------------------------
(* flush_memgraph, one task per frozen memgraph.                           *)

\* build_l0_flush_segments: one segment, or with graph_aware_l0 some
\* partition of the records by label, type and source range.
FlushSegments(recs) ==
  IF GraphAwareL0 THEN SUBSET recs \ {{}} ELSE {recs}

FlushWrite(m) ==
  /\ task[m].pc = "write"
  /\ TaskTurn(m)
  /\ \E segment \in FlushSegments(task[m].recs) :
       /\ WriteSegment(0, segment)
       /\ task' = [task EXCEPT ![m].pc = "append", ![m].file = {next_file_id},
                               ![m].recs = @ \ segment]
  /\ UNCHANGED <<timestamp, mem, active, flush_tasks, version, index, manifest,
                 caller, auxVars>>

\* Slip: the task is done after its first segment.
FlushAppendFirst(m) ==
  /\ task[m].pc = "append"
  /\ TaskTurn(m)
  /\ \E f \in task[m].file :
       /\ AppendCreate(f)
       /\ task' = [task EXCEPT ![m].pc = "pin", ![m].files = @ \cup {f},
                               ![m].file = {}, ![m].recs = {}]
  /\ UNCHANGED <<engineVars, version, index, disk, caller, auxVars>>

FlushAppend(m) ==
  /\ task[m].pc = "append"
  /\ TaskTurn(m)
  /\ \E f \in task[m].file :
       /\ AppendCreate(f)
       /\ task' = [task EXCEPT
            ![m].pc = IF task[m].recs = {} THEN "pin" ELSE "write",
            ![m].files = @ \cup {f}, ![m].file = {}]
  /\ UNCHANGED <<engineVars, version, index, disk, caller, auxVars>>

FlushPin(m) ==
  /\ task[m].pc = "pin"
  /\ TaskTurn(m)
  /\ task' = [task EXCEPT ![m].pc = "publish", ![m].old = version]
  /\ UNCHANGED <<engineVars, version, index, storeVars, caller, auxVars>>

\* Slip: the memgraph is unlinked and its segments are not linked.
FlushPublishUnlinks(m) ==
  /\ task[m].pc = "publish"
  /\ TaskTurn(m)
  /\ version' = [task[m].old EXCEPT !.memgraphs = @ \ {m}]
  /\ task' = [task EXCEPT ![m].pc = "index", ![m].old = NoVersion]
  /\ UNCHANGED <<engineVars, index, storeVars, caller, auxVars>>

\* The pinned version plus the new segments, without the flushed memgraph.
FlushPublish(m) ==
  /\ task[m].pc = "publish"
  /\ TaskTurn(m)
  /\ version' = [task[m].old EXCEPT !.memgraphs = @ \ {m},
                                    !.l0 = @ \cup task[m].files]
  /\ task' = [task EXCEPT ![m].pc = "index", ![m].old = NoVersion]
  /\ UNCHANGED <<engineVars, index, storeVars, caller, auxVars>>

\* rebuild_index pins a version of its own and reads its L1 offsets ...
FlushIndexPin(m) ==
  /\ task[m].pc = "index"
  /\ TaskTurn(m)
  /\ task' = [task EXCEPT ![m].pc = "store", ![m].old = version]
  /\ UNCHANGED <<engineVars, version, index, storeVars, caller, auxVars>>

\* ... and replaces the index by what it has read.
FlushIndexStore(m) ==
  /\ task[m].pc = "store"
  /\ TaskTurn(m)
  /\ StoreIndex(task[m].old.l1)
  /\ task' = [task EXCEPT ![m] = [NoTask EXCEPT !.pc = "done"]]
  /\ UNCHANGED <<engineVars, version, storeVars, caller, written, horizon>>

\* A write or an append fails: the task ends, the memgraph stays where it is
\* and nobody tries again.  A failed append may have reached the log.
FlushFail(m) ==
  /\ task[m].pc \in {"write", "append"}
  /\ TaskTurn(m)
  /\ Spend("faults")
  /\ \/ UNCHANGED manifest
     \/ \E f \in task[m].file : AppendCreate(f)
  /\ task' = [task EXCEPT ![m] = [NoTask EXCEPT !.pc = "failed"]]
  /\ UNCHANGED <<engineVars, version, index, disk, caller, written, horizon>>

TaskStep(m) ==
  \/ FlushWrite(m) \/ FlushAppend(m) \/ FlushPin(m) \/ FlushPublish(m)
  \/ FlushIndexPin(m) \/ FlushIndexStore(m) \/ FlushFail(m)

-----------------------------------------------------------------------------
(* compact_l0_to_l1 ("compact"), its automatic form ("auto") and the       *)
(* partition and range compactions ("target").                             *)

CompactBegin(c) ==
  /\ caller[c].pc = "idle"
  /\ CallerTurn(c)
  /\ Spend("compactions")
  /\ \/ /\ "compact" \in Operations
        /\ caller' = [caller EXCEPT ![c].pc = "wait", ![c].op = "compact"]
     \/ /\ "target" \in Operations
        /\ \E target \in Targets :
             caller' = [caller EXCEPT ![c].pc = "wait", ![c].op = "target",
                                      ![c].arg = target]
  /\ UNCHANGED <<engineVars, version, index, storeVars, task, written, horizon>>

\* The inputs in the pinned version v.  A full compaction takes all of L0 and
\* L1, the automatic one only when L0 has grown to the threshold; a targeted
\* one takes the L0 segments it matches and the L1 segments they overlap.
SelectedInputs(c, v) ==
  LET full == v.l0 \cup v.l1
      target == caller[c].arg
      l0 == {f \in v.l0 : target_matches_meta(disk[f].edges, target)}
      lo == Min({min_src(disk[f].edges) : f \in l0})
      hi == Max({max_src(disk[f].edges) : f \in l0})
      l1 == {f \in v.l1 :
               /\ partition_overlaps_target(disk[f].edges, target.src_label,
                                            target.edge_type)
               /\ ranges_overlap(min_src(disk[f].edges),
                                 max_src(disk[f].edges), lo, hi)}
  IN CASE caller[c].op = "target" -> IF l0 = {} THEN {} ELSE l0 \cup l1
       [] caller[c].op = "auto" ->
            IF Cardinality(v.l0) < L0FileThreshold THEN {} ELSE full
       [] OTHER -> full

\* Pin a version and choose the inputs; without any in L0 there is nothing
\* to do.
CompactSelect(c) ==
  LET inputs == SelectedInputs(c, version)
  IN /\ caller[c].pc = "select"
     /\ CallerTurn(c)
     /\ IF inputs \cap version.l0 = {}
          THEN Finish(c)
          ELSE caller' = [caller EXCEPT ![c].pc = "merge", ![c].sel = inputs]
     /\ UNCHANGED <<engineVars, version, index, storeVars, task, auxVars>>

\* Slip: the snapshot is one behind.
CompactMergeBehind(c) ==
  /\ caller[c].pc = "merge"
  /\ CallerTurn(c)
  /\ caller' = [caller EXCEPT
       ![c].pc = "write",
       ![c].recs = merge_latest_records(EdgesOf(caller[c].sel),
                                        timestamp - 1, TRUE)]
  /\ horizon' = timestamp
  /\ UNCHANGED <<engineVars, version, index, storeVars, task, written, budget>>

\* Slip: tombstones are dropped.
CompactMergeDrops(c) ==
  /\ caller[c].pc = "merge"
  /\ CallerTurn(c)
  /\ caller' = [caller EXCEPT
       ![c].pc = "write",
       ![c].recs = merge_latest_records(EdgesOf(caller[c].sel), timestamp,
                                        FALSE)]
  /\ horizon' = timestamp
  /\ UNCHANGED <<engineVars, version, index, storeVars, task, written, budget>>

\* Read the inputs and merge them at the snapshot current by then, keeping
\* tombstones.
CompactMerge(c) ==
  /\ caller[c].pc = "merge"
  /\ CallerTurn(c)
  /\ caller' = [caller EXCEPT
       ![c].pc = "write",
       ![c].recs = merge_latest_records(EdgesOf(caller[c].sel), timestamp, TRUE)]
  /\ horizon' = timestamp
  /\ UNCHANGED <<engineVars, version, index, storeVars, task, written, budget>>

\* One L1 segment for a full compaction, range-bounded ones for a targeted
\* one (split_compaction_segments).
CompactWrite(c) ==
  LET segment == IF caller[c].op = "target"
                   THEN first_range_segment(caller[c].recs, TargetEdges)
                   ELSE caller[c].recs
  IN /\ caller[c].pc = "write"
     /\ CallerTurn(c)
     /\ WriteSegment(1, segment)
     /\ caller' = [caller EXCEPT ![c].pc = "append",
                                 ![c].file = {next_file_id},
                                 ![c].recs = @ \ segment]
     /\ UNCHANGED <<timestamp, mem, active, flush_tasks, version, index,
                    manifest, task, auxVars>>

\* Slip: the inputs are deleted as soon as one output is in the manifest.
CompactAppendEarly(c) ==
  /\ caller[c].pc = "append"
  /\ CallerTurn(c)
  /\ \E f \in caller[c].file :
       /\ AppendCreate(f)
       /\ caller' = [caller EXCEPT
            ![c].pc = "delete", ![c].recs = {},
            ![c].outs = @ \cup {f}, ![c].file = {}, ![c].del = caller[c].sel]
  /\ UNCHANGED <<engineVars, version, index, disk, task, auxVars>>

CompactAppend(c) ==
  /\ caller[c].pc = "append"
  /\ CallerTurn(c)
  /\ \E f \in caller[c].file :
       /\ AppendCreate(f)
       /\ caller' = [caller EXCEPT
            ![c].pc = IF caller[c].recs = {} THEN "delete" ELSE "write",
            ![c].outs = @ \cup {f}, ![c].file = {}, ![c].del = caller[c].sel]
  /\ UNCHANGED <<engineVars, version, index, disk, task, auxVars>>

\* The inputs of L0 are deleted before those of L1.
NextDeletes(c) ==
  LET l0 == LevelOf(caller[c].del, 0)
  IN IF l0 # {} THEN l0 ELSE caller[c].del

\* A DeleteFile record for one input after the other.
CompactDelete(c) ==
  /\ caller[c].pc = "delete"
  /\ CallerTurn(c)
  /\ \E f \in NextDeletes(c) :
       /\ AppendDelete(f)
       /\ caller' = [caller EXCEPT
            ![c].pc = IF caller[c].del = {f} THEN "pin" ELSE "delete",
            ![c].del = @ \ {f}]
  /\ UNCHANGED <<engineVars, version, index, disk, task, auxVars>>

CompactPin(c) ==
  /\ caller[c].pc = "pin"
  /\ CallerTurn(c)
  /\ caller' = [caller EXCEPT ![c].pc = "publish", ![c].old = version]
  /\ UNCHANGED <<engineVars, version, index, storeVars, task, auxVars>>

\* Slip: a targeted compaction clears L0 like a full one.
CompactPublishClears(c) ==
  LET old == caller[c].old
  IN /\ caller[c].pc = "publish"
     /\ CallerTurn(c)
     /\ version' = [old EXCEPT !.l0 = {},
                               !.l1 = (@ \ caller[c].sel) \cup caller[c].outs]
     /\ caller' = [caller EXCEPT ![c] =
                     [IdleCaller EXCEPT !.pc = "index", !.op = caller[c].op]]
     /\ UNCHANGED <<engineVars, index, storeVars, task, auxVars>>

\* A full compaction clears both levels; a targeted one removes exactly its
\* inputs.
CompactPublish(c) ==
  LET old == caller[c].old
  IN /\ caller[c].pc = "publish"
     /\ CallerTurn(c)
     /\ version' =
          IF caller[c].op = "target"
            THEN [old EXCEPT !.l0 = @ \ caller[c].sel,
                             !.l1 = (@ \ caller[c].sel) \cup caller[c].outs]
            ELSE [old EXCEPT !.l0 = {}, !.l1 = caller[c].outs]
     /\ caller' = [caller EXCEPT ![c] =
                     [IdleCaller EXCEPT !.pc = "index", !.op = caller[c].op]]
     /\ UNCHANGED <<engineVars, index, storeVars, task, auxVars>>

CompactIndexPin(c) ==
  /\ caller[c].pc = "index"
  /\ CallerTurn(c)
  /\ caller' = [caller EXCEPT ![c].pc = "store", ![c].old = version]
  /\ UNCHANGED <<engineVars, version, index, storeVars, task, auxVars>>

\* Slip: the index is not rebuilt.
CompactIndexSkip(c) ==
  /\ caller[c].pc = "store"
  /\ CallerTurn(c)
  /\ Finish(c)
  /\ UNCHANGED <<engineVars, version, index, storeVars, task, auxVars>>

CompactIndexStore(c) ==
  /\ caller[c].pc = "store"
  /\ CallerTurn(c)
  /\ StoreIndex(caller[c].old.l1)
  /\ Finish(c)
  /\ UNCHANGED <<engineVars, version, storeVars, task, written, horizon>>

\* A read, a write or an append fails: the compaction stops where it is.
CompactFail(c) ==
  /\ caller[c].pc \in {"merge", "write", "append", "delete"}
  /\ CallerTurn(c)
  /\ Spend("faults")
  /\ \/ UNCHANGED manifest
     \/ \E f \in caller[c].file : AppendCreate(f)
     \/ /\ caller[c].pc = "delete"
        /\ \E f \in NextDeletes(c) : AppendDelete(f)
  /\ Finish(c)
  /\ UNCHANGED <<engineVars, version, index, disk, task, written, horizon>>

-----------------------------------------------------------------------------
(* scan_edges and get_neighbors.                                           *)

\* The caller brings a snapshot: the current one, or an older one it kept.
\* get_neighbors takes the vertex lock before it pins.
ReadBegin(c) ==
  /\ caller[c].pc = "idle"
  /\ CallerTurn(c)
  /\ Spend("reads")
  /\ \E snapshot \in 0..timestamp :
       \/ /\ "scan" \in Operations
          /\ caller' = [caller EXCEPT
               ![c].pc = "read", ![c].op = "scan", ![c].snapshot = snapshot,
               ![c].old = version]
       \/ /\ "neighbors" \in Operations
          /\ \E query \in Queries :
               /\ \A d \in Callers \ {c} : ~HoldsWrite(d, query.src)
               /\ caller' = [caller EXCEPT
                    ![c].pc = "read", ![c].op = "neighbors", ![c].arg = query,
                    ![c].snapshot = snapshot, ![c].old = version]
  /\ UNCHANGED <<engineVars, version, index, storeVars, task, written, horizon>>

OfSource(edges, src) == {e \in edges : e.key.src = src}

MemEdges(v) == UNION {mem[m] : m \in v.memgraphs}

\* A scan reads the memgraphs and then all segments of the pinned version.
ScanRead(c) ==
  LET v == caller[c].old
  IN /\ caller[c].pc = "read" /\ caller[c].op = "scan"
     /\ CallerTurn(c)
     /\ caller' = [caller EXCEPT
          ![c].pc = "done", ![c].old = NoVersion,
          ![c].recs = merge_visible(MemEdges(v) \cup EdgesOf(v.l0 \cup v.l1),
                                    caller[c].snapshot)]
     /\ UNCHANGED <<engineVars, version, index, storeVars, task, auxVars>>

\* get_neighbors reads the memgraphs and the L0 segments of the pinned
\* version that pass the partition and range filters ...
NeighborsRead(c) ==
  LET v == caller[c].old
      q == caller[c].arg
      candidates == {f \in v.l0 :
        /\ may_contain_partition(disk[f].edges, q.src, q.edge_type)
        /\ min_src(disk[f].edges) <= q.src /\ q.src <= max_src(disk[f].edges)}
  IN /\ caller[c].pc = "read" /\ caller[c].op = "neighbors"
     /\ CallerTurn(c)
     /\ caller' = [caller EXCEPT
          ![c].pc = "lookup", ![c].old = NoVersion,
          ![c].recs = OfSource(MemEdges(v) \cup EdgesOf(candidates), q.src)]
     /\ UNCHANGED <<engineVars, version, index, storeVars, task, auxVars>>

\* ... and then L1 through the index as it is by now.
NeighborsLookup(c) ==
  LET q == caller[c].arg
      updates == caller[c].recs \cup OfSource(EdgesOf(index), q.src)
      typed == {e \in updates :
                  q.edge_type = NoEdgeType \/ e.key.edge_type \in q.edge_type}
  IN /\ caller[c].pc = "lookup"
     /\ CallerTurn(c)
     /\ caller' = [caller EXCEPT
          ![c].pc = "done",
          ![c].recs = merge_visible(typed, caller[c].snapshot)]
     /\ UNCHANGED <<engineVars, version, index, storeVars, task, auxVars>>

\* A segment cannot be read: the error ends the operation.
ReadFail(c) ==
  /\ caller[c].pc \in {"read", "lookup"}
  /\ CallerTurn(c)
  /\ Spend("faults")
  /\ Finish(c)
  /\ UNCHANGED <<engineVars, version, index, storeVars, task, written, horizon>>

ReadReturn(c) ==
  /\ caller[c].pc = "done"
  /\ CallerTurn(c)
  /\ Finish(c)
  /\ UNCHANGED <<engineVars, version, index, storeVars, task, auxVars>>

-----------------------------------------------------------------------------
(* The specification.                                                      *)

\* A caller's steps inside an operation it has begun.
CallerStep(c) ==
  \/ WriteInsert(c) \/ WriteInsertFull(c) \/ RotatePublish(c) \/ PushHandle(c)
  \/ WaitPop(c) \/ WaitJoin(c) \/ WaitError(c) \/ WaitEnd(c)
  \/ CompactSelect(c) \/ CompactMerge(c) \/ CompactWrite(c) \/ CompactAppend(c)
  \/ CompactDelete(c) \/ CompactPin(c) \/ CompactPublish(c)
  \/ CompactIndexPin(c) \/ CompactIndexStore(c) \/ CompactFail(c)
  \/ ScanRead(c) \/ NeighborsRead(c) \/ NeighborsLookup(c)
  \/ ReadFail(c) \/ ReadReturn(c)

CallerBegin(c) ==
  WriteBegin(c) \/ FlushActive(c) \/ CompactBegin(c) \/ ReadBegin(c)

Next ==
  \/ \E c \in Callers : CallerBegin(c) \/ CallerStep(c)
  \/ \E m \in MemId : TaskStep(m)
  \/ Reopen

Spec == Init /\ [][Next]_vars

\* The runtime keeps polling a caller inside an operation and a spawned task,
\* and I/O completes; nobody is obliged to start an operation.
FairSpec ==
  /\ Spec
  /\ \A c \in Callers : WF_vars(CallerStep(c))
  /\ \A m \in MemId : WF_vars(TaskStep(m))

-----------------------------------------------------------------------------
(* Properties.                                                             *)

CallerPc == {"idle", "insert", "rotate", "push", "wait", "join", "select",
             "merge", "write", "append", "delete", "pin", "publish", "index",
             "store", "read", "lookup", "done"}

TaskPc == {"none", "write", "append", "pin", "publish", "index", "store",
           "done", "failed"}

CallerState ==
  [pc : CallerPc,
   op : {"none", "write", "flush", "auto", "compact", "target", "scan",
         "neighbors"},
   arg : Targets \cup Queries \cup {NoArg}, snapshot : 0..MaxTs,
   handle : MemId, recs : SUBSET EdgeRecord, old : Version,
   sel : SUBSET FileId, del : SUBSET FileId, outs : SUBSET FileId,
   file : SUBSET FileId]

TaskState ==
  [pc : TaskPc, recs : SUBSET EdgeRecord, files : SUBSET FileId,
   file : SUBSET FileId, old : Version]

\* Every variable has its type: the ids, timestamps and versions that the
\* engine, its callers and its flush tasks hold stay in their ranges.
TypeOK ==
  /\ timestamp \in 0..MaxTs
  /\ mem \in [MemId -> SUBSET EdgeRecord]
  /\ active \in MemId
  /\ next_file_id \in 1..(MaxFiles + 1)
  /\ flush_tasks \in Seq(MemId)
  /\ version \in Version
  /\ index \in SUBSET FileId
  /\ disk \in [FileId -> Segment]
  /\ manifest \in ManifestState
  /\ caller \in [Callers -> CallerState]
  /\ task \in [MemId -> TaskState]
  /\ written \in SUBSET EdgeRecord
  /\ horizon \in 0..MaxTs
  /\ budget \in Budget

\* Reopening the store at any moment shows, for every edge, exactly the
\* newest version that was ever persisted: compaction, its DeleteFile
\* records, failures half-way through and restarts lose nothing and bring
\* nothing back.
RecoveryExact ==
  merge_visible(LiveEdges, manifest.max_ts)
    = merge_visible(DurableEdges, manifest.max_ts)

\* A record that write_edge has inserted is in the active memgraph, in a
\* frozen one whose flush is under way or has failed, or persisted: rotation
\* drops no memgraph and no flush ends before its last segment is in the
\* manifest.
EveryWriteHeld ==
  \A r \in written :
    \/ r \in mem[active]
    \/ \E m \in MemId :
         /\ r \in mem[m]
         /\ \/ task[m].pc \in {"write", "append", "failed"}
            \/ \E c \in Callers : caller[c].pc = "rotate" /\ caller[c].handle = m
    \/ r \in DurableEdges

\* A timestamp belongs to one record, across concurrent writers, flushes,
\* compactions and restarts: merge_latest_records relies on it to order the
\* versions of an edge.
TimestampsUnique ==
  LET records == DurableEdges \cup (UNION {mem[m] : m \in MemId})
                   \cup (UNION {caller[c].recs : c \in Callers})
  IN \A r, s \in records : r.ts = s.ts => r = s

\* A segment named by the manifest is never written again: no file id is
\* given out twice, not even after a restart that follows a deletion.
SegmentsImmutable == [][\A f \in manifest.created : disk'[f] = disk[f]]_vars

Quiescent ==
  /\ \A c \in Callers : caller[c].pc = "idle"
  /\ \A m \in MemId : task[m].pc \in {"none", "done", "failed"}

\* At rest the published version shows every written record, at every
\* snapshot that no compaction has merged past.
VersionExact ==
  Quiescent =>
    \A snapshot \in horizon..timestamp :
      merge_visible(MemEdges(version) \cup EdgesOf(version.l0 \cup version.l1),
                    snapshot)
        = merge_visible(written, snapshot)

\* At rest the index names the L1 segments of the published version.
IndexExact == Quiescent => index = version.l1

\* What scan_edges and get_neighbors return is what was written, as seen by
\* the caller's snapshot, whatever flush tasks did meanwhile.
ReadExact ==
  \A c \in Callers :
    LET q == caller[c].arg
        asked == IF caller[c].op = "scan" THEN written
                 ELSE {e \in written :
                         /\ e.key.src = q.src
                         /\ \/ q.edge_type = NoEdgeType
                            \/ e.key.edge_type \in q.edge_type}
    IN caller[c].pc = "done" /\ caller[c].snapshot >= horizon =>
         caller[c].recs = merge_visible(asked, caller[c].snapshot)

VisibleIn(v) ==
  merge_visible(MemEdges(v) \cup EdgesOf(v.l0 \cup v.l1), timestamp)

\* Installing the outputs of a compaction changes nothing that a scan at the
\* current snapshot shows.
CompactionPreservesVisible ==
  [][\A c \in Callers :
       caller[c].pc = "publish" /\ caller'[c].pc = "index" =>
         VisibleIn(version)' = VisibleIn(version)]_vars

\* When flush_active returns Ok, every record written before is persisted,
\* unless the flush of its memgraph has failed.
FlushActiveDurable ==
  [][\A c \in Callers :
       /\ caller[c].op = "flush" /\ caller[c].pc = "wait"
       /\ caller'[c].op # "flush" /\ timestamp' = timestamp
       /\ budget'.crashes = budget.crashes
       => \A r \in written :
            \/ r \in DurableEdges
            \/ \E m \in MemId : r \in mem[m] /\ task[m].pc = "failed"]_vars

\* A caller that has asked for a flush or a compaction gets an answer: no
\* handle is waited for in vain, whoever else waits, rotates or fails.
OperationReturns ==
  \A c \in Callers :
    caller[c].op \in {"flush", "compact", "target", "auto"}
      ~> caller[c].pc = "idle"

-----------------------------------------------------------------------------
(* Refinement.                                                             *)

Store == INSTANCE GraphStore
           WITH saved <- merge_latest_records(LiveEdges, MaxTs, TRUE)

\* The engine implements GraphStore, with "saved" read off the manifest: only
\* the CreateFile record of a flush adds to it, only records written before,
\* and neither a compaction in any of its steps nor a failure nor a restart
\* changes it.
ImplementsStore == Store!Spec

=============================================================================
