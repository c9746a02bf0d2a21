------------------------ MODULE LsmEngineDurability ------------------------
(***************************************************************************)
(* Why no write is lost on the way from write_edge to the manifest, and    *)
(* that the engine implements GraphStore.  LsmEngineProofs is about what   *)
(* is persisted; this module is about what is not yet: a rotation freezes  *)
(* the whole memgraph, a flush task carries it all, and ends only when its *)
(* last segment is in the manifest.                                        *)
(***************************************************************************)
EXTENDS LsmEngineProofs

-----------------------------------------------------------------------------
(* The inductive invariant.                                                *)

\* Rotations and flush tasks are about frozen memgraphs.
Frozen ==
  /\ \A c \in Callers : caller[c].pc = "rotate" => caller[c].handle < active
  /\ \A m \in MemId : task[m].pc # "none" => m < active

\* The segments that a flush task has written.
Written(m) == EdgesOf(task[m].files \cup task[m].file)

\* Until it ends or fails, a flush task has written every record of its
\* memgraph or has it still in hand; it publishes when it has written all.
Carries(m) ==
  /\ task[m].pc \in {"write", "append"} =>
       mem[m] \subseteq task[m].recs \cup Written(m)
  /\ task[m].pc \in {"pin", "publish"} => mem[m] \subseteq Written(m)
  /\ task[m].pc # "append" => task[m].file = {}
  /\ task[m].pc = "append" => \E f \in FileId : task[m].file = {f}

TasksCarry == \A m \in MemId : Carries(m)

DurabilityInv ==
  /\ RecoveryInv
  /\ Frozen
  /\ TasksCarry
  /\ EveryWriteHeld

LEMMA InitDurability == Init => DurabilityInv
<1> SUFFICES ASSUME Init PROVE DurabilityInv
  OBVIOUS
<1>1. Frozen /\ TasksCarry
  BY DEF Init, Frozen, TasksCarry, Carries, IdleCaller, NoTask
<1>2. EveryWriteHeld
  BY DEF Init, EveryWriteHeld
<1> QED BY <1>1, <1>2, InitRecovery DEF DurabilityInv

-----------------------------------------------------------------------------
(* The steps.                                                              *)

\* A step of caller c that neither inserts nor rotates.
CalmStep(c) ==
  /\ \A d \in Callers \ {c} : caller'[d] = caller[d]
  /\ caller[c].pc # "rotate" /\ caller'[c].pc \notin {"rotate", "push"}
  /\ caller'[c].pc = "insert" =>
       caller'[c].op = "write" /\ \E r \in EdgeRecord : caller'[c].recs = {r}
  /\ caller'[c].op = "flush" =>
       \/ caller[c].op = "flush"
       \/ (caller[c].pc = "push" /\ caller[c].op # "write")
  /\ caller[c].pc = "wait" /\ caller'[c].op # caller[c].op => flush_tasks = <<>>
  /\ \/ PushHandle(c) \/ WaitPop(c) \/ WaitJoin(c) \/ WaitError(c)
     \/ UNCHANGED flush_tasks /\ caller[c].pc \notin {"push", "join"}
  /\ UNCHANGED <<mem, active, task, written>>

LEMMA CalmWaits ==
  ASSUME TypeOK, NEW c \in Callers,
         \/ WriteBegin(c) \/ PushHandle(c) \/ WaitPop(c) \/ WaitJoin(c)
         \/ WaitError(c) \/ WaitEnd(c)
  PROVE  CalmStep(c)
<1> USE DEF CalmStep, TypeOK, CallerState, engineVars, auxVars, IdleCaller, Finish
<1>1. CASE WriteBegin(c)
  <2>1. UNCHANGED <<mem, active, task, written, flush_tasks>>
    BY <1>1 DEF WriteBegin
  <2>2. \E recs : caller' = [caller EXCEPT ![c].pc = "insert",
                               ![c].op = "write", ![c].recs = recs]
    BY <1>1 DEF WriteBegin
  <2>3. caller'[c].op = "write"
    BY <2>2
  <2> QED BY <1>1, <2>1, <2>3, WriteBeginEffect
<1>2. CASE PushHandle(c)
  <2>1. PICK next \in {IdleCaller,
                       [IdleCaller EXCEPT !.op = "flush", !.pc = "wait"]} :
          /\ caller' = [caller EXCEPT ![c] = next]
          /\ next.op = "flush" => caller[c].op # "write"
    BY <1>2 DEF PushHandle
  <2> QED BY <1>2, <2>1 DEF PushHandle
<1>3. CASE WaitPop(c)
  <2>1. caller'[c].pc = "join" /\ caller'[c].op = caller[c].op
    BY <1>3 DEF WaitPop
  <2> QED BY <1>3, <2>1 DEF WaitPop
<1>4. CASE WaitJoin(c)
  BY <1>4 DEF WaitJoin
<1>5. CASE WaitError(c)
  BY <1>5 DEF WaitError
<1>6. CASE WaitEnd(c)
  <2>1. /\ caller[c].pc = "wait" /\ flush_tasks = <<>>
        /\ UNCHANGED <<mem, active, task, written, flush_tasks>>
    BY <1>6 DEF WaitEnd
  <2>2. \/ caller' = [caller EXCEPT ![c] = IdleCaller]
        \/ caller' = [caller EXCEPT ![c].op = "auto"]
        \/ caller' = [caller EXCEPT ![c].pc = "select"]
    BY <1>6 DEF WaitEnd
  <2> QED BY <2>1, <2>2
<1> QED BY <1>1, <1>2, <1>3, <1>4, <1>5, <1>6

\* The other steps of a caller write, wait for nothing and drop no handle.
LEMMA CalmByFields ==
  ASSUME TypeOK, NEW c \in Callers,
         \A d \in Callers \ {c} : caller'[d] = caller[d],
         caller[c].pc \notin {"rotate", "push", "join", "wait"},
         caller'[c].pc \notin {"rotate", "push", "insert"},
         caller'[c].op # "flush" \/ caller'[c].op = caller[c].op,
         UNCHANGED <<mem, active, task, written, flush_tasks>>
  PROVE  CalmStep(c)
BY DEF CalmStep

LEMMA CalmCompactions ==
  ASSUME TypeOK, NEW c \in Callers,
         \/ CompactBegin(c) \/ CompactSelect(c) \/ CompactMerge(c)
         \/ CompactWrite(c) \/ CompactAppend(c) \/ CompactDelete(c)
         \/ CompactPin(c) \/ CompactPublish(c) \/ CompactIndexPin(c)
         \/ CompactIndexStore(c) \/ CompactFail(c)
  PROVE  CalmStep(c)
<1> USE DEF TypeOK, CallerState, engineVars, auxVars, IdleCaller, Finish
<1> DEFINE
      Kept == UNCHANGED <<mem, active, task, written, flush_tasks>>
      Moved == /\ \A d \in Callers \ {c} : caller'[d] = caller[d]
               /\ caller[c].pc \notin {"rotate", "push", "join", "wait"}
               /\ caller'[c].pc \notin {"rotate", "push", "insert"}
               /\ caller'[c].op # "flush" \/ caller'[c].op = caller[c].op
<1>1. CASE CompactBegin(c)
  <2>1. caller[c].pc = "idle" /\ Kept
    BY <1>1 DEF CompactBegin
  <2>2. CASE caller' = [caller EXCEPT ![c].pc = "wait", ![c].op = "compact"]
    BY <2>1, <2>2, CalmByFields
  <2>3. ASSUME NEW target \in Targets,
               caller' = [caller EXCEPT ![c].pc = "wait", ![c].op = "target",
                                        ![c].arg = target]
        PROVE  CalmStep(c)
    <3>1. Moved
      BY <2>1, <2>3
    <3> QED BY <2>1, <3>1, CalmByFields
  <2> QED BY <1>1, <2>2, <2>3 DEF CompactBegin
<1>2. CASE CompactSelect(c)
  <2>1. caller[c].pc = "select" /\ Kept
    BY <1>2 DEF CompactSelect
  <2>2. \/ Finish(c)
        \/ \E inputs :
             caller' = [caller EXCEPT ![c].pc = "merge", ![c].sel = inputs]
    BY <1>2 DEF CompactSelect
  <2>3. Moved
    BY <2>1, <2>2
  <2> QED BY <2>1, <2>3, CalmByFields
<1>3. CASE CompactMerge(c)
  <2>1. /\ caller[c].pc = "merge" /\ Kept
        /\ \E recs : caller' = [caller EXCEPT ![c].pc = "write",
                                              ![c].recs = recs]
    BY <1>3 DEF CompactMerge
  <2>2. Moved
    BY <2>1
  <2> QED BY <2>1, <2>2, CalmByFields
<1>4. CASE CompactWrite(c)
  <2>1. /\ caller[c].pc = "write" /\ Kept
        /\ \E file, recs : caller' = [caller EXCEPT
             ![c].pc = "append", ![c].file = file, ![c].recs = recs]
    BY <1>4 DEF CompactWrite
  <2>2. Moved
    BY <2>1
  <2> QED BY <2>1, <2>2, CalmByFields
<1>5. CASE CompactAppend(c)
  <2> DEFINE next == IF caller[c].recs = {} THEN "delete" ELSE "write"
  <2>1. caller[c].pc = "append" /\ Kept
    BY <1>5 DEF CompactAppend
  <2>2. PICK outs, del : caller' = [caller EXCEPT
          ![c].pc = next, ![c].outs = outs, ![c].file = {}, ![c].del = del]
    BY <1>5 DEF CompactAppend
  <2>3. next \in {"delete", "write"}
    OBVIOUS
  <2> HIDE DEF next
  <2>4. Moved
    BY <2>1, <2>2, <2>3
  <2> QED BY <2>1, <2>4, CalmByFields
<1>6. CASE CompactDelete(c)
  <2>1. /\ caller[c].pc = "delete" /\ Kept
        /\ \E f, del : caller' = [caller EXCEPT
             ![c].pc = IF caller[c].del = {f} THEN "pin" ELSE "delete",
             ![c].del = del]
    BY <1>6 DEF CompactDelete
  <2>2. PICK f, del : caller' = [caller EXCEPT
          ![c].pc = IF caller[c].del = {f} THEN "pin" ELSE "delete",
          ![c].del = del]
    BY <2>1
  <2>3. /\ caller'[c].op = caller[c].op
        /\ caller'[c].pc = IF caller[c].del = {f} THEN "pin" ELSE "delete"
        /\ \A d \in Callers \ {c} : caller'[d] = caller[d]
    BY <2>2
  <2>4. Moved
    BY <2>1, <2>3
  <2> QED BY <2>1, <2>4, CalmByFields
<1>7. CASE CompactPin(c) \/ CompactIndexPin(c)
  <2>1. caller[c].pc \in {"pin", "index"} /\ Kept
    BY <1>7 DEF CompactPin, CompactIndexPin
  <2>2. Moved
    BY <1>7, <2>1 DEF CompactPin, CompactIndexPin
  <2> QED BY <2>1, <2>2, CalmByFields
<1>8. CASE CompactPublish(c)
  <2>1. caller[c].pc = "publish" /\ Kept
    BY <1>8 DEF CompactPublish
  <2>2. Moved
    BY <1>8, <2>1 DEF CompactPublish
  <2> QED BY <2>1, <2>2, CalmByFields
<1>9. CASE CompactIndexStore(c) \/ CompactFail(c)
  <2>1. /\ caller[c].pc \in {"store", "merge", "write", "append", "delete"}
        /\ Kept
    BY <1>9 DEF CompactIndexStore, CompactFail
  <2>2. Moved
    BY <1>9, <2>1 DEF CompactIndexStore, CompactFail
  <2> QED BY <2>1, <2>2, CalmByFields
<1> QED BY <1>1, <1>2, <1>3, <1>4, <1>5, <1>6, <1>7, <1>8, <1>9

LEMMA CalmReads ==
  ASSUME TypeOK, NEW c \in Callers,
         \/ ReadBegin(c) \/ ScanRead(c) \/ NeighborsRead(c)
         \/ NeighborsLookup(c) \/ ReadFail(c) \/ ReadReturn(c)
  PROVE  CalmStep(c)
<1> USE DEF TypeOK, CallerState, engineVars, auxVars, IdleCaller, Finish
<1> DEFINE
      Kept == UNCHANGED <<mem, active, task, written, flush_tasks>>
      Moved == /\ \A d \in Callers \ {c} : caller'[d] = caller[d]
               /\ caller[c].pc \notin {"rotate", "push", "join", "wait"}
               /\ caller'[c].pc \notin {"rotate", "push", "insert"}
               /\ caller'[c].op # "flush" \/ caller'[c].op = caller[c].op
<1>1. CASE ReadBegin(c)
  <2>1. caller[c].pc = "idle" /\ Kept
    BY <1>1 DEF ReadBegin
  <2>2. PICK snapshot \in 0..timestamp :
          \/ caller' = [caller EXCEPT ![c].pc = "read", ![c].op = "scan",
               ![c].snapshot = snapshot, ![c].old = version]
          \/ \E query \in Queries :
               caller' = [caller EXCEPT ![c].pc = "read",
                 ![c].op = "neighbors", ![c].arg = query,
                 ![c].snapshot = snapshot, ![c].old = version]
    BY <1>1 DEF ReadBegin
  <2>3. CASE caller' = [caller EXCEPT ![c].pc = "read", ![c].op = "scan",
               ![c].snapshot = snapshot, ![c].old = version]
    <3>1. Moved
      BY <2>1, <2>3
    <3> QED BY <2>1, <3>1, CalmByFields
  <2>4. ASSUME NEW query \in Queries,
               caller' = [caller EXCEPT ![c].pc = "read",
                 ![c].op = "neighbors", ![c].arg = query,
                 ![c].snapshot = snapshot, ![c].old = version]
        PROVE  CalmStep(c)
    <3>1. Moved
      BY <2>1, <2>4
    <3> QED BY <2>1, <3>1, CalmByFields
  <2> QED BY <2>2, <2>3, <2>4
<1>2. CASE ScanRead(c) \/ NeighborsRead(c) \/ NeighborsLookup(c)
  <2>1. caller[c].pc \in {"read", "lookup"} /\ Kept
    BY <1>2 DEF ScanRead, NeighborsRead, NeighborsLookup
  <2>2. \/ \E pc \in {"done", "lookup"} : \E recs : caller' = [caller EXCEPT
             ![c].pc = pc, ![c].old = NoVersion, ![c].recs = recs]
        \/ \E recs : caller' = [caller EXCEPT ![c].pc = "done",
                                              ![c].recs = recs]
    BY <1>2 DEF ScanRead, NeighborsRead, NeighborsLookup
  <2>3. Moved
    BY <2>1, <2>2
  <2> QED BY <2>1, <2>3, CalmByFields
<1>3. CASE ReadFail(c) \/ ReadReturn(c)
  <2>1. caller[c].pc \in {"read", "lookup", "done"} /\ Kept
    BY <1>3 DEF ReadFail, ReadReturn
  <2>2. Moved
    BY <1>3, <2>1 DEF ReadFail, ReadReturn
  <2> QED BY <2>1, <2>2, CalmByFields
<1> QED BY <1>1, <1>2, <1>3

\* The steps that insert, rotate or flush, and all others.
LEMMA DurabilityCases ==
  ASSUME TypeOK, [Next]_vars
  PROVE  \/ UNCHANGED vars
         \/ Reopen
         \/ \E c \in Callers :
              \/ CalmStep(c) \/ WriteInsert(c) \/ WriteInsertFull(c)
              \/ FlushActive(c) \/ RotatePublish(c)
         \/ \E m \in MemId : TaskStep(m)
BY CalmWaits, CalmCompactions, CalmReads DEF Next, CallerBegin, CallerStep

-----------------------------------------------------------------------------
(* Frozen memgraphs.                                                       *)

LEMMA InsertEffect ==
  ASSUME TypeOK, NEW c \in Callers, WriteInsert(c) \/ WriteInsertFull(c)
  PROVE  /\ caller[c].pc = "insert"
         /\ mem'[active] = mem[active] \cup caller[c].recs
         /\ \A m \in MemId \ {active} : mem'[m] = mem[m]
         /\ written' = written \cup caller[c].recs
         /\ \A d \in Callers \ {c} : caller'[d] = caller[d]
         /\ \/ active' = active /\ caller'[c] = IdleCaller
            \/ /\ active' = active + 1
               /\ caller'[c].pc = "rotate" /\ caller'[c].handle = active
               /\ caller'[c].op = caller[c].op
         /\ UNCHANGED <<timestamp, flush_tasks, version, index, disk, manifest,
                        task>>
<1> USE DEF TypeOK, CallerState, storeVars
<1>1. CASE WriteInsert(c)
  BY <1>1 DEF WriteInsert, Finish
<1>2. CASE WriteInsertFull(c)
  <2>1. caller' = [caller EXCEPT ![c].pc = "rotate", ![c].handle = active,
                                 ![c].old = version]
    BY <1>2 DEF WriteInsertFull
  <2>2. /\ \A d \in Callers \ {c} : caller'[d] = caller[d]
        /\ caller'[c].pc = "rotate" /\ caller'[c].handle = active
        /\ caller'[c].op = caller[c].op
    BY <2>1
  <2> QED BY <1>2, <2>2 DEF WriteInsertFull
<1> QED BY <1>1, <1>2

LEMMA FlushActiveEffect ==
  ASSUME TypeOK, NEW c \in Callers, FlushActive(c)
  PROVE  /\ \A d \in Callers \ {c} : caller'[d] = caller[d]
         /\ caller[c].pc = "idle"
         /\ \/ /\ active' = active /\ mem[active] = {}
               /\ caller'[c].pc = "wait" /\ caller'[c].handle = caller[c].handle
            \/ /\ active' = active + 1
               /\ caller'[c].pc = "rotate" /\ caller'[c].handle = active
         /\ caller'[c].op = "flush"
         /\ UNCHANGED <<timestamp, mem, flush_tasks, version, index, disk,
                        manifest, task, written>>
<1> USE DEF TypeOK, CallerState, storeVars, auxVars
<1>1. /\ caller[c].pc = "idle"
      /\ UNCHANGED <<timestamp, mem, flush_tasks, version, index, disk,
                     manifest, task, written>>
  BY DEF FlushActive
<1>2. \/ /\ active' = active /\ mem[active] = {}
         /\ caller' = [caller EXCEPT ![c].pc = "wait", ![c].op = "flush"]
      \/ /\ active' = active + 1
         /\ caller' = [caller EXCEPT ![c].pc = "rotate", ![c].op = "flush",
                                     ![c].handle = active, ![c].old = version]
  BY DEF FlushActive
<1>3. CASE caller' = [caller EXCEPT ![c].pc = "wait", ![c].op = "flush"]
  <2>1. active' = active /\ mem[active] = {}
    BY <1>2, <1>3
  <2> QED BY <1>1, <1>3, <2>1
<1>4. CASE caller' = [caller EXCEPT ![c].pc = "rotate", ![c].op = "flush",
                                    ![c].handle = active, ![c].old = version]
  <2>1. active' = active + 1
    BY <1>2, <1>4
  <2> QED BY <1>1, <1>4, <2>1
<1> QED BY <1>2, <1>3, <1>4

\* The task of the frozen memgraph starts with all of its records.
LEMMA SpawnEffect ==
  ASSUME TypeOK, NEW c \in Callers, RotatePublish(c)
  PROVE  /\ caller[c].pc = "rotate" /\ caller'[c].pc = "push"
         /\ \A d \in Callers \ {c} : caller'[d] = caller[d]
         /\ \A m \in MemId \ {caller[c].handle} : task'[m] = task[m]
         /\ task'[caller[c].handle].pc = "write"
         /\ task'[caller[c].handle].recs = mem[caller[c].handle]
         /\ task'[caller[c].handle].file = {}
         /\ task'[caller[c].handle].files = {}
         /\ caller'[c].handle = caller[c].handle
         /\ caller'[c].op = caller[c].op
         /\ UNCHANGED <<timestamp, mem, active, flush_tasks, index, disk,
                        manifest, written>>
BY DEF RotatePublish, TypeOK, CallerState, NoTask, engineVars, storeVars,
       auxVars

\* Every step of a task but the write of a segment keeps the segments.
LEMMA TaskEffect ==
  ASSUME TypeOK, NEW m \in MemId, TaskStep(m)
  PROVE  /\ \A n \in MemId \ {m} : task'[n] = task[n]
         /\ task[m].pc \notin {"none", "done", "failed"}
         /\ task'[m].pc # "none"
         /\ UNCHANGED <<mem, active, flush_tasks, caller, written, timestamp>>
<1> USE DEF TypeOK, TaskState, engineVars, auxVars, NoTask
<1>1. CASE FlushWrite(m)
  <2>1. \E file, recs : task' = [task EXCEPT ![m].pc = "append",
                                ![m].file = file, ![m].recs = recs]
    BY <1>1 DEF FlushWrite
  <2>2. /\ task[m].pc = "write"
        /\ UNCHANGED <<mem, active, flush_tasks, caller, written, timestamp>>
    BY <1>1 DEF FlushWrite
  <2> QED BY <2>1, <2>2
<1>2. CASE FlushAppend(m)
  <2>1. \E pc \in {"pin", "write"} : \E files :
          task' = [task EXCEPT ![m].pc = pc, ![m].files = files,
                               ![m].file = {}]
    BY <1>2 DEF FlushAppend
  <2>2. /\ task[m].pc = "append"
        /\ UNCHANGED <<mem, active, flush_tasks, caller, written, timestamp>>
    BY <1>2 DEF FlushAppend
  <2> QED BY <2>1, <2>2
<1>3. CASE FlushPin(m) \/ FlushIndexPin(m)
  BY <1>3 DEF FlushPin, FlushIndexPin
<1>4. CASE FlushPublish(m)
  BY <1>4 DEF FlushPublish
<1>5. CASE FlushIndexStore(m)
  BY <1>5 DEF FlushIndexStore
<1>6. CASE FlushFail(m)
  BY <1>6 DEF FlushFail
<1> QED BY <1>1, <1>2, <1>3, <1>4, <1>5, <1>6 DEF TaskStep

LEMMA FrozenStep ==
  ASSUME TypeOK, Frozen, [Next]_vars
  PROVE  Frozen'
<1>1. /\ active \in Int /\ \A m \in MemId : m \in Int
      /\ \A c \in Callers : caller[c].handle \in Int
  BY DEF TypeOK, CallerState, MemId
<1>2. CASE UNCHANGED vars
  BY <1>2 DEF Frozen, vars, engineVars
<1>3. CASE Reopen
  BY <1>3, ReopenEffect DEF Frozen, IdleCaller, NoTask
<1>4. ASSUME NEW c \in Callers, CalmStep(c) PROVE Frozen'
  BY <1>4 DEF Frozen, CalmStep
<1>5. ASSUME NEW c \in Callers, WriteInsert(c) \/ WriteInsertFull(c)
      PROVE  Frozen'
  <2>1. active' \in Int /\ active <= active'
    BY <1>1, <1>5, InsertEffect
  <2>2. ASSUME NEW d \in Callers, caller'[d].pc = "rotate"
        PROVE  caller'[d].handle < active'
    <3>1. CASE d = c
      BY <1>1, <1>5, <2>2, <3>1, InsertEffect DEF IdleCaller
    <3>2. CASE d # c
      BY <1>1, <1>5, <2>1, <2>2, <3>2, InsertEffect DEF Frozen
    <3> QED BY <3>1, <3>2
  <2>3. ASSUME NEW m \in MemId, task'[m].pc # "none" PROVE m < active'
    BY <1>1, <1>5, <2>1, <2>3, InsertEffect DEF Frozen
  <2> QED BY <2>2, <2>3 DEF Frozen
<1>6. ASSUME NEW c \in Callers, FlushActive(c) PROVE Frozen'
  <2>1. active' \in Int /\ active <= active'
    BY <1>1, <1>6, FlushActiveEffect
  <2>2. ASSUME NEW d \in Callers, caller'[d].pc = "rotate"
        PROVE  caller'[d].handle < active'
    <3>1. CASE d = c
      BY <1>1, <1>6, <2>2, <3>1, FlushActiveEffect
    <3>2. CASE d # c
      BY <1>1, <1>6, <2>1, <2>2, <3>2, FlushActiveEffect DEF Frozen
    <3> QED BY <3>1, <3>2
  <2>3. ASSUME NEW m \in MemId, task'[m].pc # "none" PROVE m < active'
    BY <1>1, <1>6, <2>1, <2>3, FlushActiveEffect DEF Frozen
  <2> QED BY <2>2, <2>3 DEF Frozen
<1>7. ASSUME NEW c \in Callers, RotatePublish(c) PROVE Frozen'
  BY <1>1, <1>7, SpawnEffect DEF Frozen
<1>8. ASSUME NEW m \in MemId, TaskStep(m) PROVE Frozen'
  BY <1>1, <1>8, TaskEffect DEF Frozen
<1> QED BY DurabilityCases, <1>2, <1>3, <1>4, <1>5, <1>6, <1>7, <1>8

-----------------------------------------------------------------------------
(* Flush tasks carry their memgraphs.                                      *)

\* The segments of a flush task are not written again.
LEMMA SegmentsKept ==
  ASSUME RecoveryInv, [Next]_vars, NEW m \in MemId
  PROVE  \A f \in task[m].files \cup task[m].file : disk'[f] = disk[f]
<1>1. task[m].files \subseteq manifest.created
  BY DEF RecoveryInv, NamedFiles
<1>2. task[m].file \subseteq FileId \ {next_file_id}
  BY FreshId, IdsAreIntegers DEF RecoveryInv
<1> QED BY <1>1, <1>2, CreatedStep

\* A task that a step leaves alone carries on.
LEMMA CarryKept ==
  ASSUME RecoveryInv, [Next]_vars, NEW m \in MemId, Carries(m),
         task'[m] = task[m],
         task[m].pc # "none" => mem'[m] = mem[m]
  PROVE  Carries(m)'
<1>1. Written(m)' = Written(m)
  BY SegmentsKept DEF Written, EdgesOf
<1> QED BY <1>1 DEF Carries

LEMMA CarryStep ==
  ASSUME RecoveryInv, Frozen, TasksCarry, [Next]_vars
  PROVE  TasksCarry'
<1> USE DEF TasksCarry
<1>1. TypeOK
  BY DEF RecoveryInv
<1>2. CASE UNCHANGED vars
  BY <1>2, CarryKept DEF vars, engineVars
<1>3. CASE Reopen
  BY <1>1, <1>3, ReopenEffect DEF Carries, NoTask
<1>4. ASSUME NEW c \in Callers, CalmStep(c) \/ FlushActive(c)
      PROVE  TasksCarry'
  BY <1>1, <1>4, FlushActiveEffect, CarryKept DEF CalmStep
<1>5. ASSUME NEW c \in Callers, WriteInsert(c) \/ WriteInsertFull(c)
      PROVE  TasksCarry'
  <2> SUFFICES ASSUME NEW m \in MemId PROVE Carries(m)'
    OBVIOUS
  <2>1. task[m].pc # "none" => m # active
    BY DEF Frozen, MemId
  <2> QED BY <1>1, <1>5, <2>1, InsertEffect, CarryKept
<1>6. ASSUME NEW c \in Callers, RotatePublish(c) PROVE TasksCarry'
  <2> SUFFICES ASSUME NEW m \in MemId PROVE Carries(m)'
    OBVIOUS
  <2>1. CASE m = caller[c].handle
    BY <1>1, <1>6, <2>1, SpawnEffect DEF Carries
  <2>2. CASE m # caller[c].handle
    BY <1>1, <1>6, <2>2, SpawnEffect, CarryKept
  <2> QED BY <2>1, <2>2
<1>7. ASSUME NEW m \in MemId, TaskStep(m) PROVE TasksCarry'
  <2>1. \A n \in MemId \ {m} : Carries(n)'
    BY <1>1, <1>7, TaskEffect, CarryKept
  <2>2. CASE FlushWrite(m)
    <3>1. PICK segment \in SUBSET task[m].recs :
            /\ disk'[next_file_id].edges = segment
            /\ task'[m].recs = task[m].recs \ segment
            /\ task'[m].file = {next_file_id}
            /\ task'[m].files = task[m].files /\ next_file_id \in FileId
      BY <1>1, <2>2, FlushWriteEffect
    <3>2. /\ task[m].pc = "write" /\ task[m].file = {} /\ mem' = mem
          /\ mem[m] \subseteq task[m].recs \cup Written(m)
      BY <2>2 DEF FlushWrite, Carries
    <3>3. task'[m].pc = "append"
      <4>1. \E file, recs : task' = [task EXCEPT ![m].pc = "append",
                                    ![m].file = file, ![m].recs = recs]
        BY <2>2 DEF FlushWrite
      <4> QED BY <1>1, <4>1 DEF TypeOK, TaskState
    <3>4. Written(m)' = Written(m) \cup segment
      <4>1. \A f \in task[m].files : disk'[f] = disk[f]
        BY SegmentsKept
      <4> QED BY <3>1, <3>2, <4>1 DEF Written, EdgesOf
    <3>5. Carries(m)'
      BY <3>1, <3>2, <3>3, <3>4 DEF Carries
    <3> QED BY <2>1, <3>5
  <2>3. CASE FlushAppend(m)
    <3>1. /\ task[m].pc = "append" /\ mem' = mem
          /\ \/ task'[m].pc = "write"
             \/ task'[m].pc = "pin" /\ task[m].recs = {}
      <4>1. PICK files :
              task' = [task EXCEPT
                ![m].pc = IF task[m].recs = {} THEN "pin" ELSE "write",
                ![m].files = files, ![m].file = {}]
        BY <2>3 DEF FlushAppend
      <4>2. m \in DOMAIN task /\ "pc" \in DOMAIN task[m]
        <5>1. task \in [MemId -> TaskState]
          BY <1>1 DEF TypeOK
        <5> QED BY <5>1 DEF TaskState
      <4>3. task'[m].pc = IF task[m].recs = {} THEN "pin" ELSE "write"
        BY ONLY <4>1, <4>2
      <4> QED BY <2>3, <4>3 DEF FlushAppend, engineVars
    <3>2. PICK f \in task[m].file :
            /\ task'[m].files = task[m].files \cup {f} /\ task'[m].file = {}
            /\ task'[m].recs = task[m].recs
      BY <1>1, <2>3, FlushAppendEffect
    <3>3. task[m].file = {f}
      BY <3>1, <3>2 DEF Carries
    <3>4. Written(m)' = Written(m)
      BY <3>2, <3>3, SegmentsKept DEF Written, EdgesOf
    <3>5. Carries(m)'
      BY <3>1, <3>2, <3>4 DEF Carries
    <3> QED BY <2>1, <3>5
  <2>4. CASE FlushPin(m)
    <3>1. /\ task[m].pc = "pin" /\ mem' = mem
          /\ task' = [task EXCEPT ![m].pc = "publish", ![m].old = version]
      BY <2>4 DEF FlushPin, engineVars
    <3>2. /\ task'[m].pc = "publish" /\ task'[m].files = task[m].files
          /\ task'[m].file = task[m].file
      BY <1>1, <3>1 DEF TypeOK, TaskState
    <3>3. Written(m)' = Written(m)
      BY <3>2, SegmentsKept DEF Written, EdgesOf
    <3>4. Carries(m)'
      BY <3>1, <3>2, <3>3 DEF Carries
    <3> QED BY <2>1, <3>4
  <2>5. CASE \/ FlushPublish(m) \/ FlushIndexPin(m)
             \/ FlushIndexStore(m) \/ FlushFail(m)
    <3>1. /\ task'[m].pc \in {"index", "store", "done", "failed"}
          /\ task'[m].file = {}
      <4> USE <1>1 DEF TypeOK, TaskState, NoTask
      <4>1. CASE FlushIndexPin(m)
        <5>1. /\ task' = [task EXCEPT ![m].pc = "store", ![m].old = version]
              /\ task[m].pc # "append"
          BY <4>1 DEF FlushIndexPin
        <5>2. task'[m].pc = "store" /\ task'[m].file = task[m].file
          BY <5>1
        <5> QED BY <5>1, <5>2 DEF Carries
      <4>2. CASE FlushPublish(m)
        <5>1. /\ task' = [task EXCEPT ![m].pc = "index", ![m].old = NoVersion]
              /\ task[m].pc # "append"
          BY <4>2 DEF FlushPublish
        <5>2. task'[m].pc = "index" /\ task'[m].file = task[m].file
          BY <5>1
        <5> QED BY <5>1, <5>2 DEF Carries
      <4>3. CASE FlushIndexStore(m)
        BY <4>3 DEF FlushIndexStore
      <4>4. CASE FlushFail(m)
        BY <4>4 DEF FlushFail
      <4> QED BY <2>5, <4>1, <4>2, <4>3, <4>4
    <3>2. Carries(m)'
      BY <3>1 DEF Carries
    <3> QED BY <2>1, <3>2
  <2> QED BY <1>7, <2>2, <2>3, <2>4, <2>5 DEF TaskStep
<1> QED BY <1>1, DurabilityCases, <1>2, <1>3, <1>4, <1>5, <1>6, <1>7

-----------------------------------------------------------------------------
(* Nothing written is lost.                                                *)

HeldBack(r) ==
  \/ r \in mem[active]
  \/ \E m \in MemId :
       /\ r \in mem[m]
       /\ \/ task[m].pc \in {"write", "append", "failed"}
          \/ \E c \in Callers : caller[c].pc = "rotate" /\ caller[c].handle = m
  \/ r \in DurableEdges

LEMMA DurableGrows ==
  ASSUME RecoveryInv, [Next]_vars
  PROVE  DurableEdges \subseteq DurableEdges'
BY CreatedStep DEF DurableEdges, EdgesOf

LEMMA HeldBackStep ==
  ASSUME RecoveryInv, Frozen, TasksCarry, EveryWriteHeld, [Next]_vars
  PROVE  EveryWriteHeld'
<1> USE DurableGrows
<1>1. TypeOK /\ active \in MemId
  BY DEF RecoveryInv, TypeOK
<1>2. \A r \in written : HeldBack(r)
  BY DEF EveryWriteHeld, HeldBack
<1> SUFFICES ASSUME NEW r \in written' PROVE HeldBack(r)'
  BY DEF EveryWriteHeld, HeldBack
<1>3. CASE UNCHANGED vars
  BY <1>2, <1>3 DEF HeldBack, vars, engineVars, auxVars
<1>4. CASE Reopen
  <2>1. written' = LiveEdges
    BY <1>4 DEF Reopen, OpenInner
  <2>2. LiveEdges \subseteq DurableEdges
    BY DEF RecoveryInv, FileIds, LiveEdges, DurableEdges, EdgesOf
  <2> QED BY <2>1, <2>2 DEF HeldBack
<1>5. ASSUME NEW c \in Callers, CalmStep(c) PROVE HeldBack(r)'
  <2>1. r \in written /\ UNCHANGED <<mem, active, task>>
    BY <1>5 DEF CalmStep
  <2>2. \A d \in Callers : caller[d].pc = "rotate" => caller'[d] = caller[d]
    BY <1>5 DEF CalmStep
  <2> QED BY <1>2, <2>1, <2>2 DEF HeldBack
<1>6. ASSUME NEW c \in Callers, WriteInsert(c) \/ WriteInsertFull(c)
      PROVE  HeldBack(r)'
  <2>1. \A m \in MemId : mem[m] \subseteq mem'[m]
    BY <1>1, <1>6, InsertEffect
  <2>2. task' = task
    BY <1>1, <1>6, InsertEffect
  <2>3. \A d \in Callers : caller[d].pc = "rotate" => caller'[d] = caller[d]
    BY <1>1, <1>6, InsertEffect
  <2>4. ASSUME r \in mem'[active] PROVE HeldBack(r)'
    BY <1>1, <1>6, <2>4, InsertEffect DEF HeldBack
  <2>5. CASE r \in caller[c].recs \/ r \in mem[active]
    BY <1>1, <1>6, <2>1, <2>4, <2>5, InsertEffect
  <2>6. CASE r \in written /\ r \notin mem[active]
    BY <1>2, <2>1, <2>2, <2>3, <2>6 DEF HeldBack
  <2> QED BY <1>1, <1>6, <2>5, <2>6, InsertEffect
<1>7. ASSUME NEW c \in Callers, FlushActive(c) PROVE HeldBack(r)'
  <2>1. r \in written /\ UNCHANGED <<mem, task>>
    BY <1>1, <1>7, FlushActiveEffect
  <2>2. \A d \in Callers : caller[d].pc = "rotate" => caller'[d] = caller[d]
    BY <1>1, <1>7, FlushActiveEffect
  <2>3. CASE r \in mem[active]
    BY <1>1, <1>7, <2>1, <2>3, FlushActiveEffect DEF HeldBack
  <2>4. CASE r \notin mem[active]
    BY <1>2, <2>1, <2>2, <2>4 DEF HeldBack
  <2> QED BY <2>3, <2>4
<1>8. ASSUME NEW c \in Callers, RotatePublish(c) PROVE HeldBack(r)'
  <2>1. r \in written /\ UNCHANGED <<mem, active>>
    BY <1>1, <1>8, SpawnEffect
  <2>2. \A d \in Callers \ {c} : caller'[d] = caller[d]
    BY <1>1, <1>8, SpawnEffect
  <2>3. /\ task'[caller[c].handle].pc = "write"
        /\ \A m \in MemId \ {caller[c].handle} : task'[m] = task[m]
    BY <1>1, <1>8, SpawnEffect
  <2> QED BY <1>2, <2>1, <2>2, <2>3 DEF HeldBack
<1>9. ASSUME NEW m \in MemId, TaskStep(m) PROVE HeldBack(r)'
  <2>1. r \in written /\ UNCHANGED <<mem, active, caller>>
    BY <1>1, <1>9, TaskEffect
  <2>2. \A n \in MemId \ {m} : task'[n] = task[n]
    BY <1>1, <1>9, TaskEffect
  <2>3. CASE task[m].pc \in {"write", "append", "failed"} /\ r \in mem[m]
    <3>1. CASE task'[m].pc \in {"write", "append", "failed"}
      BY <2>1, <2>3, <3>1 DEF HeldBack
    <3>2. CASE task'[m].pc \notin {"write", "append", "failed"}
      <4>1. FlushAppend(m)
        <5> USE <1>1 DEF TypeOK, TaskState, NoTask
        <5>1. CASE FlushWrite(m)
          <6>1. \E file, recs : task' = [task EXCEPT ![m].pc = "append",
                                    ![m].file = file, ![m].recs = recs]
            BY <5>1 DEF FlushWrite
          <6>2. task'[m].pc = "append"
            BY <6>1
          <6> QED BY <3>2, <6>2
        <5>2. CASE FlushFail(m)
          BY <3>2, <5>2 DEF FlushFail
        <5>3. CASE FlushPin(m) \/ FlushPublish(m) \/ FlushIndexPin(m)
                     \/ FlushIndexStore(m)
          BY <2>3, <5>3 DEF FlushPin, FlushPublish, FlushIndexPin,
                            FlushIndexStore
        <5> QED BY <1>9, <5>1, <5>2, <5>3 DEF TaskStep
      <4>2. task[m].recs = {} /\ task[m].pc = "append"
        <5>1. PICK f, files : task' = [task EXCEPT
                ![m].pc = IF task[m].recs = {} THEN "pin" ELSE "write",
                ![m].files = files, ![m].file = {}]
          BY <4>1 DEF FlushAppend
        <5>2. task'[m].pc = IF task[m].recs = {} THEN "pin" ELSE "write"
          BY <1>1, <5>1 DEF TypeOK, TaskState
        <5> QED BY <3>2, <4>1, <5>2 DEF FlushAppend
      <4>3. PICK f \in task[m].file :
              /\ task'[m].files = task[m].files \cup {f} /\ task'[m].file = {}
        BY <1>1, <4>1, FlushAppendEffect
      <4>4. task[m].file = {f}
        BY <4>2, <4>3 DEF TasksCarry, Carries
      <4>5. r \in Written(m)
        BY <2>3, <4>2 DEF TasksCarry, Carries
      <4>6. \E g \in task'[m].files : r \in disk'[g].edges
        <5>1. PICK g \in task[m].files \cup task[m].file : r \in disk[g].edges
          BY <4>5 DEF Written, EdgesOf
        <5> QED BY <4>3, <4>4, <5>1, SegmentsKept
      <4>7. task'[m].files \subseteq manifest'.created
        BY StepRecovery DEF RecoveryInv, NamedFiles
      <4> QED BY <4>6, <4>7 DEF HeldBack, DurableEdges, EdgesOf
    <3> QED BY <3>1, <3>2
  <2>4. CASE ~(task[m].pc \in {"write", "append", "failed"} /\ r \in mem[m])
    BY <1>2, <2>1, <2>2, <2>4 DEF HeldBack
  <2> QED BY <2>3, <2>4
<1> QED BY <1>1, DurabilityCases, <1>3, <1>4, <1>5, <1>6, <1>7, <1>8, <1>9

LEMMA StepDurability == DurabilityInv /\ [Next]_vars => DurabilityInv'
  BY StepRecovery, FrozenStep, CarryStep, HeldBackStep
     DEF DurabilityInv, RecoveryInv

\* The inductive invariant holds in every reachable state.
THEOREM DurabilityInvariant == Spec => []DurabilityInv
BY InitDurability, StepDurability, PTL DEF Spec

\* Whatever rotates, flushes, fails or restarts, a record that write_edge has
\* inserted is in the active memgraph, in a frozen one that is still being
\* flushed or whose flush has failed, or persisted.
THEOREM WritesHeldCorrect == Spec => []EveryWriteHeld
<1>1. DurabilityInv => EveryWriteHeld
  BY DEF DurabilityInv
<1> QED BY <1>1, DurabilityInvariant, PTL

-----------------------------------------------------------------------------
(* flush_active waits for every flush.                                     *)

Running(m) == task[m].pc \notin {"none", "done", "failed"}

Listed(m) == \E i \in 1..Len(flush_tasks) : flush_tasks[i] = m

InHand(m) ==
  \E c \in Callers : caller[c].pc \in {"push", "join"} /\ caller[c].handle = m

\* No running flush task is forgotten: its handle is in the list, or with the
\* caller that is about to put it there or has taken it out to wait for it.
Tracked == \A m \in MemId : Running(m) => Listed(m) \/ InHand(m)

\* Memgraphs that have not been active are empty.
Unused == \A m \in MemId : m > active => mem[m] = {}

\* Only write_edge inserts, one record; only it and flush_active rotate.
Writing ==
  \A c \in Callers :
    /\ caller[c].pc = "insert" =>
         caller[c].op = "write" /\ \E r \in EdgeRecord : caller[c].recs = {r}
    /\ caller[c].pc \in {"rotate", "push"} => caller[c].op \in {"write", "flush"}

WaitInv ==
  /\ DurabilityInv
  /\ Tracked
  /\ Unused
  /\ Writing

LEMMA InitWait == Init => WaitInv
<1> SUFFICES ASSUME Init PROVE WaitInv
  OBVIOUS
<1>1. Tracked /\ Unused /\ Writing
  BY DEF Init, Tracked, Running, Unused, Writing, IdleCaller, NoTask
<1> QED BY <1>1, InitDurability DEF WaitInv

LEMMA WritingStep ==
  ASSUME TypeOK, Writing, [Next]_vars
  PROVE  Writing'
<1> USE DEF Writing
<1>1. CASE UNCHANGED vars
  BY <1>1 DEF vars
<1>2. CASE Reopen
  BY <1>2, ReopenEffect DEF IdleCaller
<1>3. ASSUME NEW c \in Callers, CalmStep(c) PROVE Writing'
  BY <1>3 DEF CalmStep
<1>4. ASSUME NEW c \in Callers, WriteInsert(c) \/ WriteInsertFull(c)
      PROVE  Writing'
  BY <1>4, InsertEffect DEF IdleCaller
<1>5. ASSUME NEW c \in Callers, FlushActive(c) PROVE Writing'
  BY <1>5, FlushActiveEffect
<1>6. ASSUME NEW c \in Callers, RotatePublish(c) PROVE Writing'
  BY <1>6, SpawnEffect
<1>7. ASSUME NEW m \in MemId, TaskStep(m) PROVE Writing'
  BY <1>7, TaskEffect
<1> QED BY DurabilityCases, <1>1, <1>2, <1>3, <1>4, <1>5, <1>6, <1>7

LEMMA UnusedStep ==
  ASSUME TypeOK, Unused, [Next]_vars
  PROVE  Unused'
<1> USE DEF Unused
<1>1. active \in Int /\ \A m \in MemId : m \in Int
  BY DEF TypeOK, MemId
<1>2. CASE UNCHANGED vars
  BY <1>2 DEF vars, engineVars
<1>3. CASE Reopen
  BY <1>3, ReopenEffect
<1>4. ASSUME NEW c \in Callers, CalmStep(c) PROVE Unused'
  BY <1>4 DEF CalmStep
<1>5. ASSUME NEW c \in Callers, WriteInsert(c) \/ WriteInsertFull(c)
      PROVE  Unused'
  BY <1>1, <1>5, InsertEffect
<1>6. ASSUME NEW c \in Callers, FlushActive(c) PROVE Unused'
  BY <1>1, <1>6, FlushActiveEffect
<1>7. ASSUME NEW c \in Callers, RotatePublish(c) PROVE Unused'
  BY <1>7, SpawnEffect
<1>8. ASSUME NEW m \in MemId, TaskStep(m) PROVE Unused'
  BY <1>8, TaskEffect
<1> QED BY DurabilityCases, <1>2, <1>3, <1>4, <1>5, <1>6, <1>7, <1>8

LEMMA TrackedStep ==
  ASSUME TypeOK, Tracked, [Next]_vars
  PROVE  Tracked'
<1>1. /\ flush_tasks \in Seq(MemId)
      /\ \A c \in Callers : caller[c].handle \in MemId
  BY DEF TypeOK, CallerState
<1> SUFFICES ASSUME NEW m \in MemId, Running(m)'
             PROVE  Listed(m)' \/ InHand(m)'
  BY DEF Tracked
<1>2. CASE UNCHANGED vars
  BY <1>2 DEF Tracked, Running, Listed, InHand, vars, engineVars
<1>3. CASE Reopen
  BY <1>3, ReopenEffect DEF Running, NoTask
<1>4. ASSUME NEW c \in Callers, CalmStep(c) PROVE Listed(m)' \/ InHand(m)'
  <2>1. Running(m) /\ (Listed(m) \/ InHand(m))
    BY <1>4 DEF Tracked, Running, CalmStep
  <2>2. ASSUME NEW d \in Callers \ {c}, caller[d].pc \in {"push", "join"},
               caller[d].handle = m
        PROVE  InHand(m)'
    BY <1>4, <2>2 DEF InHand, CalmStep
  <2>3. CASE PushHandle(c)
    <3>1. /\ flush_tasks' = Append(flush_tasks, caller[c].handle)
          /\ caller[c].pc = "push"
      BY <2>3 DEF PushHandle
    <3>2. Listed(m) \/ caller[c].handle = m => Listed(m)'
      BY <1>1, <3>1 DEF Listed
    <3> QED BY <2>1, <2>2, <3>2 DEF InHand
  <2>4. CASE WaitPop(c)
    <3>1. /\ caller[c].pc = "wait" /\ flush_tasks # <<>>
          /\ flush_tasks' = SubSeq(flush_tasks, 1, Len(flush_tasks) - 1)
          /\ caller' = [caller EXCEPT ![c].pc = "join",
                          ![c].handle = flush_tasks[Len(flush_tasks)]]
      BY <2>4 DEF WaitPop
    <3>2. /\ caller'[c].pc = "join"
          /\ caller'[c].handle = flush_tasks[Len(flush_tasks)]
      BY <3>1 DEF TypeOK, CallerState
    <3>3. ASSUME NEW i \in 1..Len(flush_tasks), flush_tasks[i] = m
          PROVE  Listed(m)' \/ InHand(m)'
      <4>1. CASE i = Len(flush_tasks)
        BY <3>2, <3>3, <4>1 DEF InHand
      <4>2. CASE i # Len(flush_tasks)
        BY <1>1, <3>1, <3>3, <4>2 DEF Listed
      <4> QED BY <4>1, <4>2
    <3> QED BY <2>1, <2>2, <3>1, <3>3 DEF InHand, Listed
  <2>5. CASE WaitJoin(c) \/ WaitError(c)
    <3>1. /\ flush_tasks' = flush_tasks
          /\ task[caller[c].handle].pc \in {"done", "failed"}
      BY <2>5 DEF WaitJoin, WaitError, engineVars
    <3> QED BY <2>1, <2>2, <3>1 DEF InHand, Listed, Running
  <2>6. CASE UNCHANGED flush_tasks /\ caller[c].pc \notin {"push", "join"}
    BY <2>1, <2>2, <2>6 DEF InHand, Listed
  <2> QED BY <1>4, <2>3, <2>4, <2>5, <2>6 DEF CalmStep
<1>5. ASSUME NEW c \in Callers,
             WriteInsert(c) \/ WriteInsertFull(c) \/ FlushActive(c)
      PROVE  Listed(m)' \/ InHand(m)'
  <2>1. /\ \A d \in Callers \ {c} : caller'[d] = caller[d]
        /\ caller[c].pc \in {"insert", "idle"}
        /\ UNCHANGED <<task, flush_tasks>>
    BY <1>5, InsertEffect, FlushActiveEffect
  <2> QED BY <2>1 DEF Tracked, Running, Listed, InHand
<1>6. ASSUME NEW c \in Callers, RotatePublish(c) PROVE Listed(m)' \/ InHand(m)'
  BY <1>1, <1>6, SpawnEffect DEF Tracked, Running, Listed, InHand
<1>7. ASSUME NEW n \in MemId, TaskStep(n) PROVE Listed(m)' \/ InHand(m)'
  BY <1>7, TaskEffect DEF Tracked, Running, Listed, InHand
<1> QED BY DurabilityCases, <1>2, <1>3, <1>4, <1>5, <1>6, <1>7

LEMMA StepWait == WaitInv /\ [Next]_vars => WaitInv'
BY StepDurability, TrackedStep, UnusedStep, WritingStep
   DEF WaitInv, DurabilityInv, RecoveryInv

\* The end of a wait: the list of handles is empty.
LEMMA FlushReturns ==
  ASSUME RecoveryInv, [Next]_vars, NEW c \in Callers,
         caller[c].op = "flush", caller[c].pc = "wait",
         caller'[c].op # "flush", budget'.crashes = budget.crashes
  PROVE  flush_tasks = <<>>
<1>1. TypeOK
  BY DEF RecoveryInv
<1>2. CASE UNCHANGED vars
  BY <1>2 DEF vars
<1>3. CASE Reopen
  <2>1. budget.crashes > 0 /\ budget.crashes \in Int
    BY <1>1, <1>3, BoundsAssumption
       DEF Reopen, OpenInner, OpenIndex, TypeOK, Budget
  <2>2. budget'.crashes = budget.crashes - 1
    BY <1>1, <1>3 DEF Reopen, OpenInner, OpenIndex, TypeOK, Budget
  <2> QED BY <2>1, <2>2
<1>4. ASSUME NEW d \in Callers, CalmStep(d) PROVE flush_tasks = <<>>
  BY <1>4 DEF CalmStep
<1>5. ASSUME NEW d \in Callers,
             \/ WriteInsert(d) \/ WriteInsertFull(d) \/ FlushActive(d)
             \/ RotatePublish(d)
      PROVE  flush_tasks = <<>>
  BY <1>1, <1>5, InsertEffect, FlushActiveEffect, SpawnEffect
<1>6. ASSUME NEW m \in MemId, TaskStep(m) PROVE flush_tasks = <<>>
  BY <1>1, <1>6, TaskEffect
<1> QED BY <1>1, DurabilityCases, <1>2, <1>3, <1>4, <1>5, <1>6

\* What a caller finds when it has waited for all handles.
LEMMA NothingRuns ==
  ASSUME WaitInv, flush_tasks = <<>>, NEW c \in Callers,
         caller[c].pc = "wait", NEW r \in written
  PROVE  \/ r \in DurableEdges
         \/ r \in mem[active]
         \/ \E m \in MemId :
              /\ r \in mem[m]
              /\ \/ task[m].pc = "failed"
                 \/ \E d \in Callers \ {c} :
                      /\ caller[d].pc \in {"rotate", "push", "join"}
                      /\ caller[d].handle = m
<1>1. \A m \in MemId : ~Listed(m)
  BY DEF Listed
<1>2. ASSUME NEW m \in MemId, task[m].pc \in {"write", "append"}
      PROVE  \E d \in Callers \ {c} :
               caller[d].pc \in {"push", "join"} /\ caller[d].handle = m
  BY <1>1, <1>2 DEF WaitInv, Tracked, Running, InHand
<1>3. HeldBack(r)
  BY DEF WaitInv, DurabilityInv, EveryWriteHeld, HeldBack
<1> QED BY <1>2, <1>3 DEF HeldBack

\* When flush_active returns Ok, however many callers use the engine, every
\* record is persisted, or was written after the rotation, or is in a
\* memgraph whose flush has failed or whose handle another caller holds.
FlushActiveSettles ==
  [][\A c \in Callers :
       /\ caller[c].op = "flush" /\ caller[c].pc = "wait"
       /\ caller'[c].op # "flush" /\ budget'.crashes = budget.crashes
       => \A r \in written :
            \/ r \in DurableEdges
            \/ r \in mem[active]
            \/ \E m \in MemId :
                 /\ r \in mem[m]
                 /\ \/ task[m].pc = "failed"
                    \/ \E d \in Callers \ {c} :
                         /\ caller[d].pc \in {"rotate", "push", "join"}
                         /\ caller[d].handle = m]_vars

LEMMA SettlesStep ==
  ASSUME WaitInv, [Next]_vars, NEW c \in Callers,
         caller[c].op = "flush", caller[c].pc = "wait",
         caller'[c].op # "flush", budget'.crashes = budget.crashes,
         NEW r \in written
  PROVE  \/ r \in DurableEdges
         \/ r \in mem[active]
         \/ \E m \in MemId :
              /\ r \in mem[m]
              /\ \/ task[m].pc = "failed"
                 \/ \E d \in Callers \ {c} :
                      /\ caller[d].pc \in {"rotate", "push", "join"}
                      /\ caller[d].handle = m
BY FlushReturns, NothingRuns DEF WaitInv, DurabilityInv

\* flush_active waits for everything that was frozen before it returns.
THEOREM SettlesCorrect == Spec => FlushActiveSettles
<1>1. WaitInv /\ [Next]_vars
        => [\A c \in Callers :
              /\ caller[c].op = "flush" /\ caller[c].pc = "wait"
              /\ caller'[c].op # "flush" /\ budget'.crashes = budget.crashes
              => \A r \in written :
                   \/ r \in DurableEdges
                   \/ r \in mem[active]
                   \/ \E m \in MemId :
                        /\ r \in mem[m]
                        /\ \/ task[m].pc = "failed"
                           \/ \E d \in Callers \ {c} :
                                /\ caller[d].pc \in {"rotate", "push", "join"}
                                /\ caller[d].handle = m]_vars
  BY SettlesStep
<1> QED BY <1>1, InitWait, StepWait, PTL DEF Spec, FlushActiveSettles

\* With one caller nothing is inserted while it flushes.
NoneActive == \A c \in Callers : caller[c].op = "flush" => mem[active] = {}

LEMMA NoneActiveStep ==
  ASSUME \A c, d \in Callers : c = d, TypeOK, Unused, Writing, NoneActive,
         [Next]_vars
  PROVE  NoneActive'
<1> USE DEF NoneActive
<1>1. CASE UNCHANGED vars
  BY <1>1 DEF vars, engineVars
<1>2. CASE Reopen
  BY <1>2, ReopenEffect DEF IdleCaller
<1>3. ASSUME NEW c \in Callers, CalmStep(c) PROVE NoneActive'
  BY <1>3 DEF CalmStep, Writing
<1>4. ASSUME NEW c \in Callers, WriteInsert(c) \/ WriteInsertFull(c)
      PROVE  NoneActive'
  BY <1>4, InsertEffect DEF IdleCaller, Writing
<1>5. ASSUME NEW c \in Callers, FlushActive(c) PROVE NoneActive'
  <2>1. CASE active' = active /\ mem[active] = {}
    BY <1>5, <2>1, FlushActiveEffect
  <2>2. CASE active' = active + 1
    <3>1. active' \in MemId /\ active' > active
      <4>1. active' \in MemId
        BY TypeStep DEF TypeOK
      <4> QED BY <2>2, <4>1 DEF TypeOK, MemId
    <3> QED BY <1>5, <3>1, FlushActiveEffect DEF Unused
  <2> QED BY <1>5, <2>1, <2>2, FlushActiveEffect
<1>6. ASSUME NEW c \in Callers, RotatePublish(c) PROVE NoneActive'
  BY <1>6, SpawnEffect
<1>7. ASSUME NEW m \in MemId, TaskStep(m) PROVE NoneActive'
  BY <1>7, TaskEffect
<1> QED BY DurabilityCases, <1>1, <1>2, <1>3, <1>4, <1>5, <1>6, <1>7

\* When flush_active returns Ok to the only user of the engine, everything
\* that was written is persisted, unless the flush of its memgraph failed.
THEOREM FlushActiveCorrect ==
  ASSUME \A c, d \in Callers : c = d
  PROVE  Spec => FlushActiveDurable
<1>1. Init => NoneActive
  BY DEF Init, NoneActive, IdleCaller
<1>2. WaitInv /\ NoneActive /\ [Next]_vars => NoneActive'
  BY NoneActiveStep DEF WaitInv, DurabilityInv, RecoveryInv
<1>3. WaitInv /\ NoneActive /\ [Next]_vars
        => [\A c \in Callers :
              /\ caller[c].op = "flush" /\ caller[c].pc = "wait"
              /\ caller'[c].op # "flush" /\ timestamp' = timestamp
              /\ budget'.crashes = budget.crashes
              => \A r \in written :
                   \/ r \in DurableEdges
                   \/ \E m \in MemId :
                        r \in mem[m] /\ task[m].pc = "failed"]_vars
  BY SettlesStep DEF NoneActive
<1> QED
  BY <1>1, <1>2, <1>3, InitWait, StepWait, PTL DEF Spec, FlushActiveDurable

-----------------------------------------------------------------------------
(***************************************************************************)
(* The engine implements GraphStore.  What a restart would find is the     *)
(* newest of everything ever persisted (LsmEngineProofs), so only a step   *)
(* that persists something new changes the abstract state: a flush,        *)
(* records that were written (the invariant above); a compaction, records  *)
(* that were persisted before.                                             *)
(***************************************************************************)

(* Merging.                                                                *)

Merged(U) == merge_latest_records(U, MaxTs, TRUE)

LEMMA StoreNewest ==
  ASSUME NEW U
  PROVE  Store!Newest(U) = Merged(U)
BY DEF Store!Newest, Store!merge_latest_records, Merged, merge_latest_records

\* No record is ahead of the bound: what is merged is the newest per edge.
LEMMA MergedMeans ==
  ASSUME NEW U \in SUBSET EdgeRecord
  PROVE  Merged(U) = {e \in U : \A o \in U : o.key = e.key => o.ts <= e.ts}
<1>1. \A e \in U : e.ts <= MaxTs
  BY MaxTsAssumption DEF EdgeRecord
<1> QED BY <1>1 DEF Merged, merge_latest_records

LEMMA MergedCovers ==
  ASSUME NEW U \in SUBSET EdgeRecord, NEW r \in U
  PROVE  CoveredBy(r, Merged(U))
<1>1. r.ts <= MaxTs /\ MaxTs \in Nat
  BY MaxTsAssumption DEF EdgeRecord
<1> QED BY <1>1, MergeCovers DEF Merged, CoveredBy

\* Merging before adding records makes no difference.
LEMMA MergedAdds ==
  ASSUME NEW U \in SUBSET EdgeRecord, NEW V \in SUBSET EdgeRecord
  PROVE  Merged(U \cup V) = Merged(Merged(U) \cup V)
<1>1. Merged(U) \subseteq U
  BY MergedMeans
<1>2. \A e \in U \cup V : e.ts \in Int
  BY MaxTsAssumption DEF EdgeRecord
<1>3. ASSUME NEW e \in U \cup V, \A o \in U \cup V : o.key = e.key => o.ts <= e.ts
      PROVE  e \in Merged(U) \cup V
  BY <1>3, MergedMeans
<1>4. ASSUME NEW e \in Merged(U) \cup V, NEW o \in U \cup V, o.key = e.key,
             \A p \in Merged(U) \cup V : p.key = e.key => p.ts <= e.ts
      PROVE  o.ts <= e.ts
  <2>1. CASE o \in V
    BY <1>4, <2>1
  <2>2. CASE o \in U
    <3>1. PICK p \in Merged(U) : p.key = o.key /\ p.ts >= o.ts
      BY <2>2, MergedCovers DEF CoveredBy
    <3>2. p.ts <= e.ts
      BY <1>4, <3>1
    <3> QED BY <1>1, <1>2, <3>1, <3>2
  <2> QED BY <2>1, <2>2
<1> DEFINE Top(S) == {e \in S : \A o \in S : o.key = e.key => o.ts <= e.ts}
<1>5. Merged(U \cup V) = Top(U \cup V)
  BY MergedMeans
<1>6. Merged(Merged(U) \cup V) = Top(Merged(U) \cup V)
  BY <1>1, MergedMeans
<1>7. Top(U \cup V) = Top(Merged(U) \cup V)
  BY <1>1, <1>3, <1>4
<1> QED BY <1>5, <1>6, <1>7

\* Sets that cover each other merge to the same when timestamps are unique.
LEMMA MergedCovered ==
  ASSUME NEW V \in SUBSET EdgeRecord, NEW U \in SUBSET V,
         \A r \in V : CoveredBy(r, U),
         \A r, s \in V : r.ts = s.ts => r = s
  PROVE  Merged(U) = Merged(V)
<1>1. \A e \in V : e.ts \in Int
  BY MaxTsAssumption DEF EdgeRecord
<1> DEFINE Top(S) == {e \in S : \A o \in S : o.key = e.key => o.ts <= e.ts}
<1>2. Merged(U) = Top(U) /\ Merged(V) = Top(V)
  BY MergedMeans
<1>3. ASSUME NEW e \in Top(U) PROVE e \in Top(V)
  <2> SUFFICES ASSUME NEW o \in V, o.key = e.key PROVE o.ts <= e.ts
    OBVIOUS
  <2>1. PICK q \in U : q.key = o.key /\ q.ts >= o.ts
    BY DEF CoveredBy
  <2>2. q.ts <= e.ts
    BY <2>1
  <2> QED BY <1>1, <2>1, <2>2
<1>4. ASSUME NEW e \in Top(V) PROVE e \in Top(U)
  <2>1. PICK q \in U : q.key = e.key /\ q.ts >= e.ts
    BY DEF CoveredBy
  <2>2. q.ts <= e.ts
    BY <2>1
  <2>3. q = e
    BY <1>1, <2>1, <2>2
  <2> QED BY <2>1, <2>3
<1> QED BY <1>2, <1>3, <1>4

LEMMA SavedIsNewest ==
  RecoveryInv => /\ DurableEdges \in SUBSET EdgeRecord
                 /\ LiveEdges \in SUBSET DurableEdges
                 /\ Merged(LiveEdges) = Merged(DurableEdges)
<1> SUFFICES ASSUME RecoveryInv
             PROVE  /\ DurableEdges \in SUBSET EdgeRecord
                    /\ LiveEdges \in SUBSET DurableEdges
                    /\ Merged(LiveEdges) = Merged(DurableEdges)
  OBVIOUS
<1>1. LiveEdges \subseteq DurableEdges
  BY DEF RecoveryInv, FileIds, LiveEdges, DurableEdges, EdgesOf
<1>2. DurableEdges \subseteq EdgeRecord
  BY IdsAreIntegers, EdgesAreRecords DEF RecoveryInv, DurableEdges, EdgesOf
<1>3. \A r \in DurableEdges : CoveredBy(r, LiveEdges)
  BY DEF RecoveryInv, Coverage, LiveCovers, DurableEdges, EdgesOf
<1>4. \A r, s \in DurableEdges : r.ts = s.ts => r = s
  BY <1>2 DEF RecoveryInv, Timestamps, Held, DurableEdges, EdgesOf
<1> QED BY <1>1, <1>2, <1>3, <1>4, MergedCovered

-----------------------------------------------------------------------------
(* Where segments come from.                                               *)

Wrote(f) == disk[f].edges \subseteq written

\* The segments that an actor holds to read, write, publish or delete.
CallerFiles(c) == LevelFiles(caller[c].old) \cup caller[c].sel \cup Owned(c)
TaskFiles(m) == LevelFiles(task[m].old) \cup task[m].files \cup task[m].file

\* Whatever can still reach a live segment was written since the store was
\* opened, or found when it was.
Provenance ==
  /\ \A f \in manifest.live \cup LevelFiles(version) : Wrote(f)
  /\ \A c \in Callers : \A f \in CallerFiles(c) : Wrote(f)
  /\ \A c \in Callers :
       caller[c].pc \in Compacting => caller[c].recs \subseteq written
  /\ \A m \in MemId : \A f \in TaskFiles(m) : Wrote(f)
  /\ \A m \in MemId : mem[m] \cup task[m].recs \subseteq written

\* A compaction writes only what is persisted already.
Rewrites ==
  \A c \in Callers : caller[c].pc \in Compacting =>
    /\ caller[c].recs \subseteq DurableEdges
    /\ \A f \in Owned(c) : disk[f].edges \subseteq DurableEdges

LEMMA WrittenGrows ==
  ASSUME TypeOK, [Next]_vars, ~Reopen, \A m \in MemId : mem[m] \subseteq written
  PROVE  /\ written \subseteq written'
         /\ \A m \in MemId : mem'[m] \subseteq written'
<1>1. CASE UNCHANGED vars
  BY <1>1 DEF vars, engineVars, auxVars
<1>2. ASSUME NEW c \in Callers, CalmStep(c) \/ FlushActive(c) \/ RotatePublish(c)
      PROVE  UNCHANGED <<mem, written>>
  BY <1>2, FlushActiveEffect, SpawnEffect DEF CalmStep
<1>3. ASSUME NEW c \in Callers, WriteInsert(c) \/ WriteInsertFull(c)
      PROVE  /\ written \subseteq written'
             /\ \A m \in MemId : mem'[m] \subseteq written'
  BY <1>3, InsertEffect
<1>4. ASSUME NEW m \in MemId, TaskStep(m) PROVE UNCHANGED <<mem, written>>
  BY <1>4, TaskEffect
<1> QED BY DurabilityCases, <1>1, <1>2, <1>3, <1>4

\* A segment in somebody's hands is not the next one to be written.
LEMMA HeldSegments ==
  ASSUME RecoveryInv
  PROVE  /\ manifest.live \cup LevelFiles(version) \subseteq FileId \ {next_file_id}
         /\ \A c \in Callers : CallerFiles(c) \subseteq FileId \ {next_file_id}
         /\ \A m \in MemId : TaskFiles(m) \subseteq FileId \ {next_file_id}
<1>1. manifest.created \subseteq FileId \ {next_file_id}
  BY FreshId, IdsAreIntegers DEF RecoveryInv
<1>2. manifest.live \cup LevelFiles(version) \subseteq manifest.created
  BY DEF RecoveryInv, FileIds, NamedFiles
<1>3. \A c \in Callers : caller[c].file \subseteq FileId \ {next_file_id}
  BY FreshId, IdsAreIntegers DEF RecoveryInv
<1>4. \A m \in MemId : task[m].file \subseteq FileId \ {next_file_id}
  BY FreshId, IdsAreIntegers DEF RecoveryInv
<1> QED BY <1>1, <1>2, <1>3, <1>4
       DEF RecoveryInv, NamedFiles, CallerFiles, TaskFiles, Owned

LEMMA WroteKept ==
  ASSUME RecoveryInv, [Next]_vars, ~Reopen,
         \A m \in MemId : mem[m] \subseteq written,
         NEW f \in FileId \ {next_file_id}, Wrote(f)
  PROVE  Wrote(f)'
BY WrittenGrows, CreatedStep DEF Wrote, RecoveryInv

LEMMA ProvenanceStep ==
  ASSUME RecoveryInv, Provenance, [Next]_vars
  PROVE  Provenance'
<1>1. TypeOK
  BY DEF RecoveryInv
<1>2. CASE Reopen
  <2>1. /\ written' = LiveEdges
        /\ \A f \in manifest.live : disk[f].edges \subseteq LiveEdges
    BY <1>2 DEF Reopen, OpenInner, LiveEdges, EdgesOf
  <2> QED BY <1>1, <1>2, <2>1, ReopenEffect
         DEF Provenance, Wrote, CallerFiles, TaskFiles, Owned, LevelFiles,
             IdleCaller, NoTask, NoVersion, Compacting
<1> SUFFICES ASSUME ~Reopen PROVE Provenance'
  BY <1>2
<1>3. /\ written \subseteq written'
      /\ \A m \in MemId : mem'[m] \subseteq written'
  BY <1>1, WrittenGrows DEF Provenance
<1> DEFINE Known(F) == \A f \in F : Wrote(f)'
<1>4. /\ Known(manifest.live) /\ Known(LevelFiles(version))
      /\ \A c \in Callers : Known(CallerFiles(c))
      /\ \A m \in MemId : Known(TaskFiles(m))
  BY HeldSegments, WroteKept DEF Provenance
<1>5. ASSUME Known(manifest'.live), Known(LevelFiles(version')),
             \A c \in Callers : Known(CallerFiles(c)'),
             \A c \in Callers :
               caller'[c].pc \in Compacting => caller'[c].recs \subseteq written',
             \A m \in MemId : Known(TaskFiles(m)'),
             \A m \in MemId : task'[m].recs \subseteq written'
      PROVE  Provenance'
  BY <1>3, <1>5 DEF Provenance
<1>6. \A m \in MemId : task[m].recs \subseteq written'
  BY <1>3 DEF Provenance
<1>7. \A c \in Callers :
        caller[c].pc \in Compacting => caller[c].recs \subseteq written'
  BY <1>3 DEF Provenance
<1> USE DEF CallerFiles, TaskFiles, Owned
<1>8. CASE UNCHANGED vars
  BY <1>8, <1>4, <1>5, <1>6, <1>7 DEF vars, engineVars, storeVars
<1>9. ASSUME NEW c \in Callers, QuietStep(c) PROVE Provenance'
  BY <1>4, <1>5, <1>6, <1>7, <1>9 DEF QuietStep, LevelFiles
<1>10. ASSUME NEW c \in Callers, WriteBegin(c) PROVE Provenance'
  BY <1>1, <1>4, <1>5, <1>6, <1>7, <1>10, WriteBeginEffect
     DEF LevelFiles, Compacting, IdleCaller, NoTask, NoVersion
<1>11. ASSUME NEW c \in Callers, RotatePublish(c) PROVE Provenance'
  BY <1>1, <1>3, <1>4, <1>5, <1>6, <1>7, <1>11, RotatePublishEffect
     DEF LevelFiles, Compacting, IdleCaller, NoTask, NoVersion
<1>12. ASSUME NEW c \in Callers, CompactMerge(c) PROVE Provenance'
  <2>1. caller'[c].recs \subseteq written'
    BY <1>1, <1>4, <1>12, CompactMergeEffect DEF Wrote
  <2> QED
    BY <1>1, <1>4, <1>5, <1>6, <1>7, <1>12, <2>1, CompactMergeEffect
       DEF LevelFiles, Compacting, IdleCaller, NoTask, NoVersion
<1>13. ASSUME NEW c \in Callers, CompactWrite(c) PROVE Provenance'
  <2>1. PICK segment \in SUBSET caller[c].recs, f \in FileId :
          /\ disk'[f].edges = segment
          /\ \A d \in Callers \ {c} : caller'[d] = caller[d]
          /\ caller[c].pc = "write" /\ caller'[c].pc = "append"
          /\ caller'[c].recs = caller[c].recs \ segment
          /\ caller'[c].file = {f}
          /\ caller'[c].outs = caller[c].outs /\ caller'[c].sel = caller[c].sel
          /\ caller'[c].old = caller[c].old
          /\ UNCHANGED <<version, manifest, task>>
    BY <1>1, <1>13, CompactWriteEffect
  <2>2. caller[c].recs \subseteq written'
    BY <1>7, <2>1 DEF Compacting
  <2>3. Wrote(f)'
    BY <2>1, <2>2 DEF Wrote
  <2>4. Known(CallerFiles(c)')
    BY <1>4, <2>1, <2>3
  <2> QED BY <1>4, <1>5, <1>6, <1>7, <2>1, <2>2, <2>4
<1>14. ASSUME NEW c \in Callers, CompactAppend(c) PROVE Provenance'
  BY <1>1, <1>4, <1>5, <1>6, <1>7, <1>14, CompactAppendEffect, CreateEffect
     DEF LevelFiles, Compacting, IdleCaller, NoTask, NoVersion
<1>15. ASSUME NEW c \in Callers, CompactDelete(c) PROVE Provenance'
  BY <1>1, <1>4, <1>5, <1>6, <1>7, <1>15, CompactDeleteEffect, DeleteEffect
     DEF LevelFiles, Compacting, IdleCaller, NoTask, NoVersion
<1>16. ASSUME NEW c \in Callers, CompactPin(c) PROVE Provenance'
  BY <1>1, <1>4, <1>5, <1>6, <1>7, <1>16, CompactPinEffect
     DEF LevelFiles, Compacting, IdleCaller, NoTask, NoVersion
<1>17. ASSUME NEW c \in Callers, CompactPublish(c) PROVE Provenance'
  BY <1>1, <1>4, <1>5, <1>6, <1>7, <1>17, CompactPublishEffect
     DEF LevelFiles, Compacting, IdleCaller, NoTask, NoVersion
<1>18. ASSUME NEW c \in Callers, CompactFail(c) PROVE Provenance'
  BY <1>1, <1>4, <1>5, <1>6, <1>7, <1>18, CompactFailEffect, CreateEffect, DeleteEffect
     DEF LevelFiles, Compacting, IdleCaller, NoTask, NoVersion
<1>19. ASSUME NEW m \in MemId, FlushWrite(m) PROVE Provenance'
  <2>1. PICK segment \in SUBSET task[m].recs, f \in FileId :
          /\ disk'[f].edges = segment
          /\ \A n \in MemId \ {m} : task'[n] = task[n]
          /\ task'[m].recs = task[m].recs \ segment
          /\ task'[m].file = {f}
          /\ task'[m].files = task[m].files /\ task'[m].old = task[m].old
          /\ UNCHANGED <<version, manifest, caller>>
    BY <1>1, <1>19, FlushWriteEffect
  <2>2. Wrote(f)'
    BY <1>6, <2>1 DEF Wrote
  <2>3. Known(TaskFiles(m)')
    BY <1>4, <2>1, <2>2
  <2> QED BY <1>4, <1>5, <1>6, <1>7, <2>1, <2>3
<1>20. ASSUME NEW m \in MemId, FlushAppend(m) PROVE Provenance'
  BY <1>1, <1>4, <1>5, <1>6, <1>7, <1>20, FlushAppendEffect, CreateEffect
     DEF LevelFiles, Compacting, IdleCaller, NoTask, NoVersion
<1>21. ASSUME NEW m \in MemId, FlushPin(m) \/ FlushIndexPin(m) PROVE Provenance'
  BY <1>1, <1>4, <1>5, <1>6, <1>7, <1>21, FlushPinEffect
     DEF LevelFiles, Compacting, IdleCaller, NoTask, NoVersion
<1>22. ASSUME NEW m \in MemId, FlushPublish(m) PROVE Provenance'
  BY <1>1, <1>4, <1>5, <1>6, <1>7, <1>22, FlushPublishEffect
     DEF LevelFiles, Compacting, IdleCaller, NoTask, NoVersion
<1>23. ASSUME NEW m \in MemId, FlushIndexStore(m) PROVE Provenance'
  BY <1>1, <1>4, <1>5, <1>6, <1>7, <1>23, FlushIndexStoreEffect
     DEF LevelFiles, Compacting, IdleCaller, NoTask, NoVersion
<1>24. ASSUME NEW m \in MemId, FlushFail(m) PROVE Provenance'
  BY <1>1, <1>4, <1>5, <1>6, <1>7, <1>24, FlushFailEffect, CreateEffect
     DEF LevelFiles, Compacting, IdleCaller, NoTask, NoVersion
<1> QED
  BY <1>1, StepCases, <1>8, <1>9, <1>10, <1>11, <1>12, <1>13, <1>14, <1>15, <1>16, <1>17, <1>18, <1>19, <1>20, <1>21, <1>22, <1>23, <1>24
     DEF TaskStep

LEMMA RewritesStep ==
  ASSUME RecoveryInv, Rewrites, [Next]_vars
  PROVE  Rewrites'
<1>1. TypeOK
  BY DEF RecoveryInv
<1>2. ASSUME NEW c \in Callers, caller[c].pc \in Compacting
      PROVE  /\ caller[c].recs \subseteq DurableEdges'
             /\ \A f \in Owned(c) : disk'[f].edges \subseteq DurableEdges'
  <2>1. Owned(c) \subseteq FileId \ {next_file_id}
    BY <1>1, KnownSegments DEF RecoveryInv
  <2>2. \A f \in Owned(c) : disk'[f] = disk[f]
    BY <2>1, CreatedStep
  <2> QED BY <1>2, <2>2, DurableGrows DEF Rewrites
<1>3. ASSUME NEW c \in Callers, caller'[c] = caller[c]
      PROVE  caller'[c].pc \in Compacting =>
               /\ caller'[c].recs \subseteq DurableEdges'
               /\ \A f \in Owned(c)' : disk'[f].edges \subseteq DurableEdges'
  BY <1>2, <1>3 DEF Owned
<1>4. ASSUME NEW c \in Callers, \A d \in Callers \ {c} : caller'[d] = caller[d],
             caller'[c].pc \in Compacting =>
               /\ caller'[c].recs \subseteq DurableEdges'
               /\ \A f \in Owned(c)' : disk'[f].edges \subseteq DurableEdges'
      PROVE  Rewrites'
  BY <1>3, <1>4 DEF Rewrites
<1>5. CASE UNCHANGED vars
  BY <1>3, <1>5 DEF Rewrites, vars
<1>6. CASE Reopen
  BY <1>1, <1>6, ReopenEffect DEF Rewrites, IdleCaller, Compacting
<1>7. ASSUME NEW c \in Callers,
             \/ QuietStep(c) \/ WriteBegin(c) \/ RotatePublish(c)
             \/ CompactPublish(c) \/ CompactFail(c)
      PROVE  Rewrites'
  <2>1. /\ \A d \in Callers \ {c} : caller'[d] = caller[d]
        /\ caller'[c].pc \notin Compacting
    BY <1>1, <1>7, WriteBeginEffect, RotatePublishEffect,
       CompactPublishEffect, CompactFailEffect
       DEF QuietStep, IdleCaller, Compacting
  <2> QED BY <1>4, <2>1
<1>8. ASSUME NEW c \in Callers, CompactMerge(c) PROVE Rewrites'
  <2>1. /\ \A d \in Callers \ {c} : caller'[d] = caller[d]
        /\ \A r \in caller'[c].recs :
             \E f \in caller[c].sel : r \in disk[f].edges
        /\ Owned(c)' = Owned(c)
    BY <1>1, <1>8, CompactMergeEffect DEF Owned
  <2>2. caller'[c].recs \subseteq DurableEdges'
    BY <2>1, DurableGrows DEF RecoveryInv, NamedFiles, DurableEdges, EdgesOf
  <2>3. Owned(c) = {}
    BY <1>1, <1>8, CompactMergeEffect
       DEF RecoveryInv, Phases, Owned, Compacting
  <2> QED BY <1>4, <2>1, <2>2, <2>3
<1>9. ASSUME NEW c \in Callers, CompactWrite(c) PROVE Rewrites'
  <2>1. PICK segment \in SUBSET caller[c].recs, f \in FileId :
          /\ disk'[f].edges = segment
          /\ \A d \in Callers \ {c} : caller'[d] = caller[d]
          /\ caller[c].pc = "write"
          /\ caller'[c].recs = caller[c].recs \ segment
          /\ caller'[c].file = {f} /\ caller'[c].outs = caller[c].outs
    BY <1>1, <1>9, CompactWriteEffect
  <2>2. /\ caller[c].recs \subseteq DurableEdges'
        /\ \A g \in caller[c].outs : disk'[g].edges \subseteq DurableEdges'
    BY <1>2, <2>1 DEF Compacting, Owned
  <2> QED BY <1>4, <2>1, <2>2 DEF Owned
<1>10. ASSUME NEW c \in Callers,
              CompactAppend(c) \/ CompactDelete(c) \/ CompactPin(c)
       PROVE  Rewrites'
  <2>1. /\ \A d \in Callers \ {c} : caller'[d] = caller[d]
        /\ caller[c].pc \in Compacting
        /\ caller'[c].recs = caller[c].recs
        /\ Owned(c)' \subseteq Owned(c)
    BY <1>1, <1>10, CompactAppendEffect, CompactDeleteEffect, CompactPinEffect
       DEF Owned, Compacting
  <2> QED BY <1>2, <1>4, <2>1
<1>11. ASSUME NEW m \in MemId, TaskStep(m) PROVE Rewrites'
  <2>1. caller' = caller
    BY <1>1, <1>11, TaskEffect
  <2> QED BY <1>3, <2>1 DEF Rewrites
<1> QED BY <1>1, StepCases, <1>5, <1>6, <1>7, <1>8, <1>9, <1>10, <1>11

-----------------------------------------------------------------------------
(* The inductive invariant.                                                *)

RefinementInv ==
  /\ WaitInv
  /\ Provenance
  /\ Rewrites

LEMMA InitRefinement == Init => RefinementInv
<1> SUFFICES ASSUME Init PROVE RefinementInv
  OBVIOUS
<1>1. Provenance
  BY DEF Init, Provenance, CallerFiles, TaskFiles, Owned, LevelFiles,
         IdleCaller, NoTask, NoVersion, Compacting
<1>2. Rewrites
  BY DEF Init, Rewrites, IdleCaller, Compacting
<1> QED BY <1>1, <1>2, InitWait DEF RefinementInv

LEMMA StepRefinement == RefinementInv /\ [Next]_vars => RefinementInv'
BY StepWait, ProvenanceStep, RewritesStep
   DEF RefinementInv, WaitInv, DurabilityInv

-----------------------------------------------------------------------------
(* The step mapping.                                                       *)

\* A step that persists nothing new leaves the abstract store alone.
LEMMA SavedKept ==
  ASSUME RecoveryInv, RecoveryInv', DurableEdges' = DurableEdges
  PROVE  Merged(LiveEdges)' = Merged(LiveEdges)
<1>1. Merged(LiveEdges) = Merged(DurableEdges)
  BY SavedIsNewest
<1>2. (Merged(LiveEdges) = Merged(DurableEdges))'
  BY SavedIsNewest, PTL
<1> QED BY <1>1, <1>2

\* A step that persists a segment adds its records.
LEMMA SavedAdds ==
  ASSUME RecoveryInv, RecoveryInv', NEW batch \in SUBSET EdgeRecord,
         DurableEdges' = DurableEdges \cup batch
  PROVE  Merged(LiveEdges)' = Merged(Merged(LiveEdges) \cup batch)
<1>1. DurableEdges \in SUBSET EdgeRecord
      /\ Merged(LiveEdges) = Merged(DurableEdges)
  BY SavedIsNewest
<1>2. (Merged(LiveEdges) = Merged(DurableEdges))'
  BY SavedIsNewest, PTL
<1>3. Merged(LiveEdges)' = Merged(DurableEdges \cup batch)
  BY <1>2
<1> QED BY <1>1, <1>3, MergedAdds

\* Creating a segment persists its records, and nothing else does.
LEMMA CreatePersists ==
  ASSUME RecoveryInv, NEW f \in FileId, AppendCreate(f), UNCHANGED disk
  PROVE  DurableEdges' = DurableEdges \cup disk[f].edges
BY CreateEffect DEF RecoveryInv, DurableEdges, EdgesOf

LEMMA NothingCreated ==
  ASSUME RecoveryInv, [Next]_vars, manifest'.created = manifest.created
  PROVE  DurableEdges' = DurableEdges
BY CreatedStep DEF DurableEdges, EdgesOf

\* A step persists nothing new, or what some flush task had written.
LEMMA PersistedStep ==
  ASSUME RefinementInv, [Next]_vars
  PROVE  \/ DurableEdges' = DurableEdges
         \/ \E batch \in SUBSET written :
              written' = written /\ DurableEdges' = DurableEdges \cup batch
<1>1. RecoveryInv /\ TypeOK
  BY DEF RefinementInv, WaitInv, DurabilityInv, RecoveryInv
<1> USE NothingCreated
<1>2. CASE UNCHANGED vars \/ Reopen
  BY <1>1, <1>2, ReopenEffect DEF vars, storeVars
<1>3. ASSUME NEW c \in Callers,
             \/ QuietStep(c) \/ WriteBegin(c) \/ RotatePublish(c)
             \/ CompactMerge(c) \/ CompactWrite(c) \/ CompactDelete(c)
             \/ CompactPin(c) \/ CompactPublish(c)
      PROVE  DurableEdges' = DurableEdges
  <2>1. manifest'.created = manifest.created
    BY <1>1, <1>3, WriteBeginEffect, RotatePublishEffect, CompactMergeEffect,
       CompactWriteEffect, CompactDeleteEffect, DeleteEffect,
       CompactPinEffect, CompactPublishEffect DEF QuietStep
  <2> QED BY <1>1, <2>1
<1>4. ASSUME NEW c \in Callers, NEW f \in caller[c].file, f \in FileId,
             AppendCreate(f), UNCHANGED disk
      PROVE  DurableEdges' = DurableEdges
  <2>1. caller[c].pc \in Compacting
    BY <1>1, <1>4 DEF RecoveryInv, Phases
  <2>2. disk[f].edges \subseteq DurableEdges
    BY <1>4, <2>1 DEF RefinementInv, Rewrites, Owned
  <2> QED BY <1>1, <1>4, <2>2, CreatePersists
<1>5. ASSUME NEW c \in Callers, CompactAppend(c)
      PROVE  DurableEdges' = DurableEdges
  BY <1>1, <1>4, <1>5, CompactAppendEffect
<1>6. ASSUME NEW c \in Callers, CompactFail(c)
      PROVE  DurableEdges' = DurableEdges
  <2>1. CASE \E f \in FileId : f \in caller[c].file /\ AppendCreate(f)
    BY <1>1, <1>4, <1>6, <2>1, CompactFailEffect
  <2>2. CASE UNCHANGED manifest \/ \E f \in caller[c].del : AppendDelete(f)
    BY <1>1, <1>6, <2>2, DeleteEffect
  <2> QED BY <1>1, <1>6, <2>1, <2>2, CompactFailEffect
<1>7. ASSUME NEW m \in MemId, TaskStep(m)
      PROVE  \/ DurableEdges' = DurableEdges
             \/ \E batch \in SUBSET written :
                  written' = written /\ DurableEdges' = DurableEdges \cup batch
  <2>1. written' = written
    BY <1>1, <1>7, TaskEffect
  <2>2. ASSUME NEW f \in task[m].file, f \in FileId, AppendCreate(f),
               UNCHANGED disk
        PROVE  \E batch \in SUBSET written :
                 DurableEdges' = DurableEdges \cup batch
    <3>1. disk[f].edges \subseteq written
      BY <2>2 DEF RefinementInv, Provenance, TaskFiles, Wrote
    <3> QED BY <1>1, <2>2, <3>1, CreatePersists
  <2>3. CASE FlushAppend(m)
    BY <1>1, <2>1, <2>2, <2>3, FlushAppendEffect
  <2>4. CASE FlushFail(m)
    <3>1. CASE UNCHANGED manifest
      BY <1>1, <3>1
    <3>2. CASE \E f \in FileId : f \in task[m].file /\ AppendCreate(f)
      BY <1>1, <2>1, <2>2, <2>4, <3>2, FlushFailEffect
    <3> QED BY <1>1, <2>4, <3>1, <3>2, FlushFailEffect
  <2>5. CASE \/ FlushWrite(m) \/ FlushPin(m) \/ FlushPublish(m)
             \/ FlushIndexPin(m) \/ FlushIndexStore(m)
    <3>1. manifest' = manifest
      BY <2>5 DEF FlushWrite, FlushPin, FlushPublish, FlushIndexPin,
                  FlushIndexStore, storeVars
    <3> QED BY <1>1, <3>1
  <2> QED BY <1>7, <2>3, <2>4, <2>5 DEF TaskStep
<1> QED BY <1>1, StepCases, <1>2, <1>3, <1>5, <1>6, <1>7

\* A step inserts nothing, or one record whose timestamp is new, or reopens.
LEMMA InsertedStep ==
  ASSUME RefinementInv, [Next]_vars
  PROVE  \/ written' = written
         \/ \E r \in EdgeRecord :
              /\ \A w \in written : w.ts # r.ts
              /\ written' = written \cup {r} /\ DurableEdges' = DurableEdges
         \/ Reopen
<1>1. RecoveryInv /\ TypeOK
  BY DEF RefinementInv, WaitInv, DurabilityInv, RecoveryInv
<1>2. CASE UNCHANGED vars
  BY <1>2 DEF vars, auxVars
<1>3. ASSUME NEW c \in Callers, CalmStep(c) \/ FlushActive(c) \/ RotatePublish(c)
      PROVE  written' = written
  BY <1>1, <1>3, FlushActiveEffect, SpawnEffect DEF CalmStep
<1>4. ASSUME NEW m \in MemId, TaskStep(m) PROVE written' = written
  BY <1>1, <1>4, TaskEffect
<1>5. ASSUME NEW c \in Callers, WriteInsert(c) \/ WriteInsertFull(c),
             written' # written
      PROVE  \E r \in EdgeRecord :
               /\ \A w \in written : w.ts # r.ts
               /\ written' = written \cup {r} /\ DurableEdges' = DurableEdges
  <2>1. PICK r \in EdgeRecord : caller[c].recs = {r}
    BY <1>1, <1>5, InsertEffect DEF RefinementInv, WaitInv, Writing
  <2>2. written' = written \cup {r} /\ r \notin written
    BY <1>1, <1>5, <2>1, InsertEffect
  <2>3. ASSUME NEW w \in written, w.ts = r.ts PROVE FALSE
    <3>1. HeldBack(w)
      BY DEF RefinementInv, WaitInv, DurabilityInv, EveryWriteHeld, HeldBack
    <3>2. Held(w) /\ Held(r)
      BY <1>1, <2>1, <3>1
         DEF HeldBack, Held, DurableEdges, EdgesOf, TypeOK
    <3>3. w \in EdgeRecord
      BY <1>1 DEF TypeOK
    <3>4. w = r
      BY <1>1, <2>3, <3>2, <3>3 DEF RecoveryInv, Timestamps
    <3> QED BY <2>2, <3>4
  <2>4. DurableEdges' = DurableEdges
    BY <1>1, <1>5, InsertEffect, NothingCreated
  <2> QED BY <2>2, <2>3, <2>4
<1> QED BY <1>1, DurabilityCases, <1>2, <1>3, <1>4, <1>5

LEMMA StepMaps ==
  ASSUME RefinementInv, RefinementInv', [Next]_vars
  PROVE  [Store!Next]_<<written, Merged(LiveEdges)>>
<1> DEFINE saved == Merged(LiveEdges)
<1>1. RecoveryInv /\ RecoveryInv' /\ TypeOK
  BY DEF RefinementInv, WaitInv, DurabilityInv, RecoveryInv
<1>2. written \in SUBSET EdgeRecord
  BY <1>1 DEF TypeOK
<1>3. CASE Reopen
  <2>1. written' = LiveEdges
    BY <1>3 DEF Reopen, OpenInner
  <2>2. saved' = saved
    BY <1>3 DEF Reopen, OpenInner, storeVars, LiveEdges, EdgesOf
  <2>3. LiveEdges \in SUBSET written
    BY DEF RefinementInv, Provenance, Wrote, LiveEdges, EdgesOf
  <2>4. Store!Restart
    BY <2>1, <2>2, <2>3, StoreNewest DEF Store!Restart, Merged
  <2> QED BY <2>4 DEF Store!Next
<1>4. CASE written' = written /\ DurableEdges' = DurableEdges
  BY <1>1, <1>4, SavedKept
<1>5. ASSUME NEW r \in EdgeRecord, \A w \in written : w.ts # r.ts,
             written' = written \cup {r}, DurableEdges' = DurableEdges
      PROVE  Store!Next
  <2>1. saved' = saved
    BY <1>1, <1>5, SavedKept
  <2> QED BY <1>5, <2>1 DEF Store!Next, Store!Write, Store!EdgeRecord, Merged,
             EdgeRecord, Store!EdgeMarker, EdgeMarker
<1>6. ASSUME NEW batch \in SUBSET written, written' = written,
             DurableEdges' = DurableEdges \cup batch, batch # {}
      PROVE  Store!Next
  <2>1. saved' = Merged(saved \cup batch)
    BY <1>1, <1>2, <1>6, SavedAdds
  <2>2. Store!Save
    BY <1>6, <2>1, StoreNewest DEF Store!Save, Merged
  <2> QED BY <2>2 DEF Store!Next
<1>7. CASE written' = written
  BY <1>4, <1>6, <1>7, PersistedStep
<1> QED BY <1>3, <1>5, <1>7, InsertedStep

\* For every number of callers, memgraphs, segments, faults and restarts, the
\* engine does what GraphStore allows: only the manifest record of a flush
\* saves anything, what it saves was written, and rotations, compactions,
\* failures and restarts are invisible.
THEOREM StoreImplemented == Spec => ImplementsStore
<1>1. Init => Store!Init
  <2> SUFFICES ASSUME Init PROVE Store!Init
    OBVIOUS
  <2>1. LiveEdges = {} /\ written = {}
    BY DEF Init, LiveEdges, EdgesOf
  <2> QED BY <2>1 DEF Store!Init, merge_latest_records
<1>2. RefinementInv /\ RefinementInv' /\ [Next]_vars
        => [Store!Next]_<<written, merge_latest_records(LiveEdges, MaxTs, TRUE)>>
  BY StepMaps DEF Merged
<1> QED
  BY <1>1, <1>2, InitRefinement, StepRefinement, PTL
     DEF Spec, ImplementsStore, Store!Spec

=============================================================================
