----------------------- MODULE LsmEngineCurrentThread -----------------------
(***************************************************************************)
(* What a caller sees, where the code is right about it: one user of the   *)
(* engine on a current_thread runtime.  Between pin_current and publish    *)
(* nobody else runs there, and a compaction, which first waits for all     *)
(* flushes, has the versions to itself.  (EngineLostUpdate and             *)
(* EngineCompactionRace show what happens with threads or a second user.)  *)
(***************************************************************************)
EXTENDS LsmEngineDurability

\* One user, on a runtime where an actor gives way only at an await.
OneThread == ~Preemptive /\ \A c, d \in Callers : c = d

-----------------------------------------------------------------------------
(* The inductive invariant.                                                *)

\* A version that is pinned to be changed or read is still the current one.
Pinned ==
  /\ \A c \in Callers :
       caller[c].pc \in {"rotate", "publish", "read"} => caller[c].old = version
  /\ \A m \in MemId : task[m].pc = "publish" => task[m].old = version

\* A compaction that has chosen its inputs, and one that has waited for the
\* flushes and not returned.
Selected == {"merge"} \cup Compacting
Compaction == Selected \cup {"select", "index", "store"}

\* No flush runs beside a compaction.
Alone ==
  \A c \in Callers : caller[c].pc \in Compaction =>
    \A m \in MemId : ~Running(m)

\* The inputs of a compaction are in the current version, and are all of it
\* unless the compaction has a target.
InputsListed ==
  \A c \in Callers : caller[c].pc \in Selected =>
    /\ caller[c].sel \subseteq LevelFiles(version)
    /\ caller[c].op # "target" => caller[c].sel = LevelFiles(version)

\* The outputs of c cover its inputs.
Covering(c) ==
  \A f \in caller[c].sel : \A r \in disk[f].edges :
    CoveredBy(r, EdgesOf(caller[c].outs))

\* Nothing is written while a compaction runs, and what it is about to
\* publish covers its inputs.
OutputsReady ==
  \A c \in Callers :
    /\ caller[c].pc \in Compacting => horizon = timestamp
    /\ caller[c].pc \in {"pin", "publish"} => Covering(c)

\* Inserts go to a memgraph of the current version.
ActiveListed ==
  (\A c \in Callers : caller[c].pc # "rotate") => active \in version.memgraphs

Shown(v) == MemEdges(v) \cup EdgesOf(LevelFiles(v))

\* What the current version lacks of what was written was superseded before
\* some compaction merged it away.
VersionCovers == \A r \in written : Retained(r, Shown(version), horizon)

VersionInv ==
  /\ RefinementInv
  /\ Pinned
  /\ Alone
  /\ InputsListed
  /\ OutputsReady
  /\ ActiveListed
  /\ horizon <= timestamp
  /\ VersionCovers

-----------------------------------------------------------------------------
(* Turns.                                                                  *)

LEMMA CallerAlone ==
  ASSUME OneThread, NEW c \in Callers, CallerBegin(c) \/ CallerStep(c)
  PROVE  \A m \in MemId : ~TaskBusy(m)
<1>1. CallerTurn(c)
  BY DEF CallerBegin, CallerStep, WriteBegin, FlushActive, CompactBegin,
         ReadBegin, WriteInsert, WriteInsertFull, RotatePublish, PushHandle,
         WaitPop, WaitJoin, WaitError, WaitEnd, CompactSelect, CompactMerge,
         CompactWrite, CompactAppend, CompactDelete, CompactPin,
         CompactPublish, CompactIndexPin, CompactIndexStore, CompactFail,
         ScanRead, NeighborsRead, NeighborsLookup, ReadFail, ReadReturn
<1> QED BY <1>1 DEF CallerTurn, OneThread

LEMMA TaskAlone ==
  ASSUME OneThread, NEW m \in MemId, TaskStep(m)
  PROVE  /\ \A c \in Callers : ~CallerBusy(c)
         /\ \A n \in MemId \ {m} : ~TaskBusy(n)
<1>1. TaskTurn(m)
  BY DEF TaskStep, FlushWrite, FlushAppend, FlushPin, FlushPublish,
         FlushIndexPin, FlushIndexStore, FlushFail
<1> QED BY <1>1 DEF TaskTurn, OneThread

-----------------------------------------------------------------------------
(* The steps.                                                              *)

\* Caller c has chosen the inputs of a compaction.
Chose(c) ==
  /\ caller'[c].sel = SelectedInputs(c, version)
  /\ caller'[c].sel \cap version.l0 # {}
  /\ caller'[c].op = caller[c].op

\* A step of caller c that changes neither the version nor a memgraph.
SteadyStep(c) ==
  /\ caller[c].pc # "rotate" /\ caller'[c].pc # "index"
  /\ active' = active \/ caller'[c].pc = "rotate"
  /\ caller'[c].pc \in {"rotate", "publish", "read"} =>
       caller'[c].old = version
  /\ caller'[c].pc \in Compaction =>
       caller[c].pc \in Compaction \/ (caller[c].pc = "wait" /\ flush_tasks = <<>>)
  /\ caller'[c].pc \in Selected =>
       \/ Chose(c)
       \/ /\ caller[c].pc \in Selected
          /\ caller'[c].sel = caller[c].sel /\ caller'[c].op = caller[c].op
  /\ horizon' \in {horizon, timestamp} /\ timestamp' >= timestamp
  /\ caller'[c].pc \in Compacting =>
       /\ timestamp' = timestamp
       /\ horizon' = timestamp \/ (horizon' = horizon /\ caller[c].pc \in Compacting)
  /\ caller'[c].pc \in {"pin", "publish"} =>
       /\ caller[c].pc \in {"delete", "pin"}
       /\ caller'[c].outs = caller[c].outs /\ caller'[c].sel = caller[c].sel
  /\ caller'[c].pc = "store" => caller'[c].old = version
  /\ caller'[c].pc \in {"lookup", "done"} =>
       ScanRead(c) \/ NeighborsRead(c) \/ NeighborsLookup(c)
  /\ \/ CompactIndexStore(c)
     \/ /\ index' = index
        /\ caller[c].pc \in {"index", "store"} => caller'[c].pc = "store"
  /\ UNCHANGED <<mem, version, task, written>>

LEMMA SteadyWrites ==
  ASSUME TypeOK, NEW c \in Callers,
         \/ WriteBegin(c) \/ FlushActive(c) \/ PushHandle(c) \/ WaitPop(c)
         \/ WaitJoin(c) \/ WaitError(c) \/ WaitEnd(c)
  PROVE  SteadyStep(c)
<1> USE DEF SteadyStep, Selected, Compaction, Compacting, TypeOK, CallerState,
            engineVars, auxVars, IdleCaller, Finish
<1>1. timestamp \in Int
  BY DEF TypeOK
<1>2. CASE WriteBegin(c)
  <2>1. /\ timestamp' = timestamp + 1
        /\ UNCHANGED <<mem, active, version, index, task, written, horizon>>
    BY <1>2 DEF WriteBegin
  <2>2. caller[c].pc = "idle" /\ caller'[c].pc = "insert"
    BY <1>2, WriteBeginEffect
  <2> QED BY <1>1, <2>1, <2>2
<1>3. CASE FlushActive(c)
  <2>1. /\ caller[c].pc = "idle"
        /\ UNCHANGED <<timestamp, mem, version, index, task, written, horizon>>
    BY <1>3 DEF FlushActive
  <2>2. CASE /\ caller' = [caller EXCEPT ![c].pc = "wait", ![c].op = "flush"]
             /\ UNCHANGED active
    BY <1>1, <2>1, <2>2
  <2>3. CASE caller' = [caller EXCEPT ![c].pc = "rotate", ![c].op = "flush",
                          ![c].handle = active, ![c].old = version]
    BY <1>1, <2>1, <2>3
  <2> QED BY <1>3, <2>2, <2>3 DEF FlushActive
<1>4. CASE PushHandle(c)
  BY <1>1, <1>4 DEF PushHandle
<1>5. CASE WaitPop(c) \/ WaitJoin(c) \/ WaitError(c)
  <2>1. /\ caller[c].pc \in {"wait", "join"}
        /\ UNCHANGED <<timestamp, mem, active, version, index, task, written,
                       horizon>>
    BY <1>5 DEF WaitPop, WaitJoin, WaitError
  <2>2. caller'[c].pc \in {"join", "wait", "idle"}
    BY <1>5 DEF WaitPop, WaitJoin, WaitError
  <2> QED BY <1>1, <2>1, <2>2
<1>6. CASE WaitEnd(c)
  <2>1. /\ caller[c].pc = "wait" /\ flush_tasks = <<>>
        /\ UNCHANGED <<timestamp, mem, active, version, index, task, written,
                       horizon>>
    BY <1>6 DEF WaitEnd
  <2>2. caller'[c].pc \in {"idle", "wait", "select"}
    BY <1>6 DEF WaitEnd
  <2> QED BY <1>1, <2>1, <2>2
<1> QED BY <1>2, <1>3, <1>4, <1>5, <1>6

LEMMA SteadyCompactions ==
  ASSUME TypeOK, NEW c \in Callers,
         \/ CompactBegin(c) \/ CompactSelect(c) \/ CompactMerge(c)
         \/ CompactWrite(c) \/ CompactAppend(c) \/ CompactDelete(c)
         \/ CompactPin(c) \/ CompactIndexPin(c) \/ CompactIndexStore(c)
         \/ CompactFail(c)
  PROVE  SteadyStep(c)
<1> USE DEF SteadyStep, Selected, Compaction, Compacting, TypeOK, CallerState,
            engineVars, auxVars, IdleCaller, Finish
<1>1. timestamp \in Int
  BY DEF TypeOK
<1>2. CASE CompactBegin(c)
  <2>1. /\ caller[c].pc = "idle"
        /\ UNCHANGED <<timestamp, mem, active, version, index, task, written,
                       horizon>>
    BY <1>2 DEF CompactBegin
  <2>2. caller'[c].pc = "wait"
    BY <1>2 DEF CompactBegin
  <2> QED BY <1>1, <2>1, <2>2
<1>3. CASE CompactSelect(c)
  <2> DEFINE inputs == SelectedInputs(c, version)
  <2>1. /\ caller[c].pc = "select"
        /\ UNCHANGED <<timestamp, mem, active, version, index, task, written,
                       horizon>>
    BY <1>3 DEF CompactSelect
  <2>2. \/ caller' = [caller EXCEPT ![c] = IdleCaller]
        \/ /\ inputs \cap version.l0 # {}
           /\ caller' = [caller EXCEPT ![c].pc = "merge", ![c].sel = inputs]
    BY <1>3 DEF CompactSelect
  <2> HIDE DEF inputs
  <2>3. CASE caller' = [caller EXCEPT ![c] = IdleCaller]
    BY <1>1, <2>1, <2>3
  <2>4. CASE /\ inputs \cap version.l0 # {}
             /\ caller' = [caller EXCEPT ![c].pc = "merge", ![c].sel = inputs]
    <3>1. /\ caller'[c].pc = "merge" /\ caller'[c].sel = inputs
          /\ caller'[c].op = caller[c].op
      BY <2>4
    <3>2. Chose(c)
      BY <2>4, <3>1 DEF Chose, inputs
    <3> QED BY <1>1, <2>1, <3>1, <3>2
  <2> QED BY <2>2, <2>3, <2>4
<1>4. CASE CompactMerge(c)
  <2>1. /\ caller[c].pc = "merge" /\ horizon' = timestamp
        /\ UNCHANGED <<timestamp, mem, active, version, index, task, written>>
    BY <1>4 DEF CompactMerge
  <2>2. \E recs :
          caller' = [caller EXCEPT ![c].pc = "write", ![c].recs = recs]
    BY <1>4 DEF CompactMerge
  <2>3. /\ caller'[c].pc = "write" /\ caller'[c].sel = caller[c].sel
        /\ caller'[c].op = caller[c].op
    BY <2>2
  <2> QED BY <1>1, <2>1, <2>3
<1>5. CASE CompactWrite(c)
  <2>1. /\ caller[c].pc = "write"
        /\ UNCHANGED <<timestamp, mem, active, version, index, task, written,
                       horizon>>
    BY <1>5 DEF CompactWrite
  <2>2. \E recs, file :
          caller' = [caller EXCEPT ![c].pc = "append", ![c].file = file,
                                   ![c].recs = recs]
    BY <1>5 DEF CompactWrite
  <2>3. /\ caller'[c].pc = "append" /\ caller'[c].sel = caller[c].sel
        /\ caller'[c].op = caller[c].op
    BY <2>2
  <2> QED BY <1>1, <2>1, <2>3
<1>6. CASE CompactAppend(c)
  <2>1. /\ caller[c].pc = "append"
        /\ UNCHANGED <<timestamp, mem, active, version, index, task, written,
                       horizon>>
    BY <1>6 DEF CompactAppend
  <2>2. PICK f \in caller[c].file :
          caller' = [caller EXCEPT
            ![c].pc = IF caller[c].recs = {} THEN "delete" ELSE "write",
            ![c].outs = @ \cup {f}, ![c].file = {}, ![c].del = caller[c].sel]
    BY <1>6 DEF CompactAppend
  <2>3. PICK pc \in {"delete", "write"} :
          pc = IF caller[c].recs = {} THEN "delete" ELSE "write"
    OBVIOUS
  <2>4. caller' = [caller EXCEPT ![c].pc = pc, ![c].outs = @ \cup {f},
                                 ![c].file = {}, ![c].del = caller[c].sel]
    BY ONLY <2>2, <2>3
  <2>5. /\ caller'[c].pc = pc /\ caller'[c].sel = caller[c].sel
        /\ caller'[c].op = caller[c].op
    BY <2>4
  <2> QED BY <1>1, <2>1, <2>3, <2>5
<1>7. CASE CompactDelete(c)
  <2>1. /\ caller[c].pc = "delete"
        /\ UNCHANGED <<timestamp, mem, active, version, index, task, written,
                       horizon>>
    BY <1>7 DEF CompactDelete
  <2>2. \E del : \E pc \in {"delete", "pin"} :
          caller' = [caller EXCEPT ![c].pc = pc, ![c].del = del]
    BY <1>7 DEF CompactDelete
  <2>3. /\ caller'[c].pc \in {"delete", "pin"}
        /\ caller'[c].sel = caller[c].sel /\ caller'[c].op = caller[c].op
        /\ caller'[c].outs = caller[c].outs
    BY <2>2
  <2> QED BY <1>1, <2>1, <2>3
<1>8. CASE CompactPin(c) \/ CompactIndexPin(c)
  <2>1. PICK pc \in {"publish", "store"} :
          /\ caller' = [caller EXCEPT ![c].pc = pc, ![c].old = version]
          /\ caller[c].pc = IF pc = "publish" THEN "pin" ELSE "index"
    BY <1>8 DEF CompactPin, CompactIndexPin
  <2>2. UNCHANGED <<timestamp, mem, active, version, index, task, written,
                       horizon>>
    BY <1>8 DEF CompactPin, CompactIndexPin
  <2>3. /\ caller'[c].pc = pc /\ caller'[c].old = version
        /\ caller'[c].sel = caller[c].sel /\ caller'[c].op = caller[c].op
        /\ caller'[c].outs = caller[c].outs
    BY <2>1
  <2> QED BY <1>1, <2>1, <2>2, <2>3
<1>9. CASE CompactIndexStore(c)
  <2>1. /\ caller[c].pc = "store"
        /\ UNCHANGED <<timestamp, mem, active, version, task, written, horizon>>
    BY <1>9 DEF CompactIndexStore
  <2>2. caller'[c].pc = "idle"
    BY <1>9 DEF CompactIndexStore
  <2> QED BY <1>1, <1>9, <2>1, <2>2
<1>10. CASE CompactFail(c)
  <2>1. /\ caller[c].pc \in {"merge", "write", "append", "delete"}
        /\ UNCHANGED <<timestamp, mem, active, version, index, task, written,
                       horizon>>
    BY <1>10 DEF CompactFail
  <2>2. caller'[c].pc = "idle"
    BY <1>10 DEF CompactFail
  <2> QED BY <1>1, <2>1, <2>2
<1> QED BY <1>2, <1>3, <1>4, <1>5, <1>6, <1>7, <1>8, <1>9, <1>10

LEMMA SteadyReads ==
  ASSUME TypeOK, NEW c \in Callers,
         \/ ReadBegin(c) \/ ScanRead(c) \/ NeighborsRead(c)
         \/ NeighborsLookup(c) \/ ReadFail(c) \/ ReadReturn(c)
  PROVE  SteadyStep(c)
<1> USE DEF SteadyStep, Selected, Compaction, Compacting, TypeOK, CallerState,
            engineVars, auxVars, IdleCaller, Finish
<1>1. timestamp \in Int
  BY DEF TypeOK
<1>2. CASE ReadBegin(c)
  <2>1. /\ caller[c].pc = "idle"
        /\ UNCHANGED <<timestamp, mem, active, version, index, task, written,
                       horizon>>
    BY <1>2 DEF ReadBegin
  <2>2. \/ \E snapshot : caller' = [caller EXCEPT
             ![c].pc = "read", ![c].op = "scan", ![c].snapshot = snapshot,
             ![c].old = version]
        \/ \E snapshot, query : caller' = [caller EXCEPT
             ![c].pc = "read", ![c].op = "neighbors", ![c].arg = query,
             ![c].snapshot = snapshot, ![c].old = version]
    BY <1>2 DEF ReadBegin
  <2>3. caller'[c].pc = "read" /\ caller'[c].old = version
    <3>1. ASSUME NEW snapshot,
                 caller' = [caller EXCEPT
                   ![c].pc = "read", ![c].op = "scan",
                   ![c].snapshot = snapshot, ![c].old = version]
          PROVE  caller'[c].pc = "read" /\ caller'[c].old = version
      BY <3>1
    <3>2. ASSUME NEW snapshot, NEW query,
                 caller' = [caller EXCEPT
                   ![c].pc = "read", ![c].op = "neighbors", ![c].arg = query,
                   ![c].snapshot = snapshot, ![c].old = version]
          PROVE  caller'[c].pc = "read" /\ caller'[c].old = version
      BY <3>2
    <3> QED BY <2>2, <3>1, <3>2
  <2> QED BY <1>1, <2>1, <2>3
<1>3. CASE ScanRead(c) \/ NeighborsRead(c) \/ NeighborsLookup(c)
  <2>1. /\ caller[c].pc \in {"read", "lookup", "done"}
        /\ UNCHANGED <<timestamp, mem, active, version, index, task, written,
                       horizon>>
    BY <1>3 DEF ScanRead, NeighborsRead, NeighborsLookup
  <2>2. \/ \E pc \in {"done", "lookup"} : \E recs : caller' = [caller EXCEPT
             ![c].pc = pc, ![c].old = NoVersion, ![c].recs = recs]
        \/ \E recs : caller' = [caller EXCEPT ![c].pc = "done",
                                              ![c].recs = recs]
    BY <1>3 DEF ScanRead, NeighborsRead, NeighborsLookup
  <2>3. caller'[c].pc \in {"done", "lookup"}
    BY <2>2
  <2> QED BY <1>1, <1>3, <2>1, <2>3
<1>4. CASE ReadFail(c) \/ ReadReturn(c)
  <2>1. /\ caller[c].pc \in {"read", "lookup", "done"}
        /\ UNCHANGED <<timestamp, mem, active, version, index, task, written,
                       horizon>>
    BY <1>4 DEF ReadFail, ReadReturn
  <2>2. caller'[c].pc = "idle"
    BY <1>4 DEF ReadFail, ReadReturn
  <2> QED BY <1>1, <2>1, <2>2
<1> QED BY <1>2, <1>3, <1>4

\* The steps that insert or change the version, and all others.
LEMMA VersionCases ==
  ASSUME TypeOK, OneThread, [Next]_vars
  PROVE  \/ UNCHANGED vars
         \/ Reopen
         \/ \E c \in Callers :
              /\ \A m \in MemId : ~TaskBusy(m)
              /\ \/ SteadyStep(c) \/ WriteInsert(c) \/ WriteInsertFull(c)
                 \/ RotatePublish(c) \/ CompactPublish(c)
         \/ \E m \in MemId : TaskStep(m)
<1>1. ASSUME NEW c \in Callers, CallerBegin(c) \/ CallerStep(c)
      PROVE  /\ \A m \in MemId : ~TaskBusy(m)
             /\ \/ SteadyStep(c) \/ WriteInsert(c) \/ WriteInsertFull(c)
                \/ RotatePublish(c) \/ CompactPublish(c)
  BY <1>1, CallerAlone, SteadyWrites, SteadyCompactions, SteadyReads
     DEF CallerBegin, CallerStep
<1> QED BY <1>1 DEF Next

\* What the steps that are not steady do to the version.
LEMMA RotatedVersion ==
  ASSUME TypeOK, NEW c \in Callers, RotatePublish(c)
  PROVE  /\ version'.memgraphs = caller[c].old.memgraphs \cup {active}
         /\ version'.l0 = caller[c].old.l0 /\ version'.l1 = caller[c].old.l1
         /\ UNCHANGED horizon
BY DEF RotatePublish, TypeOK, CallerState, Version, auxVars

LEMMA FlushedVersion ==
  ASSUME TypeOK, NEW m \in MemId, FlushPublish(m)
  PROVE  /\ version'.memgraphs = task[m].old.memgraphs \ {m}
         /\ version'.l0 = task[m].old.l0 \cup task[m].files
         /\ version'.l1 = task[m].old.l1
         /\ task[m].pc = "publish" /\ task'[m].pc = "index"
BY DEF FlushPublish, TypeOK, TaskState, Version

LEMMA CompactedVersion ==
  ASSUME TypeOK, NEW c \in Callers, CompactPublish(c)
  PROVE  /\ caller[c].pc = "publish" /\ caller'[c].pc = "index"
         /\ version'.memgraphs = caller[c].old.memgraphs
         /\ IF caller[c].op = "target"
              THEN /\ version'.l0 = caller[c].old.l0 \ caller[c].sel
                   /\ version'.l1 = (caller[c].old.l1 \ caller[c].sel)
                                      \cup caller[c].outs
              ELSE version'.l0 = {} /\ version'.l1 = caller[c].outs
         /\ UNCHANGED <<timestamp, mem, active, disk, task, written, horizon>>
<1> USE DEF TypeOK, CallerState, Version
<1>1. /\ caller[c].pc = "publish"
      /\ caller' = [caller EXCEPT ![c] =
                      [IdleCaller EXCEPT !.pc = "index", !.op = caller[c].op]]
      /\ UNCHANGED <<timestamp, mem, active, disk, task, written, horizon>>
  BY DEF CompactPublish, engineVars, storeVars, auxVars
<1>2. caller'[c].pc = "index"
  BY <1>1 DEF IdleCaller
<1>3. version' =
        IF caller[c].op = "target"
          THEN [caller[c].old EXCEPT
                  !.l0 = @ \ caller[c].sel,
                  !.l1 = (@ \ caller[c].sel) \cup caller[c].outs]
          ELSE [caller[c].old EXCEPT !.l0 = {}, !.l1 = caller[c].outs]
  BY DEF CompactPublish
<1> QED BY <1>1, <1>2, <1>3

\* The other steps of a flush task leave the version alone.
LEMMA TaskVersion ==
  ASSUME TypeOK, NEW m \in MemId, TaskStep(m)
  PROVE  /\ FlushPublish(m) \/ version' = version
         /\ task'[m].pc = "publish" => task'[m].old = version'
         /\ UNCHANGED horizon
<1> USE DEF TypeOK, TaskState, auxVars, NoTask
<1>1. CASE FlushWrite(m)
  <2>1. PICK segment \in FlushSegments(task[m].recs) :
          task' = [task EXCEPT ![m].pc = "append", ![m].file = {next_file_id},
                               ![m].recs = @ \ segment]
    BY <1>1 DEF FlushWrite
  <2>2. task'[m].pc = "append"
    BY <2>1
  <2> QED BY <1>1, <2>2 DEF FlushWrite
<1>2. CASE FlushAppend(m)
  <2>1. PICK f \in task[m].file :
          task' = [task EXCEPT
            ![m].pc = IF task[m].recs = {} THEN "pin" ELSE "write",
            ![m].files = @ \cup {f}, ![m].file = {}]
    BY <1>2 DEF FlushAppend
  <2>2. task'[m].pc # "publish"
    BY <2>1
  <2> QED BY <1>2, <2>2 DEF FlushAppend
<1>3. CASE FlushPin(m) \/ FlushIndexPin(m)
  BY <1>3 DEF FlushPin, FlushIndexPin
<1>4. CASE FlushPublish(m)
  BY <1>4, FlushedVersion DEF FlushPublish
<1>5. CASE FlushIndexStore(m)
  BY <1>5 DEF FlushIndexStore
<1>6. CASE FlushFail(m)
  BY <1>6 DEF FlushFail
<1> QED BY <1>1, <1>2, <1>3, <1>4, <1>5, <1>6 DEF TaskStep

-----------------------------------------------------------------------------
(* Versions are pinned by one actor at a time.                             *)

LEMMA PinnedStep ==
  ASSUME TypeOK, OneThread, Pinned, [Next]_vars
  PROVE  Pinned'
<1>1. CASE UNCHANGED vars
  BY <1>1 DEF vars, Pinned
<1>2. CASE Reopen
  BY <1>2, ReopenEffect DEF Pinned, IdleCaller, NoTask
<1>3. ASSUME NEW c \in Callers, \A m \in MemId : ~TaskBusy(m),
             SteadyStep(c)
      PROVE  Pinned'
  BY <1>3 DEF Pinned, SteadyStep, OneThread
<1>4. ASSUME NEW c \in Callers, \A m \in MemId : ~TaskBusy(m),
             WriteInsert(c) \/ WriteInsertFull(c)
      PROVE  Pinned'
  <2>1. version' = version /\ task' = task
    BY <1>4, InsertEffect
  <2>2. /\ caller'[c].pc \in {"idle", "rotate"}
        /\ caller'[c].pc = "rotate" => caller'[c].old = version
    BY <1>4 DEF WriteInsert, WriteInsertFull, Finish, IdleCaller, TypeOK,
                CallerState
  <2> QED BY <2>1, <2>2 DEF Pinned, OneThread
<1>5. ASSUME NEW c \in Callers, \A m \in MemId : ~TaskBusy(m),
             RotatePublish(c)
      PROVE  Pinned'
  <2>1. \A m \in MemId : task'[m].pc # "publish"
    BY <1>5, SpawnEffect DEF TaskBusy
  <2> QED BY <1>5, <2>1, SpawnEffect DEF Pinned, OneThread
<1>6. ASSUME NEW c \in Callers, \A m \in MemId : ~TaskBusy(m),
             CompactPublish(c)
      PROVE  Pinned'
  BY <1>6, CompactedVersion DEF Pinned, OneThread, TaskBusy
<1>7. ASSUME NEW m \in MemId, TaskStep(m) PROVE Pinned'
  <2>1. \A c \in Callers : caller'[c].pc \notin {"rotate", "publish", "read"}
    BY <1>7, TaskAlone, TaskEffect DEF CallerBusy
  <2>2. \A n \in MemId \ {m} : task'[n].pc # "publish"
    BY <1>7, TaskAlone, TaskEffect DEF TaskBusy
  <2> QED BY <1>7, <2>1, <2>2, TaskVersion DEF Pinned
<1> QED BY VersionCases, <1>1, <1>2, <1>3, <1>4, <1>5, <1>6, <1>7

LEMMA AloneStep ==
  ASSUME TypeOK, OneThread, Tracked, Alone, [Next]_vars
  PROVE  Alone'
<1>1. CASE UNCHANGED vars
  BY <1>1 DEF vars, Alone, Running
<1>2. CASE Reopen
  BY <1>2, ReopenEffect DEF Alone, Running, IdleCaller, NoTask
<1>3. ASSUME NEW c \in Callers, SteadyStep(c) PROVE Alone'
  <2>1. CASE caller[c].pc \in Compaction
    BY <1>3, <2>1 DEF Alone, Running, SteadyStep, OneThread
  <2>2. CASE caller[c].pc = "wait" /\ flush_tasks = <<>>
    <3>1. \A m \in MemId : ~Listed(m) /\ ~InHand(m)
      BY <2>2 DEF Listed, InHand, OneThread
    <3> QED BY <1>3, <3>1 DEF Alone, Running, Tracked, SteadyStep
  <2>3. CASE caller'[c].pc \notin Compaction
    BY <2>3 DEF Alone, OneThread
  <2> QED BY <1>3, <2>1, <2>2, <2>3 DEF SteadyStep
<1>4. ASSUME NEW c \in Callers, WriteInsert(c) \/ WriteInsertFull(c)
      PROVE  Alone'
  BY <1>4, InsertEffect
     DEF Alone, OneThread, Compaction, Selected, Compacting, IdleCaller
<1>5. ASSUME NEW c \in Callers, RotatePublish(c) PROVE Alone'
  BY <1>5, SpawnEffect DEF Alone, OneThread, Compaction, Selected, Compacting
<1>6. ASSUME NEW c \in Callers, CompactPublish(c) PROVE Alone'
  BY <1>6, CompactedVersion
     DEF Alone, OneThread, Compaction, Selected, Compacting, Running
<1>7. ASSUME NEW m \in MemId, TaskStep(m) PROVE Alone'
  BY <1>7, TaskEffect DEF Alone, Running
<1> QED BY VersionCases, <1>1, <1>2, <1>3, <1>4, <1>5, <1>6, <1>7

\* No flush task moves while a compaction is under way.
LEMMA CompactsAlone ==
  ASSUME TypeOK, Alone, NEW m \in MemId, TaskStep(m)
  PROVE  \A c \in Callers : caller[c].pc \notin Compaction
BY TaskEffect DEF Alone, Running

-----------------------------------------------------------------------------
(* What a compaction takes and what it is about to publish.                *)

\* A compaction without a target takes both levels, if it takes anything.
LEMMA ChosenInputs ==
  ASSUME TypeOK, NEW c \in Callers, Chose(c)
  PROVE  /\ caller'[c].sel \subseteq LevelFiles(version)
         /\ caller'[c].op # "target" => caller'[c].sel = LevelFiles(version)
<1>1. version \in Version
  BY DEF TypeOK
<1>2. SelectedInputs(c, version) \subseteq LevelFiles(version)
  BY <1>1, SelectedTypes DEF LevelFiles
<1>3. caller[c].op # "target" =>
        SelectedInputs(c, version) \in {{}, LevelFiles(version)}
  BY DEF SelectedInputs, LevelFiles
<1> QED BY <1>2, <1>3 DEF Chose

LEMMA InputsListedStep ==
  ASSUME TypeOK, OneThread, Alone, InputsListed, [Next]_vars
  PROVE  InputsListed'
<1>1. CASE UNCHANGED vars
  BY <1>1 DEF vars, InputsListed, LevelFiles
<1>2. CASE Reopen
  BY <1>2, ReopenEffect DEF InputsListed, IdleCaller, Selected, Compacting
<1>3. ASSUME NEW c \in Callers, SteadyStep(c) PROVE InputsListed'
  <2>1. LevelFiles(version)' = LevelFiles(version)
    BY <1>3 DEF SteadyStep, LevelFiles
  <2>2. CASE caller'[c].pc \in Selected /\ Chose(c)
    BY <2>1, <2>2, ChosenInputs DEF InputsListed, OneThread
  <2>3. CASE /\ caller[c].pc \in Selected
             /\ caller'[c].sel = caller[c].sel /\ caller'[c].op = caller[c].op
    BY <2>1, <2>3 DEF InputsListed, OneThread
  <2>4. CASE caller'[c].pc \notin Selected
    BY <2>4 DEF InputsListed, OneThread
  <2> QED BY <1>3, <2>2, <2>3, <2>4 DEF SteadyStep
<1>4. ASSUME NEW c \in Callers, WriteInsert(c) \/ WriteInsertFull(c)
      PROVE  InputsListed'
  BY <1>4, InsertEffect
     DEF InputsListed, OneThread, Selected, Compacting, IdleCaller
<1>5. ASSUME NEW c \in Callers, RotatePublish(c) PROVE InputsListed'
  BY <1>5, SpawnEffect DEF InputsListed, OneThread, Selected, Compacting
<1>6. ASSUME NEW c \in Callers, CompactPublish(c) PROVE InputsListed'
  BY <1>6, CompactedVersion DEF InputsListed, OneThread, Selected, Compacting
<1>7. ASSUME NEW m \in MemId, TaskStep(m) PROVE InputsListed'
  BY <1>7, CompactsAlone, TaskEffect DEF InputsListed, Compaction
<1> QED BY VersionCases, <1>1, <1>2, <1>3, <1>4, <1>5, <1>6, <1>7

\* When its last input is deleted, all that a compaction has to show for its
\* inputs is in its outputs.
LEMMA OutputsStep ==
  ASSUME RecoveryInv, OutputsReady, [Next]_vars, NEW c \in Callers,
         caller[c].pc \in {"delete", "pin"},
         caller'[c].outs = caller[c].outs, caller'[c].sel = caller[c].sel
  PROVE  Covering(c)'
<1>1. caller[c].sel \cup caller[c].outs \subseteq manifest.created
  BY DEF RecoveryInv, NamedFiles
<1>2. \A f \in caller[c].sel \cup caller[c].outs : disk'[f] = disk[f]
  BY <1>1, CreatedStep
<1>3. EdgesOf(caller[c].outs)' = EdgesOf(caller[c].outs)
  BY <1>2 DEF EdgesOf
<1>4. Covering(c)
  <2>1. CASE caller[c].pc = "delete"
    <3>1. InputsCovered(c) /\ caller[c].recs = {} /\ caller[c].file = {}
      BY <2>1 DEF RecoveryInv, Coverage, Phases, Compacting
    <3>2. caller[c].recs \cup EdgesOf(Owned(c)) = EdgesOf(caller[c].outs)
      BY <3>1 DEF Owned
    <3> QED BY <3>1, <3>2 DEF InputsCovered, Covering
  <2>2. CASE caller[c].pc = "pin"
    BY <2>2 DEF OutputsReady
  <2> QED BY <2>1, <2>2
<1> QED BY <1>2, <1>3, <1>4 DEF Covering

LEMMA OutputsReadyStep ==
  ASSUME RecoveryInv, OneThread, Alone, OutputsReady, [Next]_vars
  PROVE  OutputsReady'
<1> USE DEF Compacting
<1>1. TypeOK
  BY DEF RecoveryInv
<1>2. CASE UNCHANGED vars
  BY <1>2 DEF vars, engineVars, storeVars, auxVars, OutputsReady, Covering,
              EdgesOf
<1>3. CASE Reopen
  BY <1>1, <1>3, ReopenEffect DEF OutputsReady, IdleCaller
<1>4. ASSUME NEW c \in Callers, SteadyStep(c) PROVE OutputsReady'
  <2>1. caller'[c].pc \in Compacting => horizon' = timestamp'
    BY <1>4 DEF SteadyStep, OutputsReady
  <2>2. ASSUME caller'[c].pc \in {"pin", "publish"}
        PROVE  Covering(c)'
    BY <1>4, <2>2, OutputsStep DEF SteadyStep
  <2> QED BY <2>1, <2>2 DEF OutputsReady, OneThread
<1>5. ASSUME NEW c \in Callers, WriteInsert(c) \/ WriteInsertFull(c)
      PROVE  OutputsReady'
  BY <1>1, <1>5, InsertEffect DEF OutputsReady, OneThread, IdleCaller
<1>6. ASSUME NEW c \in Callers, RotatePublish(c) PROVE OutputsReady'
  BY <1>1, <1>6, SpawnEffect DEF OutputsReady, OneThread
<1>7. ASSUME NEW c \in Callers, CompactPublish(c) PROVE OutputsReady'
  BY <1>1, <1>7, CompactedVersion DEF OutputsReady, OneThread
<1>8. ASSUME NEW m \in MemId, TaskStep(m) PROVE OutputsReady'
  BY <1>1, <1>8, CompactsAlone, TaskEffect
     DEF OutputsReady, Compaction, Selected
<1> QED BY <1>1, VersionCases, <1>2, <1>3, <1>4, <1>5, <1>6, <1>7, <1>8

-----------------------------------------------------------------------------
(* The active memgraph is in the current version.                          *)

LEMMA ActiveListedStep ==
  ASSUME TypeOK, OneThread, Frozen, Pinned, ActiveListed, [Next]_vars
  PROVE  ActiveListed'
<1>1. CASE UNCHANGED vars
  BY <1>1 DEF vars, engineVars, ActiveListed
<1>2. CASE Reopen
  BY <1>2 DEF Reopen, OpenInner, ActiveListed
<1>3. ASSUME NEW c \in Callers, SteadyStep(c) PROVE ActiveListed'
  BY <1>3 DEF SteadyStep, ActiveListed, OneThread
<1>4. ASSUME NEW c \in Callers, WriteInsert(c) \/ WriteInsertFull(c)
      PROVE  ActiveListed'
  BY <1>4, InsertEffect DEF ActiveListed, OneThread
<1>5. ASSUME NEW c \in Callers, RotatePublish(c) PROVE ActiveListed'
  BY <1>5, RotatedVersion, SpawnEffect DEF ActiveListed
<1>6. ASSUME NEW c \in Callers, CompactPublish(c) PROVE ActiveListed'
  <2>1. caller[c].old = version
    BY <1>6, CompactedVersion DEF Pinned
  <2> QED BY <1>6, <2>1, CompactedVersion DEF ActiveListed, OneThread
<1>7. ASSUME NEW m \in MemId, TaskStep(m) PROVE ActiveListed'
  <2>1. caller' = caller /\ active' = active /\ active # m
    BY <1>7, TaskEffect DEF Frozen, MemId
  <2>2. CASE FlushPublish(m)
    <3>1. version'.memgraphs = version.memgraphs \ {m}
      BY <2>2, FlushedVersion DEF Pinned
    <3> QED BY <2>1, <3>1 DEF ActiveListed
  <2>3. CASE version' = version
    BY <2>1, <2>3 DEF ActiveListed
  <2> QED BY <1>7, <2>2, <2>3, TaskVersion
<1> QED BY VersionCases, <1>1, <1>2, <1>3, <1>4, <1>5, <1>6, <1>7

-----------------------------------------------------------------------------
(* The current version covers what was written.                            *)

LEMMA ShownTypes ==
  ASSUME TypeOK
  PROVE  Shown(version) \in SUBSET EdgeRecord
<1>1. version \in Version /\ LevelFiles(version) \in SUBSET FileId
  BY DEF TypeOK, Version, LevelFiles
<1> QED BY <1>1, EdgesOfTypes, MemEdgesTypes DEF Shown

\* Segments of the current version are not written again.
LEMMA ListedKept ==
  ASSUME RecoveryInv, [Next]_vars
  PROVE  \A f \in LevelFiles(version) : disk'[f] = disk[f]
BY CreatedStep DEF RecoveryInv, NamedFiles

\* A step that hides nothing of the current version, and writes only what it
\* shows.
LEMMA CoversGrows ==
  ASSUME TypeOK, TypeOK', VersionCovers, horizon <= horizon',
         Shown(version) \subseteq Shown(version)',
         \A r \in written' : r \in written \/ r \in Shown(version)'
  PROVE  VersionCovers'
<1>1. horizon \in Int /\ horizon' \in Int
  BY DEF TypeOK
<1> SUFFICES ASSUME NEW r \in written' PROVE Retained(r, Shown(version)', horizon')
  BY DEF VersionCovers
<1>2. CASE r \in written
  <2>1. Retained(r, Shown(version), horizon)
    BY <1>2 DEF VersionCovers
  <2> QED BY <1>1, <2>1, ShownTypes, KeptGrows
<1>3. CASE r \in Shown(version)'
  BY <1>3 DEF Retained
<1> QED BY <1>2, <1>3

\* Installing the outputs of a compaction hides only what they cover.
LEMMA CompactionCovers ==
  ASSUME RecoveryInv, TypeOK', OneThread, Pinned, InputsListed, OutputsReady,
         horizon <= timestamp, NEW c \in Callers, CompactPublish(c),
         NEW q \in Shown(version)
  PROVE  Retained(q, Shown(version)', horizon)
<1>1. TypeOK
  BY DEF RecoveryInv
<1>2. /\ caller[c].pc = "publish" /\ caller[c].old = version
      /\ horizon = timestamp /\ Covering(c)
      /\ caller[c].op # "target" => caller[c].sel = LevelFiles(version)
  BY <1>1, CompactedVersion
     DEF Pinned, OutputsReady, InputsListed, Selected, Compacting
<1>3. /\ version'.memgraphs = version.memgraphs
      /\ LevelFiles(version) \ caller[c].sel \subseteq LevelFiles(version')
      /\ caller[c].outs \subseteq LevelFiles(version')
      /\ UNCHANGED <<mem, disk>>
  BY <1>1, <1>2, CompactedVersion DEF LevelFiles
<1>4. CASE \E m \in version.memgraphs : q \in mem[m]
  BY <1>3, <1>4 DEF Retained, Shown, MemEdges
<1>5. ASSUME NEW f \in LevelFiles(version) \ caller[c].sel,
             q \in disk[f].edges
      PROVE  Retained(q, Shown(version)', horizon)
  BY <1>3, <1>5 DEF Retained, Shown, EdgesOf
<1>6. ASSUME NEW f \in caller[c].sel, q \in disk[f].edges
      PROVE  Retained(q, Shown(version)', horizon)
  <2>1. PICK p \in EdgesOf(caller[c].outs) : p.key = q.key /\ p.ts >= q.ts
    BY <1>2, <1>6 DEF Covering, CoveredBy
  <2>2. PICK g \in caller[c].outs : p \in disk[g].edges
    BY DEF EdgesOf
  <2>3. p \in Shown(version)'
    BY <1>3, <2>2 DEF Shown, EdgesOf
  <2>4. p.ts <= timestamp
    <3>1. g \in manifest.created /\ g \in FileId
      BY <1>1, IdsAreIntegers DEF RecoveryInv, NamedFiles
    <3>2. p \in EdgeRecord /\ Held(p)
      BY <1>1, <2>2, <3>1, EdgesAreRecords DEF Held
    <3> QED BY <3>2 DEF RecoveryInv, Timestamps
  <2> QED BY <1>2, <2>1, <2>3, <2>4 DEF Retained
<1>7. \/ \E m \in version.memgraphs : q \in mem[m]
      \/ \E f \in LevelFiles(version) : q \in disk[f].edges
  BY DEF Shown, MemEdges, EdgesOf
<1> QED BY <1>4, <1>5, <1>6, <1>7

\* A restart begins with what the manifest names.
LEMMA ReopenCovers ==
  ASSUME TypeOK, Reopen
  PROVE  VersionCovers' /\ horizon' <= timestamp'
<1>1. /\ version' = [memgraphs |-> {1}, l0 |-> LevelOf(manifest.live, 0),
                     l1 |-> LevelOf(manifest.live, 1)]
      /\ written' = LiveEdges /\ disk' = disk
      /\ horizon' = Min({horizon, manifest.max_ts})
      /\ timestamp' = manifest.max_ts
  BY DEF Reopen, OpenInner, storeVars
<1>2. LevelFiles(version)' = manifest.live
  <2>1. \A f \in manifest.live : disk[f].level \in {0, 1}
    BY IdsAreIntegers DEF TypeOK, Segment
  <2> QED BY <1>1, <2>1 DEF LevelFiles, LevelOf
<1>3. \A r \in written' : r \in Shown(version)'
  BY <1>1, <1>2 DEF Shown, LiveEdges, EdgesOf
<1>4. horizon \in Int /\ manifest.max_ts \in Int
  BY IdsAreIntegers DEF TypeOK
<1> QED BY <1>1, <1>3, <1>4, MinOfTwo DEF VersionCovers, Retained

\* A flush replaces its memgraph by its segments.
LEMMA FlushShows ==
  ASSUME RecoveryInv, Pinned, TasksCarry, NEW m \in MemId, TaskStep(m),
         [Next]_vars
  PROVE  Shown(version) \subseteq Shown(version)'
<1>1. TypeOK /\ mem' = mem
  BY TaskEffect DEF RecoveryInv
<1>2. CASE version' = version
  BY <1>1, <1>2, ListedKept DEF Shown, MemEdges, EdgesOf
<1>3. CASE FlushPublish(m)
  <2>1. /\ version'.memgraphs = version.memgraphs \ {m}
        /\ LevelFiles(version') = LevelFiles(version) \cup task[m].files
    BY <1>1, <1>3, FlushedVersion DEF Pinned, LevelFiles
  <2>2. mem[m] \subseteq EdgesOf(task[m].files)
    <3>1. task[m].pc = "publish"
      BY <1>1, <1>3, FlushedVersion
    <3> QED BY <3>1 DEF TasksCarry, Carries, Written
  <2>3. disk' = disk
    BY <1>3 DEF FlushPublish, storeVars
  <2> QED BY <1>1, <2>1, <2>2, <2>3 DEF Shown, MemEdges, EdgesOf
<1> QED BY <1>1, <1>2, <1>3, TaskVersion

LEMMA VersionCoversStep ==
  ASSUME RecoveryInv, RecoveryInv', OneThread, Pinned, InputsListed,
         OutputsReady, ActiveListed, TasksCarry, horizon <= timestamp,
         VersionCovers, [Next]_vars
  PROVE  VersionCovers' /\ horizon' <= timestamp'
<1>1. /\ TypeOK /\ TypeOK' /\ horizon \in Int /\ timestamp \in Int
      /\ timestamp' \in Int
  BY DEF RecoveryInv, TypeOK
<1>2. CASE UNCHANGED vars
  BY <1>2 DEF vars, engineVars, storeVars, auxVars, VersionCovers, Shown,
              MemEdges, EdgesOf
<1>3. CASE Reopen
  BY <1>1, <1>3, ReopenCovers
<1>4. ASSUME NEW c \in Callers, SteadyStep(c)
      PROVE  VersionCovers' /\ horizon' <= timestamp'
  <2>1. Shown(version) \subseteq Shown(version)'
    BY <1>4, ListedKept DEF SteadyStep, Shown, MemEdges, EdgesOf
  <2>2. /\ horizon <= horizon' /\ horizon' <= timestamp'
        /\ written' = written
    BY <1>1, <1>4 DEF SteadyStep
  <2> QED BY <1>1, <2>1, <2>2, CoversGrows
<1>5. ASSUME NEW c \in Callers, WriteInsert(c) \/ WriteInsertFull(c)
      PROVE  VersionCovers' /\ horizon' <= timestamp'
  <2>1. horizon' = horizon
    BY <1>5 DEF WriteInsert, WriteInsertFull
  <2>2. /\ version' = version /\ disk' = disk /\ timestamp' = timestamp
        /\ written' = written \cup caller[c].recs
        /\ mem'[active] = mem[active] \cup caller[c].recs
        /\ \A m \in MemId \ {active} : mem'[m] = mem[m]
    BY <1>1, <1>5, InsertEffect
  <2>3. active \in version.memgraphs /\ version.memgraphs \subseteq MemId
    BY <1>1, <1>5, InsertEffect DEF ActiveListed, OneThread, TypeOK, Version
  <2>4. Shown(version) \subseteq Shown(version)'
    BY <2>2, <2>3 DEF Shown, MemEdges, EdgesOf
  <2>5. caller[c].recs \subseteq Shown(version)'
    BY <2>2, <2>3 DEF Shown, MemEdges
  <2> QED BY <1>1, <2>1, <2>2, <2>4, <2>5, CoversGrows
<1>6. ASSUME NEW c \in Callers, RotatePublish(c)
      PROVE  VersionCovers' /\ horizon' <= timestamp'
  <2>1. /\ version.memgraphs \subseteq version'.memgraphs
        /\ LevelFiles(version)' = LevelFiles(version)
        /\ UNCHANGED <<mem, disk, timestamp, written, horizon>>
    BY <1>1, <1>6, RotatedVersion, SpawnEffect DEF Pinned, LevelFiles
  <2>2. Shown(version) \subseteq Shown(version)'
    BY <2>1 DEF Shown, MemEdges, EdgesOf
  <2> QED BY <1>1, <2>1, <2>2, CoversGrows
<1>7. ASSUME NEW c \in Callers, CompactPublish(c)
      PROVE  VersionCovers' /\ horizon' <= timestamp'
  <2>1. UNCHANGED <<timestamp, written, horizon>>
    BY <1>1, <1>7, CompactedVersion
  <2>2. \A q \in Shown(version) : Retained(q, Shown(version)', horizon)
    BY <1>1, <1>7, CompactionCovers
  <2>3. /\ Shown(version) \in SUBSET EdgeRecord
        /\ Shown(version)' \in SUBSET EdgeRecord
        /\ written \in SUBSET EdgeRecord
    <3>1. Shown(version)' \in SUBSET EdgeRecord
      BY <1>1 DEF TypeOK, Shown, MemEdges, EdgesOf, LevelFiles, Version,
                  Segment
    <3> QED BY <1>1, <3>1, ShownTypes DEF TypeOK
  <2>4. \A r \in written : Retained(r, Shown(version)', horizon)
    BY <1>1, <2>2, <2>3, KeptThrough DEF VersionCovers
  <2> QED BY <2>1, <2>4 DEF VersionCovers
<1>8. ASSUME NEW m \in MemId, TaskStep(m)
      PROVE  VersionCovers' /\ horizon' <= timestamp'
  <2>1. Shown(version) \subseteq Shown(version)'
    BY <1>8, FlushShows
  <2>2. UNCHANGED <<timestamp, written, horizon>>
    BY <1>1, <1>8, TaskEffect, TaskVersion
  <2> QED BY <1>1, <2>1, <2>2, CoversGrows
<1> QED BY <1>1, VersionCases, <1>2, <1>3, <1>4, <1>5, <1>6, <1>7, <1>8

-----------------------------------------------------------------------------
(* What the current version shows.                                         *)

LEMMA InitVersion == Init => VersionInv
<1> SUFFICES ASSUME Init PROVE VersionInv
  OBVIOUS
<1>1. Pinned /\ Alone /\ InputsListed /\ OutputsReady
  BY DEF Init, Pinned, Alone, InputsListed, OutputsReady, IdleCaller, NoTask,
         Compaction, Selected, Compacting
<1>2. ActiveListed /\ VersionCovers /\ horizon <= timestamp
  BY DEF Init, ActiveListed, VersionCovers
<1> QED BY <1>1, <1>2, InitRefinement DEF VersionInv

LEMMA StepVersion ==
  ASSUME OneThread, VersionInv, [Next]_vars
  PROVE  VersionInv'
<1>1. RefinementInv'
  BY StepRefinement DEF VersionInv
<1>2. /\ RecoveryInv /\ RecoveryInv' /\ TypeOK
      /\ Frozen /\ TasksCarry /\ Tracked
  BY <1>1 DEF VersionInv, RefinementInv, WaitInv, DurabilityInv, RecoveryInv
<1>3. Pinned' /\ Alone' /\ InputsListed'
  BY <1>2, PinnedStep, AloneStep, InputsListedStep DEF VersionInv
<1>4. OutputsReady' /\ ActiveListed'
  BY <1>2, OutputsReadyStep, ActiveListedStep DEF VersionInv
<1>5. VersionCovers' /\ horizon' <= timestamp'
  BY <1>2, VersionCoversStep DEF VersionInv
<1> QED BY <1>1, <1>3, <1>4, <1>5 DEF VersionInv

LEMMA WrittenUnique ==
  ASSUME DurabilityInv
  PROVE  /\ written \in SUBSET EdgeRecord
         /\ \A r, q \in written : r.ts = q.ts => r = q
<1>1. TypeOK /\ active \in MemId
  BY DEF DurabilityInv, RecoveryInv, TypeOK
<1>2. \A r \in written : Held(r)
  BY <1>1 DEF DurabilityInv, EveryWriteHeld, Held, DurableEdges, EdgesOf
<1> QED BY <1>1, <1>2 DEF DurabilityInv, RecoveryInv, Timestamps, TypeOK

LEMMA VersionShows ==
  ASSUME VersionInv, NEW snapshot \in Int, horizon <= snapshot
  PROVE  merge_visible(Shown(version), snapshot)
           = merge_visible(written, snapshot)
<1>1. DurabilityInv /\ Provenance /\ TypeOK
  BY DEF VersionInv, RefinementInv, WaitInv, DurabilityInv, RecoveryInv
<1>2. Shown(version) \in SUBSET written
  <2>1. version.memgraphs \subseteq MemId
    BY <1>1 DEF TypeOK, Version
  <2> QED BY <1>1, <2>1 DEF Provenance, Wrote, Shown, MemEdges, EdgesOf
<1>3. \A r \in written : Retained(r, Shown(version), horizon)
  BY DEF VersionInv, VersionCovers
<1>4. horizon \in Int
  BY <1>1 DEF TypeOK
<1> QED BY <1>1, <1>2, <1>3, <1>4, WrittenUnique, MergeKept

\* The inductive invariant holds on one thread with one user.
THEOREM VersionInvariant ==
  ASSUME OneThread
  PROVE  Spec => []VersionInv
<1>1. Init => VersionInv
  BY InitVersion
<1>2. VersionInv /\ [Next]_vars => VersionInv'
  BY StepVersion
<1> QED BY <1>1, <1>2, PTL DEF Spec

\* On one thread, at rest, the published version shows exactly what
\* write_edge has inserted, at every snapshot that no compaction has merged
\* past: rotations, flushes, compactions, their failures and restarts lose
\* nothing and bring nothing back.
THEOREM VersionCorrect ==
  ASSUME OneThread
  PROVE  Spec => []VersionExact
<1>1. VersionInv => VersionExact
  <2> SUFFICES ASSUME VersionInv, NEW snapshot \in horizon..timestamp
               PROVE  merge_visible(Shown(version), snapshot)
                        = merge_visible(written, snapshot)
    BY DEF VersionExact, Shown, LevelFiles
  <2>1. horizon \in Int /\ timestamp \in Int
    BY DEF VersionInv, RefinementInv, WaitInv, DurabilityInv, RecoveryInv,
           TypeOK
  <2> QED BY <2>1, VersionShows
<1> QED BY <1>1, VersionInvariant, PTL

\* Whoever publishes a compaction writes nothing.
LEMMA PublishWritesNothing ==
  ASSUME TypeOK, OneThread, [Next]_vars, NEW c \in Callers,
         caller[c].pc = "publish", caller'[c].pc = "index"
  PROVE  UNCHANGED <<timestamp, written>>
<1>1. CASE UNCHANGED vars
  BY <1>1 DEF vars
<1>2. CASE Reopen
  BY <1>2, ReopenEffect DEF IdleCaller
<1>3. ASSUME NEW d \in Callers, SteadyStep(d)
      PROVE  UNCHANGED <<timestamp, written>>
  BY <1>3 DEF OneThread, SteadyStep, Compaction
<1>4. ASSUME NEW d \in Callers,
             WriteInsert(d) \/ WriteInsertFull(d) \/ RotatePublish(d)
      PROVE  UNCHANGED <<timestamp, written>>
  BY <1>4, InsertEffect, SpawnEffect DEF OneThread
<1>5. ASSUME NEW d \in Callers, CompactPublish(d)
      PROVE  UNCHANGED <<timestamp, written>>
  BY <1>5, CompactedVersion
<1>6. ASSUME NEW m \in MemId, TaskStep(m)
      PROVE  UNCHANGED <<timestamp, written>>
  BY <1>6, TaskEffect
<1> QED BY VersionCases, <1>1, <1>2, <1>3, <1>4, <1>5, <1>6

\* On one thread, when a compaction publishes its outputs a scan at the
\* current snapshot shows what it showed before.
THEOREM CompactionCorrect ==
  ASSUME OneThread
  PROVE  Spec => CompactionPreservesVisible
<1> DEFINE
      Shows == VisibleIn(version) = merge_visible(written, timestamp)
      Preserves ==
        \A c \in Callers :
          caller[c].pc = "publish" /\ caller'[c].pc = "index" =>
            VisibleIn(version)' = VisibleIn(version)
<1>1. VersionInv => Shows
  <2> SUFFICES ASSUME VersionInv
               PROVE  Shows
    OBVIOUS
  <2>1. timestamp \in Int /\ horizon <= timestamp
    BY DEF VersionInv, RefinementInv, WaitInv, DurabilityInv, RecoveryInv,
           TypeOK
  <2> QED BY <2>1, VersionShows DEF VisibleIn, Shown, LevelFiles
<1>2. VersionInv /\ Shows /\ Shows' /\ [Next]_vars => [Preserves]_vars
  <2> SUFFICES ASSUME VersionInv, Shows, Shows', [Next]_vars PROVE Preserves
    OBVIOUS
  <2>1. TypeOK
    BY DEF VersionInv, RefinementInv, WaitInv, DurabilityInv, RecoveryInv
  <2> QED BY <2>1, PublishWritesNothing
<1>3. Spec => []VersionInv
  BY VersionInvariant
<1> QED BY <1>1, <1>2, <1>3, PTL DEF Spec, CompactionPreservesVisible
-----------------------------------------------------------------------------
(* The index.                                                              *)

\* No I/O operation has failed.  The index is exact only then: rebuild_index
\* leaves out, without an error, a segment whose offsets it cannot read.
NoFaults == budget.faults = MaxFaults

\* The index follows the current version, except between the publication of
\* a compaction and the end of its rebuild, and a rebuild that has pinned a
\* version has pinned the L1 of the current one.
IndexFollows ==
  /\ (\A c \in Callers : caller[c].pc \notin {"index", "store"})
       => index = version.l1
  /\ \A c \in Callers : caller[c].pc = "store" => caller[c].old.l1 = version.l1
  /\ \A m \in MemId : task[m].pc = "store" => task[m].old.l1 = version.l1

IndexInv == VersionInv /\ (NoFaults => IndexFollows)

LEMMA SpendFaults ==
  ASSUME TypeOK, NEW what \in {"reads", "compactions", "faults"}, Spend(what)
  PROVE  /\ budget'.faults <= budget.faults
         /\ what = "faults" => budget'.faults < budget.faults
<1>1. /\ budget.faults \in Int
      /\ budget' = [budget EXCEPT ![what] = @ - 1]
      /\ budget \in Budget
  BY DEF TypeOK, Spend, Budget
<1> QED BY <1>1 DEF Budget

LEMMA StoreIndexFaults ==
  ASSUME TypeOK, NEW files, StoreIndex(files)
  PROVE  /\ budget'.faults <= budget.faults
         /\ budget'.faults < budget.faults \/ index' = files
<1>1. budget.faults \in Int
  BY DEF TypeOK, Budget
<1> QED BY <1>1, SpendFaults DEF StoreIndex

\* What the index is after a restart.
LEMMA OpenIndexFaults ==
  ASSUME TypeOK, Reopen
  PROVE  /\ budget'.faults <= budget.faults
         /\ budget'.faults < budget.faults \/ index' = version'.l1
<1>1. /\ budget.faults \in Int /\ version'.l1 = LevelOf(manifest.live, 1)
      /\ budget \in Budget
  BY DEF TypeOK, Budget, Reopen, OpenInner
<1>2. \/ /\ index' = LevelOf(manifest.live, 1)
         /\ budget' = [budget EXCEPT !.crashes = @ - 1]
      \/ budget' = [budget EXCEPT !.crashes = @ - 1, !.faults = @ - 1]
  BY DEF Reopen, OpenInner, OpenIndex
<1>3. CASE /\ index' = LevelOf(manifest.live, 1)
           /\ budget' = [budget EXCEPT !.crashes = @ - 1]
  <2>1. budget'.faults = budget.faults
    BY <1>1, <1>3 DEF Budget
  <2> QED BY <1>1, <1>3, <2>1
<1>4. CASE budget' = [budget EXCEPT !.crashes = @ - 1, !.faults = @ - 1]
  <2>1. budget'.faults = budget.faults - 1
    BY <1>1, <1>4 DEF Budget
  <2> QED BY <1>1, <2>1
<1> QED BY <1>2, <1>3, <1>4

LEMMA FaultsBound ==
  ASSUME TypeOK, TypeOK'
  PROVE  /\ budget.faults \in Int /\ budget'.faults \in Int
         /\ budget.faults <= MaxFaults /\ MaxFaults \in Int
<1>1. MaxFaults \in Nat
  BY BoundsAssumption
<1>2. budget.faults \in 0..MaxFaults /\ budget'.faults \in 0..MaxFaults
  BY DEF TypeOK, Budget
<1> QED BY ONLY <1>1, <1>2

\* A failed operation is not forgotten, not even by a restart.
LEMMA FaultsStay ==
  ASSUME TypeOK, [Next]_vars
  PROVE  budget'.faults <= budget.faults
<1>1. budget.faults \in Int /\ budget \in Budget
  BY DEF TypeOK, Budget
<1>2. CASE UNCHANGED vars
  BY <1>1, <1>2 DEF vars, auxVars
<1>3. CASE Reopen
  BY <1>3, OpenIndexFaults
<1>4. ASSUME NEW c \in Callers, CallerBegin(c)
      PROVE  budget'.faults <= budget.faults
  <2>1. CASE WriteBegin(c) \/ FlushActive(c)
    BY <1>1, <2>1 DEF WriteBegin, FlushActive, auxVars
  <2>2. CASE CompactBegin(c)
    BY <2>2, SpendFaults DEF CompactBegin
  <2>3. CASE ReadBegin(c)
    BY <2>3, SpendFaults DEF ReadBegin
  <2> QED BY <1>4, <2>1, <2>2, <2>3 DEF CallerBegin
<1>5. ASSUME NEW c \in Callers, CallerStep(c)
      PROVE  budget'.faults <= budget.faults
  <2>1. CASE CompactFail(c)
    BY <2>1, SpendFaults DEF CompactFail
  <2>2. CASE ReadFail(c)
    BY <2>2, SpendFaults DEF ReadFail
  <2>3. CASE CompactIndexStore(c)
    BY <2>3, StoreIndexFaults DEF CompactIndexStore
  <2>4. CASE \/ WriteInsert(c) \/ WriteInsertFull(c) \/ RotatePublish(c)
             \/ PushHandle(c) \/ WaitPop(c) \/ WaitJoin(c) \/ WaitError(c)
             \/ WaitEnd(c)
    <3>1. budget' = budget
      BY <2>4 DEF auxVars, WriteInsert, WriteInsertFull, RotatePublish,
                  PushHandle, WaitPop, WaitJoin, WaitError, WaitEnd
    <3> QED BY <1>1, <3>1
  <2>5. CASE \/ CompactSelect(c) \/ CompactMerge(c) \/ CompactWrite(c)
             \/ CompactAppend(c) \/ CompactDelete(c) \/ CompactPin(c)
             \/ CompactPublish(c) \/ CompactIndexPin(c)
             \/ ScanRead(c) \/ NeighborsRead(c) \/ NeighborsLookup(c)
             \/ ReadReturn(c)
    <3>1. budget' = budget
      BY <2>5 DEF auxVars, CompactSelect, CompactMerge, CompactWrite,
                  CompactAppend, CompactDelete, CompactPin, CompactPublish,
                  CompactIndexPin, ScanRead, NeighborsRead, NeighborsLookup,
                  ReadReturn
    <3> QED BY <1>1, <3>1
  <2> QED BY <1>5, <2>1, <2>2, <2>3, <2>4, <2>5 DEF CallerStep
<1>6. ASSUME NEW m \in MemId, TaskStep(m)
      PROVE  budget'.faults <= budget.faults
  <2>1. CASE FlushFail(m)
    BY <2>1, SpendFaults DEF FlushFail
  <2>2. CASE FlushIndexStore(m)
    BY <2>2, StoreIndexFaults DEF FlushIndexStore
  <2>3. CASE \/ FlushWrite(m) \/ FlushAppend(m) \/ FlushPin(m)
             \/ FlushPublish(m) \/ FlushIndexPin(m)
    <3>1. budget' = budget
      BY <2>3 DEF auxVars, FlushWrite, FlushAppend, FlushPin, FlushPublish,
                  FlushIndexPin
    <3> QED BY <1>1, <3>1
  <2> QED BY <1>6, <2>1, <2>2, <2>3 DEF TaskStep
<1> QED BY <1>2, <1>3, <1>4, <1>5, <1>6 DEF Next

\* What a step of a flush task does to the index.
LEMMA TaskIndex ==
  ASSUME TypeOK, NEW m \in MemId, TaskStep(m)
  PROVE  /\ task'[m].pc = "store" => task'[m].old = version'
         /\ \/ index' = index
            \/ /\ task[m].pc = "store"
               /\ budget'.faults < budget.faults \/ index' = task[m].old.l1
<1> USE DEF TypeOK, TaskState, NoTask
<1>1. CASE FlushWrite(m)
  <2>1. PICK segment \in FlushSegments(task[m].recs) :
          task' = [task EXCEPT ![m].pc = "append", ![m].file = {next_file_id},
                               ![m].recs = @ \ segment]
    BY <1>1 DEF FlushWrite
  <2>2. task'[m].pc = "append"
    BY <2>1
  <2> QED BY <1>1, <2>2 DEF FlushWrite
<1>2. CASE FlushAppend(m)
  <2>1. PICK f \in task[m].file :
          task' = [task EXCEPT
            ![m].pc = IF task[m].recs = {} THEN "pin" ELSE "write",
            ![m].files = @ \cup {f}, ![m].file = {}]
    BY <1>2 DEF FlushAppend
  <2>2. task'[m].pc # "store"
    BY <2>1
  <2> QED BY <1>2, <2>2 DEF FlushAppend
<1>3. CASE FlushPin(m) \/ FlushIndexPin(m)
  BY <1>3 DEF FlushPin, FlushIndexPin
<1>4. CASE FlushPublish(m)
  BY <1>4, FlushedVersion DEF FlushPublish
<1>5. CASE FlushIndexStore(m)
  <2>1. task'[m].pc = "done" /\ task[m].pc = "store"
    BY <1>5 DEF FlushIndexStore
  <2> QED BY <1>5, <2>1, StoreIndexFaults DEF FlushIndexStore
<1>6. CASE FlushFail(m)
  BY <1>6 DEF FlushFail
<1> QED BY <1>1, <1>2, <1>3, <1>4, <1>5, <1>6 DEF TaskStep

LEMMA InitIndex == Init => IndexInv
BY InitVersion DEF Init, IndexInv, IndexFollows, IdleCaller, NoTask

LEMMA StepIndex ==
  ASSUME OneThread, IndexInv, [Next]_vars
  PROVE  IndexInv'
<1>1. VersionInv'
  BY StepVersion DEF IndexInv
<1>2. TypeOK /\ TypeOK' /\ Pinned /\ Alone
  BY <1>1 DEF IndexInv, VersionInv, RefinementInv, WaitInv, DurabilityInv,
              RecoveryInv
<1>3. /\ budget.faults \in Int /\ budget'.faults \in Int
      /\ budget.faults <= MaxFaults /\ MaxFaults \in Int
      /\ budget'.faults <= budget.faults
  BY <1>2, FaultsBound, FaultsStay
<1> SUFFICES ASSUME NoFaults' PROVE IndexFollows'
  BY <1>1 DEF IndexInv
<1>4. IndexFollows /\ ~(budget'.faults < budget.faults)
  BY <1>3 DEF NoFaults, IndexInv
<1>5. CASE UNCHANGED vars
  BY <1>4, <1>5 DEF vars, IndexFollows
<1>6. CASE Reopen
  <2>1. index' = version'.l1
    BY <1>2, <1>4, <1>6, OpenIndexFaults
  <2> QED BY <1>2, <1>6, <2>1, ReopenEffect
          DEF IndexFollows, IdleCaller, NoTask
<1>7. ASSUME NEW c \in Callers, SteadyStep(c) PROVE IndexFollows'
  <2>1. CASE CompactIndexStore(c)
    <3>1. caller[c].pc = "store" /\ caller'[c].pc = "idle"
      BY <1>2, <2>1 DEF CompactIndexStore, Finish, IdleCaller, TypeOK
    <3>2. index' = version'.l1
      BY <1>2, <1>4, <1>7, <2>1, <3>1, StoreIndexFaults
         DEF CompactIndexStore, IndexFollows, SteadyStep
    <3> QED BY <1>4, <1>7, <3>1, <3>2
            DEF IndexFollows, SteadyStep, OneThread
  <2>2. CASE /\ index' = index
             /\ caller[c].pc \in {"index", "store"} => caller'[c].pc = "store"
    BY <1>4, <1>7, <2>2 DEF IndexFollows, SteadyStep, OneThread
  <2> QED BY <1>7, <2>1, <2>2 DEF SteadyStep
<1>8. ASSUME NEW c \in Callers, WriteInsert(c) \/ WriteInsertFull(c)
      PROVE  IndexFollows'
  BY <1>2, <1>4, <1>8, InsertEffect DEF IndexFollows, OneThread, IdleCaller
<1>9. ASSUME NEW c \in Callers, RotatePublish(c) PROVE IndexFollows'
  <2>1. version'.l1 = version.l1
    BY <1>2, <1>9, RotatedVersion, SpawnEffect DEF Pinned
  <2> QED BY <1>2, <1>4, <1>9, <2>1, SpawnEffect DEF IndexFollows, OneThread
<1>10. ASSUME NEW c \in Callers, CompactPublish(c) PROVE IndexFollows'
  <2>1. \A m \in MemId : task'[m].pc # "store"
    BY <1>2, <1>10, CompactedVersion
       DEF Alone, Running, Compaction, Selected, Compacting
  <2> QED BY <1>2, <1>10, <2>1, CompactedVersion DEF IndexFollows, OneThread
<1>11. ASSUME NEW m \in MemId, TaskStep(m) PROVE IndexFollows'
  <2>1. version'.l1 = version.l1
    BY <1>2, <1>11, TaskVersion, FlushedVersion DEF Pinned
  <2>2. \A c \in Callers : caller[c].pc \notin {"index", "store"}
    BY <1>2, <1>11, CompactsAlone DEF Compaction
  <2> QED BY <1>2, <1>4, <1>11, <2>1, <2>2, TaskIndex, TaskEffect
          DEF IndexFollows
<1> QED BY <1>2, VersionCases, <1>5, <1>6, <1>7, <1>8, <1>9, <1>10, <1>11

LEMMA IndexInvariant ==
  ASSUME OneThread
  PROVE  Spec => []IndexInv
BY InitIndex, StepIndex, PTL DEF Spec

\* On one thread, at rest, the index names the L1 segments of the published
\* version, across flushes, compactions and restarts, as long as no I/O
\* operation has failed.
THEOREM IndexCorrect ==
  ASSUME OneThread
  PROVE  Spec => [](NoFaults => IndexExact)
<1>1. IndexInv => (NoFaults => IndexExact)
  BY DEF IndexInv, IndexFollows, IndexExact, Quiescent
<1> QED BY <1>1, IndexInvariant, PTL
-----------------------------------------------------------------------------
(* Reads.                                                                  *)

\* The records that the read of c is asked for.
Asked(c) ==
  IF caller[c].op = "scan" THEN written
  ELSE {e \in written :
          /\ e.key.src = caller[c].arg.src
          /\ \/ caller[c].arg.edge_type = NoEdgeType
             \/ e.key.edge_type \in caller[c].arg.edge_type}

\* get_neighbors has collected what L1 does not have: no flush can change
\* that before it looks L1 up in the index.
Collected(c) ==
  /\ caller[c].op = "neighbors"
  /\ \A r \in caller[c].recs : r \in written /\ r.key.src = caller[c].arg.src
  /\ \A r \in Asked(c) :
       Retained(r, caller[c].recs \cup EdgesOf(version.l1), horizon)

ReadInv ==
  /\ IndexInv
  /\ \A c \in Callers : caller[c].pc = "lookup" => Collected(c)
  /\ NoFaults => ReadExact

\* What the current version shows has been written.
LEMMA ShownWritten ==
  ASSUME VersionInv
  PROVE  Shown(version) \in SUBSET written
<1>1. TypeOK /\ Provenance
  BY DEF VersionInv, RefinementInv, WaitInv, DurabilityInv, RecoveryInv
<1>2. version.memgraphs \subseteq MemId
  BY <1>1 DEF TypeOK, Version
<1> QED BY <1>1, <1>2 DEF Provenance, Wrote, Shown, MemEdges, EdgesOf

\* A segment that the manifest names has finitely many records.
LEMMA SegmentsFinite ==
  ASSUME RecoveryInv, NEW f \in manifest.created
  PROVE  disk[f].edges \in SUBSET EdgeRecord /\ IsFiniteSet(disk[f].edges)
<1>1. disk[f].edges \in SUBSET EdgeRecord
  BY IdsAreIntegers DEF RecoveryInv, TypeOK, Segment
<1>2. \A r, q \in disk[f].edges : r.ts = q.ts => r = q
  BY <1>1 DEF RecoveryInv, Timestamps, Held
<1> QED BY <1>1, <1>2, UniqueFinite

LEMMA NeighborsCollect ==
  ASSUME VersionInv, NEW c \in Callers, NeighborsRead(c)
  PROVE  caller'[c].pc = "lookup" /\ Collected(c)'
<1> DEFINE q == caller[c].arg
           candidates == {f \in version.l0 :
             /\ may_contain_partition(disk[f].edges, q.src, q.edge_type)
             /\ min_src(disk[f].edges) <= q.src
             /\ q.src <= max_src(disk[f].edges)}
           found == OfSource(MemEdges(version) \cup EdgesOf(candidates), q.src)
<1>1. TypeOK /\ RecoveryInv /\ VersionCovers /\ Pinned
  BY DEF VersionInv, RefinementInv, WaitInv, DurabilityInv, RecoveryInv
<1>2. /\ caller[c].pc = "read" /\ caller[c].op = "neighbors"
      /\ caller[c].old = version
  BY <1>1 DEF NeighborsRead, Pinned
<1>3. /\ caller' = [caller EXCEPT ![c].pc = "lookup", ![c].old = NoVersion,
                                  ![c].recs = found]
      /\ UNCHANGED <<version, disk, written, horizon>>
  BY <1>2 DEF NeighborsRead, storeVars, auxVars
<1> HIDE DEF found
<1>4. /\ caller'[c].pc = "lookup" /\ caller'[c].op = "neighbors"
      /\ caller'[c].recs = found /\ caller'[c].arg = q
  BY <1>1, <1>2, <1>3 DEF TypeOK, CallerState
<1>5. found \subseteq Shown(version) /\ \A r \in found : r.key.src = q.src
  BY DEF found, OfSource, Shown, LevelFiles, EdgesOf
<1>6. ASSUME NEW r \in Shown(version), r.key.src = q.src,
             q.edge_type = NoEdgeType \/ r.key.edge_type \in q.edge_type
      PROVE  r \in found \cup EdgesOf(version.l1)
  <2>1. CASE r \in MemEdges(version)
    BY <1>6, <2>1 DEF found, OfSource
  <2>2. ASSUME NEW f \in version.l0, r \in disk[f].edges
        PROVE  r \in found
    <3>1. f \in manifest.created
      BY <1>1 DEF RecoveryInv, NamedFiles, LevelFiles
    <3>2. f \in candidates
      BY <1>6, <2>2, <3>1, <1>1, SegmentsFinite, FilterFinds
    <3> QED BY <1>6, <2>2, <3>2 DEF found, OfSource, EdgesOf
  <2>3. ASSUME NEW f \in version.l1, r \in disk[f].edges
        PROVE  r \in EdgesOf(version.l1)
    BY <2>3 DEF EdgesOf
  <2> QED BY <2>1, <2>2, <2>3 DEF Shown, LevelFiles, EdgesOf
<1>7. ASSUME NEW r \in written, r.key.src = q.src,
             q.edge_type = NoEdgeType \/ r.key.edge_type \in q.edge_type
      PROVE  Retained(r, found \cup EdgesOf(version.l1), horizon)
  <2>1. Retained(r, Shown(version), horizon)
    BY <1>1 DEF VersionCovers
  <2> QED BY <1>6, <1>7, <2>1 DEF Retained
<1>8. EdgesOf(version.l1)' = EdgesOf(version.l1)
  BY <1>3 DEF EdgesOf
<1>9. \A r \in Asked(c)' :
        Retained(r, found \cup EdgesOf(version.l1), horizon)
  BY <1>3, <1>4, <1>7 DEF Asked
<1>10. \A r \in found : r \in written
  BY <1>5, ShownWritten
<1> QED BY <1>3, <1>4, <1>5, <1>8, <1>9, <1>10 DEF Collected

\* The lookup completes what was collected.
LEMMA LookupAnswers ==
  ASSUME ReadInv, OneThread, NoFaults, NEW c \in Callers, NeighborsLookup(c),
         horizon <= caller[c].snapshot
  PROVE  caller'[c].recs = merge_visible(Asked(c), caller[c].snapshot)
<1> DEFINE q == caller[c].arg
           updates == caller[c].recs \cup OfSource(EdgesOf(index), q.src)
           typed == {e \in updates :
             q.edge_type = NoEdgeType \/ e.key.edge_type \in q.edge_type}
<1>1. TypeOK /\ DurabilityInv /\ VersionInv /\ IndexFollows
  BY DEF ReadInv, IndexInv, VersionInv, RefinementInv, WaitInv, DurabilityInv,
         RecoveryInv
<1>2. /\ caller[c].pc = "lookup" /\ Collected(c)
      /\ caller' = [caller EXCEPT
           ![c].pc = "done",
           ![c].recs = merge_visible(typed, caller[c].snapshot)]
  BY DEF NeighborsLookup, ReadInv
<1>3. caller'[c].recs = merge_visible(typed, caller[c].snapshot)
  BY <1>1, <1>2 DEF TypeOK, CallerState
<1>4. index = version.l1
  BY <1>1, <1>2 DEF IndexFollows, OneThread
<1>5. EdgesOf(version.l1) \subseteq written
  BY <1>1, ShownWritten DEF Shown, LevelFiles, EdgesOf
<1>6. Asked(c) = {e \in written :
        /\ e.key.src = q.src
        /\ q.edge_type = NoEdgeType \/ e.key.edge_type \in q.edge_type}
  BY <1>2 DEF Asked, Collected
<1>7. typed \in SUBSET Asked(c)
  BY <1>2, <1>4, <1>5, <1>6 DEF Collected, OfSource
<1>8. ASSUME NEW r \in Asked(c) PROVE Retained(r, typed, horizon)
  <2>1. Retained(r, caller[c].recs \cup EdgesOf(version.l1), horizon)
    BY <1>2 DEF Collected
  <2>2. ASSUME NEW e \in caller[c].recs \cup EdgesOf(version.l1),
               e.key = r.key
        PROVE  e \in typed
    BY <1>4, <1>6, <2>2 DEF OfSource
  <2> QED BY <2>1, <2>2 DEF Retained
<1>9. /\ Asked(c) \in SUBSET EdgeRecord
      /\ \A r, s \in Asked(c) : r.ts = s.ts => r = s
  BY <1>1, <1>6, WrittenUnique
<1>10. horizon \in Int /\ caller[c].snapshot \in Int
  BY <1>1 DEF TypeOK, CallerState
<1> HIDE DEF typed
<1> QED BY <1>3, <1>7, <1>8, <1>9, <1>10, MergeKept

LEMMA ScanAnswers ==
  ASSUME VersionInv, NEW c \in Callers, ScanRead(c),
         horizon <= caller[c].snapshot
  PROVE  caller'[c].recs = merge_visible(Asked(c), caller[c].snapshot)
<1>1. TypeOK /\ Pinned
  BY DEF VersionInv, RefinementInv, WaitInv, DurabilityInv, RecoveryInv
<1>2. /\ caller[c].old = version /\ caller[c].op = "scan"
      /\ caller' = [caller EXCEPT
           ![c].pc = "done", ![c].old = NoVersion,
           ![c].recs = merge_visible(Shown(version), caller[c].snapshot)]
  BY <1>1 DEF ScanRead, Pinned, Shown, LevelFiles
<1>3. caller'[c].recs = merge_visible(Shown(version), caller[c].snapshot)
  BY <1>1, <1>2 DEF TypeOK, CallerState
<1>4. caller[c].snapshot \in Int
  BY <1>1 DEF TypeOK, CallerState
<1> QED BY <1>2, <1>3, <1>4, VersionShows DEF Asked

\* A read keeps what it was asked for.
LEMMA ReadKeeps ==
  ASSUME TypeOK, NEW c \in Callers,
         ScanRead(c) \/ NeighborsRead(c) \/ NeighborsLookup(c)
  PROVE  /\ caller'[c].op = caller[c].op /\ caller'[c].arg = caller[c].arg
         /\ caller'[c].snapshot = caller[c].snapshot
         /\ caller'[c].pc = "lookup" <=> NeighborsRead(c)
<1>1. CASE ScanRead(c)
  BY <1>1 DEF ScanRead, NeighborsRead, TypeOK, CallerState
<1>2. CASE NeighborsRead(c)
  BY <1>2 DEF NeighborsRead, TypeOK, CallerState
<1>3. CASE NeighborsLookup(c)
  BY <1>3 DEF NeighborsLookup, NeighborsRead, TypeOK, CallerState
<1> QED BY <1>1, <1>2, <1>3

\* A step of somebody else, or of nobody, leaves the reads where they are.
LEMMA ReadsStay ==
  ASSUME ReadInv, [Next]_vars, NoFaults' => NoFaults,
         UNCHANGED <<written, horizon>>, version'.l1 = version.l1,
         \A c \in Callers :
           \/ caller'[c] = caller[c]
           \/ caller'[c].pc \notin {"lookup", "done"}
  PROVE  /\ \A c \in Callers : caller'[c].pc = "lookup" => Collected(c)'
         /\ NoFaults' => ReadExact'
<1>1. RecoveryInv
  BY DEF ReadInv, IndexInv, VersionInv, RefinementInv, WaitInv, DurabilityInv
<1>2. EdgesOf(version.l1)' = EdgesOf(version.l1)
  BY <1>1, ListedKept DEF LevelFiles, EdgesOf
<1>3. ASSUME NEW c \in Callers, caller'[c].pc = "lookup"
      PROVE  Collected(c)'
  <2>1. caller'[c] = caller[c] /\ Collected(c)
    BY <1>3 DEF ReadInv
  <2> QED BY <1>2, <2>1 DEF Collected, Asked
<1>4. ASSUME NoFaults' PROVE ReadExact'
  <2>1. ReadExact
    BY <1>4 DEF ReadInv
  <2> QED BY <2>1 DEF ReadExact
<1> QED BY <1>3, <1>4

LEMMA StepReads ==
  ASSUME OneThread, ReadInv, [Next]_vars
  PROVE  ReadInv'
<1>1. IndexInv'
  BY StepIndex DEF ReadInv
<1>2. TypeOK /\ TypeOK' /\ Pinned /\ VersionInv
  BY <1>1 DEF ReadInv, IndexInv, VersionInv, RefinementInv, WaitInv,
              DurabilityInv, RecoveryInv
<1>3. NoFaults' => NoFaults
  <2>1. /\ budget.faults \in Int /\ budget'.faults \in Int
        /\ budget.faults <= MaxFaults /\ MaxFaults \in Int
    BY <1>2, FaultsBound
  <2>2. budget'.faults <= budget.faults
    BY <1>2, FaultsStay
  <2> QED BY ONLY <2>1, <2>2 DEF NoFaults
<1> SUFFICES
      /\ \A c \in Callers : caller'[c].pc = "lookup" => Collected(c)'
      /\ NoFaults' => ReadExact'
  BY <1>1 DEF ReadInv
<1>4. CASE UNCHANGED vars
  BY <1>3, <1>4, ReadsStay DEF vars, auxVars
<1>5. CASE Reopen
  BY <1>2, <1>5, ReopenEffect DEF ReadExact, IdleCaller
<1>6. ASSUME NEW c \in Callers, SteadyStep(c),
             ScanRead(c) \/ NeighborsRead(c) \/ NeighborsLookup(c)
      PROVE  /\ \A d \in Callers : caller'[d].pc = "lookup" => Collected(d)'
             /\ NoFaults' => ReadExact'
  <2>1. UNCHANGED <<written, horizon>>
    BY <1>6 DEF ScanRead, NeighborsRead, NeighborsLookup, auxVars
  <2>2. caller'[c].pc = "lookup" => Collected(c)'
    BY <1>2, <1>6, ReadKeeps, NeighborsCollect
  <2>3. Asked(c)' = Asked(c)
    BY <1>2, <1>6, <2>1, ReadKeeps DEF Asked
  <2>4. ASSUME NoFaults', caller'[c].pc = "done",
               caller'[c].snapshot >= horizon
        PROVE  caller'[c].recs = merge_visible(Asked(c)', caller'[c].snapshot)
    <3>1. horizon <= caller[c].snapshot /\ ~NeighborsRead(c)
      <4>1. horizon \in Int /\ caller'[c].snapshot \in Int
        BY <1>2 DEF TypeOK, CallerState
      <4> QED BY <1>2, <1>6, <2>4, <4>1, ReadKeeps
    <3> QED BY <1>2, <1>3, <1>6, <2>3, <2>4, <3>1, ReadKeeps, ScanAnswers,
               LookupAnswers
  <2> QED BY <2>1, <2>2, <2>4 DEF ReadExact, Asked, OneThread
<1>7. ASSUME NEW c \in Callers, SteadyStep(c),
             caller'[c].pc \notin {"lookup", "done"}
      PROVE  /\ \A d \in Callers : caller'[d].pc = "lookup" => Collected(d)'
             /\ NoFaults' => ReadExact'
  BY <1>7 DEF ReadExact, OneThread
<1>8. ASSUME NEW c \in Callers,
             \/ WriteInsert(c) \/ WriteInsertFull(c) \/ RotatePublish(c)
             \/ CompactPublish(c)
      PROVE  /\ \A d \in Callers : caller'[d].pc = "lookup" => Collected(d)'
             /\ NoFaults' => ReadExact'
  <2>1. caller'[c].pc \notin {"lookup", "done"}
    BY <1>2, <1>8, InsertEffect, SpawnEffect, CompactedVersion DEF IdleCaller
  <2> QED BY <2>1 DEF ReadExact, OneThread
<1>9. ASSUME NEW m \in MemId, TaskStep(m)
      PROVE  /\ \A d \in Callers : caller'[d].pc = "lookup" => Collected(d)'
             /\ NoFaults' => ReadExact'
  <2>1. version'.l1 = version.l1 /\ UNCHANGED <<written, horizon, caller>>
    BY <1>2, <1>9, TaskVersion, FlushedVersion, TaskEffect DEF Pinned
  <2> QED BY <1>3, <2>1, ReadsStay
<1> QED BY <1>2, VersionCases, <1>4, <1>5, <1>6, <1>7, <1>8, <1>9
        DEF SteadyStep

\* On one thread, scan_edges and get_neighbors return exactly what was
\* written, as seen by the caller's snapshot, as long as no I/O operation has
\* failed: neither the partition and range filters on L0, nor the flushes
\* that publish between the read of L0 and the lookup of L1, hide an edge.
THEOREM ReadCorrect ==
  ASSUME OneThread
  PROVE  Spec => [](NoFaults => ReadExact)
<1>1. Init => ReadInv
  BY InitIndex DEF Init, ReadInv, ReadExact, IdleCaller
<1>2. ReadInv /\ [Next]_vars => ReadInv'
  BY StepReads
<1>3. ReadInv => (NoFaults => ReadExact)
  BY DEF ReadInv
<1> QED BY <1>1, <1>2, <1>3, PTL DEF Spec

=============================================================================
