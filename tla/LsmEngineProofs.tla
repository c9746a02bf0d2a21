-------------------------- MODULE LsmEngineProofs --------------------------
(***************************************************************************)
(* Proofs about LsmEngine, for every number of callers, every operation    *)
(* mix, both runtimes, every configuration and every bound: its types, and *)
(* why a reopened store shows what was persisted.  The inductive invariant *)
(* of the second has four layers: file ids, ownership of the outputs of a  *)
(* compaction, uniqueness of timestamps, and coverage of every persisted   *)
(* record by a live one.                                                   *)
(***************************************************************************)
EXTENDS LsmEngine, EdgeRecordsProofs, SequenceTheorems

-----------------------------------------------------------------------------
(* Type correctness.                                                       *)

LEMMA IdleTypes ==
  /\ IdleCaller \in CallerState
  /\ NoTask \in TaskState
  /\ NoVersion \in Version
BY BoundsAssumption, MaxTsAssumption
   DEF IdleCaller, NoTask, NoVersion, CallerState, TaskState, Version,
       CallerPc, TaskPc, MemId, NoArg

LEMMA TypeInit == Init => TypeOK
<1> SUFFICES ASSUME Init PROVE TypeOK
  OBVIOUS
<1> QED
  BY IdleTypes, BoundsAssumption, MaxTsAssumption
     DEF Init, TypeOK, MemId, FileId, Version, Segment, ManifestState, Budget

\* Files that a caller selects, in a version of the right type.
LEMMA SelectedTypes ==
  ASSUME NEW v \in Version, NEW c
  PROVE  SelectedInputs(c, v) \subseteq v.l0 \cup v.l1
BY DEF SelectedInputs, Version

LEMMA EdgesOfTypes ==
  ASSUME TypeOK, NEW files \in SUBSET FileId
  PROVE  EdgesOf(files) \in SUBSET EdgeRecord
BY DEF EdgesOf, TypeOK, Segment

LEMMA MemEdgesTypes ==
  ASSUME TypeOK, NEW v \in Version
  PROVE  MemEdges(v) \in SUBSET EdgeRecord
BY DEF MemEdges, TypeOK, Version

LEMMA AppendTypes ==
  ASSUME TypeOK, NEW f \in FileId, AppendCreate(f) \/ AppendDelete(f)
  PROVE  manifest' \in ManifestState
<1> DEFINE edges == disk[f].edges
           m == manifest
<1>1. edges \in SUBSET EdgeRecord
  BY DEF TypeOK, Segment
<1>2. max_ts(edges) \in 0..MaxTs
  BY <1>1, MaxTsOf
<1>3. m \in ManifestState /\ f \in 0..MaxFiles
  BY BoundsAssumption DEF TypeOK, FileId
<1>4. CASE AppendCreate(f)
  <2>1. manifest' = [live |-> m.live \cup {f}, created |-> m.created \cup {f},
                     max_file_id |-> Max({m.max_file_id, f}),
                     max_ts |-> Max({m.max_ts, max_ts(edges)})]
    BY <1>4 DEF AppendCreate
  <2> HIDE DEF m, edges
  <2>2. m.max_ts \in 0..MaxTs /\ m.max_file_id \in 0..MaxFiles
    BY <1>3 DEF ManifestState
  <2>3. Max({m.max_ts, max_ts(edges)}) \in 0..MaxTs
    <3>1. m.max_ts \in Int /\ max_ts(edges) \in Int
      BY <1>2, <2>2, MaxTsAssumption
    <3> QED BY <1>2, <2>2, <3>1, MaxOfTwo
  <2>4. Max({m.max_file_id, f}) \in 0..MaxFiles
    <3>1. m.max_file_id \in Int /\ f \in Int
      BY <1>3, <2>2, BoundsAssumption
    <3> QED BY <1>3, <2>2, <3>1, MaxOfTwo
  <2> QED BY <1>3, <2>1, <2>3, <2>4 DEF ManifestState
<1>5. CASE AppendDelete(f)
  BY <1>3, <1>5 DEF AppendDelete, ManifestState
<1> QED BY <1>4, <1>5

LEMMA SegmentTypes ==
  ASSUME TypeOK, NEW level \in {0, 1}, NEW edges \in SUBSET EdgeRecord,
         WriteSegment(level, edges)
  PROVE  /\ next_file_id \in FileId
         /\ next_file_id' \in 1..(MaxFiles + 1)
         /\ disk' \in [FileId -> Segment]
BY BoundsAssumption DEF TypeOK, WriteSegment, FileId, Segment

LEMMA SpendTypes ==
  ASSUME TypeOK, NEW what \in {"reads", "compactions", "faults", "crashes"},
         Spend(what)
  PROVE  budget' \in Budget
<1>1. budget \in Budget /\ budget[what] > 0
  BY DEF TypeOK, Spend
<1>2. budget' = [budget EXCEPT ![what] = @ - 1]
  BY DEF Spend
<1>3. CASE what = "reads"
  BY <1>1, <1>2, <1>3, BoundsAssumption DEF Budget
<1>4. CASE what = "compactions"
  BY <1>1, <1>2, <1>4, BoundsAssumption DEF Budget
<1>5. CASE what = "faults"
  BY <1>1, <1>2, <1>5, BoundsAssumption DEF Budget
<1>6. CASE what = "crashes"
  BY <1>1, <1>2, <1>6, BoundsAssumption DEF Budget
<1> QED BY <1>3, <1>4, <1>5, <1>6

LEMMA StoreIndexTypes ==
  ASSUME TypeOK, NEW files \in SUBSET FileId, StoreIndex(files)
  PROVE  /\ index' \in SUBSET FileId
         /\ budget' \in Budget
<1>1. CASE UNCHANGED budget /\ index' = files
  BY <1>1 DEF TypeOK
<1>2. CASE /\ Spend("faults")
          /\ \E skipped \in SUBSET files \ {{}} : index' = files \ skipped
  BY <1>2, SpendTypes
<1> QED BY <1>1, <1>2 DEF StoreIndex

\* One step of caller c that leaves it in a state of the right type.
LEMMA CallerTypes ==
  ASSUME TypeOK, NEW c \in Callers, NEW s \in CallerState,
         caller' = [caller EXCEPT ![c] = s]
  PROVE  caller' \in [Callers -> CallerState]
BY DEF TypeOK

LEMMA TaskTypes ==
  ASSUME TypeOK, NEW m \in MemId, NEW s \in TaskState,
         task' = [task EXCEPT ![m] = s]
  PROVE  task' \in [MemId -> TaskState]
BY DEF TypeOK

LEMMA WriteTypes ==
  ASSUME TypeOK, NEW c \in Callers,
         WriteBegin(c) \/ WriteInsert(c) \/ WriteInsertFull(c)
  PROVE  TypeOK'
<1> DEFINE r == caller[c]
<1>1. /\ r \in CallerState /\ version \in Version /\ active \in MemId
      /\ timestamp \in 0..MaxTs
  BY DEF TypeOK
<1>2. r.recs \in SUBSET EdgeRecord
  BY <1>1 DEF CallerState
<1> DEFINE filled == mem[active] \cup r.recs
<1>3. filled \in SUBSET EdgeRecord /\ written \cup r.recs \in SUBSET EdgeRecord
  BY <1>1, <1>2 DEF TypeOK
<1>4. CASE WriteBegin(c)
  <2>1. PICK key \in Keys, marker \in EdgeMarker :
          caller' = [caller EXCEPT ![c] = [r EXCEPT !.pc = "insert",
            !.op = "write",
            !.recs = {[key |-> key, ts |-> timestamp + 1, marker |-> marker]}]]
    BY <1>4, ZenonT(60) DEF WriteBegin
  <2>2. timestamp < MaxTs /\ timestamp' = timestamp + 1
    BY <1>4 DEF WriteBegin
  <2>3. timestamp + 1 \in 1..MaxTs /\ timestamp' \in 0..MaxTs
    BY <1>1, <2>2, MaxTsAssumption
  <2>4. [key |-> key, ts |-> timestamp + 1, marker |-> marker] \in EdgeRecord
    BY <2>3 DEF EdgeRecord
  <2> HIDE DEF r
  <2>5. [r EXCEPT !.pc = "insert", !.op = "write",
           !.recs = {[key |-> key, ts |-> timestamp + 1, marker |-> marker]}]
          \in CallerState
    BY <1>1, <2>4 DEF CallerState, CallerPc
  <2>6. caller' \in [Callers -> CallerState]
    BY <2>1, <2>5, CallerTypes
  <2> QED
    BY <1>4, <2>3, <2>6
       DEF WriteBegin, TypeOK, storeVars, auxVars
<1>5. CASE WriteInsert(c)
  <2>1. caller' \in [Callers -> CallerState]
    BY <1>5, IdleTypes, CallerTypes DEF WriteInsert, Finish
  <2>2. /\ mem' = [mem EXCEPT ![active] = filled]
        /\ written' = written \cup r.recs
    BY <1>5 DEF WriteInsert
  <2> HIDE DEF r, filled
  <2>3. mem' \in [MemId -> SUBSET EdgeRecord]
    BY <1>3, <1>1, <2>2 DEF TypeOK
  <2> QED
    BY <1>3, <1>5, <2>1, <2>2, <2>3 DEF WriteInsert, TypeOK, storeVars
<1>6. CASE WriteInsertFull(c)
  <2>1. caller' = [caller EXCEPT ![c] = [r EXCEPT !.pc = "rotate",
                                           !.handle = active, !.old = version]]
    BY <1>6 DEF WriteInsertFull
  <2>2. /\ mem' = [mem EXCEPT ![active] = filled]
        /\ written' = written \cup r.recs
    BY <1>6 DEF WriteInsertFull
  <2> HIDE DEF r, filled
  <2>3. [r EXCEPT !.pc = "rotate", !.handle = active, !.old = version]
          \in CallerState
    BY <1>1 DEF CallerState, CallerPc
  <2>4. caller' \in [Callers -> CallerState]
    BY <2>1, <2>3, CallerTypes
  <2>5. active' \in MemId
    BY <1>1, <1>6, BoundsAssumption DEF WriteInsertFull, MemId
  <2>6. mem' \in [MemId -> SUBSET EdgeRecord] /\ written' \in SUBSET EdgeRecord
    BY <1>3, <1>1, <2>2 DEF TypeOK
  <2> QED
    BY <1>6, <2>4, <2>5, <2>6 DEF WriteInsertFull, TypeOK, storeVars
<1> QED BY <1>4, <1>5, <1>6

LEMMA RotateTypes ==
  ASSUME TypeOK, NEW c \in Callers,
         FlushActive(c) \/ RotatePublish(c) \/ PushHandle(c)
  PROVE  TypeOK'
<1> DEFINE r == caller[c]
<1>1. /\ r \in CallerState /\ version \in Version /\ active \in MemId
      /\ mem \in [MemId -> SUBSET EdgeRecord] /\ flush_tasks \in Seq(MemId)
  BY DEF TypeOK
<1>2. r.handle \in MemId /\ r.old \in Version
  BY <1>1 DEF CallerState
<1>3. CASE FlushActive(c)
  <2>1. CASE caller' = [caller EXCEPT ![c] = [r EXCEPT !.pc = "wait",
                                                       !.op = "flush"]]
             /\ UNCHANGED active
    <3> HIDE DEF r
    <3>1. [r EXCEPT !.pc = "wait", !.op = "flush"] \in CallerState
      BY <1>1 DEF CallerState, CallerPc
    <3>2. caller' \in [Callers -> CallerState]
      BY <2>1, <3>1, CallerTypes
    <3> QED
      BY <1>3, <2>1, <3>2 DEF FlushActive, TypeOK, storeVars, auxVars
  <2>2. CASE caller' = [caller EXCEPT ![c] = [r EXCEPT !.pc = "rotate",
                          !.op = "flush", !.handle = active, !.old = version]]
             /\ active < MaxMem /\ active' = active + 1
    <3> HIDE DEF r
    <3>1. [r EXCEPT !.pc = "rotate", !.op = "flush", !.handle = active,
                    !.old = version] \in CallerState
      BY <1>1 DEF CallerState, CallerPc
    <3>2. caller' \in [Callers -> CallerState]
      BY <2>2, <3>1, CallerTypes
    <3>3. active' \in MemId
      BY <1>1, <2>2, BoundsAssumption DEF MemId
    <3> QED
      BY <1>3, <3>2, <3>3 DEF FlushActive, TypeOK, storeVars, auxVars
  <2> QED BY <1>3, <2>1, <2>2 DEF FlushActive
<1>4. CASE RotatePublish(c)
  <2>1. caller' = [caller EXCEPT ![c] = [r EXCEPT !.pc = "push",
                                                  !.old = NoVersion]]
    BY <1>4 DEF RotatePublish
  <2>2. /\ version' = [r.old EXCEPT !.memgraphs = @ \cup {active}]
        /\ task' = [task EXCEPT ![r.handle] =
                      [NoTask EXCEPT !.pc = "write", !.recs = mem[r.handle]]]
    BY <1>4 DEF RotatePublish
  <2> HIDE DEF r
  <2>3. [r EXCEPT !.pc = "push", !.old = NoVersion] \in CallerState
    BY <1>1, IdleTypes DEF CallerState, CallerPc
  <2>4. caller' \in [Callers -> CallerState]
    BY <2>1, <2>3, CallerTypes
  <2>5. version' \in Version
    BY <1>1, <1>2, <2>2 DEF Version
  <2>6. mem[r.handle] \in SUBSET EdgeRecord
    BY <1>1, <1>2
  <2>7. [NoTask EXCEPT !.pc = "write", !.recs = mem[r.handle]] \in TaskState
    BY <2>6, IdleTypes DEF TaskState, TaskPc
  <2>8. task' \in [MemId -> TaskState]
    BY <1>2, <2>2, <2>7, TaskTypes
  <2> QED
    BY <1>4, <2>4, <2>5, <2>8
       DEF RotatePublish, TypeOK, engineVars, storeVars, auxVars
<1>5. CASE PushHandle(c)
  <2> DEFINE s == IF r.op = "write" THEN IdleCaller
                  ELSE [IdleCaller EXCEPT !.op = "flush", !.pc = "wait"]
  <2>1. caller' = [caller EXCEPT ![c] = s]
    BY <1>5 DEF PushHandle
  <2>2. s \in CallerState
    BY IdleTypes DEF CallerState, CallerPc
  <2>3. caller' \in [Callers -> CallerState]
    BY <2>1, <2>2, CallerTypes
  <2>4. flush_tasks' \in Seq(MemId)
    BY <1>1, <1>2, <1>5, AppendProperties DEF PushHandle
  <2> QED
    BY <1>5, <2>3, <2>4 DEF PushHandle, TypeOK, storeVars, auxVars
<1> QED BY <1>3, <1>4, <1>5

LEMMA WaitTypes ==
  ASSUME TypeOK, NEW c \in Callers,
         WaitPop(c) \/ WaitJoin(c) \/ WaitError(c) \/ WaitEnd(c)
  PROVE  TypeOK'
<1> DEFINE r == caller[c]
<1>1. /\ r \in CallerState /\ flush_tasks \in Seq(MemId)
      /\ timestamp \in 0..MaxTs
  BY DEF TypeOK
<1>2. CASE WaitPop(c)
  <2> DEFINE n == Len(flush_tasks)
             h == flush_tasks[n]
  <2>1. /\ caller' = [caller EXCEPT ![c] = [r EXCEPT !.pc = "join",
                                                     !.handle = h]]
        /\ flush_tasks' = SubSeq(flush_tasks, 1, n - 1)
        /\ flush_tasks # <<>>
    BY <1>2 DEF WaitPop
  <2>2. n \in Nat \ {0}
    BY <1>1, <2>1, EmptySeq, LenProperties
  <2>3. h \in MemId
    BY <1>1, <2>2, ElementOfSeq
  <2>4. flush_tasks' \in Seq(MemId)
    BY <1>1, <2>1, <2>2, SubSeqProperties
  <2> HIDE DEF r, h, n
  <2>5. [r EXCEPT !.pc = "join", !.handle = h] \in CallerState
    BY <1>1, <2>3 DEF CallerState, CallerPc
  <2>6. caller' \in [Callers -> CallerState]
    BY <2>1, <2>5, CallerTypes
  <2> QED
    BY <1>2, <2>4, <2>6 DEF WaitPop, TypeOK, storeVars, auxVars
<1>3. CASE WaitJoin(c)
  <2>1. caller' = [caller EXCEPT ![c] = [r EXCEPT !.pc = "wait", !.handle = 1]]
    BY <1>3 DEF WaitJoin
  <2> HIDE DEF r
  <2>2. 1 \in MemId
    BY BoundsAssumption DEF MemId
  <2>3. [r EXCEPT !.pc = "wait", !.handle = 1] \in CallerState
    BY <1>1, <2>2 DEF CallerState, CallerPc
  <2>4. caller' \in [Callers -> CallerState]
    BY <2>1, <2>3, CallerTypes
  <2> QED
    BY <1>3, <2>4 DEF WaitJoin, TypeOK, engineVars, storeVars, auxVars
<1>4. CASE WaitError(c)
  <2>1. caller' \in [Callers -> CallerState]
    BY <1>4, IdleTypes, CallerTypes DEF WaitError, Finish
  <2> QED
    BY <1>4, <2>1 DEF WaitError, TypeOK, engineVars, storeVars, auxVars
<1>5. CASE WaitEnd(c)
  <2>1. ASSUME Finish(c)
        PROVE  caller' \in [Callers -> CallerState]
    BY <2>1, IdleTypes, CallerTypes DEF Finish
  <2>2. ASSUME caller' = [caller EXCEPT ![c] = [r EXCEPT !.op = "auto"]]
        PROVE  caller' \in [Callers -> CallerState]
    <3> HIDE DEF r
    <3>1. [r EXCEPT !.op = "auto"] \in CallerState
      BY <1>1 DEF CallerState
    <3> QED BY <2>2, <3>1, CallerTypes
  <2>3. ASSUME caller' = [caller EXCEPT ![c] = [r EXCEPT !.pc = "select"]]
        PROVE  caller' \in [Callers -> CallerState]
    <3> HIDE DEF r
    <3>1. [r EXCEPT !.pc = "select"] \in CallerState
      BY <1>1 DEF CallerState, CallerPc
    <3> QED BY <2>3, <3>1, CallerTypes
  <2>4. caller' \in [Callers -> CallerState]
    BY <1>5, <2>1, <2>2, <2>3 DEF WaitEnd
  <2> QED
    BY <1>5, <2>4 DEF WaitEnd, TypeOK, engineVars, storeVars, auxVars
<1> QED BY <1>2, <1>3, <1>4, <1>5

LEMMA FlushTypes ==
  ASSUME TypeOK, NEW m \in MemId, TaskStep(m)
  PROVE  TypeOK'
<1> DEFINE t == task[m]
<1>1. t \in TaskState /\ version \in Version
  BY DEF TypeOK
<1>2. /\ t.recs \in SUBSET EdgeRecord /\ t.files \in SUBSET FileId
      /\ t.file \in SUBSET FileId /\ t.old \in Version
  BY <1>1 DEF TaskState
<1>3. CASE FlushWrite(m)
  <2>1. PICK segment \in FlushSegments(t.recs) :
          /\ WriteSegment(0, segment)
          /\ task' = [task EXCEPT ![m] = [t EXCEPT !.pc = "append",
                         !.file = {next_file_id}, !.recs = @ \ segment]]
    BY <1>3 DEF FlushWrite
  <2>2. segment \in SUBSET EdgeRecord
    BY <1>2 DEF FlushSegments
  <2>3. /\ next_file_id \in FileId
        /\ next_file_id' \in 1..(MaxFiles + 1)
        /\ disk' \in [FileId -> Segment]
    BY <2>1, <2>2, SegmentTypes
  <2> HIDE DEF t
  <2>4. [t EXCEPT !.pc = "append", !.file = {next_file_id},
                  !.recs = @ \ segment] \in TaskState
    BY <1>1, <2>3 DEF TaskState, TaskPc
  <2>5. task' \in [MemId -> TaskState]
    BY <2>1, <2>4, TaskTypes
  <2> QED
    BY <1>3, <2>3, <2>5 DEF FlushWrite, TypeOK, auxVars
<1>4. CASE FlushAppend(m)
  <2>1. PICK f \in t.file :
          /\ AppendCreate(f)
          /\ task' = [task EXCEPT ![m] = [t EXCEPT
                !.pc = IF t.recs = {} THEN "pin" ELSE "write",
                !.files = @ \cup {f}, !.file = {}]]
    BY <1>4, ZenonT(60) DEF FlushAppend
  <2>2. f \in FileId
    BY <1>2
  <2>3. manifest' \in ManifestState
    BY <2>1, <2>2, AppendTypes
  <2> HIDE DEF t
  <2>4. [t EXCEPT !.pc = IF t.recs = {} THEN "pin" ELSE "write",
                  !.files = @ \cup {f}, !.file = {}] \in TaskState
    BY <1>1, <2>2 DEF TaskState, TaskPc
  <2>5. task' \in [MemId -> TaskState]
    BY <2>1, <2>4, TaskTypes
  <2> QED
    BY <1>4, <2>3, <2>5 DEF FlushAppend, TypeOK, engineVars, auxVars
<1>5. CASE FlushPin(m) \/ FlushIndexPin(m)
  <2>1. PICK pc \in {"publish", "store"} :
          task' = [task EXCEPT ![m] = [t EXCEPT !.pc = pc, !.old = version]]
    BY <1>5 DEF FlushPin, FlushIndexPin
  <2> HIDE DEF t
  <2>2. [t EXCEPT !.pc = pc, !.old = version] \in TaskState
    BY <1>1 DEF TaskState, TaskPc
  <2>3. task' \in [MemId -> TaskState]
    BY <2>1, <2>2, TaskTypes
  <2> QED
    BY <1>5, <2>3
       DEF FlushPin, FlushIndexPin, TypeOK, engineVars, storeVars, auxVars
<1>6. CASE FlushPublish(m)
  <2>1. /\ version' = [t.old EXCEPT !.memgraphs = @ \ {m},
                                    !.l0 = @ \cup t.files]
        /\ task' = [task EXCEPT ![m] = [t EXCEPT !.pc = "index",
                                                 !.old = NoVersion]]
    BY <1>6 DEF FlushPublish
  <2> HIDE DEF t
  <2>2. version' \in Version
    BY <1>2, <2>1 DEF Version
  <2>3. [t EXCEPT !.pc = "index", !.old = NoVersion] \in TaskState
    BY <1>1, IdleTypes DEF TaskState, TaskPc
  <2>4. task' \in [MemId -> TaskState]
    BY <2>1, <2>3, TaskTypes
  <2> QED
    BY <1>6, <2>2, <2>4 DEF FlushPublish, TypeOK, engineVars, storeVars, auxVars
<1>7. CASE FlushIndexStore(m)
  <2>1. t.old.l1 \in SUBSET FileId
    BY <1>2 DEF Version
  <2>2. index' \in SUBSET FileId /\ budget' \in Budget
    BY <1>7, <2>1, StoreIndexTypes DEF FlushIndexStore
  <2>3. [NoTask EXCEPT !.pc = "done"] \in TaskState
    BY IdleTypes DEF TaskState, TaskPc
  <2>4. task' \in [MemId -> TaskState]
    BY <1>7, <2>3, TaskTypes DEF FlushIndexStore
  <2> QED
    BY <1>7, <2>2, <2>4 DEF FlushIndexStore, TypeOK, engineVars, storeVars
<1>8. CASE FlushFail(m)
  <2>1. manifest' \in ManifestState
    <3>1. CASE UNCHANGED manifest
      BY <3>1 DEF TypeOK
    <3>2. CASE \E f \in t.file : AppendCreate(f)
      BY <1>2, <3>2, AppendTypes
    <3> QED BY <1>8, <3>1, <3>2 DEF FlushFail
  <2>2. budget' \in Budget
    BY <1>8, SpendTypes DEF FlushFail
  <2>3. [NoTask EXCEPT !.pc = "failed"] \in TaskState
    BY IdleTypes DEF TaskState, TaskPc
  <2>4. task' \in [MemId -> TaskState]
    BY <1>8, <2>3, TaskTypes DEF FlushFail
  <2> QED
    BY <1>8, <2>1, <2>2, <2>4 DEF FlushFail, TypeOK, engineVars
<1> QED BY <1>3, <1>4, <1>5, <1>6, <1>7, <1>8 DEF TaskStep

LEMMA CompactTypes ==
  ASSUME TypeOK, NEW c \in Callers,
         \/ CompactBegin(c) \/ CompactSelect(c) \/ CompactMerge(c)
         \/ CompactWrite(c) \/ CompactAppend(c) \/ CompactDelete(c)
  PROVE  TypeOK'
<1> DEFINE r == caller[c]
<1>1. r \in CallerState /\ version \in Version /\ timestamp \in 0..MaxTs
  BY DEF TypeOK
<1>2. /\ r.recs \in SUBSET EdgeRecord /\ r.sel \in SUBSET FileId
      /\ r.del \in SUBSET FileId /\ r.file \in SUBSET FileId
  BY <1>1 DEF CallerState
<1>3. CASE CompactBegin(c)
  <2>1. budget' \in Budget
    BY <1>3, SpendTypes DEF CompactBegin
  <2>2. ASSUME caller' = [caller EXCEPT ![c] = [r EXCEPT !.pc = "wait",
                                                       !.op = "compact"]]
        PROVE  caller' \in [Callers -> CallerState]
    <3> HIDE DEF r
    <3>1. [r EXCEPT !.pc = "wait", !.op = "compact"] \in CallerState
      BY <1>1 DEF CallerState, CallerPc
    <3> QED BY <2>2, <3>1, CallerTypes
  <2>3. ASSUME NEW target \in Targets,
               caller' = [caller EXCEPT ![c] = [r EXCEPT !.pc = "wait",
                                       !.op = "target", !.arg = target]]
        PROVE  caller' \in [Callers -> CallerState]
    <3> HIDE DEF r
    <3>1. [r EXCEPT !.pc = "wait", !.op = "target", !.arg = target]
            \in CallerState
      BY <1>1 DEF CallerState, CallerPc
    <3> QED BY <2>3, <3>1, CallerTypes
  <2>4. caller' \in [Callers -> CallerState]
    BY <1>3, <2>2, <2>3 DEF CompactBegin
  <2> QED
    BY <1>3, <2>1, <2>4 DEF CompactBegin, TypeOK, engineVars, storeVars
<1>4. CASE CompactSelect(c)
  <2> DEFINE inputs == SelectedInputs(c, version)
  <2>1. inputs \in SUBSET FileId
    BY <1>1, SelectedTypes DEF Version
  <2>2. ASSUME Finish(c)
        PROVE  caller' \in [Callers -> CallerState]
    BY <2>2, IdleTypes, CallerTypes DEF Finish
  <2>3. ASSUME caller' = [caller EXCEPT ![c] = [r EXCEPT !.pc = "merge",
                                                       !.sel = inputs]]
        PROVE  caller' \in [Callers -> CallerState]
    <3> HIDE DEF r, inputs
    <3>1. [r EXCEPT !.pc = "merge", !.sel = inputs] \in CallerState
      BY <1>1, <2>1 DEF CallerState, CallerPc
    <3> QED BY <2>3, <3>1, CallerTypes
  <2>4. caller' \in [Callers -> CallerState]
    BY <1>4, <2>2, <2>3 DEF CompactSelect
  <2> QED
    BY <1>4, <2>4 DEF CompactSelect, TypeOK, engineVars, storeVars, auxVars
<1>5. CASE CompactMerge(c)
  <2> DEFINE merged == merge_latest_records(EdgesOf(r.sel), timestamp, TRUE)
  <2>1. caller' = [caller EXCEPT ![c] = [r EXCEPT !.pc = "write",
                                                  !.recs = merged]]
    BY <1>5 DEF CompactMerge
  <2>2. merged \in SUBSET EdgeRecord
    BY <1>2, EdgesOfTypes, MergeSubset
  <2> HIDE DEF r, merged
  <2>3. [r EXCEPT !.pc = "write", !.recs = merged] \in CallerState
    BY <1>1, <2>2 DEF CallerState, CallerPc
  <2>4. caller' \in [Callers -> CallerState]
    BY <2>1, <2>3, CallerTypes
  <2> QED
    BY <1>5, <2>4 DEF CompactMerge, TypeOK, engineVars, storeVars
<1>6. CASE CompactWrite(c)
  <2> DEFINE segment == IF r.op = "target"
                          THEN first_range_segment(r.recs, TargetEdges)
                          ELSE r.recs
  <2>1. /\ WriteSegment(1, segment)
        /\ caller' = [caller EXCEPT ![c] = [r EXCEPT !.pc = "append",
                         !.file = {next_file_id}, !.recs = @ \ segment]]
    BY <1>6 DEF CompactWrite
  <2>2. segment \in SUBSET EdgeRecord
    BY <1>2, SegmentSubset
  <2> HIDE DEF r, segment
  <2>3. /\ next_file_id \in FileId
        /\ next_file_id' \in 1..(MaxFiles + 1)
        /\ disk' \in [FileId -> Segment]
    BY <2>1, <2>2, SegmentTypes
  <2>4. [r EXCEPT !.pc = "append", !.file = {next_file_id},
                  !.recs = @ \ segment] \in CallerState
    BY <1>1, <2>3 DEF CallerState, CallerPc
  <2>5. caller' \in [Callers -> CallerState]
    BY <2>1, <2>4, CallerTypes
  <2> QED
    BY <1>6, <2>3, <2>5 DEF CompactWrite, TypeOK, auxVars
<1>7. CASE CompactAppend(c)
  <2>1. PICK f \in r.file :
          /\ AppendCreate(f)
          /\ caller' = [caller EXCEPT ![c] = [r EXCEPT
                !.pc = IF r.recs = {} THEN "delete" ELSE "write",
                !.outs = @ \cup {f}, !.file = {}, !.del = r.sel]]
    BY <1>7, ZenonT(60) DEF CompactAppend
  <2>2. f \in FileId
    BY <1>2
  <2>3. manifest' \in ManifestState
    BY <2>1, <2>2, AppendTypes
  <2> HIDE DEF r
  <2>4. [r EXCEPT !.pc = IF r.recs = {} THEN "delete" ELSE "write",
                  !.outs = @ \cup {f}, !.file = {}, !.del = r.sel]
          \in CallerState
    BY <1>1, <1>2, <2>2, ZenonT(60) DEF CallerState, CallerPc
  <2>5. caller' \in [Callers -> CallerState]
    BY <2>1, <2>4, CallerTypes
  <2> QED
    BY <1>7, <2>3, <2>5 DEF CompactAppend, TypeOK, engineVars, auxVars
<1>8. CASE CompactDelete(c)
  <2>1. PICK f \in NextDeletes(c) :
          /\ AppendDelete(f)
          /\ caller' = [caller EXCEPT ![c] = [r EXCEPT
                !.pc = IF r.del = {f} THEN "pin" ELSE "delete",
                !.del = @ \ {f}]]
    BY <1>8 DEF CompactDelete
  <2>2. f \in FileId
    BY <1>2 DEF NextDeletes, LevelOf
  <2>3. manifest' \in ManifestState
    BY <2>1, <2>2, AppendTypes
  <2> HIDE DEF r
  <2>4. [r EXCEPT !.pc = IF r.del = {f} THEN "pin" ELSE "delete",
                  !.del = @ \ {f}] \in CallerState
    <3>1. r.del \ {f} \in SUBSET FileId
      BY <1>1 DEF CallerState
    <3>2. {"pin", "delete"} \subseteq CallerPc
      BY DEF CallerPc
    <3> HIDE DEF CallerPc
    <3> QED BY <1>1, <3>1, <3>2, ZenonT(60) DEF CallerState
  <2>5. caller' \in [Callers -> CallerState]
    BY <2>1, <2>4, CallerTypes
  <2> QED
    BY <1>8, <2>3, <2>5 DEF CompactDelete, TypeOK, engineVars, auxVars
<1> QED BY <1>3, <1>4, <1>5, <1>6, <1>7, <1>8

LEMMA InstallTypes ==
  ASSUME TypeOK, NEW c \in Callers,
         \/ CompactPin(c) \/ CompactPublish(c) \/ CompactIndexPin(c)
         \/ CompactIndexStore(c) \/ CompactFail(c)
  PROVE  TypeOK'
<1> DEFINE r == caller[c]
<1>1. r \in CallerState /\ version \in Version
  BY DEF TypeOK
<1>2. /\ r.sel \in SUBSET FileId /\ r.outs \in SUBSET FileId
      /\ r.del \in SUBSET FileId /\ r.file \in SUBSET FileId
      /\ r.old \in Version
      /\ r.op \in {"none", "write", "flush", "auto", "compact", "target",
                   "scan", "neighbors"}
  BY <1>1 DEF CallerState
<1>3. CASE CompactPin(c) \/ CompactIndexPin(c)
  <2>1. PICK pc \in {"publish", "store"} :
          caller' = [caller EXCEPT ![c] = [r EXCEPT !.pc = pc, !.old = version]]
    BY <1>3 DEF CompactPin, CompactIndexPin
  <2> HIDE DEF r
  <2>2. [r EXCEPT !.pc = pc, !.old = version] \in CallerState
    BY <1>1 DEF CallerState, CallerPc
  <2>3. caller' \in [Callers -> CallerState]
    BY <2>1, <2>2, CallerTypes
  <2> QED
    BY <1>3, <2>3
       DEF CompactPin, CompactIndexPin, TypeOK, engineVars, storeVars, auxVars
<1>4. CASE CompactPublish(c)
  <2>1. /\ version' =
             IF r.op = "target"
               THEN [r.old EXCEPT !.l0 = @ \ r.sel,
                                  !.l1 = (@ \ r.sel) \cup r.outs]
               ELSE [r.old EXCEPT !.l0 = {}, !.l1 = r.outs]
        /\ caller' = [caller EXCEPT ![c] =
                        [IdleCaller EXCEPT !.pc = "index", !.op = r.op]]
    BY <1>4 DEF CompactPublish
  <2> HIDE DEF r
  <2>2. version' \in Version
    BY <1>2, <2>1 DEF Version
  <2>3. [IdleCaller EXCEPT !.pc = "index", !.op = r.op] \in CallerState
    BY <1>2, IdleTypes DEF CallerState, CallerPc
  <2>4. caller' \in [Callers -> CallerState]
    BY <2>1, <2>3, CallerTypes
  <2> QED
    BY <1>4, <2>2, <2>4
       DEF CompactPublish, TypeOK, engineVars, storeVars, auxVars
<1>5. CASE CompactIndexStore(c)
  <2>1. r.old.l1 \in SUBSET FileId
    BY <1>2 DEF Version
  <2>2. index' \in SUBSET FileId /\ budget' \in Budget
    BY <1>5, <2>1, StoreIndexTypes DEF CompactIndexStore
  <2>3. caller' \in [Callers -> CallerState]
    BY <1>5, IdleTypes, CallerTypes DEF CompactIndexStore, Finish
  <2> QED
    BY <1>5, <2>2, <2>3 DEF CompactIndexStore, TypeOK, engineVars, storeVars
<1>6. CASE CompactFail(c)
  <2>1. ASSUME UNCHANGED manifest
        PROVE  manifest' \in ManifestState
    BY <2>1 DEF TypeOK
  <2>2. ASSUME NEW f \in r.file, AppendCreate(f)
        PROVE  manifest' \in ManifestState
    BY <1>2, <2>2, AppendTypes
  <2>3. ASSUME NEW f \in NextDeletes(c), AppendDelete(f)
        PROVE  manifest' \in ManifestState
    <3>1. f \in FileId
      BY <1>2 DEF NextDeletes, LevelOf
    <3> QED BY <2>3, <3>1, AppendTypes
  <2>4. manifest' \in ManifestState
    BY <1>6, <2>1, <2>2, <2>3 DEF CompactFail
  <2>5. budget' \in Budget
    BY <1>6, SpendTypes DEF CompactFail
  <2>6. caller' \in [Callers -> CallerState]
    BY <1>6, IdleTypes, CallerTypes DEF CompactFail, Finish
  <2> QED
    BY <1>6, <2>4, <2>5, <2>6 DEF CompactFail, TypeOK, engineVars
<1> QED BY <1>3, <1>4, <1>5, <1>6

LEMMA ReadTypes ==
  ASSUME TypeOK, NEW c \in Callers,
         \/ ReadBegin(c) \/ ScanRead(c) \/ NeighborsRead(c)
         \/ NeighborsLookup(c) \/ ReadFail(c) \/ ReadReturn(c)
  PROVE  TypeOK'
<1> DEFINE r == caller[c]
<1>1. /\ r \in CallerState /\ version \in Version
      /\ timestamp \in 0..MaxTs /\ index \in SUBSET FileId
  BY DEF TypeOK
<1>2. r.recs \in SUBSET EdgeRecord /\ r.old \in Version
  BY <1>1 DEF CallerState
<1>3. r.old.l0 \in SUBSET FileId /\ r.old.l1 \in SUBSET FileId
  BY <1>2 DEF Version
<1>4. CASE ReadBegin(c)
  <2>1. budget' \in Budget
    BY <1>4, SpendTypes DEF ReadBegin
  <2>2. ASSUME NEW snapshot \in 0..timestamp,
               caller' = [caller EXCEPT ![c] = [r EXCEPT !.pc = "read",
                 !.op = "scan", !.snapshot = snapshot, !.old = version]]
        PROVE  caller' \in [Callers -> CallerState]
    <3> HIDE DEF r
    <3>1. snapshot \in 0..MaxTs
      BY <1>1, MaxTsAssumption
    <3>2. [r EXCEPT !.pc = "read", !.op = "scan", !.snapshot = snapshot,
                    !.old = version] \in CallerState
      BY <1>1, <3>1 DEF CallerState, CallerPc
    <3> QED BY <2>2, <3>2, CallerTypes
  <2>3. ASSUME NEW snapshot \in 0..timestamp, NEW query \in Queries,
               caller' = [caller EXCEPT ![c] = [r EXCEPT !.pc = "read",
                 !.op = "neighbors", !.arg = query, !.snapshot = snapshot,
                 !.old = version]]
        PROVE  caller' \in [Callers -> CallerState]
    <3> HIDE DEF r
    <3>1. snapshot \in 0..MaxTs
      BY <1>1, MaxTsAssumption
    <3>2. [r EXCEPT !.pc = "read", !.op = "neighbors", !.arg = query,
                    !.snapshot = snapshot, !.old = version] \in CallerState
      BY <1>1, <3>1 DEF CallerState, CallerPc
    <3> QED BY <2>3, <3>2, CallerTypes
  <2>4. caller' \in [Callers -> CallerState]
    <3>1. PICK snapshot \in 0..timestamp :
            \/ caller' = [caller EXCEPT ![c].pc = "read", ![c].op = "scan",
                 ![c].snapshot = snapshot, ![c].old = version]
            \/ \E query \in Queries :
                 caller' = [caller EXCEPT ![c].pc = "read",
                   ![c].op = "neighbors", ![c].arg = query,
                   ![c].snapshot = snapshot, ![c].old = version]
      BY <1>4 DEF ReadBegin
    <3>2. CASE caller' = [caller EXCEPT ![c].pc = "read", ![c].op = "scan",
                 ![c].snapshot = snapshot, ![c].old = version]
      BY <2>2, <3>2
    <3>3. ASSUME NEW query \in Queries,
                 caller' = [caller EXCEPT ![c].pc = "read",
                   ![c].op = "neighbors", ![c].arg = query,
                   ![c].snapshot = snapshot, ![c].old = version]
          PROVE  caller' \in [Callers -> CallerState]
      BY <2>3, <3>3
    <3> QED BY <3>1, <3>2, <3>3
  <2> QED
    BY <1>4, <2>1, <2>4 DEF ReadBegin, TypeOK, engineVars, storeVars
<1>5. CASE ScanRead(c)
  <2> DEFINE shown == merge_visible(MemEdges(r.old)
                        \cup EdgesOf(r.old.l0 \cup r.old.l1), r.snapshot)
  <2>1. caller' = [caller EXCEPT ![c] = [r EXCEPT !.pc = "done",
                                           !.old = NoVersion, !.recs = shown]]
    BY <1>5 DEF ScanRead
  <2>2. shown \in SUBSET EdgeRecord
    BY <1>2, <1>3, MemEdgesTypes, EdgesOfTypes, MergeSubset
  <2> HIDE DEF r, shown
  <2>3. [r EXCEPT !.pc = "done", !.old = NoVersion, !.recs = shown]
          \in CallerState
    BY <1>1, <2>2, IdleTypes DEF CallerState, CallerPc
  <2>4. caller' \in [Callers -> CallerState]
    BY <2>1, <2>3, CallerTypes
  <2> QED
    BY <1>5, <2>4 DEF ScanRead, TypeOK, engineVars, storeVars, auxVars
<1>6. CASE NeighborsRead(c)
  <2> DEFINE q == r.arg
             files == {f \in r.old.l0 :
               /\ may_contain_partition(disk[f].edges, q.src, q.edge_type)
               /\ min_src(disk[f].edges) <= q.src
               /\ q.src <= max_src(disk[f].edges)}
             found == OfSource(MemEdges(r.old) \cup EdgesOf(files), q.src)
  <2>1. caller' = [caller EXCEPT ![c] = [r EXCEPT !.pc = "lookup",
                                           !.old = NoVersion, !.recs = found]]
    BY <1>6 DEF NeighborsRead
  <2>2. found \in SUBSET EdgeRecord
    <3>1. files \in SUBSET FileId
      BY <1>3
    <3> HIDE DEF files
    <3> QED BY <1>2, <3>1, MemEdgesTypes, EdgesOfTypes DEF OfSource
  <2> HIDE DEF r, found
  <2>3. [r EXCEPT !.pc = "lookup", !.old = NoVersion, !.recs = found]
          \in CallerState
    BY <1>1, <2>2, IdleTypes DEF CallerState, CallerPc
  <2>4. caller' \in [Callers -> CallerState]
    BY <2>1, <2>3, CallerTypes
  <2> QED
    BY <1>6, <2>4 DEF NeighborsRead, TypeOK, engineVars, storeVars, auxVars
<1>7. CASE NeighborsLookup(c)
  <2> DEFINE updates == r.recs \cup OfSource(EdgesOf(index), r.arg.src)
             typed == {e \in updates :
                         \/ r.arg.edge_type = NoEdgeType
                         \/ e.key.edge_type \in r.arg.edge_type}
             shown == merge_visible(typed, r.snapshot)
  <2>1. caller' = [caller EXCEPT ![c] = [r EXCEPT !.pc = "done",
                                                  !.recs = shown]]
    BY <1>7 DEF NeighborsLookup
  <2>2. shown \in SUBSET EdgeRecord
    <3>1. updates \in SUBSET EdgeRecord
      BY <1>1, <1>2, EdgesOfTypes DEF OfSource
    <3>2. typed \subseteq updates /\ shown \subseteq typed
      BY MergeSubset
    <3> QED BY <3>1, <3>2
  <2> HIDE DEF r, shown
  <2>3. [r EXCEPT !.pc = "done", !.recs = shown] \in CallerState
    BY <1>1, <2>2 DEF CallerState, CallerPc
  <2>4. caller' \in [Callers -> CallerState]
    BY <2>1, <2>3, CallerTypes
  <2> QED
    BY <1>7, <2>4 DEF NeighborsLookup, TypeOK, engineVars, storeVars, auxVars
<1>8. CASE ReadReturn(c)
  <2>1. caller' \in [Callers -> CallerState]
    BY <1>8, IdleTypes, CallerTypes DEF ReadReturn, Finish
  <2> QED
    BY <1>8, <2>1 DEF ReadReturn, TypeOK, engineVars, storeVars, auxVars
<1>9. CASE ReadFail(c)
  <2>1. caller' \in [Callers -> CallerState]
    BY <1>9, IdleTypes, CallerTypes DEF ReadFail, Finish
  <2>2. budget' \in Budget
    BY <1>9, SpendTypes DEF ReadFail
  <2> QED
    BY <1>9, <2>1, <2>2 DEF ReadFail, TypeOK, engineVars, storeVars
<1> QED BY <1>4, <1>5, <1>6, <1>7, <1>8, <1>9

LEMMA OpenIndexTypes ==
  ASSUME TypeOK, NEW files \in SUBSET FileId, OpenIndex(files)
  PROVE  index' \in SUBSET FileId /\ budget' \in Budget
<1>1. budget \in Budget /\ budget.crashes > 0
  BY DEF TypeOK, OpenIndex
<1>2. CASE index' = files /\ budget' = [budget EXCEPT !.crashes = @ - 1]
  BY <1>1, <1>2, BoundsAssumption DEF Budget
<1>3. CASE /\ budget.faults > 0
           /\ \E skipped \in SUBSET files \ {{}} : index' = files \ skipped
           /\ budget' = [budget EXCEPT !.crashes = @ - 1, !.faults = @ - 1]
  <2> DEFINE b == [budget EXCEPT !.crashes = @ - 1]
  <2>1. b \in Budget /\ b.faults > 0
    BY <1>1, <1>3, BoundsAssumption DEF Budget
  <2>2. budget' = [b EXCEPT !.faults = @ - 1]
    BY <1>1, <1>3 DEF Budget
  <2> HIDE DEF b
  <2>3. budget' \in Budget
    BY <2>1, <2>2, BoundsAssumption DEF Budget
  <2>4. index' \in SUBSET FileId
    BY <1>3
  <2> QED BY <2>3, <2>4
<1> QED BY <1>2, <1>3 DEF OpenIndex

LEMMA ReopenTypes ==
  ASSUME TypeOK, Reopen
  PROVE  TypeOK'
<1> DEFINE m == manifest
<1>1. m \in ManifestState /\ horizon \in 0..MaxTs
  BY DEF TypeOK
<1>2. /\ timestamp' = m.max_ts /\ next_file_id' = m.max_file_id + 1
      /\ version' = [memgraphs |-> {1}, l0 |-> LevelOf(m.live, 0),
                     l1 |-> LevelOf(m.live, 1)]
      /\ OpenIndex(LevelOf(m.live, 1))
      /\ written' = EdgesOf(m.live)
      /\ horizon' = Min({horizon, m.max_ts})
  BY DEF Reopen, OpenInner, LiveEdges
<1> HIDE DEF m
<1>3. /\ m.live \in SUBSET FileId /\ m.max_file_id \in 0..MaxFiles
      /\ m.max_ts \in 0..MaxTs
  BY <1>1 DEF ManifestState
<1>4. timestamp' \in 0..MaxTs /\ next_file_id' \in 1..(MaxFiles + 1)
  BY <1>2, <1>3, BoundsAssumption, MaxTsAssumption
<1>5. 1 \in MemId
  BY BoundsAssumption DEF MemId
<1>6. /\ version' \in Version /\ index' \in SUBSET FileId
      /\ budget' \in Budget
  <2>1. LevelOf(m.live, 0) \in SUBSET FileId /\ LevelOf(m.live, 1) \in SUBSET FileId
    BY <1>3 DEF LevelOf
  <2> QED BY <1>2, <1>5, <2>1, OpenIndexTypes DEF Version
<1>7. written' \in SUBSET EdgeRecord
  BY <1>2, <1>3, EdgesOfTypes
<1>8. horizon' \in 0..MaxTs
  <2>1. horizon \in Int /\ m.max_ts \in Int
    BY <1>1, <1>3, MaxTsAssumption
  <2>2. \E x \in {horizon, m.max_ts} : \A y \in {horizon, m.max_ts} : x <= y
    BY <2>1
  <2>3. Min({horizon, m.max_ts}) \in {horizon, m.max_ts}
    BY <2>2 DEF Min
  <2> QED BY <1>1, <1>2, <1>3, <2>3
<1>9. /\ mem' = [n \in MemId |-> {}] /\ active' = 1 /\ flush_tasks' = <<>>
      /\ caller' = [c \in Callers |-> IdleCaller]
      /\ task' = [n \in MemId |-> NoTask]
      /\ UNCHANGED <<disk, manifest>>
  BY DEF Reopen, OpenInner, storeVars
<1> QED
  BY <1>1, <1>4, <1>5, <1>6, <1>7, <1>8, <1>9, IdleTypes DEF TypeOK

LEMMA TypeStep == TypeOK /\ [Next]_vars => TypeOK'
<1> SUFFICES ASSUME TypeOK, [Next]_vars PROVE TypeOK'
  OBVIOUS
<1>1. CASE UNCHANGED vars
  BY <1>1 DEF TypeOK, vars, engineVars, storeVars, auxVars
<1>2. ASSUME NEW c \in Callers, CallerBegin(c) PROVE TypeOK'
  BY <1>2, WriteTypes, RotateTypes, CompactTypes, ReadTypes DEF CallerBegin
<1>3. ASSUME NEW c \in Callers, CallerStep(c) PROVE TypeOK'
  BY <1>3, WriteTypes, RotateTypes, WaitTypes, CompactTypes, InstallTypes,
     ReadTypes
     DEF CallerStep
<1> QED BY <1>1, <1>2, <1>3, FlushTypes, ReopenTypes DEF Next

\* The type invariant holds in every reachable state of the engine, for all
\* constants: no file id, memgraph id, timestamp or version leaves its range,
\* whatever callers, flush tasks, failures and restarts interleave.
THEOREM TypeCorrect == Spec => []TypeOK
BY TypeInit, TypeStep, PTL DEF Spec

-----------------------------------------------------------------------------
(* What the steps do to the fields of the state, as facts that later       *)
(* proofs cite instead of expanding the actions: action by action where a  *)
(* step touches segments, the manifest or a version, and once for the many *)
(* that do not.                                                            *)

\* The segments of a version.
LevelFiles(v) == v.l0 \cup v.l1

\* The phases in which a compaction has outputs.
Compacting == {"write", "append", "delete", "pin", "publish"}

\* A step of caller c that writes no segment, manifest record or version.
QuietStep(c) ==
  /\ \A d \in Callers \ {c} : caller'[d] = caller[d]
  /\ caller[c].pc \notin Compacting /\ caller'[c].pc \notin Compacting
  /\ caller'[c].outs \subseteq caller[c].outs
  /\ caller'[c].file \subseteq caller[c].file
  /\ caller'[c].del \subseteq caller[c].del
  /\ LevelFiles(caller'[c].old)
       \subseteq LevelFiles(caller[c].old) \cup LevelFiles(version)
  /\ caller'[c].sel \subseteq caller[c].sel \cup LevelFiles(version)
  /\ \A r \in caller'[c].recs :
       \/ r \in caller[c].recs
       \/ \E m \in MemId : r \in mem[m]
       \/ \E f \in LevelFiles(caller[c].old) \cup index : r \in disk[f].edges
  /\ \A m \in MemId : mem'[m] \subseteq mem[m] \cup caller[c].recs
  /\ index' \subseteq index \cup LevelFiles(caller[c].old)
  /\ UNCHANGED <<timestamp, next_file_id, version, disk, manifest, task>>

LEMMA QuietWaits ==
  ASSUME TypeOK, NEW c \in Callers,
         \/ FlushActive(c) \/ PushHandle(c) \/ WaitPop(c) \/ WaitJoin(c)
         \/ WaitError(c) \/ WaitEnd(c)
  PROVE  QuietStep(c)
<1> USE DEF QuietStep, TypeOK, CallerState, Compacting, LevelFiles,
            engineVars, storeVars, IdleCaller, NoVersion, Finish
<1>1. CASE FlushActive(c)
  <2>1. /\ caller[c].pc = "idle"
        /\ UNCHANGED <<timestamp, mem, next_file_id, version, index, storeVars,
                       task>>
    BY <1>1 DEF FlushActive
  <2>2. \/ caller' = [caller EXCEPT ![c].pc = "wait", ![c].op = "flush"]
        \/ caller' = [caller EXCEPT ![c].pc = "rotate", ![c].op = "flush",
                                    ![c].handle = active, ![c].old = version]
    BY <1>1 DEF FlushActive
  <2>3. CASE caller' = [caller EXCEPT ![c].pc = "wait", ![c].op = "flush"]
    BY <2>1, <2>3
  <2>4. CASE caller' = [caller EXCEPT ![c].pc = "rotate", ![c].op = "flush",
                                      ![c].handle = active, ![c].old = version]
    BY <2>1, <2>4
  <2> QED BY <2>2, <2>3, <2>4
<1>2. CASE PushHandle(c)
  BY <1>2 DEF PushHandle
<1>3. CASE WaitPop(c)
  BY <1>3 DEF WaitPop
<1>4. CASE WaitJoin(c)
  BY <1>4 DEF WaitJoin
<1>5. CASE WaitError(c)
  BY <1>5 DEF WaitError
<1>6. CASE WaitEnd(c)
  <2>1. /\ caller[c].pc = "wait"
        /\ UNCHANGED <<engineVars, version, index, storeVars, task>>
    BY <1>6 DEF WaitEnd
  <2>2. /\ caller[c].pc \notin Compacting
        /\ UNCHANGED <<timestamp, mem, next_file_id, version, index, storeVars,
                       task>>
    BY <2>1
  <2>3. \/ caller' = [caller EXCEPT ![c] = IdleCaller]
        \/ caller' = [caller EXCEPT ![c].op = "auto"]
        \/ caller' = [caller EXCEPT ![c].pc = "select"]
    BY <1>6 DEF WaitEnd
  <2>4. CASE caller' = [caller EXCEPT ![c] = IdleCaller]
    BY <2>2, <2>4
  <2>5. CASE caller' = [caller EXCEPT ![c].op = "auto"]
    BY <2>2, <2>5
  <2>6. CASE caller' = [caller EXCEPT ![c].pc = "select"]
    BY <2>2, <2>6
  <2> QED BY <2>3, <2>4, <2>5, <2>6
<1> QED BY <1>1, <1>2, <1>3, <1>4, <1>5, <1>6

LEMMA QuietWrites ==
  ASSUME TypeOK, NEW c \in Callers, WriteInsert(c) \/ WriteInsertFull(c)
  PROVE  QuietStep(c)
<1> USE DEF QuietStep, TypeOK, CallerState, Compacting, LevelFiles,
            engineVars, storeVars, IdleCaller, NoVersion, Finish
<1>1. CASE WriteInsert(c)
  BY <1>1 DEF WriteInsert
<1>2. CASE WriteInsertFull(c)
  BY <1>2 DEF WriteInsertFull
<1> QED BY <1>1, <1>2

LEMMA QuietCompactions ==
  ASSUME TypeOK, NEW c \in Callers,
         \/ CompactBegin(c) \/ CompactSelect(c)
         \/ CompactIndexPin(c) \/ CompactIndexStore(c)
  PROVE  QuietStep(c)
<1> USE DEF QuietStep, TypeOK, CallerState, Compacting, LevelFiles,
            engineVars, storeVars, IdleCaller, NoVersion, Finish
<1>1. CASE CompactBegin(c)
  <2>1. /\ caller[c].pc = "idle"
        /\ UNCHANGED <<engineVars, version, index, storeVars, task>>
    BY <1>1 DEF CompactBegin
  <2>2. \/ caller' = [caller EXCEPT ![c].pc = "wait", ![c].op = "compact"]
        \/ \E target \in Targets :
             caller' = [caller EXCEPT ![c].pc = "wait", ![c].op = "target",
                                      ![c].arg = target]
    BY <1>1 DEF CompactBegin
  <2>3. CASE caller' = [caller EXCEPT ![c].pc = "wait", ![c].op = "compact"]
    BY <2>1, <2>3
  <2>4. ASSUME NEW target \in Targets,
               caller' = [caller EXCEPT ![c].pc = "wait", ![c].op = "target",
                                        ![c].arg = target]
        PROVE  QuietStep(c)
    BY <2>1, <2>4
  <2> QED BY <2>2, <2>3, <2>4
<1>2. CASE CompactSelect(c)
  <2> DEFINE inputs == SelectedInputs(c, version)
  <2>1. inputs \subseteq version.l0 \cup version.l1
    BY SelectedTypes
  <2>2. \/ Finish(c)
        \/ caller' = [caller EXCEPT ![c].pc = "merge", ![c].sel = inputs]
    BY <1>2 DEF CompactSelect
  <2>3. /\ caller[c].pc = "select"
        /\ UNCHANGED <<engineVars, version, index, storeVars, task>>
    BY <1>2 DEF CompactSelect
  <2> HIDE DEF inputs
  <2>4. CASE Finish(c)
    BY <2>3, <2>4
  <2>5. CASE caller' = [caller EXCEPT ![c].pc = "merge", ![c].sel = inputs]
    BY <2>1, <2>3, <2>5
  <2> QED BY <2>2, <2>4, <2>5
<1>3. CASE CompactIndexPin(c)
  BY <1>3 DEF CompactIndexPin
<1>4. CASE CompactIndexStore(c)
  BY <1>4 DEF CompactIndexStore, StoreIndex
<1> QED BY <1>1, <1>2, <1>3, <1>4

LEMMA QuietReads ==
  ASSUME TypeOK, NEW c \in Callers,
         \/ ReadBegin(c) \/ ScanRead(c) \/ NeighborsRead(c)
         \/ NeighborsLookup(c) \/ ReadFail(c) \/ ReadReturn(c)
  PROVE  QuietStep(c)
<1> USE DEF QuietStep, TypeOK, CallerState, Compacting, LevelFiles,
            engineVars, storeVars, IdleCaller, NoVersion, Finish
<1>1. CASE ReadBegin(c)
  <2>1. PICK snapshot \in 0..timestamp :
          \/ caller' = [caller EXCEPT ![c].pc = "read", ![c].op = "scan",
               ![c].snapshot = snapshot, ![c].old = version]
          \/ \E query \in Queries :
               caller' = [caller EXCEPT ![c].pc = "read",
                 ![c].op = "neighbors", ![c].arg = query,
                 ![c].snapshot = snapshot, ![c].old = version]
    BY <1>1 DEF ReadBegin
  <2>2. /\ caller[c].pc = "idle"
        /\ UNCHANGED <<engineVars, version, index, storeVars, task>>
    BY <1>1 DEF ReadBegin
  <2>3. CASE caller' = [caller EXCEPT ![c].pc = "read", ![c].op = "scan",
               ![c].snapshot = snapshot, ![c].old = version]
    BY <2>2, <2>3
  <2>4. ASSUME NEW query \in Queries,
               caller' = [caller EXCEPT ![c].pc = "read",
                 ![c].op = "neighbors", ![c].arg = query,
                 ![c].snapshot = snapshot, ![c].old = version]
        PROVE  QuietStep(c)
    BY <2>2, <2>4
  <2> QED BY <2>1, <2>3, <2>4
<1>2. CASE ScanRead(c)
  <2> DEFINE v == caller[c].old
             read == MemEdges(v) \cup EdgesOf(LevelFiles(v))
             shown == merge_visible(read, caller[c].snapshot)
  <2>1. caller' = [caller EXCEPT ![c].pc = "done", ![c].old = NoVersion,
                                 ![c].recs = shown]
    BY <1>2 DEF ScanRead
  <2>2. /\ caller[c].pc = "read"
        /\ UNCHANGED <<engineVars, version, index, storeVars, task>>
    BY <1>2 DEF ScanRead
  <2>3. v.memgraphs \subseteq MemId
    BY DEF Version
  <2>4. \A r \in read :
          \/ \E m \in MemId : r \in mem[m]
          \/ \E f \in LevelFiles(v) : r \in disk[f].edges
    BY <2>3 DEF MemEdges, EdgesOf
  <2>5. shown \subseteq read
    BY MergeSubset
  <2> HIDE DEF shown, read
  <2> QED BY <2>1, <2>2, <2>4, <2>5
<1>3. CASE NeighborsRead(c)
  <2> DEFINE v == caller[c].old
             q == caller[c].arg
             files == {f \in v.l0 :
               /\ may_contain_partition(disk[f].edges, q.src, q.edge_type)
               /\ min_src(disk[f].edges) <= q.src
               /\ q.src <= max_src(disk[f].edges)}
             found == OfSource(MemEdges(v) \cup EdgesOf(files), q.src)
  <2>1. caller' = [caller EXCEPT ![c].pc = "lookup", ![c].old = NoVersion,
                                 ![c].recs = found]
    BY <1>3 DEF NeighborsRead
  <2>2. /\ caller[c].pc = "read"
        /\ UNCHANGED <<engineVars, version, index, storeVars, task>>
    BY <1>3 DEF NeighborsRead
  <2>3. v.memgraphs \subseteq MemId /\ files \subseteq LevelFiles(v)
    BY DEF Version
  <2> HIDE DEF files
  <2>4. \A r \in found :
          \/ \E m \in MemId : r \in mem[m]
          \/ \E f \in LevelFiles(v) : r \in disk[f].edges
    BY <2>3 DEF OfSource, MemEdges, EdgesOf
  <2> HIDE DEF found
  <2> QED BY <2>1, <2>2, <2>4
<1>4. CASE NeighborsLookup(c)
  <2> DEFINE q == caller[c].arg
             updates == caller[c].recs \cup OfSource(EdgesOf(index), q.src)
             typed == {e \in updates :
                         \/ q.edge_type = NoEdgeType
                         \/ e.key.edge_type \in q.edge_type}
             shown == merge_visible(typed, caller[c].snapshot)
  <2>1. caller' = [caller EXCEPT ![c].pc = "done", ![c].recs = shown]
    BY <1>4 DEF NeighborsLookup
  <2>2. /\ caller[c].pc = "lookup"
        /\ UNCHANGED <<engineVars, version, index, storeVars, task>>
    BY <1>4 DEF NeighborsLookup
  <2>3. \A r \in updates :
          \/ r \in caller[c].recs
          \/ \E f \in index : r \in disk[f].edges
    BY DEF OfSource, EdgesOf
  <2>4. shown \subseteq typed /\ typed \subseteq updates
    BY MergeSubset
  <2> HIDE DEF shown, typed, updates
  <2> QED BY <2>1, <2>2, <2>3, <2>4
<1>5. CASE ReadReturn(c)
  BY <1>5 DEF ReadReturn
<1>6. CASE ReadFail(c)
  BY <1>6 DEF ReadFail
<1> QED BY <1>1, <1>2, <1>3, <1>4, <1>5, <1>6

LEMMA CreateEffect ==
  ASSUME TypeOK, NEW f \in FileId, AppendCreate(f)
  PROVE  /\ manifest'.live = manifest.live \cup {f}
         /\ manifest'.created = manifest.created \cup {f}
         /\ manifest'.max_file_id \in {manifest.max_file_id, f}
         /\ manifest'.max_file_id >= manifest.max_file_id
         /\ manifest'.max_file_id >= f
         /\ manifest'.max_ts >= manifest.max_ts
         /\ \A r \in disk[f].edges : r.ts <= manifest'.max_ts
<1> DEFINE edges == disk[f].edges
<1>1. edges \in SUBSET EdgeRecord /\ manifest \in ManifestState
  BY DEF TypeOK, Segment
<1>2. /\ manifest.max_ts \in Int /\ manifest.max_file_id \in Int /\ f \in Int
      /\ max_ts(edges) \in Int
      /\ \A r \in edges : r.ts <= max_ts(edges) /\ r.ts \in Int
  BY <1>1, MaxTsOf, MaxTsAssumption, BoundsAssumption
     DEF ManifestState, FileId, EdgeRecord
<1>3. manifest' = [live |-> manifest.live \cup {f},
                   created |-> manifest.created \cup {f},
                   max_file_id |-> Max({manifest.max_file_id, f}),
                   max_ts |-> Max({manifest.max_ts, max_ts(edges)})]
  BY DEF AppendCreate
<1> HIDE DEF edges
<1>4. /\ manifest'.max_file_id = Max({manifest.max_file_id, f})
      /\ manifest'.max_ts = Max({manifest.max_ts, max_ts(edges)})
      /\ manifest'.live = manifest.live \cup {f}
      /\ manifest'.created = manifest.created \cup {f}
  BY <1>3
<1>5. /\ manifest'.max_file_id \in {manifest.max_file_id, f}
      /\ manifest'.max_file_id >= manifest.max_file_id
      /\ manifest'.max_file_id >= f
  <2>1. manifest.max_file_id \in Int /\ f \in Int
    BY <1>2
  <2> DEFINE m == Max({manifest.max_file_id, f})
  <2>2. /\ m \in {manifest.max_file_id, f} /\ m >= manifest.max_file_id /\ m >= f
    BY <2>1, MaxOfTwo
  <2> HIDE DEF m
  <2> QED BY <1>4, <2>2 DEF m
<1>6. /\ manifest'.max_ts >= manifest.max_ts
      /\ manifest'.max_ts >= max_ts(edges)
      /\ manifest'.max_ts \in Int
  BY <1>2, <1>4, MaxOfTwo, ZenonT(60)
<1>7. \A r \in edges : r.ts <= manifest'.max_ts
  BY <1>2, <1>6
<1> QED BY <1>4, <1>5, <1>6, <1>7 DEF edges

LEMMA DeleteEffect ==
  ASSUME TypeOK, NEW f, AppendDelete(f)
  PROVE  /\ manifest'.live = manifest.live \ {f}
         /\ manifest'.created = manifest.created
         /\ manifest'.max_file_id = manifest.max_file_id
         /\ manifest'.max_ts = manifest.max_ts
BY DEF TypeOK, ManifestState, AppendDelete

\* CompactWrite and FlushWrite put a segment under a fresh id.
LEMMA CompactWriteEffect ==
  ASSUME TypeOK, NEW c \in Callers, CompactWrite(c)
  PROVE  \E segment \in SUBSET caller[c].recs :
           /\ next_file_id \in FileId /\ next_file_id' = next_file_id + 1
           /\ disk'[next_file_id].edges = segment
           /\ \A f \in FileId \ {next_file_id} : disk'[f] = disk[f]
           /\ \A d \in Callers \ {c} : caller'[d] = caller[d]
           /\ caller[c].pc = "write" /\ caller'[c].pc = "append"
           /\ caller'[c].recs = caller[c].recs \ segment
           /\ caller'[c].file = {next_file_id}
           /\ caller'[c].outs = caller[c].outs /\ caller'[c].sel = caller[c].sel
           /\ caller'[c].del = caller[c].del /\ caller'[c].old = caller[c].old
           /\ UNCHANGED <<timestamp, mem, version, index, manifest, task>>
<1> DEFINE segment == IF caller[c].op = "target"
                        THEN first_range_segment(caller[c].recs, TargetEdges)
                        ELSE caller[c].recs
<1>1. segment \in SUBSET caller[c].recs
  BY SegmentSubset
<1>2. /\ caller[c].pc = "write" /\ WriteSegment(1, segment)
      /\ caller' = [caller EXCEPT ![c].pc = "append",
                       ![c].file = {next_file_id}, ![c].recs = @ \ segment]
      /\ UNCHANGED <<timestamp, mem, version, index, manifest, task>>
  BY DEF CompactWrite
<1> HIDE DEF segment
<1>3. /\ next_file_id \in FileId /\ next_file_id' = next_file_id + 1
      /\ disk' = [disk EXCEPT ![next_file_id] = [level |-> 1,
           edges |-> segment]]
  BY <1>2, BoundsAssumption DEF WriteSegment, TypeOK, FileId
<1>4. /\ disk'[next_file_id].edges = segment
      /\ \A f \in FileId \ {next_file_id} : disk'[f] = disk[f]
  BY <1>3 DEF TypeOK
<1>5. /\ \A d \in Callers \ {c} : caller'[d] = caller[d]
      /\ caller'[c].pc = "append" /\ caller'[c].recs = caller[c].recs \ segment
      /\ caller'[c].file = {next_file_id}
      /\ caller'[c].outs = caller[c].outs /\ caller'[c].sel = caller[c].sel
      /\ caller'[c].del = caller[c].del /\ caller'[c].old = caller[c].old
  BY <1>2 DEF TypeOK, CallerState
<1> QED BY <1>1, <1>2, <1>3, <1>4, <1>5

LEMMA FlushWriteEffect ==
  ASSUME TypeOK, NEW m \in MemId, FlushWrite(m)
  PROVE  \E segment \in SUBSET task[m].recs :
           /\ next_file_id \in FileId /\ next_file_id' = next_file_id + 1
           /\ disk'[next_file_id].edges = segment
           /\ \A f \in FileId \ {next_file_id} : disk'[f] = disk[f]
           /\ \A n \in MemId \ {m} : task'[n] = task[n]
           /\ task'[m].recs = task[m].recs \ segment
           /\ task'[m].file = {next_file_id}
           /\ task'[m].files = task[m].files /\ task'[m].old = task[m].old
           /\ UNCHANGED <<timestamp, mem, version, index, manifest, caller>>
<1>1. PICK segment \in FlushSegments(task[m].recs) :
        /\ WriteSegment(0, segment)
        /\ task' = [task EXCEPT ![m].pc = "append", ![m].file = {next_file_id},
                                ![m].recs = @ \ segment]
  BY DEF FlushWrite
<1>2. segment \in SUBSET task[m].recs
  BY DEF FlushSegments
<1>3. /\ next_file_id \in FileId /\ next_file_id' = next_file_id + 1
      /\ disk' = [disk EXCEPT ![next_file_id] = [level |-> 0,
           edges |-> segment]]
  BY <1>1, BoundsAssumption DEF WriteSegment, TypeOK, FileId
<1>4. /\ disk'[next_file_id].edges = segment
      /\ \A f \in FileId \ {next_file_id} : disk'[f] = disk[f]
  BY <1>3 DEF TypeOK
<1>5. /\ \A n \in MemId \ {m} : task'[n] = task[n]
      /\ task'[m].recs = task[m].recs \ segment
      /\ task'[m].file = {next_file_id}
      /\ task'[m].files = task[m].files /\ task'[m].old = task[m].old
  BY <1>1 DEF TypeOK, TaskState
<1>6. UNCHANGED <<timestamp, mem, version, index, manifest, caller>>
  BY DEF FlushWrite
<1> QED BY <1>2, <1>3, <1>4, <1>5, <1>6

\* CompactAppend and FlushAppend move the pending segment into the manifest.
LEMMA CompactAppendEffect ==
  ASSUME TypeOK, NEW c \in Callers, CompactAppend(c)
  PROVE  \E f \in FileId :
           /\ f \in caller[c].file /\ AppendCreate(f)
           /\ \A d \in Callers \ {c} : caller'[d] = caller[d]
           /\ caller[c].pc = "append"
           /\ caller'[c].pc = IF caller[c].recs = {} THEN "delete" ELSE "write"
           /\ caller'[c].outs = caller[c].outs \cup {f}
           /\ caller'[c].file = {} /\ caller'[c].del = caller[c].sel
           /\ caller'[c].recs = caller[c].recs /\ caller'[c].sel = caller[c].sel
           /\ caller'[c].old = caller[c].old
           /\ UNCHANGED <<timestamp, mem, next_file_id, version, index, disk,
                          task>>
<1>1. PICK f \in caller[c].file :
        /\ AppendCreate(f)
        /\ caller' = [caller EXCEPT
             ![c].pc = IF caller[c].recs = {} THEN "delete" ELSE "write",
             ![c].outs = @ \cup {f}, ![c].file = {}, ![c].del = caller[c].sel]
  BY DEF CompactAppend
<1>2. f \in FileId
  BY DEF TypeOK, CallerState
<1>3. /\ \A d \in Callers \ {c} : caller'[d] = caller[d]
      /\ caller'[c].pc = IF caller[c].recs = {} THEN "delete" ELSE "write"
      /\ caller'[c].outs = caller[c].outs \cup {f}
      /\ caller'[c].file = {} /\ caller'[c].del = caller[c].sel
      /\ caller'[c].recs = caller[c].recs /\ caller'[c].sel = caller[c].sel
      /\ caller'[c].old = caller[c].old
  BY <1>1, ZenonT(60) DEF TypeOK, CallerState
<1>4. /\ caller[c].pc = "append"
      /\ UNCHANGED <<timestamp, mem, next_file_id, version, index, disk, task>>
  BY DEF CompactAppend, engineVars
<1> QED BY <1>1, <1>2, <1>3, <1>4

LEMMA FlushAppendEffect ==
  ASSUME TypeOK, NEW m \in MemId, FlushAppend(m)
  PROVE  \E f \in FileId :
           /\ f \in task[m].file /\ AppendCreate(f)
           /\ \A n \in MemId \ {m} : task'[n] = task[n]
           /\ task'[m].files = task[m].files \cup {f} /\ task'[m].file = {}
           /\ task'[m].recs = task[m].recs /\ task'[m].old = task[m].old
           /\ UNCHANGED <<timestamp, mem, next_file_id, version, index, disk,
                          caller>>
<1>1. PICK f \in task[m].file :
        /\ AppendCreate(f)
        /\ task' = [task EXCEPT
             ![m].pc = IF task[m].recs = {} THEN "pin" ELSE "write",
             ![m].files = @ \cup {f}, ![m].file = {}]
  BY DEF FlushAppend
<1>2. f \in FileId
  BY DEF TypeOK, TaskState
<1>3. /\ \A n \in MemId \ {m} : task'[n] = task[n]
      /\ task'[m].files = task[m].files \cup {f} /\ task'[m].file = {}
      /\ task'[m].recs = task[m].recs /\ task'[m].old = task[m].old
  BY <1>1 DEF TypeOK, TaskState
<1>4. UNCHANGED <<timestamp, mem, next_file_id, version, index, disk, caller>>
  BY DEF FlushAppend, engineVars
<1> QED BY <1>1, <1>2, <1>3, <1>4

\* A failed operation leaves nothing behind but perhaps its manifest record.
LEMMA CompactFailEffect ==
  ASSUME TypeOK, NEW c \in Callers, CompactFail(c)
  PROVE  /\ \A d \in Callers \ {c} : caller'[d] = caller[d]
         /\ caller'[c] = IdleCaller
         /\ \/ UNCHANGED manifest
            \/ \E f \in FileId : f \in caller[c].file /\ AppendCreate(f)
            \/ \E f \in caller[c].del :
                 caller[c].pc = "delete" /\ AppendDelete(f)
         /\ UNCHANGED <<timestamp, mem, next_file_id, version, index, disk,
                        task>>
<1>1. /\ \A d \in Callers \ {c} : caller'[d] = caller[d]
      /\ caller'[c] = IdleCaller
  BY DEF CompactFail, Finish, TypeOK
<1>2. UNCHANGED <<timestamp, mem, next_file_id, version, index, disk, task>>
  BY DEF CompactFail, engineVars
<1>3. caller[c].file \subseteq FileId /\ NextDeletes(c) \subseteq caller[c].del
  BY DEF TypeOK, CallerState, NextDeletes, LevelOf
<1>4. \/ UNCHANGED manifest
      \/ \E f \in caller[c].file : AppendCreate(f)
      \/ \E f \in NextDeletes(c) : caller[c].pc = "delete" /\ AppendDelete(f)
  BY DEF CompactFail
<1> QED BY <1>1, <1>2, <1>3, <1>4

LEMMA FlushFailEffect ==
  ASSUME TypeOK, NEW m \in MemId, FlushFail(m)
  PROVE  /\ \A n \in MemId \ {m} : task'[n] = task[n]
         /\ task'[m].recs = {} /\ task'[m].old = NoVersion
         /\ task'[m].files = {} /\ task'[m].file = {}
         /\ \/ UNCHANGED manifest
            \/ \E f \in FileId : f \in task[m].file /\ AppendCreate(f)
         /\ UNCHANGED <<timestamp, mem, next_file_id, version, index, disk,
                        caller>>
<1>1. /\ \A n \in MemId \ {m} : task'[n] = task[n]
      /\ task'[m].recs = {} /\ task'[m].old = NoVersion
      /\ task'[m].files = {} /\ task'[m].file = {}
  BY DEF FlushFail, NoTask, TypeOK
<1>2. UNCHANGED <<timestamp, mem, next_file_id, version, index, disk, caller>>
  BY DEF FlushFail, engineVars
<1>3. task[m].file \subseteq FileId
  BY DEF TypeOK, TaskState
<1> QED BY <1>1, <1>2, <1>3 DEF FlushFail

\* A DeleteFile record is for an input.
LEMMA CompactDeleteEffect ==
  ASSUME TypeOK, NEW c \in Callers, CompactDelete(c)
  PROVE  \E f \in caller[c].del :
           /\ AppendDelete(f)
           /\ \A d \in Callers \ {c} : caller'[d] = caller[d]
           /\ caller[c].pc = "delete" /\ caller'[c].pc \in {"delete", "pin"}
           /\ caller'[c].del = caller[c].del \ {f}
           /\ caller'[c].outs = caller[c].outs
           /\ caller'[c].file = caller[c].file
           /\ caller'[c].recs = caller[c].recs /\ caller'[c].sel = caller[c].sel
           /\ caller'[c].old = caller[c].old
           /\ UNCHANGED <<timestamp, mem, next_file_id, version, index, disk,
                          task>>
<1>1. PICK f \in NextDeletes(c) :
        /\ AppendDelete(f)
        /\ caller' = [caller EXCEPT
             ![c].pc = IF caller[c].del = {f} THEN "pin" ELSE "delete",
             ![c].del = @ \ {f}]
  BY DEF CompactDelete
<1>2. f \in caller[c].del
  BY DEF NextDeletes, LevelOf
<1>3. /\ \A d \in Callers \ {c} : caller'[d] = caller[d]
      /\ caller'[c].pc \in {"delete", "pin"}
      /\ caller'[c].del = caller[c].del \ {f}
      /\ caller'[c].outs = caller[c].outs
      /\ caller'[c].file = caller[c].file
      /\ caller'[c].recs = caller[c].recs /\ caller'[c].sel = caller[c].sel
      /\ caller'[c].old = caller[c].old
  BY <1>1 DEF TypeOK, CallerState
<1>4. /\ caller[c].pc = "delete"
      /\ UNCHANGED <<timestamp, mem, next_file_id, version, index, disk, task>>
  BY DEF CompactDelete, engineVars
<1> QED BY <1>1, <1>2, <1>3, <1>4

\* The other steps change only a few fields of one caller.
LEMMA WriteBeginEffect ==
  ASSUME TypeOK, NEW c \in Callers, WriteBegin(c)
  PROVE  \E r \in EdgeRecord :
           /\ r.ts = timestamp + 1 /\ timestamp' = timestamp + 1
           /\ \A d \in Callers \ {c} : caller'[d] = caller[d]
           /\ caller[c].pc = "idle" /\ caller'[c].pc = "insert"
           /\ caller'[c].recs = {r}
           /\ caller'[c].outs = caller[c].outs
           /\ caller'[c].file = caller[c].file
           /\ caller'[c].del = caller[c].del
           /\ caller'[c].sel = caller[c].sel /\ caller'[c].old = caller[c].old
           /\ UNCHANGED <<mem, next_file_id, version, index, disk, manifest,
                          task>>
<1>1. PICK key \in Keys, marker \in EdgeMarker :
        caller' = [caller EXCEPT
          ![c].pc = "insert", ![c].op = "write",
          ![c].recs = {[key |-> key, ts |-> timestamp + 1, marker |-> marker]}]
  BY DEF WriteBegin
<1> DEFINE r == [key |-> key, ts |-> timestamp + 1, marker |-> marker]
<1>2. /\ timestamp < MaxTs /\ timestamp' = timestamp + 1
      /\ caller[c].pc = "idle"
      /\ UNCHANGED <<mem, next_file_id, version, index, disk, manifest, task>>
  BY DEF WriteBegin, storeVars
<1>3. timestamp + 1 \in 1..MaxTs
  BY <1>2, MaxTsAssumption DEF TypeOK
<1>4. r \in EdgeRecord /\ r.ts = timestamp + 1
  BY <1>3 DEF EdgeRecord
<1>5. caller' = [caller EXCEPT ![c].pc = "insert", ![c].op = "write",
                               ![c].recs = {r}]
  BY <1>1
<1> HIDE DEF r
<1>6. /\ \A d \in Callers \ {c} : caller'[d] = caller[d]
      /\ caller'[c].pc = "insert"
      /\ caller'[c].recs = {r}
      /\ caller'[c].outs = caller[c].outs
      /\ caller'[c].file = caller[c].file
      /\ caller'[c].del = caller[c].del
      /\ caller'[c].sel = caller[c].sel /\ caller'[c].old = caller[c].old
  BY <1>5 DEF TypeOK, CallerState
<1> QED BY <1>2, <1>4, <1>6

LEMMA RotatePublishEffect ==
  ASSUME TypeOK, NEW c \in Callers, RotatePublish(c)
  PROVE  /\ \A d \in Callers \ {c} : caller'[d] = caller[d]
         /\ caller[c].pc = "rotate" /\ caller'[c].pc = "push"
         /\ caller'[c].recs = caller[c].recs
         /\ caller'[c].outs = caller[c].outs
         /\ caller'[c].file = caller[c].file
         /\ caller'[c].del = caller[c].del
         /\ caller'[c].sel = caller[c].sel /\ caller'[c].old = NoVersion
         /\ LevelFiles(version)' = LevelFiles(caller[c].old)
         /\ \A m \in MemId :
              \/ task'[m] = task[m]
              \/ /\ task'[m].recs = mem[m] /\ task'[m].old = NoVersion
                 /\ task'[m].files = {} /\ task'[m].file = {}
         /\ UNCHANGED <<timestamp, mem, next_file_id, index, disk, manifest>>
<1>1. /\ \A d \in Callers \ {c} : caller'[d] = caller[d]
      /\ caller[c].pc = "rotate" /\ caller'[c].pc = "push"
      /\ caller'[c].recs = caller[c].recs
      /\ caller'[c].outs = caller[c].outs
      /\ caller'[c].file = caller[c].file
      /\ caller'[c].del = caller[c].del
      /\ caller'[c].sel = caller[c].sel /\ caller'[c].old = NoVersion
  BY DEF RotatePublish, TypeOK, CallerState
<1>2. LevelFiles(version)' = LevelFiles(caller[c].old)
  BY DEF RotatePublish, TypeOK, CallerState, Version, LevelFiles
<1>3. \A m \in MemId :
        \/ task'[m] = task[m]
        \/ /\ task'[m].recs = mem[m] /\ task'[m].old = NoVersion
           /\ task'[m].files = {} /\ task'[m].file = {}
  BY DEF RotatePublish, TypeOK, NoTask
<1>4. UNCHANGED <<timestamp, mem, next_file_id, index, disk, manifest>>
  BY DEF RotatePublish, engineVars, storeVars
<1> QED BY <1>1, <1>2, <1>3, <1>4

LEMMA CompactMergeEffect ==
  ASSUME TypeOK, NEW c \in Callers, CompactMerge(c)
  PROVE  /\ \A d \in Callers \ {c} : caller'[d] = caller[d]
         /\ caller[c].pc = "merge" /\ caller'[c].pc = "write"
         /\ \A r \in caller'[c].recs :
              \E f \in caller[c].sel : r \in disk[f].edges
         /\ caller'[c].outs = caller[c].outs
         /\ caller'[c].file = caller[c].file
         /\ caller'[c].del = caller[c].del
         /\ caller'[c].sel = caller[c].sel /\ caller'[c].old = caller[c].old
         /\ UNCHANGED <<timestamp, mem, next_file_id, version, index, disk,
                        manifest, task>>
<1> DEFINE merged == merge_latest_records(EdgesOf(caller[c].sel), timestamp,
    TRUE)
<1>1. /\ caller' = [caller EXCEPT ![c].pc = "write", ![c].recs = merged]
      /\ caller[c].pc = "merge"
      /\ UNCHANGED <<timestamp, mem, next_file_id, version, index, disk,
                     manifest, task>>
  BY DEF CompactMerge, engineVars, storeVars
<1>2. \A r \in merged : \E f \in caller[c].sel : r \in disk[f].edges
  BY DEF merge_latest_records, EdgesOf
<1> HIDE DEF merged
<1>3. /\ \A d \in Callers \ {c} : caller'[d] = caller[d]
      /\ caller'[c].pc = "write"
      /\ caller'[c].recs = merged
      /\ caller'[c].outs = caller[c].outs
      /\ caller'[c].file = caller[c].file
      /\ caller'[c].del = caller[c].del
      /\ caller'[c].sel = caller[c].sel /\ caller'[c].old = caller[c].old
  BY <1>1 DEF TypeOK, CallerState
<1> QED BY <1>1, <1>2, <1>3

LEMMA CompactPinEffect ==
  ASSUME TypeOK, NEW c \in Callers, CompactPin(c)
  PROVE  /\ \A d \in Callers \ {c} : caller'[d] = caller[d]
         /\ caller[c].pc = "pin" /\ caller'[c].pc = "publish"
         /\ caller'[c].recs = caller[c].recs
         /\ caller'[c].outs = caller[c].outs
         /\ caller'[c].file = caller[c].file
         /\ caller'[c].del = caller[c].del
         /\ caller'[c].sel = caller[c].sel /\ caller'[c].old = version
         /\ UNCHANGED <<timestamp, mem, next_file_id, version, index, disk,
                        manifest, task>>
BY DEF CompactPin, TypeOK, CallerState, engineVars, storeVars

LEMMA CompactPublishEffect ==
  ASSUME TypeOK, NEW c \in Callers, CompactPublish(c)
  PROVE  /\ \A d \in Callers \ {c} : caller'[d] = caller[d]
         /\ caller[c].pc = "publish"
         /\ caller'[c].pc = "index" /\ caller'[c].recs = {}
         /\ caller'[c].outs = {} /\ caller'[c].file = {}
         /\ caller'[c].del = {} /\ caller'[c].sel = {}
         /\ caller'[c].old = NoVersion
         /\ LevelFiles(version)'
              \subseteq LevelFiles(caller[c].old) \cup caller[c].outs
         /\ UNCHANGED <<timestamp, mem, next_file_id, index, disk, manifest,
                        task>>
<1>1. /\ \A d \in Callers \ {c} : caller'[d] = caller[d]
      /\ caller[c].pc = "publish"
      /\ caller'[c].pc = "index" /\ caller'[c].recs = {}
      /\ caller'[c].outs = {} /\ caller'[c].file = {}
      /\ caller'[c].del = {} /\ caller'[c].sel = {}
      /\ caller'[c].old = NoVersion
      /\ UNCHANGED <<timestamp, mem, next_file_id, index, disk, manifest, task>>
  BY DEF CompactPublish, TypeOK, IdleCaller, engineVars, storeVars
<1>2. LevelFiles(version)'
        \subseteq LevelFiles(caller[c].old) \cup caller[c].outs
  BY DEF CompactPublish, TypeOK, CallerState, Version, LevelFiles
<1> QED BY <1>1, <1>2

LEMMA FlushPinEffect ==
  ASSUME TypeOK, NEW m \in MemId, FlushPin(m) \/ FlushIndexPin(m)
  PROVE  /\ \A n \in MemId \ {m} : task'[n] = task[n]
         /\ task'[m].recs = task[m].recs /\ task'[m].old = version
         /\ task'[m].files = task[m].files /\ task'[m].file = task[m].file
         /\ UNCHANGED <<timestamp, mem, next_file_id, version, index, disk,
                        manifest, caller>>
BY DEF FlushPin, FlushIndexPin, TypeOK, TaskState, engineVars, storeVars

LEMMA FlushPublishEffect ==
  ASSUME TypeOK, NEW m \in MemId, FlushPublish(m)
  PROVE  /\ \A n \in MemId \ {m} : task'[n] = task[n]
         /\ task'[m].recs = task[m].recs /\ task'[m].old = NoVersion
         /\ task'[m].files = task[m].files /\ task'[m].file = task[m].file
         /\ LevelFiles(version)'
              \subseteq LevelFiles(task[m].old) \cup task[m].files
         /\ UNCHANGED <<timestamp, mem, next_file_id, index, disk, manifest,
                        caller>>
<1>1. /\ \A n \in MemId \ {m} : task'[n] = task[n]
      /\ task'[m].recs = task[m].recs /\ task'[m].old = NoVersion
      /\ task'[m].files = task[m].files /\ task'[m].file = task[m].file
      /\ UNCHANGED <<timestamp, mem, next_file_id, index, disk, manifest,
                     caller>>
  BY DEF FlushPublish, TypeOK, TaskState, engineVars, storeVars
<1>2. LevelFiles(version)'
        \subseteq LevelFiles(task[m].old) \cup task[m].files
  BY DEF FlushPublish, TypeOK, TaskState, Version, LevelFiles
<1> QED BY <1>1, <1>2

LEMMA FlushIndexStoreEffect ==
  ASSUME TypeOK, NEW m \in MemId, FlushIndexStore(m)
  PROVE  /\ \A n \in MemId \ {m} : task'[n] = task[n]
         /\ task'[m].recs = {} /\ task'[m].old = NoVersion
         /\ task'[m].files = {} /\ task'[m].file = {}
         /\ index' \subseteq LevelFiles(task[m].old)
         /\ UNCHANGED <<timestamp, mem, next_file_id, version, disk, manifest,
                        caller>>
BY DEF FlushIndexStore, StoreIndex, LevelFiles, NoTask, TypeOK, engineVars,
   storeVars

LEMMA ReopenEffect ==
  ASSUME TypeOK, Reopen
  PROVE  /\ timestamp' = manifest.max_ts
         /\ next_file_id' = manifest.max_file_id + 1
         /\ mem' = [m \in MemId |-> {}]
         /\ caller' = [c \in Callers |-> IdleCaller]
         /\ task' = [m \in MemId |-> NoTask]
         /\ LevelFiles(version)' \subseteq manifest.live
         /\ index' \subseteq manifest.live
         /\ UNCHANGED <<disk, manifest>>
BY DEF Reopen, OpenInner, OpenIndex, LevelOf, LevelFiles, storeVars

\* The actions that are not quiet.
LEMMA StepCases ==
  ASSUME TypeOK, [Next]_vars
  PROVE  \/ UNCHANGED vars
         \/ Reopen
         \/ \E c \in Callers :
              \/ QuietStep(c) \/ WriteBegin(c) \/ RotatePublish(c)
              \/ CompactMerge(c) \/ CompactWrite(c) \/ CompactAppend(c)
              \/ CompactDelete(c) \/ CompactPin(c) \/ CompactPublish(c)
              \/ CompactFail(c)
         \/ \E m \in MemId : TaskStep(m)
<1>1. ASSUME NEW c \in Callers, CallerBegin(c)
      PROVE  QuietStep(c) \/ WriteBegin(c)
  BY <1>1, QuietWaits, QuietCompactions, QuietReads DEF CallerBegin
<1>2. ASSUME NEW c \in Callers, CallerStep(c)
      PROVE  \/ QuietStep(c) \/ RotatePublish(c)
             \/ CompactMerge(c) \/ CompactWrite(c) \/ CompactAppend(c)
             \/ CompactDelete(c) \/ CompactPin(c) \/ CompactPublish(c)
             \/ CompactFail(c)
  BY <1>2, QuietWaits, QuietWrites, QuietCompactions, QuietReads
     DEF CallerStep
<1> QED BY <1>1, <1>2 DEF Next

-----------------------------------------------------------------------------
(* What is persisted: the inductive invariant.                             *)

\* File ids in the manifest are older than the next one to be handed out.
FileIds ==
  /\ manifest.live \subseteq manifest.created
  /\ \A f \in manifest.created : f <= manifest.max_file_id
  /\ manifest.max_file_id < next_file_id

\* A segment that has been written and is not yet in the manifest.
PendingIds ==
  /\ \A c \in Callers : \A f \in caller[c].file : f < next_file_id
  /\ \A m \in MemId : \A f \in task[m].file : f < next_file_id

\* Whoever names a segment to read it names one of the manifest.
NamedFiles ==
  /\ LevelFiles(version) \subseteq manifest.created
  /\ index \subseteq manifest.created
  /\ \A c \in Callers :
       /\ LevelFiles(caller[c].old) \subseteq manifest.created
       /\ caller[c].sel \subseteq manifest.created
       /\ caller[c].outs \subseteq manifest.created
       /\ caller[c].del \subseteq caller[c].sel
  /\ \A m \in MemId :
       /\ LevelFiles(task[m].old) \subseteq manifest.created
       /\ task[m].files \subseteq manifest.created

Owned(c) == caller[c].outs \cup caller[c].file

\* Until a compaction publishes, nobody else knows its outputs: no version,
\* pinned or current, no selection of another compaction, no flush task.
Exclusive ==
  \A c \in Callers : \A f \in Owned(c) :
    /\ f \notin LevelFiles(version)
    /\ \A d \in Callers :
         /\ f \notin LevelFiles(caller[d].old)
         /\ f \notin caller[d].sel
         /\ d # c => f \notin Owned(d)
    /\ \A m \in MemId :
         /\ f \notin LevelFiles(task[m].old)
         /\ f \notin task[m].files
         /\ f \notin task[m].file

\* Where a record can be.
Held(r) ==
  \/ \E f \in manifest.created : r \in disk[f].edges
  \/ \E m \in MemId : r \in mem[m]
  \/ \E c \in Callers : r \in caller[c].recs
  \/ \E m \in MemId : r \in task[m].recs
  \/ \E c \in Callers : \E f \in caller[c].file : r \in disk[f].edges
  \/ \E m \in MemId : \E f \in task[m].file : r \in disk[f].edges

\* A timestamp names one record, and none is ahead of the counter; what is
\* persisted is not ahead of the manifest either, from which the counter is
\* restored.
Timestamps ==
  /\ \A r \in EdgeRecord : Held(r) => r.ts <= timestamp
  /\ \A r, s \in EdgeRecord : Held(r) /\ Held(s) /\ r.ts = s.ts => r = s
  /\ \A f \in manifest.created :
       \A r \in disk[f].edges : r.ts <= manifest.max_ts

\* What the local state of a compaction holds in each of its phases.
Phases ==
  \A c \in Callers :
    /\ caller[c].pc \notin Compacting =>
         caller[c].outs = {} /\ caller[c].file = {} /\ caller[c].del = {}
    /\ caller[c].pc \in Compacting \ {"append"} => caller[c].file = {}
    /\ caller[c].pc = "append" => \E f \in FileId : caller[c].file = {f}
    /\ caller[c].pc = "delete" => caller[c].recs = {}

\* Some record of U is a version of the edge of r, at least as new as r.
CoveredBy(r, U) == \E q \in U : q.key = r.key /\ q.ts >= r.ts

\* Every persisted record is covered by a live one.
LiveCovers ==
  \A f \in manifest.created : \A r \in disk[f].edges : CoveredBy(r, LiveEdges)

\* A compaction that may come to delete its inputs has them covered by what
\* it has merged and not yet written, by its pending segment and by its
\* outputs, which stay live.
InputsCovered(c) ==
  /\ caller[c].outs \subseteq manifest.live
  /\ \A f \in caller[c].sel : \A r \in disk[f].edges :
       CoveredBy(r, caller[c].recs \cup EdgesOf(Owned(c)))

Coverage ==
  /\ LiveCovers
  /\ \A c \in Callers :
       caller[c].pc \in {"write", "append", "delete"} => InputsCovered(c)

RecoveryInv ==
  /\ TypeOK
  /\ FileIds
  /\ PendingIds
  /\ NamedFiles
  /\ Exclusive
  /\ Timestamps
  /\ Phases
  /\ Coverage

LEMMA InitRecovery == Init => RecoveryInv
<1> SUFFICES ASSUME Init PROVE RecoveryInv
  OBVIOUS
<1>1. TypeOK
  BY TypeInit
<1>2. FileIds /\ PendingIds /\ NamedFiles /\ Exclusive /\ Phases
  BY DEF Init, FileIds, PendingIds, NamedFiles, Exclusive, Phases, Owned,
         LevelFiles, IdleCaller, NoTask, NoVersion, Compacting
<1>3. Timestamps
  BY DEF Init, Timestamps, Held, IdleCaller, NoTask
<1>4. Coverage
  BY DEF Init, Coverage, LiveCovers, IdleCaller
<1> QED BY <1>1, <1>2, <1>3, <1>4 DEF RecoveryInv

-----------------------------------------------------------------------------
(* Every layer is preserved.                                               *)

LEMMA IdsAreIntegers ==
  ASSUME TypeOK
  PROVE  /\ next_file_id \in Int /\ timestamp \in Int
         /\ manifest.max_file_id \in Int /\ manifest.max_ts \in Int
         /\ manifest.live \subseteq FileId /\ manifest.created \subseteq FileId
         /\ \A f \in FileId : f \in Int
         /\ \A c \in Callers : caller[c].file \subseteq FileId
         /\ \A m \in MemId : task[m].file \subseteq FileId
<1>1. /\ next_file_id \in 1..(MaxFiles + 1) /\ timestamp \in 0..MaxTs
      /\ manifest \in ManifestState
  BY DEF TypeOK
<1>2. /\ manifest.max_file_id \in 0..MaxFiles /\ manifest.max_ts \in 0..MaxTs
      /\ manifest.live \subseteq FileId /\ manifest.created \subseteq FileId
  BY <1>1 DEF ManifestState
<1>3. /\ \A c \in Callers : caller[c].file \subseteq FileId
      /\ \A m \in MemId : task[m].file \subseteq FileId
  BY DEF TypeOK, CallerState, TaskState
<1> QED BY <1>1, <1>2, <1>3, BoundsAssumption, MaxTsAssumption DEF FileId

\* The next id names no segment that anybody knows.
LEMMA FreshId ==
  ASSUME TypeOK, FileIds, PendingIds
  PROVE  /\ next_file_id \notin manifest.created
         /\ next_file_id \notin manifest.live
         /\ \A c \in Callers : next_file_id \notin caller[c].file
         /\ \A m \in MemId : next_file_id \notin task[m].file
BY IdsAreIntegers DEF FileIds, PendingIds

LEMMA CreateKeepsIds ==
  ASSUME TypeOK, FileIds, NEW f \in FileId, f < next_file_id, AppendCreate(f),
         UNCHANGED next_file_id
  PROVE  FileIds'
<1>1. /\ manifest'.live \subseteq manifest'.created
      /\ manifest'.max_file_id < next_file_id'
  BY CreateEffect, IdsAreIntegers DEF FileIds
<1>2. ASSUME NEW g \in manifest'.created PROVE g <= manifest'.max_file_id
  <2>1. manifest'.max_file_id \in Int /\ f \in Int
    BY CreateEffect, IdsAreIntegers
  <2>2. CASE g = f
    BY <2>1, <2>2, CreateEffect
  <2>3. CASE g \in manifest.created
    <3>1. g \in Int /\ manifest.max_file_id \in Int /\ g <= manifest.max_file_id
      BY <2>3, IdsAreIntegers DEF FileIds
    <3> QED BY <2>1, <3>1, CreateEffect
  <2> QED BY <2>2, <2>3, CreateEffect
<1> QED BY <1>1, <1>2 DEF FileIds

LEMMA FileIdsStep ==
  ASSUME TypeOK, FileIds, PendingIds, [Next]_vars
  PROVE  FileIds'
<1>1. CASE UNCHANGED vars
  BY <1>1 DEF FileIds, vars, engineVars, storeVars
<1>2. CASE Reopen
  BY <1>2, ReopenEffect, IdsAreIntegers DEF FileIds
<1>3. ASSUME NEW c \in Callers, QuietStep(c) PROVE FileIds'
  BY <1>3, IdsAreIntegers DEF FileIds, QuietStep
<1>4. ASSUME NEW c \in Callers, WriteBegin(c) PROVE FileIds'
  BY <1>4, WriteBeginEffect, IdsAreIntegers DEF FileIds
<1>5. ASSUME NEW c \in Callers, RotatePublish(c) PROVE FileIds'
  BY <1>5, RotatePublishEffect, IdsAreIntegers DEF FileIds
<1>6. ASSUME NEW c \in Callers, CompactMerge(c) PROVE FileIds'
  BY <1>6, CompactMergeEffect, IdsAreIntegers DEF FileIds
<1>7. ASSUME NEW c \in Callers, CompactWrite(c) PROVE FileIds'
  BY <1>7, CompactWriteEffect, IdsAreIntegers DEF FileIds
<1>8. ASSUME NEW c \in Callers, CompactAppend(c) PROVE FileIds'
  BY <1>8, CompactAppendEffect, CreateKeepsIds DEF PendingIds
<1>9. ASSUME NEW c \in Callers, CompactDelete(c) PROVE FileIds'
  BY <1>9, CompactDeleteEffect, DeleteEffect, IdsAreIntegers DEF FileIds
<1>10. ASSUME NEW c \in Callers, CompactPin(c) PROVE FileIds'
  BY <1>10, CompactPinEffect, IdsAreIntegers DEF FileIds
<1>11. ASSUME NEW c \in Callers, CompactPublish(c) PROVE FileIds'
  BY <1>11, CompactPublishEffect, IdsAreIntegers DEF FileIds
<1>12. ASSUME NEW c \in Callers, CompactFail(c) PROVE FileIds'
  <2>1. CASE UNCHANGED manifest
    BY <1>12, <2>1, CompactFailEffect DEF FileIds
  <2>2. CASE \E f \in FileId : f \in caller[c].file /\ AppendCreate(f)
    BY <1>12, <2>2, CompactFailEffect, CreateKeepsIds DEF PendingIds
  <2>3. CASE \E f \in caller[c].del : AppendDelete(f)
    BY <1>12, <2>3, CompactFailEffect, DeleteEffect DEF FileIds
  <2> QED BY <1>12, <2>1, <2>2, <2>3, CompactFailEffect
<1>13. ASSUME NEW m \in MemId, FlushWrite(m) PROVE FileIds'
  BY <1>13, FlushWriteEffect, IdsAreIntegers DEF FileIds
<1>14. ASSUME NEW m \in MemId, FlushAppend(m) PROVE FileIds'
  BY <1>14, FlushAppendEffect, CreateKeepsIds DEF PendingIds
<1>15. ASSUME NEW m \in MemId, FlushPin(m) \/ FlushIndexPin(m) PROVE FileIds'
  BY <1>15, FlushPinEffect, IdsAreIntegers DEF FileIds
<1>16. ASSUME NEW m \in MemId, FlushPublish(m) PROVE FileIds'
  BY <1>16, FlushPublishEffect, IdsAreIntegers DEF FileIds
<1>17. ASSUME NEW m \in MemId, FlushIndexStore(m) PROVE FileIds'
  BY <1>17, FlushIndexStoreEffect, IdsAreIntegers DEF FileIds
<1>18. ASSUME NEW m \in MemId, FlushFail(m) PROVE FileIds'
  <2>1. CASE UNCHANGED manifest
    BY <1>18, <2>1, FlushFailEffect DEF FileIds
  <2>2. CASE \E f \in FileId : f \in task[m].file /\ AppendCreate(f)
    BY <1>18, <2>2, FlushFailEffect, CreateKeepsIds DEF PendingIds
  <2> QED BY <1>18, <2>1, <2>2, FlushFailEffect
<1> QED
  BY StepCases, <1>1, <1>2, <1>3, <1>4, <1>5, <1>6, <1>7, <1>8, <1>9,
     <1>10, <1>11, <1>12, <1>13, <1>14, <1>15, <1>16, <1>17, <1>18
     DEF TaskStep

LEMMA PendingIdsStep ==
  ASSUME TypeOK, PendingIds, [Next]_vars
  PROVE  PendingIds'
<1>1. CASE UNCHANGED vars
  BY <1>1 DEF PendingIds, IdleCaller, NoTask, vars, engineVars, storeVars
<1>2. CASE Reopen
  BY <1>2, ReopenEffect, IdsAreIntegers DEF PendingIds, IdleCaller, NoTask
<1>3. ASSUME NEW c \in Callers, QuietStep(c) PROVE PendingIds'
  BY <1>3, IdsAreIntegers DEF PendingIds, IdleCaller, NoTask, QuietStep
<1>4. ASSUME NEW c \in Callers, WriteBegin(c) PROVE PendingIds'
  BY <1>4, WriteBeginEffect, IdsAreIntegers DEF PendingIds, IdleCaller, NoTask
<1>5. ASSUME NEW c \in Callers, RotatePublish(c) PROVE PendingIds'
  BY <1>5, RotatePublishEffect, IdsAreIntegers
     DEF PendingIds, IdleCaller, NoTask
<1>6. ASSUME NEW c \in Callers, CompactMerge(c) PROVE PendingIds'
  BY <1>6, CompactMergeEffect, IdsAreIntegers DEF PendingIds, IdleCaller, NoTask
<1>7. ASSUME NEW c \in Callers, CompactWrite(c) PROVE PendingIds'
  BY <1>7, CompactWriteEffect, IdsAreIntegers DEF PendingIds, IdleCaller, NoTask
<1>8. ASSUME NEW c \in Callers, CompactAppend(c) PROVE PendingIds'
  BY <1>8, CompactAppendEffect, CreateEffect, IdsAreIntegers
     DEF PendingIds, IdleCaller, NoTask
<1>9. ASSUME NEW c \in Callers, CompactDelete(c) PROVE PendingIds'
  BY <1>9, CompactDeleteEffect, DeleteEffect, IdsAreIntegers
     DEF PendingIds, IdleCaller, NoTask
<1>10. ASSUME NEW c \in Callers, CompactPin(c) PROVE PendingIds'
  BY <1>10, CompactPinEffect, IdsAreIntegers DEF PendingIds, IdleCaller, NoTask
<1>11. ASSUME NEW c \in Callers, CompactPublish(c) PROVE PendingIds'
  BY <1>11, CompactPublishEffect, IdsAreIntegers
     DEF PendingIds, IdleCaller, NoTask
<1>12. ASSUME NEW c \in Callers, CompactFail(c) PROVE PendingIds'
  BY <1>12, CompactFailEffect, CreateEffect, DeleteEffect, IdsAreIntegers
     DEF PendingIds, IdleCaller, NoTask
<1>13. ASSUME NEW m \in MemId, FlushWrite(m) PROVE PendingIds'
  BY <1>13, FlushWriteEffect, IdsAreIntegers DEF PendingIds, IdleCaller, NoTask
<1>14. ASSUME NEW m \in MemId, FlushAppend(m) PROVE PendingIds'
  BY <1>14, FlushAppendEffect, CreateEffect, IdsAreIntegers
     DEF PendingIds, IdleCaller, NoTask
<1>15. ASSUME NEW m \in MemId, FlushPin(m) \/ FlushIndexPin(m) PROVE PendingIds'
  BY <1>15, FlushPinEffect, IdsAreIntegers DEF PendingIds, IdleCaller, NoTask
<1>16. ASSUME NEW m \in MemId, FlushPublish(m) PROVE PendingIds'
  BY <1>16, FlushPublishEffect, IdsAreIntegers
     DEF PendingIds, IdleCaller, NoTask
<1>17. ASSUME NEW m \in MemId, FlushIndexStore(m) PROVE PendingIds'
  BY <1>17, FlushIndexStoreEffect, IdsAreIntegers
     DEF PendingIds, IdleCaller, NoTask
<1>18. ASSUME NEW m \in MemId, FlushFail(m) PROVE PendingIds'
  BY <1>18, FlushFailEffect, CreateEffect, IdsAreIntegers
     DEF PendingIds, IdleCaller, NoTask
<1> QED
  BY StepCases, <1>1, <1>2, <1>3, <1>4, <1>5, <1>6, <1>7, <1>8, <1>9,
     <1>10, <1>11, <1>12, <1>13, <1>14, <1>15, <1>16, <1>17, <1>18
     DEF TaskStep

LEMMA NamedFilesStep ==
  ASSUME TypeOK, FileIds, Phases, NamedFiles, [Next]_vars
  PROVE  NamedFiles'
<1>1. CASE UNCHANGED vars
  BY <1>1
     DEF NamedFiles, FileIds, Phases, LevelFiles, IdleCaller, NoTask,
         NoVersion, vars, engineVars, storeVars
<1>2. CASE Reopen
  BY <1>2, ReopenEffect
     DEF NamedFiles, FileIds, Phases, LevelFiles, IdleCaller, NoTask, NoVersion
<1>3. ASSUME NEW c \in Callers, QuietStep(c) PROVE NamedFiles'
  BY <1>3
     DEF NamedFiles, FileIds, Phases, LevelFiles, IdleCaller, NoTask,
         NoVersion, QuietStep
<1>4. ASSUME NEW c \in Callers, WriteBegin(c) PROVE NamedFiles'
  BY <1>4, WriteBeginEffect
     DEF NamedFiles, FileIds, Phases, LevelFiles, IdleCaller, NoTask, NoVersion
<1>5. ASSUME NEW c \in Callers, RotatePublish(c) PROVE NamedFiles'
  BY <1>5, RotatePublishEffect
     DEF NamedFiles, FileIds, Phases, LevelFiles, IdleCaller, NoTask, NoVersion
<1>6. ASSUME NEW c \in Callers, CompactMerge(c) PROVE NamedFiles'
  BY <1>6, CompactMergeEffect
     DEF NamedFiles, FileIds, Phases, LevelFiles, IdleCaller, NoTask, NoVersion
<1>7. ASSUME NEW c \in Callers, CompactWrite(c) PROVE NamedFiles'
  BY <1>7, CompactWriteEffect
     DEF NamedFiles, FileIds, Phases, LevelFiles, IdleCaller, NoTask, NoVersion
<1>8. ASSUME NEW c \in Callers, CompactAppend(c) PROVE NamedFiles'
  BY <1>8, CompactAppendEffect, CreateEffect
     DEF NamedFiles, FileIds, Phases, LevelFiles, IdleCaller, NoTask, NoVersion
<1>9. ASSUME NEW c \in Callers, CompactDelete(c) PROVE NamedFiles'
  BY <1>9, CompactDeleteEffect, DeleteEffect
     DEF NamedFiles, FileIds, Phases, LevelFiles, IdleCaller, NoTask, NoVersion
<1>10. ASSUME NEW c \in Callers, CompactPin(c) PROVE NamedFiles'
  BY <1>10, CompactPinEffect
     DEF NamedFiles, FileIds, Phases, LevelFiles, IdleCaller, NoTask, NoVersion
<1>11. ASSUME NEW c \in Callers, CompactPublish(c) PROVE NamedFiles'
  BY <1>11, CompactPublishEffect
     DEF NamedFiles, FileIds, Phases, LevelFiles, IdleCaller, NoTask, NoVersion
<1>12. ASSUME NEW c \in Callers, CompactFail(c) PROVE NamedFiles'
  BY <1>12, CompactFailEffect, CreateEffect, DeleteEffect
     DEF NamedFiles, FileIds, Phases, LevelFiles, IdleCaller, NoTask, NoVersion
<1>13. ASSUME NEW m \in MemId, FlushWrite(m) PROVE NamedFiles'
  BY <1>13, FlushWriteEffect
     DEF NamedFiles, FileIds, Phases, LevelFiles, IdleCaller, NoTask, NoVersion
<1>14. ASSUME NEW m \in MemId, FlushAppend(m) PROVE NamedFiles'
  BY <1>14, FlushAppendEffect, CreateEffect
     DEF NamedFiles, FileIds, Phases, LevelFiles, IdleCaller, NoTask, NoVersion
<1>15. ASSUME NEW m \in MemId, FlushPin(m) \/ FlushIndexPin(m) PROVE NamedFiles'
  BY <1>15, FlushPinEffect
     DEF NamedFiles, FileIds, Phases, LevelFiles, IdleCaller, NoTask, NoVersion
<1>16. ASSUME NEW m \in MemId, FlushPublish(m) PROVE NamedFiles'
  BY <1>16, FlushPublishEffect
     DEF NamedFiles, FileIds, Phases, LevelFiles, IdleCaller, NoTask, NoVersion
<1>17. ASSUME NEW m \in MemId, FlushIndexStore(m) PROVE NamedFiles'
  BY <1>17, FlushIndexStoreEffect
     DEF NamedFiles, FileIds, Phases, LevelFiles, IdleCaller, NoTask, NoVersion
<1>18. ASSUME NEW m \in MemId, FlushFail(m) PROVE NamedFiles'
  BY <1>18, FlushFailEffect, CreateEffect
     DEF NamedFiles, FileIds, Phases, LevelFiles, IdleCaller, NoTask, NoVersion
<1> QED
  BY StepCases, <1>1, <1>2, <1>3, <1>4, <1>5, <1>6, <1>7, <1>8, <1>9,
     <1>10, <1>11, <1>12, <1>13, <1>14, <1>15, <1>16, <1>17, <1>18
     DEF TaskStep

LEMMA PhasesStep ==
  ASSUME TypeOK, Phases, [Next]_vars
  PROVE  Phases'
<1>1. CASE UNCHANGED vars
  BY <1>1 DEF Phases, Compacting, IdleCaller, vars, engineVars, storeVars
<1>2. CASE Reopen
  BY <1>2, ReopenEffect DEF Phases, Compacting, IdleCaller
<1>3. ASSUME NEW c \in Callers, QuietStep(c) PROVE Phases'
  BY <1>3 DEF Phases, Compacting, IdleCaller, QuietStep
<1>4. ASSUME NEW c \in Callers, WriteBegin(c) PROVE Phases'
  BY <1>4, WriteBeginEffect DEF Phases, Compacting, IdleCaller
<1>5. ASSUME NEW c \in Callers, RotatePublish(c) PROVE Phases'
  BY <1>5, RotatePublishEffect DEF Phases, Compacting, IdleCaller
<1>6. ASSUME NEW c \in Callers, CompactMerge(c) PROVE Phases'
  BY <1>6, CompactMergeEffect DEF Phases, Compacting, IdleCaller
<1>7. ASSUME NEW c \in Callers, CompactWrite(c) PROVE Phases'
  BY <1>7, CompactWriteEffect DEF Phases, Compacting, IdleCaller
<1>8. ASSUME NEW c \in Callers, CompactAppend(c) PROVE Phases'
  BY <1>8, CompactAppendEffect, CreateEffect DEF Phases, Compacting, IdleCaller
<1>9. ASSUME NEW c \in Callers, CompactDelete(c) PROVE Phases'
  BY <1>9, CompactDeleteEffect, DeleteEffect DEF Phases, Compacting, IdleCaller
<1>10. ASSUME NEW c \in Callers, CompactPin(c) PROVE Phases'
  BY <1>10, CompactPinEffect DEF Phases, Compacting, IdleCaller
<1>11. ASSUME NEW c \in Callers, CompactPublish(c) PROVE Phases'
  BY <1>11, CompactPublishEffect DEF Phases, Compacting, IdleCaller
<1>12. ASSUME NEW c \in Callers, CompactFail(c) PROVE Phases'
  BY <1>12, CompactFailEffect, CreateEffect, DeleteEffect
     DEF Phases, Compacting, IdleCaller
<1>13. ASSUME NEW m \in MemId, FlushWrite(m) PROVE Phases'
  BY <1>13, FlushWriteEffect DEF Phases, Compacting, IdleCaller
<1>14. ASSUME NEW m \in MemId, FlushAppend(m) PROVE Phases'
  BY <1>14, FlushAppendEffect, CreateEffect DEF Phases, Compacting, IdleCaller
<1>15. ASSUME NEW m \in MemId, FlushPin(m) \/ FlushIndexPin(m) PROVE Phases'
  BY <1>15, FlushPinEffect DEF Phases, Compacting, IdleCaller
<1>16. ASSUME NEW m \in MemId, FlushPublish(m) PROVE Phases'
  BY <1>16, FlushPublishEffect DEF Phases, Compacting, IdleCaller
<1>17. ASSUME NEW m \in MemId, FlushIndexStore(m) PROVE Phases'
  BY <1>17, FlushIndexStoreEffect DEF Phases, Compacting, IdleCaller
<1>18. ASSUME NEW m \in MemId, FlushFail(m) PROVE Phases'
  BY <1>18, FlushFailEffect, CreateEffect DEF Phases, Compacting, IdleCaller
<1> QED
  BY StepCases, <1>1, <1>2, <1>3, <1>4, <1>5, <1>6, <1>7, <1>8, <1>9,
     <1>10, <1>11, <1>12, <1>13, <1>14, <1>15, <1>16, <1>17, <1>18
     DEF TaskStep

LEMMA ExclusiveStep ==
  ASSUME TypeOK, FileIds, PendingIds, NamedFiles, Exclusive, Phases, [Next]_vars
  PROVE  Exclusive'
<1>1. CASE UNCHANGED vars
  BY <1>1
     DEF Exclusive, Owned, LevelFiles, IdleCaller, NoTask, NoVersion, vars,
         engineVars, storeVars
<1>2. CASE Reopen
  BY <1>2, ReopenEffect
     DEF Exclusive, Owned, LevelFiles, IdleCaller, NoTask, NoVersion
<1>3. ASSUME NEW c \in Callers, QuietStep(c) PROVE Exclusive'
  BY <1>3
     DEF Exclusive, Owned, LevelFiles, IdleCaller, NoTask, NoVersion, QuietStep
<1>4. ASSUME NEW c \in Callers, WriteBegin(c) PROVE Exclusive'
  BY <1>4, WriteBeginEffect
     DEF Exclusive, Owned, LevelFiles, IdleCaller, NoTask, NoVersion
<1>5. ASSUME NEW c \in Callers, RotatePublish(c) PROVE Exclusive'
  BY <1>5, RotatePublishEffect
     DEF Exclusive, Owned, LevelFiles, IdleCaller, NoTask, NoVersion
<1>6. ASSUME NEW c \in Callers, CompactMerge(c) PROVE Exclusive'
  BY <1>6, CompactMergeEffect
     DEF Exclusive, Owned, LevelFiles, IdleCaller, NoTask, NoVersion
<1>7. ASSUME NEW c \in Callers, CompactWrite(c) PROVE Exclusive'
  BY <1>7, CompactWriteEffect, FreshId DEF Exclusive, Owned, NamedFiles
<1>8. ASSUME NEW c \in Callers, CompactAppend(c) PROVE Exclusive'
  BY <1>8, CompactAppendEffect, CreateEffect
     DEF Exclusive, Owned, LevelFiles, IdleCaller, NoTask, NoVersion
<1>9. ASSUME NEW c \in Callers, CompactDelete(c) PROVE Exclusive'
  BY <1>9, CompactDeleteEffect, DeleteEffect
     DEF Exclusive, Owned, LevelFiles, IdleCaller, NoTask, NoVersion
<1>10. ASSUME NEW c \in Callers, CompactPin(c) PROVE Exclusive'
  BY <1>10, CompactPinEffect
     DEF Exclusive, Owned, LevelFiles, IdleCaller, NoTask, NoVersion
<1>11. ASSUME NEW c \in Callers, CompactPublish(c) PROVE Exclusive'
  BY <1>11, CompactPublishEffect
     DEF Exclusive, Owned, LevelFiles, IdleCaller, NoTask, NoVersion
<1>12. ASSUME NEW c \in Callers, CompactFail(c) PROVE Exclusive'
  BY <1>12, CompactFailEffect, CreateEffect, DeleteEffect
     DEF Exclusive, Owned, LevelFiles, IdleCaller, NoTask, NoVersion
<1>13. ASSUME NEW m \in MemId, FlushWrite(m) PROVE Exclusive'
  BY <1>13, FlushWriteEffect, FreshId DEF Exclusive, Owned, NamedFiles
<1>14. ASSUME NEW m \in MemId, FlushAppend(m) PROVE Exclusive'
  BY <1>14, FlushAppendEffect, CreateEffect
     DEF Exclusive, Owned, LevelFiles, IdleCaller, NoTask, NoVersion
<1>15. ASSUME NEW m \in MemId, FlushPin(m) \/ FlushIndexPin(m) PROVE Exclusive'
  BY <1>15, FlushPinEffect
     DEF Exclusive, Owned, LevelFiles, IdleCaller, NoTask, NoVersion
<1>16. ASSUME NEW m \in MemId, FlushPublish(m) PROVE Exclusive'
  BY <1>16, FlushPublishEffect
     DEF Exclusive, Owned, LevelFiles, IdleCaller, NoTask, NoVersion
<1>17. ASSUME NEW m \in MemId, FlushIndexStore(m) PROVE Exclusive'
  BY <1>17, FlushIndexStoreEffect
     DEF Exclusive, Owned, LevelFiles, IdleCaller, NoTask, NoVersion
<1>18. ASSUME NEW m \in MemId, FlushFail(m) PROVE Exclusive'
  BY <1>18, FlushFailEffect, CreateEffect
     DEF Exclusive, Owned, LevelFiles, IdleCaller, NoTask, NoVersion
<1> QED
  BY StepCases, <1>1, <1>2, <1>3, <1>4, <1>5, <1>6, <1>7, <1>8, <1>9,
     <1>10, <1>11, <1>12, <1>13, <1>14, <1>15, <1>16, <1>17, <1>18
     DEF TaskStep

\* No step but WriteBegin brings in a record.
LEMMA HeldStep ==
  ASSUME TypeOK, FileIds, PendingIds, NamedFiles, NEW r \in EdgeRecord,
         Held(r)',
         \A c \in Callers : ~WriteBegin(c), [Next]_vars
  PROVE  Held(r)
<1>1. CASE UNCHANGED vars
  BY <1>1
     DEF Held, NamedFiles, LevelFiles, IdleCaller, NoTask, NoVersion, vars,
         engineVars, storeVars
<1>2. CASE Reopen
  BY <1>2, ReopenEffect
     DEF Held, NamedFiles, LevelFiles, IdleCaller, NoTask, NoVersion
<1>3. ASSUME NEW c \in Callers, QuietStep(c) PROVE Held(r)
  BY <1>3
     DEF Held, NamedFiles, LevelFiles, IdleCaller, NoTask, NoVersion, QuietStep
<1>4. ASSUME NEW c \in Callers, WriteBegin(c) PROVE Held(r)
  BY <1>4
<1>5. ASSUME NEW c \in Callers, RotatePublish(c) PROVE Held(r)
  BY <1>5, RotatePublishEffect
     DEF Held, NamedFiles, LevelFiles, IdleCaller, NoTask, NoVersion
<1>6. ASSUME NEW c \in Callers, CompactMerge(c) PROVE Held(r)
  BY <1>6, CompactMergeEffect
     DEF Held, NamedFiles, LevelFiles, IdleCaller, NoTask, NoVersion
<1>7. ASSUME NEW c \in Callers, CompactWrite(c) PROVE Held(r)
  BY <1>7, CompactWriteEffect, FreshId, IdsAreIntegers DEF Held
<1>8. ASSUME NEW c \in Callers, CompactAppend(c) PROVE Held(r)
  BY <1>8, CompactAppendEffect, CreateEffect
     DEF Held, NamedFiles, LevelFiles, IdleCaller, NoTask, NoVersion
<1>9. ASSUME NEW c \in Callers, CompactDelete(c) PROVE Held(r)
  BY <1>9, CompactDeleteEffect, DeleteEffect
     DEF Held, NamedFiles, LevelFiles, IdleCaller, NoTask, NoVersion
<1>10. ASSUME NEW c \in Callers, CompactPin(c) PROVE Held(r)
  BY <1>10, CompactPinEffect
     DEF Held, NamedFiles, LevelFiles, IdleCaller, NoTask, NoVersion
<1>11. ASSUME NEW c \in Callers, CompactPublish(c) PROVE Held(r)
  BY <1>11, CompactPublishEffect
     DEF Held, NamedFiles, LevelFiles, IdleCaller, NoTask, NoVersion
<1>12. ASSUME NEW c \in Callers, CompactFail(c) PROVE Held(r)
  BY <1>12, CompactFailEffect, CreateEffect, DeleteEffect
     DEF Held, NamedFiles, LevelFiles, IdleCaller, NoTask, NoVersion
<1>13. ASSUME NEW m \in MemId, FlushWrite(m) PROVE Held(r)
  BY <1>13, FlushWriteEffect, FreshId, IdsAreIntegers DEF Held
<1>14. ASSUME NEW m \in MemId, FlushAppend(m) PROVE Held(r)
  BY <1>14, FlushAppendEffect, CreateEffect
     DEF Held, NamedFiles, LevelFiles, IdleCaller, NoTask, NoVersion
<1>15. ASSUME NEW m \in MemId, FlushPin(m) \/ FlushIndexPin(m) PROVE Held(r)
  BY <1>15, FlushPinEffect
     DEF Held, NamedFiles, LevelFiles, IdleCaller, NoTask, NoVersion
<1>16. ASSUME NEW m \in MemId, FlushPublish(m) PROVE Held(r)
  BY <1>16, FlushPublishEffect
     DEF Held, NamedFiles, LevelFiles, IdleCaller, NoTask, NoVersion
<1>17. ASSUME NEW m \in MemId, FlushIndexStore(m) PROVE Held(r)
  BY <1>17, FlushIndexStoreEffect
     DEF Held, NamedFiles, LevelFiles, IdleCaller, NoTask, NoVersion
<1>18. ASSUME NEW m \in MemId, FlushFail(m) PROVE Held(r)
  BY <1>18, FlushFailEffect, CreateEffect
     DEF Held, NamedFiles, LevelFiles, IdleCaller, NoTask, NoVersion
<1> QED
  BY StepCases, <1>1, <1>2, <1>3, <1>4, <1>5, <1>6, <1>7, <1>8, <1>9,
     <1>10, <1>11, <1>12, <1>13, <1>14, <1>15, <1>16, <1>17, <1>18
     DEF TaskStep

\* The new record of WriteBegin is ahead of all others.
LEMMA WriteBeginHeld ==
  ASSUME TypeOK, NEW c \in Callers, WriteBegin(c),
         NEW r \in EdgeRecord, Held(r)'
  PROVE  \/ Held(r)
         \/ r.ts = timestamp + 1 /\ caller'[c].recs = {r}
BY WriteBeginEffect DEF Held

\* What the manifest has seen bounds what is persisted.
DurableBelow ==
  \A f \in manifest.created : \A r \in disk[f].edges : r.ts <= manifest.max_ts

LEMMA CreateKeepsBelow ==
  ASSUME TypeOK, DurableBelow, NEW f \in FileId, AppendCreate(f),
         UNCHANGED disk
  PROVE  DurableBelow'
<1> SUFFICES ASSUME NEW g \in manifest'.created, NEW r \in disk[g].edges
             PROVE  r.ts <= manifest'.max_ts
  BY DEF DurableBelow
<1>1. CASE g = f
  BY <1>1, CreateEffect
<1>2. CASE g \in manifest.created
  <2>1. r.ts <= manifest.max_ts /\ manifest'.max_ts >= manifest.max_ts
    BY <1>2, CreateEffect DEF DurableBelow
  <2>2. r \in EdgeRecord
    BY <1>2, IdsAreIntegers DEF TypeOK, Segment
  <2>3. r.ts \in Int /\ manifest.max_ts \in Int
    BY <2>2, IdsAreIntegers, MaxTsAssumption DEF EdgeRecord
  <2>4. manifest' \in ManifestState
    BY AppendTypes
  <2>5. manifest'.max_ts \in Int
    BY <2>4, MaxTsAssumption DEF ManifestState
  <2> QED BY <2>1, <2>3, <2>5
<1> QED BY <1>1, <1>2, CreateEffect

LEMMA DurableBelowStep ==
  ASSUME TypeOK, FileIds, DurableBelow, [Next]_vars
  PROVE  DurableBelow'
<1>1. CASE UNCHANGED vars
  BY <1>1 DEF DurableBelow, vars, engineVars, storeVars
<1>2. CASE Reopen
  BY <1>2, ReopenEffect DEF DurableBelow
<1>3. ASSUME NEW c \in Callers, QuietStep(c) PROVE DurableBelow'
  BY <1>3 DEF DurableBelow, QuietStep
<1>4. ASSUME NEW c \in Callers, WriteBegin(c) PROVE DurableBelow'
  BY <1>4, WriteBeginEffect DEF DurableBelow
<1>5. ASSUME NEW c \in Callers, RotatePublish(c) PROVE DurableBelow'
  BY <1>5, RotatePublishEffect DEF DurableBelow
<1>6. ASSUME NEW c \in Callers, CompactMerge(c) PROVE DurableBelow'
  BY <1>6, CompactMergeEffect DEF DurableBelow
<1>7. ASSUME NEW c \in Callers, CompactWrite(c) PROVE DurableBelow'
  BY <1>7, CompactWriteEffect, IdsAreIntegers DEF DurableBelow, FileIds
<1>8. ASSUME NEW c \in Callers, CompactAppend(c) PROVE DurableBelow'
  BY <1>8, CompactAppendEffect, CreateKeepsBelow
<1>9. ASSUME NEW c \in Callers, CompactDelete(c) PROVE DurableBelow'
  BY <1>9, CompactDeleteEffect, DeleteEffect DEF DurableBelow
<1>10. ASSUME NEW c \in Callers, CompactPin(c) PROVE DurableBelow'
  BY <1>10, CompactPinEffect DEF DurableBelow
<1>11. ASSUME NEW c \in Callers, CompactPublish(c) PROVE DurableBelow'
  BY <1>11, CompactPublishEffect DEF DurableBelow
<1>12. ASSUME NEW c \in Callers, CompactFail(c) PROVE DurableBelow'
  <2>1. CASE UNCHANGED manifest
    BY <1>12, <2>1, CompactFailEffect DEF DurableBelow
  <2>2. CASE \E f \in FileId : f \in caller[c].file /\ AppendCreate(f)
    BY <1>12, <2>2, CompactFailEffect, CreateKeepsBelow
  <2>3. CASE \E f \in caller[c].del : AppendDelete(f)
    BY <1>12, <2>3, CompactFailEffect, DeleteEffect DEF DurableBelow
  <2> QED BY <1>12, <2>1, <2>2, <2>3, CompactFailEffect
<1>13. ASSUME NEW m \in MemId, FlushWrite(m) PROVE DurableBelow'
  BY <1>13, FlushWriteEffect, IdsAreIntegers DEF DurableBelow, FileIds
<1>14. ASSUME NEW m \in MemId, FlushAppend(m) PROVE DurableBelow'
  BY <1>14, FlushAppendEffect, CreateKeepsBelow
<1>15. ASSUME NEW m \in MemId,
              FlushPin(m) \/ FlushIndexPin(m) PROVE DurableBelow'
  BY <1>15, FlushPinEffect DEF DurableBelow
<1>16. ASSUME NEW m \in MemId, FlushPublish(m) PROVE DurableBelow'
  BY <1>16, FlushPublishEffect DEF DurableBelow
<1>17. ASSUME NEW m \in MemId, FlushIndexStore(m) PROVE DurableBelow'
  BY <1>17, FlushIndexStoreEffect DEF DurableBelow
<1>18. ASSUME NEW m \in MemId, FlushFail(m) PROVE DurableBelow'
  <2>1. CASE UNCHANGED manifest
    BY <1>18, <2>1, FlushFailEffect DEF DurableBelow
  <2>2. CASE \E f \in FileId : f \in task[m].file /\ AppendCreate(f)
    BY <1>18, <2>2, FlushFailEffect, CreateKeepsBelow
  <2> QED BY <1>18, <2>1, <2>2, FlushFailEffect
<1> QED
  BY StepCases, <1>1, <1>2, <1>3, <1>4, <1>5, <1>6, <1>7, <1>8, <1>9,
     <1>10, <1>11, <1>12, <1>13, <1>14, <1>15, <1>16, <1>17, <1>18
     DEF TaskStep

LEMMA TimestampsStep ==
  ASSUME TypeOK, FileIds, PendingIds, NamedFiles, Timestamps, [Next]_vars
  PROVE  Timestamps'
<1>1. DurableBelow /\ DurableBelow'
  BY DurableBelowStep DEF Timestamps, DurableBelow
<1>2. \A r \in EdgeRecord : r.ts \in Int
  BY MaxTsAssumption DEF EdgeRecord
<1>3. timestamp \in Int
  BY IdsAreIntegers
<1>4. CASE Reopen
  <2>1. ASSUME NEW r \in EdgeRecord, Held(r)'
        PROVE  Held(r) /\ r.ts <= manifest.max_ts
    BY <1>1, <1>4, <2>1, ReopenEffect DEF Held, IdleCaller, NoTask, DurableBelow
  <2> QED BY <1>1, <1>4, <2>1, ReopenEffect DEF Timestamps, DurableBelow
<1>5. ASSUME NEW c \in Callers, WriteBegin(c) PROVE Timestamps'
  <2>1. timestamp' = timestamp + 1
    BY <1>5, WriteBeginEffect
  <2>2. ASSUME NEW r \in EdgeRecord, Held(r)' PROVE r.ts <= timestamp'
    BY <1>2, <1>3, <1>5, <2>1, <2>2, WriteBeginHeld DEF Timestamps
  <2>3. ASSUME NEW r \in EdgeRecord, NEW s \in EdgeRecord, Held(r)', Held(s)',
               r.ts = s.ts
        PROVE  r = s
    <3>1. CASE Held(r) /\ Held(s)
      BY <2>3, <3>1 DEF Timestamps
    <3>2. CASE ~Held(r) /\ ~Held(s)
      BY <1>5, <2>3, <3>2, WriteBeginHeld
    <3>3. CASE Held(r) # Held(s)
      BY <1>2, <1>3, <1>5, <2>3, <3>3, WriteBeginHeld DEF Timestamps
    <3> QED BY <3>1, <3>2, <3>3
  <2> QED BY <1>1, <2>2, <2>3 DEF Timestamps, DurableBelow
<1>6. CASE ~Reopen /\ \A c \in Callers : ~WriteBegin(c)
  <2>1. timestamp' = timestamp
    <3> USE <1>6
    <3>1. CASE UNCHANGED vars
      BY <3>1 DEF vars, engineVars
    <3>2. ASSUME NEW c \in Callers, QuietStep(c) PROVE timestamp' = timestamp
      BY <3>2 DEF QuietStep
    <3>3. ASSUME NEW c \in Callers,
                 \/ RotatePublish(c) \/ CompactMerge(c) \/ CompactWrite(c)
                 \/ CompactAppend(c) \/ CompactDelete(c) \/ CompactPin(c)
                 \/ CompactPublish(c) \/ CompactFail(c)
          PROVE  timestamp' = timestamp
      BY <3>3 DEF RotatePublish, CompactMerge, CompactWrite, CompactAppend,
                  CompactDelete, CompactPin, CompactPublish, CompactFail,
                  engineVars
    <3>4. ASSUME NEW m \in MemId, TaskStep(m) PROVE timestamp' = timestamp
      BY <3>4 DEF TaskStep, FlushWrite, FlushAppend, FlushPin, FlushPublish,
                  FlushIndexPin, FlushIndexStore, FlushFail, engineVars
    <3> QED BY <3>1, <3>2, <3>3, <3>4, StepCases
  <2>2. \A r \in EdgeRecord : Held(r)' => Held(r)
    BY <1>6, HeldStep
  <2> QED BY <1>1, <2>1, <2>2 DEF Timestamps, DurableBelow
<1> QED BY <1>4, <1>5, <1>6

LEMMA CoverTransitive ==
  ASSUME NEW r \in EdgeRecord, NEW q \in EdgeRecord,
         NEW U \in SUBSET EdgeRecord,
         q.key = r.key, q.ts >= r.ts, CoveredBy(q, U)
  PROVE  CoveredBy(r, U)
<1>1. PICK p \in U : p.key = q.key /\ p.ts >= q.ts
  BY DEF CoveredBy
<1>2. p.ts \in Int /\ q.ts \in Int /\ r.ts \in Int
  BY MaxTsAssumption DEF EdgeRecord
<1> QED BY <1>1, <1>2 DEF CoveredBy

\* Coverage only grows with what covers.
LEMMA CoverGrows ==
  ASSUME NEW r, NEW U, NEW V, U \subseteq V, CoveredBy(r, U)
  PROVE  CoveredBy(r, V)
BY DEF CoveredBy

LEMMA CoveredBySelf ==
  ASSUME NEW r \in EdgeRecord, NEW U, r \in U
  PROVE  CoveredBy(r, U)
<1>1. r.ts \in Int
  BY MaxTsAssumption DEF EdgeRecord
<1> QED BY <1>1 DEF CoveredBy

LEMMA EdgesAreRecords ==
  ASSUME TypeOK, NEW f \in FileId
  PROVE  disk[f].edges \subseteq EdgeRecord
BY DEF TypeOK, Segment

\* A new file in the manifest covers its own records.
LEMMA CreateKeepsCoverage ==
  ASSUME TypeOK, LiveCovers, NEW f \in FileId, AppendCreate(f),
         UNCHANGED disk
  PROVE  LiveCovers'
<1>1. LiveEdges \subseteq LiveEdges' /\ disk[f].edges \subseteq LiveEdges'
  BY CreateEffect DEF LiveEdges, EdgesOf
<1> SUFFICES ASSUME NEW g \in manifest'.created, NEW r \in disk[g].edges
             PROVE  CoveredBy(r, LiveEdges')
  BY DEF LiveCovers, CoveredBy
<1>2. CASE g = f
  BY <1>1, <1>2, EdgesAreRecords, CoveredBySelf
<1>3. CASE g \in manifest.created
  BY <1>1, <1>3, CoverGrows DEF LiveCovers
<1> QED BY <1>2, <1>3, CreateEffect

\* Once its outputs are in the manifest, a compaction may delete an input:
\* what the input covered is covered by an output.
LEMMA DeleteKeepsCoverage ==
  ASSUME TypeOK, FileIds, NamedFiles, Exclusive, Phases, LiveCovers,
         NEW c \in Callers, caller[c].pc = "delete", InputsCovered(c),
         NEW f \in caller[c].del, AppendDelete(f), UNCHANGED disk
  PROVE  LiveCovers'
<1>1. f \in caller[c].sel /\ caller[c].outs \subseteq manifest.live \ {f}
  BY DEF NamedFiles, InputsCovered, Exclusive, Owned
<1>2. EdgesOf(caller[c].outs) \subseteq LiveEdges'
  BY <1>1, DeleteEffect DEF LiveEdges, EdgesOf
<1>3. LiveEdges' \in SUBSET EdgeRecord
  <2>1. manifest'.live \subseteq FileId
    BY DeleteEffect, IdsAreIntegers
  <2> QED BY <2>1, EdgesAreRecords DEF LiveEdges, EdgesOf
<1>4. ASSUME NEW q \in disk[f].edges PROVE CoveredBy(q, LiveEdges')
  <2>1. caller[c].recs \cup EdgesOf(Owned(c)) = EdgesOf(caller[c].outs)
    BY DEF Phases, Compacting, Owned, EdgesOf
  <2>2. CoveredBy(q, EdgesOf(caller[c].outs))
    BY <1>1, <2>1 DEF InputsCovered
  <2> QED BY <1>2, <2>2, CoverGrows
<1> SUFFICES ASSUME NEW g \in manifest.created, NEW r \in disk[g].edges
             PROVE  CoveredBy(r, LiveEdges')
  BY DeleteEffect DEF LiveCovers, CoveredBy
<1>5. PICK q \in LiveEdges : q.key = r.key /\ q.ts >= r.ts
  BY DEF LiveCovers, CoveredBy
<1>6. PICK h \in manifest.live : q \in disk[h].edges
  BY DEF LiveEdges, EdgesOf
<1>7. q \in EdgeRecord /\ r \in EdgeRecord
  BY <1>6, EdgesAreRecords, IdsAreIntegers
<1>8. CASE h = f
  BY <1>3, <1>4, <1>5, <1>7, <1>8, <1>6, CoverTransitive
<1>9. CASE h # f
  <2>1. q \in LiveEdges'
    BY <1>9, <1>6, DeleteEffect DEF LiveEdges, EdgesOf
  <2> QED BY <1>5, <2>1 DEF CoveredBy
<1> QED BY <1>8, <1>9

\* The outputs of a compaction stay live while another one deletes.
LEMMA DeleteKeepsOutputs ==
  ASSUME TypeOK, NamedFiles, Exclusive,
         NEW c \in Callers, NEW f \in caller[c].del, AppendDelete(f),
         NEW d \in Callers, caller[d].outs \subseteq manifest.live
  PROVE  caller[d].outs \subseteq manifest'.live
BY DeleteEffect DEF NamedFiles, Exclusive, Owned

LEMMA LiveCoversStep ==
  ASSUME TypeOK, FileIds, PendingIds, NamedFiles, Exclusive, Phases, Coverage,
         [Next]_vars
  PROVE  LiveCovers'
<1>1. CASE UNCHANGED vars
  BY <1>1
     DEF Coverage, LiveCovers, LiveEdges, EdgesOf, vars, engineVars, storeVars
<1>2. CASE Reopen
  BY <1>2, ReopenEffect DEF Coverage, LiveCovers, LiveEdges, EdgesOf
<1>3. ASSUME NEW c \in Callers, QuietStep(c) PROVE LiveCovers'
  BY <1>3 DEF Coverage, LiveCovers, LiveEdges, EdgesOf, QuietStep
<1>4. ASSUME NEW c \in Callers, WriteBegin(c) PROVE LiveCovers'
  BY <1>4, WriteBeginEffect DEF Coverage, LiveCovers, LiveEdges, EdgesOf
<1>5. ASSUME NEW c \in Callers, RotatePublish(c) PROVE LiveCovers'
  BY <1>5, RotatePublishEffect DEF Coverage, LiveCovers, LiveEdges, EdgesOf
<1>6. ASSUME NEW c \in Callers, CompactMerge(c) PROVE LiveCovers'
  BY <1>6, CompactMergeEffect DEF Coverage, LiveCovers, LiveEdges, EdgesOf
<1>7. ASSUME NEW c \in Callers, CompactWrite(c) PROVE LiveCovers'
  <2>1. \A f \in manifest.created \cup manifest.live : disk'[f] = disk[f]
    BY <1>7, CompactWriteEffect, FreshId, IdsAreIntegers
  <2>2. UNCHANGED manifest
    BY <1>7, CompactWriteEffect
  <2> QED BY <2>1, <2>2 DEF Coverage, LiveCovers, LiveEdges, EdgesOf
<1>8. ASSUME NEW c \in Callers, CompactAppend(c) PROVE LiveCovers'
  BY <1>8, CompactAppendEffect, CreateKeepsCoverage DEF Coverage
<1>9. ASSUME NEW c \in Callers, CompactDelete(c) PROVE LiveCovers'
  BY <1>9, CompactDeleteEffect, DeleteKeepsCoverage DEF Coverage
<1>10. ASSUME NEW c \in Callers, CompactPin(c) PROVE LiveCovers'
  BY <1>10, CompactPinEffect DEF Coverage, LiveCovers, LiveEdges, EdgesOf
<1>11. ASSUME NEW c \in Callers, CompactPublish(c) PROVE LiveCovers'
  BY <1>11, CompactPublishEffect DEF Coverage, LiveCovers, LiveEdges, EdgesOf
<1>12. ASSUME NEW c \in Callers, CompactFail(c) PROVE LiveCovers'
  <2>1. CASE UNCHANGED manifest
    BY <1>12, <2>1, CompactFailEffect
       DEF Coverage, LiveCovers, LiveEdges, EdgesOf
  <2>2. CASE \E f \in FileId : f \in caller[c].file /\ AppendCreate(f)
    BY <1>12, <2>2, CompactFailEffect, CreateKeepsCoverage DEF Coverage
  <2>3. CASE \E f \in caller[c].del : caller[c].pc = "delete" /\ AppendDelete(f)
    BY <1>12, <2>3, CompactFailEffect, DeleteKeepsCoverage DEF Coverage
  <2> QED BY <1>12, <2>1, <2>2, <2>3, CompactFailEffect
<1>13. ASSUME NEW m \in MemId, FlushWrite(m) PROVE LiveCovers'
  <2>1. \A f \in manifest.created \cup manifest.live : disk'[f] = disk[f]
    BY <1>13, FlushWriteEffect, FreshId, IdsAreIntegers
  <2>2. UNCHANGED manifest
    BY <1>13, FlushWriteEffect
  <2> QED BY <2>1, <2>2 DEF Coverage, LiveCovers, LiveEdges, EdgesOf
<1>14. ASSUME NEW m \in MemId, FlushAppend(m) PROVE LiveCovers'
  BY <1>14, FlushAppendEffect, CreateKeepsCoverage DEF Coverage
<1>15. ASSUME NEW m \in MemId, FlushPin(m) \/ FlushIndexPin(m) PROVE LiveCovers'
  BY <1>15, FlushPinEffect DEF Coverage, LiveCovers, LiveEdges, EdgesOf
<1>16. ASSUME NEW m \in MemId, FlushPublish(m) PROVE LiveCovers'
  BY <1>16, FlushPublishEffect DEF Coverage, LiveCovers, LiveEdges, EdgesOf
<1>17. ASSUME NEW m \in MemId, FlushIndexStore(m) PROVE LiveCovers'
  BY <1>17, FlushIndexStoreEffect DEF Coverage, LiveCovers, LiveEdges, EdgesOf
<1>18. ASSUME NEW m \in MemId, FlushFail(m) PROVE LiveCovers'
  <2>1. CASE UNCHANGED manifest
    BY <1>18, <2>1, FlushFailEffect DEF Coverage, LiveCovers, LiveEdges, EdgesOf
  <2>2. CASE \E f \in FileId : f \in task[m].file /\ AppendCreate(f)
    BY <1>18, <2>2, FlushFailEffect, CreateKeepsCoverage DEF Coverage
  <2> QED BY <1>18, <2>1, <2>2, FlushFailEffect
<1> QED
  BY StepCases, <1>1, <1>2, <1>3, <1>4, <1>5, <1>6, <1>7, <1>8, <1>9,
     <1>10, <1>11, <1>12, <1>13, <1>14, <1>15, <1>16, <1>17, <1>18
     DEF TaskStep

Deleting == {"write", "append", "delete"}

\* A compaction whose own step it is not keeps its inputs covered, as long as
\* its outputs stay live and segments it knows are not rewritten.
LEMMA InputsKept ==
  ASSUME NEW d \in Callers, InputsCovered(d),
         caller'[d].recs = caller[d].recs, caller'[d].outs = caller[d].outs,
         caller'[d].file = caller[d].file, caller'[d].sel = caller[d].sel,
         \A f \in caller[d].sel \cup Owned(d) : disk'[f] = disk[f],
         caller[d].outs \subseteq manifest'.live
  PROVE  InputsCovered(d)'
<1>1. EdgesOf(Owned(d))' = EdgesOf(Owned(d))
  BY DEF Owned, EdgesOf
<1> QED BY <1>1 DEF InputsCovered, CoveredBy

\* A fresh segment leaves the segments that a compaction knows alone.
LEMMA KnownSegments ==
  ASSUME TypeOK, FileIds, PendingIds, NamedFiles, NEW d \in Callers
  PROVE  caller[d].sel \cup Owned(d) \subseteq FileId \ {next_file_id}
BY FreshId, IdsAreIntegers DEF NamedFiles, Owned

\* Merging covers all inputs: no record is ahead of the snapshot.
LEMMA MergeCoversInputs ==
  ASSUME TypeOK, NamedFiles, Timestamps, NEW c \in Callers, CompactMerge(c),
         NEW f \in caller[c].sel, NEW r \in disk[f].edges
  PROVE  CoveredBy(r, caller'[c].recs)
<1> DEFINE inputs == EdgesOf(caller[c].sel)
           merged == merge_latest_records(inputs, timestamp, TRUE)
<1>1. caller' = [caller EXCEPT ![c].pc = "write", ![c].recs = merged]
  BY DEF CompactMerge
<1>2. caller[c].sel \in SUBSET FileId
  BY DEF TypeOK, CallerState
<1>3. inputs \in SUBSET EdgeRecord /\ r \in inputs
  BY <1>2, EdgesAreRecords DEF EdgesOf
<1>4. r \in EdgeRecord /\ Held(r)
  BY <1>3 DEF Held, NamedFiles
<1>5. r.ts <= timestamp
  BY <1>4 DEF Timestamps
<1>6. timestamp \in Nat
  BY MaxTsAssumption DEF TypeOK
<1> HIDE DEF inputs
<1>7. CoveredBy(r, merged)
  BY <1>3, <1>5, <1>6, MergeCovers DEF CoveredBy
<1> HIDE DEF merged
<1>8. caller'[c].recs = merged
  BY <1>1 DEF TypeOK, CallerState
<1> QED BY <1>7, <1>8

LEMMA InputsStep ==
  ASSUME TypeOK, FileIds, PendingIds, NamedFiles, Exclusive, Timestamps,
         Phases, Coverage, [Next]_vars
  PROVE  \A d \in Callers : caller'[d].pc \in Deleting => InputsCovered(d)'
<1>1. CASE UNCHANGED vars
  BY <1>1
     DEF Coverage, InputsCovered, CoveredBy, EdgesOf, Owned, Deleting, vars,
         engineVars, storeVars
<1>2. CASE Reopen
  BY <1>2, ReopenEffect DEF IdleCaller, Deleting
<1>3. ASSUME NEW c \in Callers, QuietStep(c) 
      PROVE  \A d \in Callers : caller'[d].pc \in Deleting => InputsCovered(d)'
  <2> SUFFICES ASSUME NEW d \in Callers, caller'[d].pc \in Deleting
               PROVE  InputsCovered(d)'
    OBVIOUS
  <2>1. d # c
    BY <1>3 DEF QuietStep, Compacting, Deleting
  <2>2. InputsCovered(d) /\ caller'[d] = caller[d] /\ UNCHANGED <<disk,
                                                                  manifest>>
    BY <1>3, <2>1 DEF QuietStep, Coverage, Deleting
  <2> QED BY <2>2, InputsKept DEF InputsCovered
<1>4. ASSUME NEW c \in Callers, WriteBegin(c) 
      PROVE  \A d \in Callers : caller'[d].pc \in Deleting => InputsCovered(d)'
  <2> SUFFICES ASSUME NEW d \in Callers, caller'[d].pc \in Deleting
               PROVE  InputsCovered(d)'
    OBVIOUS
  <2>1. InputsCovered(d) /\ UNCHANGED <<disk, manifest>>
    BY <1>4, WriteBeginEffect DEF Coverage, Deleting
  <2>2. /\ caller'[d].recs = caller[d].recs /\ caller'[d].outs = caller[d].outs
        /\ caller'[d].file = caller[d].file /\ caller'[d].sel = caller[d].sel
    BY <1>4, WriteBeginEffect DEF Deleting
  <2> QED BY <2>1, <2>2, InputsKept DEF InputsCovered
<1>5. ASSUME NEW c \in Callers, RotatePublish(c) 
      PROVE  \A d \in Callers : caller'[d].pc \in Deleting => InputsCovered(d)'
  <2> SUFFICES ASSUME NEW d \in Callers, caller'[d].pc \in Deleting
               PROVE  InputsCovered(d)'
    OBVIOUS
  <2>1. InputsCovered(d) /\ UNCHANGED <<disk, manifest>>
    BY <1>5, RotatePublishEffect DEF Coverage, Deleting
  <2>2. /\ caller'[d].recs = caller[d].recs /\ caller'[d].outs = caller[d].outs
        /\ caller'[d].file = caller[d].file /\ caller'[d].sel = caller[d].sel
    BY <1>5, RotatePublishEffect DEF Deleting
  <2> QED BY <2>1, <2>2, InputsKept DEF InputsCovered
<1>6. ASSUME NEW c \in Callers, CompactMerge(c) 
      PROVE  \A d \in Callers : caller'[d].pc \in Deleting => InputsCovered(d)'
  <2> SUFFICES ASSUME NEW d \in Callers, caller'[d].pc \in Deleting
               PROVE  InputsCovered(d)'
    OBVIOUS
  <2>1. CASE d # c
    BY <1>6, <2>1, CompactMergeEffect, InputsKept
       DEF Coverage, InputsCovered, Deleting
  <2>2. CASE d = c
    <3>1. /\ caller'[c].outs = {} /\ caller'[c].sel = caller[c].sel
          /\ UNCHANGED <<disk, manifest>>
      BY <1>6, CompactMergeEffect DEF Phases, Compacting
    <3>2. ASSUME NEW f \in caller[c].sel, NEW r \in disk[f].edges
          PROVE  CoveredBy(r, (caller[c].recs \cup EdgesOf(Owned(c)))')
      BY <1>6, MergeCoversInputs, CoverGrows
    <3> QED BY <2>2, <3>1, <3>2 DEF InputsCovered, CoveredBy
  <2> QED BY <2>1, <2>2
<1>7. ASSUME NEW c \in Callers, CompactWrite(c) 
      PROVE  \A d \in Callers : caller'[d].pc \in Deleting => InputsCovered(d)'
  <2>1. PICK segment \in SUBSET caller[c].recs :
          /\ next_file_id \in FileId
          /\ disk'[next_file_id].edges = segment
          /\ \A f \in FileId \ {next_file_id} : disk'[f] = disk[f]
          /\ \A d \in Callers \ {c} : caller'[d] = caller[d]
          /\ caller[c].pc = "write"
          /\ caller'[c].recs = caller[c].recs \ segment
          /\ caller'[c].file = {next_file_id}
          /\ caller'[c].outs = caller[c].outs /\ caller'[c].sel = caller[c].sel
          /\ UNCHANGED manifest
    BY <1>7, CompactWriteEffect
  <2>2. ASSUME NEW d \in Callers, caller'[d].pc \in Deleting, d # c
        PROVE  InputsCovered(d)'
    <3>1. InputsCovered(d) /\ caller'[d] = caller[d]
      BY <2>1, <2>2 DEF Coverage, Deleting
    <3>2. \A f \in caller[d].sel \cup Owned(d) : disk'[f] = disk[f]
      BY <2>1, KnownSegments
    <3>3. caller[d].outs \subseteq manifest'.live
      BY <2>1, <3>1 DEF InputsCovered
    <3> QED BY <3>1, <3>2, <3>3, InputsKept
  <2>3. InputsCovered(c)'
    <3>1. InputsCovered(c) /\ caller[c].file = {}
      BY <2>1 DEF Coverage, Phases, Compacting
    <3>2. \A f \in caller[c].sel \cup Owned(c) : disk'[f] = disk[f]
      BY <2>1, KnownSegments
    <3>3. caller[c].recs \cup EdgesOf(Owned(c))
            \subseteq (caller[c].recs \cup EdgesOf(Owned(c)))'
      BY <2>1, <3>1, <3>2 DEF Owned, EdgesOf
    <3>4. ASSUME NEW f \in caller'[c].sel, NEW r \in disk'[f].edges
          PROVE  CoveredBy(r, (caller[c].recs \cup EdgesOf(Owned(c)))')
      <4>1. f \in caller[c].sel /\ r \in disk[f].edges
        BY <2>1, <3>2
      <4> QED BY <3>1, <3>3, <4>1, CoverGrows DEF InputsCovered
    <3>5. caller'[c].outs \subseteq manifest'.live
      BY <2>1, <3>1 DEF InputsCovered
    <3> QED BY <3>4, <3>5 DEF InputsCovered, CoveredBy
  <2> QED BY <2>2, <2>3
<1>8. ASSUME NEW c \in Callers, CompactAppend(c) 
      PROVE  \A d \in Callers : caller'[d].pc \in Deleting => InputsCovered(d)'
  <2>1. PICK f \in FileId :
          /\ f \in caller[c].file /\ AppendCreate(f)
          /\ \A d \in Callers \ {c} : caller'[d] = caller[d]
          /\ caller[c].pc = "append"
          /\ caller'[c].outs = caller[c].outs \cup {f} /\ caller'[c].file = {}
          /\ caller'[c].recs = caller[c].recs /\ caller'[c].sel = caller[c].sel
          /\ UNCHANGED disk
    BY <1>8, CompactAppendEffect
  <2>2. manifest'.live = manifest.live \cup {f}
    BY <2>1, CreateEffect
  <2>3. ASSUME NEW d \in Callers, caller'[d].pc \in Deleting, d # c
        PROVE  InputsCovered(d)'
    <3>1. InputsCovered(d) /\ caller'[d] = caller[d]
      BY <2>1, <2>3 DEF Coverage, Deleting
    <3> QED BY <2>1, <2>2, <3>1, InputsKept DEF InputsCovered
  <2>4. InputsCovered(c)'
    <3>1. InputsCovered(c) /\ caller[c].file = {f}
      BY <2>1 DEF Coverage, Phases
    <3>2. Owned(c)' = Owned(c)
      BY <2>1, <3>1 DEF Owned
    <3>3. (caller[c].recs \cup EdgesOf(Owned(c)))'
            = caller[c].recs \cup EdgesOf(Owned(c))
      BY <2>1, <3>2 DEF EdgesOf
    <3> QED BY <2>1, <2>2, <3>1, <3>3 DEF InputsCovered, CoveredBy
  <2> QED BY <2>3, <2>4
<1>9. ASSUME NEW c \in Callers, CompactDelete(c) 
      PROVE  \A d \in Callers : caller'[d].pc \in Deleting => InputsCovered(d)'
  <2> SUFFICES ASSUME NEW d \in Callers, caller'[d].pc \in Deleting
               PROVE  InputsCovered(d)'
    OBVIOUS
  <2>1. PICK f \in caller[c].del :
          /\ AppendDelete(f)
          /\ \A e \in Callers \ {c} : caller'[e] = caller[e]
          /\ caller[c].pc = "delete"
          /\ caller'[c].outs = caller[c].outs
          /\ caller'[c].file = caller[c].file
          /\ caller'[c].recs = caller[c].recs /\ caller'[c].sel = caller[c].sel
          /\ UNCHANGED disk
    BY <1>9, CompactDeleteEffect
  <2>2. InputsCovered(d)
    BY <2>1 DEF Coverage, Deleting
  <2>3. caller[d].outs \subseteq manifest'.live
    BY <2>1, <2>2, DeleteKeepsOutputs DEF InputsCovered
  <2>4. /\ caller'[d].recs = caller[d].recs /\ caller'[d].outs = caller[d].outs
        /\ caller'[d].file = caller[d].file /\ caller'[d].sel = caller[d].sel
    BY <2>1
  <2> QED BY <2>1, <2>2, <2>3, <2>4, InputsKept
<1>10. ASSUME NEW c \in Callers, CompactPin(c) 
      PROVE  \A d \in Callers : caller'[d].pc \in Deleting => InputsCovered(d)'
  <2> SUFFICES ASSUME NEW d \in Callers, caller'[d].pc \in Deleting
               PROVE  InputsCovered(d)'
    OBVIOUS
  <2>1. InputsCovered(d) /\ UNCHANGED <<disk, manifest>>
    BY <1>10, CompactPinEffect DEF Coverage, Deleting
  <2>2. /\ caller'[d].recs = caller[d].recs /\ caller'[d].outs = caller[d].outs
        /\ caller'[d].file = caller[d].file /\ caller'[d].sel = caller[d].sel
    BY <1>10, CompactPinEffect DEF Deleting
  <2> QED BY <2>1, <2>2, InputsKept DEF InputsCovered
<1>11. ASSUME NEW c \in Callers, CompactPublish(c) 
      PROVE  \A d \in Callers : caller'[d].pc \in Deleting => InputsCovered(d)'
  <2> SUFFICES ASSUME NEW d \in Callers, caller'[d].pc \in Deleting
               PROVE  InputsCovered(d)'
    OBVIOUS
  <2>1. InputsCovered(d) /\ UNCHANGED <<disk, manifest>>
    BY <1>11, CompactPublishEffect DEF Coverage, Deleting
  <2>2. /\ caller'[d].recs = caller[d].recs /\ caller'[d].outs = caller[d].outs
        /\ caller'[d].file = caller[d].file /\ caller'[d].sel = caller[d].sel
    BY <1>11, CompactPublishEffect DEF Deleting
  <2> QED BY <2>1, <2>2, InputsKept DEF InputsCovered
<1>12. ASSUME NEW c \in Callers, CompactFail(c) 
      PROVE  \A d \in Callers : caller'[d].pc \in Deleting => InputsCovered(d)'
  <2> SUFFICES ASSUME NEW d \in Callers, caller'[d].pc \in Deleting
               PROVE  InputsCovered(d)'
    OBVIOUS
  <2>1. d # c /\ caller'[d] = caller[d] /\ UNCHANGED disk
    BY <1>12, CompactFailEffect DEF IdleCaller, Deleting
  <2>2. InputsCovered(d)
    BY <2>1 DEF Coverage, Deleting
  <2>3. caller[d].outs \subseteq manifest'.live
    BY <1>12, <2>2, CompactFailEffect, CreateEffect, DeleteKeepsOutputs
       DEF InputsCovered
  <2> QED BY <2>1, <2>2, <2>3, InputsKept
<1>13. ASSUME NEW m \in MemId, FlushWrite(m) 
      PROVE  \A d \in Callers : caller'[d].pc \in Deleting => InputsCovered(d)'
  <2> SUFFICES ASSUME NEW d \in Callers, caller'[d].pc \in Deleting
               PROVE  InputsCovered(d)'
    OBVIOUS
  <2>1. InputsCovered(d) /\ caller'[d] = caller[d] /\ UNCHANGED manifest
    BY <1>13, FlushWriteEffect DEF Coverage, Deleting
  <2>2. \A f \in caller[d].sel \cup Owned(d) : disk'[f] = disk[f]
    BY <1>13, FlushWriteEffect, KnownSegments
  <2> QED BY <2>1, <2>2, InputsKept DEF InputsCovered
<1>14. ASSUME NEW m \in MemId, FlushAppend(m) 
      PROVE  \A d \in Callers : caller'[d].pc \in Deleting => InputsCovered(d)'
  <2> SUFFICES ASSUME NEW d \in Callers, caller'[d].pc \in Deleting
               PROVE  InputsCovered(d)'
    OBVIOUS
  <2>1. InputsCovered(d) /\ caller'[d] = caller[d] /\ UNCHANGED disk
    BY <1>14, FlushAppendEffect DEF Coverage, Deleting
  <2>2. caller[d].outs \subseteq manifest'.live
    BY <1>14, <2>1, FlushAppendEffect, CreateEffect DEF InputsCovered
  <2> QED BY <2>1, <2>2, InputsKept
<1>15. ASSUME NEW m \in MemId, FlushPin(m) \/ FlushIndexPin(m) 
      PROVE  \A d \in Callers : caller'[d].pc \in Deleting => InputsCovered(d)'
  <2> SUFFICES ASSUME NEW d \in Callers, caller'[d].pc \in Deleting
               PROVE  InputsCovered(d)'
    OBVIOUS
  <2>1. InputsCovered(d) /\ UNCHANGED <<disk, manifest>>
    BY <1>15, FlushPinEffect DEF Coverage, Deleting
  <2>2. /\ caller'[d].recs = caller[d].recs /\ caller'[d].outs = caller[d].outs
        /\ caller'[d].file = caller[d].file /\ caller'[d].sel = caller[d].sel
    BY <1>15, FlushPinEffect DEF Deleting
  <2> QED BY <2>1, <2>2, InputsKept DEF InputsCovered
<1>16. ASSUME NEW m \in MemId, FlushPublish(m) 
      PROVE  \A d \in Callers : caller'[d].pc \in Deleting => InputsCovered(d)'
  <2> SUFFICES ASSUME NEW d \in Callers, caller'[d].pc \in Deleting
               PROVE  InputsCovered(d)'
    OBVIOUS
  <2>1. InputsCovered(d) /\ UNCHANGED <<disk, manifest>>
    BY <1>16, FlushPublishEffect DEF Coverage, Deleting
  <2>2. /\ caller'[d].recs = caller[d].recs /\ caller'[d].outs = caller[d].outs
        /\ caller'[d].file = caller[d].file /\ caller'[d].sel = caller[d].sel
    BY <1>16, FlushPublishEffect DEF Deleting
  <2> QED BY <2>1, <2>2, InputsKept DEF InputsCovered
<1>17. ASSUME NEW m \in MemId, FlushIndexStore(m) 
      PROVE  \A d \in Callers : caller'[d].pc \in Deleting => InputsCovered(d)'
  <2> SUFFICES ASSUME NEW d \in Callers, caller'[d].pc \in Deleting
               PROVE  InputsCovered(d)'
    OBVIOUS
  <2>1. InputsCovered(d) /\ UNCHANGED <<disk, manifest>>
    BY <1>17, FlushIndexStoreEffect DEF Coverage, Deleting
  <2>2. /\ caller'[d].recs = caller[d].recs /\ caller'[d].outs = caller[d].outs
        /\ caller'[d].file = caller[d].file /\ caller'[d].sel = caller[d].sel
    BY <1>17, FlushIndexStoreEffect DEF Deleting
  <2> QED BY <2>1, <2>2, InputsKept DEF InputsCovered
<1>18. ASSUME NEW m \in MemId, FlushFail(m) 
      PROVE  \A d \in Callers : caller'[d].pc \in Deleting => InputsCovered(d)'
  <2> SUFFICES ASSUME NEW d \in Callers, caller'[d].pc \in Deleting
               PROVE  InputsCovered(d)'
    OBVIOUS
  <2>1. InputsCovered(d) /\ caller'[d] = caller[d] /\ UNCHANGED disk
    BY <1>18, FlushFailEffect DEF Coverage, Deleting
  <2>2. caller[d].outs \subseteq manifest'.live
    BY <1>18, <2>1, FlushFailEffect, CreateEffect DEF InputsCovered
  <2> QED BY <2>1, <2>2, InputsKept
<1> QED
  BY StepCases, <1>1, <1>2, <1>3, <1>4, <1>5, <1>6, <1>7, <1>8, <1>9,
     <1>10, <1>11, <1>12, <1>13, <1>14, <1>15, <1>16, <1>17, <1>18
     DEF TaskStep

LEMMA StepRecovery == RecoveryInv /\ [Next]_vars => RecoveryInv'
<1> SUFFICES ASSUME RecoveryInv, [Next]_vars PROVE RecoveryInv'
  OBVIOUS
<1> USE DEF RecoveryInv
<1>1. TypeOK'
  BY TypeStep
<1>2. FileIds' /\ PendingIds' /\ Phases'
  BY FileIdsStep, PendingIdsStep, PhasesStep
<1>3. NamedFiles' /\ Exclusive'
  BY NamedFilesStep, ExclusiveStep
<1>4. Timestamps'
  BY TimestampsStep
<1>5. Coverage'
  BY LiveCoversStep, InputsStep DEF Coverage, Deleting
<1> QED BY <1>1, <1>2, <1>3, <1>4, <1>5

\* The invariant implies that replaying the manifest loses nothing.
LEMMA RecoveryFollows == RecoveryInv => RecoveryExact
<1> SUFFICES ASSUME RecoveryInv PROVE RecoveryExact
  OBVIOUS
<1> DEFINE bound == manifest.max_ts
<1>1. LiveEdges \subseteq DurableEdges
  BY DEF RecoveryInv, FileIds, LiveEdges, DurableEdges, EdgesOf
<1>2. DurableEdges \subseteq EdgeRecord
  BY IdsAreIntegers, EdgesAreRecords DEF RecoveryInv, DurableEdges, EdgesOf
<1>3. \A r \in DurableEdges : r.ts <= bound /\ r.ts \in Int
  BY <1>2, MaxTsAssumption
     DEF RecoveryInv, Timestamps, DurableEdges, EdgesOf, EdgeRecord
<1>4. \A r \in DurableEdges : CoveredBy(r, LiveEdges)
  BY DEF RecoveryInv, Coverage, LiveCovers, DurableEdges, EdgesOf
<1>5. \A r, s \in DurableEdges : r.ts = s.ts => r = s
  BY <1>2 DEF RecoveryInv, Timestamps, Held, DurableEdges, EdgesOf
<1> DEFINE Shown(U) == {e \in U : /\ e.marker = "Insert"
                                  /\ \A o \in U : o.key = e.key => o.ts <= e.ts}
<1>6. ASSUME NEW U \in SUBSET DurableEdges PROVE merge_visible(U,
             bound) = Shown(U)
  BY <1>3 DEF merge_visible, merge_latest_records
<1>7. Shown(LiveEdges) \subseteq Shown(DurableEdges)
  <2> SUFFICES ASSUME NEW e \in Shown(LiveEdges), NEW o \in DurableEdges,
                      o.key = e.key
               PROVE  o.ts <= e.ts
    BY <1>1
  <2>1. PICK q \in LiveEdges : q.key = o.key /\ q.ts >= o.ts
    BY <1>4 DEF CoveredBy
  <2>2. q.ts <= e.ts
    BY <2>1
  <2> QED BY <1>1, <1>3, <2>1, <2>2
<1>8. Shown(DurableEdges) \subseteq Shown(LiveEdges)
  <2> SUFFICES ASSUME NEW e \in Shown(DurableEdges) PROVE e \in LiveEdges
    BY <1>1
  <2>1. PICK q \in LiveEdges : q.key = e.key /\ q.ts >= e.ts
    BY <1>4 DEF CoveredBy
  <2>2. q.ts <= e.ts
    BY <1>1, <2>1
  <2>3. q.ts = e.ts
    BY <1>1, <1>3, <2>1, <2>2
  <2> QED BY <1>1, <1>5, <2>1, <2>3
<1> HIDE DEF Shown
<1>9. merge_visible(LiveEdges, bound) = merge_visible(DurableEdges, bound)
  BY <1>1, <1>6, <1>7, <1>8
<1> QED BY <1>9 DEF RecoveryExact

-----------------------------------------------------------------------------
(* The theorems.                                                           *)

\* The inductive invariant holds in every reachable state.
THEOREM RecoveryInvariant == Spec => []RecoveryInv
BY InitRecovery, StepRecovery, PTL DEF Spec

\* Reopening the store at any moment, after any interleaving of flushes,
\* compactions, failures and restarts, shows for every edge exactly the
\* newest version that was ever persisted.
THEOREM RecoveryCorrect == Spec => []RecoveryExact
BY RecoveryInvariant, RecoveryFollows, PTL

\* No timestamp is ever given to two records, whether they are in a
\* memgraph, in the hands of a caller or persisted, before or after a restart.
THEOREM TimestampsCorrect == Spec => []TimestampsUnique
<1>1. RecoveryInv => TimestampsUnique
  <2> SUFFICES ASSUME RecoveryInv PROVE TimestampsUnique
    OBVIOUS
  <2> DEFINE records == DurableEdges \cup (UNION {mem[m] : m \in MemId})
                          \cup (UNION {caller[c].recs : c \in Callers})
  <2>1. ASSUME NEW r \in DurableEdges PROVE Held(r) /\ r \in EdgeRecord
    <3>1. PICK f \in manifest.created : r \in disk[f].edges
      BY DEF DurableEdges, EdgesOf
    <3>2. r \in EdgeRecord
      BY <3>1, IdsAreIntegers, EdgesAreRecords DEF RecoveryInv
    <3> QED BY <3>1, <3>2 DEF Held
  <2>2. ASSUME NEW m \in MemId, NEW r \in mem[m]
        PROVE  Held(r) /\ r \in EdgeRecord
    BY DEF Held, RecoveryInv, TypeOK
  <2>3. ASSUME NEW c \in Callers, NEW r \in caller[c].recs
        PROVE  Held(r) /\ r \in EdgeRecord
    BY DEF Held, RecoveryInv, TypeOK, CallerState
  <2>4. ASSUME NEW r \in records PROVE Held(r) /\ r \in EdgeRecord
    <3>1. \/ r \in DurableEdges
          \/ \E m \in MemId : r \in mem[m]
          \/ \E c \in Callers : r \in caller[c].recs
      OBVIOUS
    <3> QED BY <2>1, <2>2, <2>3, <3>1
  <2> HIDE DEF records
  <2>5. \A r, s \in records : r.ts = s.ts => r = s
    BY <2>4 DEF RecoveryInv, Timestamps
  <2> QED BY <2>5 DEF TimestampsUnique, records
<1> QED BY <1>1, RecoveryInvariant, PTL

\* The manifest never forgets a creation, and only the next id is written.
LEMMA CreatedStep ==
  ASSUME RecoveryInv, [Next]_vars
  PROVE  /\ manifest.created \subseteq manifest'.created
         /\ \A f \in FileId \ {next_file_id} : disk'[f] = disk[f]
         /\ \A f \in manifest.created : disk'[f] = disk[f]
<1>1. TypeOK
  BY DEF RecoveryInv
<1>2. CASE UNCHANGED vars \/ Reopen
  BY <1>2 DEF vars, storeVars, Reopen, OpenInner
<1>3. ASSUME NEW c \in Callers,
             \/ QuietStep(c) \/ WriteBegin(c) \/ RotatePublish(c)
             \/ CompactMerge(c) \/ CompactPin(c) \/ CompactPublish(c)
      PROVE  UNCHANGED <<disk, manifest>>
  BY <1>3 DEF QuietStep, WriteBegin, RotatePublish, CompactMerge,
              CompactPin, CompactPublish, storeVars
<1>4. ASSUME NEW c \in Callers, CompactWrite(c) \/ CompactAppend(c)
      PROVE  /\ manifest.created \subseteq manifest'.created
             /\ \A f \in FileId \ {next_file_id} : disk'[f] = disk[f]
  BY <1>1, <1>4, CompactWriteEffect, CompactAppendEffect, CreateEffect
<1>5. ASSUME NEW c \in Callers, CompactDelete(c) \/ CompactFail(c)
      PROVE  manifest.created \subseteq manifest'.created /\ disk' = disk
  BY <1>1, <1>5, CompactDeleteEffect, CompactFailEffect, CreateEffect,
     DeleteEffect
<1>6. ASSUME NEW m \in MemId, TaskStep(m)
      PROVE  /\ manifest.created \subseteq manifest'.created
             /\ \A f \in FileId \ {next_file_id} : disk'[f] = disk[f]
  <2>1. CASE FlushWrite(m) \/ FlushAppend(m)
    BY <1>1, <2>1, FlushWriteEffect, FlushAppendEffect, CreateEffect
  <2>2. CASE FlushFail(m)
    BY <1>1, <2>2, FlushFailEffect, CreateEffect
  <2>3. CASE \/ FlushPin(m) \/ FlushPublish(m) \/ FlushIndexPin(m)
             \/ FlushIndexStore(m)
    BY <2>3 DEF FlushPin, FlushPublish, FlushIndexPin, FlushIndexStore,
                storeVars
  <2> QED BY <1>6, <2>1, <2>2, <2>3 DEF TaskStep
<1>7. manifest.created \subseteq FileId \ {next_file_id}
  BY FreshId, IdsAreIntegers DEF RecoveryInv
<1> QED BY <1>1, <1>2, <1>3, <1>4, <1>5, <1>6, <1>7, StepCases

\* No step rewrites a segment that the manifest has ever named: a file id is
\* not given out twice, not even by an engine reopened after a deletion.
THEOREM SegmentsCorrect == Spec => SegmentsImmutable
<1>1. RecoveryInv /\ [Next]_vars
        => [\A f \in manifest.created : disk'[f] = disk[f]]_vars
  BY CreatedStep
<1> QED BY <1>1, RecoveryInvariant, PTL DEF Spec, SegmentsImmutable

=============================================================================
