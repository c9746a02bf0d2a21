------------------------------ MODULE Manifest ------------------------------
(***************************************************************************)
(* The manifest file (src/csr/manifest.rs) below the level of LsmEngine,   *)
(* which sees an append as one step.  serde_json writes a record straight  *)
(* into the file, so a record is several write calls, a newline is one     *)
(* more, and sync_all comes last; every appender opens the file for itself *)
(* and nothing excludes two of them.  The bytes of one write call are one  *)
(* piece, named by the append it belongs to and its number there.          *)
(***************************************************************************)
EXTENDS Integers, Sequences, FiniteSets, FiniteSetsExt

CONSTANTS
  Appenders,   \* flush tasks and compactions that append
  Pieces,      \* write calls that one record takes
  MaxAppends,  \* bound: appends started
  MaxFaults,   \* bound: failed write or sync calls
  MaxCrashes   \* bound: restarts

ASSUME ManifestAssumption ==
  /\ Pieces \in Nat \ {0}
  /\ MaxAppends \in Nat
  /\ MaxFaults \in Nat
  /\ MaxCrashes \in Nat

AppendId == 1..MaxAppends

ManifestRecord ==
  [op : {"CreateFile", "DeleteFile"}, file_id : 1..MaxAppends]

VARIABLES
  file,      \* the pieces in the file, in order
  synced,    \* how many of them a crash cannot take away
  opened,    \* an engine runs on the store
  next_id,   \* its next_file_id
  records,   \* what the n-th append writes
  appender,  \* the local state of every appender
  acked,     \* appends that have returned Ok
  budget     \* what is left of the bounds on faults and crashes

vars == <<file, synced, opened, next_id, records, appender, acked, budget>>

Newline == <<0, 0>>

IdleAppender == [pc |-> "idle", id |-> 0, next |-> 1]

-----------------------------------------------------------------------------
(* Manifest::load.                                                         *)

\* A line lies between two newlines; BufRead::lines also yields what follows
\* the last one.
NewlinesOf(f) == {i \in 1..Len(f) : f[i] = Newline}

Lines(f) ==
  {l \in [start : NewlinesOf(f) \cup {0},
          end : NewlinesOf(f) \cup {Len(f) + 1}] :
     /\ l.start < l.end
     /\ \A i \in NewlinesOf(f) : i <= l.start \/ i >= l.end}

Content(f, line) == SubSeq(f, line.start + 1, line.end - 1)

RecordText(id) == [k \in 1..Pieces |-> <<id, k>>]

\* serde_json::from_str takes the text of one record and nothing after it.
Parses(f, line) == \E id \in AppendId : Content(f, line) = RecordText(id)

\* Slip: a line that does not parse is skipped.
LoadsSkipping(f) == TRUE

\* Blank lines are skipped; any other that does not parse ends load with an
\* error.
Loads(f) == \A line \in Lines(f) : Content(f, line) = <<>> \/ Parses(f, line)

\* The records that load finds, each with the position of its line.
Found(f) ==
  {[at |-> line.start, id |-> f[line.start + 1][1]] :
     line \in {l \in Lines(f) : Parses(f, l)}}

\* A file is live when the last record that names it creates it.
live_files(f) ==
  {n \in 1..MaxAppends :
     \E c \in Found(f) :
       /\ records[c.id] = [op |-> "CreateFile", file_id |-> n]
       /\ \A d \in Found(f) :
            records[d.id].file_id = n /\ d.at > c.at
              => records[d.id].op = "CreateFile"}

CreatedBy(ids) ==
  {records[i].file_id : i \in {j \in ids : records[j].op = "CreateFile"}}

DeletedBy(ids) ==
  {records[i].file_id : i \in {j \in ids : records[j].op = "DeleteFile"}}

next_file_id(f) == 1 + Max({0} \cup CreatedBy({c.id : c \in Found(f)}))

-----------------------------------------------------------------------------
(* Manifest::append.                                                       *)

Init ==
  /\ file = <<>>
  /\ synced = 0
  /\ opened = TRUE
  /\ next_id = 1
  /\ records = <<>>
  /\ appender = [a \in Appenders |-> IdleAppender]
  /\ acked = {}
  /\ budget = [faults |-> MaxFaults, crashes |-> MaxCrashes]

\* The engine appends a CreateFile for an id it has just allocated, or a
\* DeleteFile for a file whose creation it has seen succeed.
AppendBegin(a) ==
  LET id == Len(records) + 1
  IN /\ opened
     /\ appender[a].pc = "idle"
     /\ id <= MaxAppends
     /\ \/ /\ records' = Append(records, [op |-> "CreateFile",
                                          file_id |-> next_id])
           /\ next_id' = next_id + 1
        \/ /\ \E n \in CreatedBy(acked) \ DeletedBy(DOMAIN records) :
                records' = Append(records, [op |-> "DeleteFile", file_id |-> n])
           /\ UNCHANGED next_id
     /\ appender' = [appender EXCEPT ![a] =
                       [pc |-> "write", id |-> id, next |-> 1]]
     /\ UNCHANGED <<file, synced, opened, acked, budget>>

\* serde_json::to_writer, one write call of it.
AppendPiece(a) ==
  /\ appender[a].pc = "write"
  /\ file' = Append(file, <<appender[a].id, appender[a].next>>)
  /\ appender' = [appender EXCEPT
       ![a].next = @ + 1,
       ![a].pc = IF appender[a].next = Pieces THEN "newline" ELSE "write"]
  /\ UNCHANGED <<synced, opened, next_id, records, acked, budget>>

AppendNewline(a) ==
  /\ appender[a].pc = "newline"
  /\ file' = Append(file, Newline)
  /\ appender' = [appender EXCEPT ![a].pc = "sync"]
  /\ UNCHANGED <<synced, opened, next_id, records, acked, budget>>

\* Slip: append returns without sync_all.
AppendNoSync(a) ==
  /\ appender[a].pc = "sync"
  /\ acked' = acked \cup {appender[a].id}
  /\ appender' = [appender EXCEPT ![a] = IdleAppender]
  /\ UNCHANGED <<file, synced, opened, next_id, records, budget>>

\* sync_all makes the whole file durable, whoever wrote it.
AppendSync(a) ==
  /\ appender[a].pc = "sync"
  /\ synced' = Len(file)
  /\ acked' = acked \cup {appender[a].id}
  /\ appender' = [appender EXCEPT ![a] = IdleAppender]
  /\ UNCHANGED <<file, opened, next_id, records, budget>>

\* A write or the sync fails: append returns the error and leaves what it has
\* written in the file.
AppendFail(a) ==
  /\ appender[a].pc # "idle"
  /\ budget.faults > 0
  /\ budget' = [budget EXCEPT !.faults = @ - 1]
  /\ appender' = [appender EXCEPT ![a] = IdleAppender]
  /\ UNCHANGED <<file, synced, opened, next_id, records, acked>>

\* The process or the machine stops, and a prefix of the file that contains
\* everything synced survives.  Engine::open fails when load does.
Reopen ==
  /\ opened
  /\ budget.crashes > 0
  /\ budget' = [budget EXCEPT !.crashes = @ - 1]
  /\ \E n \in synced..Len(file) :
       LET kept == SubSeq(file, 1, n)
       IN /\ file' = kept
          /\ synced' = n
          /\ opened' = Loads(kept)
          /\ next_id' = IF Loads(kept) THEN next_file_id(kept) ELSE next_id
  /\ appender' = [a \in Appenders |-> IdleAppender]
  /\ UNCHANGED <<records, acked>>

Next ==
  \/ \E a \in Appenders :
       \/ AppendBegin(a) \/ AppendPiece(a) \/ AppendNewline(a)
       \/ AppendSync(a) \/ AppendFail(a)
  \/ Reopen

Spec == Init /\ [][Next]_vars

-----------------------------------------------------------------------------
(* Properties.                                                             *)

\* Whenever load succeeds, it knows every append that has returned Ok: a file
\* whose creation was acknowledged is live unless its deletion was begun, a
\* file whose deletion was acknowledged is not, and no acknowledged file id
\* is given out again.
LoadExact ==
  Loads(file) =>
    /\ CreatedBy(acked) \ DeletedBy(DOMAIN records) \subseteq live_files(file)
    /\ DeletedBy(acked) \cap live_files(file) = {}
    /\ \A n \in CreatedBy(acked) : n < next_file_id(file)

\* No two acknowledged CreateFile records name the same file, across restarts.
FileIdsUnique ==
  \A i, j \in acked :
    /\ records[i].op = "CreateFile" /\ records[j].op = "CreateFile"
    /\ records[i].file_id = records[j].file_id
    => i = j

\* With no append in progress the store can be opened.
LoadsAtRest == (\A a \in Appenders : appender[a].pc = "idle") => Loads(file)

=============================================================================
