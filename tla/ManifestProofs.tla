--------------------------- MODULE ManifestProofs ---------------------------
(***************************************************************************)
(* Proofs about the manifest file, for every number of appenders, write    *)
(* calls of a record, faults and crashes.  A record is followed by its     *)
(* first piece: appenders may mix their pieces in the file, but a file     *)
(* that loads has every first piece at the head of a whole record.         *)
(***************************************************************************)
EXTENDS Manifest, SequenceTheorems, WellFoundedInduction, TLAPS

-----------------------------------------------------------------------------
(* The inductive invariant.                                                *)

ManifestTypeOK ==
  /\ file \in Seq(Nat \X Nat)
  /\ synced \in 0..Len(file)
  /\ opened \in BOOLEAN
  /\ records \in Seq(ManifestRecord) /\ Len(records) <= MaxAppends
  /\ next_id \in 1..(Len(records) + 1)
  /\ appender \in [Appenders -> [pc : {"idle", "write", "newline", "sync"},
                                 id : Nat, next : Nat \ {0}]]
  /\ acked \in SUBSET (1..Len(records))

StartsAt(p, id) == file[p] = <<id, 1>>
InFile(id) == \E p \in 1..Len(file) : StartsAt(p, id)
Writing(id) == \E a \in Appenders : appender[a].pc # "idle" /\ appender[a].id = id
Present(id) == InFile(id) \/ Writing(id)
Creates(i) == records[i].op = "CreateFile"

\* An appender starts its record once, and an append has one appender.
Writers ==
  /\ \A a \in Appenders : appender[a].pc # "idle" =>
       /\ appender[a].id \in 1..Len(records) /\ appender[a].id \notin acked
       /\ InFile(appender[a].id)
            <=> ~(appender[a].pc = "write" /\ appender[a].next = 1)
  /\ \A a, b \in Appenders :
       appender[a].pc # "idle" /\ appender[b].pc # "idle"
         /\ appender[a].id = appender[b].id => a = b

\* A record is in the file at most once.
Starts ==
  \A id \in Nat :
    /\ InFile(id) => id \in 1..Len(records)
    /\ \A p, q \in 1..Len(file) : StartsAt(p, id) /\ StartsAt(q, id) => p = q

AckedKept == \A id \in acked : \E p \in 1..synced : StartsAt(p, id)

\* The next file id is above those of all records that are or may get into
\* the file, and those have file ids of their own.
FreshIds ==
  /\ \A i \in 1..Len(records) : records[i].file_id <= i
  /\ opened => \A i \in 1..Len(records) :
       Creates(i) /\ Present(i) => records[i].file_id < next_id
  /\ \A i, j \in 1..Len(records) :
       Creates(i) /\ Creates(j) /\ Present(i) /\ Present(j)
         /\ records[i].file_id = records[j].file_id => i = j

\* A deletion follows an acknowledged creation.
DeletesLater ==
  \A d \in 1..Len(records) : ~Creates(d) =>
    \E c \in acked :
      /\ Creates(c) /\ records[c].file_id = records[d].file_id
      /\ \A p, q \in 1..Len(file) : StartsAt(p, c) /\ StartsAt(q, d) => p < q

ManifestInv ==
  ManifestTypeOK /\ Writers /\ Starts /\ AckedKept /\ FreshIds /\ DeletesLater

-----------------------------------------------------------------------------
(* Lines.                                                                  *)

LEMMA Least ==
  ASSUME NEW S \in SUBSET Nat, S # {}
  PROVE  \E d \in S : \A e \in S : d <= e
<1>1. PICK d \in S : \A e \in S : ~(<<e, d>> \in OpToRel(<, Nat))
  BY WFMin, NatLessThanWellFounded
<1>2. \A e \in S : ~(e < d)
  BY <1>1 DEF OpToRel
<1> QED BY <1>2

LEMMA Greatest ==
  ASSUME NEW S \in SUBSET Nat, S # {}, NEW n \in Nat, \A x \in S : x <= n
  PROVE  \E m \in S : \A x \in S : x <= m
<1> DEFINE T == {n - x : x \in S}
<1>1. T \in SUBSET Nat /\ T # {}
  <2>1. \A x \in S : n - x \in Nat
    OBVIOUS
  <2>2. PICK x \in S : TRUE
    OBVIOUS
  <2>3. n - x \in T
    BY <2>2
  <2> QED BY <2>1, <2>3
<1>2. PICK d \in T : \A e \in T : d <= e
  BY <1>1, Least
<1>3. PICK m \in S : d = n - m
  OBVIOUS
<1>4. ASSUME NEW x \in S PROVE x <= m
  <2>1. n - x \in T
    OBVIOUS
  <2>2. n - m <= n - x
    BY <1>2, <1>3, <2>1
  <2> QED BY <2>2
<1> QED BY <1>4

\* Every piece that is not a newline is in a line.
LEMMA LineAround ==
  ASSUME NEW f \in Seq(Nat \X Nat), NEW p \in 1..Len(f), f[p] # Newline
  PROVE  \E line \in Lines(f) :
           /\ line.start \in Nat /\ line.end \in Nat
           /\ line.start < p /\ p < line.end /\ line.end <= Len(f) + 1
<1>1. Len(f) \in Nat /\ p \in Nat /\ 1 <= p /\ p <= Len(f)
  OBVIOUS
<1>2. NewlinesOf(f) \subseteq 1..Len(f) /\ p \notin NewlinesOf(f)
  BY DEF NewlinesOf
<1> DEFINE before == {i \in NewlinesOf(f) \cup {0} : i < p}
           after == {i \in NewlinesOf(f) \cup {Len(f) + 1} : i > p}
<1>3. before \in SUBSET Nat /\ before # {} /\ \A i \in before : i <= p
  <2>1. 0 \in before
    BY <1>1
  <2> QED BY <1>1, <1>2, <2>1
<1>4. after \in SUBSET Nat /\ after # {} /\ Len(f) + 1 \in after
  <2>1. Len(f) + 1 \in after
    BY <1>1
  <2> QED BY <1>1, <1>2, <2>1
<1>5. \A i \in NewlinesOf(f) : i \in Nat /\ (i \in before \/ i \in after)
  BY <1>1, <1>2
<1>6. /\ \A i \in before : i \in NewlinesOf(f) \cup {0} /\ i < p
      /\ \A i \in after : i \in NewlinesOf(f) \cup {Len(f) + 1} /\ i > p
  OBVIOUS
<1> HIDE DEF before, after
<1>7. PICK s \in before : \A i \in before : i <= s
  BY <1>1, <1>3, Greatest
<1>8. PICK t \in after : \A i \in after : t <= i
  BY <1>4, Least
<1>9. \A i \in NewlinesOf(f) : i <= s \/ i >= t
  BY <1>3, <1>4, <1>5, <1>7, <1>8
<1>10. /\ s \in NewlinesOf(f) \cup {0} /\ t \in NewlinesOf(f) \cup {Len(f) + 1}
       /\ s < p /\ p < t /\ s \in Nat /\ t \in Nat /\ t <= Len(f) + 1
  BY <1>1, <1>3, <1>4, <1>6, <1>7, <1>8
<1> DEFINE line == [start |-> s, end |-> t]
<1>11. line \in Lines(f)
  <2>1. line \in [start : NewlinesOf(f) \cup {0},
                  end : NewlinesOf(f) \cup {Len(f) + 1}]
    BY <1>10
  <2>2. line.start < line.end
    BY <1>1, <1>10
  <2> QED BY <1>9, <2>1, <2>2 DEF Lines
<1> QED BY <1>10, <1>11

\* A stretch of a sequence of pieces.
LEMMA Stretch ==
  ASSUME NEW f \in Seq(Nat \X Nat), NEW m \in Nat, NEW n \in Nat,
         1 <= m, m <= n + 1, n <= Len(f)
  PROVE  /\ SubSeq(f, m, n) \in Seq(Nat \X Nat)
         /\ Len(SubSeq(f, m, n)) = n - m + 1
         /\ DOMAIN SubSeq(f, m, n) = 1..(n - m + 1)
         /\ \A i \in 1..(n - m + 1) : SubSeq(f, m, n)[i] = f[m + i - 1]
<1>1. \A i \in m..n : f[i] \in Nat \X Nat
  <2>1. \A i \in m..n : i \in 1..Len(f)
    OBVIOUS
  <2> QED BY <2>1
<1>2. /\ SubSeq(f, m, n) \in Seq(Nat \X Nat)
      /\ Len(SubSeq(f, m, n)) = IF m <= n THEN n - m + 1 ELSE 0
      /\ \A i \in 1..(n - m + 1) : SubSeq(f, m, n)[i] = f[m + i - 1]
  <2>1. m \in Int /\ n \in Int
    OBVIOUS
  <2> QED BY ONLY <1>1, <2>1, SubSeqProperties
<1>3. Len(SubSeq(f, m, n)) = n - m + 1
  <2>1. CASE m <= n
    BY <1>2, <2>1
  <2>2. CASE ~(m <= n)
    <3>1. n - m + 1 = 0
      BY <2>2
    <3> QED BY <1>2, <2>2, <3>1
  <2> QED BY <2>1, <2>2
<1>4. DOMAIN SubSeq(f, m, n) = 1..Len(SubSeq(f, m, n))
  BY <1>2, LenProperties
<1> QED BY <1>2, <1>3, <1>4

\* A line starts and ends where it can.
LEMMA LineBounds ==
  ASSUME NEW f \in Seq(Nat \X Nat), NEW line \in Lines(f)
  PROVE  /\ line.start \in Nat /\ line.end \in Nat /\ line.start < line.end
         /\ line.end <= Len(f) + 1 /\ Len(f) \in Nat
<1>1. /\ line.start \in NewlinesOf(f) \cup {0}
      /\ line.end \in NewlinesOf(f) \cup {Len(f) + 1} /\ line.start < line.end
  BY DEF Lines
<1>2. NewlinesOf(f) \subseteq 1..Len(f) /\ Len(f) \in Nat
  BY DEF NewlinesOf
<1> QED BY <1>1, <1>2

\* The text of a line.
LEMMA LineText ==
  ASSUME NEW f \in Seq(Nat \X Nat), NEW line \in Lines(f)
  PROVE  /\ Len(Content(f, line)) = line.end - 1 - line.start
         /\ DOMAIN Content(f, line) = 1..(line.end - 1 - line.start)
         /\ \A k \in 1..(line.end - 1 - line.start) :
              Content(f, line)[k] = f[line.start + k]
<1>1. /\ line.start \in Nat /\ line.end \in Nat /\ line.start < line.end
      /\ line.end <= Len(f) + 1 /\ Len(f) \in Nat
  BY LineBounds
<1> DEFINE m == line.start + 1
           n == line.end - 1
<1>2. m \in Nat /\ n \in Nat /\ 1 <= m /\ m <= n + 1 /\ n <= Len(f)
  BY <1>1
<1>3. /\ n - m + 1 = line.end - 1 - line.start
      /\ \A k \in Nat : m + k - 1 = line.start + k
  BY <1>1
<1>4. Content(f, line) = SubSeq(f, m, n)
  BY DEF Content
<1> HIDE DEF m, n
<1>5. /\ Len(SubSeq(f, m, n)) = n - m + 1
      /\ DOMAIN SubSeq(f, m, n) = 1..(n - m + 1)
      /\ \A i \in 1..(n - m + 1) : SubSeq(f, m, n)[i] = f[m + i - 1]
  BY <1>2, Stretch
<1>6. \A i \in 1..(line.end - 1 - line.start) : i \in Nat
  OBVIOUS
<1> QED BY ONLY <1>3, <1>4, <1>5, <1>6

\* Where a position between two others is, counted from the first.
LEMMA Between ==
  ASSUME NEW s \in Nat, NEW p \in Nat, NEW e \in Nat, s < p, p < e
  PROVE  p - s \in 1..(e - 1 - s) /\ p - s \in Nat /\ s + (p - s) = p
OBVIOUS

LEMMA FirstWithin ==
  ASSUME NEW s \in Nat, NEW e \in Nat, NEW n \in Nat, e <= n + 1,
         1 \in 1..(e - 1 - s)
  PROVE  s \in Nat /\ s + 1 \in 1..n
<1>1. 1 <= e - 1 - s
  OBVIOUS
<1> QED BY ONLY <1>1, e <= n + 1, s \in Nat, e \in Nat, n \in Nat

LEMMA OneApart ==
  ASSUME NEW s \in Nat, NEW p \in Nat, p - s = 1
  PROVE  s = p - 1 /\ s + 1 = p
OBVIOUS

\* In a file that loads, a first piece is at the head of its record.
LEMMA FoundAt ==
  ASSUME NEW f \in Seq(Nat \X Nat), Loads(f), NEW p \in 1..Len(f),
         NEW id \in Nat, f[p] = <<id, 1>>
  PROVE  [at |-> p - 1, id |-> id] \in Found(f)
<1>1. f[p] # Newline
  BY DEF Newline
<1>2. PICK line \in Lines(f) :
        /\ line.start \in Nat /\ line.end \in Nat
        /\ line.start < p /\ p < line.end /\ line.end <= Len(f) + 1
  BY <1>1, LineAround
<1> DEFINE k == p - line.start
           text == Content(f, line)
<1>3. k \in 1..(line.end - 1 - line.start) /\ k \in Nat /\ line.start + k = p
  <2>1. line.start \in Nat /\ line.end \in Nat /\ line.start < p /\ p < line.end
    BY <1>2
  <2>2. p \in Nat
    OBVIOUS
  <2> QED BY ONLY <2>1, <2>2, Between
<1>4. DOMAIN text = 1..(line.end - 1 - line.start) /\ text[k] = <<id, 1>>
  <2>1. /\ DOMAIN text = 1..(line.end - 1 - line.start)
        /\ text[k] = f[line.start + k]
    BY <1>3, LineText
  <2> QED BY <1>3, <2>1
<1>5. text # <<>>
  <2>1. DOMAIN <<>> = {}
    OBVIOUS
  <2> QED BY <1>3, <1>4, <2>1
<1>6. PICK other \in AppendId : text = RecordText(other)
  BY <1>2, <1>5 DEF Loads, Parses
<1>7. DOMAIN RecordText(other) = 1..Pieces
  BY DEF RecordText
<1>8. k \in 1..Pieces /\ text[k] = <<other, k>>
  <2>1. k \in 1..Pieces
    BY <1>3, <1>4, <1>6, <1>7
  <2> QED BY <1>6, <2>1 DEF RecordText
<1>9. k = 1 /\ other = id
  BY <1>4, <1>8
<1>10. line.start = p - 1 /\ line.start + 1 = p /\ f[line.start + 1][1] = id
  <2>1. p \in Nat /\ line.start \in Nat /\ p - line.start = 1
    BY <1>2, <1>9
  <2>2. line.start = p - 1 /\ line.start + 1 = p
    BY ONLY <2>1, OneApart
  <2>3. f[p][1] = id
    OBVIOUS
  <2> QED BY <2>2, <2>3
<1>11. Parses(f, line)
  BY <1>6 DEF Parses
<1>12. line \in {l \in Lines(f) : Parses(f, l)}
  BY <1>2, <1>11
<1> QED BY <1>10, <1>12 DEF Found

\* What load finds is a first piece.
LEMMA FoundStarts ==
  ASSUME NEW f \in Seq(Nat \X Nat), NEW c \in Found(f)
  PROVE  /\ c.at \in Nat /\ c.at + 1 \in 1..Len(f)
         /\ c.id \in AppendId /\ f[c.at + 1] = <<c.id, 1>>
<1>1. PICK line \in Lines(f) :
        Parses(f, line) /\ c = [at |-> line.start, id |-> f[line.start + 1][1]]
  BY DEF Found
<1>2. PICK id \in AppendId : Content(f, line) = RecordText(id)
  BY <1>1 DEF Parses
<1>3. DOMAIN RecordText(id) = 1..Pieces /\ RecordText(id)[1] = <<id, 1>>
  BY ManifestAssumption DEF RecordText
<1>4. 1 \in 1..(line.end - 1 - line.start)
  BY <1>2, <1>3, LineText, ManifestAssumption
<1>5. f[line.start + 1] = <<id, 1>>
  <2>1. Content(f, line)[1] = f[line.start + 1]
    BY <1>4, LineText
  <2> QED BY <1>2, <1>3, <2>1
<1>6. line.start \in Nat /\ line.start + 1 \in 1..Len(f)
  <2>1. /\ line.start \in Nat /\ line.end \in Nat
        /\ line.end <= Len(f) + 1 /\ Len(f) \in Nat
    BY LineBounds
  <2> QED BY ONLY <1>4, <2>1, FirstWithin
<1> QED BY <1>1, <1>2, <1>5, <1>6

\* The next file id after a load is above all that it finds.
LEMMA LoadedAbove ==
  ASSUME NEW ids \in SUBSET Nat, NEW n \in Nat, \A i \in ids : i <= n
  PROVE  /\ Max({0} \cup ids) \in Nat /\ Max({0} \cup ids) <= n
         /\ \A i \in ids : i <= Max({0} \cup ids)
<1> DEFINE S == {0} \cup ids
<1>1. S \in SUBSET Nat /\ S # {} /\ \A i \in S : i <= n
  OBVIOUS
<1>2. ids \subseteq S
  OBVIOUS
<1> HIDE DEF S
<1>3. \E m \in S : \A i \in S : m >= i
  <2>1. PICK m \in S : \A i \in S : i <= m
    BY <1>1, Greatest
  <2> QED BY <1>1, <2>1
<1>4. Max(S) \in S /\ \A i \in S : Max(S) >= i
  BY <1>3 DEF Max
<1>5. Max(S) \in Nat /\ Max(S) <= n /\ \A i \in ids : i <= Max(S)
  BY <1>1, <1>2, <1>4
<1> QED BY <1>5 DEF S

-----------------------------------------------------------------------------
(* The invariant is inductive.                                             *)

LEMMA InitManifest == Init => ManifestInv
<1> SUFFICES ASSUME Init PROVE ManifestInv
  OBVIOUS
<1>1. /\ file = <<>> /\ synced = 0 /\ opened = TRUE /\ next_id = 1
      /\ records = <<>> /\ acked = {}
      /\ appender = [a \in Appenders |-> IdleAppender]
  BY DEF Init
<1>2. Len(file) = 0 /\ Len(records) = 0 /\ file \in Seq(Nat \X Nat)
      /\ records \in Seq(ManifestRecord)
  BY <1>1
<1>3. IdleAppender \in [pc : {"idle", "write", "newline", "sync"},
                        id : Nat, next : Nat \ {0}]
  BY DEF IdleAppender
<1>4. ManifestTypeOK
  BY <1>1, <1>2, <1>3, ManifestAssumption DEF ManifestTypeOK
<1>5. \A a \in Appenders : appender[a].pc = "idle"
  BY <1>1 DEF IdleAppender
<1>6. \A id : ~InFile(id)
  BY <1>2 DEF InFile
<1>7. Writers /\ Starts
  BY <1>2, <1>5, <1>6 DEF Writers, Starts
<1>8. AckedKept /\ FreshIds /\ DeletesLater
  BY <1>1, <1>2 DEF AckedKept, FreshIds, DeletesLater
<1> QED BY <1>4, <1>7, <1>8 DEF ManifestInv

\* A new append: no piece of it is in the file.
LEMMA BeginStep ==
  ASSUME ManifestInv, NEW a \in Appenders, AppendBegin(a)
  PROVE  ManifestInv'
<1>0. PICK new \in Nat : new = Len(records) + 1
  BY DEF ManifestInv, ManifestTypeOK
<1>1. /\ opened /\ appender[a].pc = "idle" /\ new <= MaxAppends
      /\ appender' = [appender EXCEPT ![a] =
                        [pc |-> "write", id |-> new, next |-> 1]]
      /\ UNCHANGED <<file, synced, opened, acked, budget>>
  BY <1>0 DEF AppendBegin
<1>2. /\ file \in Seq(Nat \X Nat) /\ synced \in 0..Len(file)
      /\ records \in Seq(ManifestRecord) /\ Len(records) \in Nat
      /\ next_id \in 1..(Len(records) + 1) /\ acked \in SUBSET (1..Len(records))
      /\ appender \in [Appenders -> [pc : {"idle", "write", "newline", "sync"},
                                     id : Nat, next : Nat \ {0}]]
  BY DEF ManifestInv, ManifestTypeOK
<1>3. /\ new = Len(records) + 1 /\ new \in Nat /\ 1 <= new
      /\ new \notin 1..Len(records) /\ 1..new = 1..Len(records) \cup {new}
  BY <1>0, <1>2
\* What the new record says.
<1>4. PICK r \in ManifestRecord :
        /\ records' = Append(records, r)
        /\ \/ /\ r = [op |-> "CreateFile", file_id |-> next_id]
              /\ next_id' = next_id + 1
           \/ /\ r.op = "DeleteFile" /\ next_id' = next_id
              /\ \E c \in acked : Creates(c) /\ records[c].file_id = r.file_id
  <2>1. CASE /\ records' = Append(records, [op |-> "CreateFile",
                                            file_id |-> next_id])
             /\ next_id' = next_id + 1
    <3>1. next_id \in 1..MaxAppends
      BY <1>1, <1>2, <1>3, ManifestAssumption
    <3>2. [op |-> "CreateFile", file_id |-> next_id] \in ManifestRecord
      BY <3>1 DEF ManifestRecord
    <3> QED BY <2>1, <3>2
  <2>2. CASE /\ \E n \in CreatedBy(acked) \ DeletedBy(DOMAIN records) :
                  records' = Append(records, [op |-> "DeleteFile", file_id |-> n])
             /\ UNCHANGED next_id
    <3>1. PICK n \in CreatedBy(acked) :
            records' = Append(records, [op |-> "DeleteFile", file_id |-> n])
      BY <2>2
    <3>2. PICK c \in acked : Creates(c) /\ records[c].file_id = n
      BY <3>1 DEF CreatedBy, Creates
    <3>3. records[c] \in ManifestRecord
      BY <1>2, <3>2
    <3>4. n \in 1..MaxAppends
      BY <3>2, <3>3 DEF ManifestRecord
    <3>5. [op |-> "DeleteFile", file_id |-> n] \in ManifestRecord
      BY <3>4 DEF ManifestRecord
    <3> QED BY <2>2, <3>1, <3>2, <3>5
  <2> QED BY <2>1, <2>2 DEF AppendBegin
<1>5. /\ records' \in Seq(ManifestRecord) /\ Len(records') = new
      /\ records'[new] = r /\ \A i \in 1..Len(records) : records'[i] = records[i]
  BY <1>2, <1>3, <1>4
<1>6. /\ appender'[a] = [pc |-> "write", id |-> new, next |-> 1]
      /\ \A b \in Appenders : b # a => appender'[b] = appender[b]
  BY <1>1, <1>2
<1>7. ManifestTypeOK'
  <2>1. next_id' \in 1..(new + 1)
    BY <1>2, <1>3, <1>4
  <2>2. [pc |-> "write", id |-> new, next |-> 1] \in
          [pc : {"idle", "write", "newline", "sync"}, id : Nat, next : Nat \ {0}]
    BY <1>3
  <2>3. appender' \in [Appenders -> [pc : {"idle", "write", "newline", "sync"},
                                     id : Nat, next : Nat \ {0}]]
    BY <1>1, <1>2, <2>2
  <2>4. acked' \in SUBSET (1..new) /\ opened' \in BOOLEAN
    BY <1>1, <1>2, <1>3
  <2> QED BY <1>1, <1>2, <1>5, <2>1, <2>3, <2>4 DEF ManifestTypeOK
<1>8. \A id \in Nat : InFile(id)' <=> InFile(id)
  BY <1>1 DEF InFile, StartsAt
<1>9. ~InFile(new)
  BY <1>3 DEF ManifestInv, Starts
<1>10. \A i \in 1..Len(records) : Writing(i)' => Writing(i)
  BY <1>3, <1>6 DEF Writing
<1>11. Writers'
  <2>1. \A b \in Appenders : b # a /\ appender[b].pc # "idle"
          => appender[b].id # new /\ appender[b].id \in Nat
    BY <1>2, <1>3 DEF ManifestInv, Writers
  <2>2. ASSUME NEW b \in Appenders, appender'[b].pc # "idle"
        PROVE  /\ appender'[b].id \in 1..new /\ appender'[b].id \notin acked'
               /\ InFile(appender[b].id)'
                    <=> ~(appender'[b].pc = "write" /\ appender'[b].next = 1)
    <3>1. CASE b = a
      BY <1>1, <1>2, <1>3, <1>6, <1>8, <1>9, <3>1
    <3>2. CASE b # a
      <4>1. /\ appender[b].id \in 1..Len(records) /\ appender[b].id \notin acked
            /\ InFile(appender[b].id)
                 <=> ~(appender[b].pc = "write" /\ appender[b].next = 1)
        BY <1>6, <2>2, <3>2 DEF ManifestInv, Writers
      <4>2. InFile(appender[b].id)' <=> InFile(appender[b].id)
        BY <1>6, <3>2, <1>1 DEF InFile, StartsAt
      <4> QED BY <1>1, <1>3, <1>6, <3>2, <4>1, <4>2
    <3> QED BY <3>1, <3>2
  <2>3. ASSUME NEW b \in Appenders, NEW c \in Appenders,
               appender'[b].pc # "idle", appender'[c].pc # "idle",
               appender'[b].id = appender'[c].id
        PROVE  b = c
    BY <1>6, <2>1, <2>3 DEF ManifestInv, Writers
  <2> QED BY <1>5, <2>2, <2>3 DEF Writers
<1>12. Starts' /\ AckedKept'
  BY <1>1, <1>3, <1>5, <1>8 DEF ManifestInv, Starts, AckedKept, StartsAt
<1>13. FreshIds'
  <2>1. \A i \in 1..Len(records) :
          /\ Creates(i)' <=> Creates(i)
          /\ records'[i].file_id = records[i].file_id
          /\ Present(i)' => Present(i)
    BY <1>5, <1>8, <1>10 DEF Creates, Present
  <2>2. Creates(new)' => r.file_id = next_id /\ next_id' = next_id + 1
    BY <1>4, <1>5 DEF Creates
  <2>3. r.file_id \in Nat /\ r.file_id <= new
    <3>1. CASE r.op = "DeleteFile"
      <4>1. PICK c \in acked : records[c].file_id = r.file_id
        BY <1>4, <3>1
      <4>2. c \in 1..Len(records) /\ records[c].file_id <= c
        BY <1>2, <4>1 DEF ManifestInv, FreshIds
      <4> QED BY <1>2, <1>3, <4>1, <4>2 DEF ManifestRecord
    <3> QED BY <1>2, <1>3, <1>4, <3>1
  <2>4. \A i \in 1..Len(records) :
          /\ records[i].file_id <= i
          /\ Creates(i) /\ Present(i) => records[i].file_id < next_id
    BY <1>1 DEF ManifestInv, FreshIds
  <2>5. \A i, j \in 1..Len(records) :
          Creates(i) /\ Creates(j) /\ Present(i) /\ Present(j)
            /\ records[i].file_id = records[j].file_id => i = j
    BY DEF ManifestInv, FreshIds
  <2>6. \A i \in 1..Len(records) : records[i].file_id \in Nat
    <3>1. \A i \in 1..Len(records) : records[i] \in ManifestRecord
      BY <1>2
    <3>2. 1..MaxAppends \subseteq Nat
      BY ManifestAssumption
    <3> QED BY <3>1, <3>2 DEF ManifestRecord
  <2>7. next_id \in Nat /\ next_id' \in Nat /\ next_id <= next_id'
    BY <1>2, <1>4
  <2>8. \A i \in 1..new : records'[i].file_id <= i
    BY <1>3, <1>5, <2>1, <2>3, <2>4
  <2>9. \A i \in 1..new :
          Creates(i)' /\ Present(i)' => records'[i].file_id < next_id'
    BY <1>3, <1>5, <2>1, <2>2, <2>4, <2>6, <2>7
  <2>10. ASSUME NEW i \in 1..new, NEW j \in 1..new,
                Creates(i)', Creates(j)', Present(i)', Present(j)',
                records'[i].file_id = records'[j].file_id
         PROVE  i = j
    <3>1. \A k \in 1..Len(records) : Creates(k)' /\ Present(k)'
            => records'[k].file_id < next_id
      BY <2>1, <2>4
    <3>2. Creates(new)' => records'[new].file_id = next_id
      BY <1>5, <2>2
    <3>3. \A k \in 1..Len(records) : records'[k].file_id \in Nat
      BY <2>1, <2>6
    <3>4. CASE i \in 1..Len(records) /\ j \in 1..Len(records)
      BY <2>1, <2>5, <2>10, <3>4
    <3>5. CASE i = new \/ j = new
      BY <1>3, <2>7, <2>10, <3>1, <3>2, <3>3, <3>5
    <3> QED BY <1>3, <3>4, <3>5
  <2> QED BY <1>5, <2>8, <2>9, <2>10 DEF FreshIds
<1>14. DeletesLater'
  <2> SUFFICES ASSUME NEW d \in 1..new, ~Creates(d)'
               PROVE  \E c \in acked :
                        /\ Creates(c)' /\ records'[c].file_id = records'[d].file_id
                        /\ \A p, q \in 1..Len(file) :
                             StartsAt(p, c) /\ StartsAt(q, d) => p < q
    BY <1>1, <1>5 DEF DeletesLater, StartsAt
  <2>1. \A i \in acked : i \in 1..Len(records)
    BY <1>2
  <2>2. CASE d = new
    <3>1. r.op = "DeleteFile"
      BY <1>4, <1>5, <2>2 DEF Creates
    <3>2. PICK c \in acked : Creates(c) /\ records[c].file_id = r.file_id
      BY <1>4, <3>1
    <3>3. \A q \in 1..Len(file) : ~StartsAt(q, d)
      BY <1>9, <2>2 DEF InFile
    <3> QED BY <1>5, <2>1, <2>2, <3>2, <3>3 DEF Creates
  <2>3. CASE d \in 1..Len(records)
    <3>1. ~Creates(d)
      BY <1>5, <2>3 DEF Creates
    <3>2. PICK c \in acked :
            /\ Creates(c) /\ records[c].file_id = records[d].file_id
            /\ \A p, q \in 1..Len(file) : StartsAt(p, c) /\ StartsAt(q, d) => p < q
      BY <2>3, <3>1 DEF ManifestInv, DeletesLater
    <3> QED BY <1>5, <2>1, <2>3, <3>2 DEF Creates
  <2> QED BY <1>3, <2>2, <2>3
<1> QED BY <1>7, <1>11, <1>12, <1>13, <1>14 DEF ManifestInv

\* A piece at the end of the file: it may start the record of its appender.
LEMMA PieceStep ==
  ASSUME ManifestInv, NEW a \in Appenders, AppendPiece(a)
  PROVE  ManifestInv'
<1> DEFINE PC == {"idle", "write", "newline", "sync"}
<1>1. /\ file \in Seq(Nat \X Nat) /\ Len(file) \in Nat /\ synced \in 0..Len(file)
      /\ acked \in SUBSET (1..Len(records))
      /\ appender \in [Appenders -> [pc : PC, id : Nat, next : Nat \ {0}]]
  BY DEF ManifestInv, ManifestTypeOK
<1>2. PICK me \in Nat, k \in Nat \ {0} :
        /\ appender[a].pc = "write" /\ appender[a].id = me /\ appender[a].next = k
        /\ file' = Append(file, <<me, k>>)
        /\ appender' = [appender EXCEPT
             ![a].next = k + 1,
             ![a].pc = IF k = Pieces THEN "newline" ELSE "write"]
        /\ UNCHANGED <<synced, opened, next_id, records, acked, budget>>
  BY <1>1 DEF AppendPiece
<1>3. PICK end \in Nat :
        /\ end = Len(file) + 1 /\ Len(file') = end /\ file'[end] = <<me, k>>
        /\ \A p \in 1..Len(file) : file'[p] = file[p]
  BY <1>1, <1>2
<1>4. 1..end = 1..Len(file) \cup {end} /\ end \notin 1..Len(file)
  BY <1>1, <1>3
<1>5. /\ appender'[a].pc \in {"write", "newline"} /\ appender'[a].id = me
      /\ appender'[a].next = k + 1 /\ k + 1 # 1
      /\ \A b \in Appenders : b # a => appender'[b] = appender[b]
  BY <1>1, <1>2
<1>6. /\ me \in 1..Len(records) /\ me \notin acked
      /\ InFile(me) <=> k # 1
      /\ \A b \in Appenders : b # a /\ appender[b].pc # "idle"
           => appender[b].id # me
  BY <1>2 DEF ManifestInv, Writers
<1>7. ManifestTypeOK'
  <2>1. <<me, k>> \in Nat \X Nat
    OBVIOUS
  <2>2. file' \in Seq(Nat \X Nat) /\ synced' \in 0..Len(file')
    BY <1>1, <1>2, <1>3, <2>1
  <2>3. appender' \in [Appenders -> [pc : PC, id : Nat, next : Nat \ {0}]]
    <3>1. appender'[a] \in [pc : PC, id : Nat, next : Nat \ {0}]
      <4>1. appender[a] \in [pc : PC, id : Nat, next : Nat \ {0}]
        BY <1>1
      <4>2. appender'[a] = [appender[a] EXCEPT
              !.next = k + 1, !.pc = IF k = Pieces THEN "newline" ELSE "write"]
        BY <1>1, <1>2
      <4>3. PICK pc \in PC : pc = IF k = Pieces THEN "newline" ELSE "write"
        OBVIOUS
      <4>4. appender'[a] = [appender[a] EXCEPT !.next = k + 1, !.pc = pc]
        BY <4>2, <4>3
      <4>5. k + 1 \in Nat \ {0}
        OBVIOUS
      <4> HIDE DEF PC
      <4> QED BY ONLY <4>1, <4>3, <4>4, <4>5
    <3>2. appender' = [b \in Appenders |-> appender'[b]]
      BY <1>1, <1>2
    <3>3. \A b \in Appenders : appender'[b] \in [pc : PC, id : Nat, next : Nat \ {0}]
      BY <1>1, <1>5, <3>1
    <3> QED BY <3>2, <3>3
  <2> QED BY <1>2, <2>2, <2>3 DEF ManifestInv, ManifestTypeOK
\* Only the record of this appender can gain a start, and only by piece 1.
<1>8. \A id \in Nat : StartsAt(end, id)' <=> k = 1 /\ id = me
  BY <1>3 DEF StartsAt
<1>9. \A p \in 1..Len(file), id \in Nat : StartsAt(p, id)' <=> StartsAt(p, id)
  BY <1>3 DEF StartsAt
<1>10. \A id \in Nat : InFile(id)' <=> InFile(id) \/ (k = 1 /\ id = me)
  BY <1>3, <1>4, <1>8, <1>9 DEF InFile
<1>11. InFile(me)'
  BY <1>6, <1>10
<1>12. \A id \in Nat : Present(id)' => Present(id)
  BY <1>2, <1>5, <1>10 DEF Present, Writing
<1>13. Writers'
  <2>1. ASSUME NEW b \in Appenders, appender'[b].pc # "idle"
        PROVE  /\ appender'[b].id \in 1..Len(records') /\ appender'[b].id \notin acked'
               /\ InFile(appender[b].id)'
                    <=> ~(appender'[b].pc = "write" /\ appender'[b].next = 1)
    <3>1. CASE b = a
      <4>1. InFile(appender[a].id)' <=> InFile(me)'
        BY <1>2, <1>5 DEF InFile, StartsAt
      <4> QED BY <1>2, <1>5, <1>6, <1>11, <3>1, <4>1
    <3>2. CASE b # a
      <4>1. PICK id \in Nat : id = appender[b].id
        BY <1>1
      <4>2. /\ id \in 1..Len(records) /\ id \notin acked /\ id # me
            /\ InFile(id) <=> ~(appender[b].pc = "write" /\ appender[b].next = 1)
        BY <1>5, <1>6, <2>1, <3>2, <4>1 DEF ManifestInv, Writers
      <4>3. InFile(appender[b].id)' <=> InFile(id)'
        BY <1>5, <3>2, <4>1 DEF InFile, StartsAt
      <4>4. InFile(id)' <=> InFile(id)
        BY <1>10, <4>1, <4>2
      <4>5. appender'[b] = appender[b] /\ UNCHANGED <<records, acked>>
        BY <1>2, <1>5, <3>2
      <4> QED BY <4>1, <4>2, <4>3, <4>4, <4>5
    <3> QED BY <3>1, <3>2
  <2>2. ASSUME NEW b \in Appenders, NEW c \in Appenders,
               appender'[b].pc # "idle", appender'[c].pc # "idle",
               appender'[b].id = appender'[c].id
        PROVE  b = c
    BY <1>5, <1>6, <2>2 DEF ManifestInv, Writers
  <2> QED BY <2>1, <2>2 DEF Writers
<1>14. Starts'
  <2>1. ASSUME NEW id \in Nat
        PROVE  /\ InFile(id)' => id \in 1..Len(records)
               /\ \A p, q \in 1..end : StartsAt(p, id)' /\ StartsAt(q, id)' => p = q
    <3>1. /\ InFile(id) => id \in 1..Len(records)
          /\ \A p, q \in 1..Len(file) : StartsAt(p, id) /\ StartsAt(q, id) => p = q
      BY DEF ManifestInv, Starts
    <3>2. StartsAt(end, id)' => \A p \in 1..Len(file) : ~StartsAt(p, id)
      BY <1>6, <1>8 DEF InFile
    <3> QED BY <1>4, <1>6, <1>9, <1>10, <3>1, <3>2
  <2> QED BY <1>2, <1>3, <2>1 DEF Starts
<1>15. AckedKept'
  <2>1. 1..synced \subseteq 1..Len(file) /\ acked \subseteq Nat
    BY <1>1
  <2> QED BY <1>2, <1>9, <2>1 DEF ManifestInv, AckedKept
<1>16. FreshIds'
  <2>1. \A i \in 1..Len(records) : Creates(i)' <=> Creates(i)
    BY <1>2 DEF Creates
  <2> QED BY <1>2, <1>12, <2>1 DEF ManifestInv, FreshIds
<1>17. DeletesLater'
  <2> SUFFICES ASSUME NEW d \in 1..Len(records), ~Creates(d)'
               PROVE  \E c \in acked :
                        /\ Creates(c)' /\ records[c].file_id = records[d].file_id
                        /\ \A p, q \in 1..end :
                             StartsAt(p, c)' /\ StartsAt(q, d)' => p < q
    BY <1>2, <1>3 DEF DeletesLater
  <2>1. ~Creates(d)
    BY <1>2 DEF Creates
  <2>2. PICK c \in acked :
          /\ Creates(c) /\ records[c].file_id = records[d].file_id
          /\ \A p, q \in 1..Len(file) : StartsAt(p, c) /\ StartsAt(q, d) => p < q
    BY <2>1 DEF ManifestInv, DeletesLater
  <2>3. c \in Nat /\ d \in Nat /\ ~StartsAt(end, c)'
    BY <1>1, <1>6, <1>8, <2>2
  <2>4. \A p \in 1..Len(file) : p < end
    BY <1>1, <1>3
  <2>5. ASSUME NEW p \in 1..end, NEW q \in 1..end, StartsAt(p, c)', StartsAt(q, d)'
        PROVE  p < q
    <3>1. p \in 1..Len(file) /\ StartsAt(p, c)
      BY <1>4, <1>9, <2>3, <2>5
    <3>2. CASE q \in 1..Len(file)
      BY <1>9, <2>2, <2>3, <2>5, <3>1, <3>2
    <3>3. CASE q = end
      BY <2>4, <3>1, <3>3
    <3> QED BY <1>4, <3>2, <3>3
  <2>6. Creates(c)'
    BY <1>2, <2>2 DEF Creates
  <2> QED BY <2>2, <2>5, <2>6
<1> QED BY <1>7, <1>13, <1>14, <1>15, <1>16, <1>17 DEF ManifestInv

\* A newline starts no record.
LEMMA NewlineStep ==
  ASSUME ManifestInv, NEW a \in Appenders, AppendNewline(a)
  PROVE  ManifestInv'
<1> DEFINE PC == {"idle", "write", "newline", "sync"}
<1>1. /\ file \in Seq(Nat \X Nat) /\ Len(file) \in Nat /\ synced \in 0..Len(file)
      /\ acked \in SUBSET (1..Len(records))
      /\ appender \in [Appenders -> [pc : PC, id : Nat, next : Nat \ {0}]]
  BY DEF ManifestInv, ManifestTypeOK
<1>2. /\ appender[a].pc = "newline"
      /\ file' = Append(file, <<0, 0>>)
      /\ appender' = [appender EXCEPT ![a].pc = "sync"]
      /\ UNCHANGED <<synced, opened, next_id, records, acked, budget>>
  BY DEF AppendNewline, Newline
<1>3. PICK end \in Nat :
        /\ end = Len(file) + 1 /\ Len(file') = end /\ file'[end] = <<0, 0>>
        /\ \A p \in 1..Len(file) : file'[p] = file[p]
  BY <1>1, <1>2
<1>4. 1..end = 1..Len(file) \cup {end} /\ end \notin 1..Len(file)
  BY <1>1, <1>3
<1>5. /\ appender'[a].pc = "sync" /\ appender'[a].id = appender[a].id
      /\ appender'[a].next = appender[a].next
      /\ \A b \in Appenders : b # a => appender'[b] = appender[b]
  BY <1>1, <1>2
<1>6. ManifestTypeOK'
  <2>1. <<0, 0>> \in Nat \X Nat
    OBVIOUS
  <2>2. file' \in Seq(Nat \X Nat) /\ synced' \in 0..Len(file')
    BY <1>1, <1>2, <1>3, <2>1
  <2>3. appender' \in [Appenders -> [pc : PC, id : Nat, next : Nat \ {0}]]
    BY <1>1, <1>2
  <2> QED BY <1>2, <2>2, <2>3 DEF ManifestInv, ManifestTypeOK
<1>7. \A id : ~StartsAt(end, id)'
  BY <1>3 DEF StartsAt
<1>8. \A p \in 1..Len(file), id \in Nat : StartsAt(p, id)' <=> StartsAt(p, id)
  BY <1>3 DEF StartsAt
<1>9. \A id \in Nat : InFile(id)' <=> InFile(id)
  BY <1>3, <1>4, <1>7, <1>8 DEF InFile
<1>10. \A id \in Nat : Present(id)' <=> Present(id)
  BY <1>2, <1>5, <1>9 DEF Present, Writing
<1>11. Writers'
  <2>1. ASSUME NEW b \in Appenders, appender'[b].pc # "idle"
        PROVE  /\ appender'[b].id \in 1..Len(records') /\ appender'[b].id \notin acked'
               /\ InFile(appender[b].id)'
                    <=> ~(appender'[b].pc = "write" /\ appender'[b].next = 1)
    <3>1. PICK id \in Nat : id = appender[b].id /\ id = appender'[b].id
      BY <1>1, <1>5
    <3>2. /\ id \in 1..Len(records) /\ id \notin acked
          /\ InFile(id) <=> ~(appender'[b].pc = "write" /\ appender'[b].next = 1)
      BY <1>2, <1>5, <2>1, <3>1 DEF ManifestInv, Writers
    <3>3. InFile(appender[b].id)' <=> InFile(id)
      BY <1>9, <3>1 DEF InFile, StartsAt
    <3> QED BY <1>2, <3>1, <3>2, <3>3
  <2>2. ASSUME NEW b \in Appenders, NEW c \in Appenders,
               appender'[b].pc # "idle", appender'[c].pc # "idle",
               appender'[b].id = appender'[c].id
        PROVE  b = c
    BY <1>2, <1>5, <2>2 DEF ManifestInv, Writers
  <2> QED BY <2>1, <2>2 DEF Writers
<1>12. Starts'
  BY <1>2, <1>3, <1>4, <1>7, <1>8, <1>9 DEF ManifestInv, Starts
<1>13. AckedKept'
  <2>1. 1..synced \subseteq 1..Len(file) /\ acked \subseteq Nat
    BY <1>1
  <2> QED BY <1>2, <1>8, <2>1 DEF ManifestInv, AckedKept
<1>14. FreshIds'
  <2>1. \A i \in 1..Len(records) : Creates(i)' <=> Creates(i)
    BY <1>2 DEF Creates
  <2> QED BY <1>2, <1>10, <2>1 DEF ManifestInv, FreshIds
<1>15. DeletesLater'
  <2>1. \A i : Creates(i)' <=> Creates(i)
    BY <1>2 DEF Creates
  <2>2. acked \subseteq Nat /\ 1..Len(records) \subseteq Nat
    BY <1>1
  <2> QED BY <1>2, <1>3, <1>4, <1>7, <1>8, <2>1, <2>2 DEF ManifestInv, DeletesLater
<1> QED BY <1>6, <1>11, <1>12, <1>13, <1>14, <1>15 DEF ManifestInv

\* An append that returns, with or without an error, leaves the file alone.
LEMMA ReturnStep ==
  ASSUME ManifestInv, NEW a \in Appenders, AppendSync(a) \/ AppendFail(a)
  PROVE  ManifestInv'
<1>1. /\ file \in Seq(Nat \X Nat) /\ Len(file) \in Nat /\ synced \in 0..Len(file)
      /\ acked \in SUBSET (1..Len(records))
      /\ appender \in [Appenders -> [pc : {"idle", "write", "newline", "sync"},
                                     id : Nat, next : Nat \ {0}]]
  BY DEF ManifestInv, ManifestTypeOK
<1>2. PICK me \in Nat : me = appender[a].id
  BY <1>1
<1>3. /\ appender[a].pc # "idle" /\ appender' = [appender EXCEPT ![a] = IdleAppender]
      /\ UNCHANGED <<file, opened, next_id, records>>
      /\ \/ synced' = synced /\ acked' = acked
         \/ /\ appender[a].pc = "sync" /\ synced' = Len(file)
            /\ acked' = acked \cup {me}
  BY <1>2 DEF AppendSync, AppendFail
<1>4. /\ IdleAppender \in [pc : {"idle", "write", "newline", "sync"},
                          id : Nat, next : Nat \ {0}]
      /\ IdleAppender.pc = "idle"
  BY DEF IdleAppender
<1>5. /\ appender'[a].pc = "idle"
      /\ \A b \in Appenders : b # a => appender'[b] = appender[b]
  BY <1>1, <1>3, <1>4
<1>6. /\ me \in 1..Len(records)
      /\ appender[a].pc = "sync" => InFile(me)
      /\ \A b \in Appenders : b # a /\ appender[b].pc # "idle"
           => appender[b].id # me
  BY <1>2, <1>3 DEF ManifestInv, Writers
<1>7. /\ synced' \in 0..Len(file) /\ synced <= synced'
      /\ acked' \in SUBSET (1..Len(records)) /\ acked \subseteq acked'
  <2>1. CASE synced' = synced /\ acked' = acked
    BY <1>1, <2>1
  <2>2. CASE synced' = Len(file) /\ acked' = acked \cup {me}
    <3>1. synced \in Nat /\ synced <= Len(file) /\ Len(file) \in 0..Len(file)
      BY <1>1
    <3>2. acked \cup {me} \in SUBSET (1..Len(records))
      BY <1>1, <1>6
    <3> QED BY <2>2, <3>1, <3>2
  <2> QED BY <1>3, <2>1, <2>2
<1>8. ManifestTypeOK'
  <2>1. appender' \in [Appenders -> [pc : {"idle", "write", "newline", "sync"},
                                     id : Nat, next : Nat \ {0}]]
    BY <1>1, <1>3, <1>4
  <2> QED BY <1>3, <1>7, <2>1 DEF ManifestInv, ManifestTypeOK
<1>9. /\ \A p, id : StartsAt(p, id)' <=> StartsAt(p, id)
      /\ \A id : InFile(id)' <=> InFile(id)
      /\ \A i : Creates(i)' <=> Creates(i)
  BY <1>3 DEF StartsAt, InFile, Creates
<1>10. \A id : Present(id)' => Present(id)
  BY <1>5, <1>9 DEF Present, Writing
<1>11. Writers'
  <2>1. ASSUME NEW b \in Appenders, appender'[b].pc # "idle"
        PROVE  /\ appender'[b].id \in 1..Len(records') /\ appender'[b].id \notin acked'
               /\ InFile(appender[b].id)'
                    <=> ~(appender'[b].pc = "write" /\ appender'[b].next = 1)
    <3>1. b # a /\ appender'[b] = appender[b]
      BY <1>5, <2>1
    <3>2. /\ appender[b].id \in 1..Len(records) /\ appender[b].id \notin acked
          /\ InFile(appender[b].id)
               <=> ~(appender[b].pc = "write" /\ appender[b].next = 1)
      BY <2>1, <3>1 DEF ManifestInv, Writers
    <3>3. InFile(appender[b].id)' <=> InFile(appender[b].id)
      BY <1>3, <3>1 DEF InFile, StartsAt
    <3> QED BY <1>3, <1>6, <2>1, <3>1, <3>2, <3>3
  <2>2. ASSUME NEW b \in Appenders, NEW c \in Appenders,
               appender'[b].pc # "idle", appender'[c].pc # "idle",
               appender'[b].id = appender'[c].id
        PROVE  b = c
    BY <1>5, <2>2 DEF ManifestInv, Writers
  <2> QED BY <2>1, <2>2 DEF Writers
<1>12. Starts'
  BY <1>3, <1>9 DEF ManifestInv, Starts
<1>13. AckedKept'
  <2>1. 1..synced \subseteq 1..synced'
    BY <1>1, <1>7
  <2>2. \A id \in acked : \E p \in 1..synced' : StartsAt(p, id)
    BY <2>1 DEF ManifestInv, AckedKept
  <2>3. acked' # acked => \E p \in 1..synced' : StartsAt(p, me)
    BY <1>3, <1>6 DEF InFile
  <2> QED BY <1>3, <1>9, <2>2, <2>3 DEF AckedKept
<1>14. FreshIds'
  BY <1>3, <1>9, <1>10 DEF ManifestInv, FreshIds
<1>15. DeletesLater'
  BY <1>3, <1>7, <1>9 DEF ManifestInv, DeletesLater
<1> QED BY <1>8, <1>11, <1>12, <1>13, <1>14, <1>15 DEF ManifestInv

\* A restart: the records of acknowledged appends survive, and the next file
\* id is above those of the records that load finds.
LEMMA ReopenStep ==
  ASSUME ManifestInv, Reopen
  PROVE  ManifestInv'
<1>1. /\ file \in Seq(Nat \X Nat) /\ Len(file) \in Nat /\ synced \in 0..Len(file)
      /\ acked \in SUBSET (1..Len(records)) /\ Len(records) \in Nat
      /\ next_id \in 1..(Len(records) + 1)
  BY DEF ManifestInv, ManifestTypeOK
<1>2. PICK n \in synced..Len(file) :
        /\ file' = SubSeq(file, 1, n) /\ synced' = n
        /\ opened' = Loads(SubSeq(file, 1, n))
        /\ next_id' = IF Loads(SubSeq(file, 1, n))
                      THEN next_file_id(SubSeq(file, 1, n)) ELSE next_id
  BY DEF Reopen
<1>3. /\ appender' = [a \in Appenders |-> IdleAppender]
      /\ UNCHANGED <<records, acked>>
  BY DEF Reopen
<1>4. PICK kept \in Seq(Nat \X Nat) : kept = SubSeq(file, 1, n)
  <2>1. n \in Nat /\ 1 \in Nat /\ 1 <= 1 /\ 1 <= n + 1 /\ n <= Len(file)
    BY <1>1, <1>2
  <2> QED BY <1>1, <2>1, Stretch
<1>5. /\ n \in Nat /\ n <= Len(file) /\ synced <= n /\ Len(kept) = n
      /\ \A p \in 1..n : kept[p] = file[p]
  <2>1. n \in Nat /\ 1 \in Nat /\ 1 <= 1 /\ 1 <= n + 1 /\ n <= Len(file)
        /\ synced <= n /\ n - 1 + 1 = n /\ \A p \in 1..n : 1 + p - 1 = p
    BY <1>1, <1>2
  <2>2. /\ Len(SubSeq(file, 1, n)) = n - 1 + 1
        /\ \A i \in 1..(n - 1 + 1) : SubSeq(file, 1, n)[i] = file[1 + i - 1]
    BY <1>1, <2>1, Stretch
  <2> QED BY <1>4, <2>1, <2>2
<1>6. 1..n \subseteq 1..Len(file) /\ 1..synced \subseteq 1..n /\ Len(file') = n
  BY <1>1, <1>2, <1>4, <1>5
<1>7. /\ \A p \in 1..n, id \in Nat : StartsAt(p, id)' <=> StartsAt(p, id)
      /\ \A p \in 1..n, id \in Nat : StartsAt(p, id)' <=> kept[p] = <<id, 1>>
  BY <1>2, <1>4, <1>5 DEF StartsAt
<1>8. \A id \in Nat : InFile(id)' => InFile(id)
  BY <1>6, <1>7 DEF InFile
<1>9. \A a \in Appenders : appender'[a].pc = "idle"
  BY <1>3 DEF IdleAppender
<1>10. \A id \in Nat : Present(id)' => InFile(id)' /\ Present(id)
  BY <1>8, <1>9 DEF Present, Writing
<1>11. \A i : Creates(i)' <=> Creates(i)
  BY <1>3 DEF Creates
<1>12. \A i \in 1..Len(records) :
         records[i].file_id \in Nat /\ records[i].file_id <= i
  <2>1. \A i \in 1..Len(records) : records[i] \in ManifestRecord
    BY DEF ManifestInv, ManifestTypeOK
  <2>2. 1..MaxAppends \subseteq Nat
    BY ManifestAssumption
  <2> QED BY <2>1, <2>2 DEF ManifestInv, FreshIds, ManifestRecord
<1> DEFINE found == {c.id : c \in Found(kept)}
\* What load finds is in the file.
<1>13. \A id \in found : id \in 1..Len(records)
  <2> SUFFICES ASSUME NEW c \in Found(kept) PROVE c.id \in 1..Len(records)
    OBVIOUS
  <2>1. c.at + 1 \in 1..n /\ c.id \in AppendId /\ kept[c.at + 1] = <<c.id, 1>>
    BY <1>5, FoundStarts
  <2>2. c.id \in Nat /\ c.at + 1 \in 1..Len(file) /\ file[c.at + 1] = <<c.id, 1>>
    BY <1>5, <1>6, <2>1 DEF AppendId
  <2>3. InFile(c.id)
    BY <2>2 DEF InFile, StartsAt
  <2> QED BY <2>2, <2>3 DEF ManifestInv, Starts
<1>14. /\ CreatedBy(found) \in SUBSET Nat
       /\ \A m \in CreatedBy(found) : m <= Len(records)
  <2> SUFFICES ASSUME NEW m \in CreatedBy(found)
               PROVE  m \in Nat /\ m <= Len(records)
    OBVIOUS
  <2>1. PICK i \in found : m = records[i].file_id
    BY DEF CreatedBy
  <2>2. i \in 1..Len(records)
    BY <1>13
  <2>3. m \in Nat /\ m <= i /\ i <= Len(records)
    BY <1>1, <1>12, <2>1, <2>2
  <2> QED BY <1>1, <2>2, <2>3
<1>15. /\ next_file_id(kept) = 1 + Max({0} \cup CreatedBy(found))
       /\ Max({0} \cup CreatedBy(found)) \in Nat
       /\ Max({0} \cup CreatedBy(found)) <= Len(records)
       /\ \A m \in CreatedBy(found) : m <= Max({0} \cup CreatedBy(found))
  BY <1>1, <1>14, LoadedAbove DEF next_file_id
<1>16. /\ next_file_id(kept) \in 1..(Len(records) + 1)
       /\ \A m \in CreatedBy(found) : m < next_file_id(kept)
  <2>1. PICK top \in Nat :
          /\ top = Max({0} \cup CreatedBy(found)) /\ top <= Len(records)
    BY <1>15
  <2>2. next_file_id(kept) = 1 + top /\ \A m \in CreatedBy(found) : m <= top
    BY <1>15, <2>1
  <2>3. \A m \in CreatedBy(found) : m \in Nat /\ m <= top
    BY <1>14, <2>2
  <2>4. /\ 1 + top \in 1..(Len(records) + 1)
        /\ \A m \in CreatedBy(found) : m < 1 + top
    <3> HIDE DEF found
    <3>1. Len(records) \in Nat /\ top <= Len(records)
      BY <1>1, <2>1
    <3> QED BY ONLY <2>3, <3>1
  <2> QED BY <2>2, <2>4
<1> HIDE DEF found
<1>17. ManifestTypeOK'
  <2>1. IdleAppender \in [pc : {"idle", "write", "newline", "sync"},
                          id : Nat, next : Nat \ {0}]
    BY DEF IdleAppender
  <2>2. next_id' \in 1..(Len(records') + 1)
    BY <1>1, <1>2, <1>3, <1>4, <1>16
  <2>3. opened' \in BOOLEAN
    BY <1>2 DEF Loads
  <2>4. synced' \in 0..Len(file') /\ file' \in Seq(Nat \X Nat)
    BY <1>2, <1>4, <1>5
  <2> QED BY <1>3, <2>1, <2>2, <2>3, <2>4 DEF ManifestInv, ManifestTypeOK
<1>18. Writers'
  BY <1>9 DEF Writers
<1>19. Starts'
  BY <1>3, <1>6, <1>7, <1>8 DEF ManifestInv, Starts
<1>20. AckedKept'
  <2>1. acked \subseteq Nat
    BY <1>1
  <2> QED BY <1>2, <1>3, <1>6, <1>7, <2>1 DEF ManifestInv, AckedKept
<1>21. FreshIds'
  <2>1. ASSUME opened', NEW i \in 1..Len(records), Creates(i), Present(i)'
        PROVE  records[i].file_id < next_id'
    <3>1. PICK p \in 1..n : kept[p] = <<i, 1>>
      <4>1. i \in Nat
        OBVIOUS
      <4>2. InFile(i)'
        BY <1>10, <2>1, <4>1
      <4> QED BY <1>6, <1>7, <4>1, <4>2 DEF InFile
    <3>2. Loads(kept) /\ p \in 1..Len(kept) /\ i \in Nat
      BY <1>2, <1>4, <1>5, <2>1
    <3>3. [at |-> p - 1, id |-> i] \in Found(kept)
      BY <3>1, <3>2, FoundAt
    <3>4. i \in found
      BY <3>3 DEF found
    <3>5. records[i].file_id \in CreatedBy(found)
      BY <2>1, <3>4 DEF CreatedBy, Creates
    <3> QED BY <1>2, <1>4, <1>16, <3>2, <3>5
  <2>2. \A i, j \in 1..Len(records) :
          Creates(i) /\ Creates(j) /\ Present(i)' /\ Present(j)'
            /\ records[i].file_id = records[j].file_id => i = j
    BY <1>10 DEF ManifestInv, FreshIds
  <2> QED BY <1>3, <1>11, <1>12, <2>1, <2>2 DEF FreshIds
<1>22. DeletesLater'
  <2>1. acked \subseteq Nat /\ 1..Len(records) \subseteq Nat
    BY <1>1
  <2> QED BY <1>3, <1>6, <1>7, <1>11, <2>1 DEF ManifestInv, DeletesLater
<1> QED BY <1>17, <1>18, <1>19, <1>20, <1>21, <1>22 DEF ManifestInv

-----------------------------------------------------------------------------
(* What load promises, from the invariant.                                 *)

LEMMA LoadFollows ==
  ASSUME ManifestInv
  PROVE  LoadExact
<1>1. /\ file \in Seq(Nat \X Nat) /\ Len(file) \in Nat /\ synced \in 0..Len(file)
      /\ acked \in SUBSET (1..Len(records)) /\ Len(records) \in Nat
      /\ DOMAIN records = 1..Len(records) /\ records \in Seq(ManifestRecord)
  BY DEF ManifestInv, ManifestTypeOK
<1> SUFFICES ASSUME Loads(file)
             PROVE  /\ CreatedBy(acked) \ DeletedBy(DOMAIN records)
                         \subseteq live_files(file)
                    /\ DeletedBy(acked) \cap live_files(file) = {}
                    /\ \A n \in CreatedBy(acked) : n < next_file_id(file)
  BY DEF LoadExact
<1>2. \A i \in 1..Len(records) :
        /\ records[i].op \in {"CreateFile", "DeleteFile"}
        /\ records[i].file_id \in 1..MaxAppends
        /\ records[i] = [op |-> records[i].op, file_id |-> records[i].file_id]
        /\ records[i].file_id \in Nat /\ records[i].file_id <= i
  <2>1. \A i \in 1..Len(records) : records[i] \in ManifestRecord
    BY <1>1
  <2>2. 1..MaxAppends \subseteq Nat
    BY ManifestAssumption
  <2> QED BY <2>1, <2>2 DEF ManifestInv, FreshIds, ManifestRecord
\* Load finds the acknowledged appends,
<1>3. ASSUME NEW i \in acked
      PROVE  \E c \in Found(file) : c.id = i /\ StartsAt(c.at + 1, i)
                                    /\ c.at \in Nat /\ c.at + 1 \in 1..Len(file)
  <2>1. PICK p \in 1..synced : StartsAt(p, i)
    BY DEF ManifestInv, AckedKept
  <2>2. p \in 1..Len(file) /\ i \in Nat /\ p - 1 \in Nat /\ p - 1 + 1 = p
    BY <1>1
  <2>3. [at |-> p - 1, id |-> i] \in Found(file)
    BY <1>1, <2>1, <2>2, FoundAt DEF StartsAt
  <2> QED BY <2>1, <2>2, <2>3
\* and whatever it finds is in the file.
<1>4. ASSUME NEW c \in Found(file)
      PROVE  /\ c.at \in Nat /\ c.at + 1 \in 1..Len(file)
             /\ StartsAt(c.at + 1, c.id) /\ Present(c.id)
             /\ c.id \in 1..Len(records)
  <2>1. /\ c.at \in Nat /\ c.at + 1 \in 1..Len(file)
        /\ c.id \in AppendId /\ StartsAt(c.at + 1, c.id)
    BY <1>1, FoundStarts DEF StartsAt
  <2>2. c.id \in Nat /\ InFile(c.id)
    BY <2>1 DEF InFile, AppendId
  <2> QED BY <2>1, <2>2 DEF ManifestInv, Starts, Present
<1>5. CreatedBy(acked) \ DeletedBy(DOMAIN records) \subseteq live_files(file)
  <2> SUFFICES ASSUME NEW n \in CreatedBy(acked), n \notin DeletedBy(DOMAIN records)
               PROVE  n \in live_files(file)
    OBVIOUS
  <2>1. PICK i \in acked : records[i].op = "CreateFile" /\ records[i].file_id = n
    BY DEF CreatedBy
  <2>2. PICK c \in Found(file) : c.id = i
    BY <1>3
  <2>3. n \in 1..MaxAppends /\ records[c.id] = [op |-> "CreateFile", file_id |-> n]
    BY <1>1, <1>2, <2>1, <2>2
  <2>4. ASSUME NEW d \in Found(file), records[d.id].file_id = n
        PROVE  records[d.id].op = "CreateFile"
    <3>1. d.id \in 1..Len(records)
      BY <1>4
    <3>2. records[d.id].op # "DeleteFile"
      BY <1>1, <2>4, <3>1 DEF DeletedBy
    <3> QED BY <1>2, <3>1, <3>2
  <2> QED BY <2>3, <2>4 DEF live_files
<1>6. DeletedBy(acked) \cap live_files(file) = {}
  <2> SUFFICES ASSUME NEW n \in DeletedBy(acked), n \in live_files(file)
               PROVE  FALSE
    OBVIOUS
  <2>1. PICK d \in acked : records[d].op = "DeleteFile" /\ records[d].file_id = n
    BY DEF DeletedBy
  <2>2. PICK x \in Found(file) :
          /\ x.id = d /\ StartsAt(x.at + 1, d)
          /\ x.at \in Nat /\ x.at + 1 \in 1..Len(file)
    BY <1>3
  <2>3. PICK c \in Found(file) :
          /\ records[c.id] = [op |-> "CreateFile", file_id |-> n]
          /\ \A y \in Found(file) :
               records[y.id].file_id = n /\ y.at > c.at
                 => records[y.id].op = "CreateFile"
    BY DEF live_files
  <2>4. PICK i \in acked :
          /\ Creates(i) /\ records[i].file_id = n
          /\ \A p, q \in 1..Len(file) : StartsAt(p, i) /\ StartsAt(q, d) => p < q
    <3>1. d \in 1..Len(records) /\ ~Creates(d)
      BY <1>1, <2>1 DEF Creates
    <3> QED BY <2>1, <3>1 DEF ManifestInv, DeletesLater
\* The creation that is live is the one whose deletion this is.
  <2>5. c.id = i
    <3>1. Present(i) /\ i \in 1..Len(records)
      <4>1. \E y \in Found(file) : y.id = i
        BY <1>3
      <4> QED BY <1>4, <4>1
    <3>2. /\ Present(c.id) /\ c.id \in 1..Len(records) /\ Creates(c.id)
          /\ records[c.id].file_id = n
      BY <1>4, <2>3 DEF Creates
    <3> QED BY <2>4, <3>1, <3>2 DEF ManifestInv, FreshIds
  <2>6. c.at < x.at
    <3>1. c.at \in Nat /\ c.at + 1 \in 1..Len(file) /\ StartsAt(c.at + 1, i)
      BY <1>4, <2>5
    <3>2. c.at + 1 < x.at + 1
      BY <2>2, <2>4, <3>1
    <3> QED BY <2>2, <3>1, <3>2
  <2>7. x.at > c.at
    BY <1>4, <2>2, <2>6
  <2> QED BY <2>1, <2>2, <2>3, <2>7
<1>7. ASSUME NEW n \in CreatedBy(acked)
      PROVE  n < next_file_id(file)
  <2> DEFINE ids == CreatedBy({c.id : c \in Found(file)})
  <2>1. PICK i \in acked : records[i].op = "CreateFile" /\ records[i].file_id = n
    BY DEF CreatedBy
  <2>2. i \in {c.id : c \in Found(file)}
    BY <1>3
  <2>3. n \in ids
    BY <2>1, <2>2 DEF CreatedBy
  <2>4. ids \in SUBSET Nat /\ \A m \in ids : m <= Len(records)
    <3> SUFFICES ASSUME NEW m \in ids PROVE m \in Nat /\ m <= Len(records)
      OBVIOUS
    <3>1. PICK c \in Found(file) : m = records[c.id].file_id
      BY DEF CreatedBy
    <3> QED BY <1>1, <1>2, <1>4, <3>1
  <2>5. next_file_id(file) = 1 + Max({0} \cup ids)
    BY DEF next_file_id
  <2> HIDE DEF ids
  <2>6. /\ Max({0} \cup ids) \in Nat
        /\ \A m \in ids : m <= Max({0} \cup ids)
    BY <1>1, <2>4, LoadedAbove
  <2>7. PICK top \in Nat : top = Max({0} \cup ids)
    BY <2>6
  <2>8. n \in Nat /\ n <= top /\ next_file_id(file) = 1 + top
    BY <2>3, <2>4, <2>5, <2>6, <2>7
  <2> HIDE DEF ids
  <2> QED BY ONLY <2>7, <2>8
<1> QED BY <1>5, <1>6, <1>7

LEMMA UniqueFollows ==
  ASSUME ManifestInv
  PROVE  FileIdsUnique
<1>1. acked \subseteq 1..Len(records) /\ 1..synced \subseteq 1..Len(file)
  BY DEF ManifestInv, ManifestTypeOK
<1>2. \A i \in acked : Present(i)
  BY <1>1 DEF ManifestInv, AckedKept, Present, InFile
<1> QED BY <1>1, <1>2 DEF ManifestInv, FreshIds, FileIdsUnique, Creates

\* However appends interleave, fail and are cut short by restarts, the
\* manifest keeps what its invariant says.
THEOREM ManifestInvariant == Spec => []ManifestInv
<1>1. ASSUME ManifestInv, [Next]_vars
      PROVE  ManifestInv'
  <2>1. ASSUME NEW a \in Appenders,
               \/ AppendBegin(a) \/ AppendPiece(a) \/ AppendNewline(a)
               \/ AppendSync(a) \/ AppendFail(a)
        PROVE  ManifestInv'
    BY <1>1, <2>1, BeginStep, PieceStep, NewlineStep, ReturnStep
  <2>2. CASE Reopen
    BY <1>1, <2>2, ReopenStep
  <2>3. CASE UNCHANGED vars
    <3>1. UNCHANGED <<file, synced, opened, next_id, records, appender, acked>>
      BY <2>3 DEF vars
    <3>2. ManifestTypeOK' /\ Writers' /\ Starts' /\ AckedKept'
      BY <1>1, <3>1 DEF ManifestInv, ManifestTypeOK, Writers, Starts, AckedKept,
                        InFile, StartsAt
    <3>3. /\ \A i : /\ Creates(i)' <=> Creates(i)
                    /\ Present(i)' <=> Present(i)
          /\ \A p, i : StartsAt(p, i)' <=> StartsAt(p, i)
      BY <3>1 DEF Creates, Present, InFile, Writing, StartsAt
    <3>4. FreshIds'
      BY <1>1, <3>1, <3>3 DEF ManifestInv, FreshIds
    <3>5. DeletesLater'
      BY <1>1, <3>1, <3>3 DEF ManifestInv, DeletesLater
    <3> QED BY <3>2, <3>4, <3>5 DEF ManifestInv
  <2> QED BY <1>1, <2>1, <2>2, <2>3 DEF Next
<1> QED BY <1>1, InitManifest, PTL DEF Spec

\* Whenever Manifest::load succeeds it knows every append that has returned
\* Ok: acknowledged creations are live until their deletion is begun,
\* acknowledged deletions are not, and no acknowledged id is given out again.
THEOREM LoadCorrect == Spec => []LoadExact
<1>1. ManifestInv => LoadExact
  BY LoadFollows
<1> QED BY <1>1, ManifestInvariant, PTL

\* No two acknowledged CreateFile records name the same file, across restarts.
THEOREM FileIdsCorrect == Spec => []FileIdsUnique
<1>1. ManifestInv => FileIdsUnique
  BY UniqueFollows
<1> QED BY <1>1, ManifestInvariant, PTL


=============================================================================
