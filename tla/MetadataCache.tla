--------------------------- MODULE MetadataCache ---------------------------
(***************************************************************************)
(* The cache of segment metadata (src/csr/cache.rs) and the readers that   *)
(* go through it (src/csr/reader.rs, and the L0 loop of                    *)
(* Engine::get_neighbors_typed_internal): probe the bloom filter of a      *)
(* cached segment, take its offset table from the cache, or read the table *)
(* from disk and insert it.  Every cache operation runs under its mutex;   *)
(* the read from disk is an await between a miss and its insert.           *)
(*                                                                         *)
(* An offset table is the set of the sources it lists.  Segments never     *)
(* change once they can be read (LsmEngine's SegmentsImmutable).           *)
(***************************************************************************)
EXTENDS Integers, Sequences, FiniteSets, FiniteSetsExt

CONSTANTS
  Files,        \* segments
  Sources,      \* vertices that are asked for
  offsets,      \* segment -> the sources in its offset table
  hashes,       \* source -> the three values that bits_for masks
  max_entries,  \* capacity of the cache
  Readers,      \* concurrent queries
  MaxCalls,     \* bound: segments visited
  MaxFaults     \* bound: failed reads

ASSUME CacheAssumption ==
  /\ IsFiniteSet(Files)
  /\ offsets \in [Files -> SUBSET Sources]
  /\ \A f \in Files : IsFiniteSet(offsets[f])
  /\ hashes \in [Sources -> SUBSET Nat]
  /\ max_entries \in Nat \ {0}
  /\ MaxCalls \in Nat
  /\ MaxFaults \in Nat

VARIABLES
  map,     \* cached segment -> its metadata
  lru,     \* segments in the order of their uses, with repetitions
  reader,  \* the local state of every query
  budget   \* what is left of the bounds

vars == <<map, lru, reader, budget>>

-----------------------------------------------------------------------------
(* SourceBloom.                                                            *)

\* The smallest power of two that gives every source 16 bits, at least 64.
bit_count(sources) ==
  LET wanted == 16 * Cardinality(sources)
  IN CHOOSE n \in {64 * 2 ^ k : k \in 0..Cardinality(sources)} :
       /\ n >= wanted
       /\ n = 64 \/ n < 2 * wanted

bits_for(src, sources) == {h % bit_count(sources) : h \in hashes[src]}

\* CachedCsrMetadata::new, which fills the filter from the offset table.
Metadata(sources) ==
  [sources |-> sources,
   src_filter |-> UNION {bits_for(s, sources) : s \in sources}]

\* Slip: the query masks with the smallest filter size.
may_contain_small(metadata, src) ==
  {h % 64 : h \in hashes[src]} \subseteq metadata.src_filter

may_contain(metadata, src) ==
  bits_for(src, metadata.sources) \subseteq metadata.src_filter

-----------------------------------------------------------------------------
(* CsrMetadataCache.                                                       *)

\* get: a hit is recorded at the back of the queue.
CacheGet(f) ==
  /\ f \in DOMAIN map
  /\ lru' = Append(lru, f)
  /\ UNCHANGED map

\* The first n entries of the queue, which an insert of f takes out.
Victims(f, n) == {lru[i] : i \in 1..n} \ {f}

Enough(f, n) == Cardinality(DOMAIN map \ Victims(f, n)) < max_entries

\* How many entries the loop pops: until there is room or nothing is left.
Popped(f) ==
  LET room == {n \in 0..Len(lru) : Enough(f, n)}
  IN IF room = {} THEN Len(lru) ELSE Min(room)

Put(cached, f, metadata) ==
  [g \in cached \cup {f} |-> IF g = f THEN metadata ELSE map[g]]

\* Slip: an inserted segment enters the queue at its first hit only.
CacheInsertUnqueued(f, metadata) ==
  \/ /\ f \in DOMAIN map
     /\ map' = Put(DOMAIN map, f, metadata)
     /\ UNCHANGED lru
  \/ /\ f \notin DOMAIN map
     /\ map' = Put(DOMAIN map \ Victims(f, Popped(f)), f, metadata)
     /\ lru' = SubSeq(lru, Popped(f) + 1, Len(lru))

\* insert: a segment that another reader has inserted meanwhile is replaced.
CacheInsert(f, metadata) ==
  \/ /\ f \in DOMAIN map
     /\ map' = Put(DOMAIN map, f, metadata)
     /\ lru' = Append(lru, f)
  \/ /\ f \notin DOMAIN map
     /\ map' = Put(DOMAIN map \ Victims(f, Popped(f)), f, metadata)
     /\ lru' = Append(SubSeq(lru, Popped(f) + 1, Len(lru)), f)

-----------------------------------------------------------------------------
(* A query visits segments.                                                *)

Init ==
  /\ map = <<>>
  /\ lru = <<>>
  /\ reader = [r \in Readers |-> [pc |-> "idle"]]
  /\ budget = [calls |-> MaxCalls, faults |-> MaxFaults]

\* The query turns to segment f, looking for source s.
Visit(r) ==
  /\ reader[r].pc \in {"idle", "answered"}
  /\ budget.calls > 0
  /\ budget' = [budget EXCEPT !.calls = @ - 1]
  /\ \E f \in Files, s \in Sources :
       reader' = [reader EXCEPT ![r] = [pc |-> "probe", file |-> f, src |-> s]]
  /\ UNCHANGED <<map, lru>>

Answer(r, found) ==
  reader' = [reader EXCEPT ![r] = [pc |-> "answered", file |-> reader[r].file,
                                   src |-> reader[r].src, found |-> found]]

Goto(r, pc) ==
  reader' = [reader EXCEPT ![r] = [pc |-> pc, file |-> reader[r].file,
                                   src |-> reader[r].src]]

\* cached_may_contain_src of a cached segment: Some(false) skips the segment.
ProbeHit(r) ==
  LET f == reader[r].file
  IN /\ reader[r].pc = "probe"
     /\ CacheGet(f)
     /\ IF may_contain(map[f], reader[r].src)
          THEN Goto(r, "lookup")
          ELSE Answer(r, FALSE)
     /\ UNCHANGED budget

ProbeMiss(r) ==
  /\ reader[r].pc = "probe"
  /\ reader[r].file \notin DOMAIN map
  /\ Goto(r, "lookup")
  /\ UNCHANGED <<map, lru, budget>>

\* metadata_for: the table is cached, and find_offset_in_offsets searches it.
LookupHit(r) ==
  LET f == reader[r].file
  IN /\ reader[r].pc = "lookup"
     /\ CacheGet(f)
     /\ Answer(r, reader[r].src \in map[f].sources)
     /\ UNCHANGED budget

LookupMiss(r) ==
  /\ reader[r].pc = "lookup"
  /\ reader[r].file \notin DOMAIN map
  /\ Goto(r, "read")
  /\ UNCHANGED <<map, lru, budget>>

\* read_metadata_from_disk has returned: insert the table and use it.
ReadInsert(r) ==
  LET f == reader[r].file
  IN /\ reader[r].pc = "read"
     /\ CacheInsert(f, Metadata(offsets[f]))
     /\ Answer(r, reader[r].src \in offsets[f])
     /\ UNCHANGED budget

\* Header or offsets cannot be read: the query ends with the error.
ReadFail(r) ==
  /\ reader[r].pc = "read"
  /\ budget.faults > 0
  /\ budget' = [budget EXCEPT !.faults = @ - 1]
  /\ reader' = [reader EXCEPT ![r] = [pc |-> "idle"]]
  /\ UNCHANGED <<map, lru>>

\* The bodies of a source that was found cannot be read.
BodyFail(r) ==
  /\ reader[r].pc = "answered"
  /\ reader[r].found
  /\ budget.faults > 0
  /\ budget' = [budget EXCEPT !.faults = @ - 1]
  /\ reader' = [reader EXCEPT ![r] = [pc |-> "idle"]]
  /\ UNCHANGED <<map, lru>>

ReaderStep(r) ==
  \/ Visit(r) \/ ProbeHit(r) \/ ProbeMiss(r) \/ LookupHit(r) \/ LookupMiss(r)
  \/ ReadInsert(r) \/ ReadFail(r) \/ BodyFail(r)

Next == \E r \in Readers : ReaderStep(r)

Spec == Init /\ [][Next]_vars

-----------------------------------------------------------------------------
(* Properties.                                                             *)

ReaderState ==
  [pc : {"idle"}]
    \cup [pc : {"probe", "lookup", "read"}, file : Files, src : Sources]
    \cup [pc : {"answered"}, file : Files, src : Sources, found : BOOLEAN]

\* The queries and the queue have their types, and a cached segment has the
\* metadata of its own offset table.
TypeOK ==
  /\ reader \in [Readers -> ReaderState]
  /\ lru \in Seq(Files)
  /\ DOMAIN map \subseteq Files
  /\ \A f \in DOMAIN map : map[f] = Metadata(offsets[f])

\* The cache never holds more than max_entries segments, although evictions
\* follow a queue full of repeated and stale entries and two readers may
\* insert the same segment.
CacheBounded == Cardinality(DOMAIN map) <= max_entries

\* Every cached segment is in the queue, so that the eviction loop can always
\* make room.
Queued == DOMAIN map \subseteq {lru[i] : i \in DOMAIN lru}

\* Whether the segment was skipped by the filter, found in the cache or read
\* from disk, the query learns whether the segment has the source.
AnswerExact ==
  \A r \in Readers :
    reader[r].pc = "answered" =>
      (reader[r].found <=> reader[r].src \in offsets[reader[r].file])

=============================================================================
