# Verification of lsmgraph

A TLA+ model of lsmgraph, an LSM-tree storage engine for property graphs
written in Rust: modules for its components, TLC configurations that check them
on small instances, and theorems checked by TLAPS. `PROJECT.json` lists the
components, the runs, the source lines every definition stands for, the hazards
and the theorems. Paths below are relative to the repository.

## 1. The system

| component | state | operations | talks to |
|---|---|---|---|
| `Engine` (`src/graph.rs`) | timestamp counter; under one mutex the active memgraph, next file id, flush handles | `create`, `open`, `insert_edge`, `delete_edge`, `flush_active`, `wait_for_flushes`, `compact_*`, `get_neighbors*`, `scan_edges` | everything below |
| flush tasks (`flush_memgraph`) | one tokio task per frozen memgraph | write segments, append to the manifest, publish, rebuild the index, compact | manifest, version manager, index |
| memgraph (`src/memgraph`) | per source an inline array or an overflow tree | `insert`, reads | engine |
| version manager (`src/version.rs`) | the current `Arc<Version>`: memgraphs, L0, L1 | `pin_current`, `publish`, each under its own lock | readers, flush tasks, compactions |
| vertex index and locks (`src/index.rs`) | source -> L1 segments; 65536 lock shards | `rebuild`, lookup | readers, flush tasks, compactions |
| manifest (`src/csr/manifest.rs`) | append-only log of JSON lines | `append`, `load` | flush tasks, compactions, `open` |
| CSR files (`src/csr`) | segment files with header, offsets, bodies; a cache of offset tables with bloom filters | `write_segment`, `get_neighbors`, `read_all_edges`, `read_offsets` | I/O backends |
| I/O backends (`src/io`) | none | `read_at`, `write_file` over pread, O_DIRECT or io_uring | operating system |
| L0 statistics (`src/metrics.rs`) | atomic totals; under a mutex, counters per partition (label, type, range of sources); latency histograms of atomics | record, score, reset | readers, `compact_best_l0_partition_by_score` |
| base graph (`src/base_graph`) | id maps, columns and typed CSR adjacencies, one file each; a catalog that names them | `build_from_snb`, `BaseGraph::open`, `scan_csr`, single values | CSV files, dynamic view |
| delta and dynamic view (`src/delta`, `src/dynamic_view`) | an engine of its own below the store; an opened base | `open`, inserts, deletes, `scan_neighbors`, `neighbors_vec` | base graph, engine |
| topology loader (`src/loader/snb.rs`) | none | `import_snb_topology`, `import_person_knows`, `validate_person_knows` | CSV files, engine |
| SNB loader, updates, adjacency cache (`src/snb`) | vertex file, edge property file, adjacency cache file next to a store | `import_snb_full`, `import_snb_updates`, `SnbGraph::open`, `build_adjacency_cache` | engine, file system |
| SNB queries, server, CLI | an opened `SnbGraph` behind an RwLock | 21 reads, 8 updates | SNB graph |

What is hard in this code, and what the properties are for (all of it is under
`hazards` in `PROJECT.json`, with the lines):

- **Read-modify-publish without a lock.** A version is pinned, edited and
  published in three steps by writers that rotate, by flush tasks and by
  compactions. The index is replaced as a whole by rebuilds that do not know of
  each other, and a reader combines a pinned version with the index of the
  moment.
- **Crash and failure between two durable steps.** Segment file, CreateFile
  record, DeleteFile records of a compaction, the several `write` calls of one
  record.
- **Merging part of the versions of an edge.** A targeted compaction merges some
  segments of a key and not others; tombstones must not be dropped too early.
- **Identity across restarts.** Timestamps and file ids continue from what the
  manifest says, although files that carried the largest may be gone.
- **Waiting.** Callers take flush handles out of one shared list.
- **Caches.** The metadata cache answers from a filter and evicts along a queue
  with stale entries.
- **Counting under races.** Readers count the same lookup in totals and in a
  partition at different moments, around a cache that others change, and may
  fail in between; the counts decide what is compacted. Minimum and maximum of a
  latency are loops of compare-exchange.
- **Many files behind one catalog.** A build of the base graph writes 27 files or
  groups of files and fails or dies anywhere between them.
- **Two copies under one view.** The base and the delta have other ids and other
  layouts, and a read goes through chunks, segments and a memgraph.
- **Derived files.** The vertex file, the edge property file and the adjacency
  cache of an SNB store are written at different moments of a command that may
  be killed, and the next command builds on what it finds.
- **One meaning in several places.** A CSV row, a stream line and an HTTP request
  become edges in three pieces of code; queries search a graph whose updates
  came in any order.

What makes each part correct:

| component | properties |
|---|---|
| engine | what is saved is never lost, revived or overwritten; what is written stays held; timestamps name records; a flush that returns has made the memgraph durable; reads are exact (where the runtime allows); every operation returns |
| compaction | the visible edges stay the same; only its inputs leave the version |
| manifest | what loads is what was acknowledged; ids are not given out twice; a store at rest loads |
| memgraph, L0 cut, segment lookups | contents exact and held once; segments partition the records, keep neighborhoods whole and respect the cap; a flushed memgraph answers as before, through the partition filter |
| metadata cache | bounded; answers exact |
| L0 statistics | totals and partitions account for each other; the partition that is picked covers the reads that were charged to it; a latency metric at rest is exact |
| base graph | a catalog names a whole base; derived indexes agree with the columns; the edges are those of the topology loader |
| dynamic view | a neighborhood is what base rows and visible delta inserts say, each neighbor once |
| SNB store | cache equal to a scan, usable with the files beside it, served updates equal to streamed ones |
| SNB queries | searches return what the edges say |

## 2. Modules

| module | models | uses |
|---|---|---|
| `EdgeRecords` | records, version merge, segment metadata, the filters of readers and compactions | |
| `GraphStore` | the abstract store: written and saved records | `EdgeRecords` |
| `LsmEngine` | the engine with callers, flush tasks, versions, index, manifest, crashes | `EdgeRecords`, `GraphStore` |
| `EdgeRecordsProofs` | lemmas about the merge of versions, finite sets of records, lists, sorting, common values, folds and sums | `EdgeRecords`, `Sorting` |
| `LsmEngineProofs` | the effect of every action of `LsmEngine`, its types, and theorems about what is persisted | `LsmEngine`, `EdgeRecordsProofs` |
| `LsmEngineDurability` | theorems about what is not persisted yet; the refinement of `GraphStore` | `LsmEngineProofs` |
| `LsmEngineCurrentThread` | theorems about what one user on one thread sees | `LsmEngineDurability` |
| `Manifest` | the log at the level of `write` calls | |
| `ManifestProofs` | theorems about `Manifest` | `Manifest` |
| `MemGraph` | inline segments and overflow trees of a memgraph | `EdgeRecords` |
| `Sorting` | a sort that proofs can expand (no state) | |
| `L0Segments` | the cut of a memgraph into segments, their tables and bodies, lookups (no state) | `EdgeRecords`, `Sorting` |
| `FlushPath` | a memgraph from its first insert to its segments | `MemGraph`, `L0Segments` |
| `SnbCsv` | the CSV files of an input, with columns by name (no state) | |
| `BaseGraph` | builds of the base graph, what its files hold, its reads | `SnbCsv`, `Sorting` |
| `TopologyLoader` | the passes of the topology import and validate-knows (no state) | `SnbCsv` |
| `BaseTopology` | the base graph compared with the topology loader | `BaseGraph`, `TopologyLoader` |
| `DynamicView` | a view over a base and a delta | `BaseTopology`, `FlushPath` |
| `DynamicViewProofs` | theorems about `MemGraph`, `FlushPath`, `BaseGraph` and the reads of a view over them | `DynamicView`, `EdgeRecordsProofs` |
| `MetadataCache` | offset-table cache, bloom filter, concurrent lookups | |
| `LatencyMetric` | one latency histogram, atomic by atomic | |
| `L0Reads` | the L0 loop of neighbor queries with everything it counts, and the pick of a partition | `MetadataCache`, `EdgeRecords`, `LatencyMetric` |
| `L0ReadsProofs` | theorems about `MetadataCache` and `L0Reads` | `L0Reads`, `EdgeRecordsProofs` |
| `SnbSchema` | what rows, stream lines and HTTP updates mean (no state) | `EdgeRecords` |
| `SnbGraph` | the served graph: adjacency, properties, insertion (no state) | `SnbSchema`, `Sorting` |
| `SnbStore` | the commands on an SNB store, its files, kills, the server | `SnbGraph` |
| `SnbStoreProofs` | theorems about `SnbStore` | `SnbStore`, `EdgeRecordsProofs` |
| `SnbQueries` | twelve read queries on a graph that is updated | `SnbGraph` |
| `MC*` | instances for TLC | |

`LsmEngine` sees a memgraph as the set of its records, the manifest as the
result of its replay, and a segment as its records: `MemGraph`, `Manifest`,
`L0Segments` and `MetadataCache` look inside. `SnbStore` sees the engine as what
`GraphStore` promises: a crash keeps what was flushed and any of the memgraphs
whose flush task was through. Definitions whose comment begins with "Slip" are
not part of a model: they are the wrong variants of the definition that follows,
with which the property in `PROJECT.json` must fail.

### LsmEngine

Variables carry the names of the fields they model (`timestamp`, `active`,
`next_file_id`, `flush_tasks`, `version`, `index`); `mem` holds the contents of
memgraphs, `disk` of segment files, `manifest` what `Manifest::load` computes.
`caller[c]` and `task[m]` are the local variables of a public operation and of
the flush task of memgraph `m`. `written`, `horizon` and `budget` are history
variables.

A step is the code between two points at which someone else can see or change
shared state. Writing is `WriteBegin` (timestamp), `WriteInsert` or
`WriteInsertFull` (state lock, insert, and the decision to rotate),
`RotatePublish` (pin, publish, spawn) and `PushHandle`. A flush task writes and
appends segment after segment (`FlushWrite`, `FlushAppend`), then pins
(`FlushPin`), publishes (`FlushPublish`), pins again and stores the index
(`FlushIndexPin`, `FlushIndexStore`) and may compact. A compaction is
`CompactSelect`, `CompactMerge`, `CompactWrite`, `CompactAppend`,
`CompactDelete`, `CompactPin`, `CompactPublish`, `CompactIndexPin`,
`CompactIndexStore`. Every one of them that does I/O can fail, and an append
that fails may have taken effect. `Reopen` restarts the process at any moment.

`Preemptive = TRUE` is the multi-thread runtime of the binary; `FALSE` is the
current_thread runtime of `#[tokio::test]`, where an actor keeps the thread
between two awaits.

### Manifest, MemGraph, L0Segments, MetadataCache

`Manifest` splits an append into the `write` calls that `serde_json::to_writer`
makes for one record, the newline, and the sync; pieces of different appenders
can interleave in the file and a crash can cut it anywhere. `Loads` is the
condition under which `load` succeeds.

`MemGraph` has a source's records inline up to `inline_segment_capacity`, moves
them to a tree at the first record beyond it and keeps inserting there.
`L0Segments` has the graph-aware cut (by label and edge type, closed at
`segment_target_edges` and only where the source changes, merged down to
`max_l0_segments_per_flush`), the offset table, the body without its source, and
lookup and scan. `FlushPath` fills a memgraph in every order, freezes it, and
compares its answers before and after.

`MetadataCache` has one step per cache operation under the mutex and the read
from disk between a miss and the insert. The bloom filter is modelled by its
bits, with the hash functions as a constant.

### L0Reads, LatencyMetric

`L0Reads` takes the steps of `MetadataCache` and adds what
`get_neighbors_typed_internal` does around them: `QueryStart`, `Turn` (the next
segment that may contain the partition, charged to a key and filtered by its
range), `CachedProbe` and `UncachedProbe`, the lookup (`LookupCached`,
`LookupUncached`, `LookupRead`), `BodyRead`, `Fail` and `QueryEnd`. `totals` are
the atomics of `Metrics`, `partitions` the map under its mutex; `failed` and
`looked_up` are history. `pick_l0_partition_by_score` is an operator: the best
scores as fractions, and the target a key turns into. The version has only L0
and does not change.

`LatencyMetric` splits `record_us` at the loads and exchanges of `fetch_min` and
`fetch_max`; the additions before and after them commute with everything others
do and belong to the neighbouring step. A query records its latency at its end.

### SnbCsv, BaseGraph, TopologyLoader, BaseTopology, DynamicView

A CSV file is a header and rows; `idx` finds the first column of a name, as the
code does. In `BaseGraph` a build follows `Plan`, the order in which
`build_from_snb` writes its files: `BuildStart`, one `BuildFile` per file,
`BuildError` at a row that names an unknown id, `BuildKilled` between two files
or inside one, `SaveCatalog` at the end. `base_files` says from which input a
file was written, and the operators above it what it then contains: id maps by
row position, columns, the two directions of an adjacency, derived lists and the
roots of comments. The roots are found as the code finds them, comment by comment
in the order of the rows with one memo that every walk reads and fills. Reads go
through `range` and `scan_chunks`.

`TopologyLoader` is the table of passes of `import_snb_topology` and the edges
each inserts; `BaseTopology` reads both results back to external ids and
compares them. `DynamicView` lets builds happen, opens the view, and then lets
the delta (`FlushPath`'s memgraph and segments) take inserts and deletes and be
flushed. A read is `neighbors_vec` with any base adjacency, in either direction
or derived, and any delta source.

### SnbSchema, SnbGraph, SnbStore, SnbQueries

`SnbSchema` is the table of relations of the full import with labels, columns,
directions and property columns, and the edges of the eight update kinds, once
as the stream loader writes them and once as the HTTP adapter inserts them.

In `SnbStore` a command (`import`, `snb-updates`) is the list of the steps it
still has to do: a vertex row, an edge in both stores of it (engine and
adjacency builder) with its property row, the flushes, the cache. `Crash` may
come before any step: the engine keeps a subset of the frozen memgraphs, each
`BufWriter` has passed on a prefix of its rows and maybe part of the next.
`BuildAdjacencyCache`, `RebuildEdgeProps` and `OpenServer` are the short
commands; `HttpUpdate` changes the served graph under the write lock, and
`StopServer` forgets it. `history` only serves the properties.

Taken as given: commands on a store run one at a time (the command line starts
one process each, and nothing locks the directory); a kill ends the process and
not the machine; removing and creating the directory at the beginning of an
import is one step; one flush of a memgraph is durable as a whole.

`SnbQueries` has one action, an HTTP update that was not sent yet, on the graph
of an import. The queries are operators on the state. Loops over lists are
folds; the queue of IC13, the levels of IC14, the walk to the root of a thread
and the tag classes are recursive. The rows keep ids, counts and dates. A vertex
has the attributes that the constant `Data` gives to it.

## 3. Runs

| run | instance | result |
|---|---|---|
| `EngineCurrentThread` | 1 caller, current_thread, 3 keys of 2 labels and 2 types, full and targeted compactions (2), restart | published version, index and reads exact; compaction keeps the visible edges |
| `EngineConcurrent` | 2 callers, multi-thread, 1 key, 2 versions, 2 automatic compactions, a fault, fairness | every write held, refinement of `GraphStore`, every flush and wait returns |
| `EngineCrash` | 1 caller, graph-aware flush, automatic and targeted compaction, a fault and a restart anywhere | types, recovery exact, every write held, timestamps unique, segments immutable, `flush_active` durable, refinement of `GraphStore` |
| `EngineLostUpdate` | violation | a rotation between a task's pin and publish is lost |
| `EngineCompactionRace` | violation | a segment flushed during a full compaction leaves the version |
| `ManifestCrash` | 2 appenders, a fault, two restarts | what loads is exact; ids are unique |
| `ManifestInterleaved` | violation | mixed lines make the store unopenable |
| `FlushPath` | 2 builds of 2 inputs (one dangling), errors and kills, a view; a delta of 4 edges, inline capacity 2, at most 2 segments | a catalog names a whole base; derived indexes and topology loader agree; nothing lost, doubled or split by the flush, reads the same after it; the view exact |
| `BaseKnows` | violation | the KNOWS adjacencies of a base are self loops |
| `CacheConcurrent` | 2 readers, 3 queries, 3 L0 segments, 2 cache entries, a failed read, durations in 2 buckets | bounded, exact answers; counts add up; the pick covers the reads; latency exact |
| `SnbStore` | 2 persons imported, a stream of 3 lines, 9 HTTP updates (2 per server), 5 commands, 1 kill | cache exact and usable; HTTP updates mean what stream lines mean |
| `SnbQueries` | 4 persons, 3 forums, 13 updates of which any 5 in any order, limit 2 | searches return what the edges say |

Bounds. Two timestamps already give an insert and a delete of one edge, which is
what the merge distinguishes; `MaxTs = 5` in `EngineLostUpdate` because the lost
memgraph must fill again. Capacity 1 makes every write rotate; capacity 2
separates a rotation from an insert. `MaxFiles` leaves room for every segment
the writes and compactions of an instance can produce, so no behaviour is cut
before it ends. Two callers are enough for each pin/publish race, which involves
two actors. In `FlushPath` four records cross the inline capacity and leave more
candidate segments than the cap allows, and leave the mixed partition of a label
beside a typed one; two builds are what it takes to interrupt one over the
catalog of another. The input of the base has a reply before the comment it
answers and a reply to that reply after both, so that a root is found over a
comment not yet resolved and over one that is in the memo, sources without edges,
a degree above, at and below the chunk threshold. In `CacheConcurrent` a source hashes to bits of two others (a false
positive), one segment needs a larger filter, and three queries of two readers
are enough for an eviction between a probe and a lookup. Five commands of `SnbStore` are import,
killed update, repeated update, rebuild and server; the capacity of 3 puts the
kill before, between and after flushed memgraphs. Five updates of `SnbQueries`
close a ring of five friends, or make a thread of three whose parts come in the
wrong order; friends join more forums than the limit, with and without posts, so
that IC5 ranks and cuts, and a person gets more replies than the limit, some by
an author who comes later. Deadlock is not checked: the bounded instances end when the budgets
are spent.

Fairness. `FairSpec`, under which `EngineConcurrent` runs, has weak fairness of every step of a caller inside an
operation and of every task: tokio keeps polling a task that is ready and an I/O
call returns or fails. Nobody is obliged to begin an operation, and no fairness
is assumed of crashes or faults.

Where the read properties hold. They are checked for one caller on one thread:
with a preemptive runtime the violation runs show what breaks them. What is on
disk holds with two callers too (`ImplementsStore`, and `RecoveryExact` by its
proof). `IndexExact` is for one caller: what two do to the index is in the list
below and in no property. `FlushActiveDurable` is for one caller as well; with
two, a wait may return while the other caller holds a handle (`SettlesCorrect`).
`OperationReturns` has two waiters, but timestamps run out, so it says that a
wait returns once others stop adding to its list, not that it does while they go
on.

Behaviours of the code that the models contain and no property claims away:

- a reader takes L1 from the index of the moment, not of its version
  (`graph.rs:460`), so that a query between publish and rebuild of another actor
  can miss compacted edges; an older rebuild can be stored last
  (`graph.rs:824`);
- a crash inside an append leaves a torn line, and `load` refuses the manifest
  (`csr/manifest.rs:57`);
- a killed import or update can leave a torn row in the vertex or property file,
  which then does not load (`snb/props.rs:456`), and later updates append to it;
- `snb-updates` on a store without a cache writes a cache of the update edges
  alone (`snb/full_loader.rs:469`), which the server takes for the whole graph;
- `snb-props` drops the properties that updates appended
  (`snb/full_loader.rs:354`);
- updates over HTTP are not saved (`snb/server.rs:35`);
- a build over an existing base that fails or is killed leaves the old catalog
  over files of two inputs, or a cut one (`base_graph/builder.rs:93`); the view
  opens it all the same if every file can be read (`ViewExact` is about the
  other bases);
- a delete in the delta hides no edge of the base (`dynamic_view/mod.rs:73`);
- a segment that passes because its filter was not cached, and whose filter then
  excludes the source, is counted in the totals as passed and as filtered
  (`csr/reader.rs:89`);
- a latency snapshot taken during a recording may see the count without the
  bucket and report the last bound, `u64::MAX` (`metrics.rs:725`);
- every hit and every insert lengthens the lru queue of the metadata cache, which
  only evictions shorten (`csr/cache.rs:54`); what is bounded is the number of entries;
- IC8 cuts at the limit before it drops replies without an author
  (`snb/queries.rs:1715`); `RepliesAgree` says which rows that leaves.

## 4. Proofs

Proved for all values of the constants, from the assumptions named in the
modules (capacities positive, bounds natural, targets and keys of their types,
CSV files with finitely many rows, updates of the kinds and fields the code
parses, at most one adjacency and type per read).
The third column is a property of a run, which the theorem states for every
instance.

| module | theorem | property |
|---|---|---|
| `LsmEngineProofs` | `TypeCorrect` | `TypeOK` |
| | `RecoveryInvariant` | |
| | `RecoveryCorrect` | `RecoveryExact` |
| | `TimestampsCorrect` | `TimestampsUnique` |
| | `SegmentsCorrect` | `SegmentsImmutable` |
| `LsmEngineDurability` | `DurabilityInvariant` | |
| | `WritesHeldCorrect` | `EveryWriteHeld` |
| | `SettlesCorrect` | |
| | `FlushActiveCorrect` (one caller) | `FlushActiveDurable` |
| | `StoreImplemented` | `ImplementsStore` |
| `LsmEngineCurrentThread` | `VersionInvariant` | |
| (one caller, one thread) | `VersionCorrect` | `VersionExact` |
| | `CompactionCorrect` | `CompactionPreservesVisible` |
| | `IndexCorrect` (no I/O failed yet) | `IndexExact` |
| | `ReadCorrect` (no I/O failed yet) | `ReadExact` |
| `ManifestProofs` | `ManifestInvariant` | |
| | `LoadCorrect` | `LoadExact` |
| | `FileIdsCorrect` | `FileIdsUnique` |
| `DynamicViewProofs` | `MemGraphCorrect`, `ContentsCorrect` | `ContentsExact` |
| | `FlushCorrect`, `DeltaFlushCorrect` | `SegmentsPartition` |
| | `NeighborhoodsCorrect`, `DeltaFlushCorrect` | `NeighborhoodsWhole` |
| | `FlushedReadsCorrect`, `DeltaFlushCorrect` | `FlushedReadsSame` |
| | `CatalogCorrect`, `ViewCatalogCorrect` | `CatalogWhole` |
| | `ViewCorrect` | `ViewExact` |
| `L0ReadsProofs` | `CacheInvariant` | |
| | `CacheBoundCorrect`, `L0ReadsCorrect` | `CacheBounded` |
| | `AnswersCorrect`, `L0ReadsCorrect` | `AnswerExact` |
| | `PicksCorrect` | `PickCoversReads` |
| | `PartitionsCorrect` | part of `ProbesAccounted` |
| | `AccountsCorrect` | `ProbesAccounted` |
| | `ExtremesCorrect`, `QueryExtremesCorrect` | part of `LatencyExact` |
| | `LatencyCorrect`, `QueryLatencyCorrect` | `LatencyExact` |
| `SnbStoreProofs` | `AdjacencyInvariant` | |
| | `CacheCorrect` | `CacheExact` |
| | `GraphInvariant` | |
| | `ServedCorrect` | `ServedLikeStream` |
| | `UsableInvariant` | |
| | `UsableCorrect` (for referential input) | `CacheUsable` |

### What is persisted: `RecoveryInv`

`RecoveryInv` adds to the types: `FileIds` (everything a task, a caller or the
version names lies below `next_file_id`), `PendingIds` (a file that is written
and not yet appended is not in the manifest), `NamedFiles` (files in use are in
the manifest's `created`), `Exclusive` (two compactions or tasks never hold the
same new file), `Timestamps` (a timestamp identifies a record wherever it is,
and the counter is ahead of all of them), `Phases` (what the local variables
hold at each program point), and `Coverage`. `Coverage` is the heart: the live
segments cover the newest persisted version of every key, and while a compaction
is between its merge and its last delete, its outputs together with what is left
to write cover the inputs it has not deleted yet. `RecoveryExact` alone is not
inductive, because a DeleteFile record is harmless only if the outputs already
in the manifest hold what the deleted input held.

### What is not persisted yet: `DurabilityInv` and `WaitInv`

`EveryWriteHeld` is not inductive: a flush that ends must have written all it was
given. `DurabilityInv` adds `Frozen` (rotations and flush tasks are about
memgraphs before the active one) and `TasksCarry` (until it ends or fails, a
task has written every record of its memgraph or has it still in hand, and when
it pins to publish it has written all). No restriction on callers, runtime,
faults or restarts is needed.

`WaitInv` adds what `wait_for_flushes` relies on. The handles are in one list
that every caller empties, so a running task is `Tracked`: its handle is in the
list, or with a caller that is about to put it there or is waiting for it. With
several callers `flush_active` may therefore return while another caller waits
for an older task; `SettlesCorrect` says exactly what is left open. With one
caller nothing is, and that is `FlushActiveCorrect`, on both runtimes.

### The abstract store: `RefinementInv`

`RecoveryExact` says that what a restart would find is the newest of everything
ever persisted. So only a step that persists something new changes the abstract
state: `FlushAppend` persists records that were written (`Provenance`: all that
segments, tasks, callers and memgraphs hold was written), which is a save;
`CompactAppend` persists records that were persisted before (`Rewrites`), which
is a stutter; `WriteInsert` is a write and `Reopen` a restart of `GraphStore`.
An append that fails and has taken effect is a save as well.

### What a caller sees: `VersionInv`, `IndexInv`, `ReadInv`

These are proved for one user on a current_thread runtime (`OneThread`), the
conditions under which the code is right: `EngineLostUpdate` refutes
`VersionExact` when a rotation comes between a task's pin and publish, and
`EngineCompactionRace` when a second user flushes during a compaction.

`VersionInv` says that nobody publishes anything but a change of the current
version (`Pinned`), that a compaction which has waited for the flushes runs
beside none (`Alone`; it rests on `Tracked`), that its inputs are in the version
(`InputsListed`), and that what it is about to publish covers them
(`OutputsReady`). `VersionCovers` is the heart: a written record that the
published version lacks was superseded at or before `horizon`, the largest
timestamp a compaction has merged up to. From it `VersionExact` follows at every
snapshot from `horizon` on, with failed flushes, failed compactions and restarts
included; `CompactionCorrect` follows from `Covering`.

The index and the reads need one hypothesis more. `rebuild_index` turns a
segment whose offsets cannot be read into an empty list (`graph.rs:819`), and
such a segment is out of the index until the next rebuild without an error
anywhere. So `IndexExact` and `ReadExact` are proved as long as no I/O operation
has failed (`NoFaults`), whatever bound there is on faults, and may be false
afterwards. `IndexInv` says that the index is the L1 of the current version
except between the two publications of a compaction, and `ReadInv` that a
neighbor query which has left L0 has collected everything but what L1 holds:
flushes that publish in between add nothing it should see, and the filters by
partition, label, type and range have hidden nothing, because the metadata of a
segment is common to all its records.

### The manifest: `ManifestInv`

An append is known by its first piece. `Starts`: a record starts in the file at
most once. `AckedKept`: an acknowledged record starts within the prefix that a
restart cannot take away. `FreshIds`: `next_id` is above the file ids of all
CreateFile records that are in the file or may still get there, and these have
different ids; a record that a restart has cut off does not count, and its id
may be given out again. `DeletesLater`: a deletion has an acknowledged creation,
which starts before it. Pieces of several appenders may be mixed in any way; the
lemmas `FoundAt` and `FoundStarts` say that in a file that loads (every line is
blank or one whole record) the records found are exactly the first pieces. What
`LoadExact` says follows: of two records found with one id only one is a
creation, and it comes first.

### The flush of a memgraph: `FlushInv`

The invariant itself is short. From the cut on, the files and the segments still
to be written, one after the other, are `Segmented`: each record of the frozen
memgraph is in exactly one of them, once, and none is empty. They are
`ByNeighborhood` (records of one source and type are in one segment), respect
the cap, and a file was written of one segment (`WrittenFiles`). `SegmentsPartition`
and `NeighborhoodsWhole` speak of files or of segments, depending on the phase;
neither is inductive, since writing one segment moves it from one list to the
other. Insertion keeps the first half by `MemInv`, and a write keeps
`AllOf(files, segments)` because what a file reads back is what went into it.

The work is in the cut, and it is done for every set of records and every
target, threshold and cap, along the way of the records through the code:

- the sort is a permutation that respects the key (`KeySorted`); `SortedSet`
  gives every element the place that the number of smaller ones tells;
- the loop of `split_range_bounded_segments` is a fold; `CutRounds` unrolls it
  into a function of the position, and `CutInv` is what holds at every position
  (`CutKeeps`): a segment is closed only where the source changes, so the sources
  of closed segments lie below the one that is read;
- cut by partitions, the groups are apart and each contains whole neighborhoods
  (`GroupCut`, `GroupsSegmented`), since the partition of a record is a function
  of its source's label and its type, or the common partition of small groups;
- joining to a cap takes consecutive ranges of segments, of a size rounded up:
  the ranges cover all segments once (`RoundUp`, `JoinedRanges`), and there are
  at most as many as the cap;
- in a file the bodies of one source are consecutive, the offset table names
  where they begin and end, and the source a body lacks is the key of its range
  (`RecordBack`, `SliceRead`, `WrittenHolds`); a lookup finds the source by its
  place in the sorted table (`FileFound`).

Induction over a sequence, a set or a number is by least counterexample: the
lemma `LeastNatural` of `EdgeRecordsProofs` takes a set of numbers, not a
predicate, so it can be cited; a fold over a set is unfolded once at the element
it takes out. This is how sums (`SumTotal`, `SumAdd`) and the cutting loop are
treated as well.

### A read through the view: `ViewInv`

`ViewExact` compares a list that went through files, offsets and chunks with the
rows of the CSV input. It is not inductive: when the view is opened, nothing in
it says that the rows of the saved input could be resolved, or that the files
that are open came from that input. `ViewInv` adds to `CatalogInv` and `FlushInv`
that the view holds the adjacencies of the saved input, and `Scanned`: a running
build has met no unknown id in the files it wrote so far, and neither has the
build that saved the catalog. The first carries `Scanned` to `SaveCatalog`, and
`CatalogInv` gives the files.

What a read then returns is a matter of pure functions:

- a row that resolves has local ids within the vertices of its columns
  (`LocalFound`, `TargetFound`), so the edges of an adjacency are pairs of
  numbers, and all of them lie below an offset (`BothEndsFound`, `OneEndFound`,
  `AdjacencyEdges`, for both directions and the derived adjacencies);
- sorting by source makes the edges with a source below `s` the first ones, as
  many as there are (`InitialSegment`): the count in `offsets[s]` is where the
  neighbors of `s` begin (`CsrRange`);
- the chunks of a scan cover its range once, for either chunk size and a degree
  at the threshold (`Chunks`, `ScanReads`), which makes a scan the set of
  neighbors in the rows (`AdjacencyRead`, `BaseExact`);
- the delta merges its records to the newest visible one of a key, and reads the
  same from memgraph and segments (`FlushedRead`, `DeltaExact`, from `FlushInv`);
- `neighbors_vec` sorts the union and keeps each neighbor once (`NumbersSorted`).

### Memgraph, catalog, cache

`MemInv`: a source has its records in the one place `vertex_map` names, a
segment belongs to one source or was left behind empty, and no segment has a
record twice. The invariant carries over to the view, which freezes and flushes
the memgraph of its delta.

`CatalogInv` adds to `CatalogWhole` what a running build has: the files it has
written so far are from its own source, and it counts as an interruption exactly
if it began over a catalog. The first makes the base whole when the catalog is
saved; the second says that a build only touches files no catalog vouches for.

For the cache, the bound alone is not inductive: the eviction loop gives up when
its queue is empty. `CacheInv` adds that every cached segment is in the queue
and holds the metadata of its own table; the latter with the absence of false
negatives in the filter gives exact answers, for any hash functions.

`L0Reads` runs the cache's steps among its own, so `ReadsInv` carries `CacheInv`
over, and adds that the segment a query is at is one that may contain its
partition and has its source in range, and that every segment looked up for a
key is selected by that key. The last is `PickCoversReads` without the choice of
a partition; it rests on the lemma `KeySelects`: the target made from a key
matches every segment that a query with this key passes to the reader, because
the bucket contains the source, the label is the source's or the segment's, and
so is the type.

`BalanceInv` ties what a query has yet to count for its segment to how far its
reader is in the cache. A segment is counted for its partition in one step, with
fields that keep the partition's counters in balance (`BalancedFields`), however
the entry came or went between the probe and the lookup. That is
`PartitionsBalanced`, the clause of `ProbesAccounted` about single partitions.
`AccountInv` adds the totals: each is the sum over the partitions and over what
the running queries have counted and not yet added (`ProbesAccounted` in full),
which needs that a query's reader is at the query's segment (`FollowsQuery`) and
that a failed filter was counted by somebody (`FailedBefore`).

`ExtremesExact`, the clause of `LatencyExact` about the minimum and the maximum,
is about the compare-exchange loops of any number of recorders. Between steps a
duration may lie beyond both extremes; `ExtremesInv` says that it is then still
with its recorder, that a recorder which is about to exchange has loaded a value
that its own improves on, and that one on its way to the maximum has left a
minimum no larger than its duration. `HistogramInv` has the sums: a bucket,
together with the recorders whose duration falls into it and has yet to be
counted, holds as many as were recorded there. Buckets are ordered like the
durations (`BucketGrows`), so every duration is in one.

### The adjacency cache: `AdjacencyInv`

`CacheExact` compares a list per vertex and type, in its order, with the merge of
everything in the engine. It is not inductive for two reasons. An update does not
scan the engine: it loads the cache, which has no timestamps, and makes some up
(`from_adjacency`), so nothing relates the order in its builder to the engine's.
And an update that was killed has left edges in the engine which the cache lacks;
that the next update makes up for them rests on every update writing all edges
of the streams again. `AdjacencyInv` has, beside the engine's timestamps
(`EngineInv`), a part for each situation:

- `RestInv`: with no command running, the cache lists the edges of the engine,
  newest first, except edges that the streams write; unless a command was killed
  since, it lists all of them;
- `ImportInv`: during an import the builder is the engine;
- `UpdatesInv`: after so many steps of an update there is a timestamp `T`, that of
  the beginning, such that the records after it have the keys the update has
  written so far, and the builder holds these records and the cache's with the
  timestamps made up below `T`.

A complete update has written every key of the streams after `T`, so that what
the cache lacked at the beginning is superseded. Then `UpdatedBuild` says that
the merge of the builder and of the engine give the same lists: new keys come
first in both, in the same order, and the others keep the order of the cache
(`ListsGrow`, `BuildFollows`). `SameBuild` says that `build` is a function of the
order of the newest records only, `FreshCache` that the made-up timestamps of a
list decrease along it, as far as they are above zero, and `CrashStep` that a
kill takes from the engine only what the streams write again.

### The server: `GraphInv`

`ServedLikeStream` compares two programs: the handler of an HTTP update, which
changes vectors and maps in memory, and the loader of an update stream, which
writes edges to the engine. `GraphInv` adds to `AdjacencyInv` that the files a
server opens are what a load would accept: the cache has finitely many lists, none
with a neighbor twice, the properties are a map (`FilesInv`), and that the served
graph is the one that was opened with what the requests added (`ServedInv`).

- `HttpLikeStream`: for each of the eight kinds of updates, the edges and
  properties that `run_dgs_http_update` inserts are those that `import_update`
  writes for it, in the same order;
- `InsertRounds` and `InsertAll` unroll the loop over the edges of an update: one
  insertion adds its edge and the mirror of it to what the lists say, keeps every
  list free of repetitions, and leaves the other lists as they are;
- `WithPropsConcat`: properties written one after the other by several updates
  are those of one long list, the last value of a key being the one that counts;
- `EachAppend` does the same for the history of requests.

### The files beside the cache: `UsableInv`

`CacheUsable` relates three files that a command writes one after the other while
it may be killed between any two steps. `UsableCorrect` states it for input that
is `Referential`: rows of the CSV files name vertices of the CSV files, and lines
of the streams name these or vertices that the streams add. The loaders do not
look at that (the generator of the data guarantees it), so it is a hypothesis of
the theorem and not an assumption of the model; `MCSnbStore` has TLC evaluate it
on its instance. `UsableInv` adds to `AdjacencyInv`:

- `LoadInv`: what the steps done so far loaded is in a file or in its buffer, and
  in the file if a flush of it came in between; a running import has inserted
  exactly the edges of the steps it has done (`Imported`);
- `FormInv`: a store marked complete has a whole cache that is not behind, which
  is why snb-cache on such a store writes the cache it finds;
- `WholeInv`: a whole cache has the edges of the import, or of the import and the
  streams, and the files have the vertices and the properties that belong to them,
  except properties of streamed edges after snb-props.

The lemmas it rests on: `ImportLoads` and `UpdatesLoads` (a command flushes what it
loads before it writes the cache, and loads every edge with its other direction),
`LoadedAll` (so at its last step all of it is in the files), `RebuildCovers` (the
relations that snb-props skips have no property, so the rows it writes cover the
import), and `WholeKept` (files that only grow keep a whole cache whole, also
when the process is killed with rows in its buffers).

### Only model-checked

- Liveness (`OperationReturns`): liveness and enabledness are beyond TLAPS here.
- `DerivedAgree` and `LoadersAgree`: the root of a comment is found by
  functions that recur along its replies inside a fold over the rows, and what
  they compute for every input without a cycle takes an induction over data; the two loaders agree only on inputs whose rows
  are well formed (an id once per file, the columns of the header where the
  reader by position expects them), which is a matter of the data. The lists of
  a derived adjacency are what `ViewCorrect` says of them.
- `SnbQueries`: its searches are recursive operators, which the prover does not
  take; the run checks them against definitions that quantify over paths.

## 5. Not modelled

- I/O backends: system calls behind one trait; the models see a whole read or
  write, or an error.
- Of `src/metrics.rs`: resets, counters of I/O and writes, endpoint metrics and
  the reports; they are additions and stores that nothing else reads.
- A compaction that changes L0 while its statistics grow: `L0Reads` has a fixed
  version, `LsmEngine` has every target a pick can produce.
- The topology import as a sequence of engine steps: it is a loop of
  `insert_edge`, which `LsmEngine` interleaves with flushes and failures.
- L1 and restarts below the dynamic view: the delta is an engine, and
  `LsmEngine` has both.
- Nine of the 21 read queries (IC2, IC4, IC6, IC9, IC10, IC11, IS1, IS4, IS5):
  lookups and counts over neighborhoods that the modelled ones also walk.
- Text: CSV fields, JSON, HTTP, names and contents, timing and reports.

## 6. Plan

The order follows what would hurt most: first what is on disk, then what is
visible, then what is derived from it.

Done: the engine with its compactions, crashes and liveness, and proofs of what
it persists, holds, implements and shows; manifest with proofs; flush path with
proofs of the memgraph, the cut and the files; metadata cache, L0 statistics and
latencies with proofs; base graph and dynamic view with proofs; topology loader;
SNB store with proofs of its cache, its files and its server; SNB queries.

Next, models: the remaining queries where they say more than a lookup (IC4, IC6,
IC10), and the range compaction of `LsmEngine` beside the statistics of
`L0Reads`, to say that a partition that is read and grows is picked in the end.

Next, a proof: `VersionCorrect` of `LsmEngineCurrentThread` for several users of
one thread, as long as none of them compacts (a rotation keeps the thread from pin
to publish, so the restriction to one user is only needed for compactions).
