# nomai in TLA+

nomai is a local knowledge base: a daemon that keeps entries as `.nomai` files
under a knowledge root, derives a SQLite index from them (rows, blocks, chunks,
FTS, vectors), and serves JSON-RPC to agents over stdio or a Unix socket. This
directory models the parts of it in which the order of steps matters, checks
them with TLC on small instances, and proves what matters most with TLAPS.

Paths below are relative to `src/crates/`.

## 1. Inventory

| Component | State | Operations | Hard behaviour | What makes it correct | Module |
|---|---|---|---|---|---|
| Search results cache (`daemon/src/search_cache.rs`) | generation, map of results | `lookup_or_compute`, `bump_generation`, `clear` | computes run with no lock beside commits and bumps | a search asked after an answer sees what was answered | `SearchCache`, `FreshReads` |
| Search handlers (`daemon/src/handlers/search.rs`) | none of their own | fulltext, semantic, hybrid | two reads at two times, cuts before the final scores are known | the page is what scores best | `SearchCache`, `Ranking` |
| Entry and block handlers (`handlers/entry.rs`, `block.rs`, `embed.rs`) | - | create, update, delete, purge, append, block update and delete | several fallible steps after a commit | what is answered is durable and visible | `SearchCache`, `ContentIndex` |
| Dispatch (`daemon/src/daemon.rs`, `handlers/mcp.rs`, `handlers/system.rs`) | `sync_lock`, the slot of the Daemon | lines, `tools/call`, `system.restart` | calls in flight over a swap, three places that take one lock | every call is answered, a restart takes effect | `Dispatch` |
| Entry store (`core/src/service.rs`, `content_store.rs`, `block_service.rs`) | files, rows, one connection mutex | create, update, delete, `reindex_one`, `sync_from_fs`, `rebuild_index` | two stores without a common transaction, crashes between them | the files are the truth, the index converges to them, nothing answered is lost | `ContentIndex` |
| Links (`core/src/link_service.rs`) | table `links` | create, delete | live in no file, cascade with rows | an answered link stays | `ContentIndex`, `Batch` |
| Batch (`handlers/batch.rs`) | one transaction | `$ref` chains of operations | rollback of files and rows | all or nothing | `Batch` |
| Channels (`core/src/channel_service.rs`) | messages, cursors | send, recv, purge, unsubscribe | cursors, limits, purges between reads | at most once, in order, none skipped | `Channels` |
| Adaptive memory (`core/src/memory_service.rs`, `daemon/src/adaptive_search.rs`) | sessions, signals, affinity vectors | search sessions, feedback, reconcile, re-embed | retries, TTLs, plans applied later | feedback counts once, vectors match | `MemorySignals` |
| Conversations and events (`core/src/conversation_service.rs`, `event_service.rs`) | three tables | create, append, update, delete; list and purge of events | ids that are random within a millisecond | a consumer of the log can rebuild the tables | `Conversations` |
| Chunking and chunk vectors (`core/src/chunking.rs`, `chunk_service.rs`) | chunks, vectors | split, plan, embed, store | boundaries, blocks changed during a provider call | chunks cover the text, a vector is its text's | `Chunking`, `Vectors` |
| Embedding cache (`providers/src/cached.rs`) | table `emb_cache` | lookup, compute, persist | concurrent misses, another model or dimension | a cached vector is that of its key | `Vectors` |
| `.nomai` format (`core/src/nomai_format.rs`) | - | parse, render | escaping | parse of render is the document | `NomaiFormat` |
| Resident daemon (`daemon/src/serve.rs`, `socket.rs`, `shim.rs`) | socket, spawned process | bind or probe, serve, shim | starters racing, idle exit | one daemon per socket, every client served | `Resident` |
| Git sync (`handlers/sync.rs`) | work tree | init, commit, pull --rebase, resume, push, index | conflicts in the middle, failures at every step | no local change lost | `GitSync` |
| Benchmark runtime (`daemon/src/benchmark/`) | run, fixtures, visibility flag | start, finish, abort, record | a judge that answers late, the flag read before the cache key | fixtures seen only during a run | `Benchmark` |
| Providers; storage, migrations; configuration, protocol types | - | HTTP, schema, parsing | - | - | none |

Interaction: handlers call the services, every service shares one SQLite
connection behind one mutex; `sync_lock` serializes the handlers whose
`is_mutating()` is true and `sync.run`; the index passes, links, channels and
searches take no lock but the connection's. Each handler that changes what a
search may return bumps the cache's generation at a place of its own choosing.

## 2. Plan

Modelled and checked: every module of the table. Proved: every safety and action
property of the passing runs but `PageRight`.

Next, in this order: types of the components whose theorems do not state them yet
(`Batch`, `Benchmark`, `Conversations`), the abstract specification of a store
that `ContentIndex` implements while nobody rebuilds, the reads of affinities with
decay, and the search handlers after the cache.

## 3. The modules

### SearchCache, FreshReads

Every transaction on the one connection is ordered by its mutex, so a read sees
a prefix of the commit history and a result is the length of the prefix each of
its parts was read from. `db` is that length, `generation` and `map` are the
fields of `SearchCache`, `syncLock` is `Daemon.sync_lock`. A handler is the
sequence of its effects in source order (`EntryCreate`, `BlockUpdate`, ...), and
a writer steps through it: a commit, the rerender's stamp, the vectors of
`embed_entry_chunks`, the bump, quiet steps. `StepFails` is the `?` that leaves
the handler. A search asks, loads the generation (`LoadGeneration`), hits or
misses, reads its parts (`ReadPart`, the two of hybrid in either order), inserts
under the key it started with and finishes. `acked`, `settled` and `floor` are
history variables. `FreshReads` is the promise without a cache: a search
answers with some prefix at least as long as what was answered before it was
asked; `Refines` maps `acked["content"]` and each search to it. `Bounded(n, facet)`
is the inductive invariant, for what clients heard from answers or from failures
(`n`) and for content, stamps or vectors (`facet`); `WellOrdered(n, facet)` is what
it asks of the handlers. `MCSearchCache` adds symmetry.

Assumptions: one query (keys of other queries never meet); `Relaxed` atomics are
enough because every read and commit passes through the connection's mutex; the
vectors of one entry, written in several transactions, count as the last one.

### ContentIndex

The two stores of an entry: `doc` and `dir` are the files and directories of
`ContentStore`, `row` is the `entries` row with its blocks, `links` the links
table. Content is a version number for the text and one for the metadata. `job`
is the handler that holds `sync_lock`, step by step; `pass[p]` is a running
`sync_from_fs` or `rebuild_index` with its scan, its snapshot of the index and
the file it has read but not yet inserted. `ConnFree` is the connection's mutex,
which only a create keeps across steps. `Crash` loses `job` and `pass`;
`Restart` runs `startup_sync` before anything is served. `ver` and `owed` are
history: the newest version, and what clients were told.

Assumptions: no two writes of a file get the same mtime; a crash ends the
process and keeps what was written (no power loss); removing a directory
unlinks `entry.nomai` before the directory; a rerender's `mkdir` and rename are
one step (the race of the two is modelled for create). `Overlap = FALSE` is a
client that calls `index.sync` and `index.rebuild` only when nothing else runs.

### Channels

`log`, `nextSeq` and `cursor` are the tables of migration V13, `tx[c]` is the
transaction of `ChannelService::recv` on one connection: the cursor and the batch
after it (`RecvRead`), the upsert (`RecvWrite`), the commit (`RecvCommit`) or the
rollback of `?` and of a killed process (`RecvFails`). One daemon has one
connection behind a mutex; two connections are open after `system.restart` and
beside a shim that fell back to its own process. Between them stand SQLite's
locks under the default rollback journal: shared while a transaction reads,
reserved by one writer, a commit waits for the readers. `handed` is history.
A batch counts as handed over at the commit: an answer that is lost afterwards
is the at-most-once delivery that the reference documents.

### MemorySignals

The tables of migration V12 beside the index rows they point at: `session`,
`receipts`, `stats`, `aff` and `vec` are `search_sessions` with its results,
`search_feedback`, `entry_memory_stats`, `query_affinities` and its vectors; `at`
is the block and the chunk an entry has now. A search reads (`SearchRead`) and
records later (`SearchRecord`); `Feedback` is the transaction of
`apply_feedback_for_embedding`, all its targets or none. `job` is `entry.delete`,
`block.update` or `block.delete` in three steps: ids read, content changed, signals
cleaned up (`CallSignals`, which `CallFails` skips). `pass[p]` walks, reconciles,
and after a rebuild plans and replaces the affinity vectors. `CleanUp` is what the
four cleaning transactions share: signals of what is gone are deleted, targets lose
the precision that is gone, and rows whose keys meet are merged. `credited`,
`settled` and `overlapped` are history: `settled` says that nothing has failed or been
given up since the last reconciliation, and a rebuild that gives up before it
reconciles is given up too.

Assumptions: an entry has one block with one chunk, all queries normalize alike
(affinities of other queries never meet), timestamps grow, a request names a chunk
together with its block, and what a search returns is as precise as the entry
allows. `entry.update`, appends and the bulk deletes either leave all this alone or
repeat `entry.delete`.

### Dispatch

Lines of several connections (`task[c]`) are dispatched to the Daemon in `slot`.
A request is its locks, then one handler: a writer (commit, bump), a search
(`LookUp`, `Compute`, `Insert`) or `system.restart` (`Build`, `Swap`). Each
Daemon has its own `lock`, `gen` and `map`; all share `commits`, the database.
`Locks` gives the layers that lock for a request: dispatch or `tools/call` for a
mutating handler, `Run::call` for `sync.run`. `acked` and `retired` are history.

### Resident

`path` is whose socket the file is, `srv[s]` where each `--serve` process is:
`bind`, EADDRINUSE and the probe, `unlink`, `rebind`, permissions, boot, the serve
loop with its two waits (`wait`, `permit`, `quiet`), the exit that first closes the
listener and then removes the name, whosever it is. `cli[c]` is a shim or a
`--sync` process. Every file system access is a step of its own, since starters
are processes of their own. `hasty` is history: a probe hit a socket between its
bind and its listen.

### GitSync

A document is the set of edits it holds, its `#updated_at` line and git's conflict
markers; `file`, `row`, `index`, `head`, `onto`, `remote` are the six places it
lives in. `RunStep` is `sync.run`, one git call a step, beside handlers, index
passes, a restart (whose new Daemon has a lock of its own), the user who resolves
conflicts and a second device. Git itself (merge, markers) is external. `trouble`
records which kinds of failure have happened.

### Batch, Vectors, Benchmark, Conversations

`Batch`: `tx` is the transaction between BEGIN and COMMIT, `names` the results
that `$ref` may name; after the COMMIT come signals and embedding (`ListChunks`, the
provider call, `WriteVectors` or `EmbedFails`). Beside all of it index passes
re-index a file (`Reindex`: the old row with its links and chunks goes, the new one
has no vectors), sweep rows without a file (`Sweep`), wipe the table (`Wipe`) and embed
later (`PassEmbeds`); their reconciling of signals is in `MemorySignals`. `Vectors`: runs of `embed_entry_chunks` (list, cache lookup, provider,
write) on one entry whose blocks change meanwhile and whose daemon boots with
another model or dimension; a vector is told by what it was computed from, and a list
of chunks or of misses is the one ascending sequence of its set (`Ascending`).
`Benchmark`: a run's fixtures as rows and directories, start with its undo, finish
and abort, `record_answer` around a slow judge, boot recovery, an index pass, and
searches that read the visibility flag before the generation. Several clients record
answers at once: a call carries its own answer (`Record`), files it when its judge is
done into the run that is active then (`Filed`, or `JudgedLate` when that is another
run or none) and is answered later (`Told`). `Conversations`: each
mutating call with the events it writes in its transaction; ids are a millisecond
and random bits; `events.list` is the set of the first events after the cursor, and a
consumer replays them in the order of their ids.

### NomaiFormat, Chunking, Ranking

Pure algorithms, checked over all inputs of a small universe against a reference
definition. `NomaiFormat`: quoting and splitting of header values, tags,
`@connection` attributes and body lines over the characters that the rules tell
apart. Nothing keeps a title, tag or attribute from having line breaks, so what a
client sends may: `FirstLine` is all that is read of such a section, and the lines
behind it must be blank or headers (`GoOnAsHeaders`), or become lines of the block's
body (`GoOnAsBody`), else the file cannot be read. `Ended` is the line break that
create and rerender append to a block's text. Left out: carriage returns in bodies,
other headers or body lines that a line break makes out of a text (they are other
sections), and texts whose letters spell a key or a block type. `Chunking`: paragraphs, sentences, hard splits, separators counted.
`Ranking`: the page of adaptive hybrid search (dedupe, recall cuts, reciprocal rank
fusion, affinities, live factors) against the documented formula without its stages.
Loops over characters, sentences, paragraphs and lines are folds with a named step
(`UnescapeStep`, `TagStep`, `TokenStep`, `LineStep`, `AddSentence`, `AddPara`).

### Folding

No part of the system: facts about the folds that stand for loops, for the proofs.

### MCFiles, MCProcesses, MCServices, MCMemorySignals

Each hosts several components that share no variable: `part` says which one a
behaviour is of, the others stay in their initial states. A property of a component
is stated once in its module and named again there.

## 4. The runs

| Run | Question | Instance |
|---|---|---|
| `cache_handlers` | does a search asked after an answer ever return older content, whatever handlers, failures and passes overlap? (`ContentFresh`, its inductive invariant `CacheInv`, the refinement `Refines` of `FreshReads`) | 2 writers, 2 searches, 2 calls, 2 asks, 1 pass |
| `files` | index: row and file, durability of edits, updates, deletes and links across failures and crashes; benchmark: fixtures and answers (`ReportComplete`); git: `EditsKept`, `NoMarkersPushed`, `OkMeansSynced`; dispatch: `MissedOnlyOverSwap`, `RestartTakesEffect` | 2 entries, 4 calls, 1 sync, 2 crashes; 2 runs of 1 fixture, 2 clients, 2 calls, 1 restart; 2 entries, 3 edits of two devices, 2 failures; 2 connections, 4 lines, 3 Daemons |
| `index_overlap` | with two passes of either kind beside calls, a crash and changes by hand: do files survive, has a quiet pass that reports success converged? | 2 entries, 2 passes, 2 calls, 1 change |
| `memory` | signals: `VectorsMatch`, `FeedbackCounts`, `PrecisionOwned`, `LearnedStays`; ranking: `PageRight`; format: `ReadBack`; chunking: `ChunksRight` | 1 entry, 2 searches, 2 models, 1 pass; 3 entries, 2 rows, 2 chunks, 2 affinities; 4 characters, 2 lines; 3 paragraphs of 3 sentences |
| `processes` | `OneOwner`, and what must eventually happen: clients settle, daemons leave, a sync settles again, work ends | 2 servers, 1 shim, 1 CLI, 1 kill; the others as small |
| `services` | channels, batch, vectors, conversations, and two more instances of the cache (methods that embed late, methods that bump before fallible steps) | 4 messages, 2 connections; 3 ids, 3 operations; 3 chunks, 2 runs, 1 boot; 3 calls, 2 ms |

Six `violation` runs each show one disagreement between the code and a line of
its documentation or comments, quoted under `findings` in `PROJECT.json`:
`batch` never bumps (`cache_batch`); a rebuild undoes an answered `entry.update`,
which no file ever holds (`index_rebuild`); a rebuild between the two queries of a
rerender empties a file (`index_lostedit`); the idle exit is not debounced
(`resident_debounce`); edits of different blocks conflict in the `#updated_at` line
(`sync_merge`); one empty tag, `#tags ""`, is read as such and rendered as no tags
(`format_roundtrip`).

What the passing runs do not claim, because it does not hold. A sync that
overlaps a create: the sweep deletes what is in the index snapshot but not in
the older scan of the files, so it can remove the row of the new entry although
the comment at `core/src/service.rs:1065` says it looks at the file again; the
next sync puts the row back, without its links. Vectors after
`block.update`: it bumps before it embeds, so a search in between keeps the old
vectors under the new generation until the next bump. Links across a crash that
falls between a rerender's write and its stamp: the boot re-indexes the entry
and the links go with the row. Deleted rows under overlap: a pass that read a
file before its delete puts the row back. Cache after a failed embedding:
`entry.create` leaves before its bump, so `SettledFresh` excludes it. Drift that no
mtime betrays: a block committed without its rerender stays ahead of the file, and
no sync finds it (`docs/guide.md:293` says it heals). Signals under overlap: a
sync that reconciles while a rebuild has wiped the rows deletes the signals of live
entries (`FeedbackCounts` without its first conjunct is violated in
`memory`), which the comment at `daemon/src/handlers/index.rs:110` wants to
avoid for partial rebuilds. 

Further things the models show and no passing run claims otherwise:

- Restart. A call in flight over the swap of `system.restart` runs beside the new
  Daemon's `sync.run` and bumps only the old cache, so the new Daemon may serve a
  result from before it until its next bump. The new Daemon's boot purges the
  fixtures of a running benchmark. Two racing restarts may leave the earlier built
  Daemon in the slot.
- Git. After a failed push rows lag behind pulled files, and a rerender from such a
  row reverts a remote edit. `sync.init` that fails after `git init` leaves a `.git`
  that refuses every later init. `rebase --continue` leaves new entries untracked.
- Batch. A rollback leaves the directories of its creates, a delete inside a batch
  leaves its directory, and the next sync adopts both.
- Vectors. A vector written for a chunk that was replaced during the provider call
  stays behind. At another dimension the cache's `INSERT OR IGNORE` refuses new
  rows, so re-embedding is not free of API calls.
- Benchmark. A fixture that exists only as a directory is adopted by the startup
  sync, which runs after the recovery of stale fixtures.
- Events. Two events of one millisecond may be listed against commit order, and a
  cursor may pass one of them by.
- Sockets. Connections in the backlog of a daemon that leaves are cut, and so may be
  one that is accepted as the idle timer fires. A departing daemon removes the name
  even when it is another's, and so does a starter whose probe fell between the
  other's bind and listen: `OneOwner` is claimed until then. A shim that gives up
  waiting opens the same database beside the daemon.
- Format. A line break in a title, a tag or an attribute is neither refused nor
  escaped: the file then loses what follows it or cannot be read at all.
- Signals of live entries are deleted by a sync that reconciles beside a rebuild.

Bounds. The names that begin with `Max` count calls and events of a behaviour, and
only guard the actions that start something. Two writers and two searchers are
enough for every order of a commit, a bump, a load and an insert of one key. Two
entries and two passes are enough for a pass to meet an entry it did not scan and
for two snapshots to be stale at once. Four messages, two purges and a limit of one
let a page end before the log does, and the log be emptied and filled again behind
a cursor. Two searches on one entry are enough for rows of different strength to
merge and a cap of two to be hit. Three edits let both devices edit one block and
one of them another; two failures let a retry fail differently. Three Daemons let
two restarts race and a third line meet either of them. Two servers race for the
name, a third process meets the winner. Entries, passes and clients are symmetric
where only safety is checked.

Fairness. Each handler, pass and search is code that runs to its end once it has
started: `WF` on its step; provider calls time out, so a step that may fail is
still a step. tokio's mutex is FIFO, hence `SF` on `Acquire` (SearchCache); in
`Dispatch` the queue is in the state and `WF` suffices. A daemon that went down is
started again by the next client, hence `WF` on `Restart` (ContentIndex). In
`Resident` every process step is fair, a boot may fail each time and nobody has to
be killed. In `GitSync` the user keeps running `--sync` and resolves what it
reports, as the guide tells him to. Nothing is assumed of clients. `MCProcesses`
states each fairness as the antecedent of the property it is for.

## 5. The proofs

A `_proofs` module beside a component holds its theorems. `Services_proofs` and
`Files_proofs` extend the compositions `MCServices` and `MCFiles`: they prove what the
components of them guarantee that have no proof module of their own (`Channels`,
`Batch`, `Conversations`, `Vectors`; `Benchmark`, `GitSync`, `Dispatch`), and carry over
what `SearchCache_proofs` and `ContentIndex_proofs` prove, so that a property which a run checks of the composition is a theorem
about that specification (`ServicesSpec`, `FilesSpec`). For that a proof module is
instantiated under the names of the composition, and the instance's `Init` and `Next`
are shown to follow from those of the component's own instance. All theorems hold for
every value of the constants, under the assumption that each module states about them
(bounds are numbers, special values are not members of the sets they stand beside),
which TLC evaluates for the instances of the runs.
Hypotheses beyond that are named below. No invariant below is a property by itself: each
is the property plus what makes it survive every action.

`SearchCache_proofs`, for any number of clients, any set of handlers and any bounds:

- `TypeCorrect`: `TypeOK`, with `sync_lock` held exactly by the serialized handler that runs.
- `BoundedInvariance`: `Bounded(n, facet)` is inductive under `WellOrdered(n, facet)`. `floor[g]` is the length of the history when the generation became `g`. Whatever is filed under `g` was read at or after `floor[g]`, since the key was loaded before the read; whatever a client heard of was committed at or before `floor[generation]`, since a handler that is ahead of it still owes a bump (`OwesBump`) and has told nobody. A search asked afterwards loads a key at least that new. `CacheInvariance` is its content case.
- `ContentFreshness` and `DaemonFreshness` follow; the latter evaluates `WellOrdered` on the daemon's own handlers, all but `batch` (`HandlersBumpLast`). `VectorsStayFresh` and `StampsStayFresh` are the same for vectors and stamps and name the methods that bump too early for them; `DaemonFailuresFresh` is the same after failures, for the methods that bump right after their content. `EffectsStayFresh` combines them where all conditions meet.
- `CacheImplementsReads`: under the same hypothesis, the cached search implements `FreshReads` by the refinement mapping of `Refines`. The finish of a search is the abstract answer, which needs `CacheInv` to be recent enough and `PastOK` not to be of the future; every commit that a client has yet to hear of stutters.

`ContentIndex_proofs`, for any number of entries, passes, calls, failures and crashes:

- `TypeCorrect`, for any overlap and any change from outside: with it, a file always has a directory, a job about to remove a directory has removed its file, and a pass that is not running remembers nothing.
- `FilesStay`, for any overlap and change too: a live entry keeps its file. `FileInv` adds that a create which is past its rename has its file, and that only an entry whose delete was announced loses it.
- `PassesAlwaysConverge`, likewise: `ConvInv` says for each undisturbed pass, at each of its steps, which entries are already in step and what its snapshot still says of the others; any write of another actor ends being undisturbed.
- `KeptInvariance` (and all that follow) assumes `SerialUse`: no index RPC beside other calls, no change from outside. The properties are not inductive: that an edit is in the row says nothing about a later boot, which may replace the row by the file. `StaleOK` closes the gap: where the mtimes of row and file differ, a rerender has written the file and not yet stamped the row, so both hold the same content, and a pass that finds them different loses nothing by re-indexing. `JobOK` carries that from step to step of the running handler, `SyncOK` carries the snapshot's agreement with the rows through the walk, `OneActor` keeps handler and pass apart, `StoresOK` orders the versions (file <= row <= newest) and `FatesOK` ties them to what clients were told.
- `RowsBacked`, `EditsStayInFile`, `DeletesStay` follow, rebuilds included; `EditsStay`, `UpdatesStay` and `LinksStay` assume that nobody rebuilds, since `index_rebuild` shows what a rebuild does to an `entry.update`. `LinkInv` adds that until a crash no sync meets a stale row, so none is replaced and no link cascades.

`Resident_proofs`, for any servers, shims and CLIs and any number of kills:

- `OwnerInvariance`, `OneOwnerAtATime`: `FirstOwns` adds to the property that before a departure nobody has reached `unlink` or `rebind`, because whoever lost the bind finds the name of a live listener (`Listeners`, `NameOwned`).

`MemorySignals_proofs`, for any entries, searches, models and passes:

- `VectorsAlwaysMatch`: `VectorInv` adds that of the affinities of an entry under one model those without a vector are older, so that merging, which keeps the latest text, keeps its vector.
- `FeedbackAlwaysCounts` and `LearnedAlwaysStays`: `AloneInv` says that until something overlaps one call or one pass runs, and a pass that is to reconcile finds the row of every file or will insert it; the strength of a live entry is then never taken for that of a deleted one.
- `PrecisionAlwaysOwned`: `OwnInv` says of every id who had it, which targets the running call or pass will mend, and that sessions name only ids of their entries. The proof found the history variable `settled` wrong: it stayed true over a rebuild that gave up and so never reconciled, after which a stale affinity may remain; `PassWalked` resets it now.

`Services_proofs`:

- `ChannelInvariance`, for any channels, subscribers, connections, limits and messages: `NoneSkipped` alone is not inductive: a batch read earlier could be committed after the cursor moved. `BatchOK` adds that an open batch is still the initial segment of what lies beyond the cursor, which the file lock preserves, since the cursor moves only when no other transaction is open.
- `NothingSkipped` and `DeliveredOnce` follow, the latter with `BehindCursor`: everything handed over lies at or before the cursor.
- `BatchInvariance`, `BatchesAllOrNothing`, `OkMeansComplete`, for batches of any length, any feedback, and passes that re-index, sweep, wipe or embed any entry at any step after the COMMIT: inside the transaction, which holds the connection, the tables are those BEGIN found, changed by the record of what the batch made and took (`Recorded`); after it, every row touched is embedded, has its entry still on a list, is among the chunks listed and awaited, or was re-indexed by a pass after that list was made (`Finishing`), and a signal of a deleted entry is still to be cleaned unless a pass brought the entry back. `ok` does not promise vectors for rows that a pass re-indexed meanwhile: they are that pass's to embed.
- `LogInvariance`, `EventsMissedOnlyInMs`, for any calls, purges and page sizes: every event ever written is in the log, was given, or was purged unseen, and a cursor is the id of an event that its consumer was given.
- `FollowInvariance`, `ReplicasFollow`, for any calls, pages and purges: a consumer that has pulled everything, was outrun by no purge and got no two events of one millisecond in the wrong order has the conversations of the table. `FollowInv` adds the states that lie between: there is a history `a` of the tables, one state for each event written, and each such consumer stands at one of them (`Stands`). `ApplyAll` is a fold, so a page takes it from its place to a later one (`Folding`).
- `VectorInvariance`, `VectorTypes`, `VectorsAlwaysRight`, `RunsCover`, for any runs, texts, changes of blocks and reboots: what a run has listed is still there with that text or is among `passed`, what it got answers the text at the same place of its list, and what it wrote stands while the chunk does (`JobOK`). Without it the vector that a run writes after its provider call could be of any text.
- `TypesStayOK` has the type invariants of the channels, the batch (`Sizes` adds to `BatchTypes` that the record has a name for each result) and the vectors.
- `EffectsStayFresh`: the two instances of the cache satisfy the hypotheses of `VectorsStayFresh`, `StampsStayFresh` and `DaemonFailuresFresh`.

`Files_proofs`:

- `BenchmarkInvariance`, `FixturesStayHidden`, `ReportsAlwaysComplete`, for any suites, clients, searches, failures and crashes: `AnswersInv` says which run and case the answer of each call in flight is for, that what a trace holds was sent by a call for that case of that very run, and that nothing acknowledged was sent after it; an answer whose judge comes late is refused because the run is looked up again. And as long as nothing was strewn, a purge has every fixture in its list (`RowsGo`), and nothing with fixtures is filed, or about to be, under the generation that is current between runs (`CacheClean`).
- `DispatchInvariance`: `SlotInv` (a Daemon is built once, waits in one restart and goes into the slot once), `Filed` and `CurrentShows` (what a Daemon files under its current generation shows the effects it has bumped), `SlotShows` (the Daemon in the slot began after every effect of another that was not late), `SearchShows` and `Committing` carry that to what is in flight. `MissesNeedSwap` follows, and `RestartsHold` from `SlotInv`.
- `GitInvariance`: `PhaseOK` (run, repository and lock fit together), `HeaderOK` (a header with markers is in an unmerged path and in no commit), `OntoOK` (the remote only grows). `EditsAreKept`, `MarkersStayHere` and `OkMeansIt` each add an invariant that holds as long as `trouble` stays within what the property allows: where each edit is in each phase (`Quiet`), what is free of markers (`Clean`), what the run carries (`Carried`).

`Folding` has lemmas only, for any operator:

- `FoldIsLoop`: the left fold of a sequence is what a loop over it ends with, and the values of the loop exist (`LoopExists`). The library defines the fold by `CHOOSE` of a recursive function, and its induction theorems take an operator as a parameter, which the provers cannot instantiate; here induction over numbers is stated of a set instead (`UpTo`, from the least number of a set, which well-foundedness gives), and the operator is a constant, so that a module takes the facts for its own step by instantiating `Folding`. `FoldOfAppend` and `FoldOfConcat` are what the proofs use.

`Texts_proofs`, for texts of any length (`SeqUpTo` is the induction over sequences, in the same form):

- `ChunksAlwaysRight`, for any target, paragraphs and sentences: `CutOK` says after each step of the loops that every chunk so far is good and so is the current one, `OuterOK` and `InnerOK` that what they hold together is exactly the text up to that paragraph and sentence. `SplitRight` has the arithmetic of the pieces of a long sentence. `ChunksInvariance` is its invariant: the text is one that a block may have.
- `AlwaysReadBack`, for header values, tags and attributes of any length, with line breaks or without, any number of tags and of lines: `FormatInv` says that a row has text of the type of its section, and that a body which was once read from a file has no line that another reading would change; `FormatInvariance` that it is inductive. Under it, `ValueKept` (a value comes back exactly when it is safe, by the parity of the backslashes before each quote), `TagsKept`, `AttrsKept` and `BodyKept` each follow a parser through what the renderer wrote, character by character or line by line (`UnescapesQuoted`, `TagRead`, `AttrRead`, `BodyRead`); a safe text has no line break, so that it is rendered to one line (`OneLine`), and whatever else is rendered, what is read back is of one line (`FirstLineType`).

Only model-checked: liveness under fairness (`DaemonsServeAndLeave`, `SettlesAgain`,
`WorkEnds`), which the prover cannot do; and `PageRight`, whose stages sort by
permutations that `CHOOSE` picks and count what comes before an entry, so that each of
them needs facts about sorting and cardinality that the library does not have.

## 6. Not modelled

HTTP providers, schema and migrations, configuration and protocol types hold no
state whose order of steps matters; providers enter as steps that may fail.
`verify_fs` only reads. `export_to_fs` is serialized with the other mutating handlers
(its `is_mutating` is true) and writes the rows to files; it is a repair tool and is
left out. Search
pages without adaptive memory, snippets and query rewriting, benchmark metrics and
baselines, the reads of links, conversations and channels, and `attachments` beyond a
create that may fail are left out. Power loss, clock steps that repeat an mtime or
turn back a ULID, and several daemons on one database other than those of `Channels`
and `Resident` are outside the models. About half of the counted source lines are
unit tests inside the source files, which no definition models.
