# Verification of relayhistory (`ai-hist`)

TLA+ models of the core of `crates/ai-hist` and of the object-store plugin, the runs that model-check them with
TLC and the theorems TLAPS proves about them. `PROJECT.json` lists the runs, the
mutants, the theorems, the hazards and, per definition, the source lines it
translates. Paths below are relative to `crates/ai-hist/src/` unless they start
with a directory of the repository.

## The system

relayhistory indexes the transcripts that coding agents leave on a machine into
one SQLite database and serves them to embedders, a CLI and a Node binding.

| Part | State it keeps | Operations | What is hard about it |
|---|---|---|---|
| **Change feed** (`change_feed.rs`, `change_feed/`) | `observation_clock`, `revision` columns, `change_tombstones`, `change_feed_store` (epoch, export fingerprint), `change_feed_epochs`, `consumer_cursors`; in memory, open `Changes` | triggers on insert, update, delete; migration by each release; `changes_since`, iteration by pages, `commit`, `position` | writers between pages and between drains, sibling drains of one consumer, crashes before a commit, releases that add, change and retire kinds, replaced databases, positions kept outside the store |
| **Watch loop** (`watch.rs`, `watch/inner.rs`, `owed.rs`, `scope.rs`) | wake slot, run slot, owed retry, backstop | `signal_change`, `signal_registration_lost`, `run`, `tick`, `stop` | two mutexes, four kinds of thread, debounce, contention, retry, a hand-over of every signal through five places |
| **Filesystem registrations** (`watch/fs_events.rs`) | registered, pending, recovering and stale roots | `adopt`, `reconcile`, `retry_pending`, the backend's callback | callback against reconcile; roots that share a registration |
| **Retention** (`retention.rs`, `retention/`) | policy, consumers and acknowledged positions, sweep cursor, pending evictions, generation and its journal | plan, apply, evict in batches, prune anonymous prompts, acknowledge, `retention_changes_since` | plan outside the lock, applied inside it; eviction over several batches; the upload floor; readers that fall behind the journal |
| **Transcript cursors** (`ingest/transcript_cursor.rs`, `transcript_cursor/`, `ingest/incremental.rs`) | offset, identity, stat, prefix digest and settled stat per file | `transcript_unchanged`, open, read, commit | a file appended to, rewritten, truncated or replaced between any two of stat, digest, read and commit |
| **Local object store** (`plugins/object-store/rust/src/{core,fs,upload}.rs`) | object file, metadata sidecar, lock file | `put` (create, swap, overwrite), multipart upload | two files per object, a lock that creates do not take, crashes in between |
| **Object-store manifest** (`plugins/object-store/rust/src/manifest/`, `scrub/seal.rs`) | one object, versioned by the store; chunk objects; what each client saw acknowledged | compare-and-swap update, chunk planning, epochs, scrub marker, server section | lost and late answers, two writers of two builds, takeovers, restores from a backup |
| **Sync run lock and facade** (`ingest.rs`, `session_store/sync.rs`, `session_store/watch_sweep.rs`, `file_lock.rs`) | lock file, catalog baseline, notes of a tick, checkpoint worker | `sync`, `sync_tick`, cancelled and failed sweeps | processes racing for the lock; what a sweep that was cut short reports |
| **Read pool, cached writer** (`read_pool.rs`, `store/sync_connection.rs`) | idle connections with a file identity | checkout, return | replacement of the file between check and use |
| **Incremental ingest, evidence** (`ingest/incremental.rs`, `evidence_reconcile.rs`, `observations.rs`, `source_evidence.rs`) | rows owned by several sources | upserts, reconciliation | a record claimed by more than one source |
| **Continuity, relationship graph** (`continuity.rs`, `relationship_graph.rs`) | none: derived | pure functions | cycles, ambiguous links |
| Catalog facade, discovery, parsers, export, CLI, bindings | none of their own | queries, conversion | data rather than protocol |

How they interact. Sweeps (by the watch loop, `tick()`, or `sync`) take the run
lock, read transcripts from their cursors, and upsert rows. Each upsert fires the
feed's triggers, so the change feed sees every writer without the writer's help.
Consumers, retention's uploaders among them, drain the feed and commit cursors;
retention reads the acknowledged positions to decide what may be evicted, and an
eviction is a delete that leaves no tombstone. A release of the program that
opens the store migrates the feed in the opening transaction. The object-store
plugin is one such destination: it uploads sealed chunks of a session's log as
objects and lists them in a manifest that a client and a server edit by
compare-and-swap, on any backend that keeps the contract of `ObjectStore::put`.

What makes each part correct: a consumer is never told less than the store holds
below its position (feed); a change that was signalled is read, and one sweep
runs at a time (watch loop); a root that is wanted is watched (registrations);
nothing is evicted that has not expired or that a destination lacks, and what
expired goes in the end (retention); a file that is skipped is in the database,
and every record gets there (cursors); a put takes effect once, where its
precondition holds, and the metadata beside an object never lies about it (local
store); no edit of the manifest is overwritten, nothing is listed twice or
vouched for wrongly (manifest); a change of the catalog is reported once and not
lost with a sweep that failed (sync); a pooled connection never reads a file that
is no longer the database (pool).

## Modules

| Module | What it is |
|---|---|
| `ChangeFeed` | the change feed: writers, releases, consumers |
| `MCChangeFeed` | its small instances |
| `ChangeFeedProofs` | type correctness, unique revisions, one record per key, cursors that never move back |
| `FeedAccountsProofs` | that no position skips a change |
| `WatchLoop` | the watch loop, manual ticks and stop |
| `MCWatchLoop` | its small instances |
| `WatchLoopProofs` | type correctness, one sweep at a time, no change or loss forgotten |
| `CasObject` | abstract: what `ObjectStore::put` promises of one key |
| `FsObject` | the local-directory store's put of one key, file operation by file operation |
| `MCFsObject` | its small instances |
| `FsObjectProofs` | its invariants, and that it implements `CasObject` |
| `Manifest` | the session manifest and the compare-and-swap loop of its writers |
| `MCManifest` | its small instances |
| `ManifestProofs` | that neither side of the manifest loses what is the other's or was acknowledged, and that it says nothing wrong |
| `Retention` | eviction beside captures, uploaders and readers |
| `MCRetention` | its small instances |
| `RetentionProofs` | that evictions take only what expired, keep uploaded copies and deletions, and that readers notice |
| `Extrema` | the least and the greatest element of a set of naturals, for the proofs that need `Min` and `Max` |
| `TranscriptCursor` | a transcript, its cursor and the passes over it |
| `MCTranscriptCursor` | its small instances |
| `TranscriptCursorProofs` | that a transcript which is skipped is in the database |

A definition named `X_Something` and commented `Mutant:` is `X` with a plausible
bug; `Next` never uses it. Each property is violated once such a definition
stands in for the one it mutates.

### ChangeFeed

A row is a key (its table and identity) and a value. `row`, `rev` and `tomb` are
the stored rows, their `revision` columns and their tombstones; `clock` is
`observation_clock.version`. `Insert`, `Update`, `Move` (an update that changes a
row's identity) and `Delete` are one statement each with all the triggers it
fires, those that stamp the catalog row of a presence included. A writer's
rollback leaves no trace and is not an action.

`Upgrade(feeds, changed, vals)` is a release opening the store writable: rows of
tables it feeds for the first time are stamped above the head, a table it no
longer feeds starts a new epoch, links the old one to it and drops or rebinds
cursors, and rows whose exported content it changed are stamped again above that.
The backfill's stamps (rowid plus clock) leave gaps; in the model they are
contiguous, in any order. One release at a time opens the store, and a retired
kind's name is not used again. `Replace` puts another database at the path.

`Open` is `changes_since`, with the three places it can start from; its snapshot
and `check_issued` are one step. `Fill` reads one page, both passes under the
snapshot the code reads them in; `FillFails` is the error that ends the iterator;
`Yield` is `next`; `Commit` is `commit_cursor`'s single statement, evaluated in
the database the path names at that moment; `SaveMark` is a consumer that keeps
`position()` itself; `Close` is a dropped drain or a crash. A drain opened on a
database that was replaced reads no further page in the model; what it has
buffered it still yields and tries to commit. A drain filtered to one session
has no consumer and no position to check, and is left out.

`delivered` is an observation: the records of the feed, as they stand now, that a
consumer has been given, by whichever of its drains. `foreign` marks a position that derives from a cursor
the store never issued (one above its head at open, left by a reset or copied
file), of which nothing can be promised until a resync replaces it.

### WatchLoop

An action is one critical section of a mutex of `WatchInner`, or the step between
two of them. `pending`, `lost`, `stopped` are `WakeState`; `holder`, `deferred`
are `RunState`; `pc[Loop]` walks through `WatchLoop::run`; `owed` is `OwedSweep`.
`Release` then `Post` are the two halves of `InFlight::drop`, which lets go of
the slot under one mutex and posts the deferred change under the other.

Durations are abstracted to "due" or not: the debounce window, the leading edge
and the backoff keep their order and lose their lengths. A sweep ends in one of
four ways (`Outcomes`); it reads what its scope covers when it is forced, and is
counted as reading nothing when it is not (the fingerprint may let it skip the
file), so nothing is credited to luck. A change signalled during a sweep is
counted as not read by it. Reconciliation by its own deadline is not counted on
either. After `stop` returns a thread that had not yet claimed the slot may still
sweep, as in the code, where its token cancels it.

### CasObject and FsObject

`CasObject` is the contract a caller may rely on, whichever backend serves it: a
put takes effect at one instant between its call and its answer, at which its
precondition holds; a refusal names an instant of the call at which it did not; a
create that meets its own content succeeds without writing; an error says
nothing.

`FsObject` is `FsBackend` under `put_inner`: `TakeLock`, `Compare`, `Write`,
`WriteSidecar` are the swap; `Link` and a `WriteSidecar` outside the lock the
create; `HeadObject`, `Metadata`, `ReadBody`, `Repair` the reconciliation of a
create that found an object. A multipart upload enters at its commit. `Crash`
may come between any two. The object file is the sequence of bodies it has held
and an ETag is a place in it, so ETags do not repeat: in the code they are made
of inode, time and size of a file renamed into place. Contents are of one size.
`Refines` maps a process inside a call to the contract's call, with the version
it wrote as the instant at which it took effect.

A create's sidecar is written outside the lock and may overwrite the sidecar of
a newer version. That loses a digest, which is then recomputed, and nothing
else: the sidecar names the version it is of and is ignored for any other
(`SidecarTruth`).

A crash ends everything its process was doing. A put whose future is dropped while
a file operation runs on a blocking thread lets go of the lock before that operation
ends; this overlap is not modelled.

### Manifest

`remote` and `version` are the manifest object and its version token, `call[w]` a
writer inside `update_manifest`. `Attempt` is one turn of the loop up to the put:
read, edit, splice the edit's own sections, bump, validate; `Put` is the store's
answer and what the loop does with it. `PutTwice` is a transport that repeats a
put whose answer was lost, `Abandon` a call that ends in an error, a timeout or a
crash with its put perhaps still on the wire, `Arrive` that put arriving late.

The coordinator that calls these functions is not in the repository; `Create`,
`Deliver`, `TakeOver`, `Transform` and `Decide` are what their documentation asks
of it (classify before writing, adopt what was written before, plan against the
copy read, upload chunks before listing them, record the scrub of what is
stored), and the map marks them external. A content hash is the sequence it
digests. A chunk is one unit of the source; `gen` tells one content of the source
from the next. A source that was rewritten and is now empty opens an epoch that
lists no chunk (`manifest-v1.md:218`): the chunk list then stays as it was, and only
the epoch tells a transform of the old content from a current one. Whoever opens an
epoch does so over the one it planned against (`from`), so that a retry after a lost
answer does not open another.

### Retention

A row names the sessions it belongs to: one for evidence, two for a relationship,
none for an anonymous prompt. `Plan` is `prepare` and `plan` on a reader; `Apply`
is the transaction of `run`: it re-reads policy and cursor, takes the floor, and
evicts up to `max_rows` of the candidate, advances past it, or prunes prompts. A plan
made under another policy is dropped (`Obsolete`); under `forever` (0 days) there is
nothing to plan.
Which rows of a batch go first is not fixed by the queries, and is left open.
`Discard` is a worker that found the lock taken or stopped. `Evicts` is the
common end: deletes, suppression of their tombstones, generation and journal.

Captures, the user's deletions, uploaders and readers are external, by what the
feed and the documentation of `retention_changes_since` say of them: an uploader
applies upserts and deletions above its position and starts over at a new epoch;
a reader refreshes the sessions the journal names and the ones the feed names.
`remote` and `view` are their copies. Time counts days. `evicted` and `forgotten`
are observations.

### TranscriptCursor

A file is a sequence of records, one per message, and offsets count records.
`files` has what each inode holds, with modification and change time; `path` the
inode in place. A provider appends, rewrites in place (perhaps restoring the
modification time), truncates, or renames a new file over the path, perhaps on an
inode number used before.

Every stat, every digest and every read is a step of its own, and the provider may
act between any two. A streaming pass opens and stats the file (`Open`), digests the
saved prefix (`OpenSaved`) and, in another read, the window it opened (`OpenWindow`).
A pass over a copy takes the bytes first and the stat after them (`OpenBytes`). `Read`
and `End` are the walk; `CommitStat`, `CommitRehash` and `CommitStore` the commit.
`Load`, `Stat`, `Restat`, `Prove` and `Settle` are `transcript_unchanged`. A digest is
one step, although it reads two windows; a copy kept from earlier in the sweep
(`cold_read::fresh`) is taken at the start of the pass. The two digest windows meet
(`MaxLen <= 2 * Window`): a change in the middle of a longer file is by design not
seen.

Nothing keeps the provider from rewriting a record where the pass no longer looks.
There are four such places for a text behind what the pass has read or resumed from
(`Blind`), and in each the code publishes a cursor that authenticates the text while
the rows hold the one before it:

- between the digest of the saved prefix and that of the opened window
  (`open.rs:46`, `:66`): the new text is in the window the commit compares with;
- past the size the pass opened, which the commit's window does not cover
  (`reader.rs:464`, `:475`);
- between the commit's window and its prefix (`reader.rs:464`, `:475`), where the two
  differ;
- on the tick of the open and with the modification time restored: the commit finds
  the stat unmoved and does not look again, but digests the file anew when it stops
  short of the opened size, at a held message.

`unseen` collects the texts written there by the time a cursor is published over
them. `SkipSound` and `EventuallyIndexed` excuse these texts and no others. That the
code publishes such a cursor at all contradicts its own documentation, which
`PublishesItsRows` states and the run `transcript_torn` refutes (below).

Assumed of the environment, and named: no write brings old text back; passes over
one cursor row do not overlap; the filesystem keeps change times. And one gap TLC
shows when its assumption is lifted: `MaxStall = 0`. With 1, the settle window,
`SkipSound` is violated: `settled_change_time` reads the clock after the digest
(`change_time.rs:178`, called from `unchanged.rs:71`), where `transcript_cursor.rs:406`
asks that the change time be old when the digest runs. It takes a stall of the whole
window between the two calls and a write on the tick of the stat.

## Runs

| Run | Question | Instance | States |
|---|---|---|---|
| `feed_writers` | do pages, crashes and sibling commits against writers skip anything, the derived content of a catalog row included? | 2 catalog rows and a presence, 2 values, 2 drains of one consumer, pages of 2, a foreign cursor of 2, clock to 4 | 1.1 million |
| `feed_releases` | do releases that add, change and retire kinds, or a replaced database, break a cursor or a watermark? | 4 kinds, 3 releases in any order the code allows, the last feeding just the cursor's named kind; 2 rows, 1 drain, 1 replacement, clock to 2, 3 epochs | 475 thousand |
| `feed_stale_cursor` | does the compare-and-swap on a stale cursor keep cursors monotone? (violated) | 1 row, 2 drains, foreign cursor 2 | short trace |
| `watch_paths` | is a change's scope lost or narrowed on its way to a sweep? | 2 files under 2 roots, placed by path or root, 1 manual tick, 1 lost registration, stop | 2.3 million |
| `watch_live` | is everything signalled dealt with, and does everybody return? | 1 file, 1 ticker, 1 loss | 116 thousand |
| `fs_object` | does the local store keep the contract of `put`? | 2 processes, 2 contents, 8 kinds of put, 3 versions | 234 thousand |
| `manifest_writes` | do lost, repeated and late puts of two clients and a server corrupt the manifest? | clients of rule sets 2 and 1, 1 server, 2 attempts, 1 fault, 1 takeover, 1 lifecycle change, a source of up to 1 unit rewritten once, perhaps to nothing | 3.4 million |
| `manifest_restored` | does a client write over a restored manifest, and is everything delivered otherwise? | clients of rule set 1 and none, 1 server, 2 attempts, 1 fault, 1 restore, the same source | 242 thousand |
| `retention_batches` | is anything evicted that must not be, and does a reader notice? | 2 sessions, 2 rows, batches and pages of 1, a journal of 1 generation, policies of 1 day, 2 days and forever, 3 days | 1.9 million |
| `retention_drains` | do deletions and epochs mix with evictions, and does everything expired go? | 1 session, 2 rows, 1 deletion, 2 epochs, 3 days | 224 thousand |
| `transcript_cursor` | is a skipped file in the database, and does every record get there? | 2 inodes, 2 records, 3 writes, 1 rewrite, truncation or replacement, windows of 1, clock to 4 | 1.3 million |
| `transcript_torn` | does a commit that saw the file move publish only what its rows hold? (violated) | the same | short trace |

Why the bounds are enough for the cases to occur. Two rows and a page of one or
two give full, exact and short pages and a row re-stamped behind and ahead of a
position; a clock of 4 gives insert, drain, rewrite or delete, and drain again, and a
presence that comes or goes with the tick of its catalog row between two drains. A
presence that moves from one catalog row to another with both inserted before takes 6
ticks; that case is left to the theorems.
Three epochs give a chain of two retirements, or one and a replacement. One
manual tick and one loss are enough to be in flight at every point of the loop.
Three versions give a swap that lands between a create's failed link and each of
its reconciling reads. One fault at any point of any call gives each of a lost,
repeated and late put; a rewrite gives a second epoch, with a chunk or without.
Three policies let one that evicts take the place of another between a plan and its
transaction. Batches of one make every
session of two rows take several, and a journal of one generation makes any
reader that misses two rebuild. One rewrite of a transcript between any two steps
is what each digest is there to catch; clock 4 leaves a quiet period after the
last write.

Symmetry is over drains, values and consumers in `feed_writers`; in `watch_paths` over the files, each alone under a root of its own; in
`fs_object` over the processes. No run that checks liveness uses it. `Committers`
says which consumers commit named cursors in an instance; the theorems allow any
mix. `MCSpec` of the feed and of `FsObject` bounds the clock or the number of
versions and nothing else.

Deadlock checking is off for the watch loop, which ends for good once it is
stopped and its callers have returned, and for the manifest, where everything may
be delivered, or the owner stopped at a restored manifest. It is on for the rest.

**Fairness.**

- `watch_live`: weak fairness of the loop thread, of the ends of sweeps, of a
  joined caller and of the timer of an owed retry: operating-system threads and
  condition variables with a timeout. Strong fairness of "a forced sweep of the
  loop succeeds": the code retries for ever, and without an end to the contention
  nothing could be promised. Nothing is assumed of manual ticks, signals, losses,
  stop or the backstop poll. Losses and ticks are bounded, so the run says nothing
  of a tree whose registrations are lost for ever.
- `manifest_restored`: weak fairness of "some writer takes a step or begins what
  it has to do": ticks and queued jobs come again. Nothing of a put left on the
  wire, of restores or of the source. Faults are bounded.
- `retention_drains`: weak fairness of planning, strong fairness of applying (the
  host runs the worker again and again, and captures do not hold the lock each
  time), weak fairness of uploads and acknowledgements.
- `transcript_cursor`: weak fairness of the sweep's steps (a watcher sweeps again and
  again) and of the steps of a pass under way, strong fairness of the clock, which its
  bound disables during passes. Nothing of the provider or of hydrations.

**Findings.** `feed_stale_cursor`: `commit_cursor` replaces a cursor that stood
past the head when the drain opened, by compare-and-swap on its value. The
comment (`change_feed.rs:1464`) says a commit that moved the cursor since is a
real position to which the monotonic rule applies. If a sibling's commits have
brought the cursor to *the same value* as a real position, the rule is not
applied and the cursor moves back. It takes a foreign cursor, two overlapping
resyncs and a head that grows to exactly that value. The effect is that changes
are delivered again; nothing is skipped, as `CursorAccounts` in `feed_writers`
and its theorem show of the same situation.

`transcript_torn`: the documentation of `CommitOutcome` (`reader.rs:145-151`) says that
a pass whose file was rewritten underneath it records nothing, since "its rows hold the
old bytes, and hashing the file now would authenticate the new ones", and `:154` that
"the bytes behind the cursor are the bytes the pass read". `commit` compares the window
of the size it *opened* and then digests up to where it *got*. In the run a streaming
pass opens a file of one record, a second is appended, both are read, and the second is
rewritten in place. The commit sees the stat move, finds the window of the first record
as it was, and publishes a digest of both. The cursor authenticates a text that no row
has, and the sweeps after it skip the file. It takes a rewrite in place during a pass,
of a record appended during that pass. The other blind places of `Blind` end the same
way.

## Proofs

`ChangeFeedProofs` and `FeedAccountsProofs` prove, for every set of keys, kinds,
releases, consumers and drains, every page size and any number of steps;
`WatchLoopProofs` for every set of files, roots and ticking threads;
`FsObjectProofs` for every set of processes, contents and requests;
`RetentionProofs` for every number of sessions, rows, workers, destinations and
readers; `ManifestProofs` for every set of clients and servers, every assignment of
rule sets and any number of attempts, faults, takeovers, rewrites and (but for
`ReadOnce`) restores; `TranscriptCursorProofs` for every length, digest window (as
long as two cover the file), settle window, clock and number of writes:

| Theorem | Statement |
|---|---|
| `TypeCorrect` | `Spec => []TypeOK` |
| `RevisionNamesOneRecord` | `Spec => []RevisionsUnique` |
| `KeyHasOneRecord` | `Spec => []OneRecordPerKey` |
| `CursorNeverMovesBack` | `ForeignRevs = {}` implies `Spec => CursorMonotone` |
| `CursorNeverSkips` | `Spec => []CursorAccounts` |
| `DrainNeverSkips` | `Spec => []PositionAccounts` |
| `MarkNeverSkips` | `Spec => []MarkAccounts` |
| `WatchTypeCorrect` | `Spec => []TypeOK` (of `WatchLoop`) |
| `WatchOneSweep` | `Spec => []OneSweep` |
| `WatchLossRecorded` | `Spec => []LossRecorded` |
| `WatchNoLostChange` | `Spec => []NoLostChange` |
| `FsTypeCorrect` | `Spec => []TypeOK` (of `FsObject`) |
| `FsSidecarTruth` | `Spec => []SidecarTruth` |
| `FsAckNamesContent` | `Spec => []AckNamesContent` |
| `FsRefines` | `Spec => Refines`: `FsObject` implements `CasObject` |
| `RetentionTyped` | `Spec => []TypeOK` (of `Retention`) |
| `EvictionKeepsRemote` | `Spec => []RemoteKept` |
| `DeletionsArrive` | `Spec => []ForgottenGone` |
| `ViewsAreExact` | `Spec => []ViewExact` |
| `EvictsOnlyExpired` | `Spec => OnlyExpired` |
| `ManifestTyped` | `Spec => []TypeOK` (of `Manifest`) |
| `ContendedIsContended` | `Spec => []LostToAnother` |
| `CurrentIsTrue` | `Spec => []NormalizedTruth` |
| `MarkerHolds` | `Spec => []Vouched` |
| `SidesKept` | `Spec => SectionsKept` |
| `AcknowledgedKept` | `Spec => NothingLost` |
| `ReadOnce` | `MaxRestores = 0` implies `Spec => []SourceOnce` |
| `CursorTyped` | `Spec => []TypeOK` (of `TranscriptCursor`) |
| `SkipsNothing` | `MaxStall < SettleWindow` implies `Spec => SkipSound` |

Assumptions: `ConstantsAssumption` (typing of the constants; presences and
catalog rows are fed from the first release; pages are not empty) and
`KeysAssumption` (finitely many row identities, needed to count the rows a
migration stamps). TLC evaluates both on every feed run. The other proof modules
use the assumptions of `WatchLoop`, `FsObject`, `Retention`, `Manifest` and
`TranscriptCursor` on their constants (typing; the marks for "none" are none of the
values they stand in for), which TLC evaluates too. Three theorems add a hypothesis.
`ReadOnce` adds `MaxRestores = 0`, where the argument ends (below). The other two do
because the code does not keep the promise without it. `CursorNeverMovesBack` adds that no cursor of another
store is found in this one: with one, `feed_stale_cursor` moves a cursor back.
`SkipsNothing` adds that the process does not stall for the settle window between
the digest and the clock reading: the gap of the section on `TranscriptCursor`, in
which TLC violates `SkipSound`. Where a pass is blind is no hypothesis: the provider
writes there too, and `SkipSound` says which texts may be missing for it.

*Uniqueness* is inductive as `Stamped`: no stamp above the clock (`BelowClock`),
none shared by two rows, two tombstones or a row and a tombstone (`Distinct`),
absent rows unstamped, fed rows stamped and without tombstone, and never-fed
tables clean (`StampsFollowRows`), presences and their catalog rows fed
(`CoreFed`). The third part is needed for releases: without it a table fed for
the first time could bring stamps of its own.

*Cursors never move back* by `Issued`: no cursor is ahead of the clock and no drain
is about to replace one that was. A commit then moves a cursor only by the
monotonic rule, within its kind set, and a release only drops it or binds it to
every kind.

*No skipping* is inductive as `Account` on top of it. The key lemma is
`OldRecordsStay`: a writer or a release leaves a record at or below the old clock
only if it leaves it exactly as it was, so an account up to a position never
breaks behind a consumer's back. What a drain needs is that its buffer holds
every record of its kinds between its position and the last one it holds
(`BufferComplete`): yielding the oldest then extends the account. `DrainNow`
adds that an all-kinds drain whose epoch is still current may commit as "every
kind" although a release has since added a kind, because that kind's rows are
above the drain's head. `MarkOK` carries the same through retirements for marks
bound to named kinds, and `OldEpoch` keeps positions of replaced databases from
ever matching the current epoch or a link to it.

*One sweep, and no change lost* (`WatchLoop`). `OneSweep` is inductive with the
control states: who sweeps holds the slot. `NoLostChange` alone is not: a debt
that has been folded into a wake is still recorded as owed while the wake is
carried out, and a step that settles the debt would seem to lose what the wake
lost. `Kept` says that an unread change is on its way without counting on the debt
once it is folded (`Folded`); `Carried` that what a forced sweep is reading its
scope covers, so that a sweep that fails leaves it in hand; `Fresh` that the loop
starts with the startup wake.

*The local store.* `IInv` has the sidecar's digest true of whatever version it
names, current or not (`SidecarInv`), which is why a late sidecar does no harm;
that who compares, writes or repairs holds the lock, so a comparison that
succeeded still stands at the write (`Compared`); that a put's own version holds
its body (`Wrote`); and, for a reconciling create, that the version found is of
the call and that its content was seen in that or a later version (`Found`), which
is what an idempotent success needs in the contract. The refinement is step by
step: `Begin` is the call, `Write` and `Link` its effect, `Finish` the answer, and
every other step stutters.

*Retention.* `RemoteKept` is inductive only with what a position stands for. An
uploader's position names the rows its destination holds and the deletions it has
applied (`Reached`), and so does, for rows, an acknowledged position (`Acked`),
which is what makes an eviction under the floor safe. `Apart` tells rows, evicted
rows and deleted rows from each other by uid, so that a later deletion retracts no
evicted row; `Told` says the tombstones are exactly the user's deletions, which is
`ForgottenGone` at the head; `Epochs` and `Numbered` keep old positions from meaning
anything in a new epoch. For readers `Followed` says of each session that it is
shown as stored, or named by the journal or the feed after the reader's position, or
out of the journal's reach. A batch that ends a relationship changes what *two*
sessions show: the journal must name both, and the proof of that step is where a
journal of the candidate alone would fail. `OnlyExpired` needs `Dated`: a plan is
of the past and never made under `forever`, so what passes the check of the policy
under the lock is applied with a cutoff not past the one in force, and `Apply` reads
activity again. Under `forever` nothing goes, whatever plan is still held.

*The manifest.* A put is taken only if the manifest is still the version it names,
so the invariant says what a put carries *if* it names the current version
(`Carries`): the other side's section, the chunks listed, and everything its client
saw acknowledged. Puts left on the wire are in it like those of a call (`Pending`),
and once another manifest is stored nothing is left to show of them. `InCall` bounds
a call's attempts by the manifests stored since it began; `Covered` has every chunk
of every manifest that is stored, backed up or on its way stored as what it says it
went through, and the marker below all of them, with `OneObject` (an upload never
replaces an object) for chunks another build had stored; `Truthful` is the same for
transforms. `SectionsKept` and `NothingLost` follow at the step that stores a put.

`CurrentIsTrue` has epochs that list no chunk in it: a section is compared by chunk
list *and* epoch, and `Truthful` keeps both with what the transform read.

`ReadOnce` needs more (`Readings`): the list reads the contents of the source in
order, an epoch each, and its last epoch ends with the list (`Reads`) or lists nothing
and comes after every content listed (`Emptied`); an append in flight either no longer
fits the list, or continues its last epoch with the same content, or opens one for a
content the list does not hold (`Lists`), or only opens one, over an epoch whose content
is gone (`Reopens`); and a put that the store may take shortens neither the list nor
the epoch (`Grows`), so that an append which still fits fits the list it was planned
against. It is stated while nobody restores: a restored list may be as long as the one
an append was planned against and read another content, which the append's sequence
number, epoch and offset do not tell apart, so the argument stops there. Whether some
other rule always stops such an append first is open (TLC found no violation on small
instances). With restores the proved promise is `NothingLost`.

*Transcript cursors.* Along the history of the path the text at a place only gets
newer, so an invariant can order what is known of a place. `Grounded` says, of a text
that a cursor digested: the path has nothing older at that place; if the path still
has this text, so do the rows, unless it was written where a pass was blind; and a pass
under way reads or holds nothing older there, so its writes cannot undo the rows
(`ReadsOlder`). That is what makes a stored cursor keep its meaning while another pass
rewrites rows beside it (`Knows`).

What a pass will commit is a digest, and the invariant follows it from step to step.
`Opened`: of the window taken at the open, the pass has the text of every record it is
past. `Streamed`: of the file it streams, it has the text of every record it is past, or
was blind to it, or the commit will find out (`FoundOut`): the record is in the window,
is no longer what the window has, and the stat has moved or the window is being digested
again. This is where the split of the open into two digests shows: between them there
is no window yet that could find anything out, so the case is one of `Blind`.
`Redigested` is what is left of it once the window was compared: what the commit
digests anew is what the pass has. For the settled stat, `Settles`: a file with the
settled change time *is* the file that was digested, as `Proved` has the digest taken
on a later tick than that change time. The data lemma is `DigestReads`: while two
windows cover a prefix, a digest has the text of each of its records. `SkipSound` is
then one step: who skips by digest or by settled stat has a digest equal to the path's,
whose texts are all `Grounded`.

Only model-checked: liveness (`watch_live`, `Delivered`, `Drained`,
`EventuallyIndexed`), which is outside this prover's reach, as is what a recursive
definition computes (none is used). `SourceOnce` under restores is neither proved nor
a run's property.

## Not modelled

- Epoch collisions: an epoch is a fresh name in the model. In the code it is a
  random 63-bit draw, and a retirement's is its predecessor plus 2.
- Row decoding, JSON shapes, the wording of errors, status and reports.
- Retention's evictions as actions of `ChangeFeed`: `Retention` has its own, coarser
  feed, with what a position, a tombstone and an epoch mean to an uploader. Its
  cooldown, its 32-row chunks, the overflow of one journal entry, Grok replay marks
  and the reopening of continuity evidence.
- Of transcripts: unterminated last lines, the metadata fold's position, compressed
  copies, filesystems that keep no change time, oversized and undecodable records.
- Of the object store: a put whose future is dropped during a file operation, deletes, listing, ranged reads, the remote backends,
  symbolic links, key layout, compression; `set_state` and the abandoned lifecycle.
- The bulk of the repository by size (`ingest.rs`, `ingest/hydrate.rs`, `store.rs`,
  `discover.rs`, the provider parsers, CLI, bindings, the TypeScript SDK, export) is
  parsing, SQL and conversion inside single transactions: data, with no protocol
  that a small instance would exercise.
- `FsWatch`, the sync facade, the read pool, continuity and the relationship graph,
  as below.

## Plan

1. `FsWatch`: registrations, pending, recovering and stale roots, callback against
   reconcile; composed with `WatchLoop` through the lost-registration bit.
2. `SyncFacade`: run lock, baseline, cancelled sweeps, checkpoint worker; an
   abstract "one sweep, one report" that `WatchLoop`'s opaque sweep refines to.
3. `ReadPool` and the cached writer.
4. Proofs: the invariants of the models above as they come; of today's, only liveness
   and `SourceOnce` under restores have no theorem.
5. `Manifest` over `CasObject` in place of its own store.
6. Continuity and the relationship graph as operators against a reference
   definition.
