# A TLA+ development of hybridmvcc

hybridmvcc is an embedded key-value store in Rust: a lock-free multi-version
memory table with snapshot-isolation transactions, background flushes of cold
versions to level-0 tables, an LSM version set with compactions, a write-ahead
log and checkpoints. This directory models its concurrency and storage
protocols in TLA+, checks them with TLC on small instances, and proves with
TLAPS, for all instances, the transaction manager, the memory table and that it
implements snapshot isolation, the hybrid build of the table, the flush pipeline,
the version set with its compactions, and crash recovery. Source paths below are relative to the repository;
`src/...` is the crate.

## 1. Inventory

| Component | State | Operations | What is hard | What makes it correct |
|---|---|---|---|---|
| Transaction manager (`src/transaction/transaction_manager.rs`, `src/transaction.rs`) | `timestamp` counter, `snapshot_data` (`xips`, `latest_completed_xid`) under a RwLock, `cached_min_xip` | `start_transaction`, `commit`, `abort`, `min_xip` | versions are stamped one by one under the lock while readers do not take it; the bound is used after the lock is dropped | nobody starts above a timestamp still being stamped; the bound stays below all transactions in progress |
| Memory table (`src/memtable/hash_memtable.rs`, `src/storage.rs`) | lock-free map of entries, each an atomic tagged pointer to a chain of redo nodes | `get`, `put`, `update`, `delete`, `rollback`, `snapshot`, `gc` | loads, `compare_exchange`, and the plain store of `rollback` from many threads; `gc` cuts chains below running threads | snapshot isolation with first-updater-wins; nothing committed is lost, nothing reclaimed is reachable |
| Flush (`src/db.rs`: `flush_memtable`, `background_flush`, `write_level0_table`) | `flushing_threads`, collector set, immutable tables, two condition variables | admit, register, snapshot, cancel, rendezvous 1, gc, write, rendezvous 2 | ordering of jobs by a bound read before they register; nested locks and waits; panics | a version is findable in memory, immutable table or file at all times; jobs end |
| Reads (`src/db.rs`: `get`, `get_from_storage`, `update`) | none of its own | memory table, then immutable tables, then sstables | the value moves down while the reader does | the newest value below the start timestamp |
| Write-ahead log (`src/wal.rs`, `src/wal/segment.rs`, `src/wal/reader.rs`) | segment files, page buffer, log positions | `append_all`, `append`, `flush`, reopening, reading | page and segment ends; a crash inside a record; a flush done by somebody else | what was acknowledged is in the files and is read back |
| Checkpoints and start-up (`src/wal/checkpoint.rs`, `DbInner::startup`) | manifest file, redo point | `create_checkpoint`, `startup` | order of log, manifest and table file across a crash; commits that are visible before they are durable | recovery continues from a checkpoint that is a snapshot, and nothing acknowledged is missing from both it and the log |
| Version set, compaction (`src/version.rs`, `src/db.rs`) | versions (files per level), compactions under way, next file number, `min_xip` | `get`, `log_and_apply`, `pick_compaction`, `compact`, flow control | a compaction is picked, run and installed on different versions | lookups do not notice compactions; no file is compacted twice; work that is due is done |
| Merging iterator (`src/merging_iter.rs`) | children and their current keys | `next`, `next_with_timestamp` | ties between levels, and timestamps that only level 0 has | the newest version of a key first |
| Block and table formats, filters (`src/block`, `src/table`) | the block being built, index, prepared hashes | builder, lookup, iterator | prefixes, restarts and block ends meet; filters must not refuse a key | what was added is found and iterated in order |
| Timestamps (`src/transaction.rs`, `src/storage.rs`) | none | encode, compare, `inc`, `dec`, collected mark | tag bits, wrap-around, a narrower word in the nodes | order agrees with time |
| Hybrid FastCommit (`src/transaction/transaction_table.rs` and the parts of the manager and the table under feature `hybrid_ts`) | status table, recorded snapshots | `record_snapshot`, `get_snapshot`, status set and read, two tests of versions | status and `xips` change at different moments; versions of aborted transactions stay | nobody reads what was not committed; what was committed before is found; writers take turns |
| Caches, file access, allocation accounting, options, benchmarks | - | copies of immutable blocks, I/O | - | no protocol of their own |

How they interact: `Db::put/get/delete` call the memory table with a
`Transaction`; the table appends the redo node and a staged log record to the
transaction; `commit` stamps the nodes under the manager's write lock, then
appends the staged records and a commit record to the log and flushes it;
`abort` leaves `xips`, calls `rollback` for each node and logs. A write that
finds the write buffer full calls `flush_memtable`, which hands
`background_flush` to the pool; the job notes the end of the log as its redo
point, asks `min_xip` for its bound, marks and copies versions (`snapshot`),
publishes them as an immutable table, reclaims them from the memory table
(`gc`), writes a level-0 file and installs it with `log_and_apply`, which also
writes a checkpoint record, flushes the log and points the manifest to it. Every
installed version may ask for a compaction, whose job does the same with its
outputs. `startup` reads manifest and checkpoint and opens the log behind it.

The hazards this code is exposed to are listed with their lines in
`PROJECT.json`, with the properties that cover them or the reason none does.

## 2. Modules

| Module | Models | Composition |
|---|---|---|
| `TransactionManager` | the manager of the default build | alone, and extended by `HashMemTable` and `MemTableGc` |
| `SnapshotIsolation` | what the table promises: snapshots, atomic commits, first-updater-wins; no nodes, no timestamps | abstract |
| `HashMemTable` | table and manager without garbage collection, several keys and writes | extends `TransactionManager`, refines `SnapshotIsolation` |
| `MemTableGc` | the life of one key: Db operations, manager, snapshot, gc, immutable tables, sstables | extends `TransactionManager` |
| `HybridCommit` | the build with `hybrid_ts`: FastCommit beside normal transactions | extends `HashMemTable` |
| `FlushPipeline` | scheduling, counting and locking of flush jobs; versions only as "enough or not" | |
| `Wal` | the log, its files, crash and reopening, its reader | |
| `Version` | operators: lookup in a version, picking of compactions, edits, merging iterator | |
| `StorageMap` | what sstables promise: a map that only flushes change | abstract |
| `VersionSet` | flushes, compactions and their flow control, crash and start on one version set | extends `Version`, refines `StorageMap` |
| `Recovery` | transactions, log, flushes, checkpoints, manifest, crash and start | |
| `BlockTable` | data blocks, index, filter; builder, lookup and iterator of a table | |
| `Timestamps` | timestamps as words | |
| `TransactionManagerProofs`, `HashMemTableProofs`, `HybridCommitProofs`, `FlushPipelineProofs`, `VersionProofs`, `VersionSetProofs` (extends `VersionProofs` also), `WalProofs`, `RecoveryProofs` | theorems | each extends its module |
| `MC*` | constants, bounds and symmetry for TLC; `MCFormats` checks both `BlockTable` and `Timestamps` | |

**TransactionManager.** `Start`, `BeginCommit`, `FinishCommit`, `LogCommit`,
`BeginAbort`, `FinishAbort`, `MinXip`. `writer` is the commit that holds the
write lock on `snapshot_data`; the critical section of `commit` is two actions
because readers of the table see stamping half done. `start_transaction` holds
the write lock and `min_xip` the read lock from their first to their last step,
so each is one action. Whether the log write of `LogCommit` succeeds makes no
difference to the manager; in `Recovery`, `LogFails` is an action.

**HashMemTable.** A chain is a sequence of nodes, newest first, because `next`
of a published node is constant while nothing is collected. Each load of an
entry (`Reload`, `Walk`, `RollbackLoad`), each `compare_exchange` (`Cas`), each
stamp and each store of `rollback` is an action; what a thread computes in
between belongs to the access before it. `call` is the program counter and the
locals of the running operation. A missing entry and a null one are both `<<>>`
here; the difference is in `MemTableGc`.

**HybridCommit.** Takes from `HashMemTable` the steps in which the builds do
not differ (`Shared`) and replaces the others. `fast` is the set of
transactions started in mode FastCommit; their versions keep the start
timestamp, so `commit` has nothing to stamp and `abort` nothing to roll back.
`TakeSnapshot` is the first `get_snapshot` of a transaction, in `HybridCheck`
or `HybridWalk` on a version with a start timestamp. The status is set in the
last step of `commit` and `abort`, or stays if the log has failed. `before` is
a history variable: whose commit had returned when a transaction started.

**MemTableGc.** One key at pointer level: entries have an identity, as a thread
keeps one it has looked up after it has left the hash table, and pointers have
an Abort tag. `Put` looks the entry up, `PutInsert` inserts one if none has come
meanwhile, and `PutLookup` looks again and panics if it finds none. `gc` is its walk, cut, tag, reload and removal, one access each; a
reclaimed node is counted in `retired` and stays readable, as epochs keep it
for threads that are pinned. Whether a job's snapshot is large enough depends
on other keys, so `FlushCancel` and `FlushProceed` are both possible. A table
of a job is the node it took of this key. `late` marks a job that registers
after a greater bound has been published. `scenario` is the situation a
behaviour starts from, one of `Scenarios`: versions, transactions in progress,
and what calls the users make.

**FlushPipeline.** `imm_tables.write()` and `vset.write()` have an owner across
steps: the second point takes the one while it holds the other (`LockVset`, then
`NotYet` or `Install`), and the rendezvous loops take the mutex of a condition
variable under them and drop them one after the other; all other critical
sections are single actions. A failure at an `unwrap` of `background_flush` is a
choice: `WriteFails` panics with no lock held and leaves its immutable table in
the queue, `ApplyFails` (the assertion of `log_and_apply` or an error in it)
poisons both locks, and every later `unwrap` of them panics. That a snapshot
finds nothing below a bound below which another one was taken (`Exhausted`) rests on
`CollectableIsSettled` and on the marks; below any other bound it finds
enough or not, whatever gc has left there.

**Wal.** A file is its length and its chunks; bytes no chunk covers are zero. A
chunk says which piece of its record it carries (`from`, `len`). The loops of
`append` and `append_all` are recursive functions of the number of turns.
Calls hold `open_segment.write()` throughout and are atomic. A call that panics
(the assertion of `sufficient_capacity`, `unreachable!()` in `append`) leaves
the lock `poisoned`, and every later call panics at once, until a restart. `Crash` drops the
page buffer and the running calls and keeps every completed `write_all`;
torn writes and loss of OS buffers (`NoSync`) are not modelled. `Open` pads the last file to a
page. `ReadBack` is what `WalReader` returns from position 0. Replay itself is
commented out in `src/db.rs:121`, so `ReadBack` is what it would be handed.

**Version, VersionSet.** A table has one value, which says which flush wrote it, in
the order of the bounds and of the starts of the program (`Value`), and sizes are
numbers of pairs. `disk` has a content for each file number and
whether the file is intact: one that is overwritten by a longer or shorter
table of the same number is not. Up to `max_background_flushes` flush jobs are
under way. They differ in their tables only, so that those before rendezvous point
#2 are a set of tables, `pending`, and those after it two counts, `asking` and
`lowering`. `WriteTable` (outside the lock) takes any bound that no other flush of this start
has taken, which is `OneTablePerBound` of `FlushPipeline`, in any order;
`InstallTable` takes the least one of `pending`, or `AssertionFails`
(`version.rs:413`). A compaction is `Pick`, `Open`, `WriteOutput` once per output
file, and `Finalize`; `FlushAsks`, `Ask`, `AskNot`, `Lower`, `Leave` are the
requests and the counter of `schedule_compaction`. `start_compaction` does not
test the size of the first file it adds, and neither does the model. `stuck`
and `refused` are history variables that name jobs a crash has left marked and
requests flow control has refused. After a restart the counter starts again, and a
bound may come that is the recovered one, or that of a table in level 0; `twins`
is set when the latter is installed.

**Recovery.** The log is a sequence of records; one flush collects at a time,
its snapshot is one step (`MemTableGc` has the walk), and a table is the set of
the transactions that wrote it. `Collect` marks what it takes (`marked`) and
passes over what has a mark; `Cancel`, and the assertion that fails in
`FlushApplies`, leave the marks behind, and `abandoned` is the history variable
that names such versions. `log_and_apply` is `FlushApplies` or
`CompactionApplies` with the record appended, `FlushCheckpoint` and
`WriteManifest`. Appends are buffered and `durable` is what is sure to be on
disk; `Crash` leaves that or any longer prefix, since an append may have written
the pages it filled. Marks are in memory and go with the crash; each start begins
a new era of timestamps. The i-th record has position i - 1, so that the
first one has position 0, which `is_invalid_lsn` takes for none.

**BlockTable, Timestamps.** Pure algorithms. A table is built key by key and
then looked up and iterated; letters stand for bytes, hashes are small
numbers. Timestamps are words of `Width` bits with the type in the highest, and
`inc`, `dec` and the order are those of the code on such words.

In each module an operator marked "Variant" is a plausible error in the
definition it stands in front of; `PROJECT.json` pairs every checked property with a
variant that violates it. No behaviour of a specification uses one.

## 3. Runs

Symmetry is used in safety runs only. `CHECK_DEADLOCK FALSE` is set everywhere
but in `formats`: those models have bounded transactions, jobs or records, users
may stop at any time, and the finished system does nothing.

| Run | Instance | Question |
|---|---|---|
| `manager` | 4 transactions, 9 timestamps | are bound and commit order right whatever interleaves with `min_xip`? |
| `table_keys` | 2 transactions, 2 keys, 2 writes each | refinement of `SnapshotIsolation`: atomicity over keys, own versions stacked on a key, rollback of several |
| `table_progress` | 2 transactions, 1 key, 2 writes, fairness | do two writers that overlap both commit? do the retry loops end? |
| `gc` | three situations: *two jobs*: 2 readers, one of them early with timestamp 3, versions 2 and 5, 2 flush jobs; *hot key*: the same early reader, 2 writers (put, delete), 1 job; *new key*: no version, 1 writer, 1 reader, 2 jobs | does a reader always find a key that moves down, or whose tail is cut under writers? is a version taken once, and reclaimed only when kept elsewhere? |
| `gc_lost_update` | 2 transactions (get, put), a flush job, 1 version | violated, see 4 |
| `pipeline` | 3 jobs, 2 flushes at most, 3 bounds, fairness | ordering, counting, panics, locks |
| `wal` | 2 threads, 5 records, 2 crashes; pages of 12 bytes, header 2, segments of 2 pages; one record of `append` too large for a segment | acknowledged means on disk; a clean log is read back |
| `versions` | 3 keys, 3 levels, 2 compactions, 2 flush jobs, 4 flushes (puts of two keys, or a put and a deletion), 2 bounds for each start, 1 crash | refinement of `StorageMap`: do lookups notice compactions? |
| `recovery` | 2 transactions, 3 flushes or compactions, 6 records, 1 crash | is what is recovered a snapshot, and what was acknowledged restorable? |
| `redo_point` | 3 transactions, 1 flush, 4 records, no crash | violated, see 4 |
| `hybrid` | 3 transactions of any mode: one reads and updates, one puts and deletes, one puts; 1 key, 1 write each | are snapshots and status right under three-way races? |
| `formats` | tables of up to 6 keys, 2 block sizes, 2 restart intervals; words of 5 bits, marks of 2 | is every table read back? does the order of timestamps survive the wrap? |

Why the bounds are enough to be interesting. *manager*: a start, a commit in
its critical section, a completed one and an abort can be in progress together.
*table_keys*,
*table_progress*: with two writes each, versions appear and go between the load
and the `compare_exchange` of the other, the ABA case included; races of
three are in `hybrid`, whose transactions may all be normal. *gc*, two jobs:
their bounds are equal or different, with readers before, between and after; the early
reader holds the bound between the two versions. Hot key: the version to keep is above
the bound, so the interior cut, and not the removal of the entry, is what gc
does. New key: the version is put, committed, collected, and its entry removed
while a reader looks for it. With writers on a key that gets cold the
properties are violated (section 4).
*pipeline*: three jobs for two slots, so that one is refused, and three bounds,
so that a job may be equal to, before or behind another one. *wal*: the batches
contain a record that fits, one that leaves one byte of its page, one of two
pages, a pair, and one too large for a segment, so that every branch of
`append` and of the capacity test is met, and the panic of `append` too. *versions*: three levels are needed
for a compaction to have something below its outputs, two jobs to run beside
each other, three flushes to change the version under both, and one more to bring a
bound a second time after the crash; two flush jobs exceed the limit of the compactions
when both ask; with two pairs per
table and one pair per file, inputs expand and outputs split. *recovery*: the
second flush finds a checkpoint of the first, or its marks if it was cancelled, of
its own era or of the one before the crash, and a compaction may come between;
each transaction may be at any stage of commit then, and one may be acknowledged
before the redo point while the other holds the bound down. *hybrid*: with three transactions a snapshot can have
one below its minimum, one in it and one at its maximum, each of either mode, and a
version of an aborted FastCommit transaction between two others. *formats*: block
sizes and intervals put restarts and block ends on every key; words of five bits
wrap several times.

`ops` of the situations of `MemTableGc`, and `Ops` of `HybridCommit`, say which calls
each transaction's user makes. On the hot key the old transaction only reads and stays
open, and the others write without reading: other choices run into what section 4 names.

Fairness. `HashMemTable!FairSpec` assumes weak fairness of `Continue(t)`, the
steps of a thread inside an operation, and of nothing else: a thread is
scheduled, a user need never call. Loops that retry end there because each
retry is caused by a write of another transaction, and these are bounded.
`FlushPipeline!FairSpec` assumes strong fairness of each job's steps: a thread
of the pool is scheduled and a Mutex or RwLock does not starve it for ever
while others take it again and again. The code assumes the same of `std::sync`.
`JobsMoveOn` leaves out the jobs that wait on a condition variable, see 4: for a
notification that was lost, or for a job before them that has panicked.

## 4. What the checks show

Hold on the instances above, and those marked * are proved in general:

* The manager's bound is a lower bound of all transactions in progress at any
  later time, everything committed below it is stamped, and the bound never
  goes back* (`manager`).
* Without garbage collection the lock-free table implements snapshot isolation
  with first-updater-wins* (the refinement as a whole, by proof), although stamping is not atomic for readers; the
  plain store of `rollback` loses no version and leaves none*, because
  first-updater-wins keeps all others away from an uncommitted head (`table_keys`,
  `table_progress`). All retry loops end (`table_progress`).
* A key that nobody writes is found by every reader while jobs move it; a
  snapshot takes the newest version below the bound, once; gc reclaims nothing
  that is not kept elsewhere (`gc`).
* At most `max_background_flushes` jobs run*; the queues of the rendezvous
  points contain the jobs under way and nothing else*; no two tables of one
  bound meet*; a job is overtaken only if it registered after a greater bound
  was published*; what gc has removed is in a table although a job panics*; the
  locks never hold each other up (`pipeline`).
* Acknowledged records are in the files, every byte of them, whoever flushed
  them, also when calls panic*; they do not panic if the capacity is a
  number of pages and the records of `append` fit*; a log that is `Clean` is read back whole, the pieces of each record in
  their order (`wal`). `Clean` names what defeats the reader: an
  oversized file, an empty segment before the last, one byte left at a page's
  end, an incomplete record.
* Lookups in the sstables behave like a map that only flushes change, whatever
  compactions are picked, merged and installed meanwhile*, until a file that is
  overwritten in part gets into the version or, after a restart, a table whose bound one
  in level 0 has already; inputs belong to one job each*; the levels above 0
  stay sorted, and level 0 is ordered by bound, strictly until a bound comes
  twice*; no compaction that is due is left*, unless it was refused
  (`versions`).
* Wherever a crash hits, start-up accepts what it finds*, and the tables of the
  checkpoint are a snapshot of its time, but for versions that a cancelled flush
  has marked*. Every acknowledged transaction is whole in the log on disk*. If it
  is of the time of the checkpoint and not marked so, it is in the tables exactly
  if it is stamped below the bound*; if it is not, it lies behind the redo point,
  or an older transaction, whose start is the bound, had not written a record
  before the redo point* (`recovery`). The exceptions
  are defects, see below.
* In the hybrid build no transaction reads what another has not committed*, no
  version is put over one in progress*, and a get finds what had been committed
  when its transaction started, or something newer* (`hybrid`).
* Tables are read back by lookup and iterator; the order of timestamps is that
  of their counter as long as they are less than half the range apart, and the
  narrow mark of gc never names another job (`formats`).

These violations are listed as findings, each with a run of its own:

* `gc_lost_update`: writers never test the Abort tag, so a put can replace the
  abort record; gc removes the entry with the new version in it, and a
  concurrent put of the same key meets no conflict. Both commit.
* `redo_point`: the redo point of a checkpoint is the end of the log when the
  flush begins, its bound the start of the oldest transaction in progress
  (`db.rs:341`). While an old transaction stays open, what others commit above
  its start is in no table, and the redo point passes it. A replay that
  starts at the redo point would lose it. (Replay is commented out today, so
  that a restart loses all that is only in the log.)
Further limits, met while modelling. They are the reasons for the conditions of
the properties above, or of the choice of the instances, and have no run of their
own:

* A cancelled flush leaves its marks on the versions
  (`db.rs:378`), and later jobs pass over them as collected
  (`hash_memtable.rs:590`) but install a bound above them. They stay readable in
  memory until the process ends; the checkpoint does not have them. `abandoned`
  of `Recovery` names them, and `RecoveredIsSnapshot` excepts them.
* `rollback` stores a successor it has loaded before (`hash_memtable.rs:551`); gc
  may have detached and reclaimed it meanwhile.
* Two jobs may reclaim the same tail, one by cutting it and one by
  removing the entry (`hash_memtable.rs:681-749`).
* If a put replaces the abort record of one job and a second job tags the same
  entry, one of them removes it, and the other removes, by key, the entry that
  another put has inserted since, which then panics in `PutLookup`
  (`hash_memtable.rs:340`).
* `check_capacity` accepts a capacity that is not a number of
  pages, with which the assertion of `sufficient_capacity` fails once a page has
  begun behind it (`segment.rs:291`): the guard `WholePages` of `WalTypeOK`. What
  was acknowledged is safe even then.

* A job that registers late publishes an older table than the one installed
  (`db.rs:343-351`), or fails the assertion at `version.rs:413`. `ReadsSnapshot`
  is conditioned on `NobodyLate`.
* After a restart the timestamp counter is 1 while `min_xip` is recovered, so
  the first flushes fail the same assertion; `FlushApplies` poisons then.
* A get of a key the transaction has deleted goes on to the storage and returns
  the old value (`db.rs:243`). The instances keep own deletions and reads apart.
* At both rendezvous points a waiter drops the lock the notifier holds before it
  waits (`db.rs:432`, `505`), and the notification may be lost.
* A job that panics because its table cannot be written (`db.rs:480`) leaves its
  bound in the queue of the second point and stays counted in `flushing_threads`:
  later jobs wait behind it for ever.
* One byte left at a page's end makes the reader skip the next page
  (`segment.rs:371`); a record may outgrow its segment by the header the
  capacity test leaves out; a record cut short by a crash is joined with the one
  after it; `append_all` takes a record that fits nowhere for written.
* The first bound after a restart may be the recovered one, which the assertion
  lets pass (`>=`, `version.rs:413`). If the table that had it is still in level 0,
  `compare_level_files` finds the two equal, `merge_iters` puts the new one behind the old one
  (`version.rs:676-684`), and lookups return the old value. `LevelsAreSorted` asks
  for a strict order before `twins` only, and `StorageMap` promises nothing after.
* A table file a crash has left behind is overwritten without being truncated
  (`db.rs:559`). `StorageMap` is `damaged` once a version has such a table, and
  promises nothing after.
* A checkpoint keeps the marks of running compactions (`version.rs:430`), and a
  crash leaves these files marked for good: `stuck`.
* In the hybrid build `check_ww_conflict` looks at the head of the chain only,
  and a FastCommit transaction that aborts leaves its version there. A normal
  transaction then writes over it, although another normal one has committed
  below it since its start. `WritersTakeTurns` is about the version right below.
* A FastCommit transaction leaves `xips` before its status is set
  (`transaction_manager.rs:115`, `140`), and `is_xid_in_progress` takes it for
  decided in between: its version is invisible at first and visible later in one
  and the same snapshot. `CommittedIsFound` speaks of commits that have returned.
* A refused request for a compaction is not repeated (`db.rs:613`): `refused`;
  `NothingLeftToCompact` excludes it.

## 5. What is proved

Eight modules hold theorems, each about the complete specification of its component and
for all values of its constants. Every temporal theorem is one inductive
invariant, with a lemma per layer or per action and PTL in the last step only.

**TransactionManagerProofs**, from `TxnAssumption` and `MaxTsAssumption`. The
invariants of the run are not inductive by themselves; `TMIndInv` adds
`DrawnFromCounter` (every timestamp in use is below the counter),
`CommitDrawnInCommit` (only transactions that reached `commit` have a commit
timestamp, above their start timestamp) and `WriterIsStamping` (the holder of
the write lock is the only transaction between the draw of its commit
timestamp and its departure from `xips`). `MinXipSafe` rests on the fact that a
start timestamp is drawn from the counter, which is above every member of
`xips`; `StartAfterLowerCommits` on the exclusion of `start_transaction` by the
write lock; `CollectableAreSettled` on both. `BoundAhead` is the action property and follows
from the invariant in each step. `XipsAccurate` (xips is exact) is stated as a
theorem only.

**HashMemTableProofs**, from the above with `MaxWritesAssumption` and
`ResultsDiffer`. `HMTIndInv` is `TMIndInv` with these layers:

* `ShapeInv` and `RoomInv`: types, and that a call in progress has a write left;
* `TimesInv`: start and commit timestamps are distinct, commit comes after start;
* `NodesInv`: who has linked what (`LinkedInv`), and when a node carries its
  timestamp (`StampedInv`);
* `RivalInv`: `WritersDoNotOverlap`, with `CheckedInv`, what `Check` has found
  out about the head it loaded, and `UndoInv`, the same for `rollback`;
* `KeptInv` and `CleanInv`: what may still commit is linked exactly once, and a
  rollback that has passed a node has left nothing of it.

The argument for `FirstUpdaterWins`: `Check` lets a head pass only if it is the
transaction's own or committed before its start, and `Cas` succeeds only on
that head, so whatever happened in between, the version goes on top of it. That the
head is not one of a commit still being stamped is `NoLowerCommitInFlight`. The
argument for `RollbackIsExact`: above an own uncommitted head nobody links, so it
stays the head until its owner moves, and the plain store of its successor
overwrites nothing.

The second half of `HashMemTableProofs` is the refinement, which also takes
`ResultsAreNoNodes` (the results of operations that are no values are told apart from
values). `TableIsSnapshotIsolated`: every behaviour of the table is one of
`SnapshotIsolation` under the mapping that `HashMemTable` states. A walk of `get`
takes one node at a time, and `update` loads the chain twice, so what is read is not
one state of the table. The proof goes by `Seen(t)`, the nodes of `t` itself and
those committed below its start timestamp. While `t` is active this set is fixed:
`NoLowerCommitInFlight` keeps a commit that is still stamping above every start.
Others only link and unlink nodes outside of it, as they are neither `t` nor
committed, so the first member of `Seen(t)` in a chain, and in what a walk has
yet to visit, stays the same. `RefInv` says this (`LoadedInv`) with what the mapping needs
beside it: a commit that has left its critical section has stamped all its versions
(`StampsInv`), versions of one transaction descend in a chain (`OrderInv`), and a
transaction that has not started has no timestamp (`IdleInv`). Then every
linearisation point is one action: `StartTxn` takes the snapshot (all that is committed lies
below the counter), `FinishCommitTxn` moves the writes into the store (an
uncommitted version is on top of its chain, `LastIsFirst`), `BeginAbortTxn` gives them
up, a successful `Cas` writes (`CasAgrees`: every other writer in the chain had
committed before the start), and the step that returns reads or refuses (a conflict
is a rival). All other steps stutter.

**HybridCommitProofs**, from the assumptions of the manager and the table and
`OpsAssumption`. `HybridIndInv` is `TMIndInv`, which the modes do not
disturb, with `ModesInv` (a status is recorded only after the critical section of
`commit`; only versions of normal transactions are stamped, by their owner in
`commit`) and `ReadInv` (what a call carries to its end, or has returned, is
`Known`: the reader's own or of a transaction whose commit has returned). The
argument for `NothingUncommittedIsRead`: a visible FastCommit version is the
reader's own or has a recorded status; a visible normal version is the reader's
own or stamped below its start, and `NoLowerCommitInFlight` says that its owner
is through with stamping.

The other two properties need more. `StepsOfTheTable` says which steps the hybrid
build shares with the default one, so that `ShapeInv`,
`RoomInv` and `LinkedInv` are taken over from `HashMemTableProofs`, and only the
steps of `OwnStep` are new. `WritersDoNotOverlap` is not taken over: it is not
true here, where a FastCommit version may lie between two normal ones (section 4). Instead:

* `CompletedInv` and `SnapshotsInv`: `latest_completed_xid` bounds the start
  timestamps that have left `xips`, and so what `record_snapshot` records is exact
  (`RecordedIsExact`) and does not age: who starts later is above `max`, whoever is in
  progress stays so in every snapshot taken meanwhile;
* `HybridCheckedInv`: the head a writer goes on with is no conflict for it;
* `TurnsInv`: of two versions in one chain by different transactions the lower
  one's is over (`TakesTurn`). What `check_ww_conflict` looks at is the head only,
  and it asks the snapshot for a FastCommit head and the timestamp for a normal one,
  so the invariant carries from version to version: every snapshot in which the higher
  one's transaction is over, and every later start than its commit, takes the lower
  one's for over as well. Without this the run's property is not inductive;
* `HybridUndoInv`: a FastCommit transaction rolls nothing back, and what a normal one
  has found to be its own stays the head (by `TurnsInv`, in place of
  `WritersDoNotOverlap`);
* `BeforeInv`, `CommittedStamped`: what had been committed when a transaction started is
  in every snapshot it may record later, or stamped below its start (`BeforeIsVisible`);
* `GetInv`, `ReplyInv`: a walk of `get` has every such version ahead of it, and meets
  nothing before that is not above it in the chain as it is now (`StaysAbove`: links
  come on top, and a rollback takes off only what no get has returned to another).

`WritersTakeTurnsInBothModes` and `CommittedBeforeIsFound` follow.

**FlushPipelineProofs**, from `JobAssumption`, `MaxFlushesAssumption` and
`MaxBoundAssumption`. `PipelineIndInv` is `ShapeInv` (where a job can be and
who waits where), `QueueInv` (`Registered`: a job between its registration
and the second point is in the queues, also one that has panicked with its table
published; `PassedOnce`: bounds of published tables differ, as a snapshot has been
taken below each; `NobodyElse`: the queues hold nothing else until a lock is
poisoned; `CleanedIsFindable`), `LateInv` (who is not late has all greater bounds
behind it) and `FlowInv` (`flushing_threads` is the cardinality of the set of
jobs that are counted).

**VersionProofs**, from `OptionsAssumption`: lemmas about the operators of
`Version` for every version and every option. `Kept`, `MergeFiles`, `Expanded`,
`FilesBelow` and `Get` are recursive functions; that each solves the equation it
is defined by is an instance of one lemma, `RecursionOnRank`, and what follows
from the equation is shown by induction on the length. An edit keeps each level
in order if what it adds fits between what it leaves (`SortedAfterEdit`,
`NewestAfterEdit`). The inputs of a compaction are closed: the rounds of
`Expanded` end in a selection between which no other file of the output level reaches
(`InputsProperties`, `PickProperties`), and which at level 0 leaves nothing that is older
than what it has (`OldestAreTaken`); bounds may be equal there. The merge has every key of its inputs, with the pair of the
newest of them, or of one of the newest (`MergedValues`), and an output takes a nonempty first part of what
is left (`OutputProperties`). `LookupResult`: in a version whose levels are in order, level 0 strictly,
and whose tables can be read, `Get` returns the pair of the first level, and at level
0 of the newest table, that has the key; the halving of `find_in_files` passes by no
table, and a range that covers a key without having it costs nothing but a step.

**VersionSetProofs**, from the above and `VersionSetAssumption`. `IInv` has
thirteen parts. For `StorageTypeOK`: `ShapeInv`, `FlagsInv`, `CountInv` (`running`
counts the jobs that are not idle, and once more those that take a refused
request back), and `NumbersInv` with `DiskInv`. File numbers are handed out again
after a crash, so that a number below `next_file_num` is in the version, in the
checkpoint, with a job or with a flush at most once, and what the checkpoint
holds is below its own number, is not enough: `NumbersInv` says it for `Held` and for
`HeldByCheckpoint`, all that a crash would leave, apart. For `JobsOwnTheirInputs`:
`OwnInv`, that each input is in the version as it was picked but marked, that
inputs of different jobs differ, and that a mark is of a job or was carried over by a crash;
`FreshInv` (what is yet to be added is not marked) and
`Level0Inv` (`level0_compactions_in_progress` is set while a job works on level
0). For `LevelsAreSorted`: a compaction is installed on a version that other jobs
have changed since, so `OrderInv` is not inductive without

* `ClosedInv`: in the present version, too, a file of the output level that reaches
  between the inputs is one of them; above level 0 a job starts from one file, and
  its other inputs touch that file;
* `ApartInv`: of two jobs that compact the same level above 0, all inputs of one are
  below all inputs of the other;
* `OutInv`: the files a job has written and the keys it still has are in ascending
  order, within the range of its inputs.

What a job installs then lies between its own inputs, where its level has nothing
else and where no other job of that level will install anything. For `NothingLeftToCompact`: `DemandInv`, as long as something
can be compacted there is a job or a flush under way that will ask or look, unless
the latest request was refused or nothing has been flushed since the start.

That `VersionSet` implements `StorageMap` (`LookupsAreUndisturbed`) needs four more
invariants, `LookupInv`, on top of `IInv`:

* `OldestInv`: a job that compacts level 0 has tables none of which is newer than one
  it leaves, whatever has been flushed since. Its output, one level below all others, would hide newer values otherwise;
* `ValueInv`: no table but those of flushes under way has values later than that
  of the last installed one, so that installing the next gives its keys a newer value;
* `MergedInv`: what a job has written and what it has yet to write is, key by key, the pair
  of its newest input with that key, and no key of the inputs is missing from both;
* `SameInv`: the checkpoint has the files of the version, so that a restart finds what
  lookups found before the crash.

Each step is then compared by lookups. A key is looked up by `LookupResult`: the first
level, and at level 0 the newest table, that has it. `FinalizedLookup`: if
the table that answers is an input of the installed job, it is the winner of the merge, and
its pair is found in the output; if not, the output holds nothing that would come
before it. `InstalledLookup`: a flushed table comes first, if no other table of level 0 has its
bound. `DamageStays`: a
table overwritten in part stays in the version, since the jobs that pick it cannot
open it, and `TwinsStay`, so that `damaged` is never taken back.

**WalProofs**, from `WalAssumption`. `LogInv` is `SegmentInv` (the page buffer lies
between what is flushed and what is allocated, and log positions are file offsets),
`PiecesInv` (chunks are pieces of records that were appended), `DurableInv`
(`AckedIsOnDisk`), and `PendingInv`: a record of a call under way is in the files or in
the buffer, and there below the position the call will flush to. `PendingInv` is what
`AckedIsOnDisk` needs to be inductive: when `flush` finds its position flushed already
(`NothingToFlush`), the buffer has nothing of its records, because what is buffered lies
above what is flushed. All that a step may do to the log is `Persists`: it takes nothing
from the files, and what is in the buffer stays at its place or gets into them. Each
turn of the loops of `append` and `append_all` does so, and the whole loop by
`LoopRuns` (a loop of n turns has a sequence of states) and `EveryTurn` (what each turn
preserves holds at the end). That a call leaves no page behind the end of its segment
(`SegmentInv`, and with it the assertion of `sufficient_capacity`) holds if the
capacity is a number of pages (`WholePages`), and is `Room`: the
capacity test leaves out the header of the first chunk, so at most a header's length
of a record comes behind the end of its segment, which with a header of its own does
not fill a page (`RoomOnPage`). A file can still be larger than its
capacity, which the reader and `Open` refuse (section 4).

**RecoveryProofs**, from `RecoveryAssumption`. `RecoveryIndInv` has seven
layers; the first three hold together, the others each from those before:
`TypeInv`; `PosInv`, what positions in the log point to and what of it is on
disk; `LogInv`, a commit record follows the data of its transaction; `VsetInv`,
the version set in memory is the checkpoint of the manifest or the one under
way; `EraInv`, transactions and bounds of one era are drawn from its counter;
`SnapInv`, the tables of a checkpoint are a snapshot but for `abandoned`
versions, since what is marked is in the tables, with the job under way, or
abandoned (`MarkInv`); `RedoInv`, for redo points. `RecoveredIsSnapshot` needs
the eras because timestamps of different eras do not compare. `RedoInv` rests on
the redo point being read before the bound: who logs before the redo point has
been stamped by then, so if the bound was drawn afresh it is above all of these,
and if it is the start of a transaction in progress, that one had not
been stamped, and has no record before the redo point (`HeldBack`).

Only model-checked:

* liveness, which is beyond the prover;
* `MemTableGc`. Its properties hold in instances that keep cold keys away from
  writers (section 4), so there is no theorem for all constants to prove;
* the reader of `Wal` (`CleanLogIsReadBack`) and `BlockTable`, whose results are
  computed by recursion over data and compared with what was written;
* `Timestamps`: words are defined with `^`, which the provers do not interpret.

## 6. Not modelled, and why

* Flushes and gc of the hybrid build (feature `hybrid_ts`, off by default in
  `Cargo.toml`): which start timestamps `is_version_safe_for_gc` takes for old.
  All modules but `HybridCommit` are about the default build.
* Size accounting (`should_flush`, `last_flush_size`, the allocator), which
  decides only when a flush is asked for: `FlushPipeline` lets it be asked for
  at any time. `optimize_space` and `clear` of the memory table.
* `Db::update` of a key that only the storage has.
* The lock-free map, epochs and the thread pool are external crates and appear
  through their contract.
* Caches hold copies of immutable blocks and open tables. Checksums, byte
  encodings, varints of several bytes and the AVX2 probe of the filter change
  no outcome a property is about. Keys of other types than strings.
* Torn writes of manifest, log and tables, and loss of what the operating
  system buffers. Replay of the log, which the code has commented out.
* Deletions do not reach table files in this code; in `VersionSet` they widen
  the range of a table only.
* The empty key in tables. Start-up schedules no compaction, in code and model.

## 7. Plan

1. Hybrid build: gc of FastCommit versions in `MemTableGc`.
2. Size accounting of `flush_memtable`; `Db::update`.
3. Proofs: `SnapshotsAreDisjoint` and `NothingCommittedLost` of `MemTableGc` on the
   pattern of `HashMemTableProofs`, under conditions that keep writers off cold
   keys.
