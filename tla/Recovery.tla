------------------------------ MODULE Recovery ------------------------------
(***************************************************************************)
(* What survives a crash: transactions, the log, flushes, checkpoints and  *)
(* the manifest, and the start that reads them back.                       *)
(*   src/transaction/transaction_manager.rs  start_transaction, commit,    *)
(*                                           abort                         *)
(*   src/db.rs              background_flush, create_checkpoint, startup   *)
(*   src/version.rs         log_and_apply, recover                         *)
(*   src/wal/checkpoint.rs  Manifest, CheckpointManager                    *)
(* The log is a sequence of records, of which the i-th has position i - 1; *)
(* Wal has its pages and segments.  One flush job collects at a time;      *)
(* FlushPipeline has several of them.  A table is the set of the           *)
(* transactions that wrote it, each keys of its own; MemTableGc has how    *)
(* versions are collected.  Writes that were made survive the crash.       *)
(***************************************************************************)
EXTENDS Integers, Sequences, FiniteSets

CONSTANTS
    Txns,           \* the transactions ever started
    MaxJobs,        \* bound: flushes, and versions that compactions install
    MaxLog,         \* bound: records in the log
    MaxCrashes      \* bound: crashes

ASSUME RecoveryAssumption ==
    /\ IsFiniteSet(Txns)
    /\ {MaxJobs, MaxLog, MaxCrashes} \subseteq Nat

VARIABLES
    counter,    \* timestamp_counter
    txn,        \* transactions: [pc, start, ts, era]; start stays in xips while "active"
    log,        \* the records appended
    durable,    \* how many of them are sure to be on disk
    manifest,   \* the manifest file: [pos, state]
    files,      \* the transactions in the tables of the current version
    minXip,     \* VersionSet.min_xip
    redo,       \* VersionSet.min_recovery_point
    xipEra,     \* history: the number of crashes before minXip was read
    flush,      \* the flush job: [pc, redo, bound, table]
    marked,     \* transactions whose versions in memory are marked as collected
    abandoned,  \* history: those marked by a job that has written no table
    apply,      \* log_and_apply under way, with vset locked: [pc, ckpt, pos]
    state,      \* "up", "down", "recovering", "corrupted", or "poisoned" vset
    jobs, crashes   \* history

walVars == <<log, durable>>
vsetVars == <<files, minXip, redo, xipEra>>
history == <<jobs, crashes>>
marks == <<marked, abandoned>>
vars == <<counter, txn, walVars, manifest, vsetVars, flush, marks, apply, state, history>>

Idle == [pc |-> "none"]

\* Timestamp::default(), below all others.
NoXip == 0

Init ==
    /\ counter = 1
    /\ txn = [t \in Txns |-> [pc |-> "new"]]
    /\ log = <<>> /\ durable = 0
    /\ manifest = [pos |-> 0, state |-> "Shutdowned"]
    /\ files = {} /\ minXip = NoXip /\ redo = 0 /\ xipEra = 0
    /\ flush = Idle /\ apply = Idle
    /\ marked = {} /\ abandoned = {}
    /\ state = "down"
    /\ jobs = 0 /\ crashes = 0

Up == state \in {"up", "poisoned"}

\* Transactions that have their commit timestamp.
Stamped == {t \in Txns : txn[t].pc \in {"stamped", "staged", "logged", "acked", "failed"}}

Xips == {txn[t].start : t \in {u \in Txns : txn[u].pc = "active"}}

\* Wal::flush(Some(pos)): the log is on disk up to pos at least.  What else the
\* buffer held, and the pages filled before, Crash leaves or not.
Flushed(pos) == IF durable >= pos THEN durable ELSE pos

-----------------------------------------------------------------------------
(* Transactions. *)

\* Wal::append_record.
AppendRecord(record) ==
    /\ Len(log) < MaxLog
    /\ log' = Append(log, record)

Start(t) ==
    /\ Up /\ txn[t].pc = "new"
    /\ txn' = [txn EXCEPT ![t] = [pc |-> "active", start |-> counter, ts |-> NoXip, era |-> crashes]]
    /\ counter' = counter + 1
    /\ UNCHANGED <<walVars, manifest, vsetVars, flush, marks, apply, state, history>>

\* commit, under the lock of snapshot_data: from here on everybody sees it.
Stamp(t) ==
    /\ Up /\ txn[t].pc = "active"
    /\ txn' = [txn EXCEPT ![t].pc = "stamped", ![t].ts = counter]
    /\ counter' = counter + 1
    /\ UNCHANGED <<walVars, manifest, vsetVars, flush, marks, apply, state, history>>

\* commit_log_records, then the commit record.
Stage(t) ==
    /\ Up /\ txn[t].pc = "stamped"
    /\ AppendRecord([kind |-> "data", txn |-> t])
    /\ txn' = [txn EXCEPT ![t].pc = "staged"]
    /\ UNCHANGED <<counter, durable, manifest, vsetVars, flush, marks, apply, state, history>>

Log(t) ==
    /\ Up /\ txn[t].pc = "staged"
    /\ AppendRecord([kind |-> "commit", txn |-> t, ts |-> txn[t].ts])
    /\ txn' = [txn EXCEPT ![t].pc = "logged"]
    /\ UNCHANGED <<counter, durable, manifest, vsetVars, flush, marks, apply, state, history>>

CommitRecord(t) == CHOOSE i \in DOMAIN log : log[i].kind = "commit" /\ log[i].txn = t

\* The log is flushed up to the commit record, and commit returns Ok.
Ack(t) ==
    /\ Up /\ txn[t].pc = "logged"
    /\ durable' = Flushed(CommitRecord(t))
    /\ txn' = [txn EXCEPT ![t].pc = "acked"]
    /\ UNCHANGED <<counter, log, manifest, vsetVars, flush, marks, apply, state, history>>

\* The log cannot be written: commit returns Err, and what it has stamped stays.
LogFails(t) ==
    /\ Up /\ txn[t].pc \in {"stamped", "staged", "logged"}
    /\ txn' = [txn EXCEPT ![t].pc = "failed"]
    /\ UNCHANGED <<counter, walVars, manifest, vsetVars, flush, marks, apply, state, history>>

\* abort rolls the versions back, logs that, and flushes.
Abort(t) ==
    /\ Up /\ txn[t].pc = "active"
    /\ txn' = [txn EXCEPT ![t].pc = "aborted"]
    /\ AppendRecord([kind |-> "abort", txn |-> t])
    /\ durable' = Len(log')
    /\ UNCHANGED <<counter, manifest, vsetVars, flush, marks, apply, state, history>>

-----------------------------------------------------------------------------
(* A flush job. *)

\* min_recovery_point is the end of the log, read before the bound.
ReadRedo ==
    /\ Up /\ flush = Idle /\ jobs < MaxJobs
    /\ flush' = [pc |-> "redo", redo |-> Len(log)]
    /\ jobs' = jobs + 1
    /\ UNCHANGED <<counter, txn, walVars, manifest, vsetVars, marks, apply, state, crashes>>

\* min_xip, the least of xips, or without any transaction that of one started
\* and committed to have it.
ReadBound ==
    /\ Up /\ flush.pc = "redo"
    /\ \E bound \in Xips \cup {counter} :
           /\ flush' = [pc |-> "bound", redo |-> flush.redo, bound |-> bound]
           /\ \/ /\ Xips = {} /\ bound = counter
                 /\ counter' = counter + 2
              \/ /\ bound \in Xips /\ \A x \in Xips : bound <= x
                 /\ UNCHANGED counter
    /\ UNCHANGED <<txn, walVars, manifest, vsetVars, marks, apply, state, history>>

\* Variant: the snapshot takes what is committed, whatever its timestamp.
CollectableAny == {t \in Stamped \ marked : txn[t].era = crashes}

\* snapshot: versions below the bound, but for those with a mark, whichever job
\* has set it and whatever became of the job.
Collectable == {t \in Stamped \ marked : txn[t].era = crashes /\ txn[t].ts < flush.bound}

\* Variant: the redo point is the end of the log when the snapshot is taken.
CollectLateRedo ==
    /\ Up /\ flush.pc = "bound"
    /\ flush' = [pc |-> "table", redo |-> Len(log), bound |-> flush.bound, table |-> Collectable]
    /\ marked' = marked \cup Collectable
    /\ UNCHANGED <<counter, txn, walVars, manifest, vsetVars, abandoned, apply, state, history>>

Collect ==
    /\ Up /\ flush.pc = "bound"
    /\ flush' = [pc |-> "table", redo |-> flush.redo, bound |-> flush.bound, table |-> Collectable]
    /\ marked' = marked \cup Collectable
    /\ UNCHANGED <<counter, txn, walVars, manifest, vsetVars, abandoned, apply, state, history>>

\* The flush is cancelled, as a table without pairs always is and a small one
\* may be.  The marks stay.
Cancel ==
    /\ Up /\ flush.pc = "table"
    /\ abandoned' = abandoned \cup flush.table
    /\ flush' = Idle
    /\ UNCHANGED <<counter, txn, walVars, manifest, vsetVars, marked, apply, state, history>>

-----------------------------------------------------------------------------
(* log_and_apply: every step holds the write lock of vset. *)

Checkpoint(fs, xip, point, era) ==
    [kind |-> "ckpt", files |-> fs, minXip |-> xip, redo |-> point, era |-> era]

\* The checkpoint record is appended, and its position is what was the end.
AppendCheckpoint(ckpt) ==
    /\ AppendRecord(ckpt)
    /\ apply' = [pc |-> "flush", ckpt |-> ckpt, pos |-> Len(log)]

\* Variant: nothing compares the bound with that of the version set.
FlushAppliesUnchecked ==
    /\ state = "up" /\ flush.pc = "table" /\ flush.table # {} /\ apply = Idle
    /\ AppendCheckpoint(Checkpoint(files \cup flush.table, flush.bound, flush.redo, crashes))
    /\ flush' = Idle
    /\ UNCHANGED <<counter, txn, durable, manifest, vsetVars, marks, state, history>>

\* The edit of the flush.  A bound below that of the version set fails the
\* assertion and poisons the lock.
FlushApplies ==
    /\ state = "up" /\ flush.pc = "table" /\ flush.table # {} /\ apply = Idle
    /\ IF flush.bound >= minXip
       THEN /\ AppendCheckpoint(Checkpoint(files \cup flush.table, flush.bound, flush.redo, crashes))
            /\ UNCHANGED <<abandoned, state>>
       ELSE /\ state' = "poisoned"
            /\ abandoned' = abandoned \cup flush.table
            /\ UNCHANGED <<log, apply>>
    /\ flush' = Idle
    /\ UNCHANGED <<counter, txn, durable, manifest, vsetVars, marked, history>>

\* finalize_compaction: other tables with the same content, the same bound and
\* redo point.
CompactionApplies ==
    /\ state = "up" /\ apply = Idle /\ files # {} /\ jobs < MaxJobs
    /\ AppendCheckpoint(Checkpoint(files, minXip, redo, xipEra))
    /\ jobs' = jobs + 1
    /\ UNCHANGED <<counter, txn, durable, manifest, vsetVars, flush, marks, state, crashes>>

\* Variant: the record is left to the next flush of the log.
FlushCheckpointLater ==
    /\ apply.pc = "flush"
    /\ apply' = [apply EXCEPT !.pc = "manifest"]
    /\ UNCHANGED <<counter, txn, walVars, manifest, vsetVars, flush, marks, state, history>>

FlushCheckpoint ==
    /\ apply.pc = "flush"
    /\ durable' = Flushed(apply.pos + 1)
    /\ apply' = [apply EXCEPT !.pc = "manifest"]
    /\ UNCHANGED <<counter, txn, log, manifest, vsetVars, flush, marks, state, history>>

\* create_checkpoint, set_current, and the lock is released.
WriteManifest ==
    /\ apply.pc = "manifest"
    /\ manifest' = [manifest EXCEPT !.pos = apply.pos]
    /\ files' = apply.ckpt.files
    /\ minXip' = apply.ckpt.minXip
    /\ redo' = apply.ckpt.redo
    /\ xipEra' = apply.ckpt.era
    /\ apply' = Idle
    /\ UNCHANGED <<counter, txn, walVars, flush, marks, state, history>>

-----------------------------------------------------------------------------
(* Crash and start. *)

\* What is left are the bytes on disk: all that was flushed, and any number of
\* the records behind it.  Memory and its marks are gone.
Crash ==
    /\ state # "down" /\ crashes < MaxCrashes
    /\ state' = "down"
    /\ crashes' = crashes + 1
    /\ durable' \in durable .. Len(log)
    /\ log' = SubSeq(log, 1, durable')
    /\ txn' = [t \in Txns |-> IF txn[t].pc \in {"active", "stamped", "staged", "logged"}
                              THEN [txn[t] EXCEPT !.pc = "gone"] ELSE txn[t]]
    /\ flush' = Idle /\ apply' = Idle /\ marked' = {}
    /\ UNCHANGED <<counter, manifest, vsetVars, abandoned, jobs>>

\* Position 0 is that of the first record, and is_invalid_lsn.
HasCheckpoint == manifest.pos # 0

\* read_checkpoint_record of the manifest's position, and the check of its
\* redo point against the end of the log.
Readable == manifest.pos < durable /\ log[manifest.pos + 1].kind = "ckpt"
RedoInLog == log[manifest.pos + 1].redo <= durable

\* startup: the version set of the last checkpoint.  The log is not replayed,
\* and the timestamps start again at 1.
Recover ==
    /\ state = "down"
    /\ IF ~HasCheckpoint
       THEN files' = {} /\ minXip' = NoXip /\ redo' = 0 /\ xipEra' = 0 /\ state' = "recovering"
       ELSE IF ~Readable
            THEN state' = "corrupted" /\ UNCHANGED vsetVars
            ELSE LET c == log[manifest.pos + 1]
                 IN  /\ files' = c.files /\ minXip' = c.minXip /\ redo' = c.redo /\ xipEra' = c.era
                     /\ state' = IF RedoInLog THEN "recovering" ELSE "corrupted"
    /\ LET needed == durable > redo' \/ manifest.state # "Shutdowned"
       IN  manifest' = [manifest EXCEPT !.state =
                            IF state' = "recovering" /\ needed THEN "InCrashRecovery" ELSE @]
    /\ counter' = 1
    /\ UNCHANGED <<txn, walVars, flush, marks, apply, history>>

OpenForUse ==
    /\ state = "recovering"
    /\ state' = "up"
    /\ manifest' = [manifest EXCEPT !.state = "InProduction"]
    /\ UNCHANGED <<counter, txn, walVars, vsetVars, flush, marks, apply, history>>

Next ==
    \/ \E t \in Txns :
          Start(t) \/ Stamp(t) \/ Stage(t) \/ Log(t) \/ Ack(t) \/ LogFails(t) \/ Abort(t)
    \/ ReadRedo \/ ReadBound \/ Collect \/ Cancel
    \/ FlushApplies \/ CompactionApplies
    \/ FlushCheckpoint \/ WriteManifest
    \/ Crash \/ Recover \/ OpenForUse

Spec == Init /\ [][Next]_vars

-----------------------------------------------------------------------------
(* What has to hold. *)

\* The checkpoint the next start would recover.
LastCheckpoint ==
    IF HasCheckpoint THEN log[manifest.pos + 1] ELSE Checkpoint({}, NoXip, 0, 0)

\* Shape of the state: the log holds records of the four kinds and is longer
\* than what is on disk, and redo points lie within it.
RecoveryTypeOK ==
    /\ counter \in Nat \ {0}
    /\ \A i \in DOMAIN log : log[i].kind \in {"data", "commit", "abort", "ckpt"}
    /\ durable \in 0 .. Len(log)
    /\ manifest.pos \in 0 .. Len(log)
    /\ manifest.state \in {"Shutdowned", "InCrashRecovery", "InProduction"}
    /\ files \subseteq Txns /\ minXip \in Nat /\ redo \in 0 .. Len(log)
    /\ marked \subseteq Txns /\ abandoned \subseteq Txns
    /\ state \in {"up", "down", "recovering", "corrupted", "poisoned"}

\* Wherever a crash hits, the manifest points to a checkpoint record that is
\* on disk and whose redo point is not past the end of the log, so that startup
\* does not answer DataCorrupted (src/db.rs startup, read_checkpoint_record).
StartupAccepts ==
    /\ HasCheckpoint => Readable /\ RedoInLog
    /\ state # "corrupted"

\* The tables of the checkpoint are a snapshot: of the transactions of its time
\* they hold those stamped below its bound, whole, and no others, whether or
\* not their commit had reached the log, was answered, or failed (commit stamps
\* before it logs; background_flush), but for those a cancelled flush has marked.
RecoveredIsSnapshot ==
    LET c == LastCheckpoint
    IN  \A t \in Stamped : txn[t].era = c.era =>
            (t \in c.files <=> txn[t].ts < c.minXip /\ t \notin abandoned)

\* The log on disk has the transaction at or behind a position, its data before
\* its commit record: whoever replays it from there restores the transaction.
Replayed(t, pos) ==
    \E i, j \in pos + 1 .. durable :
        /\ i < j
        /\ log[i].kind = "data" /\ log[i].txn = t
        /\ log[j].kind = "commit" /\ log[j].txn = t

\* The bound of the checkpoint is the start of another transaction, which was
\* in progress when the redo point was read: it has no record before it.
HeldBack(t, c) ==
    \E u \in Txns \ {t} :
        /\ txn[u].pc # "new" /\ txn[u].era = c.era /\ txn[u].start = c.minXip
        /\ \A i \in 1 .. c.redo : log[i].kind # "ckpt" => log[i].txn # u

\* An acknowledged transaction is on disk in the log.  If it is of the time of
\* the checkpoint and no cancelled flush has marked it, it is in the tables
\* below the bound, and only there; from the bound on it lies behind the redo
\* point too, or was overtaken by it while an older transaction, whose start is
\* the bound, kept it out of the tables (commit, background_flush).
AckedIsRestorable ==
    LET c == LastCheckpoint
    IN  \A t \in Txns : txn[t].pc = "acked" =>
            /\ Replayed(t, 0)
            /\ (HasCheckpoint => txn[t].era = c.era) /\ t \notin abandoned =>
                  \/ t \in c.files /\ txn[t].ts < c.minXip
                  \/ /\ t \notin c.files /\ txn[t].ts >= c.minXip
                     /\ Replayed(t, c.redo) \/ HeldBack(t, c)

\* What a checkpoint holds stays in every later one, over restarts too, and
\* the bound never moves back (log_and_apply, recover).
CheckpointsOnlyGrow ==
    [][/\ LastCheckpoint.files \subseteq LastCheckpoint'.files
       /\ LastCheckpoint.minXip <= LastCheckpoint'.minXip]_vars

-----------------------------------------------------------------------------
(* What the code says of itself, and does not keep. *)

\* A replay from the redo point, which startup names in a comment (src/db.rs:121),
\* restores what was acknowledged in the time of the checkpoint and is not in
\* its tables.
AckedIsBehindRedo ==
    LET c == LastCheckpoint
    IN  \A t \in Txns :
            txn[t].pc = "acked" /\ txn[t].era = c.era /\ txn[t].ts >= c.minXip => Replayed(t, c.redo)

=============================================================================
