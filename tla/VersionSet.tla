----------------------------- MODULE VersionSet -----------------------------
(***************************************************************************)
(* The version set and those who change it: flush jobs that write level-0  *)
(* tables, compaction jobs, the flow control of compactions, a crash and   *)
(* the start that recovers the last checkpoint.                            *)
(*   src/version.rs  VersionSet                                            *)
(*   src/db.rs       write_level0_table, schedule_compaction,              *)
(*                   background_compaction, start_compaction, startup      *)
(* vset is a RwLock; every critical section under it is one action.  Flush *)
(* jobs differ in their tables only: those that wait at rendezvous point   *)
(* #2 are a set of tables, the others two counts.  The values in a table   *)
(* are all the same and say which flush wrote it, in the order of the      *)
(* bounds and of the starts of the program.  A deletion is in the range of *)
(* a level-0 table but not in its content.                                 *)
(***************************************************************************)
EXTENDS Version

CONSTANTS
    Keys,
    Tables,             \* what a flush may write: [puts: SUBSET Keys, dels: SUBSET Keys]
    MaxCompactions,     \* options.max_background_compactions
    MaxFlushJobs,       \* options.max_background_flushes
    MaxFlushes,         \* bound: flushes
    MaxCrashes,         \* bound: crashes
    MaxTs               \* bound: timestamps of flushes

Jobs == 1 .. MaxCompactions
Ts == 1 .. MaxTs

ASSUME VersionSetAssumption ==
    /\ Keys \subseteq Int /\ IsFiniteSet(Keys)
    /\ \A t \in Tables : t.puts \cup t.dels \in (SUBSET Keys) \ {{}}
    /\ {MaxCompactions, MaxFlushJobs} \subseteq Nat \ {0}
    /\ {MaxFlushes, MaxCrashes, MaxTs} \subseteq Nat

VARIABLES
    current,    \* the current version
    l0Busy,     \* level0_compactions_in_progress
    minXip,     \* min_xip
    nextNum,    \* next_file_num
    disk,       \* table files: [pairs, len, ok]
    ckpt,       \* the checkpoint that the manifest points to
    poisoned,   \* an assertion has failed under the write lock of vset
    running,    \* running_compactions
    jobs,       \* the compaction jobs
    pending,    \* tables that flush jobs have written and not installed
    asking,     \* number of flush jobs that have installed theirs
    lowering,   \* number of flush jobs whose request was refused
    flushes,    \* history: number of flushes
    used,       \* history: their bounds since the database was opened
    installed,  \* history: bound of the last table installed since then
    twins,      \* history: a table came to level 0 beside one of the same bound
    refused,    \* history: the flow control refused the latest request
    stuck,      \* history: files that the recovered version has marked
    crashes     \* history: number of crashes

vsetVars == <<current, l0Busy, minXip, ckpt, poisoned>>
fileVars == <<nextNum, disk>>
flushVars == <<pending, asking, lowering>>
history == <<flushes, used, installed, twins, stuck, crashes>>
vars == <<vsetVars, fileVars, running, jobs, flushVars, history, refused>>

NoJob == [pc |-> "none"]
NoCheckpoint == [files |-> EmptyVersion, minXip |-> 0, nextNum |-> 2]

Init ==
    /\ current = EmptyVersion
    /\ l0Busy = FALSE
    /\ minXip = 0
    /\ nextNum = 2
    /\ disk = <<>>
    /\ ckpt = NoCheckpoint
    /\ poisoned = FALSE
    /\ running = 0
    /\ jobs = [j \in Jobs |-> NoJob]
    /\ pending = {} /\ asking = 0 /\ lowering = 0
    /\ flushes = 0
    /\ used = {} /\ installed = 0
    /\ twins = FALSE
    /\ refused = FALSE
    /\ stuck = {}
    /\ crashes = 0

File(num, size, xip, inf, sup) ==
    [num |-> num, size |-> size, xip |-> xip, inf |-> inf, sup |-> sup, busy |-> FALSE]

\* A table file is opened with create and write, and is not truncated: over a
\* longer file that a crash has left behind, the footer of that file stays,
\* and so do the blocks past the new end.
Written(num, pairs) ==
    LET len == Cardinality(DOMAIN pairs)
        old == IF num \in DOMAIN disk THEN disk[num].len ELSE 0
    IN  [n \in DOMAIN disk \cup {num} |->
            IF n = num THEN [pairs |-> pairs, len |-> Max({len, old}), ok |-> old <= len] ELSE disk[n]]

-----------------------------------------------------------------------------
(* Installing an edit. *)

\* Variant: the checkpoint has the file number of the one before it.
InstallStaleNum(files, xip) ==
    /\ current' = files
    /\ minXip' = xip
    /\ ckpt' = [files |-> files, minXip |-> xip, nextNum |-> ckpt.nextNum]

\* log_and_apply: the checkpoint record and the manifest hold the new
\* version, its marks included, and the file number that comes next.
Install(files, xip) ==
    /\ current' = files
    /\ minXip' = xip
    /\ ckpt' = [files |-> files, minXip |-> xip, nextNum |-> nextNum]

-----------------------------------------------------------------------------
(* Flow control of compactions. *)

Admitted == running < MaxCompactions

IdleJobs == {j \in Jobs : jobs[j].pc = "none"}

\* schedule_compaction raises the counter and looks at what it was.  An
\* admitted request is a job of the pool; a refused one has to lower it again.
\* js is what the caller makes of the jobs meanwhile.
Schedule(js) ==
    /\ running' = running + 1
    /\ refused' = ~Admitted
    /\ IF Admitted
       THEN jobs' = [js EXCEPT ![CHOOSE j \in IdleJobs : TRUE] = [pc |-> "pick"]]
       ELSE jobs' = js

-----------------------------------------------------------------------------
(* A flush job, from write_level0_table on. *)

FlushJobs == Cardinality(pending) + asking + lowering

\* The values of a table, in the order of the flushes.
Value(b) == crashes * MaxTs + b

\* write_level0_table: the range covers the deletions, the file does not.  The
\* bounds of the flushes of one start differ (FlushPipeline, OneTablePerBound),
\* and jobs need not get here in their order.
WriteTable ==
    /\ FlushJobs < MaxFlushJobs /\ ~poisoned
    /\ flushes < MaxFlushes
    /\ \E t \in Tables, b \in Ts \ used :
           /\ LET keys == t.puts \cup t.dels
              IN  pending' = pending \cup {File(nextNum, Cardinality(t.puts), b, Min(keys), Max(keys))}
           /\ disk' = Written(nextNum, [k \in t.puts |-> Value(b)])
           /\ used' = used \cup {b}
    /\ nextNum' = nextNum + 1
    /\ flushes' = flushes + 1
    /\ UNCHANGED <<vsetVars, running, jobs, asking, lowering, installed, twins, stuck, crashes, refused>>

\* The table of the least bound passes rendezvous point #2.  After a restart a
\* bound may be that of the version set, and even of a table in level 0.
InstallTable(m) ==
    /\ \A o \in pending : m.xip <= o.xip
    /\ m.xip >= minXip /\ ~poisoned
    /\ Install(Applied(current, 0, <<m>>, {}, {}), m.xip)
    /\ pending' = pending \ {m}
    /\ asking' = asking + 1
    /\ installed' = m.xip
    /\ twins' = (twins \/ \E f \in Range(current[0]) : f.xip = m.xip)
    /\ UNCHANGED <<l0Busy, poisoned, fileVars, running, jobs, lowering, flushes, used, stuck, crashes,
                   refused>>

\* A bound below that of the version set fails the assertion, with vset and
\* imm_tables locked.
AssertionFails(m) ==
    /\ \A o \in pending : m.xip <= o.xip
    /\ m.xip < minXip /\ ~poisoned
    /\ poisoned' = TRUE
    /\ UNCHANGED <<current, l0Busy, minXip, ckpt, fileVars, running, jobs, flushVars, history, refused>>

\* A flush asks for a compaction and is done.
FlushAsks ==
    /\ asking > 0
    /\ Schedule(jobs)
    /\ asking' = asking - 1
    /\ lowering' = IF Admitted THEN lowering ELSE lowering + 1
    /\ UNCHANGED <<vsetVars, fileVars, pending, history>>

FlushLowers ==
    /\ lowering > 0
    /\ running' = running - 1
    /\ lowering' = lowering - 1
    /\ UNCHANGED <<vsetVars, fileVars, jobs, pending, asking, history, refused>>

-----------------------------------------------------------------------------
(* A compaction job. *)

Marks(level, ins) ==
    {<<level, ins[1][i].num>> : i \in DOMAIN ins[1]}
        \cup {<<level + 1, ins[2][i].num>> : i \in DOMAIN ins[2]}

\* Variant: only the files of the start level are marked.
RegisteredStart(level, ins) ==
    Applied(current, level, <<>>, {}, {m \in Marks(level, ins) : m[1] = level})

\* register_compaction: a version with the inputs marked, not logged.
Registered(level, ins) ==
    Applied(current, level, <<>>, {}, Marks(level, ins))

\* pick_compaction, under the write lock.
Pick(j) ==
    /\ jobs[j].pc = "pick" /\ ~poisoned
    /\ LET levels == PickableLevels(current, l0Busy)
           level == Min(levels)
           ins == InputsFrom(current, level, StartFile(current, level))
       IN  IF levels = {}
           THEN /\ jobs' = [jobs EXCEPT ![j] = [pc |-> "leave"]]
                /\ UNCHANGED <<current, l0Busy>>
           ELSE /\ jobs' = [jobs EXCEPT ![j] = [pc |-> "open", level |-> level, ins |-> ins]]
                /\ current' = Registered(level, ins)
                /\ l0Busy' = (l0Busy \/ level = 0)
    /\ UNCHANGED <<minXip, ckpt, poisoned, fileVars, running, flushVars, history, refused>>

Inputs(j) == LET c == jobs[j] IN c.ins[1] \o c.ins[2]

\* make_input_iterator.  A table that cannot be read ends the job in a panic,
\* which leaves its files marked and the counter raised.
Open(j) ==
    /\ jobs[j].pc = "open" /\ ~poisoned
    /\ LET readable == \A i \in DOMAIN Inputs(j) : disk[Inputs(j)[i].num].ok
           c == jobs[j]
       IN  jobs' = [jobs EXCEPT ![j] =
                        IF readable
                        THEN [pc |-> "write", level |-> c.level, ins |-> c.ins, out |-> <<>>,
                              rest |-> MergedPairs(c.level, c.ins, disk)]
                        ELSE [c EXCEPT !.pc = "dead"]]
    /\ UNCHANGED <<vsetVars, fileVars, running, flushVars, history, refused>>

\* start_compaction, one output file.
WriteOutput(j) ==
    /\ jobs[j].pc = "write" /\ DOMAIN jobs[j].rest # {} /\ ~poisoned
    /\ LET rest == jobs[j].rest
           keys == OutputKeys(rest)
           file == File(nextNum, Cardinality(keys), DefaultTs, Min(keys), Max(keys))
       IN  /\ disk' = Written(nextNum, Restrict(rest, keys))
           /\ jobs' = [jobs EXCEPT ![j].rest = Restrict(@, DOMAIN @ \ keys),
                                   ![j].out = Append(@, file)]
    /\ nextNum' = nextNum + 1
    /\ UNCHANGED <<vsetVars, running, flushVars, history, refused>>

\* delete_inputs and finalize_compaction, under the write lock.
Finalize(j) ==
    /\ jobs[j].pc = "write" /\ DOMAIN jobs[j].rest = {} /\ ~poisoned
    /\ LET c == jobs[j]
       IN  /\ Install(Applied(current, c.level + 1, c.out, Marks(c.level, c.ins), {}), minXip)
           /\ l0Busy' = (l0Busy /\ c.level # 0)
    /\ jobs' = [jobs EXCEPT ![j] = [pc |-> "ask"]]
    /\ UNCHANGED <<poisoned, fileVars, running, flushVars, history, refused>>

\* Variant: a job that is done does not ask for another one.
AskNot(j) ==
    /\ jobs[j].pc = "ask"
    /\ jobs' = [jobs EXCEPT ![j].pc = "leave"]
    /\ UNCHANGED <<vsetVars, fileVars, running, flushVars, history, refused>>

\* It asks for the next compaction while it is still counted itself.
Ask(j) ==
    /\ jobs[j].pc = "ask"
    /\ Schedule([jobs EXCEPT ![j].pc = IF Admitted THEN "leave" ELSE "lower"])
    /\ UNCHANGED <<vsetVars, fileVars, flushVars, history>>

Lower(j) ==
    /\ jobs[j].pc = "lower"
    /\ running' = running - 1
    /\ jobs' = [jobs EXCEPT ![j].pc = "leave"]
    /\ UNCHANGED <<vsetVars, fileVars, flushVars, history, refused>>

Leave(j) ==
    /\ jobs[j].pc = "leave"
    /\ running' = running - 1
    /\ jobs' = [jobs EXCEPT ![j] = NoJob]
    /\ UNCHANGED <<vsetVars, fileVars, flushVars, history, refused>>

-----------------------------------------------------------------------------
(* A crash, and the start after it. *)

\* The files that a version has marked.
Marked(v) == UNION {{f.num : f \in {g \in Range(v[l]) : g.busy}} : l \in Levels}

\* startup: the version of the last checkpoint, its marks included, and its
\* file number; files written since keep their numbers.
CrashAndRestart ==
    /\ crashes < MaxCrashes
    /\ crashes' = crashes + 1
    /\ current' = ckpt.files
    /\ minXip' = ckpt.minXip
    /\ nextNum' = ckpt.nextNum
    /\ l0Busy' = FALSE
    /\ poisoned' = FALSE
    /\ running' = 0
    /\ jobs' = [j \in Jobs |-> NoJob]
    /\ pending' = {} /\ asking' = 0 /\ lowering' = 0
    /\ used' = {} /\ installed' = 0
    /\ refused' = FALSE
    /\ stuck' = Marked(ckpt.files)
    /\ UNCHANGED <<disk, ckpt, flushes, twins>>

Next ==
    \/ WriteTable \/ FlushAsks \/ FlushLowers
    \/ \E m \in pending : InstallTable(m) \/ AssertionFails(m)
    \/ \E j \in Jobs : Pick(j) \/ Open(j) \/ WriteOutput(j) \/ Finalize(j) \/ Ask(j) \/ Lower(j) \/ Leave(j)
    \/ CrashAndRestart

Spec == Init /\ [][Next]_vars

-----------------------------------------------------------------------------
(* What has to hold. *)

\* Shape of the state: records of the declared fields, counters within their
\* bounds, and every file of the version has a table file whose pairs lie in
\* its range (TableFileMeta and its file, src/table.rs).
StorageTypeOK ==
    /\ DOMAIN current = Levels
    /\ \A l \in Levels : \A f \in Range(current[l]) :
           /\ f.num \in DOMAIN disk /\ f.num < nextNum
           /\ f.busy \in BOOLEAN /\ f.xip \in Ts \cup {DefaultTs}
           /\ disk[f.num].ok =>
                 /\ \A k \in DOMAIN disk[f.num].pairs : f.inf <= k /\ k <= f.sup
                 /\ f.size = Cardinality(DOMAIN disk[f.num].pairs)
    /\ running \in 0 .. 2 * MaxCompactions + MaxFlushJobs
    /\ {minXip, installed} \subseteq Ts \cup {0} /\ used \subseteq Ts
    /\ {l0Busy, poisoned, refused, twins} \subseteq BOOLEAN
    /\ FlushJobs \in 0 .. MaxFlushJobs
    /\ \A j \in Jobs :
           jobs[j].pc \in {"none", "pick", "open", "write", "ask", "lower", "leave", "dead"}

\* The files of a level above 0 have disjoint ranges in ascending order, which
\* the halving of find_in_files and the range of get_range rely on, although
\* compactions of different levels are installed on versions they were not
\* picked from; level 0 is ordered by bound, newest first, and strictly until a
\* restart has let a bound come twice.
LevelsAreSorted ==
    /\ \A l \in Levels \ {0} : \A i, j \in DOMAIN current[l] :
           i < j => current[l][i].sup < current[l][j].inf
    /\ \A i, j \in DOMAIN current[0] : i < j =>
           /\ current[0][i].xip >= current[0][j].xip
           /\ ~twins => current[0][i].xip # current[0][j].xip

Running(j) == jobs[j].pc \in {"open", "write", "dead"}

\* While a compaction runs without the lock its inputs stay in the version, at
\* their level and marked, and belong to no other job; level 0 is compacted by
\* one job at most; and no mark outlives its job, except those that a
\* checkpoint has carried over a crash.
JobsOwnTheirInputs ==
    /\ \A j \in Jobs : Running(j) =>
           \A m \in Marks(jobs[j].level, jobs[j].ins) :
               \E f \in Range(current[m[1]]) : f.num = m[2] /\ f.busy
    /\ \A i, j \in Jobs : i # j /\ Running(i) /\ Running(j) =>
           /\ Marks(jobs[i].level, jobs[i].ins) \cap Marks(jobs[j].level, jobs[j].ins) = {}
           /\ ~(jobs[i].level = 0 /\ jobs[j].level = 0)
    /\ \A n \in Marked(current) \ stuck :
           \E j \in Jobs : Running(j) /\ \E m \in Marks(jobs[j].level, jobs[j].ins) : m[2] = n

\* When flush and compaction jobs have come to rest, a level that could be
\* compacted is left only if the flow control refused the latest request
\* (schedule_compaction at the end of background_flush and start_compaction).
NothingLeftToCompact ==
    FlushJobs = 0 /\ (\A j \in Jobs : jobs[j] = NoJob) /\ installed > 0 /\ ~refused
        => PickableLevels(current, l0Busy) = {}

\* Lookups in the sstables behave like a map that only flushes change: picking,
\* merging, splitting, discarding and installing files is invisible to them
\* (Version::get, MergingIter, VersionBuilder).
Sstables ==
    INSTANCE StorageMap WITH
        Values <- 1 .. (MaxCrashes + 1) * MaxTs,
        map <- [k \in Keys |-> Get(current, disk, k)],
        damaged <- twins \/ \E l \in Levels : \E f \in Range(current[l]) : ~disk[f.num].ok
ImplementsStorageMap == Sstables!Spec

=============================================================================
