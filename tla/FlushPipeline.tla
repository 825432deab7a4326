--------------------------- MODULE FlushPipeline ----------------------------
(***************************************************************************)
(* How flush jobs are scheduled, ordered and counted (db.rs: flush_memtable*)
(* and background_flush): the flow control by flushing_threads, the two    *)
(* rendezvous points with their RwLocks and condition variables, and the   *)
(* assertion of log_and_apply.  What a job does to a key is in MemTableGc; *)
(* here a snapshot only has enough pairs or not, and time passes as the    *)
(* bound that min_xip returns rises.  Writing may fail at every place where*)
(* background_flush unwraps its result.                                    *)
(*                                                                         *)
(* A critical section without a nested blocking call is one action.  The   *)
(* write locks on vset and imm_tables have an owner, as the second point   *)
(* takes one under the other, and both points the mutex of a condition     *)
(* variable under them.                                                    *)
(***************************************************************************)
EXTENDS Naturals, FiniteSets

CONSTANTS
  Job,        \* concurrent flushes, each with the writer that asks for it
  NoJob,      \* "not locked"
  MaxFlushes, \* options.max_background_flushes
  MaxBound    \* bound: how often min_xip rises

ASSUME JobAssumption == NoJob \notin Job /\ IsFiniteSet(Job)
ASSUME MaxFlushesAssumption == MaxFlushes \in Nat \ {0}
ASSUME MaxBoundAssumption == MaxBound \in Nat \ {0}

Point == {1, 2}   \* rendezvous points: collect_event and flush_event

VARIABLES
  minXip,      \* what TransactionManager::min_xip returns now
  flushing,    \* flushing_threads
  pc,          \* where each job is, and the rendezvous point it goes to next
  bound,       \* its min_xip
  collectSet,  \* the collector set
  immSet,      \* bounds of the immutable tables
  level0,      \* bounds of the flushed level-0 tables
  vsetMin,     \* VersionSet.min_xip
  vsetLock,    \* holder of vset.write() across steps
  immLock,     \* holder of imm_tables.write() across steps
  mutex,       \* holder of the mutex of each condition variable
  waiting,     \* jobs that wait on each condition variable
  poisoned,    \* a panic has poisoned vset and imm_tables
  taken,       \* history: bounds below which a snapshot has been taken
  cleaned,     \* history: bounds below which gc has cleaned up
  late         \* history: jobs that registered below the bound of a published table

queues == <<collectSet, immSet>>
disk == <<level0, vsetMin>>
locks == <<vsetLock, immLock, mutex, waiting, poisoned>>
history == <<taken, cleaned, late>>
vars == <<minXip, flushing, pc, bound, queues, disk, locks, history>>

Pc == {"idle", "scheduled", "register", "snapshot", "size", "rendezvous", "lock",
       "unlock", "wait", "waiting", "woken", "gc", "write", "leave", "panicked"}

Init ==
  /\ minXip = 1
  /\ flushing = 0
  /\ pc = [f \in Job |-> [at |-> "idle", point |-> 1]]
  /\ bound = [f \in Job |-> 0]
  /\ collectSet = {} /\ immSet = {}
  /\ level0 = {} /\ vsetMin = 0
  /\ vsetLock = NoJob /\ immLock = NoJob
  /\ mutex = [p \in Point |-> NoJob]
  /\ waiting = [p \in Point |-> {}]
  /\ poisoned = FALSE
  /\ taken = {} /\ cleaned = {} /\ late = {}

At(f, at) == pc[f].at = at
GoTo(f, at) == pc' = [pc EXCEPT ![f].at = at]
ImmFree == immLock = NoJob
VsetFree == vsetLock = NoJob

\* Transactions end and others start: the bound only rises (TransactionManager,
\* BoundNeverOvertaken).
AdvanceMinXip ==
  /\ minXip < MaxBound
  /\ minXip' = minXip + 1
  /\ UNCHANGED <<flushing, pc, bound, queues, disk, locks, history>>

-----------------------------------------------------------------------------
(* flush_memtable: the writer that has moved last_flush_size               *)

\* The fetch_add, and the decision on the value before it.
Admit(f) ==
  /\ At(f, "idle")
  /\ flushing' = flushing + 1
  /\ GoTo(f, IF flushing >= MaxFlushes THEN "leave" ELSE "scheduled")
  /\ UNCHANGED <<minXip, bound, queues, disk, locks, history>>

-----------------------------------------------------------------------------
(* background_flush                                                        *)

ReadMinXip(f) ==
  /\ At(f, "scheduled")
  /\ bound' = [bound EXCEPT ![f] = minXip]
  /\ GoTo(f, "register")
  /\ UNCHANGED <<minXip, flushing, queues, disk, locks, history>>

Overtaken(f) == vsetMin > bound[f] \/ \E b \in immSet : b > bound[f]

Register(f) ==
  /\ At(f, "register") /\ ImmFree /\ ~ poisoned
  /\ collectSet' = collectSet \union {bound[f]}
  /\ GoTo(f, IF bound[f] \in collectSet THEN "leave" ELSE "snapshot")
  /\ late' = IF Overtaken(f) THEN late \union {f} ELSE late
  /\ UNCHANGED <<minXip, flushing, bound, immSet, disk, locks, taken, cleaned>>

\* Variant: a snapshot does not mark what it takes.
NeverExhausted(f) == FALSE

\* A snapshot finds nothing where another one was taken below the same bound,
\* for all that is below a bound is settled when the bound is read
\* (TransactionManager, CollectableIsSettled; MemTableGc, SnapshotsAreDisjoint).
\* Below any other bound it finds enough pairs or not.
Exhausted(f) == bound[f] \in taken

Snapshot(f) ==
  /\ At(f, "snapshot")
  /\ taken' = taken \union {bound[f]}
  /\ \E enough \in BOOLEAN :
       /\ enough => ~ Exhausted(f)
       /\ GoTo(f, IF enough THEN "rendezvous" ELSE "size")
  /\ UNCHANGED <<minXip, flushing, bound, queues, disk, locks, cleaned, late>>

\* notify_all: every job that waits on the condition variable leaves its
\* wait set.
NotifyAll(p, f, at) ==
  /\ waiting' = [waiting EXCEPT ![p] = {}]
  /\ pc' = [g \in Job |-> IF g = f THEN [at |-> at, point |-> 2]
                          ELSE IF g \in waiting[p] THEN [at |-> "woken", point |-> p]
                          ELSE pc[g]]

\* Variant: the bound stays in the collector set.
CancelUnregistered(f) ==
  /\ At(f, "size") /\ ImmFree /\ ~ poisoned
  /\ NotifyAll(1, f, "leave")
  /\ UNCHANGED <<minXip, flushing, bound, queues, disk, vsetLock, immLock, mutex, poisoned, history>>

\* Too few pairs cancel the flush.
Cancel(f) ==
  /\ At(f, "size") /\ ImmFree /\ ~ poisoned
  /\ collectSet' = collectSet \ {bound[f]}
  /\ NotifyAll(1, f, "leave")
  /\ UNCHANGED <<minXip, flushing, bound, immSet, disk, vsetLock, immLock, mutex, poisoned, history>>

-----------------------------------------------------------------------------
(* The loops at the rendezvous points                                      *)

Queue(p) == IF p = 1 THEN collectSet ELSE immSet
\* Variant: nobody waits at the first point.
IsFirstToInstall(f, p) == p = 1 \/ \A b \in immSet : bound[f] <= b
IsFirst(f, p) == \A b \in Queue(p) : bound[f] <= b

\* The second point takes vset.write() before it asks for imm_tables.write().
LockVset(f) ==
  /\ At(f, "rendezvous") /\ pc[f].point = 2 /\ VsetFree /\ ~ poisoned
  /\ vsetLock' = f
  /\ UNCHANGED <<minXip, flushing, pc, bound, queues, disk, immLock, mutex, waiting, poisoned,
                 history>>

HasVset(f) == pc[f].point = 2 => vsetLock = f

\* The locks are taken and the job is not first: it takes the mutex, drops the
\* locks and waits.
NotYet(f) ==
  /\ At(f, "rendezvous") /\ HasVset(f) /\ ImmFree /\ ~ poisoned
  /\ ~ IsFirst(f, pc[f].point)
  /\ immLock' = f
  /\ GoTo(f, "lock")
  /\ UNCHANGED <<minXip, flushing, bound, queues, disk, vsetLock, mutex, waiting, poisoned, history>>

TakeMutex(f) ==
  /\ At(f, "lock")
  /\ mutex[pc[f].point] = NoJob
  /\ mutex' = [mutex EXCEPT ![pc[f].point] = f]
  /\ GoTo(f, "unlock")
  /\ UNCHANGED <<minXip, flushing, bound, queues, disk, vsetLock, immLock, waiting, poisoned, history>>

\* Variant: waits with the lock on imm_tables.
KeepLocks(f) ==
  /\ At(f, "unlock")
  /\ GoTo(f, "wait")
  /\ UNCHANGED <<minXip, flushing, bound, queues, disk, locks, history>>

\* The lock on imm_tables goes first, then that on vset.
DropLocks(f) ==
  /\ At(f, "unlock")
  /\ \/ /\ immLock = f
        /\ immLock' = NoJob
        /\ GoTo(f, IF pc[f].point = 1 THEN "wait" ELSE "unlock")
        /\ UNCHANGED vsetLock
     \/ /\ immLock # f
        /\ vsetLock' = NoJob
        /\ GoTo(f, "wait")
        /\ UNCHANGED immLock
  /\ UNCHANGED <<minXip, flushing, bound, queues, disk, mutex, waiting, poisoned, history>>

\* Condvar::wait releases the mutex and waits, atomically.
Wait(f) ==
  /\ At(f, "wait")
  /\ mutex' = [mutex EXCEPT ![pc[f].point] = NoJob]
  /\ waiting' = [waiting EXCEPT ![pc[f].point] = @ \union {f}]
  /\ GoTo(f, "waiting")
  /\ UNCHANGED <<minXip, flushing, bound, queues, disk, vsetLock, immLock, poisoned, history>>

\* Notified: the mutex is taken again and dropped at once, and the locks are
\* taken again at the top of the loop.
Resume(f) ==
  /\ At(f, "woken")
  /\ mutex[pc[f].point] = NoJob
  /\ GoTo(f, "rendezvous")
  /\ UNCHANGED <<minXip, flushing, bound, queues, disk, locks, history>>

\* Rendezvous point #1 is passed.
PublishImm(f) ==
  /\ At(f, "rendezvous") /\ pc[f].point = 1 /\ ImmFree /\ ~ poisoned
  /\ IsFirst(f, 1)
  /\ collectSet' = collectSet \ {bound[f]}
  /\ immSet' = immSet \union {bound[f]}
  /\ NotifyAll(1, f, "gc")
  /\ UNCHANGED <<minXip, flushing, bound, disk, vsetLock, immLock, mutex, poisoned, history>>

Gc(f) ==
  /\ At(f, "gc")
  /\ cleaned' = cleaned \union {bound[f]}
  /\ GoTo(f, "write")
  /\ UNCHANGED <<minXip, flushing, bound, queues, disk, locks, taken, late>>

\* The table file; its number is drawn under vset.read().
WriteTable(f) ==
  /\ At(f, "write") /\ VsetFree /\ ~ poisoned
  /\ GoTo(f, "rendezvous")
  /\ UNCHANGED <<minXip, flushing, bound, queues, disk, locks, history>>

\* write_level0_table returns an error, and its unwrap panics: without a lock,
\* but with the immutable table published.
WriteFails(f) ==
  /\ At(f, "write") /\ VsetFree /\ ~ poisoned
  /\ GoTo(f, "panicked")
  /\ UNCHANGED <<minXip, flushing, bound, queues, disk, locks, history>>

AtPoint2(f) ==
  /\ At(f, "rendezvous") /\ pc[f].point = 2
  /\ vsetLock = f /\ ImmFree /\ ~ poisoned
  /\ IsFirst(f, 2)

\* Rendezvous point #2 is passed and log_and_apply bumps the version.
Install(f) ==
  /\ AtPoint2(f)
  /\ bound[f] >= vsetMin
  /\ vsetMin' = bound[f]
  /\ level0' = level0 \union {bound[f]}
  /\ immSet' = immSet \ {bound[f]}
  /\ vsetLock' = NoJob
  /\ NotifyAll(2, f, "leave")
  /\ UNCHANGED <<minXip, flushing, bound, collectSet, immLock, mutex, poisoned, history>>

\* Variant: the immutable table is removed before log_and_apply.
ApplyFailsAfterRemoval(f) ==
  /\ AtPoint2(f)
  /\ poisoned' = TRUE /\ vsetLock' = NoJob
  /\ immSet' = immSet \ {bound[f]}
  /\ GoTo(f, "panicked")
  /\ UNCHANGED <<minXip, flushing, bound, collectSet, disk, immLock, mutex, waiting, history>>

\* log_and_apply panics with both write locks held, or returns an error that is
\* unwrapped there: its assertion fails, for a bound below that of the version
\* set, or the log or the manifest cannot be written.  It changes the version
\* set last, so that nothing is installed.
ApplyFails(f) ==
  /\ AtPoint2(f)
  /\ poisoned' = TRUE /\ vsetLock' = NoJob
  /\ GoTo(f, "panicked")
  /\ UNCHANGED <<minXip, flushing, bound, queues, disk, immLock, mutex, waiting, history>>

\* Every unwrap of a poisoned lock panics in turn.
PoisonSpreads(f) ==
  /\ poisoned
  /\ pc[f].at \in {"register", "size", "rendezvous", "write"}
  /\ GoTo(f, "panicked")
  /\ UNCHANGED <<minXip, flushing, bound, queues, disk, locks, history>>

\* Variant: the job is not counted off.
LeaveUncounted(f) ==
  /\ At(f, "leave")
  /\ pc' = [pc EXCEPT ![f] = [at |-> "idle", point |-> 1]]
  /\ bound' = [bound EXCEPT ![f] = 0]
  /\ late' = late \ {f}
  /\ UNCHANGED <<minXip, flushing, queues, disk, locks, taken, cleaned>>

Leave(f) ==
  /\ At(f, "leave")
  /\ flushing' = flushing - 1
  /\ pc' = [pc EXCEPT ![f] = [at |-> "idle", point |-> 1]]
  /\ bound' = [bound EXCEPT ![f] = 0]
  /\ late' = late \ {f}
  /\ UNCHANGED <<minXip, queues, disk, locks, taken, cleaned>>

JobStep(f) ==
  \/ ReadMinXip(f) \/ Register(f) \/ Snapshot(f) \/ Cancel(f)
  \/ LockVset(f) \/ NotYet(f) \/ TakeMutex(f) \/ DropLocks(f) \/ Wait(f) \/ Resume(f)
  \/ PublishImm(f) \/ Gc(f) \/ WriteTable(f) \/ WriteFails(f)
  \/ Install(f) \/ ApplyFails(f) \/ PoisonSpreads(f) \/ Leave(f)

Next == AdvanceMinXip \/ \E f \in Job : Admit(f) \/ JobStep(f)

(***************************************************************************)
(* Jobs run on threads of the pool, which the operating system schedules,  *)
(* and compete for locks that are always released; RwLock and Mutex are    *)
(* assumed not to starve a thread for ever.  No user has to write.         *)
(***************************************************************************)
Spec == Init /\ [][Next]_vars
FairSpec == Spec /\ \A f \in Job : SF_vars(JobStep(f))

-----------------------------------------------------------------------------
(* Properties                                                              *)

\* Every part of the state has its type, and at most max_background_flushes
\* jobs run, though the counter is raised before it is compared and lowered
\* again by the writer that is refused (flush_memtable).
PipelineTypeOK ==
  /\ minXip \in 1 .. MaxBound
  /\ flushing \in 0 .. Cardinality(Job)
  /\ pc \in [Job -> [at : Pc, point : Point]]
  /\ bound \in [Job -> 0 .. MaxBound]
  /\ {collectSet, immSet, level0, taken, cleaned} \subseteq SUBSET (1 .. MaxBound)
  /\ vsetMin \in 0 .. MaxBound
  /\ {vsetLock, immLock} \subseteq Job \union {NoJob}
  /\ mutex \in [Point -> Job \union {NoJob}]
  /\ waiting \in [Point -> SUBSET Job]
  /\ poisoned \in BOOLEAN
  /\ late \subseteq Job
  /\ Cardinality({f \in Job : pc[f].at \notin {"idle", "leave"}}) <= MaxFlushes

\* A job that passed rendezvous point #1 and has not installed its table, nor
\* ever will if it has panicked.
Publishing(f) == pc[f].point = 2 /\ pc[f].at # "leave"

\* A job that has registered and not yet passed rendezvous point #1.
Collecting(f) ==
  \/ pc[f].at \in {"snapshot", "size"}
  \/ pc[f].point = 1 /\ pc[f].at \in {"rendezvous", "lock", "unlock", "wait", "waiting", "woken"}

\* The queues hold the bounds of the jobs that are under way and of no other,
\* cancelled and refused ones excluded: the first of a queue is always somebody
\* who will move on.  Only a panic leaves bounds behind, that of its own job if
\* it held no lock, and then those behind it in the queue wait for ever.
QueuesExact ==
  ~ poisoned => /\ collectSet = {bound[f] : f \in {g \in Job : Collecting(g)}}
                /\ immSet = {bound[f] : f \in {g \in Job : Publishing(g)}}

\* No two tables of one bound are under way: the unreachable!() at rendezvous
\* point #1 (imm_set.entry(min_xip) is occupied) is not reached.  The collector
\* set only excludes jobs that collect at the same time; a later job of the
\* same bound must find too little to go on.
OneTablePerBound ==
  \A f, g \in Job : f # g /\ Publishing(f) /\ Publishing(g) => bound[f] # bound[g]

\* What gc has removed from the memory table can be found in an immutable table
\* or in a file at every moment, also while jobs panic.
CleanedIsFindable == cleaned \subseteq immSet \union level0

\* The rendezvous points order all the jobs that register before a greater
\* bound is published: such a job never meets a version of a greater min_xip in
\* log_and_apply.
OnlyLateJobsAreOvertaken ==
  \A f \in Job : Publishing(f) /\ bound[f] < vsetMin => f \in late

\* The locks at the rendezvous points are not held in a cycle: every job comes to
\* its end, or waits on a condition variable with no lock held.
JobsMoveOn ==
  \A f \in Job : ~ At(f, "idle") ~> pc[f].at \in {"idle", "waiting", "panicked"}
=============================================================================
