------------------------ MODULE FlushPipelineProofs -------------------------
(***************************************************************************)
(* Proofs about FlushPipeline, for any number of jobs, any limit and any   *)
(* number of bounds.  ShapeInv says where a job can be, QueueInv what the  *)
(* two queues hold, FlowInv what the counter counts.                       *)
(***************************************************************************)
EXTENDS FlushPipeline, FiniteSetTheorems, TLAPS

AtRendezvous == {"rendezvous", "lock", "unlock", "wait", "waiting", "woken"}

\* Types of all variables but the counter.
PipeTypes ==
  /\ minXip \in 1 .. MaxBound
  /\ pc \in [Job -> [at : Pc, point : Point]]
  /\ bound \in [Job -> 0 .. MaxBound]
  /\ {collectSet, immSet, level0, taken, cleaned} \subseteq SUBSET (1 .. MaxBound)
  /\ vsetMin \in 0 .. MaxBound
  /\ vsetLock \in Job \union {NoJob} /\ immLock \in Job \union {NoJob}
  /\ mutex \in [Point -> Job \union {NoJob}]
  /\ waiting \in [Point -> SUBSET Job]
  /\ poisoned \in BOOLEAN
  /\ late \subseteq Job

\* The rendezvous point of each place; a job that has read its bound has one.
Places ==
  \A f \in Job : /\ pc[f].at \in {"idle", "scheduled", "register", "snapshot", "size"} => pc[f].point = 1
                 /\ pc[f].at \in {"gc", "write"} => pc[f].point = 2
                 /\ pc[f].at \notin {"idle", "scheduled", "leave", "panicked"} => bound[f] \in 1 .. MaxBound

\* Who waits on a condition variable is at its point.
Sleepers ==
  \A p \in Point : \A g \in waiting[p] : pc[g].at = "waiting" /\ pc[g].point = p

ShapeInv == PipeTypes /\ Places /\ Sleepers

\* All jobs are idle.
LEMMA ShapeInit == Init => ShapeInv
  <1> SUFFICES ASSUME Init PROVE ShapeInv
    OBVIOUS
  <1>1. 1 \in 1 .. MaxBound /\ 0 \in 0 .. MaxBound
    BY MaxBoundAssumption
  <1>2. pc \in [Job -> [at : Pc, point : Point]] /\ mutex \in [Point -> Job \union {NoJob}]
        /\ waiting \in [Point -> SUBSET Job] /\ bound \in [Job -> 0 .. MaxBound]
    BY <1>1 DEF Init, Pc, Point
  <1>3. {collectSet, immSet, level0, taken, cleaned} \subseteq SUBSET (1 .. MaxBound)
    BY DEF Init
  <1>4. QED
    BY <1>1, <1>2, <1>3 DEF Init, ShapeInv, PipeTypes, Places, Sleepers

\* A step that moves its own job only.
LEMMA GoToShape ==
  ASSUME ShapeInv, NEW f \in Job, NEW at \in Pc, GoTo(f, at), ~ At(f, "waiting")
  PROVE  /\ pc' \in [Job -> [at : Pc, point : Point]]
         /\ pc'[f].at = at /\ pc'[f].point = pc[f].point
         /\ \A g \in Job : g # f => pc'[g] = pc[g]
         /\ \A p \in Point : \A g \in waiting[p] : pc'[g].at = "waiting" /\ pc'[g].point = p
  BY DEF ShapeInv, PipeTypes, Places, Sleepers, GoTo, At

\* A step that also wakes who waits at a point.
LEMMA NotifyShape ==
  ASSUME ShapeInv, NEW f \in Job, NEW at \in Pc, NEW q \in Point, NotifyAll(q, f, at),
         ~ At(f, "waiting")
  PROVE  /\ pc' \in [Job -> [at : Pc, point : Point]]
         /\ waiting' \in [Point -> SUBSET Job]
         /\ pc'[f].at = at /\ pc'[f].point = 2
         /\ \A g \in Job : g # f => \/ pc'[g] = pc[g]
                                    \/ pc[g].at = "waiting" /\ pc'[g].at = "woken" /\ pc'[g].point = pc[g].point
         /\ \A p \in Point : \A g \in waiting'[p] : pc'[g].at = "waiting" /\ pc'[g].point = p
  <1>1. pc' \in [Job -> [at : Pc, point : Point]]
    BY DEF ShapeInv, PipeTypes, Places, Sleepers, NotifyAll, Pc, Point
  <1>2. \A p \in Point : waiting'[p] = IF p = q THEN {} ELSE waiting[p]
    BY DEF ShapeInv, PipeTypes, Places, Sleepers, NotifyAll
  <1>3. \A g \in Job : pc'[g] = IF g = f THEN [at |-> at, point |-> 2]
                                ELSE IF g \in waiting[q] THEN [at |-> "woken", point |-> q]
                                ELSE pc[g]
    BY DEF NotifyAll
  <1>4. \A p \in Point : \A g \in waiting[p] : g \in Job /\ pc[g].at = "waiting" /\ pc[g].point = p
    BY DEF ShapeInv, PipeTypes, Places, Sleepers
  <1>5. \A p \in Point : f \notin waiting[p]
    BY <1>4 DEF At
  <1>6. ASSUME NEW p \in Point, NEW g \in waiting'[p]
        PROVE  pc'[g].at = "waiting" /\ pc'[g].point = p
    <2>1. p # q /\ g \in waiting[p] /\ g \in Job /\ pc[g].at = "waiting" /\ pc[g].point = p
      BY <1>2, <1>4, <1>6
    <2>2. g # f /\ g \notin waiting[q]
      BY <1>4, <1>5, <2>1
    <2>3. QED
      BY <1>3, <2>1, <2>2
  <1>7. waiting' \in [Point -> SUBSET Job]
    BY DEF ShapeInv, PipeTypes, Places, Sleepers, NotifyAll
  <1>8. \A g \in Job : g # f => \/ pc'[g] = pc[g]
                                \/ pc[g].at = "waiting" /\ pc'[g].at = "woken" /\ pc'[g].point = pc[g].point
    BY <1>3, <1>4
  <1>9. QED
    BY <1>1, <1>3, <1>6, <1>7, <1>8

\* Where a job can go from each place, the others going nowhere or being woken.
Others(f) ==
  \A g \in Job : g # f =>
    /\ bound'[g] = bound[g]
    /\ \/ pc'[g] = pc[g]
       \/ pc[g].at = "waiting" /\ pc'[g].at = "woken" /\ pc'[g].point = pc[g].point

Moves(f, from, at, point) ==
  /\ Others(f)
  /\ pc[f].at = from /\ pc'[f].at = at /\ pc'[f].point = point

\* What the steps of a job do to the places of all jobs (GoTo and NotifyAll).
LEMMA JobMoves ==
  ASSUME ShapeInv, NEW f \in Job
  PROVE  /\ Admit(f) => Moves(f, "idle", "leave", pc[f].point) \/ Moves(f, "idle", "scheduled", pc[f].point)
         /\ ReadMinXip(f) => Moves(f, "scheduled", "register", pc[f].point) /\ bound'[f] = minXip
         /\ Register(f) => \/ Moves(f, "register", "leave", pc[f].point) /\ bound[f] \in collectSet
                           \/ Moves(f, "register", "snapshot", pc[f].point) /\ bound[f] \notin collectSet
         /\ Snapshot(f) => \/ Moves(f, "snapshot", "rendezvous", pc[f].point) /\ bound[f] \notin taken
                           \/ Moves(f, "snapshot", "size", pc[f].point)
         /\ Cancel(f) => Moves(f, "size", "leave", 2)
         /\ LockVset(f) => Moves(f, "rendezvous", "rendezvous", pc[f].point)
         /\ NotYet(f) => Moves(f, "rendezvous", "lock", pc[f].point)
         /\ TakeMutex(f) => Moves(f, "lock", "unlock", pc[f].point)
         /\ DropLocks(f) => \/ Moves(f, "unlock", "wait", pc[f].point)
                            \/ Moves(f, "unlock", "unlock", pc[f].point)
         /\ Wait(f) => Moves(f, "wait", "waiting", pc[f].point)
         /\ Resume(f) => Moves(f, "woken", "rendezvous", pc[f].point)
         /\ PublishImm(f) => Moves(f, "rendezvous", "gc", 2)
         /\ Gc(f) => Moves(f, "gc", "write", pc[f].point)
         /\ WriteTable(f) => Moves(f, "write", "rendezvous", pc[f].point)
         /\ Install(f) => Moves(f, "rendezvous", "leave", 2)
         /\ WriteFails(f) => Moves(f, "write", "panicked", pc[f].point)
         /\ ApplyFails(f) => Moves(f, "rendezvous", "panicked", pc[f].point)
         /\ PoisonSpreads(f) => Moves(f, pc[f].at, "panicked", pc[f].point)
         /\ Leave(f) => Moves(f, "leave", "idle", 1)
  <1>1. ASSUME NEW at \in Pc, NEW from, from # "waiting", At(f, from), GoTo(f, at), UNCHANGED bound
        PROVE  Moves(f, from, at, pc[f].point)
    BY <1>1, GoToShape DEF Moves, Others, At
  <1>2. ASSUME NEW at \in Pc, NEW from, from # "waiting", At(f, from), NEW q \in Point,
               NotifyAll(q, f, at), UNCHANGED bound
        PROVE  Moves(f, from, at, 2)
    BY <1>2, NotifyShape DEF Moves, Others, At
  <1>3. {"leave", "scheduled", "register", "snapshot", "rendezvous", "size", "lock", "unlock", "wait",
         "waiting", "gc", "write", "panicked"} \subseteq Pc /\ {1, 2} \subseteq Point
    BY DEF Pc, Point
  <1>4. Admit(f) => Moves(f, "idle", "leave", pc[f].point) \/ Moves(f, "idle", "scheduled", pc[f].point)
    BY <1>1, <1>3 DEF Admit
  <1>5. ReadMinXip(f) => Moves(f, "scheduled", "register", pc[f].point) /\ bound'[f] = minXip
    BY <1>3, GoToShape DEF ReadMinXip, Moves, Others, At, ShapeInv, PipeTypes, Places, Sleepers
  <1>6. Register(f) => \/ Moves(f, "register", "leave", pc[f].point) /\ bound[f] \in collectSet
                       \/ Moves(f, "register", "snapshot", pc[f].point) /\ bound[f] \notin collectSet
    BY <1>1, <1>3 DEF Register
  <1>7. Snapshot(f) => \/ Moves(f, "snapshot", "rendezvous", pc[f].point) /\ bound[f] \notin taken
                       \/ Moves(f, "snapshot", "size", pc[f].point)
    BY <1>1, <1>3 DEF Snapshot, Exhausted
  <1>8. Cancel(f) => Moves(f, "size", "leave", 2)
    BY <1>2, <1>3 DEF Cancel
  <1>9. /\ NotYet(f) => Moves(f, "rendezvous", "lock", pc[f].point)
        /\ TakeMutex(f) => Moves(f, "lock", "unlock", pc[f].point)
        /\ DropLocks(f) => \/ Moves(f, "unlock", "wait", pc[f].point)
                           \/ Moves(f, "unlock", "unlock", pc[f].point)
        /\ Wait(f) => Moves(f, "wait", "waiting", pc[f].point)
        /\ Resume(f) => Moves(f, "woken", "rendezvous", pc[f].point)
    BY <1>1, <1>3 DEF NotYet, TakeMutex, DropLocks, Wait, Resume
  <1>10. PublishImm(f) => Moves(f, "rendezvous", "gc", 2)
    BY <1>2, <1>3 DEF PublishImm
  <1>11. /\ Gc(f) => Moves(f, "gc", "write", pc[f].point)
         /\ WriteTable(f) => Moves(f, "write", "rendezvous", pc[f].point)
    BY <1>1, <1>3 DEF Gc, WriteTable
  <1>12. Install(f) => Moves(f, "rendezvous", "leave", 2)
    BY <1>2, <1>3 DEF Install, AtPoint2
  <1>13. /\ WriteFails(f) => Moves(f, "write", "panicked", pc[f].point)
         /\ ApplyFails(f) => Moves(f, "rendezvous", "panicked", pc[f].point)
         /\ LockVset(f) => Moves(f, "rendezvous", "rendezvous", pc[f].point)
    BY <1>1, <1>3 DEF WriteFails, ApplyFails, AtPoint2, LockVset, Moves, Others, At
  <1>14. PoisonSpreads(f) => Moves(f, pc[f].at, "panicked", pc[f].point)
    BY <1>3, GoToShape DEF PoisonSpreads, Moves, Others, At
  <1>15. Leave(f) => Moves(f, "leave", "idle", 1)
    BY DEF Leave, Moves, Others, At, ShapeInv, PipeTypes, Places, Sleepers
  <1>16. QED
    BY <1>4, <1>5, <1>6, <1>7, <1>8, <1>9, <1>10, <1>11, <1>12, <1>13, <1>14, <1>15

\* Types and places are inductive by themselves.
LEMMA ShapeNext ==
  ASSUME ShapeInv, [Next]_vars
  PROVE  ShapeInv'
  <1> USE MaxBoundAssumption DEF queues, disk, locks, history
  <1>0. {"leave", "scheduled", "register", "snapshot", "rendezvous", "size", "lock", "unlock", "wait",
         "waiting", "gc", "write", "panicked"} \subseteq Pc /\ {1, 2} \subseteq Point
    BY DEF Pc, Point
  <1>1. ASSUME NEW f \in Job, NEW at \in Pc, GoTo(f, at), ~ At(f, "waiting"),
               minXip' = minXip, bound' \in [Job -> 0 .. MaxBound],
               {collectSet', immSet', level0', taken', cleaned'} \subseteq SUBSET (1 .. MaxBound),
               vsetMin' \in 0 .. MaxBound,
               vsetLock' \in Job \union {NoJob}, immLock' \in Job \union {NoJob},
               mutex' \in [Point -> Job \union {NoJob}], waiting' = waiting,
               poisoned' \in BOOLEAN, late' \subseteq Job,
               at \in {"idle", "scheduled", "register", "snapshot", "size"} => pc[f].point = 1,
               at \in {"gc", "write"} => pc[f].point = 2,
               \A g \in Job : g # f => bound'[g] = bound[g],
               at \notin {"idle", "scheduled", "leave", "panicked"} => bound'[f] \in 1 .. MaxBound
        PROVE  ShapeInv'
    <2>1. PipeTypes'
      BY <1>1, GoToShape DEF ShapeInv, PipeTypes
    <2>2. Places'
      BY <1>1, GoToShape DEF ShapeInv, Places
    <2>3. Sleepers'
      BY <1>1, GoToShape DEF Sleepers
    <2>4. QED
      BY <2>1, <2>2, <2>3 DEF ShapeInv
  <1>2. ASSUME NEW f \in Job, NEW at \in {"leave", "gc"}, NEW q \in Point, NotifyAll(q, f, at),
               ~ At(f, "waiting"),
               minXip' = minXip, bound' = bound,
               {collectSet', immSet', level0', taken', cleaned'} \subseteq SUBSET (1 .. MaxBound),
               vsetMin' \in 0 .. MaxBound, vsetLock' \in Job \union {NoJob},
               UNCHANGED <<immLock, mutex, poisoned, late>>,
               at = "gc" => bound[f] \in 1 .. MaxBound
        PROVE  ShapeInv'
    <2>0. at \in Pc
      BY <1>0
    <2>1. PipeTypes'
      BY <1>2, <2>0, NotifyShape DEF ShapeInv, PipeTypes
    <2>2. Places'
      BY <1>2, <2>0, NotifyShape DEF ShapeInv, Places
    <2>3. Sleepers'
      BY <1>2, <2>0, NotifyShape DEF Sleepers
    <2>4. QED
      BY <2>1, <2>2, <2>3 DEF ShapeInv
  <1>3. ASSUME AdvanceMinXip PROVE ShapeInv'
    BY <1>3 DEF AdvanceMinXip, ShapeInv, PipeTypes, Places, Sleepers
  <1>4. ASSUME NEW f \in Job, Admit(f) PROVE ShapeInv'
    BY <1>0, <1>1, <1>4 DEF Admit, ShapeInv, PipeTypes, Places, Sleepers, At
  <1>5. ASSUME NEW f \in Job, ReadMinXip(f) PROVE ShapeInv'
    BY <1>0, <1>1, <1>5 DEF ReadMinXip, ShapeInv, PipeTypes, Places, Sleepers, At
  <1>6. ASSUME NEW f \in Job, Register(f) PROVE ShapeInv'
    BY <1>0, <1>1, <1>6 DEF Register, ShapeInv, PipeTypes, Places, Sleepers, At
  <1>7. ASSUME NEW f \in Job, Snapshot(f) PROVE ShapeInv'
    BY <1>0, <1>1, <1>7 DEF Snapshot, ShapeInv, PipeTypes, Places, Sleepers, At
  <1>8. ASSUME NEW f \in Job, Cancel(f) PROVE ShapeInv'
    BY <1>0, <1>2, <1>8 DEF Cancel, ShapeInv, PipeTypes, Places, Sleepers, At
  <1>9. ASSUME NEW f \in Job, NotYet(f) \/ TakeMutex(f) \/ DropLocks(f) \/ Resume(f) PROVE ShapeInv'
    <2>1. /\ vsetLock' \in Job \union {NoJob} /\ immLock' \in Job \union {NoJob}
          /\ mutex' \in [Point -> Job \union {NoJob}]
      BY <1>9 DEF NotYet, TakeMutex, DropLocks, Resume, ShapeInv, PipeTypes, Places, Sleepers
    <2>2. bound[f] \in 1 .. MaxBound /\ ~ At(f, "waiting")
      BY <1>9 DEF NotYet, TakeMutex, DropLocks, Resume, ShapeInv, PipeTypes, Places, Sleepers, At
    <2>3. \E at \in {"lock", "unlock", "wait", "rendezvous"} : GoTo(f, at)
      BY <1>9 DEF NotYet, TakeMutex, DropLocks, Resume
    <2>4. UNCHANGED <<minXip, flushing, bound, queues, disk, waiting, poisoned, history>>
      BY <1>9 DEF NotYet, TakeMutex, DropLocks, Resume
    <2>5. QED
      BY <1>0, <1>1, <2>1, <2>2, <2>3, <2>4 DEF ShapeInv, PipeTypes, Places, Sleepers
  <1>10. ASSUME NEW f \in Job, Wait(f) PROVE ShapeInv'
    <2>1. /\ pc' \in [Job -> [at : Pc, point : Point]]
          /\ pc'[f].at = "waiting" /\ pc'[f].point = pc[f].point
          /\ \A g \in Job : g # f => pc'[g] = pc[g]
      BY <1>0, <1>10, GoToShape DEF Wait, At
    <2>2. mutex' \in [Point -> Job \union {NoJob}] /\ waiting' \in [Point -> SUBSET Job]
      BY <1>10 DEF Wait, ShapeInv, PipeTypes, Places, Sleepers
    <2>3. pc[f].at = "wait" /\ bound[f] \in 1 .. MaxBound
      BY <1>10 DEF Wait, ShapeInv, PipeTypes, Places, Sleepers, At
    <2>4. Sleepers'
      BY <1>10, <2>1, <2>3 DEF Wait, ShapeInv, PipeTypes, Places, Sleepers
    <2>5. UNCHANGED <<minXip, flushing, bound, queues, disk, vsetLock, immLock, poisoned, history>>
      BY <1>10 DEF Wait
    <2>6. PipeTypes'
      BY <2>1, <2>2, <2>5 DEF ShapeInv, PipeTypes
    <2>7. Places'
      BY <2>1, <2>3, <2>5 DEF ShapeInv, Places
    <2>8. QED
      BY <2>4, <2>6, <2>7 DEF ShapeInv
  <1>11. ASSUME NEW f \in Job, PublishImm(f) PROVE ShapeInv'
    BY <1>0, <1>2, <1>11 DEF PublishImm, ShapeInv, PipeTypes, Places, Sleepers, At
  <1>12. ASSUME NEW f \in Job, Gc(f) \/ WriteTable(f) PROVE ShapeInv'
    <2>1. GoTo(f, "write") \/ GoTo(f, "rendezvous")
      BY <1>12 DEF Gc, WriteTable
    <2>2. bound[f] \in 1 .. MaxBound /\ pc[f].point = 2 /\ ~ At(f, "waiting")
      BY <1>12 DEF Gc, WriteTable, ShapeInv, PipeTypes, Places, Sleepers, At
    <2>3. UNCHANGED <<minXip, flushing, bound, queues, disk, locks, taken, late>>
          /\ cleaned' \subseteq 1 .. MaxBound
      BY <1>12, <2>2 DEF Gc, WriteTable, ShapeInv, PipeTypes, Places, Sleepers
    <2>4. QED
      BY <1>0, <1>1, <2>1, <2>2, <2>3 DEF ShapeInv, PipeTypes, Places, Sleepers
  <1>13. ASSUME NEW f \in Job, Install(f) PROVE ShapeInv'
    BY <1>0, <1>2, <1>13 DEF Install, AtPoint2, ShapeInv, PipeTypes, Places, Sleepers, At
  <1>14. ASSUME NEW f \in Job, WriteFails(f) \/ ApplyFails(f) \/ PoisonSpreads(f) PROVE ShapeInv'
    <2>1. GoTo(f, "panicked") /\ ~ At(f, "waiting")
      BY <1>14 DEF WriteFails, ApplyFails, AtPoint2, PoisonSpreads, At, ShapeInv, PipeTypes, Places,
         Sleepers
    <2>2. UNCHANGED <<minXip, flushing, bound, queues, disk, immLock, mutex, waiting, history>>
      BY <1>14 DEF WriteFails, ApplyFails, PoisonSpreads
    <2>3. CASE ApplyFails(f)
      <3>1. poisoned' = TRUE /\ vsetLock' = NoJob
        BY <2>3 DEF ApplyFails
      <3>2. poisoned' \in BOOLEAN /\ vsetLock' \in Job \union {NoJob}
        BY <3>1
      <3>3. QED
        BY <1>0, <1>1, <2>1, <2>2, <3>2 DEF ShapeInv, PipeTypes, Places, Sleepers
    <2>4. CASE WriteFails(f) \/ PoisonSpreads(f)
      <3>1. UNCHANGED <<vsetLock, poisoned>>
        BY <2>4 DEF WriteFails, PoisonSpreads
      <3>2. QED
        BY <1>0, <1>1, <2>1, <2>2, <3>1 DEF ShapeInv, PipeTypes, Places, Sleepers
    <2>5. QED
      BY <1>14, <2>3, <2>4
  <1>15. ASSUME NEW f \in Job, Leave(f) PROVE ShapeInv'
    <2>1. pc' \in [Job -> [at : Pc, point : Point]] /\ bound' \in [Job -> 0 .. MaxBound]
      BY <1>15 DEF Leave, ShapeInv, PipeTypes, Places, Sleepers, Pc, Point
    <2>2. /\ pc'[f].at = "idle" /\ pc'[f].point = 1
          /\ \A g \in Job : g # f => pc'[g] = pc[g] /\ bound'[g] = bound[g]
      BY <1>15 DEF Leave, ShapeInv, PipeTypes, Places, Sleepers
    <2>3. UNCHANGED <<minXip, queues, disk, locks, taken, cleaned>> /\ late' \subseteq Job
          /\ pc[f].at = "leave"
      BY <1>15 DEF Leave, ShapeInv, PipeTypes, Places, Sleepers, At
    <2>4. PipeTypes'
      BY <2>1, <2>3 DEF ShapeInv, PipeTypes
    <2>5. Places'
      BY <2>2 DEF ShapeInv, Places
    <2>6. Sleepers'
      BY <2>2, <2>3 DEF ShapeInv, PipeTypes, Sleepers
    <2>7. QED
      BY <2>4, <2>5, <2>6 DEF ShapeInv
  <1>16. ASSUME UNCHANGED vars PROVE ShapeInv'
    BY <1>16 DEF vars, ShapeInv, PipeTypes, Places, Sleepers
  <1>17. ASSUME NEW f \in Job, LockVset(f) PROVE ShapeInv'
    BY <1>17 DEF LockVset, ShapeInv, PipeTypes, Places, Sleepers
  <1>18. QED
    BY <1>3, <1>4, <1>5, <1>6, <1>7, <1>8, <1>9, <1>10, <1>11, <1>12, <1>13, <1>14, <1>15, <1>16,
       <1>17 DEF Next, JobStep

-----------------------------------------------------------------------------
(* The queues.                                                             *)

\* A job whose snapshot had enough, until it is done.
Passed(f) == Publishing(f) \/ (pc[f].point = 1 /\ pc[f].at \in AtRendezvous)

\* Who is under way is registered, and a bound is passed on once.
Registered ==
  \A f \in Job : /\ Collecting(f) => bound[f] \in collectSet
                 /\ Publishing(f) => bound[f] \in immSet
                 /\ Passed(f) => bound[f] \in taken

PassedOnce ==
  \A f, g \in Job : f # g /\ Passed(f) /\ Passed(g) => bound[f] # bound[g]

\* Who is registered is under way, unless a panic has left it behind.
NobodyElse ==
  ~ poisoned => /\ \A b \in collectSet : \E f \in Job : Collecting(f) /\ bound[f] = b
                /\ \A b \in immSet : \E f \in Job : Publishing(f) /\ bound[f] = b
                /\ \A f, g \in Job : f # g /\ Collecting(f) /\ Collecting(g) => bound[f] # bound[g]

\* What the queues have to do with the jobs.
QueueInv == Registered /\ PassedOnce /\ NobodyElse /\ CleanedIsFindable

\* The queues are empty.
LEMMA QueueInit == Init => QueueInv
  BY DEF Init, QueueInv, Registered, PassedOnce, NobodyElse, CleanedIsFindable, Collecting,
     Publishing, Passed, AtRendezvous

\* Being woken is no change of status.
LEMMA OthersKeepStatus ==
  ASSUME ShapeInv, NEW f \in Job, Others(f), NEW g \in Job, g # f
  PROVE  /\ bound'[g] = bound[g]
         /\ Collecting(g)' <=> Collecting(g)
         /\ Publishing(g)' <=> Publishing(g)
         /\ Passed(g)' <=> Passed(g)
  BY DEF Others, Collecting, Publishing, Passed, AtRendezvous

\* The status of the job that moves, before and after.
LEMMA OwnStatus ==
  ASSUME ShapeInv, NEW f \in Job
  PROVE  /\ Admit(f) \/ ReadMinXip(f) \/ Leave(f) =>
              ~ Passed(f)' /\ ~ Collecting(f)' /\ ~ Collecting(f) /\ ~ Passed(f)
         /\ Register(f) => /\ ~ Passed(f)' /\ ~ Collecting(f) /\ ~ Passed(f)
                           /\ Collecting(f)' => bound[f] \notin collectSet
                           /\ bound[f] \notin collectSet => Collecting(f)'
         /\ Snapshot(f) => /\ Collecting(f) /\ Collecting(f)' /\ ~ Publishing(f)'
                           /\ Passed(f)' => bound[f] \notin taken
         /\ Cancel(f) => Collecting(f) /\ ~ Passed(f) /\ ~ Collecting(f)' /\ ~ Passed(f)'
         /\ LockVset(f) \/ NotYet(f) \/ TakeMutex(f) \/ DropLocks(f) \/ Wait(f) \/ Resume(f) =>
              /\ Collecting(f)' <=> Collecting(f)
              /\ Publishing(f)' <=> Publishing(f)
              /\ Passed(f)' <=> Passed(f)
         /\ PublishImm(f) => Collecting(f) /\ Passed(f) /\ ~ Collecting(f)' /\ Publishing(f)'
         /\ Gc(f) \/ WriteTable(f) \/ WriteFails(f) \/ ApplyFails(f) =>
              ~ Collecting(f) /\ Publishing(f) /\ ~ Collecting(f)' /\ Publishing(f)'
         /\ Install(f) => ~ Collecting(f) /\ Publishing(f) /\ ~ Collecting(f)' /\ ~ Passed(f)'
         /\ PoisonSpreads(f) => /\ ~ Collecting(f)'
                                /\ Publishing(f)' => Publishing(f)
                                /\ Passed(f)' => Passed(f)
  <1> USE DEF Moves, Collecting, Publishing, Passed, AtRendezvous, ShapeInv, Places, PipeTypes, Point
  <1>1. Admit(f) \/ ReadMinXip(f) \/ Leave(f) =>
              ~ Passed(f)' /\ ~ Collecting(f)' /\ ~ Collecting(f) /\ ~ Passed(f)
    BY JobMoves
  <1>2. Register(f) => /\ ~ Passed(f)' /\ ~ Collecting(f) /\ ~ Passed(f)
                       /\ Collecting(f)' => bound[f] \notin collectSet
                       /\ bound[f] \notin collectSet => Collecting(f)'
    BY JobMoves
  <1>3. Snapshot(f) => /\ Collecting(f) /\ Collecting(f)' /\ ~ Publishing(f)'
                       /\ Passed(f)' => bound[f] \notin taken
    BY JobMoves
  <1>4. Cancel(f) => Collecting(f) /\ ~ Passed(f) /\ ~ Collecting(f)' /\ ~ Passed(f)'
    BY JobMoves
  <1>5. LockVset(f) \/ NotYet(f) \/ TakeMutex(f) \/ DropLocks(f) \/ Wait(f) \/ Resume(f) =>
              /\ Collecting(f)' <=> Collecting(f)
              /\ Publishing(f)' <=> Publishing(f)
              /\ Passed(f)' <=> Passed(f)
    <2>1. ASSUME pc[f].at \in AtRendezvous, pc'[f].at \in AtRendezvous, pc'[f].point = pc[f].point
          PROVE  /\ Collecting(f)' <=> Collecting(f)
                 /\ Publishing(f)' <=> Publishing(f)
                 /\ Passed(f)' <=> Passed(f)
      BY <2>1
    <2>2. LockVset(f) \/ NotYet(f) \/ TakeMutex(f) \/ DropLocks(f) \/ Wait(f) \/ Resume(f) =>
            /\ pc[f].at \in AtRendezvous /\ pc'[f].at \in AtRendezvous
            /\ pc'[f].point = pc[f].point
      BY JobMoves
    <2>3. QED
      BY <2>1, <2>2
  <1>6. PublishImm(f) => Collecting(f) /\ Passed(f) /\ ~ Collecting(f)' /\ Publishing(f)'
    BY JobMoves DEF PublishImm
  <1>7. Gc(f) \/ WriteTable(f) \/ WriteFails(f) \/ ApplyFails(f) =>
              ~ Collecting(f) /\ Publishing(f) /\ ~ Collecting(f)' /\ Publishing(f)'
    <2>1. ApplyFails(f) => pc[f].point = 2
      BY DEF ApplyFails, AtPoint2
    <2>2. Gc(f) \/ WriteTable(f) \/ WriteFails(f) \/ ApplyFails(f) =>
            /\ pc[f].at \in {"gc", "write", "rendezvous"} /\ pc[f].point = 2
            /\ pc'[f].at \in {"write", "rendezvous", "panicked"} /\ pc'[f].point = 2
      BY <2>1, JobMoves
    <2>3. QED
      BY <2>2
  <1>8. Install(f) => ~ Collecting(f) /\ Publishing(f) /\ ~ Collecting(f)' /\ ~ Passed(f)'
    BY JobMoves DEF Install, AtPoint2
  <1>9. PoisonSpreads(f) => /\ ~ Collecting(f)'
                            /\ Publishing(f)' => Publishing(f)
                            /\ Passed(f)' => Passed(f)
    BY JobMoves DEF PoisonSpreads
  <1>10. QED
    BY <1>1, <1>2, <1>3, <1>4, <1>5, <1>6, <1>7, <1>8, <1>9

\* The others keep bound and status in any step of a job.
LEMMA StepOthers ==
  ASSUME ShapeInv, NEW f \in Job, Admit(f) \/ JobStep(f)
  PROVE  Others(f)
  BY JobMoves DEF JobStep, Moves

\* The queues are exact because a bound enters and leaves them with its job, and
\* a bound passes the first point once because a second snapshot below it has
\* nothing to take.
LEMMA QueueNext ==
  ASSUME ShapeInv, QueueInv, [Next]_vars
  PROVE  QueueInv'
  <1> USE DEF queues, disk, locks, history
  <1>a. /\ bound \in [Job -> 0 .. MaxBound]
    BY DEF ShapeInv, PipeTypes
  <1>1. ASSUME AdvanceMinXip \/ UNCHANGED vars PROVE QueueInv'
    <2>1. UNCHANGED <<pc, bound, collectSet, immSet, level0, poisoned, taken, cleaned>>
      BY <1>1 DEF AdvanceMinXip, vars
    <2>2. QED
      BY <2>1 DEF QueueInv, Registered, PassedOnce, NobodyElse, CleanedIsFindable, Collecting,
         Publishing, Passed
  <1>2. ASSUME NEW f \in Job, Admit(f) \/ JobStep(f)
        PROVE  QueueInv'
    <2>1. \A g \in Job : g # f => /\ bound'[g] = bound[g]
                                  /\ Collecting(g)' <=> Collecting(g)
                                  /\ Publishing(g)' <=> Publishing(g)
                                  /\ Passed(g)' <=> Passed(g)
      BY <1>2, StepOthers, OthersKeepStatus
    <2>p. \A g \in Job : (Publishing(g) => Passed(g)) /\ (Publishing(g)' => Passed(g)')
      BY DEF Passed, Publishing
    <2>2. CASE Admit(f) \/ ReadMinXip(f) \/ Leave(f)
      <3>1. UNCHANGED <<collectSet, immSet, level0, poisoned, taken, cleaned>>
        BY <2>2 DEF Admit, ReadMinXip, Leave
      <3>2. ~ Passed(f)' /\ ~ Collecting(f)' /\ ~ Collecting(f) /\ ~ Passed(f)
        BY <2>2, OwnStatus
      <3>3. Registered' /\ PassedOnce' /\ CleanedIsFindable'
        BY <2>1, <2>p, <3>1, <3>2 DEF QueueInv, Registered, PassedOnce, CleanedIsFindable
      <3>4. NobodyElse'
        BY <2>1, <2>p, <3>1, <3>2 DEF QueueInv, NobodyElse
      <3>5. QED
        BY <3>3, <3>4 DEF QueueInv
    <2>3. CASE Register(f)
      <3>1. UNCHANGED <<bound, immSet, level0, poisoned, taken, cleaned>>
            /\ collectSet' = collectSet \cup {bound[f]} /\ ~ poisoned
        BY <2>3 DEF Register
      <3>2. /\ ~ Passed(f)' /\ ~ Collecting(f) /\ ~ Passed(f)
            /\ Collecting(f)' => bound[f] \notin collectSet
            /\ bound[f] \notin collectSet => Collecting(f)'
        BY <2>3, OwnStatus
      <3>3. Registered' /\ PassedOnce' /\ CleanedIsFindable'
        BY <2>1, <2>p, <3>1, <3>2 DEF QueueInv, Registered, PassedOnce, CleanedIsFindable
      <3>4. \A b \in collectSet' : \E g \in Job : Collecting(g)' /\ bound'[g] = b
        BY <2>1, <3>1, <3>2 DEF QueueInv, NobodyElse
      <3>5. \A b \in immSet' : \E g \in Job : Publishing(g)' /\ bound'[g] = b
        BY <2>1, <2>p, <3>1, <3>2 DEF QueueInv, NobodyElse
      <3>6. \A g, h \in Job : g # h /\ Collecting(g)' /\ Collecting(h)' => bound'[g] # bound'[h]
        BY <2>1, <3>1, <3>2 DEF QueueInv, NobodyElse, Registered
      <3>7. QED
        BY <3>3, <3>4, <3>5, <3>6 DEF QueueInv, NobodyElse
    <2>4. CASE Snapshot(f)
      <3>1. UNCHANGED <<bound, collectSet, immSet, level0, poisoned, cleaned>>
            /\ taken' = taken \cup {bound[f]}
        BY <2>4 DEF Snapshot
      <3>2. /\ Collecting(f) /\ Collecting(f)' /\ ~ Publishing(f)'
            /\ Passed(f)' => bound[f] \notin taken
        BY <2>4, OwnStatus
      <3>3. ~ Publishing(f)
        BY <2>4 DEF Snapshot, At, Publishing, ShapeInv, Places
      <3>4. Registered' /\ PassedOnce' /\ CleanedIsFindable'
        BY <2>1, <3>1, <3>2, <3>3 DEF QueueInv, Registered, PassedOnce, CleanedIsFindable
      <3>5. NobodyElse'
        BY <2>1, <3>1, <3>2, <3>3 DEF QueueInv, NobodyElse
      <3>6. QED
        BY <3>4, <3>5 DEF QueueInv
    <2>5. CASE Cancel(f)
      <3>1. UNCHANGED <<bound, immSet, level0, poisoned, taken, cleaned>>
            /\ collectSet' = collectSet \ {bound[f]} /\ ~ poisoned
        BY <2>5 DEF Cancel
      <3>2. Collecting(f) /\ ~ Passed(f) /\ ~ Collecting(f)' /\ ~ Passed(f)'
        BY <2>5, OwnStatus
      <3>3. Registered' /\ PassedOnce' /\ CleanedIsFindable'
        BY <2>1, <2>p, <3>1, <3>2 DEF QueueInv, Registered, PassedOnce, NobodyElse, CleanedIsFindable
      <3>4. NobodyElse'
        BY <2>1, <2>p, <3>1, <3>2 DEF QueueInv, NobodyElse
      <3>5. QED
        BY <3>3, <3>4 DEF QueueInv
    <2>6. CASE LockVset(f) \/ NotYet(f) \/ TakeMutex(f) \/ DropLocks(f) \/ Wait(f) \/ Resume(f)
      <3>1. UNCHANGED <<bound, collectSet, immSet, level0, poisoned, taken, cleaned>>
        BY <2>6 DEF LockVset, NotYet, TakeMutex, DropLocks, Wait, Resume
      <3>2. \A g \in Job : /\ Collecting(g)' <=> Collecting(g)
                           /\ Publishing(g)' <=> Publishing(g)
                           /\ Passed(g)' <=> Passed(g)
        BY <2>1, <2>6, OwnStatus
      <3>3. Registered' /\ PassedOnce' /\ CleanedIsFindable'
        BY <3>1, <3>2 DEF QueueInv, Registered, PassedOnce, CleanedIsFindable
      <3>4. NobodyElse'
        BY <3>1, <3>2 DEF QueueInv, NobodyElse
      <3>5. QED
        BY <3>3, <3>4 DEF QueueInv
    <2>7. CASE PublishImm(f)
      <3>1. UNCHANGED <<bound, level0, poisoned, taken, cleaned>> /\ ~ poisoned
            /\ collectSet' = collectSet \ {bound[f]} /\ immSet' = immSet \cup {bound[f]}
        BY <2>7 DEF PublishImm
      <3>2. Collecting(f) /\ Passed(f) /\ ~ Collecting(f)' /\ Publishing(f)'
        BY <2>7, OwnStatus
      <3>3. Registered' /\ PassedOnce' /\ CleanedIsFindable'
        BY <2>1, <2>p, <3>1, <3>2 DEF QueueInv, Registered, PassedOnce, NobodyElse, CleanedIsFindable
      <3>4. \A b \in collectSet' : \E g \in Job : Collecting(g)' /\ bound'[g] = b
        BY <2>1, <3>1, <3>2 DEF QueueInv, NobodyElse
      <3>5. \A b \in immSet' : \E g \in Job : Publishing(g)' /\ bound'[g] = b
        BY <2>1, <3>1, <3>2 DEF QueueInv, NobodyElse
      <3>6. \A g, h \in Job : g # h /\ Collecting(g)' /\ Collecting(h)' => bound'[g] # bound'[h]
        BY <2>1, <3>1, <3>2 DEF QueueInv, NobodyElse
      <3>7. QED
        BY <3>3, <3>4, <3>5, <3>6 DEF QueueInv, NobodyElse
    <2>8. CASE Gc(f) \/ WriteTable(f) \/ WriteFails(f) \/ ApplyFails(f)
      <3>1. UNCHANGED <<bound, collectSet, immSet, level0, taken>>
            /\ cleaned' \subseteq cleaned \cup {bound[f]} /\ (poisoned => poisoned')
        BY <2>8 DEF Gc, WriteTable, WriteFails, ApplyFails
      <3>2. ~ Collecting(f) /\ Publishing(f) /\ ~ Collecting(f)' /\ Publishing(f)'
        BY <2>8, OwnStatus
      <3>3. Registered' /\ PassedOnce' /\ CleanedIsFindable'
        BY <2>1, <2>p, <3>1, <3>2 DEF QueueInv, Registered, PassedOnce, CleanedIsFindable
      <3>4. NobodyElse'
        BY <2>1, <3>1, <3>2 DEF QueueInv, NobodyElse
      <3>5. QED
        BY <3>3, <3>4 DEF QueueInv
    <2>9. CASE Install(f)
      <3>1. UNCHANGED <<bound, collectSet, poisoned, taken, cleaned>> /\ ~ poisoned
            /\ level0' = level0 \cup {bound[f]} /\ immSet' = immSet \ {bound[f]}
        BY <2>9 DEF Install, AtPoint2
      <3>2. ~ Collecting(f) /\ Publishing(f) /\ ~ Collecting(f)' /\ ~ Passed(f)'
        BY <2>9, OwnStatus
      <3>3. Registered' /\ PassedOnce' /\ CleanedIsFindable'
        BY <2>1, <2>p, <3>1, <3>2 DEF QueueInv, Registered, PassedOnce, CleanedIsFindable
      <3>4. NobodyElse'
        BY <2>1, <2>p, <3>1, <3>2 DEF QueueInv, NobodyElse
      <3>5. QED
        BY <3>3, <3>4 DEF QueueInv
    <2>10. CASE PoisonSpreads(f)
      <3>1. UNCHANGED <<bound, collectSet, immSet, level0, taken, cleaned>> /\ poisoned'
        BY <2>10 DEF PoisonSpreads
      <3>2. /\ ~ Collecting(f)'
            /\ Publishing(f)' => Publishing(f)
            /\ Passed(f)' => Passed(f)
        BY <2>10, OwnStatus
      <3>3. Registered' /\ PassedOnce' /\ CleanedIsFindable'
        BY <2>1, <2>p, <3>1, <3>2 DEF QueueInv, Registered, PassedOnce, CleanedIsFindable
      <3>4. QED
        BY <3>1, <3>3 DEF QueueInv, NobodyElse
    <2>11. QED
      BY <1>2, <2>2, <2>3, <2>4, <2>5, <2>6, <2>7, <2>8, <2>9, <2>10 DEF JobStep
  <1>3. QED
    BY <1>1, <1>2 DEF Next

-----------------------------------------------------------------------------
(* Jobs that have registered in time.                                      *)

\* What has been published and installed while such a job collects is not above
\* its bound: the rendezvous points let lower bounds pass first.
LateInv ==
  \A f \in Job : f \notin late =>
    /\ Collecting(f) => vsetMin <= bound[f] /\ \A b \in immSet : b <= bound[f]
    /\ Publishing(f) => vsetMin <= bound[f]

\* Nobody has registered.
LEMMA LateInit == Init => LateInv
  BY DEF Init, LateInv, Collecting, Publishing

\* Only the first of a queue is published or installed, which keeps all that
\* wait behind it at or above the bound of the version set.
LEMMA LateNext ==
  ASSUME ShapeInv, QueueInv, LateInv, [Next]_vars
  PROVE  LateInv'
  <1> USE DEF queues, disk, locks, history
  <1>a. /\ \A f \in Job : bound[f] \in Nat
        /\ vsetMin \in Nat /\ \A b \in immSet : b \in Nat
    BY MaxBoundAssumption DEF ShapeInv, PipeTypes
  <1>1. ASSUME AdvanceMinXip \/ UNCHANGED vars PROVE LateInv'
    <2>1. UNCHANGED <<pc, bound, immSet, vsetMin, late>>
      BY <1>1 DEF AdvanceMinXip, vars
    <2>2. QED
      BY <2>1 DEF LateInv, Collecting, Publishing
  <1>2. ASSUME NEW f \in Job, Admit(f) \/ JobStep(f)
        PROVE  LateInv'
    <2>1. \A g \in Job : g # f => /\ bound'[g] = bound[g]
                                  /\ Collecting(g)' <=> Collecting(g)
                                  /\ Publishing(g)' <=> Publishing(g)
      BY <1>2, StepOthers, OthersKeepStatus
    <2>p. \A g \in Job : (Publishing(g) => Passed(g)) /\ (Publishing(g)' => Passed(g)')
      BY DEF Passed, Publishing
    <2>2. CASE Admit(f) \/ ReadMinXip(f) \/ Leave(f)
      <3>1. UNCHANGED <<immSet, vsetMin>> /\ \A g \in Job : g # f => (g \in late' <=> g \in late)
        BY <2>2 DEF Admit, ReadMinXip, Leave
      <3>2. QED
        BY <2>1, <2>2, <2>p, <3>1, OwnStatus DEF LateInv
    <2>3. CASE Register(f)
      <3>1. /\ UNCHANGED <<bound, immSet, vsetMin>>
            /\ \A g \in Job : g # f => (g \in late' <=> g \in late)
            /\ f \notin late' => ~ Overtaken(f)
        BY <2>3 DEF Register
      <3>2. f \notin late' => vsetMin <= bound[f] /\ \A b \in immSet : b <= bound[f]
        BY <1>a, <3>1 DEF Overtaken
      <3>3. QED
        BY <2>1, <2>3, <2>p, <3>1, <3>2, OwnStatus DEF LateInv
    <2>4. CASE Snapshot(f) \/ Gc(f) \/ WriteTable(f) \/ WriteFails(f) \/ ApplyFails(f) \/ Cancel(f)
               \/ LockVset(f) \/ NotYet(f) \/ TakeMutex(f) \/ DropLocks(f) \/ Wait(f) \/ Resume(f)
      <3>1. UNCHANGED <<bound, immSet, vsetMin, late>>
        BY <2>4 DEF Snapshot, Gc, WriteTable, WriteFails, ApplyFails, Cancel, LockVset, NotYet,
           TakeMutex, DropLocks, Wait, Resume
      <3>2. (Collecting(f)' => Collecting(f)) /\ (Publishing(f)' => Publishing(f))
        BY <2>4, <2>p, OwnStatus
      <3>3. QED
        BY <2>1, <3>1, <3>2 DEF LateInv
    <2>5. CASE PublishImm(f)
      <3>1. UNCHANGED <<bound, vsetMin, late>> /\ immSet' = immSet \cup {bound[f]}
            /\ \A b \in collectSet : bound[f] <= b
        BY <2>5 DEF PublishImm, IsFirst, Queue
      <3>2. Collecting(f) /\ ~ Collecting(f)'
        BY <2>5, OwnStatus
      <3>3. \A g \in Job : Collecting(g) => bound[f] <= bound[g]
        BY <3>1 DEF QueueInv, Registered
      <3>4. QED
        BY <2>1, <3>1, <3>2, <3>3 DEF LateInv
    <2>6. CASE Install(f)
      <3>1. UNCHANGED <<bound, late>> /\ immSet' = immSet \ {bound[f]} /\ vsetMin' = bound[f]
            /\ \A b \in immSet : bound[f] <= b
        BY <2>6 DEF Install, AtPoint2, IsFirst, Queue
      <3>2. Publishing(f) /\ ~ Collecting(f)' /\ ~ Publishing(f)'
        BY <2>6, <2>p, OwnStatus
      <3>3. bound[f] \in immSet /\ \A g \in Job : Publishing(g) => bound[f] <= bound[g]
        BY <3>1, <3>2 DEF QueueInv, Registered
      <3>4. QED
        BY <2>1, <3>1, <3>2, <3>3 DEF LateInv
    <2>7. CASE PoisonSpreads(f)
      <3>1. UNCHANGED <<bound, immSet, vsetMin, late>>
        BY <2>7 DEF PoisonSpreads
      <3>2. QED
        BY <2>1, <2>7, <2>p, <3>1, OwnStatus DEF LateInv
    <2>8. QED
      BY <1>2, <2>2, <2>3, <2>4, <2>5, <2>6, <2>7 DEF JobStep
  <1>3. QED
    BY <1>1, <1>2 DEF Next

-----------------------------------------------------------------------------
(* The counter of flow control.                                            *)

\* Jobs that count, and jobs that run.
Busy == {f \in Job : pc[f].at # "idle"}
Running == {f \in Job : pc[f].at \notin {"idle", "leave"}}

\* flushing_threads counts every job that has raised it, refused ones too.
FlowInv ==
  /\ flushing = Cardinality(Busy)
  /\ Cardinality(Running) <= MaxFlushes

\* The counter starts at zero.
LEMMA FlowInit == Init => FlowInv
  <1> SUFFICES ASSUME Init PROVE FlowInv
    OBVIOUS
  <1>1. Busy = {} /\ Running = {}
    BY DEF Init, Busy, Running
  <1>2. QED
    BY <1>1, FS_EmptySet, MaxFlushesAssumption DEF Init, FlowInv

\* The sets are as finite as Job.
LEMMA BusyFinite ==
  /\ IsFiniteSet(Busy) /\ IsFiniteSet(Running)
  /\ Cardinality(Busy) \in Nat /\ Cardinality(Running) \in Nat
  /\ Cardinality(Running) <= Cardinality(Busy)
  /\ Cardinality(Busy) <= Cardinality(Job) /\ Cardinality(Job) \in Nat
  <1>1. Busy \subseteq Job /\ Running \subseteq Busy
    BY DEF Busy, Running
  <1>2. IsFiniteSet(Busy) /\ Cardinality(Busy) <= Cardinality(Job)
    BY <1>1, FS_Subset, JobAssumption
  <1>3. IsFiniteSet(Running) /\ Cardinality(Running) <= Cardinality(Busy)
    BY <1>1, <1>2, FS_Subset
  <1>4. QED
    BY <1>2, <1>3, FS_CardinalityType, JobAssumption

\* A job is let in while the counter, which is not below the number of running
\* jobs, is below the limit.
LEMMA FlowNext ==
  ASSUME ShapeInv, FlowInv, [Next]_vars
  PROVE  FlowInv'
  <1>0. /\ IsFiniteSet(Busy) /\ IsFiniteSet(Running)
        /\ Cardinality(Busy) \in Nat /\ Cardinality(Running) \in Nat
        /\ Cardinality(Running) <= Cardinality(Busy)
    BY BusyFinite
  <1>1. ASSUME AdvanceMinXip \/ UNCHANGED vars PROVE FlowInv'
    <2>1. UNCHANGED <<pc, flushing>>
      BY <1>1 DEF AdvanceMinXip, vars
    <2>2. Busy' = Busy /\ Running' = Running
      BY <2>1 DEF Busy, Running
    <2>3. QED
      BY <2>1, <2>2 DEF FlowInv
  <1>2. ASSUME NEW f \in Job, Admit(f) PROVE FlowInv'
    <2>1. pc[f].at = "idle" /\ pc'[f].at = (IF flushing >= MaxFlushes THEN "leave" ELSE "scheduled")
          /\ \A g \in Job : g # f => pc'[g] = pc[g]
      BY <1>2 DEF Admit, GoTo, At, ShapeInv, PipeTypes
    <2>2. Busy' = Busy \cup {f} /\ f \notin Busy /\ f \notin Running
      BY <2>1 DEF Busy, Running
    <2>3. Cardinality(Busy') = Cardinality(Busy) + 1
      BY <1>0, <2>2, FS_AddElement
    <2>4. flushing' = Cardinality(Busy')
      BY <1>2, <2>3 DEF Admit, FlowInv
    <2>5. CASE flushing >= MaxFlushes
      <3>1. Running' = Running
        BY <2>1, <2>5 DEF Running
      <3>2. QED
        BY <2>4, <3>1 DEF FlowInv
    <2>6. CASE ~ (flushing >= MaxFlushes)
      <3>1. Running' = Running \cup {f}
        BY <2>1, <2>6 DEF Running
      <3>2. Cardinality(Running') = Cardinality(Running) + 1
        BY <1>0, <2>2, <3>1, FS_AddElement
      <3>3. Cardinality(Running') <= MaxFlushes
        BY <1>0, <2>6, <3>2, MaxFlushesAssumption DEF FlowInv
      <3>4. QED
        BY <2>4, <3>3 DEF FlowInv
    <2>7. QED
      BY <2>5, <2>6
  <1>3. ASSUME NEW f \in Job, Leave(f) PROVE FlowInv'
    <2>1. pc[f].at = "leave" /\ pc'[f].at = "idle" /\ \A g \in Job : g # f => pc'[g] = pc[g]
      BY <1>3 DEF Leave, At, ShapeInv, PipeTypes
    <2>2. Busy' = Busy \ {f} /\ f \in Busy /\ Running' = Running
      BY <2>1 DEF Busy, Running
    <2>3. Cardinality(Busy') = Cardinality(Busy) - 1
      BY <1>0, <2>2, FS_RemoveElement
    <2>4. QED
      BY <1>0, <1>3, <2>2, <2>3 DEF Leave, FlowInv
  <1>4. ASSUME NEW f \in Job, JobStep(f), ~ Leave(f) PROVE FlowInv'
    <2>1. /\ Others(f) /\ pc'[f].at # "idle"
          /\ pc[f].at \notin {"idle", "leave"}
      BY <1>4, JobMoves DEF JobStep, Moves, PoisonSpreads
    <2>2. UNCHANGED flushing
      BY <1>4 DEF JobStep, ReadMinXip, Register, Snapshot, Cancel, LockVset, NotYet, TakeMutex,
         DropLocks, Wait, Resume, PublishImm, Gc, WriteTable, WriteFails, Install, ApplyFails,
         PoisonSpreads
    <2>3. Busy' = Busy /\ Running' \subseteq Running
      BY <2>1 DEF Others, Busy, Running
    <2>4. Cardinality(Running') <= Cardinality(Running) /\ Cardinality(Running') \in Nat
      BY <1>0, <2>3, FS_Subset, FS_CardinalityType
    <2>5. QED
      BY <1>0, <2>2, <2>3, <2>4, MaxFlushesAssumption DEF FlowInv
  <1>5. QED
    BY <1>1, <1>2, <1>3, <1>4 DEF Next

-----------------------------------------------------------------------------
(* The theorems.                                                           *)

\* The inductive invariant.
PipelineIndInv == ShapeInv /\ QueueInv /\ LateInv /\ FlowInv

\* Every reachable state of the pipeline satisfies the invariant, whatever the
\* order in which jobs register, wait, are cancelled or panic.
THEOREM PipelineInvariance == Spec => []PipelineIndInv
  <1>1. Init => PipelineIndInv
    BY ShapeInit, QueueInit, LateInit, FlowInit DEF PipelineIndInv
  <1>2. PipelineIndInv /\ [Next]_vars => PipelineIndInv'
    BY ShapeNext, QueueNext, LateNext, FlowNext DEF PipelineIndInv
  <1>3. QED
    BY <1>1, <1>2, PTL DEF Spec

\* The pipeline keeps its types, and no more than max_background_flushes jobs
\* run at a time.
THEOREM PipelineTypes == Spec => []PipelineTypeOK
  <1>1. PipelineIndInv => PipelineTypeOK
    <2>1. SUFFICES ASSUME PipelineIndInv PROVE PipelineTypeOK
      OBVIOUS
    <2>2. flushing \in 0 .. Cardinality(Job)
      BY <2>1, BusyFinite DEF PipelineIndInv, FlowInv
    <2>3. Cardinality({f \in Job : pc[f].at \notin {"idle", "leave"}}) <= MaxFlushes
      BY <2>1 DEF PipelineIndInv, FlowInv, Running
    <2>4. QED
      BY <2>1, <2>2, <2>3 DEF PipelineIndInv, ShapeInv, PipeTypes, PipelineTypeOK
  <1>2. QED
    BY <1>1, PipelineInvariance, PTL

\* The collector set and the immutable tables are those of the jobs under way.
THEOREM QueuesAreExact == Spec => []QueuesExact
  <1>1. PipelineIndInv => QueuesExact
    BY DEF PipelineIndInv, QueueInv, Registered, NobodyElse, QueuesExact
  <1>2. QED
    BY <1>1, PipelineInvariance, PTL

\* The unreachable!() at the first rendezvous point is not reached.
THEOREM TablesHaveTheirBound == Spec => []OneTablePerBound
  <1>1. PipelineIndInv => OneTablePerBound
    BY DEF PipelineIndInv, QueueInv, PassedOnce, Passed, OneTablePerBound
  <1>2. QED
    BY <1>1, PipelineInvariance, PTL

\* What gc has removed from memory is in an immutable table or in a file.
THEOREM CleanedStaysFindable == Spec => []CleanedIsFindable
  <1>1. PipelineIndInv => CleanedIsFindable
    BY DEF PipelineIndInv, QueueInv
  <1>2. QED
    BY <1>1, PipelineInvariance, PTL

\* A job that registers before a greater bound is published is not overtaken.
THEOREM InTimeMeansInOrder == Spec => []OnlyLateJobsAreOvertaken
  <1>1. PipelineIndInv => OnlyLateJobsAreOvertaken
    <2>1. SUFFICES ASSUME PipelineIndInv, NEW f \in Job, Publishing(f), bound[f] < vsetMin
                   PROVE  f \in late
      BY DEF OnlyLateJobsAreOvertaken
    <2>2. bound[f] \in Nat /\ vsetMin \in Nat
      BY <2>1, MaxBoundAssumption DEF PipelineIndInv, ShapeInv, PipeTypes
    <2>3. QED
      BY <2>1, <2>2 DEF PipelineIndInv, LateInv
  <1>2. QED
    BY <1>1, PipelineInvariance, PTL
=============================================================================
