-------------------------- MODULE VersionSetProofs --------------------------
(***************************************************************************)
(* Proofs about VersionSet, for any options, keys, tables, and numbers of  *)
(* jobs, flushes and crashes.  IInv, the inductive invariant, consists of: *)
(*   ShapeInv, FlagsInv   the types;                                       *)
(*   CountInv             running_compactions counts jobs and refused      *)
(*                        requests;                                        *)
(*   DemandInv            what can be compacted is looked after;           *)
(*   OrderInv             the levels of the version and of the checkpoint  *)
(*                        are in order, level 0 strictly until a bound     *)
(*                        comes twice;                                     *)
(*   NumbersInv           levels, outputs of jobs and flushed tables hold  *)
(*                        files of different numbers;                      *)
(*   DiskInv              all of them have their table files;              *)
(*   FreshInv, Level0Inv, OwnInv   a mark is that of one job;              *)
(*   ClosedInv, ApartInv, OutInv   no file gets between the inputs of a    *)
(*                        job, jobs of one level are apart, and what they  *)
(*                        write lies between their inputs.                 *)
(* Order needs most of them: the edit of a compaction is applied to a      *)
(* version that other jobs have changed since its inputs were picked.      *)
(* LookupInv adds, for the refinement of StorageMap:                       *)
(*   OldestInv            a job on level 0 has the oldest tables of it;    *)
(*   ValueInv             no table but those of flushes under way has      *)
(*                        values later than the last one installed;        *)
(*   MergedInv            what a job has written and has yet to write are  *)
(*                        the newest pairs of its inputs;                  *)
(*   SameInv              the checkpoint has the files of the version.     *)
(***************************************************************************)
EXTENDS VersionSet, VersionProofs

(* The shape of the state. *)

InputSeqs == Seq(FileRec) \X Seq(FileRec)

\* A job has the fields of its position.
JobOK(c) ==
  \/ /\ c.pc \in {"none", "pick", "ask", "lower", "leave"}
     /\ c = [pc |-> c.pc]
  \/ /\ c.pc \in {"open", "dead"}
     /\ c = [pc |-> c.pc, level |-> c.level, ins |-> c.ins]
     /\ c.level \in 0 .. NumLevels - 2 /\ c.ins \in InputSeqs
  \/ /\ c.pc = "write"
     /\ c = [pc |-> "write", level |-> c.level, ins |-> c.ins, out |-> c.out, rest |-> c.rest]
     /\ c.level \in 0 .. NumLevels - 2 /\ c.ins \in InputSeqs
     /\ c.out \in Seq(FileRec) /\ DOMAIN c.rest \subseteq Keys

\* The flush jobs, and the bounds that their tables have taken.
FlushOK ==
  /\ pending \subseteq FileRec /\ IsFiniteSet(pending)
  /\ asking \in Nat /\ lowering \in Nat /\ crashes \in Nat
  /\ FlushJobs <= MaxFlushJobs
  /\ used \subseteq Ts /\ installed \in used \cup {0} /\ installed <= minXip
  /\ \A m \in pending : m.xip \in used \ {installed} /\ m.inf <= m.sup
  /\ \A m, n \in pending : m.xip = n.xip => m = n

ShapeInv ==
  /\ nextNum \in Nat /\ ckpt.nextNum \in Nat /\ ckpt.nextNum <= nextNum
  /\ minXip \in Ts \cup {0} /\ ckpt.minXip \in Ts \cup {0}
  /\ jobs = [j \in Jobs |-> jobs[j]]
  /\ \A j \in Jobs : JobOK(jobs[j])
  /\ FlushOK

FlagsInv == {l0Busy, poisoned, refused, twins} \subseteq BOOLEAN

\* The versions are in order, in a strict one before a bound has come twice,
\* and their tables of level 0 are not newer than their bounds.
OrderInv ==
  /\ InOrder(current) /\ InOrder(ckpt.files)
  /\ ~ twins => InStrictOrder(current) /\ InStrictOrder(ckpt.files)
  /\ \A f \in Range(current[0]) : f.xip <= minXip
  /\ \A f \in Range(ckpt.files[0]) : f.xip <= ckpt.minXip

-----------------------------------------------------------------------------
(* What the steps do to the files and to the jobs that work on them. *)

\* A job works on the inputs it worked on, and does not write.
SameWork(j) ==
  /\ Running(j)' <=> Running(j)
  /\ Running(j) => jobs'[j].level = jobs[j].level /\ jobs'[j].ins = jobs[j].ins
  /\ jobs'[j].pc = "write" => jobs'[j] = jobs[j]

\* Nothing at all.
Quiet ==
  /\ UNCHANGED <<current, l0Busy, minXip, ckpt, nextNum, disk, pending, used, installed, twins, stuck, crashes>>
  /\ \A j \in Jobs : SameWork(j)

Free(f) == f.busy = FALSE

\* A table file is written.
NewTable(m, pairs) ==
  /\ Free(m)
  /\ m \in FileRec /\ m.num = nextNum /\ m.inf <= m.sup /\ m.xip \in Ts \cup {0}
  /\ DOMAIN pairs \subseteq Keys
  /\ m.size = Cardinality(DOMAIN pairs) /\ \A k \in DOMAIN pairs : m.inf <= k /\ k <= m.sup
  /\ disk' = Written(nextNum, pairs)
  /\ nextNum' = nextNum + 1
  /\ UNCHANGED <<current, l0Busy, minXip, ckpt, stuck>>

TableWritten(m, pairs) ==
  /\ NewTable(m, pairs)
  /\ m.xip \in Ts \ used
  /\ pending' = pending \cup {m} /\ used' = used \cup {m.xip}
  /\ jobs' = jobs
  /\ UNCHANGED <<installed, twins, crashes>>
  /\ pairs = [k \in DOMAIN pairs |-> Value(m.xip)]

TableInstalled(m) ==
  /\ m \in pending /\ \A o \in pending : m.xip <= o.xip
  /\ m.xip >= minXip
  /\ Install(Applied(current, 0, <<m>>, {}, {}), m.xip)
  /\ pending' = pending \ {m} /\ installed' = m.xip
  /\ twins' = (twins \/ \E f \in Range(current[0]) : f.xip = m.xip)
  /\ jobs' = jobs
  /\ UNCHANGED <<l0Busy, nextNum, disk, used, stuck, crashes>>

Picked(j, level, f, ins) ==
  /\ jobs[j].pc = "pick"
  /\ level \in 0 .. NumLevels - 2
  /\ level = 0 => ~ l0Busy
  /\ f \in Range(current[level])
  /\ ~ AnyBusy(ins[1]) /\ ~ AnyBusy(ins[2])
  /\ InputsFit(current, level, f, ins)
  /\ jobs' = [jobs EXCEPT ![j] = [pc |-> "open", level |-> level, ins |-> ins]]
  /\ current' = Applied(current, level, <<>>, {}, Marks(level, ins))
  /\ l0Busy' = (l0Busy \/ level = 0)
  /\ UNCHANGED <<minXip, ckpt, nextNum, disk, pending, used, installed, twins, stuck, crashes>>

OutputWritten(j, m, keys) ==
  /\ jobs[j].pc = "write" /\ DOMAIN jobs[j].rest # {}
  /\ keys = OutputKeys(jobs[j].rest)
  /\ m = File(nextNum, Cardinality(keys), DefaultTs, Min(keys), Max(keys))
  /\ NewTable(m, Restrict(jobs[j].rest, keys))
  /\ jobs' = [jobs EXCEPT ![j] = [pc |-> "write", level |-> jobs[j].level, ins |-> jobs[j].ins,
                                 out |-> Append(jobs[j].out, m),
                                 rest |-> Restrict(jobs[j].rest, DOMAIN jobs[j].rest \ keys)]]
  /\ UNCHANGED <<pending, used, installed, twins, crashes>>

Opened(j) ==
  /\ jobs[j].pc = "open"
  /\ \A f \in Range(jobs[j].ins[1]) \cup Range(jobs[j].ins[2]) : disk[f.num].ok
  /\ jobs' = [jobs EXCEPT ![j] = [pc |-> "write", level |-> jobs[j].level, ins |-> jobs[j].ins,
                                 out |-> <<>>,
                                 rest |-> MergedPairs(jobs[j].level, jobs[j].ins, disk)]]
  /\ UNCHANGED <<current, l0Busy, minXip, ckpt, nextNum, disk, pending, used, installed, twins, stuck, crashes>>

Finalized(j) ==
  /\ jobs[j].pc = "write" /\ DOMAIN jobs[j].rest = {}
  /\ Install(Applied(current, jobs[j].level + 1, jobs[j].out, Marks(jobs[j].level, jobs[j].ins), {}), minXip)
  /\ l0Busy' = (l0Busy /\ jobs[j].level # 0)
  /\ jobs' = [jobs EXCEPT ![j] = [pc |-> "ask"]]
  /\ UNCHANGED <<nextNum, disk, pending, used, installed, twins, stuck, crashes>>

-----------------------------------------------------------------------------
(* The count of the flow control. *)

Active == {j \in Jobs : jobs[j].pc # "none"}
Lowering == {j \in Jobs : jobs[j].pc = "lower"}

\* running counts the jobs, and the requests that were refused and have not
\* been taken back yet.
CountInv == running = Cardinality(Active) + Cardinality(Lowering) + lowering

\* There are finitely many jobs, and so are those of a kind.
LEMMA JobsFinite ==
  /\ IsFiniteSet(Jobs) /\ Cardinality(Jobs) = MaxCompactions
  /\ \A S : S \subseteq Jobs => /\ IsFiniteSet(S) /\ Cardinality(S) \in Nat
                               /\ Cardinality(S) <= MaxCompactions
  <1>1. IsFiniteSet(Jobs) /\ Cardinality(Jobs) = MaxCompactions
    <2>1. MaxCompactions \in Int /\ MaxCompactions >= 1
      BY VersionSetAssumption
    <2>2. QED
      BY <2>1, FS_Interval DEF Jobs
  <1>2. ASSUME NEW S, S \subseteq Jobs
        PROVE  IsFiniteSet(S) /\ Cardinality(S) \in Nat /\ Cardinality(S) <= MaxCompactions
    BY <1>1, <1>2, FS_Subset, FS_CardinalityType
  <1>3. QED
    BY <1>1, <1>2

\* There are as many flush jobs as there are in all of their positions.
LEMMA FlushCounts ==
  ASSUME FlushOK
  PROVE  /\ Cardinality(pending) \in Nat /\ FlushJobs \in 0 .. MaxFlushJobs
         /\ lowering \in Nat /\ lowering <= MaxFlushJobs
         /\ FlushJobs = 0 => pending = {} /\ asking = 0
  <1>1. Cardinality(pending) \in Nat /\ (Cardinality(pending) = 0 => pending = {})
    BY FS_CardinalityType, FS_EmptySet DEF FlushOK
  <1>2. QED
    BY <1>1, VersionSetAssumption DEF FlushOK, FlushJobs

\* Every compaction job counts at most twice, every flush job at most once.
LEMMA CountBound ==
  ASSUME ShapeInv, CountInv PROVE running \in 0 .. 2 * MaxCompactions + MaxFlushJobs
  <1>1. /\ Cardinality(Active) \in Nat /\ Cardinality(Active) <= MaxCompactions
        /\ Cardinality(Lowering) \in Nat /\ Cardinality(Lowering) <= MaxCompactions
    BY JobsFinite DEF Active, Lowering
  <1>2. lowering \in Nat /\ lowering <= MaxFlushJobs
    BY FlushCounts DEF ShapeInv
  <1>3. QED
    BY <1>1, <1>2, VersionSetAssumption DEF CountInv

\* An admitted request finds an idle job.
LEMMA AdmittedFindsJob ==
  ASSUME ShapeInv, CountInv, Admitted PROVE IdleJobs # {}
  <1>1. SUFFICES ASSUME IdleJobs = {} PROVE FALSE
    OBVIOUS
  <1>2. Active = Jobs
    BY <1>1 DEF IdleJobs, Active
  <1>3. Cardinality(Active) = MaxCompactions /\ Cardinality(Lowering) \in Nat
    BY <1>2, JobsFinite DEF Lowering
  <1>4. QED
    BY <1>3, VersionSetAssumption DEF CountInv, Admitted, ShapeInv, FlushOK

\* A request for a compaction makes an idle job pick, or is refused.
LEMMA Scheduled ==
  ASSUME ShapeInv, CountInv, NEW js, Schedule(js)
  PROVE  /\ running' = running + 1 /\ refused' = ~ Admitted
         /\ Admitted => \E i \in Jobs : jobs[i].pc = "none" /\ jobs' = [js EXCEPT ![i] = [pc |-> "pick"]]
         /\ ~ Admitted => jobs' = js
  <1>1. ASSUME Admitted
        PROVE  \E i \in Jobs : jobs[i].pc = "none" /\ jobs' = [js EXCEPT ![i] = [pc |-> "pick"]]
    <2>1. (CHOOSE j \in IdleJobs : TRUE) \in IdleJobs
      BY <1>1, AdmittedFindsJob
    <2>2. QED
      BY <1>1, <2>1 DEF Schedule, IdleJobs
  <1>2. QED
    BY <1>1 DEF Schedule

-----------------------------------------------------------------------------
(* The steps, by what they do to the jobs. *)

JobTo(j, c) == jobs' = [jobs EXCEPT ![j] = c]

\* A job that asks, or a flush: what becomes of the jobs.
LEMMA AskSteps ==
  ASSUME ShapeInv, CountInv, NEW j \in Jobs, Ask(j)
  PROVE  /\ jobs[j] = [pc |-> "ask"]
         /\ running' = running + 1 /\ refused' = ~ Admitted
         /\ Admitted => \E i \in Jobs : /\ i # j /\ jobs[i].pc = "none"
                                       /\ jobs' = [jobs EXCEPT ![j] = [pc |-> "leave"], ![i] = [pc |-> "pick"]]
         /\ ~ Admitted => JobTo(j, [pc |-> "lower"])
  <1>1. jobs[j] = [pc |-> "ask"] /\ jobs = [i \in Jobs |-> jobs[i]]
    BY DEF Ask, ShapeInv, JobOK
  <1>2. Schedule([jobs EXCEPT ![j].pc = IF Admitted THEN "leave" ELSE "lower"])
    BY DEF Ask
  <1> DEFINE js == [jobs EXCEPT ![j].pc = IF Admitted THEN "leave" ELSE "lower"]
  <1>3. js = [jobs EXCEPT ![j] = [pc |-> IF Admitted THEN "leave" ELSE "lower"]]
    <2>1. [jobs[j] EXCEPT !.pc = IF Admitted THEN "leave" ELSE "lower"] =
              [pc |-> IF Admitted THEN "leave" ELSE "lower"]
      BY <1>1
    <2>2. QED
      BY <2>1
  <1>4. Schedule(js)
    BY <1>2
  <1> HIDE DEF js
  <1>5. /\ running' = running + 1 /\ refused' = ~ Admitted
        /\ Admitted => \E i \in Jobs : jobs[i].pc = "none" /\ jobs' = [js EXCEPT ![i] = [pc |-> "pick"]]
        /\ ~ Admitted => jobs' = js
    BY <1>4, Scheduled
  <1>6. ASSUME Admitted
        PROVE  \E i \in Jobs : /\ i # j /\ jobs[i].pc = "none"
                               /\ jobs' = [jobs EXCEPT ![j] = [pc |-> "leave"], ![i] = [pc |-> "pick"]]
    <2>1. PICK i \in Jobs : jobs[i].pc = "none" /\ jobs' = [js EXCEPT ![i] = [pc |-> "pick"]]
      BY <1>5, <1>6
    <2>2. i # j
      BY <1>1, <2>1
    <2>3. QED
      BY <1>3, <1>6, <2>1, <2>2
  <1>7. QED
    BY <1>1, <1>3, <1>5, <1>6 DEF JobTo

\* The position of one job changes.
PcTo(j, p) == \A i \in Jobs : jobs'[i].pc = IF i = j THEN p ELSE jobs[i].pc

\* A job that goes on to c has the position of c.
LEMMA JobToPc ==
  ASSUME ShapeInv, NEW j \in Jobs, NEW c, JobTo(j, c) PROVE PcTo(j, c.pc)
  BY DEF ShapeInv, JobTo, PcTo

\* What the steps of a job make of its position and of the counter.
LEMMA JobSteps ==
  ASSUME ShapeInv, NEW j \in Jobs
  PROVE  /\ Pick(j) => jobs[j].pc = "pick" /\ (PcTo(j, "leave") \/ PcTo(j, "open"))
         /\ Open(j) => jobs[j].pc = "open" /\ (PcTo(j, "write") \/ PcTo(j, "dead"))
         /\ WriteOutput(j) => jobs[j].pc = "write" /\ PcTo(j, "write")
         /\ Finalize(j) => jobs[j].pc = "write" /\ JobTo(j, [pc |-> "ask"])
         /\ Lower(j) => jobs[j].pc = "lower" /\ JobTo(j, [pc |-> "leave"])
         /\ Leave(j) => jobs[j].pc = "leave" /\ JobTo(j, [pc |-> "none"])
  <1>1. JobOK(jobs[j]) /\ jobs = [i \in Jobs |-> jobs[i]]
    BY DEF ShapeInv
  <1>2. ASSUME Pick(j) PROVE jobs[j].pc = "pick" /\ (PcTo(j, "leave") \/ PcTo(j, "open"))
    <2>1. /\ jobs[j].pc = "pick"
          /\ \/ JobTo(j, [pc |-> "leave"])
             \/ \E level, ins : JobTo(j, [pc |-> "open", level |-> level, ins |-> ins])
      BY <1>2 DEF Pick, JobTo
    <2>2. CASE JobTo(j, [pc |-> "leave"])
      BY <2>1, <2>2, JobToPc
    <2>3. ASSUME NEW level, NEW ins, JobTo(j, [pc |-> "open", level |-> level, ins |-> ins])
          PROVE  PcTo(j, "open")
      BY <2>3, JobToPc
    <2>4. QED
      BY <2>1, <2>2, <2>3
  <1>3. ASSUME Open(j) PROVE jobs[j].pc = "open" /\ (PcTo(j, "write") \/ PcTo(j, "dead"))
    <2>1. jobs[j].pc = "open" /\ jobs[j] = [pc |-> "open", level |-> jobs[j].level, ins |-> jobs[j].ins]
      BY <1>1, <1>3 DEF Open, JobOK
    <2>2. [jobs[j] EXCEPT !.pc = "dead"].pc = "dead"
      BY <2>1
    <2>3. \/ JobTo(j, [jobs[j] EXCEPT !.pc = "dead"])
          \/ \E level, ins, rest :
               JobTo(j, [pc |-> "write", level |-> level, ins |-> ins, out |-> <<>>, rest |-> rest])
      BY <1>3 DEF Open, JobTo
    <2>4. CASE JobTo(j, [jobs[j] EXCEPT !.pc = "dead"])
      BY <2>1, <2>2, <2>4, JobToPc
    <2>5. ASSUME NEW level, NEW ins, NEW rest,
                 JobTo(j, [pc |-> "write", level |-> level, ins |-> ins, out |-> <<>>, rest |-> rest])
          PROVE  PcTo(j, "write")
      BY <2>5, JobToPc
    <2>6. QED
      BY <2>1, <2>3, <2>4, <2>5
  <1>4. ASSUME WriteOutput(j) PROVE jobs[j].pc = "write" /\ PcTo(j, "write")
    <2>1. jobs[j].pc = "write" /\ "pc" \in DOMAIN jobs[j]
      BY <1>1, <1>4 DEF WriteOutput, JobOK
    <2>2. PICK r, o : jobs' = [jobs EXCEPT ![j].rest = r, ![j].out = o]
      BY <1>4 DEF WriteOutput
    <2>3. jobs'[j].pc = jobs[j].pc /\ \A i \in Jobs : i # j => jobs'[i] = jobs[i]
      BY <1>1, <2>1, <2>2
    <2>4. QED
      BY <2>1, <2>3 DEF PcTo
  <1>5. ASSUME Finalize(j) PROVE jobs[j].pc = "write" /\ JobTo(j, [pc |-> "ask"])
    BY <1>5 DEF Finalize, JobTo
  <1>6. ASSUME Lower(j) PROVE jobs[j].pc = "lower" /\ JobTo(j, [pc |-> "leave"])
    <2>1. jobs[j] = [pc |-> "lower"]
      BY <1>1, <1>6 DEF Lower, JobOK
    <2>2. [jobs[j] EXCEPT !.pc = "leave"] = [pc |-> "leave"]
      BY <2>1
    <2>3. QED
      BY <1>6, <2>2 DEF Lower, JobTo
  <1>7. ASSUME Leave(j) PROVE jobs[j].pc = "leave" /\ JobTo(j, [pc |-> "none"])
    BY <1>7 DEF Leave, JobTo, NoJob
  <1>8. QED
    BY <1>2, <1>3, <1>4, <1>5, <1>6, <1>7

\* What one job more or less adds.
LEMMA OneMore ==
  ASSUME NEW S, NEW T, S \subseteq Jobs, T \subseteq Jobs, NEW j \in Jobs, j \notin S, T = S \cup {j}
  PROVE  Cardinality(T) = Cardinality(S) + 1 /\ Cardinality(S) \in Nat
  BY JobsFinite, FS_AddElement

\* The counter is kept: who raises it joins, and who lowers it leaves.
LEMMA CountStep ==
  ASSUME ShapeInv, CountInv, [Next]_vars
  PROVE  CountInv'
  <1>1. /\ Active \subseteq Jobs /\ Lowering \subseteq Jobs
        /\ Active' \subseteq Jobs /\ Lowering' \subseteq Jobs
    BY DEF Active, Lowering, Jobs
  <1>2. Cardinality(Active) \in Nat /\ Cardinality(Lowering) \in Nat /\ lowering \in Nat
    BY <1>1, JobsFinite DEF ShapeInv, FlushOK
  <1>3. ASSUME Active' = Active, Lowering' = Lowering, lowering' = lowering, running' = running
        PROVE  CountInv'
    BY <1>3 DEF CountInv
  <1>4. ASSUME NEW j \in Jobs, NEW p, PcTo(j, p), jobs[j].pc \notin {"none", "lower"}, p \notin {"none", "lower"},
               UNCHANGED <<running, lowering>>
        PROVE  CountInv'
    BY <1>3, <1>4 DEF PcTo, Active, Lowering
  <1>5. CASE WriteTable
    BY <1>3, <1>5 DEF WriteTable, Active, Lowering
  <1>6. ASSUME NEW m, InstallTable(m) \/ AssertionFails(m) PROVE CountInv'
    BY <1>3, <1>6 DEF InstallTable, AssertionFails, flushVars, Active, Lowering
  <1>7. CASE FlushAsks
    <2>1. /\ running' = running + 1
          /\ Admitted => \E i \in Jobs : jobs[i].pc = "none" /\ JobTo(i, [pc |-> "pick"])
          /\ ~ Admitted => jobs' = jobs
      BY <1>7, Scheduled DEF FlushAsks, JobTo
    <2>2. CASE Admitted
      <3>1. PICK i \in Jobs : jobs[i].pc = "none" /\ PcTo(i, "pick")
        BY <2>1, <2>2, JobToPc
      <3>2. Active' = Active \cup {i} /\ i \notin Active /\ Lowering' = Lowering
        BY <3>1 DEF Active, Lowering, PcTo
      <3>3. Cardinality(Active') = Cardinality(Active) + 1
        BY <1>1, <3>2, OneMore
      <3>4. lowering' = lowering
        BY <1>7, <2>2 DEF FlushAsks
      <3>5. QED
        BY <1>2, <2>1, <3>2, <3>3, <3>4 DEF CountInv
    <2>3. CASE ~ Admitted
      <3>1. Active' = Active /\ Lowering' = Lowering
        BY <2>1, <2>3 DEF Active, Lowering
      <3>2. lowering' = lowering + 1
        BY <1>7, <2>3 DEF FlushAsks
      <3>3. QED
        BY <1>2, <2>1, <3>1, <3>2 DEF CountInv
    <2>4. QED
      BY <2>2, <2>3
  <1>8. CASE FlushLowers
    <2>1. Active' = Active /\ Lowering' = Lowering /\ running' = running - 1
      BY <1>8 DEF FlushLowers, Active, Lowering
    <2>2. lowering' = lowering - 1
      BY <1>8 DEF FlushLowers
    <2>3. QED
      BY <1>2, <2>1, <2>2 DEF CountInv
  <1>9. ASSUME NEW j \in Jobs, Pick(j) PROVE CountInv'
    <2>1. jobs[j].pc = "pick" /\ (PcTo(j, "leave") \/ PcTo(j, "open"))
      BY <1>9, JobSteps
    <2>2. UNCHANGED <<running, lowering>>
      BY <1>9 DEF Pick, flushVars
    <2>3. QED
      BY <1>4, <2>1, <2>2
  <1>10. ASSUME NEW j \in Jobs, Open(j) PROVE CountInv'
    <2>1. jobs[j].pc = "open" /\ (PcTo(j, "write") \/ PcTo(j, "dead"))
      BY <1>10, JobSteps
    <2>2. UNCHANGED <<running, lowering>>
      BY <1>10 DEF Open, flushVars
    <2>3. QED
      BY <1>4, <2>1, <2>2
  <1>11. ASSUME NEW j \in Jobs, WriteOutput(j) PROVE CountInv'
    <2>1. jobs[j].pc = "write" /\ PcTo(j, "write")
      BY <1>11, JobSteps
    <2>2. UNCHANGED <<running, lowering>>
      BY <1>11 DEF WriteOutput, flushVars
    <2>3. QED
      BY <1>4, <2>1, <2>2
  <1>12. ASSUME NEW j \in Jobs, Finalize(j) PROVE CountInv'
    <2>1. jobs[j].pc = "write" /\ PcTo(j, "ask")
      BY <1>12, JobSteps, JobToPc
    <2>2. UNCHANGED <<running, lowering>>
      BY <1>12 DEF Finalize, flushVars
    <2>3. QED
      BY <1>4, <2>1, <2>2
  <1>13. ASSUME NEW j \in Jobs, Ask(j) PROVE CountInv'
    <2>1. /\ jobs[j] = [pc |-> "ask"] /\ running' = running + 1
          /\ Admitted => \E i \in Jobs : /\ i # j /\ jobs[i].pc = "none"
                                        /\ jobs' = [jobs EXCEPT ![j] = [pc |-> "leave"], ![i] = [pc |-> "pick"]]
          /\ ~ Admitted => JobTo(j, [pc |-> "lower"])
      BY <1>13, AskSteps
    <2>2. lowering' = lowering /\ jobs = [i \in Jobs |-> jobs[i]]
      BY <1>13 DEF Ask, flushVars, ShapeInv
    <2>3. CASE Admitted
      <3>1. PICK i \in Jobs : /\ i # j /\ jobs[i].pc = "none"
                              /\ jobs' = [jobs EXCEPT ![j] = [pc |-> "leave"], ![i] = [pc |-> "pick"]]
        BY <2>1, <2>3
      <3>2. \A k \in Jobs : jobs'[k].pc = IF k = i THEN "pick" ELSE IF k = j THEN "leave" ELSE jobs[k].pc
        BY <2>2, <3>1
      <3>3. Active' = Active \cup {i} /\ i \notin Active /\ Lowering' = Lowering
        <4>1. jobs[j].pc = "ask" /\ jobs[i].pc = "none"
          BY <2>1, <3>1
        <4>2. Active' = Active \cup {i} /\ i \notin Active
          BY <3>2, <4>1 DEF Active
        <4>3. Lowering' = Lowering
          BY <3>2, <4>1 DEF Lowering
        <4>4. QED
          BY <4>2, <4>3
      <3>4. Cardinality(Active') = Cardinality(Active) + 1
        BY <1>1, <3>3, OneMore
      <3>5. QED
        BY <1>2, <2>1, <2>2, <3>3, <3>4 DEF CountInv
    <2>4. CASE ~ Admitted
      <3>1. PcTo(j, "lower")
        BY <2>1, <2>4, JobToPc
      <3>2. Lowering' = Lowering \cup {j} /\ j \notin Lowering /\ Active' = Active
        BY <2>1, <3>1 DEF Active, Lowering, PcTo
      <3>3. Cardinality(Lowering') = Cardinality(Lowering) + 1
        BY <1>1, <3>2, OneMore
      <3>4. QED
        BY <1>2, <2>1, <2>2, <3>2, <3>3 DEF CountInv
    <2>5. QED
      BY <2>3, <2>4
  <1>14. ASSUME NEW j \in Jobs, Lower(j) PROVE CountInv'
    <2>1. jobs[j].pc = "lower" /\ PcTo(j, "leave")
      BY <1>14, JobSteps, JobToPc
    <2>2. running' = running - 1 /\ lowering' = lowering
      BY <1>14 DEF Lower, flushVars
    <2>3. Lowering = Lowering' \cup {j} /\ j \notin Lowering' /\ Active' = Active
      BY <2>1 DEF Active, Lowering, PcTo
    <2>4. Cardinality(Lowering) = Cardinality(Lowering') + 1 /\ Cardinality(Lowering') \in Nat
      BY <1>1, <2>3, OneMore
    <2>5. QED
      BY <1>2, <2>2, <2>3, <2>4 DEF CountInv
  <1>15. ASSUME NEW j \in Jobs, Leave(j) PROVE CountInv'
    <2>1. jobs[j].pc = "leave" /\ PcTo(j, "none")
      BY <1>15, JobSteps, JobToPc
    <2>2. running' = running - 1 /\ lowering' = lowering
      BY <1>15 DEF Leave, flushVars
    <2>3. Active = Active' \cup {j} /\ j \notin Active' /\ Lowering' = Lowering
      BY <2>1 DEF Active, Lowering, PcTo
    <2>4. Cardinality(Active) = Cardinality(Active') + 1 /\ Cardinality(Active') \in Nat
      BY <1>1, <2>3, OneMore
    <2>5. QED
      BY <1>2, <2>2, <2>3, <2>4 DEF CountInv
  <1>16. CASE CrashAndRestart
    <2>1. Active' = {} /\ Lowering' = {} /\ lowering' = 0 /\ running' = 0
      BY <1>16 DEF CrashAndRestart, Active, Lowering, NoJob
    <2>2. QED
      BY <2>1, FS_EmptySet DEF CountInv
  <1>17. CASE UNCHANGED vars
    BY <1>3, <1>17 DEF vars, flushVars, Active, Lowering
  <1>18. QED
    BY <1>5, <1>6, <1>7, <1>8, <1>9, <1>10, <1>11, <1>12, <1>13, <1>14, <1>15, <1>16, <1>17 DEF Next

-----------------------------------------------------------------------------
(* Who will look for a level to compact. *)

Demanding == {"pick", "open", "write", "ask", "dead"}

\* There is nothing to compact, or someone will look, or was refused.
DemandInv ==
  \/ PickableLevels(current, l0Busy) = {}
  \/ refused
  \/ installed = 0
  \/ pending # {} \/ asking > 0
  \/ \E j \in Jobs : jobs[j].pc \in Demanding

\* Someone looks after what is left: whoever makes work asks for a
\* compaction, and an admitted request is a job that will look.
LEMMA DemandStep ==
  ASSUME ShapeInv, CountInv, DemandInv, [Next]_vars
  PROVE  DemandInv'
  <1>1. ASSUME NEW j \in Jobs, NEW p \in Demanding, PcTo(j, p) PROVE DemandInv'
    BY <1>1 DEF PcTo, DemandInv
  <1>2. ASSUME NEW j \in Jobs, jobs[j].pc \notin Demanding, NEW p, PcTo(j, p),
               UNCHANGED <<current, l0Busy, refused, installed, pending, asking>>
        PROVE  DemandInv'
    BY <1>2 DEF PcTo, DemandInv
  <1>3. CASE WriteTable
    BY <1>3 DEF WriteTable, DemandInv
  <1>4. ASSUME NEW m, InstallTable(m) \/ AssertionFails(m) PROVE DemandInv'
    <2>1. CASE InstallTable(m)
      BY <2>1 DEF InstallTable, DemandInv, ShapeInv, FlushOK
    <2>2. CASE AssertionFails(m)
      BY <2>2 DEF AssertionFails, DemandInv, flushVars, history
    <2>3. QED
      BY <1>4, <2>1, <2>2
  <1>5. CASE FlushAsks
    <2>1. /\ refused' = ~ Admitted
          /\ Admitted => \E i \in Jobs : jobs[i].pc = "none" /\ JobTo(i, [pc |-> "pick"])
      BY <1>5, Scheduled DEF FlushAsks, JobTo
    <2>2. CASE Admitted
      <3>1. PICK i \in Jobs : PcTo(i, "pick")
        BY <2>1, <2>2, JobToPc
      <3>2. QED
        BY <1>1, <3>1 DEF Demanding
    <2>3. CASE ~ Admitted
      BY <2>1, <2>3 DEF DemandInv
    <2>4. QED
      BY <2>2, <2>3
  <1>6. CASE FlushLowers
    BY <1>6 DEF FlushLowers, DemandInv, vsetVars, history
  <1>7. ASSUME NEW j \in Jobs, Pick(j) PROVE DemandInv'
    <2>1. CASE PickableLevels(current, l0Busy) = {}
      <3>1. UNCHANGED <<current, l0Busy>>
        BY <1>7, <2>1 DEF Pick
      <3>2. QED
        BY <2>1, <3>1 DEF DemandInv
    <2>2. CASE PickableLevels(current, l0Busy) # {}
      <3>1. \E level, ins : JobTo(j, [pc |-> "open", level |-> level, ins |-> ins])
        BY <1>7, <2>2 DEF Pick, JobTo
      <3>2. ASSUME NEW level, NEW ins, JobTo(j, [pc |-> "open", level |-> level, ins |-> ins])
            PROVE  PcTo(j, "open")
        BY <3>2, JobToPc
      <3>3. QED
        BY <1>1, <3>1, <3>2 DEF Demanding
    <2>3. QED
      BY <2>1, <2>2
  <1>8. ASSUME NEW j \in Jobs, Open(j) PROVE DemandInv'
    BY <1>1, <1>8, JobSteps DEF Demanding
  <1>9. ASSUME NEW j \in Jobs, WriteOutput(j) PROVE DemandInv'
    BY <1>1, <1>9, JobSteps DEF Demanding
  <1>10. ASSUME NEW j \in Jobs, Finalize(j) PROVE DemandInv'
    <2>1. PcTo(j, "ask")
      BY <1>10, JobSteps, JobToPc
    <2>2. QED
      BY <1>1, <2>1 DEF Demanding
  <1>11. ASSUME NEW j \in Jobs, Ask(j) PROVE DemandInv'
    <2>1. /\ jobs[j] = [pc |-> "ask"] /\ refused' = ~ Admitted
          /\ Admitted => \E i \in Jobs : /\ i # j /\ jobs[i].pc = "none"
                                        /\ jobs' = [jobs EXCEPT ![j] = [pc |-> "leave"], ![i] = [pc |-> "pick"]]
      BY <1>11, AskSteps
    <2>2. jobs = [i \in Jobs |-> jobs[i]]
      BY DEF ShapeInv
    <2>3. CASE Admitted
      <3>1. PICK i \in Jobs : jobs' = [jobs EXCEPT ![j] = [pc |-> "leave"], ![i] = [pc |-> "pick"]]
        BY <2>1, <2>3
      <3>2. jobs'[i].pc = "pick"
        BY <2>2, <3>1
      <3>3. QED
        BY <3>2 DEF DemandInv, Demanding
    <2>4. CASE ~ Admitted
      BY <2>1, <2>4 DEF DemandInv
    <2>5. QED
      BY <2>3, <2>4
  <1>12. ASSUME NEW j \in Jobs, Lower(j) PROVE DemandInv'
    <2>1. jobs[j].pc = "lower" /\ PcTo(j, "leave")
      BY <1>12, JobSteps, JobToPc
    <2>2. UNCHANGED <<current, l0Busy, refused, installed, pending, asking>>
      BY <1>12 DEF Lower, vsetVars, flushVars, history
    <2>3. QED
      BY <1>2, <2>1, <2>2 DEF Demanding
  <1>13. ASSUME NEW j \in Jobs, Leave(j) PROVE DemandInv'
    <2>1. jobs[j].pc = "leave" /\ PcTo(j, "none")
      BY <1>13, JobSteps, JobToPc
    <2>2. UNCHANGED <<current, l0Busy, refused, installed, pending, asking>>
      BY <1>13 DEF Leave, vsetVars, flushVars, history
    <2>3. QED
      BY <1>2, <2>1, <2>2 DEF Demanding
  <1>14. CASE CrashAndRestart
    BY <1>14 DEF CrashAndRestart, DemandInv
  <1>15. CASE UNCHANGED vars
    BY <1>15 DEF vars, vsetVars, flushVars, history, DemandInv
  <1>16. QED
    BY <1>3, <1>4, <1>5, <1>6, <1>7, <1>8, <1>9, <1>10, <1>11, <1>12, <1>13, <1>14, <1>15 DEF Next

\* When everything has come to rest nobody is left who could look.
LEMMA DemandMet ==
  ASSUME ShapeInv, DemandInv PROVE NothingLeftToCompact
  BY FlushCounts DEF ShapeInv, DemandInv, NothingLeftToCompact, NoJob, Demanding

-----------------------------------------------------------------------------
(* Every step is one of those above. *)

HasFields(m, num, size, xip, inf, sup) ==
  m \in FileRec /\ m.num = num /\ m.size = size /\ m.xip = xip /\ m.inf = inf /\ m.sup = sup

\* A file record has the fields that it was made of ...
LEMMA FileProperties ==
  ASSUME NEW num \in Nat, NEW size \in Nat, NEW xip \in Nat, NEW inf \in Int, NEW sup \in Int
  PROVE  HasFields(File(num, size, xip, inf, sup), num, size, xip, inf, sup)
  BY DEF File, FileRec, HasFields

\* ... and is not marked.
LEMMA FileFree ==
  ASSUME NEW num, NEW size, NEW xip, NEW inf, NEW sup
  PROVE  Free(File(num, size, xip, inf, sup))
  BY DEF File, Free

\* write_level0_table is a TableWritten.
LEMMA WriteTableStep ==
  ASSUME ShapeInv, WriteTable
  PROVE  \E m, pairs : TableWritten(m, pairs)
  <1>1. PICK t \in Tables, b \in Ts \ used :
           /\ pending' = pending \cup {File(nextNum, Cardinality(t.puts), b,
                                            Min(t.puts \cup t.dels), Max(t.puts \cup t.dels))}
           /\ disk' = Written(nextNum, [k \in t.puts |-> Value(b)])
           /\ used' = used \cup {b}
    BY DEF WriteTable
  <1> DEFINE keys == t.puts \cup t.dels
             m == File(nextNum, Cardinality(t.puts), b, Min(keys), Max(keys))
             pairs == [k \in t.puts |-> Value(b)]
  <1>2. keys \subseteq Keys /\ keys # {} /\ Keys \subseteq Int /\ IsFiniteSet(Keys)
    BY VersionSetAssumption
  <1>3. IsFiniteSet(keys) /\ IsFiniteSet(t.puts) /\ keys \subseteq Int
    BY <1>2, FS_Subset
  <1>4. Cardinality(t.puts) \in Nat
    BY <1>3, FS_CardinalityType
  <1>5. /\ Min(keys) \in Int /\ Max(keys) \in Int /\ Min(keys) <= Max(keys)
        /\ \A k \in t.puts : Min(keys) <= k /\ k <= Max(keys)
    <2>1. \A k \in t.puts : k \in keys
      OBVIOUS
    <2> HIDE DEF keys
    <2>2. QED
      BY <1>2, <1>3, <2>1, MinAndMax
  <1>6. b \in Ts /\ b \in Nat /\ b # 0 /\ nextNum \in Nat
    BY VersionSetAssumption DEF ShapeInv, Ts
  <1>7. DOMAIN pairs = t.puts /\ t.puts \subseteq Keys
    BY <1>2
  <1> HIDE DEF keys
  <1>8. /\ Free(m) /\ m \in FileRec /\ m.num = nextNum /\ m.size = Cardinality(t.puts)
        /\ m.xip = b /\ m.inf = Min(keys) /\ m.sup = Max(keys)
    <2>1. Free(m)
      BY FileFree
    <2>2. HasFields(m, nextNum, Cardinality(t.puts), b, Min(keys), Max(keys))
      BY <1>4, <1>5, <1>6, FileProperties
    <2>3. QED
      BY <2>1, <2>2 DEF HasFields
  <1>9. pending' = pending \cup {m} /\ disk' = Written(nextNum, pairs)
    BY <1>1 DEF keys
  <1>14. pairs = [k \in DOMAIN pairs |-> Value(b)] /\ UNCHANGED <<installed, twins, crashes>>
    BY <1>7 DEF WriteTable
  <1> HIDE DEF m, pairs
  <1>10. /\ nextNum' = nextNum + 1 /\ jobs' = jobs
         /\ UNCHANGED <<current, l0Busy, minXip, ckpt, stuck>>
    BY DEF WriteTable, vsetVars
  <1>11. NewTable(m, pairs)
    BY <1>5, <1>6, <1>7, <1>8, <1>9, <1>10 DEF NewTable
  <1>12. TableWritten(m, pairs)
    BY <1>1, <1>6, <1>8, <1>9, <1>10, <1>11, <1>14 DEF TableWritten
  <1>13. QED
    BY <1>12

\* pick_compaction finds nothing, or is a Picked.
LEMMA PickStep ==
  ASSUME OrderInv, NEW j \in Jobs, Pick(j)
  PROVE  \/ /\ JobTo(j, [pc |-> "leave"])
            /\ UNCHANGED <<current, l0Busy>>
         \/ \E level, f, ins : Picked(j, level, f, ins)
  <1> DEFINE P == PickableLevels(current, l0Busy)
             level == Min(P)
             f == StartFile(current, level)
             ins == InputsFrom(current, level, f)
  <1>1. CASE P = {}
    BY <1>1 DEF Pick, JobTo
  <1>2. CASE P # {}
    <2>1. InOrder(current)
      BY DEF OrderInv
    <2>2. /\ level \in 0 .. NumLevels - 2
          /\ level = 0 => ~ l0Busy
          /\ f \in Range(current[level])
          /\ ~ AnyBusy(ins[1]) /\ ~ AnyBusy(ins[2])
          /\ InputsFit(current, level, f, ins)
      BY <1>2, <2>1, PickProperties
    <2>3. /\ jobs[j].pc = "pick"
          /\ jobs' = [jobs EXCEPT ![j] = [pc |-> "open", level |-> level, ins |-> ins]]
          /\ current' = Registered(level, ins)
          /\ l0Busy' = (l0Busy \/ level = 0)
      BY <1>2 DEF Pick
    <2>4. UNCHANGED <<minXip, ckpt, nextNum, disk, pending, used, installed, twins, stuck, crashes>>
      BY DEF Pick, fileVars, flushVars, history
    <2> HIDE DEF P, level, f, ins
    <2>5. Picked(j, level, f, ins)
      BY <2>2, <2>3, <2>4 DEF Picked, Registered
    <2>6. QED
      BY <2>5
  <1>3. QED
    BY <1>1, <1>2

\* The files of a concatenation.
LEMMA BothParts ==
  ASSUME NEW s \in Seq(FileRec), NEW u \in Seq(FileRec), NEW f \in Range(s) \cup Range(u)
  PROVE  \E i \in DOMAIN (s \o u) : (s \o u)[i] = f
  <1>1. /\ DOMAIN (s \o u) = 1 .. Len(s) + Len(u)
        /\ DOMAIN s = 1 .. Len(s) /\ DOMAIN u = 1 .. Len(u) /\ Len(s) \in Nat /\ Len(u) \in Nat
    BY LenProperties, ConcatProperties
  <1>2. CASE f \in Range(s)
    <2>1. PICK i \in DOMAIN s : f = s[i]
      BY <1>2 DEF Range
    <2>2. i \in DOMAIN (s \o u) /\ (s \o u)[i] = f
      BY <1>1, <2>1, ConcatProperties
    <2>3. QED
      BY <2>2
  <1>3. CASE f \in Range(u)
    <2>1. PICK i \in DOMAIN u : f = u[i]
      BY <1>3 DEF Range
    <2>2. /\ i + Len(s) \in DOMAIN (s \o u) /\ i + Len(s) > Len(s)
          /\ i + Len(s) - Len(s) = i
      BY <1>1, <2>1
    <2>3. (s \o u)[i + Len(s)] = f
      BY <1>1, <2>1, <2>2, ConcatProperties
    <2>4. QED
      BY <2>2, <2>3
  <1>4. QED
    BY <1>2, <1>3

\* What the shape of a job says where it works on files.
LEMMA OpenJob ==
  ASSUME NEW c, JobOK(c), c.pc \in {"open", "dead"}
  PROVE  c = [pc |-> c.pc, level |-> c.level, ins |-> c.ins]
         /\ c.level \in 0 .. NumLevels - 2 /\ c.ins \in InputSeqs
  BY DEF JobOK

\* The same of a job that writes.
LEMMA WriteJob ==
  ASSUME NEW c, JobOK(c), c.pc = "write"
  PROVE  /\ c = [pc |-> "write", level |-> c.level, ins |-> c.ins, out |-> c.out, rest |-> c.rest]
         /\ c.level \in 0 .. NumLevels - 2 /\ c.ins \in InputSeqs
         /\ c.out \in Seq(FileRec) /\ DOMAIN c.rest \subseteq Keys
  BY DEF JobOK

\* make_input_iterator fails, or is an Opened.
LEMMA OpenStep ==
  ASSUME ShapeInv, NEW j \in Jobs, Open(j)
  PROVE  \/ JobTo(j, [pc |-> "dead", level |-> jobs[j].level, ins |-> jobs[j].ins])
         \/ Opened(j)
  <1> DEFINE c == jobs[j]
  <1>1. c.pc = "open" /\ JobOK(c)
    BY DEF Open, ShapeInv
  <1>2. c = [pc |-> "open", level |-> c.level, ins |-> c.ins] /\ c.ins \in InputSeqs
    BY <1>1, OpenJob
  <1>3. [c EXCEPT !.pc = "dead"] = [pc |-> "dead", level |-> c.level, ins |-> c.ins]
    BY <1>2
  <1>4. \/ jobs' = [jobs EXCEPT ![j] = [c EXCEPT !.pc = "dead"]]
        \/ /\ \A i \in DOMAIN Inputs(j) : disk[Inputs(j)[i].num].ok
           /\ jobs' = [jobs EXCEPT ![j] = [pc |-> "write", level |-> c.level, ins |-> c.ins, out |-> <<>>,
                                          rest |-> MergedPairs(c.level, c.ins, disk)]]
    BY DEF Open
  <1>5. CASE jobs' = [jobs EXCEPT ![j] = [c EXCEPT !.pc = "dead"]]
    BY <1>3, <1>5 DEF JobTo
  <1>6. CASE /\ \A i \in DOMAIN Inputs(j) : disk[Inputs(j)[i].num].ok
             /\ jobs' = [jobs EXCEPT ![j] = [pc |-> "write", level |-> c.level, ins |-> c.ins, out |-> <<>>,
                                            rest |-> MergedPairs(c.level, c.ins, disk)]]
    <2>1. c.ins[1] \in Seq(FileRec) /\ c.ins[2] \in Seq(FileRec)
      BY <1>2 DEF InputSeqs
    <2>2. Inputs(j) = c.ins[1] \o c.ins[2]
      BY DEF Inputs
    <2>3. \A f \in Range(c.ins[1]) \cup Range(c.ins[2]) : disk[f.num].ok
      <3>1. SUFFICES ASSUME NEW f \in Range(c.ins[1]) \cup Range(c.ins[2]) PROVE disk[f.num].ok
        OBVIOUS
      <3> DEFINE s == c.ins[1]
                 u == c.ins[2]
      <3>2. s \in Seq(FileRec) /\ u \in Seq(FileRec) /\ f \in Range(s) \cup Range(u)
        BY <2>1, <3>1
      <3>3. \A i \in DOMAIN (s \o u) : disk[(s \o u)[i].num].ok
        BY <1>6, <2>2
      <3> HIDE DEF s, u
      <3>4. \E i \in DOMAIN (s \o u) : (s \o u)[i] = f
        BY <3>2, BothParts
      <3>5. QED
        BY <3>3, <3>4
    <2>4. UNCHANGED <<current, l0Busy, minXip, ckpt, nextNum, disk, pending, used, installed, twins, stuck, crashes>>
      BY DEF Open, vsetVars, fileVars, flushVars, history
    <2>5. QED
      BY <1>1, <1>6, <2>3, <2>4 DEF Opened
  <1>7. QED
    BY <1>4, <1>5, <1>6

\* One output file is an OutputWritten.
LEMMA WriteOutputStep ==
  ASSUME ShapeInv, NEW j \in Jobs, WriteOutput(j)
  PROVE  \E m, keys : OutputWritten(j, m, keys)
  <1> DEFINE c == jobs[j]
             rest == c.rest
             keys == OutputKeys(rest)
             m == File(nextNum, Cardinality(keys), DefaultTs, Min(keys), Max(keys))
             left == Restrict(rest, DOMAIN rest \ keys)
             pairs == Restrict(rest, keys)
  <1>1. c.pc = "write" /\ DOMAIN rest # {} /\ JobOK(c)
    BY DEF WriteOutput, ShapeInv
  <1>2. /\ c = [pc |-> "write", level |-> c.level, ins |-> c.ins, out |-> c.out, rest |-> rest]
        /\ DOMAIN rest \subseteq Keys
    BY <1>1, WriteJob
  <1>3. /\ disk' = Written(nextNum, pairs) /\ nextNum' = nextNum + 1
        /\ UNCHANGED <<current, l0Busy, minXip, ckpt, stuck, pending, used, installed, twins, crashes>>
    BY DEF WriteOutput, vsetVars, flushVars, history
  <1>4. jobs' = [jobs EXCEPT ![j].rest = left, ![j].out = Append(c.out, m)]
    <2>1. jobs' = [jobs EXCEPT ![j].rest = Restrict(@, DOMAIN @ \ keys), ![j].out = Append(@, m)]
      BY DEF WriteOutput
    <2> HIDE DEF keys, m
    <2>2. QED
      BY <2>1 DEF ShapeInv
  <1>5. Keys \subseteq Int /\ IsFiniteSet(Keys)
    BY VersionSetAssumption
  <1>6. DOMAIN rest \subseteq Int /\ IsFiniteSet(DOMAIN rest)
    BY <1>2, <1>5, FS_Subset
  <1>7. keys \subseteq DOMAIN rest /\ keys # {}
    <2> HIDE DEF c
    <2>1. QED
      BY <1>1, <1>6, OutputProperties
  <1>8. IsFiniteSet(keys) /\ keys \subseteq Int
    <2> HIDE DEF keys
    <2>1. QED
      BY <1>6, <1>7, FS_Subset
  <1>9. DOMAIN pairs = keys /\ keys \subseteq Keys
    BY <1>2, <1>7 DEF Restrict
  <1> HIDE DEF keys
  <1>10. /\ Min(keys) \in Int /\ Max(keys) \in Int /\ Min(keys) <= Max(keys)
         /\ \A k \in keys : Min(keys) <= k /\ k <= Max(keys)
    BY <1>7, <1>8, MinAndMax
  <1>11. Cardinality(keys) \in Nat /\ nextNum \in Nat /\ DefaultTs = 0
    BY <1>8, FS_CardinalityType DEF ShapeInv, DefaultTs
  <1>12. Free(m) /\ HasFields(m, nextNum, Cardinality(keys), DefaultTs, Min(keys), Max(keys))
    <2>1. Free(m)
      BY FileFree
    <2>2. HasFields(m, nextNum, Cardinality(keys), DefaultTs, Min(keys), Max(keys))
      BY <1>10, <1>11, FileProperties
    <2>3. QED
      BY <2>1, <2>2
  <1>13. m = File(nextNum, Cardinality(keys), DefaultTs, Min(keys), Max(keys)) /\ keys = OutputKeys(rest)
    BY DEF keys
  <1> HIDE DEF m
  <1>14. NewTable(m, pairs)
    <2> HIDE DEF pairs
    <2>1. QED
      BY <1>3, <1>9, <1>10, <1>11, <1>12 DEF NewTable, HasFields
  <1>15. jobs' = [jobs EXCEPT ![j] = [pc |-> "write", level |-> c.level, ins |-> c.ins,
                                     out |-> Append(c.out, m), rest |-> left]]
    <2> HIDE DEF left
    <2> DEFINE d == [c EXCEPT !.rest = left, !.out = Append(c.out, m)]
               Fields == {"pc", "level", "ins", "out", "rest"}
    <2>1. jobs' = [jobs EXCEPT ![j] = d]
      BY <1>4 DEF ShapeInv
    <2> HIDE DEF c, rest
    <2>2. /\ d.pc = "write" /\ d.level = c.level /\ d.ins = c.ins /\ d.out = Append(c.out, m) /\ d.rest = left
          /\ DOMAIN d = Fields
      BY <1>2
    <2>3. d = [x \in Fields |-> d[x]]
      BY <1>2
    <2> HIDE DEF d
    <2>4. d = [pc |-> "write", level |-> c.level, ins |-> c.ins, out |-> Append(c.out, m), rest |-> left]
      BY <2>2, <2>3
    <2>5. QED
      BY <2>1, <2>4 DEF c
  <1>16. OutputWritten(j, m, keys)
    BY <1>1, <1>3, <1>13, <1>14, <1>15 DEF OutputWritten
  <1>17. QED
    BY <1>16

\* finalize_compaction is a Finalized.
LEMMA FinalizeStep ==
  ASSUME NEW j \in Jobs, Finalize(j) PROVE Finalized(j)
  BY DEF Finalize, Finalized, fileVars, flushVars, history

\* A job that moves between positions in which it has no files.
LEMMA IdleMoves ==
  ASSUME ShapeInv, NEW j \in Jobs, jobs[j].pc \notin {"open", "write", "dead"},
         NEW p \in {"none", "pick", "ask", "lower", "leave"}, JobTo(j, [pc |-> p])
  PROVE  \A i \in Jobs : SameWork(i)
  BY DEF ShapeInv, JobTo, SameWork, Running

StepKinds ==
  \/ Quiet
  \/ \E m, pairs : TableWritten(m, pairs)
  \/ \E m : TableInstalled(m)
  \/ \E j \in Jobs : \E level, f, ins : Picked(j, level, f, ins)
  \/ \E j \in Jobs : Opened(j)
  \/ \E j \in Jobs : \E m, keys : OutputWritten(j, m, keys)
  \/ \E j \in Jobs : Finalized(j)
  \/ CrashAndRestart

\* All steps are of these kinds.
LEMMA Steps ==
  ASSUME ShapeInv, OrderInv, CountInv, [Next]_vars
  PROVE  StepKinds
  <1>1. ASSUME \A j \in Jobs : SameWork(j),
               UNCHANGED <<current, l0Busy, minXip, ckpt, nextNum, disk, pending, used, installed, twins, stuck, crashes>>
        PROVE  StepKinds
    BY <1>1 DEF StepKinds, Quiet
  <1>2. ASSUME jobs' = jobs PROVE \A j \in Jobs : SameWork(j)
    BY <1>2 DEF SameWork, Running
  <1>3. CASE WriteTable
    BY <1>3, WriteTableStep DEF StepKinds
  <1>4. ASSUME NEW m \in pending, InstallTable(m) \/ AssertionFails(m) PROVE StepKinds
    <2>1. CASE InstallTable(m)
      <3>1. TableInstalled(m)
        BY <2>1 DEF InstallTable, TableInstalled, fileVars
      <3>2. QED
        BY <3>1 DEF StepKinds
    <2>2. CASE AssertionFails(m)
      BY <1>1, <1>2, <2>2 DEF AssertionFails, fileVars, flushVars, history
    <2>3. QED
      BY <1>4, <2>1, <2>2
  <1>5. CASE FlushAsks
    <2>1. UNCHANGED <<current, l0Busy, minXip, ckpt, nextNum, disk, pending, used, installed, twins, stuck, crashes>>
      BY <1>5 DEF FlushAsks, vsetVars, fileVars, history
    <2>2. jobs' = jobs \/ \E i \in Jobs : jobs[i].pc = "none" /\ JobTo(i, [pc |-> "pick"])
      BY <1>5, Scheduled DEF FlushAsks, JobTo
    <2>3. \A i \in Jobs : SameWork(i)
      <3>1. CASE jobs' = jobs
        BY <1>2, <3>1
      <3>2. ASSUME NEW i \in Jobs, jobs[i].pc = "none", JobTo(i, [pc |-> "pick"])
            PROVE  \A k \in Jobs : SameWork(k)
        BY <3>2, IdleMoves
      <3>3. QED
        BY <2>2, <3>1, <3>2
    <2>4. QED
      BY <1>1, <2>1, <2>3
  <1>6. CASE FlushLowers
    <2>1. /\ jobs' = jobs
          /\ UNCHANGED <<current, l0Busy, minXip, ckpt, nextNum, disk, pending, used, installed, twins, stuck, crashes>>
      BY <1>6 DEF FlushLowers, vsetVars, fileVars, history
    <2>2. QED
      BY <1>1, <1>2, <2>1
  <1>7. ASSUME NEW j \in Jobs, Pick(j) PROVE StepKinds
    <2>1. CASE \E level, f, ins : Picked(j, level, f, ins)
      BY <2>1 DEF StepKinds
    <2>2. CASE JobTo(j, [pc |-> "leave"]) /\ UNCHANGED <<current, l0Busy>>
      <3>1. jobs[j].pc = "pick" /\ UNCHANGED <<minXip, ckpt, nextNum, disk, pending, used, installed, twins, stuck, crashes>>
        BY <1>7 DEF Pick, fileVars, flushVars, history
      <3>2. \A i \in Jobs : SameWork(i)
        BY <2>2, <3>1, IdleMoves
      <3>3. QED
        BY <1>1, <2>2, <3>1, <3>2
    <2>3. QED
      BY <1>7, <2>1, <2>2, PickStep
  <1>8. ASSUME NEW j \in Jobs, Open(j) PROVE StepKinds
    <2>1. CASE Opened(j)
      BY <2>1 DEF StepKinds
    <2>2. CASE JobTo(j, [pc |-> "dead", level |-> jobs[j].level, ins |-> jobs[j].ins])
      <3>1. jobs[j].pc = "open" /\ UNCHANGED <<current, l0Busy, minXip, ckpt, nextNum, disk, pending, used, installed, twins, stuck, crashes>>
        BY <1>8 DEF Open, vsetVars, fileVars, flushVars, history
      <3>2. \A i \in Jobs : SameWork(i)
        BY <2>2, <3>1 DEF ShapeInv, JobTo, SameWork, Running
      <3>3. QED
        BY <1>1, <3>1, <3>2
    <2>3. QED
      BY <1>8, <2>1, <2>2, OpenStep
  <1>9. ASSUME NEW j \in Jobs, WriteOutput(j) PROVE StepKinds
    BY <1>9, WriteOutputStep DEF StepKinds
  <1>10. ASSUME NEW j \in Jobs, Finalize(j) PROVE StepKinds
    BY <1>10, FinalizeStep DEF StepKinds
  <1>11. ASSUME NEW j \in Jobs, Ask(j) PROVE StepKinds
    <2>1. UNCHANGED <<current, l0Busy, minXip, ckpt, nextNum, disk, pending, used, installed, twins, stuck, crashes>>
      BY <1>11 DEF Ask, vsetVars, fileVars, flushVars, history
    <2>2. jobs[j] = [pc |-> "ask"] /\ jobs = [i \in Jobs |-> jobs[i]]
      BY <1>11, AskSteps DEF ShapeInv
    <2>3. \A i \in Jobs : SameWork(i)
      <3>1. CASE Admitted
        <4>1. PICK i \in Jobs : /\ i # j /\ jobs[i].pc = "none"
                                /\ jobs' = [jobs EXCEPT ![j] = [pc |-> "leave"], ![i] = [pc |-> "pick"]]
          BY <1>11, <3>1, AskSteps
        <4>2. \A k \in Jobs : jobs'[k] = IF k = i THEN [pc |-> "pick"] ELSE IF k = j THEN [pc |-> "leave"] ELSE jobs[k]
          BY <2>2, <4>1
        <4>3. jobs[j].pc = "ask" /\ jobs[i].pc = "none"
          BY <2>2, <4>1
        <4>4. QED
          BY <4>2, <4>3 DEF SameWork, Running
      <3>2. CASE ~ Admitted
        <4>1. JobTo(j, [pc |-> "lower"]) /\ jobs[j].pc = "ask"
          BY <1>11, <2>2, <3>2, AskSteps
        <4>2. QED
          BY <4>1, IdleMoves
      <3>3. QED
        BY <3>1, <3>2
    <2>4. QED
      BY <1>1, <2>1, <2>3
  <1>12. ASSUME NEW j \in Jobs, Lower(j) PROVE StepKinds
    <2>1. UNCHANGED <<current, l0Busy, minXip, ckpt, nextNum, disk, pending, used, installed, twins, stuck, crashes>>
      BY <1>12 DEF Lower, vsetVars, fileVars, flushVars, history
    <2>2. \A i \in Jobs : SameWork(i)
      BY <1>12, JobSteps, IdleMoves
    <2>3. QED
      BY <1>1, <2>1, <2>2
  <1>13. ASSUME NEW j \in Jobs, Leave(j) PROVE StepKinds
    <2>1. UNCHANGED <<current, l0Busy, minXip, ckpt, nextNum, disk, pending, used, installed, twins, stuck, crashes>>
      BY <1>13 DEF Leave, vsetVars, fileVars, flushVars, history
    <2>2. \A i \in Jobs : SameWork(i)
      BY <1>13, JobSteps, IdleMoves
    <2>3. QED
      BY <1>1, <2>1, <2>2
  <1>14. CASE CrashAndRestart
    BY <1>14 DEF StepKinds
  <1>15. CASE UNCHANGED vars
    <2>1. UNCHANGED <<current, l0Busy, minXip, ckpt, nextNum, disk, pending, used, installed, twins, stuck, crashes, jobs>>
      BY <1>15 DEF vars, vsetVars, fileVars, flushVars, history
    <2>2. QED
      BY <1>1, <1>2, <2>1
  <1>16. QED
    BY <1>3, <1>4, <1>5, <1>6, <1>7, <1>8, <1>9, <1>10, <1>11, <1>12, <1>13, <1>14, <1>15 DEF Next

-----------------------------------------------------------------------------
(* The shape of the state is kept. *)

JobsOK == jobs = [j \in Jobs |-> jobs[j]] /\ \A j \in Jobs : JobOK(jobs[j])

\* Jobs at positions without inputs have the right fields.
LEMMA IdleOK ==
  ASSUME NEW p \in {"none", "pick", "ask", "lower", "leave"}
  PROVE  JobOK([pc |-> p])
  BY DEF JobOK

\* One job goes on to a record of the right fields, and so all have them.
LEMMA JobToOK ==
  ASSUME ShapeInv, NEW j \in Jobs, NEW c, JobOK(c), JobTo(j, c)
  PROVE  JobsOK'
  <1>1. jobs' = [i \in Jobs |-> IF i = j THEN c ELSE jobs[i]]
    BY DEF ShapeInv, JobTo
  <1>2. Jobs' = Jobs
    BY DEF Jobs
  <1>3. \A i \in Jobs : JobOK(jobs'[i])
    BY <1>1 DEF ShapeInv
  <1>4. jobs' = [i \in Jobs |-> jobs'[i]]
    BY <1>1
  <1>5. QED
    BY <1>2, <1>3, <1>4 DEF JobsOK

\* The files of a job that opens them have pairs of the keys.
PairsOK ==
  \A j \in Jobs : jobs[j].pc = "open" =>
    \A f \in Range(jobs[j].ins[1]) \cup Range(jobs[j].ins[2]) : DOMAIN disk[f.num].pairs \subseteq Keys

\* All steps of the jobs do.
LEMMA JobsOKStep ==
  ASSUME ShapeInv, OrderInv, CountInv, PairsOK, [Next]_vars
  PROVE  JobsOK'
  <1>1. ASSUME jobs' = jobs PROVE JobsOK'
    BY <1>1 DEF JobsOK, ShapeInv, Jobs
  <1>2. CASE WriteTable \/ (\E m \in pending : InstallTable(m) \/ AssertionFails(m)) \/ FlushLowers \/ UNCHANGED vars
    BY <1>1, <1>2 DEF WriteTable, InstallTable, AssertionFails, FlushLowers, vars
  <1>3. CASE FlushAsks
    <2>1. jobs' = jobs \/ \E i \in Jobs : JobTo(i, [pc |-> "pick"])
      BY <1>3, Scheduled DEF FlushAsks, JobTo
    <2>2. QED
      BY <1>1, <2>1, IdleOK, JobToOK
  <1>4. ASSUME NEW j \in Jobs, Pick(j) PROVE JobsOK'
    <2>1. CASE JobTo(j, [pc |-> "leave"])
      BY <2>1, IdleOK, JobToOK
    <2>2. ASSUME NEW level, NEW f, NEW ins, Picked(j, level, f, ins) PROVE JobsOK'
      <3>1. level \in 0 .. NumLevels - 2 /\ ins \in InputSeqs
        BY <2>2 DEF Picked, InputsFit, InputSeqs
      <3>2. JobOK([pc |-> "open", level |-> level, ins |-> ins])
        BY <3>1 DEF JobOK
      <3>3. JobTo(j, [pc |-> "open", level |-> level, ins |-> ins])
        BY <2>2 DEF Picked, JobTo
      <3>4. QED
        BY <3>2, <3>3, JobToOK
    <2>3. QED
      BY <1>4, <2>1, <2>2, PickStep
  <1>5. ASSUME NEW j \in Jobs, Open(j) PROVE JobsOK'
    <2>1. jobs[j].pc = "open" /\ JobOK(jobs[j])
      BY <1>5 DEF Open, ShapeInv
    <2>2. jobs[j].level \in 0 .. NumLevels - 2 /\ jobs[j].ins \in InputSeqs
      BY <2>1, OpenJob
    <2>3. CASE JobTo(j, [pc |-> "dead", level |-> jobs[j].level, ins |-> jobs[j].ins])
      <3>1. JobOK([pc |-> "dead", level |-> jobs[j].level, ins |-> jobs[j].ins])
        BY <2>2 DEF JobOK
      <3>2. QED
        BY <2>3, <3>1, JobToOK
    <2>4. CASE Opened(j)
      <3> DEFINE rest == MergedPairs(jobs[j].level, jobs[j].ins, disk)
      <3>1. JobTo(j, [pc |-> "write", level |-> jobs[j].level, ins |-> jobs[j].ins, out |-> <<>>, rest |-> rest])
        BY <2>4 DEF Opened, JobTo
      <3>2. DOMAIN rest \subseteq Keys
        <4>1. SUFFICES ASSUME NEW k \in DOMAIN rest PROVE k \in Keys
          OBVIOUS
        <4>2. jobs[j].ins \in Seq(FileRec) \X Seq(FileRec)
          BY <2>2 DEF InputSeqs
        <4>3. PICK f \in Range(jobs[j].ins[1]) \cup Range(jobs[j].ins[2]) : k \in DOMAIN disk[f.num].pairs
          BY <4>1, <4>2, MergedDomain
        <4>4. QED
          BY <2>1, <4>3 DEF PairsOK
      <3> HIDE DEF rest
      <3>3. JobOK([pc |-> "write", level |-> jobs[j].level, ins |-> jobs[j].ins, out |-> <<>>, rest |-> rest])
        BY <2>2, <3>2, EmptySeq DEF JobOK
      <3>4. QED
        BY <3>1, <3>3, JobToOK
    <2>5. QED
      BY <1>5, <2>3, <2>4, OpenStep
  <1>6. ASSUME NEW j \in Jobs, WriteOutput(j) PROVE JobsOK'
    <2>1. PICK m, keys : OutputWritten(j, m, keys)
      BY <1>6, WriteOutputStep
    <2> DEFINE left == Restrict(jobs[j].rest, DOMAIN jobs[j].rest \ keys)
               out == Append(jobs[j].out, m)
    <2>2. JobOK(jobs[j]) /\ jobs[j].pc = "write"
      BY <2>1 DEF OutputWritten, ShapeInv
    <2>3. /\ jobs[j].level \in 0 .. NumLevels - 2 /\ jobs[j].ins \in InputSeqs
          /\ jobs[j].out \in Seq(FileRec) /\ DOMAIN jobs[j].rest \subseteq Keys
      BY <2>2, WriteJob
    <2>4. out \in Seq(FileRec)
      <3>1. m \in FileRec
        BY <2>1 DEF OutputWritten, NewTable
      <3>2. QED
        BY <2>3, <3>1, AppendProperties
    <2>5. DOMAIN left \subseteq Keys
      BY <2>3 DEF Restrict
    <2>6. JobTo(j, [pc |-> "write", level |-> jobs[j].level, ins |-> jobs[j].ins, out |-> out, rest |-> left])
      BY <2>1 DEF OutputWritten, JobTo
    <2> HIDE DEF left, out
    <2>7. JobOK([pc |-> "write", level |-> jobs[j].level, ins |-> jobs[j].ins, out |-> out, rest |-> left])
      BY <2>3, <2>4, <2>5 DEF JobOK
    <2>8. QED
      BY <2>6, <2>7, JobToOK
  <1>7. ASSUME NEW j \in Jobs, Finalize(j) PROVE JobsOK'
    BY <1>7, JobSteps, IdleOK, JobToOK
  <1>8. ASSUME NEW j \in Jobs, Ask(j) PROVE JobsOK'
    <2>1. CASE Admitted
      <3>1. PICK i \in Jobs : /\ i # j /\ jobs[i].pc = "none"
                              /\ jobs' = [jobs EXCEPT ![j] = [pc |-> "leave"], ![i] = [pc |-> "pick"]]
        BY <1>8, <2>1, AskSteps
      <3>2. jobs' = [k \in Jobs |-> IF k = i THEN [pc |-> "pick"] ELSE IF k = j THEN [pc |-> "leave"] ELSE jobs[k]]
        BY <3>1 DEF ShapeInv
      <3>3. \A k \in Jobs : JobOK(jobs'[k])
        <4>1. JobOK([pc |-> "pick"]) /\ JobOK([pc |-> "leave"]) /\ \A k \in Jobs : JobOK(jobs[k])
          BY IdleOK DEF ShapeInv
        <4>2. QED
          BY <3>2, <4>1
      <3>4. Jobs' = Jobs /\ jobs' = [k \in Jobs |-> jobs'[k]]
        BY <3>2 DEF Jobs
      <3>5. QED
        BY <3>3, <3>4 DEF JobsOK
    <2>2. CASE ~ Admitted
      BY <1>8, <2>2, AskSteps, IdleOK, JobToOK
    <2>3. QED
      BY <2>1, <2>2
  <1>9. ASSUME NEW j \in Jobs, Lower(j) PROVE JobsOK'
    BY <1>9, JobSteps, IdleOK, JobToOK
  <1>10. ASSUME NEW j \in Jobs, Leave(j) PROVE JobsOK'
    BY <1>10, JobSteps, IdleOK, JobToOK
  <1>11. CASE CrashAndRestart
    <2>1. jobs' = [j \in Jobs |-> [pc |-> "none"]] /\ Jobs' = Jobs
      BY <1>11 DEF CrashAndRestart, NoJob, Jobs
    <2>2. QED
      BY <2>1, IdleOK DEF JobsOK
  <1>12. QED
    BY <1>2, <1>3, <1>4, <1>5, <1>6, <1>7, <1>8, <1>9, <1>10, <1>11 DEF Next

\* The flush jobs stay within their number, and their bounds differ.
LEMMA FlushOKStep ==
  ASSUME ShapeInv, CountInv, [Next]_vars
  PROVE  FlushOK'
  <1>1. FlushOK /\ Cardinality(pending) \in Nat /\ minXip \in Nat /\ Ts' = Ts /\ Ts \subseteq Nat /\ 0 \notin Ts
    BY FlushCounts, VersionSetAssumption DEF ShapeInv, Ts
  <1>2. CASE WriteTable
    <2>1. PICK m, pairs : TableWritten(m, pairs)
      BY <1>2, WriteTableStep
    <2>2. /\ m \in FileRec /\ m.inf <= m.sup /\ m.xip \in Ts \ used
          /\ pending' = pending \cup {m} /\ used' = used \cup {m.xip}
          /\ UNCHANGED <<installed, minXip, crashes>>
      BY <2>1 DEF TableWritten, NewTable
    <2>3. UNCHANGED <<asking, lowering>> /\ FlushJobs < MaxFlushJobs
      BY <1>2 DEF WriteTable
    <2>4. m \notin pending
      BY <1>1, <2>2 DEF FlushOK
    <2>5. IsFiniteSet(pending') /\ Cardinality(pending') = Cardinality(pending) + 1
      BY <1>1, <2>2, <2>4, FS_AddElement DEF FlushOK
    <2>6. FlushJobs' <= MaxFlushJobs
      BY <1>1, <2>3, <2>5, VersionSetAssumption DEF FlushOK, FlushJobs
    <2>7. \A n \in pending' : n.xip \in used' \ {installed'} /\ n.inf <= n.sup
      BY <1>1, <2>2 DEF FlushOK
    <2>8. \A n, o \in pending' : n.xip = o.xip => n = o
      BY <1>1, <2>2 DEF FlushOK
    <2>9. QED
      BY <1>1, <2>2, <2>3, <2>5, <2>6, <2>7, <2>8 DEF FlushOK
  <1>3. ASSUME NEW m \in pending, InstallTable(m) PROVE FlushOK'
    <2>1. /\ pending' = pending \ {m} /\ asking' = asking + 1 /\ installed' = m.xip /\ minXip' = m.xip
          /\ UNCHANGED <<lowering, used, crashes>>
      BY <1>3 DEF InstallTable, Install
    <2>2. IsFiniteSet(pending') /\ Cardinality(pending') = Cardinality(pending) - 1
      BY <1>1, <2>1, FS_RemoveElement DEF FlushOK
    <2>3. FlushJobs' <= MaxFlushJobs
      BY <1>1, <2>1, <2>2, VersionSetAssumption DEF FlushOK, FlushJobs
    <2>4. m.xip \in used /\ m.xip \in Nat /\ \A n \in pending' : n.xip \in used \ {m.xip}
      BY <1>1, <2>1 DEF FlushOK, Ts
    <2>5. QED
      BY <1>1, <2>1, <2>2, <2>3, <2>4 DEF FlushOK
  <1>4. ASSUME UNCHANGED <<pending, asking, lowering, used, installed, crashes, minXip>> PROVE FlushOK'
    BY <1>1, <1>4 DEF FlushOK, FlushJobs
  <1>5. CASE FlushAsks
    <2>1. /\ asking > 0 /\ asking' = asking - 1 /\ lowering' \in {lowering, lowering + 1}
          /\ UNCHANGED <<pending, used, installed, crashes, minXip>>
      BY <1>5 DEF FlushAsks, vsetVars, history
    <2>2. FlushJobs' <= MaxFlushJobs /\ asking' \in Nat /\ lowering' \in Nat
      BY <1>1, <2>1, VersionSetAssumption DEF FlushOK, FlushJobs
    <2>3. QED
      BY <1>1, <2>1, <2>2 DEF FlushOK
  <1>6. CASE FlushLowers
    <2>1. /\ lowering > 0 /\ lowering' = lowering - 1
          /\ UNCHANGED <<pending, asking, used, installed, crashes, minXip>>
      BY <1>6 DEF FlushLowers, vsetVars, history
    <2>2. FlushJobs' <= MaxFlushJobs /\ lowering' \in Nat
      BY <1>1, <2>1, VersionSetAssumption DEF FlushOK, FlushJobs
    <2>3. QED
      BY <1>1, <2>1, <2>2 DEF FlushOK
  <1>7. CASE CrashAndRestart
    <2>1. /\ pending' = {} /\ asking' = 0 /\ lowering' = 0 /\ used' = {} /\ installed' = 0
          /\ crashes' = crashes + 1 /\ minXip' = ckpt.minXip
      BY <1>7 DEF CrashAndRestart
    <2>2. IsFiniteSet({}) /\ Cardinality({}) = 0
      BY FS_EmptySet
    <2>3. FlushJobs' <= MaxFlushJobs
      BY <2>1, <2>2, VersionSetAssumption DEF FlushJobs
    <2>4. minXip' >= 0
      BY <1>1, <2>1 DEF ShapeInv
    <2>5. QED
      BY <1>1, <2>1, <2>2, <2>3, <2>4 DEF FlushOK
  <1>8. ASSUME NEW j \in Jobs,
               Pick(j) \/ Open(j) \/ WriteOutput(j) \/ Finalize(j) \/ Ask(j) \/ Lower(j) \/ Leave(j)
        PROVE  FlushOK'
    BY <1>4, <1>8 DEF Pick, Open, WriteOutput, Finalize, Ask, Lower, Leave, Install, vsetVars, flushVars, history
  <1>9. CASE UNCHANGED vars
    BY <1>4, <1>9 DEF vars, vsetVars, flushVars, history
  <1>10. ASSUME NEW m, AssertionFails(m) PROVE FlushOK'
    BY <1>4, <1>10 DEF AssertionFails, flushVars, history
  <1>11. QED
    BY <1>2, <1>3, <1>5, <1>6, <1>7, <1>8, <1>9, <1>10 DEF Next

\* The shape is kept.
LEMMA ShapeStep ==
  ASSUME ShapeInv, OrderInv, CountInv, PairsOK, [Next]_vars
  PROVE  ShapeInv'
  <1> DEFINE N == /\ nextNum \in Nat /\ ckpt.nextNum \in Nat /\ ckpt.nextNum <= nextNum
                  /\ minXip \in Ts \cup {0} /\ ckpt.minXip \in Ts \cup {0}
  <1>1. N
    BY DEF ShapeInv
  <1>2. Ts' = Ts
    BY DEF Ts
  <1>3. ASSUME Quiet PROVE N'
    BY <1>1, <1>2, <1>3 DEF Quiet
  <1>4. ASSUME NEW m, NEW pairs, TableWritten(m, pairs) PROVE N'
    BY <1>1, <1>2, <1>4 DEF TableWritten, NewTable
  <1>5. ASSUME NEW m, TableInstalled(m) PROVE N'
    <2>1. m \in pending /\ nextNum' = nextNum
      BY <1>5 DEF TableInstalled
    <2>2. ckpt'.nextNum = nextNum /\ minXip' = m.xip /\ ckpt'.minXip = m.xip
      BY <1>5 DEF TableInstalled, Install
    <2>3. m.xip \in Ts
      BY <2>1 DEF ShapeInv, FlushOK
    <2>4. QED
      BY <1>1, <1>2, <2>1, <2>2, <2>3
  <1>6. ASSUME NEW j, NEW level, NEW f, NEW ins, Picked(j, level, f, ins) PROVE N'
    BY <1>1, <1>2, <1>6 DEF Picked
  <1>7. ASSUME NEW j, Opened(j) PROVE N'
    BY <1>1, <1>2, <1>7 DEF Opened
  <1>8. ASSUME NEW j, NEW m, NEW keys, OutputWritten(j, m, keys) PROVE N'
    BY <1>1, <1>2, <1>8 DEF OutputWritten, NewTable
  <1>9. ASSUME NEW j, Finalized(j) PROVE N'
    <2>1. nextNum' = nextNum
      BY <1>9 DEF Finalized
    <2>2. ckpt'.nextNum = nextNum /\ minXip' = minXip /\ ckpt'.minXip = minXip
      BY <1>9 DEF Finalized, Install
    <2>3. QED
      BY <1>1, <1>2, <2>1, <2>2
  <1>10. ASSUME CrashAndRestart PROVE N'
    BY <1>1, <1>2, <1>10 DEF CrashAndRestart
  <1>11. N'
    BY <1>3, <1>4, <1>5, <1>6, <1>7, <1>8, <1>9, <1>10, Steps DEF StepKinds
  <1>12. JobsOK' /\ FlushOK'
    BY JobsOKStep, FlushOKStep
  <1>13. QED
    BY <1>11, <1>12 DEF ShapeInv, JobsOK

-----------------------------------------------------------------------------
(* Who holds which file, and that no two files have the same number. *)

Holders == ({"level"} \X Levels) \cup ({"job"} \X Jobs) \cup {<<"flush", 0>>}

\* The files of the levels, the output files of the jobs, the tables of the
\* flush jobs.
Held ==
  [h \in Holders |->
     IF h[1] = "level" THEN Range(current[h[2]])
     ELSE IF h[1] = "job" THEN IF jobs[h[2]].pc = "write" THEN Range(jobs[h[2]].out) ELSE {}
     ELSE pending]

\* What they would be after a crash.
HeldByCheckpoint ==
  [h \in Holders |-> IF h[1] = "level" THEN Range(ckpt.files[h[2]]) ELSE {}]

Distinct(held) ==
  \A h, k \in Holders : \A f \in held[h], g \in held[k] : f.num = g.num => h = k /\ f = g

Numbered(held, n) == \A h \in Holders : \A f \in held[h] : f \in FileRec /\ f.num < n

NumbersInv ==
  /\ Distinct(Held) /\ Numbered(Held, nextNum)
  /\ Distinct(HeldByCheckpoint) /\ Numbered(HeldByCheckpoint, ckpt.nextNum)

\* Who may hold files: levels, jobs, the flush jobs.
LEMMA HolderTypes ==
  /\ \A l \in Levels : <<"level", l>> \in Holders
  /\ \A j \in Jobs : <<"job", j>> \in Holders
  /\ <<"flush", 0>> \in Holders
  /\ \A h \in Holders : \/ \E l \in Levels : h = <<"level", l>>
                        \/ \E j \in Jobs : h = <<"job", j>>
                        \/ h = <<"flush", 0>>
  BY DEF Holders

\* What each of them holds.
LEMMA HeldAt ==
  /\ \A l \in Levels : Held[<<"level", l>>] = Range(current[l])
  /\ \A j \in Jobs : Held[<<"job", j>>] = IF jobs[j].pc = "write" THEN Range(jobs[j].out) ELSE {}
  /\ Held[<<"flush", 0>>] = pending
  BY HolderTypes DEF Held

\* What they would hold after a crash.
LEMMA CheckpointAt ==
  /\ \A l \in Levels : HeldByCheckpoint[<<"level", l>>] = Range(ckpt.files[l])
  /\ \A h \in Holders : h[1] # "level" => HeldByCheckpoint[h] = {}
  BY HolderTypes DEF HeldByCheckpoint

\* The same after a step.
LEMMA HeldAtNext ==
  /\ \A l \in Levels : Held'[<<"level", l>>] = Range(current'[l])
  /\ \A j \in Jobs : Held'[<<"job", j>>] = IF jobs'[j].pc = "write" THEN Range(jobs'[j].out) ELSE {}
  /\ Held'[<<"flush", 0>>] = pending'
  <1>1. Held' = [h \in Holders |->
                   IF h[1] = "level" THEN Range(current'[h[2]])
                   ELSE IF h[1] = "job" THEN IF jobs'[h[2]].pc = "write" THEN Range(jobs'[h[2]].out) ELSE {}
                   ELSE pending']
    BY DEF Held, Holders, Levels, Jobs
  <1>2. QED
    BY <1>1, HolderTypes

\* The same after a step.
LEMMA CheckpointAtNext ==
  /\ \A l \in Levels : HeldByCheckpoint'[<<"level", l>>] = Range(ckpt'.files[l])
  /\ \A h \in Holders : h[1] # "level" => HeldByCheckpoint'[h] = {}
  <1>1. HeldByCheckpoint' = [h \in Holders |-> IF h[1] = "level" THEN Range(ckpt'.files[h[2]]) ELSE {}]
    BY DEF HeldByCheckpoint, Holders, Levels, Jobs
  <1>2. QED
    BY <1>1, HolderTypes

\* How a holder holds a file that it takes over.
Copy(h, f, marked) == IF h[1] = "level" THEN Marking(f, h[2], marked) ELSE f

\* A copy is a file record of the same number.
LEMMA CopyProperties ==
  ASSUME NEW f \in FileRec, NEW h, NEW marked
  PROVE  Copy(h, f, marked) \in FileRec /\ Copy(h, f, marked).num = f.num
  BY MarkingProperties DEF Copy

\* Where a file of new comes from: the same holder, or src, which has given
\* it to dest.
Source(old, new, src, dest, marked, h, e, k, f) ==
  /\ f \in old[k]
  /\ k = h \/ (h = dest /\ k = src /\ f \notin new[src])
  /\ e = Copy(h, f, marked)

\* Every file of new was one of old, at the same holder or at src.
TakenOver(old, new, src, dest, marked) ==
  /\ src # dest => src[1] # "level"
  /\ \A h \in Holders : \A e \in new[h] :
       \E k \in Holders : \E f : Source(old, new, src, dest, marked, h, e, k, f)

\* Taking over keeps the numbers apart.
LEMMA TakeOver ==
  ASSUME NEW old, NEW new, NEW n, Distinct(old), Numbered(old, n),
         NEW src \in Holders, NEW dest \in Holders, NEW marked, TakenOver(old, new, src, dest, marked)
  PROVE  Distinct(new) /\ Numbered(new, n)
  <1>1. ASSUME NEW h \in Holders, NEW e \in new[h] PROVE e \in FileRec /\ e.num < n
    <2>1. PICK k, f : k \in Holders /\ f \in old[k] /\ e = Copy(h, f, marked)
      BY <1>1 DEF TakenOver, Source
    <2>2. f \in FileRec /\ f.num < n
      BY <2>1 DEF Numbered
    <2>3. QED
      BY <2>1, <2>2, CopyProperties
  <1>2. ASSUME NEW h1 \in Holders, NEW h2 \in Holders, NEW e1 \in new[h1], NEW e2 \in new[h2], e1.num = e2.num
        PROVE  h1 = h2 /\ e1 = e2
    <2>1. PICK k1, f1 : k1 \in Holders /\ Source(old, new, src, dest, marked, h1, e1, k1, f1)
      BY <1>2 DEF TakenOver
    <2>2. PICK k2, f2 : k2 \in Holders /\ Source(old, new, src, dest, marked, h2, e2, k2, f2)
      BY <1>2 DEF TakenOver
    <2>3. f1 \in FileRec /\ f2 \in FileRec
      BY <2>1, <2>2 DEF Numbered, Source
    <2>4. f1.num = f2.num
      BY <1>2, <2>1, <2>2, <2>3, CopyProperties DEF Source
    <2>5. k1 = k2 /\ f1 = f2
      BY <2>1, <2>2, <2>4 DEF Distinct, Source
    <2>6. h1 = h2
      <3>1. src # dest => Copy(src, f1, marked) = f1
        BY DEF TakenOver, Copy
      <3>2. QED
        BY <1>2, <2>1, <2>2, <2>5, <3>1 DEF Source
    <2>7. QED
      BY <2>1, <2>2, <2>5, <2>6 DEF Source
  <1>3. QED
    BY <1>1, <1>2 DEF Distinct, Numbered

\* Every file of new was at the same holder before, but for one with the next number.
OneNew(old, new, at, m) ==
  \A h \in Holders : \A e \in new[h] : e \in old[h] \/ (h = at /\ e = m)

\* So does one file with the next number.
LEMMA TakeNew ==
  ASSUME NEW old, NEW new, NEW n \in Nat, Distinct(old), Numbered(old, n),
         NEW at, NEW m \in FileRec, m.num = n, OneNew(old, new, at, m)
  PROVE  Distinct(new) /\ Numbered(new, n + 1)
  <1>1. \A f \in FileRec : f.num \in Nat
    BY DEF FileRec
  <1>2. ASSUME NEW h \in Holders, NEW e \in new[h] PROVE e \in FileRec /\ e.num < n + 1
    BY <1>1, <1>2 DEF OneNew, Numbered
  <1>3. ASSUME NEW h1 \in Holders, NEW h2 \in Holders, NEW e1 \in new[h1], NEW e2 \in new[h2], e1.num = e2.num
        PROVE  h1 = h2 /\ e1 = e2
    <2>1. (e1 \in old[h1] \/ (h1 = at /\ e1 = m)) /\ (e2 \in old[h2] \/ (h2 = at /\ e2 = m))
      BY <1>3 DEF OneNew
    <2>2. (e1 \in old[h1] => e1.num < n /\ e1 \in FileRec) /\ (e2 \in old[h2] => e2.num < n /\ e2 \in FileRec)
      BY DEF Numbered
    <2>3. CASE e1 \in old[h1] /\ e2 \in old[h2]
      BY <1>3, <2>3 DEF Distinct
    <2>4. CASE h1 = at /\ e1 = m /\ h2 = at /\ e2 = m
      BY <2>4
    <2>5. ~ (e1 \in old[h1] /\ e2 = m) /\ ~ (e1 = m /\ e2 \in old[h2])
      BY <1>1, <1>3, <2>2
    <2>6. QED
      BY <2>1, <2>3, <2>4, <2>5
  <1>4. QED
    BY <1>2, <1>3 DEF Distinct, Numbered

\* So does giving files up.
LEMMA HoldLess ==
  ASSUME NEW old, NEW new, NEW n, Distinct(old), Numbered(old, n),
         \A h \in Holders : new[h] \subseteq old[h]
  PROVE  Distinct(new) /\ Numbered(new, n)
  BY DEF Distinct, Numbered

\* Where nothing is marked a copy is the same file.
LEMMA CopyUnmarked ==
  ASSUME NEW h, NEW f PROVE Copy(h, f, {}) = f
  BY DEF Copy, Marking

\* What is in a sequence with one more element.
LEMMA RangeOfAppend ==
  ASSUME NEW s \in Seq(FileRec), NEW m \in FileRec, NEW e \in Range(Append(s, m))
  PROVE  e \in Range(s) \/ e = m
  <1>1. PICK i \in DOMAIN Append(s, m) : e = Append(s, m)[i]
    BY DEF Range
  <1>2. DOMAIN Append(s, m) = 1 .. Len(s) + 1 /\ DOMAIN s = 1 .. Len(s) /\ Len(s) \in Nat
    BY LenProperties, AppendProperties
  <1>3. CASE i \in 1 .. Len(s)
    <2>1. e = s[i] /\ i \in DOMAIN s
      BY <1>1, <1>2, <1>3, AppendProperties
    <2>2. QED
      BY <2>1 DEF Range
  <1>4. CASE i = Len(s) + 1
    BY <1>1, <1>4, AppendProperties
  <1>5. QED
    BY <1>1, <1>2, <1>3, <1>4

\* The shape of what is held.
LEMMA HeldShape ==
  ASSUME ShapeInv, OrderInv
  PROVE  /\ current \in Versions /\ ckpt.files \in Versions
         /\ 0 \in Levels /\ \A level \in 0 .. NumLevels - 2 : level \in Levels /\ level + 1 \in Levels \ {0}
         /\ \A j \in Jobs : JobOK(jobs[j])
  BY OptionsAssumption DEF ShapeInv, OrderInv, InOrder, Levels

\* What an edit does to the files of the levels.
TakenFrom(level, added, deleted, marked, l, e) ==
  \E f : /\ f \in Held[<<"level", l>>] \/ (l = level /\ f \in Range(added))
         /\ <<l, f.num>> \notin deleted
         /\ e = Copy(<<"level", l>>, f, marked)

\* Every file of an edited level has been taken over from somewhere.
LEMMA EditTaken ==
  ASSUME ShapeInv, OrderInv, NEW level \in Levels, NEW added \in Seq(FileRec), NEW deleted, NEW marked,
         current' = Applied(current, level, added, deleted, marked),
         NEW l \in Levels, NEW e \in Held'[<<"level", l>>]
  PROVE  TakenFrom(level, added, deleted, marked, l, e)
  <1>1. e \in Range(current'[l]) /\ Held[<<"level", l>>] = Range(current[l])
    BY HeldAt, HeldAtNext
  <1>2. PICK f \in FileRec : /\ f \in Range(current[l]) \/ (l = level /\ f \in Range(added))
                             /\ <<l, f.num>> \notin deleted
                             /\ e = Marking(f, l, marked)
    <2>1. e \in Range(Applied(current, level, added, deleted, marked)[l]) /\ current \in Versions
      BY <1>1, HeldShape
    <2>2. ComesFrom(current, level, added, deleted, marked, l, e)
      BY <2>1, EditedFrom
    <2>3. QED
      BY <2>2 DEF ComesFrom
  <1>3. e = Copy(<<"level", l>>, f, marked)
    BY <1>2 DEF Copy
  <1>4. QED
    BY <1>1, <1>2, <1>3 DEF TakenFrom

\* What a step does to what is held.
HeldKinds ==
  \/ /\ \E src, dest \in Holders : \E marked : TakenOver(Held, Held', src, dest, marked)
     /\ UNCHANGED <<nextNum, disk>>
     /\ ckpt' = ckpt \/ (ckpt'.files = current' /\ ckpt'.nextNum = nextNum)
  \/ \E at, m, pairs : OneNew(Held, Held', at, m) /\ NewTable(m, pairs)
  \/ /\ \A h \in Holders : Held'[h] \subseteq HeldByCheckpoint[h]
     /\ nextNum' = ckpt.nextNum /\ UNCHANGED <<ckpt, disk>>

\* Every step takes over, adds one file, or goes back to the checkpoint.
LEMMA HeldStep ==
  ASSUME ShapeInv, OrderInv, StepKinds
  PROVE  HeldKinds
  <1>3. ASSUME \A h \in Holders : Held'[h] \subseteq Held[h], UNCHANGED <<ckpt, nextNum, disk>>
        PROVE  HeldKinds
    <2>1. <<"flush", 0>> \in Holders
      BY HolderTypes
    <2>2. TakenOver(Held, Held', <<"flush", 0>>, <<"flush", 0>>, {})
      BY <1>3, CopyUnmarked DEF TakenOver, Source
    <2>3. QED
      BY <1>3, <2>1, <2>2 DEF HeldKinds
  <1>4. CASE Quiet
    <2>1. \A j \in Jobs : jobs'[j].pc = "write" => jobs'[j] = jobs[j]
      BY <1>4 DEF Quiet, SameWork
    <2>2. \A h \in Holders : Held'[h] \subseteq Held[h]
      BY <1>4, <2>1, HolderTypes, HeldAt, HeldAtNext DEF Quiet
    <2>3. QED
      BY <1>3, <1>4, <2>2 DEF Quiet
  <1>5. ASSUME NEW m, NEW pairs, TableWritten(m, pairs) PROVE HeldKinds
    <2>1. /\ m \in FileRec /\ m.num = nextNum /\ nextNum \in Nat /\ nextNum' = nextNum + 1
          /\ ckpt' = ckpt /\ current' = current /\ jobs' = jobs /\ pending' = pending \cup {m}
      BY <1>5 DEF TableWritten, NewTable, ShapeInv
    <2>2. OneNew(Held, Held', <<"flush", 0>>, m)
      BY <2>1, HolderTypes, HeldAt, HeldAtNext DEF OneNew
    <2>3. QED
      BY <1>5, <2>2 DEF HeldKinds, TableWritten
  <1>6. ASSUME NEW m, TableInstalled(m) PROVE HeldKinds
    <2>1. /\ m \in pending /\ pending' = pending \ {m} /\ jobs' = jobs /\ nextNum' = nextNum
          /\ Install(Applied(current, 0, <<m>>, {}, {}), m.xip)
          /\ current' = Applied(current, 0, <<m>>, {}, {})
      BY <1>6 DEF TableInstalled, Install
    <2>2. m \in FileRec /\ 0 \in Levels
      BY <2>1, HeldShape DEF ShapeInv, FlushOK
    <2>3. <<m>> \in Seq(FileRec) /\ Range(<<m>>) = {m}
      BY <2>2 DEF Range
    <2> DEFINE src == <<"flush", 0>>
               dest == <<"level", 0>>
    <2>4. Held'[src] = pending' /\ Held[src] = pending /\ src \in Holders /\ dest \in Holders
      BY <2>1, <2>2, HolderTypes, HeldAt, HeldAtNext
    <2>5. ASSUME NEW h \in Holders, NEW e \in Held'[h]
          PROVE  \E k \in Holders : \E f : Source(Held, Held', src, dest, {}, h, e, k, f)
      <3>1. CASE \E l \in Levels : h = <<"level", l>>
        <4>1. PICK l \in Levels : h = <<"level", l>>
          BY <3>1
        <4>2. \E f : /\ f \in Held[<<"level", l>>] \/ (l = 0 /\ f \in Range(<<m>>))
                     /\ e = Copy(<<"level", l>>, f, {})
          <5>1. e \in Held'[<<"level", l>>]
            BY <2>5, <4>1
          <5>2. TakenFrom(0, <<m>>, {}, {}, l, e)
            BY <2>1, <2>2, <2>3, <5>1, EditTaken
          <5>3. QED
            BY <5>2 DEF TakenFrom
        <4>6. PICK f : /\ f \in Held[h] \/ (l = 0 /\ f \in Range(<<m>>))
                       /\ e = Copy(h, f, {})
          BY <4>1, <4>2
        <4>3. CASE f \in Held[h]
          BY <4>6, <4>3 DEF Source
        <4>4. CASE l = 0 /\ f \in Range(<<m>>)
          BY <2>1, <2>3, <2>4, <4>1, <4>6, <4>4 DEF Source
        <4>5. QED
          BY <4>6, <4>3, <4>4
      <3>2. CASE \E j \in Jobs : h = <<"job", j>>
        <4>1. e \in Held[h]
          BY <2>1, <2>5, <3>2, HeldAt, HeldAtNext
        <4>2. QED
          BY <4>1, CopyUnmarked DEF Source
      <3>3. CASE h = src
        <4>1. e \in Held[h]
          BY <2>1, <2>4, <2>5, <3>3
        <4>2. QED
          BY <4>1, CopyUnmarked DEF Source
      <3>4. QED
        BY <2>5, <3>1, <3>2, <3>3, HolderTypes
    <2>6. TakenOver(Held, Held', src, dest, {})
      BY <2>4, <2>5 DEF TakenOver
    <2>7. UNCHANGED <<nextNum, disk>> /\ ckpt'.files = current' /\ ckpt'.nextNum = nextNum
      BY <1>6 DEF TableInstalled, Install
    <2>8. QED
      BY <2>4, <2>6, <2>7 DEF HeldKinds
  <1>7. ASSUME NEW j \in Jobs, NEW level, NEW f0, NEW ins, Picked(j, level, f0, ins) PROVE HeldKinds
    <2> DEFINE marked == Marks(level, ins)
               src == <<"level", 0>>
    <2>1. /\ level \in Levels /\ jobs' = [jobs EXCEPT ![j] = [pc |-> "open", level |-> level, ins |-> ins]]
          /\ current' = Applied(current, level, <<>>, {}, marked)
          /\ pending' = pending /\ ckpt' = ckpt /\ nextNum' = nextNum
      BY <1>7, HeldShape DEF Picked
    <2> HIDE DEF marked
    <2>2. Range(<<>>) = {} /\ <<>> \in Seq(FileRec)
      BY EmptySeq DEF Range
    <2>3. \A i \in Jobs : jobs'[i].pc = "write" => jobs'[i] = jobs[i]
      BY <2>1 DEF ShapeInv
    <2>4. ASSUME NEW h \in Holders, NEW e \in Held'[h]
          PROVE  \E f \in Held[h] : e = Copy(h, f, marked)
      <3>1. CASE \E l \in Levels : h = <<"level", l>>
        <4>1. PICK l \in Levels : h = <<"level", l>>
          BY <3>1
        <4>2. e \in Held'[<<"level", l>>]
          BY <2>4, <4>1
        <4>3. PICK f : /\ f \in Held[<<"level", l>>] \/ (l = level /\ f \in Range(<<>>))
                       /\ e = Copy(<<"level", l>>, f, marked)
          <5>1. TakenFrom(level, <<>>, {}, marked, l, e)
            BY <2>1, <2>2, <4>2, EditTaken
          <5>2. QED
            BY <5>1 DEF TakenFrom
        <4>4. QED
          BY <2>2, <4>1, <4>3
      <3>2. CASE h[1] # "level"
        <4>1. e \in Held[h] /\ e = Copy(h, e, marked)
          BY <2>1, <2>3, <2>4, <3>2, HolderTypes, HeldAt, HeldAtNext DEF Copy
        <4>2. QED
          BY <4>1
      <3>3. QED
        BY <3>1, <3>2, HolderTypes
    <2>5. src \in Holders
      BY HeldShape, HolderTypes
    <2>6. TakenOver(Held, Held', src, src, marked)
      BY <2>4 DEF TakenOver, Source
    <2>7. QED
      BY <1>7, <2>5, <2>6 DEF HeldKinds, Picked
  <1>8. ASSUME NEW j \in Jobs, Opened(j) PROVE HeldKinds
    <2>1. \A i \in Jobs : jobs'[i] = jobs[i] \/ jobs'[i].out = <<>>
      BY <1>8 DEF Opened, ShapeInv
    <2>2. Range(<<>>) = {}
      BY DEF Range
    <2>3. UNCHANGED <<current, pending, ckpt, nextNum, disk>>
      BY <1>8 DEF Opened
    <2>4. \A h \in Holders : Held'[h] \subseteq Held[h]
      BY <2>1, <2>2, <2>3, HolderTypes, HeldAt, HeldAtNext
    <2>5. QED
      BY <1>3, <2>3, <2>4
  <1>9. ASSUME NEW j \in Jobs, NEW m, NEW keys, OutputWritten(j, m, keys) PROVE HeldKinds
    <2>1. /\ m \in FileRec /\ m.num = nextNum /\ nextNum \in Nat /\ nextNum' = nextNum + 1
          /\ ckpt' = ckpt /\ current' = current /\ pending' = pending
      BY <1>9 DEF OutputWritten, NewTable, ShapeInv
    <2>2. /\ \A i \in Jobs : i # j => jobs'[i] = jobs[i]
          /\ jobs'[j].out = Append(jobs[j].out, m) /\ jobs[j].pc = "write"
      BY <1>9 DEF OutputWritten, ShapeInv
    <2>3. jobs[j].out \in Seq(FileRec)
      BY <2>2, HeldShape, WriteJob
    <2>4. \A e \in Range(jobs'[j].out) : e \in Range(jobs[j].out) \/ e = m
      BY <2>1, <2>2, <2>3, RangeOfAppend
    <2>5. OneNew(Held, Held', <<"job", j>>, m)
      <3>1. SUFFICES ASSUME NEW h \in Holders, NEW e \in Held'[h]
                     PROVE  e \in Held[h] \/ (h = <<"job", j>> /\ e = m)
        BY DEF OneNew
      <3>2. CASE h = <<"job", j>>
        BY <2>2, <2>4, <3>1, <3>2, HeldAt, HeldAtNext
      <3>3. CASE h # <<"job", j>>
        BY <2>1, <2>2, <3>1, <3>3, HolderTypes, HeldAt, HeldAtNext
      <3>4. QED
        BY <3>2, <3>3
    <2>6. QED
      BY <1>9, <2>5 DEF HeldKinds, OutputWritten
  <1>10. ASSUME NEW j \in Jobs, Finalized(j) PROVE HeldKinds
    <2> DEFINE level == jobs[j].level + 1
               added == jobs[j].out
               deleted == Marks(jobs[j].level, jobs[j].ins)
    <2>1. /\ jobs[j].pc = "write" /\ pending' = pending /\ nextNum' = nextNum
          /\ jobs' = [jobs EXCEPT ![j] = [pc |-> "ask"]]
          /\ Install(Applied(current, level, added, deleted, {}), minXip)
          /\ current' = Applied(current, level, added, deleted, {})
      BY <1>10 DEF Finalized, Install
    <2>2. level \in Levels /\ added \in Seq(FileRec)
      BY <2>1, HeldShape, WriteJob
    <2>3. /\ \A i \in Jobs : i # j => jobs'[i] = jobs[i]
          /\ jobs'[j].pc = "ask"
      BY <2>1 DEF ShapeInv
    <2> DEFINE src == <<"job", j>>
               dest == <<"level", level>>
    <2>4. Held'[src] = {} /\ Held[src] = Range(added) /\ src \in Holders /\ dest \in Holders
      BY <2>1, <2>2, <2>3, HolderTypes, HeldAt, HeldAtNext
    <2> HIDE DEF level, added, deleted
    <2>5. ASSUME NEW h \in Holders, NEW e \in Held'[h]
          PROVE  \E k \in Holders : \E f : Source(Held, Held', src, dest, {}, h, e, k, f)
      <3>1. CASE \E l \in Levels : h = <<"level", l>>
        <4>1. PICK l \in Levels : h = <<"level", l>>
          BY <3>1
        <4>2. \E f : /\ f \in Held[<<"level", l>>] \/ (l = level /\ f \in Range(added))
                     /\ e = Copy(<<"level", l>>, f, {})
          <5>1. e \in Held'[<<"level", l>>]
            BY <2>5, <4>1
          <5>2. TakenFrom(level, added, deleted, {}, l, e)
            BY <2>1, <2>2, <5>1, EditTaken
          <5>3. QED
            BY <5>2 DEF TakenFrom
        <4>6. PICK f : /\ f \in Held[h] \/ (l = level /\ f \in Range(added))
                       /\ e = Copy(h, f, {})
          BY <4>1, <4>2
        <4>3. CASE f \in Held[h]
          BY <4>6, <4>3 DEF Source
        <4>4. CASE l = level /\ f \in Range(added)
          BY <2>4, <4>1, <4>6, <4>4 DEF Source
        <4>5. QED
          BY <4>6, <4>3, <4>4
      <3>2. CASE h[1] # "level"
        <4>1. e \in Held[h]
          BY <2>1, <2>3, <2>4, <2>5, <3>2, HolderTypes, HeldAt, HeldAtNext
        <4>2. QED
          BY <4>1, CopyUnmarked DEF Source
      <3>3. QED
        BY <3>1, <3>2, HolderTypes
    <2>6. TakenOver(Held, Held', src, dest, {})
      BY <2>4, <2>5 DEF TakenOver
    <2>7. UNCHANGED <<nextNum, disk>> /\ ckpt'.files = current' /\ ckpt'.nextNum = nextNum
      BY <1>10 DEF Finalized, Install
    <2>8. QED
      BY <2>4, <2>6, <2>7 DEF HeldKinds
  <1>11. CASE CrashAndRestart
    <2>1. /\ current' = ckpt.files /\ nextNum' = ckpt.nextNum /\ pending' = {}
          /\ UNCHANGED <<ckpt, disk>>
          /\ \A j \in Jobs : jobs'[j].pc = "none"
      BY <1>11 DEF CrashAndRestart, NoJob
    <2>2. \A h \in Holders : Held'[h] \subseteq HeldByCheckpoint[h]
      BY <2>1, HolderTypes, CheckpointAt, HeldAtNext
    <2>3. QED
      BY <2>1, <2>2 DEF HeldKinds
  <1>12. QED
    BY <1>4, <1>5, <1>6, <1>7, <1>8, <1>9, <1>10, <1>11 DEF StepKinds

\* Where the checkpoint is not the same it is what the levels hold now.
LEMMA CheckpointKinds ==
  ASSUME ckpt' = ckpt \/ ckpt'.files = current'
  PROVE  \/ ckpt' = ckpt /\ \A h \in Holders : HeldByCheckpoint'[h] \subseteq HeldByCheckpoint[h]
         \/ \A h \in Holders : HeldByCheckpoint'[h] \subseteq Held'[h]
  <1>1. CASE ckpt' = ckpt
    <2>1. ASSUME NEW h \in Holders PROVE HeldByCheckpoint'[h] \subseteq HeldByCheckpoint[h]
      <3>1. CASE h[1] = "level"
        <4>1. PICK l \in Levels : h = <<"level", l>>
          BY <3>1, HolderTypes
        <4>2. HeldByCheckpoint'[h] = Range(ckpt.files[l]) /\ HeldByCheckpoint[h] = Range(ckpt.files[l])
          BY <1>1, <4>1, CheckpointAt, CheckpointAtNext
        <4>3. QED
          BY <4>2
      <3>2. CASE h[1] # "level"
        BY <3>2, CheckpointAtNext
      <3>3. QED
        BY <3>1, <3>2
    <2>2. QED
      BY <1>1, <2>1
  <1>2. CASE ckpt'.files = current'
    <2>1. \A h \in Holders : HeldByCheckpoint'[h] \subseteq Held'[h]
      BY <1>2, HolderTypes, HeldAtNext, CheckpointAtNext
    <2>2. QED
      BY <2>1
  <1>3. QED
    BY <1>1, <1>2

\* Numbers are not used twice, although a crash takes next_file_num back:
\* those that it hands out again are held by nobody any more.
LEMMA NumbersStep ==
  ASSUME ShapeInv, NumbersInv, HeldKinds
  PROVE  NumbersInv'
  <1> DEFINE Goal == /\ Distinct(Held') /\ Numbered(Held', nextNum')
                     /\ Distinct(HeldByCheckpoint') /\ Numbered(HeldByCheckpoint', ckpt'.nextNum)
  <1>1. SUFFICES Goal
    BY DEF NumbersInv, Distinct, Numbered, Holders, Levels, Jobs
  <1>2. ASSUME ckpt' = ckpt PROVE Distinct(HeldByCheckpoint') /\ Numbered(HeldByCheckpoint', ckpt'.nextNum)
    <2>1. CASE \A h \in Holders : HeldByCheckpoint'[h] \subseteq HeldByCheckpoint[h]
      BY <1>2, <2>1, HoldLess DEF NumbersInv
    <2>2. CASE ckpt'.files = ckpt.files
      <3>1. \A h \in Holders : HeldByCheckpoint'[h] \subseteq HeldByCheckpoint[h]
        BY <2>2, HolderTypes, CheckpointAt, CheckpointAtNext
      <3>2. QED
        BY <2>1, <3>1
    <2>3. QED
      BY <1>2, <2>2
  <1>3. CASE /\ \E src, dest \in Holders : \E marked : TakenOver(Held, Held', src, dest, marked)
             /\ UNCHANGED <<nextNum, disk>>
             /\ ckpt' = ckpt \/ (ckpt'.files = current' /\ ckpt'.nextNum = nextNum)
    <2>1. Distinct(Held') /\ Numbered(Held', nextNum)
      BY <1>3, TakeOver DEF NumbersInv
    <2>2. CASE ckpt' = ckpt
      BY <1>2, <1>3, <2>1, <2>2
    <2>3. CASE ckpt'.files = current' /\ ckpt'.nextNum = nextNum
      <3>1. \A h \in Holders : HeldByCheckpoint'[h] \subseteq Held'[h]
        BY <2>3, HolderTypes, HeldAtNext, CheckpointAtNext
      <3>2. QED
        BY <1>3, <2>1, <2>3, <3>1, HoldLess
    <2>4. QED
      BY <1>3, <2>2, <2>3
  <1>4. ASSUME NEW at, NEW m, NEW pairs, OneNew(Held, Held', at, m), NewTable(m, pairs) PROVE Goal
    <2>1. m \in FileRec /\ m.num = nextNum /\ nextNum \in Nat /\ nextNum' = nextNum + 1 /\ ckpt' = ckpt
      BY <1>4 DEF NewTable, ShapeInv
    <2>2. QED
      BY <1>2, <1>4, <2>1, TakeNew DEF NumbersInv
  <1>5. CASE /\ \A h \in Holders : Held'[h] \subseteq HeldByCheckpoint[h]
             /\ nextNum' = ckpt.nextNum /\ UNCHANGED <<ckpt, disk>>
    <2>1. Distinct(Held') /\ Numbered(Held', nextNum')
      BY <1>5, HoldLess DEF NumbersInv
    <2>2. QED
      BY <1>2, <1>5, <2>1
  <1>6. QED
    BY <1>3, <1>4, <1>5 DEF HeldKinds

-----------------------------------------------------------------------------
(* The jobs own their inputs. *)

InUse(f) == [f EXCEPT !.busy = TRUE]
IsBusy(f) == f.busy

\* A file in use is the same file but for the mark.
LEMMA InUseProperties ==
  ASSUME NEW f \in FileRec
  PROVE  /\ InUse(f) \in FileRec /\ InUse(f).num = f.num /\ InUse(f).size = f.size /\ InUse(f).xip = f.xip
         /\ InUse(f).inf = f.inf /\ InUse(f).sup = f.sup
  BY DEF InUse, FileRec

\* It is marked.
LEMMA InUseBusy ==
  ASSUME NEW f \in FileRec PROVE IsBusy(InUse(f))
  BY DEF InUse, FileRec, IsBusy

\* A file that is free is not.
LEMMA FreeNotBusy ==
  ASSUME NEW f, Free(f) PROVE ~ IsBusy(f)
  BY DEF Free, IsBusy

\* A file is marked after an edit if it was, or if the edit marks it.
LEMMA BusyFromMark ==
  ASSUME NEW f \in FileRec, NEW l, NEW marked, IsBusy(Marking(f, l, marked))
  PROVE  IsBusy(f) \/ <<l, f.num>> \in marked
  <1>1. CASE <<l, f.num>> \in marked
    BY <1>1
  <1>2. CASE <<l, f.num>> \notin marked
    BY <1>2 DEF Marking
  <1>3. QED
    BY <1>1, <1>2

\* Marking changes nothing for a file in use, and puts another one in use.
LEMMA MarkingInUse ==
  ASSUME NEW f \in FileRec, NEW l, NEW marked
  PROVE  /\ Marking(InUse(f), l, marked) = InUse(f)
         /\ <<l, f.num>> \in marked => Marking(f, l, marked) = InUse(f)
  BY DEF Marking, InUse, FileRec

\* An edit without marks leaves a file as it is.
LEMMA MarkingNone ==
  ASSUME NEW f, NEW l PROVE Marking(f, l, {}) = f
  BY DEF Marking

\* Job j works on f as a file of level l.
Among(level, ins, l, f) ==
  \/ l = level /\ f \in Range(ins[1])
  \/ l = level + 1 /\ f \in Range(ins[2])

Uses(j, l, f) == Running(j) /\ Among(jobs[j].level, jobs[j].ins, l, f)

\* The marks of a compaction are the levels and numbers of its inputs.
LEMMA MarksOf ==
  ASSUME NEW level, NEW ins, NEW l, NEW n
  PROVE  <<l, n>> \in Marks(level, ins) <=> \E f : Among(level, ins, l, f) /\ f.num = n
  BY DEF Marks, Among, Range

\* What a job works on is in the version, at its level and marked; no other
\* job works on it; and what is marked is worked on, or was before a crash.
OwnInv ==
  /\ \A j \in Jobs : \A l, f : Uses(j, l, f) => InUse(f) \in Range(current[l])
  /\ \A i, j \in Jobs : \A l, f, m, g : Uses(i, l, f) /\ Uses(j, m, g) /\ f.num = g.num => i = j
  /\ \A l \in Levels : \A f \in Range(current[l]) :
       IsBusy(f) => f.num \in stuck \/ \E j \in Jobs : \E m, g : Uses(j, m, g) /\ g.num = f.num

\* At most one job compacts level 0.
Level0Inv ==
  /\ \A j \in Jobs : Running(j) /\ jobs[j].level = 0 => l0Busy
  /\ \A i, j \in Jobs : Running(i) /\ Running(j) /\ jobs[i].level = 0 /\ jobs[j].level = 0 => i = j

\* What will be added to the version is not marked.
FreshInv ==
  /\ \A j \in Jobs : jobs[j].pc = "write" => \A f \in Range(jobs[j].out) : Free(f)
  /\ \A m \in pending : Free(m)

\* What a job works on are files of two levels.
LEMMA UsesTypes ==
  ASSUME ShapeInv, OrderInv, NEW j \in Jobs, NEW l, NEW f, Uses(j, l, f)
  PROVE  l \in Levels /\ f \in FileRec
  <1>1. JobOK(jobs[j]) /\ jobs[j].pc \in {"open", "write", "dead"}
    BY DEF Uses, Running, ShapeInv
  <1>2. jobs[j].level \in 0 .. NumLevels - 2 /\ jobs[j].ins \in InputSeqs
    BY <1>1, OpenJob, WriteJob
  <1>3. Range(jobs[j].ins[1]) \subseteq FileRec /\ Range(jobs[j].ins[2]) \subseteq FileRec
    BY <1>2, RangeOfSeq DEF InputSeqs
  <1>4. QED
    BY <1>2, <1>3, HeldShape DEF Uses, Among

\* The work stays what it is, but for that of job j; for all.
OthersWork(j) == \A i \in Jobs : i # j => \A l, f : Uses(i, l, f)' <=> Uses(i, l, f)
WorkSame == \A i \in Jobs : \A l, f : Uses(i, l, f)' <=> Uses(i, l, f)

\* Steps that neither pick nor finalize leave the inputs of all jobs alone.
LEMMA WorkStaysSame ==
  ASSUME ShapeInv,
         \/ Quiet
         \/ \E m, pairs : TableWritten(m, pairs)
         \/ \E m : TableInstalled(m)
         \/ \E j \in Jobs : Opened(j)
         \/ \E j \in Jobs : \E m, keys : OutputWritten(j, m, keys)
  PROVE  WorkSame
  <1> DEFINE Keeps == \A i \in Jobs :
                       /\ Running(i)' <=> Running(i)
                       /\ Running(i) => jobs'[i].level = jobs[i].level /\ jobs'[i].ins = jobs[i].ins
  <1>1. ASSUME Keeps
        PROVE  WorkSame
    BY <1>1 DEF WorkSame, Uses
  <1>2. CASE Quiet
    BY <1>1, <1>2 DEF Quiet, SameWork
  <1>3. ASSUME jobs' = jobs PROVE WorkSame
    BY <1>1, <1>3 DEF Running
  <1>4. ASSUME NEW m, NEW pairs, TableWritten(m, pairs) PROVE WorkSame
    BY <1>3, <1>4 DEF TableWritten
  <1>5. ASSUME NEW m, TableInstalled(m) PROVE WorkSame
    BY <1>3, <1>5 DEF TableInstalled
  <1>6. ASSUME NEW j \in Jobs, Opened(j) PROVE WorkSame
    <2>1. Keeps
      BY <1>6 DEF Opened, ShapeInv, Running
    <2> HIDE DEF Keeps
    <2>2. QED
      BY <1>1, <2>1
  <1>7. ASSUME NEW j \in Jobs, NEW m, NEW keys, OutputWritten(j, m, keys) PROVE WorkSame
    <2>1. Keeps
      BY <1>7 DEF OutputWritten, ShapeInv, Running
    <2> HIDE DEF Keeps
    <2>2. QED
      BY <1>1, <2>1
  <1>8. QED
    BY <1>2, <1>4, <1>5, <1>6, <1>7

\* Output files and flushed tables are made unmarked and stay so.
LEMMA FreshStep ==
  ASSUME ShapeInv, OrderInv, FreshInv, StepKinds
  PROVE  FreshInv'
  <1>1. Jobs' = Jobs
    BY DEF Jobs
  <1>2. ASSUME Quiet PROVE FreshInv'
    BY <1>1, <1>2 DEF Quiet, SameWork, FreshInv
  <1>3. ASSUME NEW m, NEW pairs, TableWritten(m, pairs) PROVE FreshInv'
    BY <1>1, <1>3 DEF TableWritten, NewTable, FreshInv
  <1>4. ASSUME NEW m, TableInstalled(m) PROVE FreshInv'
    BY <1>1, <1>4 DEF TableInstalled, FreshInv
  <1>5. ASSUME NEW j \in Jobs, NEW level, NEW f, NEW ins, Picked(j, level, f, ins) PROVE FreshInv'
    <2>1. \A i \in Jobs : jobs'[i].pc = "write" => jobs'[i] = jobs[i]
      BY <1>5 DEF Picked, ShapeInv
    <2>2. pending' = pending
      BY <1>5 DEF Picked
    <2>3. QED
      BY <1>1, <2>1, <2>2 DEF FreshInv
  <1>6. ASSUME NEW j \in Jobs, Opened(j) PROVE FreshInv'
    <2>1. \A i \in Jobs : jobs'[i] = jobs[i] \/ jobs'[i].out = <<>>
      BY <1>6 DEF Opened, ShapeInv
    <2>2. pending' = pending /\ Range(<<>>) = {}
      BY <1>6 DEF Opened, Range
    <2>3. QED
      BY <1>1, <2>1, <2>2 DEF FreshInv
  <1>7. ASSUME NEW j \in Jobs, NEW m, NEW keys, OutputWritten(j, m, keys) PROVE FreshInv'
    <2>1. /\ \A i \in Jobs : i # j => jobs'[i] = jobs[i]
          /\ jobs'[j].out = Append(jobs[j].out, m) /\ jobs[j].pc = "write"
      BY <1>7 DEF OutputWritten, ShapeInv
    <2>2. pending' = pending /\ Free(m) /\ m \in FileRec
      BY <1>7 DEF OutputWritten, NewTable
    <2>3. jobs[j].out \in Seq(FileRec)
      BY <2>1, HeldShape, WriteJob
    <2>4. \A e \in Range(jobs'[j].out) : e \in Range(jobs[j].out) \/ e = m
      BY <2>1, <2>2, <2>3, RangeOfAppend
    <2>5. \A e \in Range(jobs'[j].out) : Free(e)
      BY <2>1, <2>2, <2>4 DEF FreshInv
    <2>6. QED
      BY <1>1, <2>1, <2>2, <2>5 DEF FreshInv
  <1>8. ASSUME NEW j \in Jobs, Finalized(j) PROVE FreshInv'
    <2>1. \A i \in Jobs : jobs'[i].pc = "write" => jobs'[i] = jobs[i]
      BY <1>8 DEF Finalized, ShapeInv
    <2>2. pending' = pending
      BY <1>8 DEF Finalized
    <2>3. QED
      BY <1>1, <2>1, <2>2 DEF FreshInv
  <1>9. ASSUME CrashAndRestart PROVE FreshInv'
    BY <1>1, <1>9 DEF CrashAndRestart, NoJob, FreshInv
  <1>10. QED
    BY <1>2, <1>3, <1>4, <1>5, <1>6, <1>7, <1>8, <1>9 DEF StepKinds

\* level0_compactions_in_progress is set as long as a job compacts level 0.
LEMMA Level0Step ==
  ASSUME ShapeInv, OrderInv, Level0Inv, StepKinds
  PROVE  Level0Inv'
  <1>1. Jobs' = Jobs
    BY DEF Jobs
  <1>2. ASSUME \A j \in Jobs : Running(j)' => Running(j) /\ jobs'[j].level = jobs[j].level, l0Busy' = l0Busy
        PROVE  Level0Inv'
    BY <1>1, <1>2 DEF Level0Inv
  <1>3. ASSUME Quiet PROVE Level0Inv'
    BY <1>2, <1>3 DEF Quiet, SameWork
  <1>4. ASSUME jobs' = jobs, l0Busy' = l0Busy PROVE Level0Inv'
    BY <1>2, <1>4 DEF Running
  <1>5. ASSUME NEW m, NEW pairs, TableWritten(m, pairs) PROVE Level0Inv'
    BY <1>4, <1>5 DEF TableWritten, NewTable
  <1>6. ASSUME NEW m, TableInstalled(m) PROVE Level0Inv'
    BY <1>4, <1>6 DEF TableInstalled
  <1>7. ASSUME NEW j \in Jobs, NEW level, NEW f, NEW ins, Picked(j, level, f, ins) PROVE Level0Inv'
    <2>1. /\ \A i \in Jobs : i # j => jobs'[i] = jobs[i]
          /\ jobs'[j].level = level
          /\ level = 0 => ~ l0Busy
          /\ l0Busy' = (l0Busy \/ level = 0)
      BY <1>7 DEF Picked, ShapeInv
    <2>2. \A i \in Jobs : i # j /\ Running(i)' => Running(i)
      BY <2>1 DEF Running
    <2>3. QED
      BY <1>1, <2>1, <2>2 DEF Level0Inv
  <1>8. ASSUME NEW j \in Jobs, Opened(j) PROVE Level0Inv'
    <2>1. \A i \in Jobs : Running(i)' => Running(i) /\ jobs'[i].level = jobs[i].level
      BY <1>8 DEF Opened, ShapeInv, Running
    <2>2. QED
      BY <1>2, <1>8, <2>1 DEF Opened
  <1>9. ASSUME NEW j \in Jobs, NEW m, NEW keys, OutputWritten(j, m, keys) PROVE Level0Inv'
    <2>1. \A i \in Jobs : Running(i)' => Running(i) /\ jobs'[i].level = jobs[i].level
      BY <1>9 DEF OutputWritten, ShapeInv, Running
    <2>2. QED
      BY <1>2, <1>9, <2>1 DEF OutputWritten, NewTable
  <1>10. ASSUME NEW j \in Jobs, Finalized(j) PROVE Level0Inv'
    <2>1. /\ \A i \in Jobs : Running(i)' => i # j /\ Running(i) /\ jobs'[i].level = jobs[i].level
          /\ Running(j)
          /\ l0Busy' = (l0Busy /\ jobs[j].level # 0)
      BY <1>10 DEF Finalized, ShapeInv, Running
    <2>2. QED
      BY <1>1, <2>1 DEF Level0Inv
  <1>11. ASSUME CrashAndRestart PROVE Level0Inv'
    BY <1>1, <1>11 DEF CrashAndRestart, NoJob, Running, Level0Inv
  <1>12. QED
    BY <1>3, <1>5, <1>6, <1>7, <1>8, <1>9, <1>10, <1>11 DEF StepKinds

\* After a pick: the work of the job that picked.
LEMMA WorkPicked ==
  ASSUME ShapeInv, NEW j \in Jobs, NEW level, NEW f0, NEW ins, Picked(j, level, f0, ins)
  PROVE  /\ OthersWork(j)
         /\ \A l, f : ~ Uses(j, l, f)
         /\ \A l, f : Uses(j, l, f)' <=> Among(level, ins, l, f)
  <1>1. /\ \A i \in Jobs : i # j => jobs'[i] = jobs[i]
        /\ jobs'[j].pc = "open" /\ jobs'[j].level = level /\ jobs'[j].ins = ins
        /\ jobs[j].pc = "pick"
    BY DEF Picked, ShapeInv
  <1>2. QED
    BY <1>1 DEF OthersWork, Uses, Running

\* After the edit of a compaction: its job works on nothing any more.
LEMMA WorkFinalized ==
  ASSUME ShapeInv, NEW j \in Jobs, Finalized(j)
  PROVE  /\ OthersWork(j)
         /\ \A l, f : ~ Uses(j, l, f)'
         /\ \A l, f : Uses(j, l, f) <=> Among(jobs[j].level, jobs[j].ins, l, f)
  <1>1. /\ \A i \in Jobs : i # j => jobs'[i] = jobs[i]
        /\ jobs'[j].pc = "ask" /\ jobs[j].pc = "write"
    BY DEF Finalized, ShapeInv
  <1>2. QED
    BY <1>1 DEF OthersWork, Uses, Running

\* The inputs that are picked are files of the version, and free.
LEMMA PickedFree ==
  ASSUME OrderInv, NEW level, NEW f0, NEW ins, InputsFit(current, level, f0, ins),
         level \in 0 .. NumLevels - 2,
         ~ AnyBusy(ins[1]), ~ AnyBusy(ins[2]), NEW l, NEW f, Among(level, ins, l, f)
  PROVE  l \in Levels /\ f \in FileRec /\ f \in Range(current[l]) /\ ~ IsBusy(f)
  <1>1. /\ level \in Levels /\ level + 1 \in Levels /\ current \in Versions
    BY OptionsAssumption DEF Levels, OrderInv, InOrder
  <1>2. /\ l \in Levels /\ f \in Range(current[l])
        /\ f \in Range(ins[1]) \/ f \in Range(ins[2])
    BY <1>1 DEF Among, InputsFit
  <1>3. ~ IsBusy(f)
    BY <1>2 DEF AnyBusy, Range, IsBusy
  <1>4. Range(current[l]) \subseteq FileRec
    BY <1>1, <1>2, RangeOfSeq DEF Versions
  <1>5. QED
    BY <1>2, <1>3, <1>4

\* Files of the version that have one number are one file, at one level.
LEMMA OneNumber ==
  ASSUME NumbersInv, NEW l \in Levels, NEW m \in Levels, NEW f \in Range(current[l]), NEW g \in Range(current[m]),
         f.num = g.num
  PROVE  l = m /\ f = g
  <1>1. f \in Held[<<"level", l>>] /\ g \in Held[<<"level", m>>]
    BY HeldAt
  <1>2. <<"level", l>> = <<"level", m>> /\ f = g
    BY <1>1, HolderTypes DEF NumbersInv, Distinct
  <1>3. QED
    BY <1>2

\* The inputs stay where they are: what one job takes is not marked, what it
\* deletes is its own, and a crash leaves no jobs.
LEMMA OwnStep ==
  ASSUME ShapeInv, OrderInv, NumbersInv, FreshInv, OwnInv, StepKinds
  PROVE  OwnInv'
  <1> DEFINE Owns == \A j \in Jobs : \A l, f : Uses(j, l, f)' => InUse(f) \in Range(current'[l])
             Exclusive == \A i, j \in Jobs : \A l, f, m, g : Uses(i, l, f)' /\ Uses(j, m, g)' /\ f.num = g.num => i = j
             Accounted == \A l \in Levels : \A f \in Range(current'[l]) :
                 IsBusy(f) => f.num \in stuck' \/ \E j \in Jobs : \E m, g : Uses(j, m, g)' /\ g.num = f.num
  <1>1. SUFFICES Owns /\ Exclusive /\ Accounted
    BY DEF OwnInv, Jobs, Levels, IsBusy, InUse
  <1>2. ASSUME WorkSame, current' = current, stuck' = stuck PROVE Owns /\ Exclusive /\ Accounted
    BY <1>2 DEF OwnInv, WorkSame
  <1>3. ASSUME WorkSame PROVE Exclusive
    BY <1>3 DEF OwnInv, WorkSame
  <1>4. CASE Quiet
    BY <1>2, <1>4, WorkStaysSame DEF Quiet
  <1>5. ASSUME NEW m, NEW pairs, TableWritten(m, pairs) PROVE Owns /\ Exclusive /\ Accounted
    BY <1>2, <1>5, WorkStaysSame DEF TableWritten, NewTable
  <1>6. ASSUME NEW t, TableInstalled(t) PROVE Owns /\ Exclusive /\ Accounted
    <2>1. /\ t \in pending /\ stuck' = stuck /\ WorkSame
          /\ current' = Applied(current, 0, <<t>>, {}, {})
      BY <1>6, WorkStaysSame DEF TableInstalled, Install
    <2>2. /\ <<t>> \in Seq(FileRec) /\ Range(<<t>>) = {t}
          /\ current \in Versions /\ ~ IsBusy(t)
      BY <2>1, HeldShape, FreeNotBusy DEF Range, ShapeInv, FlushOK, FreshInv
    <2>3. Owns
      <3>1. SUFFICES ASSUME NEW j \in Jobs, NEW l, NEW f, Uses(j, l, f)' PROVE InUse(f) \in Range(current'[l])
        OBVIOUS
      <3>2. l \in Levels /\ InUse(f) \in Range(current[l])
        BY <2>1, <3>1, UsesTypes DEF OwnInv, WorkSame
      <3>3. Marking(InUse(f), l, {}) \in Range(Applied(current, 0, <<t>>, {}, {})[l])
        BY <2>2, <3>2, EditedTo
      <3>4. QED
        BY <2>1, <3>3, MarkingNone
    <2>4. Accounted
      <3>1. SUFFICES ASSUME NEW l \in Levels, NEW e \in Range(current'[l]), IsBusy(e)
                     PROVE  e.num \in stuck' \/ \E j \in Jobs : \E m, g : Uses(j, m, g)' /\ g.num = e.num
        OBVIOUS
      <3>2. ComesFrom(current, 0, <<t>>, {}, {}, l, e)
        BY <2>1, <2>2, <3>1, EditedFrom
      <3>3. PICK f \in FileRec : /\ f \in Range(current[l]) \/ (l = 0 /\ f \in Range(<<t>>))
                                 /\ e = Marking(f, l, {})
        BY <3>2 DEF ComesFrom
      <3>4. e = f
        BY <3>3, MarkingNone
      <3>5. e \in Range(current[l])
        BY <2>2, <3>1, <3>3, <3>4
      <3>6. QED
        BY <2>1, <3>1, <3>5 DEF OwnInv, WorkSame
    <2>5. QED
      BY <1>3, <2>1, <2>3, <2>4
  <1>7. ASSUME NEW j \in Jobs, NEW level, NEW f0, NEW ins, Picked(j, level, f0, ins)
        PROVE  Owns /\ Exclusive /\ Accounted
    <2> DEFINE marked == Marks(level, ins)
    <2>1. /\ level \in 0 .. NumLevels - 2
          /\ InputsFit(current, level, f0, ins)
          /\ ~ AnyBusy(ins[1]) /\ ~ AnyBusy(ins[2])
          /\ current' = Applied(current, level, <<>>, {}, marked)
          /\ stuck' = stuck
      BY <1>7 DEF Picked
    <2>2. /\ OthersWork(j)
          /\ \A l, f : ~ Uses(j, l, f)
          /\ \A l, f : Uses(j, l, f)' <=> Among(level, ins, l, f)
      BY <1>7, WorkPicked
    <2>3. ASSUME NEW l, NEW f, Among(level, ins, l, f)
          PROVE  l \in Levels /\ f \in FileRec /\ f \in Range(current[l]) /\ ~ IsBusy(f)
      BY <2>1, <2>3, PickedFree
    <2>4. ASSUME NEW l, NEW n PROVE <<l, n>> \in marked <=> \E f : Among(level, ins, l, f) /\ f.num = n
      BY MarksOf
    <2> HIDE DEF marked
    <2>5. /\ <<>> \in Seq(FileRec) /\ Range(<<>>) = {} /\ current \in Versions
      BY EmptySeq, HeldShape DEF Range
    <2>6. ASSUME NEW l \in Levels, NEW f \in Range(current[l])
          PROVE  Marking(f, l, marked) \in Range(current'[l])
      BY <2>1, <2>5, <2>6, EditedTo
    <2>7. Owns
      <3>1. SUFFICES ASSUME NEW i \in Jobs, NEW l, NEW f, Uses(i, l, f)' PROVE InUse(f) \in Range(current'[l])
        OBVIOUS
      <3>2. CASE i # j
        <4>1. Uses(i, l, f)
          BY <2>2, <3>1, <3>2 DEF OthersWork
        <4>2. l \in Levels /\ f \in FileRec /\ InUse(f) \in Range(current[l])
          BY <4>1, UsesTypes DEF OwnInv
        <4>3. Marking(InUse(f), l, marked) \in Range(current'[l])
          BY <2>6, <4>2
        <4>4. QED
          BY <4>2, <4>3, MarkingInUse
      <3>3. CASE i = j
        <4>1. Among(level, ins, l, f)
          BY <2>2, <3>1, <3>3
        <4>2. l \in Levels /\ f \in FileRec /\ f \in Range(current[l]) /\ <<l, f.num>> \in marked
          BY <2>3, <2>4, <4>1
        <4>3. QED
          BY <2>6, <4>2, MarkingInUse
      <3>4. QED
        BY <3>2, <3>3
    <2>8. ASSUME NEW i \in Jobs, i # j, NEW l, NEW f, NEW m, NEW g, Uses(i, l, f), Among(level, ins, m, g)
          PROVE  f.num # g.num
      <3>1. l \in Levels /\ f \in FileRec /\ InUse(f) \in Range(current[l])
        BY <2>8, UsesTypes DEF OwnInv
      <3>2. m \in Levels /\ g \in Range(current[m]) /\ ~ IsBusy(g)
        BY <2>3, <2>8
      <3>3. InUse(f) # g /\ InUse(f).num = f.num
        BY <3>1, <3>2, InUseBusy, InUseProperties
      <3>4. QED
        BY <3>1, <3>2, <3>3, OneNumber
    <2>9. Exclusive
      <3>1. SUFFICES ASSUME NEW i \in Jobs, NEW k \in Jobs, NEW l, NEW f, NEW m, NEW g,
                            Uses(i, l, f)', Uses(k, m, g)', f.num = g.num, i # k
                     PROVE  FALSE
        OBVIOUS
      <3>2. CASE i # j /\ k # j
        BY <2>2, <3>1, <3>2 DEF OwnInv, OthersWork
      <3>3. CASE i # j /\ k = j
        BY <2>2, <2>8, <3>1, <3>3 DEF OthersWork
      <3>4. CASE i = j /\ k # j
        BY <2>2, <2>8, <3>1, <3>4 DEF OthersWork
      <3>5. QED
        BY <3>1, <3>2, <3>3, <3>4
    <2>10. Accounted
      <3>1. SUFFICES ASSUME NEW l \in Levels, NEW e \in Range(current'[l]), IsBusy(e)
                     PROVE  e.num \in stuck' \/ \E i \in Jobs : \E m, g : Uses(i, m, g)' /\ g.num = e.num
        OBVIOUS
      <3>2. ComesFrom(current, level, <<>>, {}, marked, l, e)
        BY <2>1, <2>5, <3>1, EditedFrom
      <3>3. PICK f \in FileRec : f \in Range(current[l]) /\ e = Marking(f, l, marked)
        BY <2>5, <3>2 DEF ComesFrom
      <3>4. e.num = f.num /\ (IsBusy(f) \/ <<l, f.num>> \in marked)
        BY <3>1, <3>3, MarkingProperties, BusyFromMark
      <3>5. CASE IsBusy(f)
        <4>1. f.num \in stuck \/ \E i \in Jobs : \E m, g : Uses(i, m, g) /\ g.num = f.num
          BY <3>3, <3>5 DEF OwnInv
        <4>2. QED
          BY <2>1, <2>2, <3>4, <4>1 DEF OthersWork
      <3>6. CASE <<l, f.num>> \in marked
        <4>1. \E g : Among(level, ins, l, g) /\ g.num = f.num
          BY <2>4, <3>6
        <4>2. QED
          BY <2>2, <3>4, <4>1
      <3>7. QED
        BY <3>4, <3>5, <3>6
    <2>11. QED
      BY <2>7, <2>9, <2>10
  <1>8. ASSUME NEW j \in Jobs, Opened(j) PROVE Owns /\ Exclusive /\ Accounted
    BY <1>2, <1>8, WorkStaysSame DEF Opened
  <1>9. ASSUME NEW j \in Jobs, NEW m, NEW keys, OutputWritten(j, m, keys) PROVE Owns /\ Exclusive /\ Accounted
    BY <1>2, <1>9, WorkStaysSame DEF OutputWritten, NewTable
  <1>10. ASSUME NEW j \in Jobs, Finalized(j) PROVE Owns /\ Exclusive /\ Accounted
    <2> DEFINE level == jobs[j].level + 1
               added == jobs[j].out
               deleted == Marks(jobs[j].level, jobs[j].ins)
    <2>1. /\ jobs[j].pc = "write" /\ stuck' = stuck
          /\ current' = Applied(current, level, added, deleted, {})
      BY <1>10 DEF Finalized, Install
    <2>2. added \in Seq(FileRec) /\ current \in Versions
      BY <2>1, HeldShape, WriteJob
    <2>3. \A f \in Range(added) : ~ IsBusy(f)
      BY <2>1, FreeNotBusy DEF FreshInv
    <2>4. /\ OthersWork(j)
          /\ \A l, f : ~ Uses(j, l, f)'
          /\ \A l, f : Uses(j, l, f) <=> Among(jobs[j].level, jobs[j].ins, l, f)
      BY <1>10, WorkFinalized
    <2>5. ASSUME NEW l, NEW n PROVE <<l, n>> \in deleted <=> \E f : Uses(j, l, f) /\ f.num = n
      BY <2>4, MarksOf
    <2> HIDE DEF level, added, deleted
    <2>6. Owns
      <3>1. SUFFICES ASSUME NEW i \in Jobs, NEW l, NEW f, Uses(i, l, f)' PROVE InUse(f) \in Range(current'[l])
        OBVIOUS
      <3>2. i # j /\ Uses(i, l, f)
        BY <2>4, <3>1 DEF OthersWork
      <3>3. l \in Levels /\ f \in FileRec /\ InUse(f) \in Range(current[l]) /\ InUse(f).num = f.num
        BY <3>2, UsesTypes, InUseProperties DEF OwnInv
      <3>4. <<l, f.num>> \notin deleted
        BY <2>5, <3>2 DEF OwnInv
      <3>5. Marking(InUse(f), l, {}) \in Range(Applied(current, level, added, deleted, {})[l])
        BY <2>2, <3>3, <3>4, EditedTo
      <3>6. QED
        BY <2>1, <3>5, MarkingNone
    <2>7. Exclusive
      BY <2>4 DEF OwnInv, OthersWork
    <2>8. Accounted
      <3>1. SUFFICES ASSUME NEW l \in Levels, NEW e \in Range(current'[l]), IsBusy(e)
                     PROVE  e.num \in stuck' \/ \E i \in Jobs : \E m, g : Uses(i, m, g)' /\ g.num = e.num
        OBVIOUS
      <3>2. ComesFrom(current, level, added, deleted, {}, l, e)
        BY <2>1, <2>2, <3>1, EditedFrom
      <3>3. PICK f \in FileRec : /\ f \in Range(current[l]) \/ (l = level /\ f \in Range(added))
                                 /\ <<l, f.num>> \notin deleted
                                 /\ e = Marking(f, l, {})
        BY <3>2 DEF ComesFrom
      <3>4. e = f
        BY <3>3, MarkingNone
      <3>5. e \in Range(current[l])
        BY <2>3, <3>1, <3>3, <3>4
      <3>6. e.num \in stuck \/ \E i \in Jobs : \E m, g : Uses(i, m, g) /\ g.num = e.num
        BY <3>1, <3>5 DEF OwnInv
      <3>7. ASSUME NEW m, NEW g, Uses(j, m, g), g.num = e.num PROVE FALSE
        <4>1. m \in Levels /\ g \in FileRec /\ InUse(g) \in Range(current[m]) /\ InUse(g).num = g.num
          BY <3>7, UsesTypes, InUseProperties DEF OwnInv
        <4>2. m = l
          BY <3>5, <3>7, <4>1, OneNumber
        <4>3. <<l, e.num>> \in deleted
          BY <2>5, <3>7, <4>2
        <4>4. QED
          BY <3>3, <3>4, <4>3
      <3>8. QED
        BY <2>1, <2>4, <3>6, <3>7 DEF OthersWork
    <2>9. QED
      BY <2>6, <2>7, <2>8
  <1>11. CASE CrashAndRestart
    <2>1. /\ \A j \in Jobs : jobs'[j].pc = "none"
          /\ current' = ckpt.files /\ stuck' = Marked(ckpt.files)
      BY <1>11 DEF CrashAndRestart, NoJob
    <2>2. \A j \in Jobs : \A l, f : ~ Uses(j, l, f)'
      BY <2>1 DEF Uses, Running
    <2>3. \A l \in Levels : \A f \in Range(ckpt.files[l]) : IsBusy(f) => f.num \in Marked(ckpt.files)
      BY DEF Marked, IsBusy
    <2>4. QED
      BY <2>1, <2>2, <2>3
  <1>12. QED
    BY <1>4, <1>5, <1>6, <1>7, <1>8, <1>9, <1>10, <1>11 DEF StepKinds

-----------------------------------------------------------------------------
(* Every file that is held has its table file. *)

\* The table file of f is there; one that can be read has its pairs, which
\* lie in its range.
OnDisk(f, d) ==
  /\ f.num \in DOMAIN d
  /\ f.xip \in Ts \cup {0}
  /\ DOMAIN d[f.num].pairs \subseteq Keys
  /\ d[f.num].ok =>
       /\ \A k \in DOMAIN d[f.num].pairs : f.inf <= k /\ k <= f.sup
       /\ f.size = Cardinality(DOMAIN d[f.num].pairs)

AllOnDisk(held, d) == \A h \in Holders : \A f \in held[h] : OnDisk(f, d)

DiskInv == AllOnDisk(Held, disk) /\ AllOnDisk(HeldByCheckpoint, disk)

\* A copy has the same table file.
LEMMA CopyOnDisk ==
  ASSUME NEW f \in FileRec, NEW h, NEW marked, NEW d, OnDisk(f, d)
  PROVE  OnDisk(Copy(h, f, marked), d)
  <1>1. /\ Copy(h, f, marked).num = f.num /\ Copy(h, f, marked).xip = f.xip /\ Copy(h, f, marked).size = f.size
        /\ Copy(h, f, marked).inf = f.inf /\ Copy(h, f, marked).sup = f.sup
    BY MarkingProperties DEF Copy
  <1>2. QED
    BY <1>1 DEF OnDisk

\* A new table file leaves those of other numbers alone ...
LEMMA OldOnDisk ==
  ASSUME NEW m, NEW pairs, NewTable(m, pairs), NEW f \in FileRec, OnDisk(f, disk), f.num # nextNum
  PROVE  OnDisk(f, disk')
  <1>1. disk' = Written(nextNum, pairs)
    BY DEF NewTable
  <1>2. f.num \in DOMAIN disk' /\ disk'[f.num] = disk[f.num]
    BY <1>1 DEF Written, OnDisk
  <1>3. QED
    BY <1>2 DEF OnDisk

\* ... and holds the pairs that it was written with.
LEMMA NewOnDisk ==
  ASSUME NEW m, NEW pairs, NewTable(m, pairs)
  PROVE  OnDisk(m, disk')
  <1>1. disk' = Written(nextNum, pairs) /\ m.num = nextNum
    BY DEF NewTable
  <1>2. nextNum \in DOMAIN disk' /\ disk'[nextNum].pairs = pairs
    BY <1>1 DEF Written
  <1>3. QED
    BY <1>1, <1>2 DEF NewTable, OnDisk

\* Table files stay as long as they are held: a file written over one that
\* a crash has left behind has a number that nobody holds.
LEMMA DiskStep ==
  ASSUME ShapeInv, NumbersInv, DiskInv, HeldKinds
  PROVE  DiskInv'
  <1>1. SUFFICES AllOnDisk(Held', disk') /\ AllOnDisk(HeldByCheckpoint', disk')
    BY DEF DiskInv, AllOnDisk, Holders, Levels, Jobs, OnDisk, Ts
  <1>2. ASSUME NEW src, NEW dest, NEW marked, TakenOver(Held, Held', src, dest, marked)
        PROVE  AllOnDisk(Held', disk)
    <2>1. SUFFICES ASSUME NEW h \in Holders, NEW e \in Held'[h] PROVE OnDisk(e, disk)
      BY DEF AllOnDisk
    <2>2. PICK k, f : k \in Holders /\ f \in Held[k] /\ e = Copy(h, f, marked)
      BY <1>2, <2>1 DEF TakenOver, Source
    <2>3. f \in FileRec /\ OnDisk(f, disk)
      BY <2>2 DEF NumbersInv, Numbered, DiskInv, AllOnDisk
    <2>4. QED
      BY <2>2, <2>3, CopyOnDisk
  <1>3. CASE /\ \E src, dest \in Holders : \E marked : TakenOver(Held, Held', src, dest, marked)
             /\ UNCHANGED <<nextNum, disk>>
             /\ ckpt' = ckpt \/ (ckpt'.files = current' /\ ckpt'.nextNum = nextNum)
    <2>1. AllOnDisk(Held', disk) /\ disk' = disk
      BY <1>2, <1>3
    <2>2. \/ \A h \in Holders : HeldByCheckpoint'[h] \subseteq HeldByCheckpoint[h]
          \/ \A h \in Holders : HeldByCheckpoint'[h] \subseteq Held'[h]
      BY <1>3, CheckpointKinds
    <2>3. QED
      BY <2>1, <2>2 DEF AllOnDisk, DiskInv
  <1>4. ASSUME NEW at, NEW m, NEW pairs, OneNew(Held, Held', at, m), NewTable(m, pairs)
        PROVE  AllOnDisk(Held', disk') /\ AllOnDisk(HeldByCheckpoint', disk')
    <2>1. ckpt' = ckpt /\ ckpt.nextNum \in Nat /\ nextNum \in Nat /\ ckpt.nextNum <= nextNum
      BY <1>4 DEF NewTable, ShapeInv
    <2>2. ASSUME NEW h \in Holders, NEW f \in Held[h] PROVE OnDisk(f, disk')
      <3>1. f \in FileRec /\ f.num < nextNum /\ OnDisk(f, disk)
        BY <2>2 DEF NumbersInv, Numbered, DiskInv, AllOnDisk
      <3>2. f.num # nextNum
        BY <2>1, <3>1
      <3>3. QED
        BY <1>4, <3>1, <3>2, OldOnDisk
    <2>3. ASSUME NEW h \in Holders, NEW f \in HeldByCheckpoint[h] PROVE OnDisk(f, disk')
      <3>1. f \in FileRec /\ f.num < ckpt.nextNum /\ OnDisk(f, disk)
        BY <2>3 DEF NumbersInv, Numbered, DiskInv, AllOnDisk
      <3>2. f.num # nextNum
        BY <2>1, <3>1 DEF FileRec
      <3>3. QED
        BY <1>4, <3>1, <3>2, OldOnDisk
    <2>4. OnDisk(m, disk')
      BY <1>4, NewOnDisk
    <2>5. AllOnDisk(Held', disk')
      BY <1>4, <2>2, <2>4 DEF AllOnDisk, OneNew
    <2>6. \A h \in Holders : HeldByCheckpoint'[h] \subseteq HeldByCheckpoint[h]
      BY <2>1, HolderTypes, CheckpointAt, CheckpointAtNext
    <2>7. QED
      BY <2>3, <2>5, <2>6 DEF AllOnDisk
  <1>5. CASE /\ \A h \in Holders : Held'[h] \subseteq HeldByCheckpoint[h]
             /\ nextNum' = ckpt.nextNum /\ UNCHANGED <<ckpt, disk>>
    <2>1. \A h \in Holders : HeldByCheckpoint'[h] \subseteq HeldByCheckpoint[h]
      BY <1>5, HolderTypes, CheckpointAt, CheckpointAtNext
    <2>2. QED
      BY <1>5, <2>1 DEF AllOnDisk, DiskInv
  <1>6. QED
    BY <1>3, <1>4, <1>5 DEF HeldKinds

\* What a job works on has its table file.
LEMMA InputsOnDisk ==
  ASSUME ShapeInv, OrderInv, OwnInv, DiskInv, NEW j \in Jobs, NEW l, NEW f, Uses(j, l, f)
  PROVE  OnDisk(f, disk)
  <1>1. l \in Levels /\ f \in FileRec /\ InUse(f) \in Held[<<"level", l>>]
    BY UsesTypes, HeldAt DEF OwnInv
  <1>2. OnDisk(InUse(f), disk)
    BY <1>1, HolderTypes DEF DiskInv, AllOnDisk
  <1>3. QED
    BY <1>1, <1>2, InUseProperties DEF OnDisk

\* In particular when a job opens its inputs.
LEMMA OwnedPairs ==
  ASSUME ShapeInv, OrderInv, OwnInv, DiskInv
  PROVE  PairsOK
  <1>1. SUFFICES ASSUME NEW j \in Jobs, jobs[j].pc = "open",
                        NEW f \in Range(jobs[j].ins[1]) \cup Range(jobs[j].ins[2])
                 PROVE  DOMAIN disk[f.num].pairs \subseteq Keys
    BY DEF PairsOK
  <1>2. \E l : Uses(j, l, f)
    BY <1>1 DEF Uses, Running, Among
  <1>3. QED
    BY <1>2, InputsOnDisk DEF OnDisk

-----------------------------------------------------------------------------
(* What a job writes lies between its inputs, in order. *)

Work(c) == Range(c.ins[1]) \cup Range(c.ins[2])

\* The range does not reach beyond the inputs of job c.
Covered(c, inf, sup) == \E a, b \in Work(c) : a.inf <= inf /\ sup <= b.sup

OutOK(c) ==
  /\ Sorted(c.out)
  /\ \A g \in Range(c.out) : Covered(c, g.inf, g.sup) /\ \A k \in DOMAIN c.rest : g.sup < k
  /\ \A k \in DOMAIN c.rest : Covered(c, k, k)

OutInv == \A j \in Jobs : jobs[j].pc = "write" => OutOK(jobs[j])

\* A file beyond all others keeps a sequence sorted.
LEMMA SortedAppend ==
  ASSUME NEW s \in Seq(FileRec), Sorted(s), NEW m \in FileRec, m.inf <= m.sup,
         \A f \in Range(s) : f.sup < m.inf
  PROVE  Sorted(Append(s, m))
  <1> DEFINE t == Append(s, m)
  <1>1. /\ DOMAIN t = 1 .. Len(s) + 1 /\ DOMAIN s = 1 .. Len(s) /\ Len(s) \in Nat
        /\ t[Len(s) + 1] = m
        /\ \A i \in 1 .. Len(s) : t[i] = s[i] /\ s[i] \in FileRec /\ s[i] \in Range(s)
    BY LenProperties, AppendProperties DEF Range
  <1> HIDE DEF t
  <1>2. ASSUME NEW i \in DOMAIN t, NEW k \in DOMAIN t, i < k PROVE <<t[i], t[k]>> \in Below
    <2>1. i \in 1 .. Len(s)
      BY <1>1, <1>2
    <2>2. CASE k \in 1 .. Len(s)
      BY <1>1, <1>2, <2>1, <2>2 DEF Sorted, Ordered
    <2>3. CASE k = Len(s) + 1
      BY <1>1, <2>1, <2>3 DEF Below
    <2>4. QED
      BY <1>1, <2>2, <2>3
  <1>3. \A f \in Range(t) : f.inf <= f.sup
    <2>1. SUFFICES ASSUME NEW f \in Range(t) PROVE f.inf <= f.sup
      OBVIOUS
    <2>2. f \in Range(s) \/ f = m
      BY <2>1, RangeOfAppend DEF t
    <2>3. QED
      BY <2>2 DEF Sorted
  <1>4. QED
    BY <1>2, <1>3 DEF Sorted, Ordered, t

\* Every pair that a job has yet to write is of one of its inputs.
LEMMA OpenedCovers ==
  ASSUME ShapeInv, OrderInv, OwnInv, DiskInv, NEW j \in Jobs, Opened(j)
  PROVE  OutOK(jobs'[j])
  <1> DEFINE c == jobs[j]
             d == jobs'[j]
  <1>1. /\ c.pc = "open" /\ JobOK(c)
        /\ \A f \in Range(c.ins[1]) \cup Range(c.ins[2]) : disk[f.num].ok
        /\ d.ins = c.ins /\ d.out = <<>> /\ d.rest = MergedPairs(c.level, c.ins, disk)
    BY DEF Opened, ShapeInv
  <1>2. c.ins \in Seq(FileRec) \X Seq(FileRec)
    BY <1>1, OpenJob DEF InputSeqs
  <1>3. ASSUME NEW k \in DOMAIN d.rest PROVE Covered(d, k, k)
    <2>1. PICK f \in Range(c.ins[1]) \cup Range(c.ins[2]) : k \in DOMAIN disk[f.num].pairs
      BY <1>1, <1>2, <1>3, MergedDomain
    <2>2. \E l : Uses(j, l, f)
      BY <1>1, <2>1 DEF Uses, Running, Among
    <2>3. OnDisk(f, disk) /\ disk[f.num].ok
      BY <1>1, <2>1, <2>2, InputsOnDisk
    <2>4. f.inf <= k /\ k <= f.sup /\ f \in Work(d)
      BY <1>1, <2>1, <2>3 DEF OnDisk, Work
    <2>5. QED
      BY <2>4 DEF Covered
  <1>4. Sorted(<<>>) /\ Range(<<>>) = {}
    BY DEF Sorted, Ordered, Range
  <1>5. QED
    BY <1>1, <1>3, <1>4 DEF OutOK

\* An output file takes the lowest pairs that are left.
LEMMA OutputCovered ==
  ASSUME ShapeInv, OutInv, NEW j \in Jobs, NEW m, NEW keys, OutputWritten(j, m, keys)
  PROVE  OutOK(jobs'[j])
  <1> DEFINE c == jobs[j]
             d == jobs'[j]
             D == DOMAIN c.rest
  <1>1. /\ c.pc = "write" /\ D # {} /\ keys = OutputKeys(c.rest)
        /\ m = File(nextNum, Cardinality(keys), DefaultTs, Min(keys), Max(keys))
        /\ m \in FileRec /\ m.inf <= m.sup
        /\ d.ins = c.ins /\ d.out = Append(c.out, m) /\ d.rest = Restrict(c.rest, D \ keys)
    BY DEF OutputWritten, NewTable, ShapeInv
  <1>2. c.out \in Seq(FileRec) /\ D \subseteq Keys /\ OutOK(c)
    BY <1>1, WriteJob DEF ShapeInv, OutInv
  <1>3. D \subseteq Int /\ IsFiniteSet(D)
    BY <1>2, VersionSetAssumption, FS_Subset
  <1>4. /\ keys \subseteq D /\ keys # {}
        /\ \A k \in keys, l \in D \ keys : k < l
    BY <1>1, <1>3, OutputProperties
  <1>5. keys \subseteq Int /\ IsFiniteSet(keys)
    BY <1>3, <1>4, FS_Subset
  <1>6. Min(keys) \in keys /\ Max(keys) \in keys
    BY <1>4, <1>5, MinAndMax
  <1>7. m.inf = Min(keys) /\ m.sup = Max(keys)
    BY <1>1 DEF File
  <1>8. DOMAIN d.rest = D \ keys
    BY <1>1, <1>4 DEF Restrict
  <1> HIDE DEF D
  <1>9. \A x, y : Covered(d, x, y) <=> Covered(c, x, y)
    BY <1>1 DEF Covered, Work
  <1>10. \A f \in Range(c.out) : f.sup < m.inf
    BY <1>2, <1>4, <1>6, <1>7 DEF OutOK, D
  <1>11. Sorted(d.out)
    BY <1>1, <1>2, <1>10, SortedAppend DEF OutOK
  <1>12. Covered(c, m.inf, m.sup)
    <2>1. PICK a \in Work(c) : a.inf <= Min(keys)
      BY <1>2, <1>4, <1>6 DEF OutOK, Covered, D
    <2>2. PICK b \in Work(c) : Max(keys) <= b.sup
      BY <1>2, <1>4, <1>6 DEF OutOK, Covered, D
    <2>3. QED
      BY <1>7, <2>1, <2>2 DEF Covered
  <1>13. \A g \in Range(d.out) : Covered(d, g.inf, g.sup) /\ \A k \in DOMAIN d.rest : g.sup < k
    <2>1. SUFFICES ASSUME NEW g \in Range(d.out)
                   PROVE  Covered(c, g.inf, g.sup) /\ \A k \in D \ keys : g.sup < k
      BY <1>8, <1>9
    <2>2. g \in Range(c.out) \/ g = m
      BY <1>1, <1>2, <2>1, RangeOfAppend
    <2>3. CASE g \in Range(c.out)
      BY <1>2, <2>3 DEF OutOK, D
    <2>4. CASE g = m
      BY <1>4, <1>6, <1>7, <1>12, <2>4
    <2>5. QED
      BY <2>2, <2>3, <2>4
  <1>14. \A k \in DOMAIN d.rest : Covered(d, k, k)
    BY <1>2, <1>8, <1>9 DEF OutOK, D
  <1>15. QED
    BY <1>11, <1>13, <1>14 DEF OutOK

\* What the jobs write stays between their inputs.
LEMMA OutStep ==
  ASSUME ShapeInv, OrderInv, OwnInv, DiskInv, OutInv, StepKinds
  PROVE  OutInv'
  <1>1. Jobs' = Jobs
    BY DEF Jobs
  <1>2. SUFFICES ASSUME NEW j \in Jobs, jobs'[j].pc = "write" PROVE OutOK(jobs'[j])
    BY <1>1 DEF OutInv, OutOK, Covered, Work, Sorted, Ordered, Below, FileRec
  <1>3. ASSUME jobs'[j] = jobs[j] PROVE OutOK(jobs'[j])
    BY <1>2, <1>3 DEF OutInv
  <1>4. CASE Quiet
    BY <1>2, <1>3, <1>4 DEF Quiet, SameWork
  <1>5. ASSUME NEW m, NEW pairs, TableWritten(m, pairs) PROVE OutOK(jobs'[j])
    BY <1>3, <1>5 DEF TableWritten
  <1>6. ASSUME NEW t, TableInstalled(t) PROVE OutOK(jobs'[j])
    BY <1>3, <1>6 DEF TableInstalled
  <1>7. ASSUME NEW i \in Jobs, NEW level, NEW f, NEW ins, Picked(i, level, f, ins) PROVE OutOK(jobs'[j])
    <2>1. i # j /\ jobs'[j] = jobs[j]
      BY <1>2, <1>7 DEF Picked, ShapeInv
    <2>2. QED
      BY <1>3, <2>1
  <1>8. ASSUME NEW i \in Jobs, Opened(i) PROVE OutOK(jobs'[j])
    <2>1. i = j \/ jobs'[j] = jobs[j]
      BY <1>8 DEF Opened, ShapeInv
    <2>2. QED
      BY <1>3, <1>8, <2>1, OpenedCovers
  <1>9. ASSUME NEW i \in Jobs, NEW m, NEW keys, OutputWritten(i, m, keys) PROVE OutOK(jobs'[j])
    <2>1. i = j \/ jobs'[j] = jobs[j]
      BY <1>9 DEF OutputWritten, ShapeInv
    <2>2. QED
      BY <1>3, <1>9, <2>1, OutputCovered
  <1>10. ASSUME NEW i \in Jobs, Finalized(i) PROVE OutOK(jobs'[j])
    <2>1. i # j /\ jobs'[j] = jobs[j]
      BY <1>2, <1>10 DEF Finalized, ShapeInv
    <2>2. QED
      BY <1>3, <2>1
  <1>11. CASE CrashAndRestart
    BY <1>2, <1>11 DEF CrashAndRestart, NoJob
  <1>12. QED
    BY <1>4, <1>5, <1>6, <1>7, <1>8, <1>9, <1>10, <1>11 DEF StepKinds

-----------------------------------------------------------------------------
(* Jobs that compact one level above 0 do not get in each other's way. *)

\* The files of W are all below those of X.
AllBelow(W, X) == \A a \in W, b \in X : a.sup < b.inf

\* A file of the output level that reaches between the inputs is one of them.
Closed(c, files) ==
  \A g \in files : \A a, b \in Work(c) :
    Overlaps(g, a.inf, b.sup) => \E h \in Range(c.ins[2]) : h.num = g.num

\* Above level 0 a job starts from one file, which its other inputs touch.
OneStart(c) ==
  c.level # 0 => \E f : /\ Range(c.ins[1]) = {f} /\ f.inf <= f.sup
                        /\ \A o \in Range(c.ins[2]) : Overlaps(o, f.inf, f.sup)

ClosedInv ==
  \A j \in Jobs : Running(j) =>
    OneStart(jobs[j]) /\ Closed(jobs[j], Range(current[jobs[j].level + 1]))

SameLevel(i, j) ==
  i # j /\ Running(i) /\ Running(j) /\ jobs[i].level # 0 /\ jobs[i].level = jobs[j].level

ApartInv ==
  \A i, j \in Jobs : SameLevel(i, j) =>
    AllBelow(Work(jobs[i]), Work(jobs[j])) \/ AllBelow(Work(jobs[j]), Work(jobs[i]))

\* The start files of two jobs decide the order of all their inputs.
LEMMA StartsDecide ==
  ASSUME NEW f \in FileRec, NEW g \in FileRec, NEW K \in SUBSET FileRec, NEW H \in SUBSET FileRec,
         f.inf <= f.sup, g.inf <= g.sup, f.sup < g.inf,
         \A k \in K : Overlaps(k, f.inf, f.sup) /\ ~ Overlaps(k, g.inf, g.sup),
         \A h \in H : Overlaps(h, g.inf, g.sup) /\ ~ Overlaps(h, f.inf, f.sup),
         \A k \in K, h \in H : Apart(k, h)
  PROVE  AllBelow({f} \cup K, {g} \cup H)
  <1>1. \A x \in FileRec : x.inf \in Int /\ x.sup \in Int
    BY DEF FileRec
  <1>2. \A h \in H : f.sup < h.inf
    BY <1>1 DEF Overlaps
  <1>3. \A k \in K : k.sup < g.inf
    BY <1>1 DEF Overlaps
  <1>4. ASSUME NEW k \in K, NEW h \in H PROVE k.sup < h.inf
    BY <1>1 DEF Overlaps, Apart
  <1>5. QED
    BY <1>2, <1>3, <1>4 DEF AllBelow

\* When a job picks files of the level that another one compacts.
LEMMA PickedApart ==
  ASSUME ShapeInv, OrderInv, NumbersInv, OwnInv, ClosedInv,
         NEW j \in Jobs, NEW level, NEW f0, NEW ins, Picked(j, level, f0, ins), level # 0,
         NEW i \in Jobs, Running(i), jobs[i].level = level
  PROVE  LET W == Range(ins[1]) \cup Range(ins[2])
         IN  AllBelow(Work(jobs[i]), W) \/ AllBelow(W, Work(jobs[i]))
  <1> DEFINE c == jobs[i]
             W == Range(ins[1]) \cup Range(ins[2])
             H == Range(ins[2])
             K == Range(c.ins[2])
  <1>1. /\ level \in 0 .. NumLevels - 2 /\ InputsFit(current, level, f0, ins)
        /\ ~ AnyBusy(ins[1]) /\ ~ AnyBusy(ins[2]) /\ f0 \in Range(current[level])
      BY DEF Picked
  <1>2. /\ level \in Levels \ {0} /\ level + 1 \in Levels \ {0} /\ current \in Versions
        /\ Sorted(current[level]) /\ Sorted(current[level + 1])
        /\ current[level] \in Seq(FileRec) /\ current[level + 1] \in Seq(FileRec)
    <2>1. level \in Levels \ {0} /\ level + 1 \in Levels \ {0} /\ current \in Versions
      BY <1>1, HeldShape
    <2>2. QED
      BY <2>1 DEF OrderInv, InOrder, Versions
  <1>3. PICK f : Range(c.ins[1]) = {f} /\ f.inf <= f.sup /\ \A k \in K : Overlaps(k, f.inf, f.sup)
    BY DEF ClosedInv, OneStart
  <1>4. Range(ins[1]) = {f0} /\ \A h \in H : Overlaps(h, f0.inf, f0.sup)
    BY <1>1 DEF InputsFit
  <1>5. Uses(i, level, f) /\ \A k \in K : Uses(i, level + 1, k)
    BY <1>3 DEF Uses, Among
  <1>6. Among(level, ins, level, f0) /\ \A h \in H : Among(level, ins, level + 1, h)
    BY <1>4 DEF Among
  <1>7. f \in FileRec /\ InUse(f) \in Range(current[level])
    BY <1>5, UsesTypes DEF OwnInv
  <1>8. \A k \in K : k \in FileRec /\ InUse(k) \in Range(current[level + 1])
    BY <1>5, UsesTypes DEF OwnInv
  <1>9. f0 \in FileRec /\ f0 \in Range(current[level]) /\ ~ IsBusy(f0) /\ f0.inf <= f0.sup
    BY <1>1, <1>2, <1>6, PickedFree DEF Sorted
  <1>10. \A h \in H : h \in FileRec /\ h \in Range(current[level + 1]) /\ ~ IsBusy(h)
    BY <1>1, <1>6, PickedFree
  <1>11. Apart(f, f0)
    <2>1. InUse(f) # f0
      BY <1>7, <1>9, InUseBusy
    <2>2. InUse(f).sup < f0.inf \/ f0.sup < InUse(f).inf
      BY <1>2, <1>7, <1>9, <2>1, SortedApart
    <2>3. QED
      BY <1>7, <2>2, InUseProperties DEF Apart
  <1>12. ASSUME NEW k \in K, NEW h \in H PROVE Apart(k, h)
    <2>1. InUse(k) # h
      BY <1>8, <1>10, InUseBusy
    <2>2. InUse(k).sup < h.inf \/ h.sup < InUse(k).inf
      BY <1>2, <1>8, <1>10, <2>1, SortedApart
    <2>3. QED
      BY <1>8, <2>2, InUseProperties DEF Apart
  <1>13. ASSUME NEW k \in K PROVE ~ Overlaps(k, f0.inf, f0.sup)
    <2>1. InUse(k) \notin H
      BY <1>8, <1>10, InUseBusy
    <2>2. ~ Overlaps(InUse(k), f0.inf, f0.sup)
      BY <1>1, <1>4, <1>8, <2>1 DEF InputsFit
    <2>3. QED
      BY <1>8, <2>2, InUseProperties DEF Overlaps
  <1>14. ASSUME NEW h \in H PROVE ~ Overlaps(h, f.inf, f.sup)
    <2>1. SUFFICES ASSUME Overlaps(h, f.inf, f.sup) PROVE FALSE
      OBVIOUS
    <2>2. f \in Work(c)
      BY <1>3 DEF Work
    <2>3. Closed(c, Range(current[level + 1]))
      BY DEF ClosedInv
    <2>4. PICK k \in K : k.num = h.num
      BY <1>10, <2>1, <2>2, <2>3 DEF Closed
    <2>5. InUse(k).num = h.num
      BY <1>8, <2>4, InUseProperties
    <2>6. InUse(k) = h
      BY <1>2, <1>8, <1>10, <2>5, OneNumber
    <2>7. QED
      BY <1>8, <1>10, <2>6, InUseBusy
  <1>15. Work(c) = {f} \cup K /\ W = {f0} \cup H
    BY <1>3, <1>4 DEF Work
  <1>16. K \in SUBSET FileRec /\ H \in SUBSET FileRec
    BY <1>8, <1>10
  <1> HIDE DEF K, H, W, c
  <1>17. CASE f.sup < f0.inf
    <2>1. AllBelow({f} \cup K, {f0} \cup H)
      BY <1>3, <1>4, <1>7, <1>9, <1>12, <1>13, <1>14, <1>16, <1>17, StartsDecide
    <2>2. QED
      BY <1>15, <2>1 DEF W, c
  <1>18. CASE f0.sup < f.inf
    <2>1. \A h \in H, k \in K : Apart(h, k)
      BY <1>12 DEF Apart
    <2>2. AllBelow({f0} \cup H, {f} \cup K)
      BY <1>3, <1>4, <1>7, <1>9, <1>13, <1>14, <1>16, <1>18, <2>1, StartsDecide
    <2>3. QED
      BY <1>15, <2>2 DEF W, c
  <1>19. QED
    BY <1>11, <1>17, <1>18 DEF Apart

\* Job i works on what it worked on, if it still does.
SameInputs(i) ==
  Running(i)' => Running(i) /\ jobs'[i].level = jobs[i].level /\ jobs'[i].ins = jobs[i].ins

\* A step changes the inputs of at most one job, which picks.
LEMMA InputsStay ==
  ASSUME ShapeInv, StepKinds
  PROVE  \/ \A i \in Jobs : SameInputs(i)
         \/ \E j \in Jobs : \E level, f, ins :
              /\ Picked(j, level, f, ins)
              /\ jobs'[j] = [pc |-> "open", level |-> level, ins |-> ins]
              /\ \A i \in Jobs : i # j => SameInputs(i)
  <1>1. CASE Quiet
    BY <1>1 DEF Quiet, SameWork, SameInputs
  <1>2. ASSUME jobs' = jobs PROVE \A i \in Jobs : SameInputs(i)
    BY <1>2 DEF SameInputs, Running
  <1>3. ASSUME NEW m, NEW pairs, TableWritten(m, pairs) PROVE \A i \in Jobs : SameInputs(i)
    BY <1>2, <1>3 DEF TableWritten
  <1>4. ASSUME NEW t, TableInstalled(t) PROVE \A i \in Jobs : SameInputs(i)
    BY <1>2, <1>4 DEF TableInstalled
  <1>5. ASSUME NEW j \in Jobs, NEW level, NEW f, NEW ins, Picked(j, level, f, ins)
        PROVE  \E k \in Jobs : \E lv, g, is :
                 /\ Picked(k, lv, g, is)
                 /\ jobs'[k] = [pc |-> "open", level |-> lv, ins |-> is]
                 /\ \A i \in Jobs : i # k => SameInputs(i)
    <2>1. /\ jobs'[j] = [pc |-> "open", level |-> level, ins |-> ins]
          /\ \A i \in Jobs : i # j => jobs'[i] = jobs[i]
      BY <1>5 DEF Picked, ShapeInv
    <2>2. \A i \in Jobs : i # j => SameInputs(i)
      BY <2>1 DEF SameInputs, Running
    <2>3. QED
      BY <1>5, <2>1, <2>2
  <1>6. ASSUME NEW j \in Jobs, Opened(j) PROVE \A i \in Jobs : SameInputs(i)
    BY <1>6 DEF Opened, ShapeInv, Running, SameInputs
  <1>7. ASSUME NEW j \in Jobs, NEW m, NEW keys, OutputWritten(j, m, keys) PROVE \A i \in Jobs : SameInputs(i)
    BY <1>7 DEF OutputWritten, ShapeInv, Running, SameInputs
  <1>8. ASSUME NEW j \in Jobs, Finalized(j) PROVE \A i \in Jobs : SameInputs(i)
    BY <1>8 DEF Finalized, ShapeInv, Running, SameInputs
  <1>9. ASSUME CrashAndRestart PROVE \A i \in Jobs : SameInputs(i)
    BY <1>9 DEF CrashAndRestart, NoJob, Running, SameInputs
  <1>10. QED
    BY <1>1, <1>3, <1>4, <1>5, <1>6, <1>7, <1>8, <1>9 DEF StepKinds

\* Jobs of one level stay apart.
LEMMA ApartStep ==
  ASSUME ShapeInv, OrderInv, NumbersInv, OwnInv, ClosedInv, ApartInv, StepKinds
  PROVE  ApartInv'
  <1> DEFINE Separate(i, k) ==
        AllBelow(Work(jobs'[i]), Work(jobs'[k])) \/ AllBelow(Work(jobs'[k]), Work(jobs'[i]))
  <1>1. SUFFICES ASSUME NEW i \in Jobs, NEW k \in Jobs, SameLevel(i, k)' PROVE Separate(i, k)
    BY DEF ApartInv, Jobs, AllBelow, Work
  <1>2. /\ i # k /\ Running(i)' /\ Running(k)'
        /\ jobs'[i].level # 0 /\ jobs'[i].level = jobs'[k].level
    BY <1>1 DEF SameLevel
  <1>3. CASE SameInputs(i) /\ SameInputs(k)
    <2>1. SameLevel(i, k)
      BY <1>2, <1>3 DEF SameInputs, SameLevel
    <2>2. Work(jobs'[i]) = Work(jobs[i]) /\ Work(jobs'[k]) = Work(jobs[k])
      BY <1>2, <1>3 DEF SameInputs, Work
    <2>3. QED
      BY <2>1, <2>2 DEF ApartInv
  <1>4. ASSUME NEW j \in Jobs, NEW level, NEW f, NEW ins, Picked(j, level, f, ins),
               jobs'[j] = [pc |-> "open", level |-> level, ins |-> ins],
               NEW h \in Jobs, h # j, Running(h)', SameInputs(h), jobs'[h].level = level, level # 0
        PROVE  Separate(h, j) /\ Separate(j, h)
    <2>1. Running(h) /\ jobs[h].level = level /\ Work(jobs'[h]) = Work(jobs[h])
      BY <1>4 DEF SameInputs, Work
    <2>2. Work(jobs'[j]) = Range(ins[1]) \cup Range(ins[2])
      BY <1>4 DEF Work
    <2>3. LET W == Range(ins[1]) \cup Range(ins[2])
          IN  AllBelow(Work(jobs[h]), W) \/ AllBelow(W, Work(jobs[h]))
      BY <1>4, <2>1, PickedApart
    <2>4. QED
      BY <2>1, <2>2, <2>3
  <1>5. ASSUME NEW j \in Jobs, NEW level, NEW f, NEW ins, Picked(j, level, f, ins),
               jobs'[j] = [pc |-> "open", level |-> level, ins |-> ins],
               \A h \in Jobs : h # j => SameInputs(h)
        PROVE  Separate(i, k)
    <2> HIDE DEF Separate
    <2>1. jobs'[j].level = level
      BY <1>5
    <2>2. CASE i # j /\ k # j
      BY <1>3, <1>5, <2>2
    <2>3. CASE i = j
      BY <1>2, <1>4, <1>5, <2>1, <2>3
    <2>4. CASE k = j
      BY <1>2, <1>4, <1>5, <2>1, <2>4
    <2>5. QED
      BY <2>2, <2>3, <2>4
  <1>6. QED
    BY <1>3, <1>5, InputsStay

\* A file of a level after an edit is one of before or an added one.
LikeOld(level, added, deleted, l, e) ==
  \E f \in FileRec :
    /\ f \in Range(current[l]) \/ (l = level /\ f \in Range(added))
    /\ <<l, f.num>> \notin deleted
    /\ e.num = f.num /\ e.xip = f.xip /\ e.inf = f.inf /\ e.sup = f.sup

\* Every file of an edited level is such a file.
LEMMA EditKeeps ==
  ASSUME current \in Versions, NEW level, NEW added \in Seq(FileRec), NEW deleted, NEW marked,
         current' = Applied(current, level, added, deleted, marked),
         NEW l \in Levels, NEW e \in Range(current'[l])
  PROVE  LikeOld(level, added, deleted, l, e)
  <1>1. ComesFrom(current, level, added, deleted, marked, l, e)
    BY EditedFrom
  <1>2. PICK f \in FileRec : /\ f \in Range(current[l]) \/ (l = level /\ f \in Range(added))
                             /\ <<l, f.num>> \notin deleted
                             /\ e = Marking(f, l, marked)
    BY <1>1 DEF ComesFrom
  <1>3. e.num = f.num /\ e.xip = f.xip /\ e.inf = f.inf /\ e.sup = f.sup
    BY <1>2, MarkingProperties
  <1>4. QED
    BY <1>2, <1>3 DEF LikeOld

\* Jobs leave the file alone that they would otherwise have to take.
LEMMA ClosedKept ==
  ASSUME NEW c, NEW d, NEW files, NEW new, Closed(c, files), d.ins = c.ins,
         \A e \in new : \/ \E f \in files : e.num = f.num /\ e.inf = f.inf /\ e.sup = f.sup
                        \/ \A a, b \in Work(c) : ~ Overlaps(e, a.inf, b.sup)
  PROVE  Closed(d, new)
  <1>1. Work(d) = Work(c)
    BY DEF Work
  <1>2. SUFFICES ASSUME NEW g \in new, NEW a \in Work(c), NEW b \in Work(c), Overlaps(g, a.inf, b.sup)
                 PROVE  \E h \in Range(c.ins[2]) : h.num = g.num
    BY <1>1 DEF Closed
  <1>3. PICK f \in files : g.num = f.num /\ g.inf = f.inf /\ g.sup = f.sup
    BY <1>2
  <1>4. Overlaps(f, a.inf, b.sup)
    BY <1>2, <1>3 DEF Overlaps
  <1>5. QED
    BY <1>3, <1>4 DEF Closed

\* The output of one job does not reach between the inputs of another one.
LEMMA OutputApart ==
  ASSUME NEW c, NEW d, Work(c) \subseteq FileRec, Work(d) \subseteq FileRec,
         AllBelow(Work(c), Work(d)) \/ AllBelow(Work(d), Work(c)),
         NEW e \in FileRec, Covered(c, e.inf, e.sup), e.inf <= e.sup,
         NEW a \in Work(d), NEW b \in Work(d)
  PROVE  ~ Overlaps(e, a.inf, b.sup)
  <1>1. PICK p \in Work(c), q \in Work(c) : p.inf <= e.inf /\ e.sup <= q.sup
    BY DEF Covered
  <1>2. \A x \in FileRec : x.inf \in Int /\ x.sup \in Int
    BY DEF FileRec
  <1>3. CASE AllBelow(Work(c), Work(d))
    <2>1. q.sup < a.inf
      BY <1>3 DEF AllBelow
    <2>2. QED
      BY <1>1, <1>2, <2>1 DEF Overlaps
  <1>4. CASE AllBelow(Work(d), Work(c))
    <2>1. b.sup < p.inf
      BY <1>4 DEF AllBelow
    <2>2. QED
      BY <1>1, <1>2, <2>1 DEF Overlaps
  <1>5. QED
    BY <1>3, <1>4

\* The output of a job is out of the way of the other jobs.
LEMMA OutputForeign ==
  ASSUME ShapeInv, OrderInv, Level0Inv, OutInv, ApartInv,
         NEW j \in Jobs, jobs[j].pc = "write", NEW i \in Jobs, i # j, Running(i),
         jobs[i].level = jobs[j].level, NEW e \in Range(jobs[j].out),
         NEW a \in Work(jobs[i]), NEW b \in Work(jobs[i])
  PROVE  ~ Overlaps(e, a.inf, b.sup)
  <1>1. Running(j)
    BY DEF Running
  <1>2. jobs[i].level # 0
    BY <1>1 DEF Level0Inv
  <1>3. SameLevel(i, j)
    BY <1>1, <1>2 DEF SameLevel
  <1>4. AllBelow(Work(jobs[j]), Work(jobs[i])) \/ AllBelow(Work(jobs[i]), Work(jobs[j]))
    BY <1>3 DEF ApartInv
  <1>5. Work(jobs[i]) \subseteq FileRec /\ Work(jobs[j]) \subseteq FileRec
    <2>1. ASSUME NEW k \in Jobs, Running(k), NEW f \in Work(jobs[k]) PROVE f \in FileRec
      <3>1. \E l : Uses(k, l, f)
        BY <2>1 DEF Uses, Among, Work
      <3>2. QED
        BY <3>1, UsesTypes
    <2>2. QED
      BY <1>1, <2>1
  <1>6. OutOK(jobs[j]) /\ jobs[j].out \in Seq(FileRec)
    BY HeldShape, WriteJob DEF OutInv
  <1>7. e \in FileRec /\ Covered(jobs[j], e.inf, e.sup) /\ e.inf <= e.sup
    BY <1>6, RangeOfSeq DEF OutOK, Sorted
  <1>8. QED
    BY <1>4, <1>5, <1>7, OutputApart

\* No step puts a file between the inputs of a job: what others write
\* lies between theirs.
LEMMA ClosedStep ==
  ASSUME ShapeInv, OrderInv, Level0Inv, OutInv, ApartInv, ClosedInv, StepKinds
  PROVE  ClosedInv'
  <1> DEFINE OK(i) == OneStart(jobs'[i]) /\ Closed(jobs'[i], Range(current'[jobs'[i].level + 1]))
  <1>1. SUFFICES ASSUME NEW i \in Jobs, Running(i)' PROVE OK(i)
    BY DEF ClosedInv, Jobs, OneStart, Closed, Overlaps, Work
  <1> DEFINE l == jobs[i].level + 1
             files == Range(current[l])
  <1>2. ASSUME SameInputs(i)
        PROVE  /\ Running(i) /\ jobs'[i].level = jobs[i].level /\ jobs'[i].ins = jobs[i].ins
               /\ l \in Levels \ {0} /\ Closed(jobs[i], files)
               /\ OneStart(jobs'[i])
    <2>1. /\ Running(i) /\ jobs'[i].level = jobs[i].level /\ jobs'[i].ins = jobs[i].ins
      BY <1>1, <1>2 DEF SameInputs
    <2>2. jobs[i].level \in 0 .. NumLevels - 2
      <3>1. JobOK(jobs[i])
        BY DEF ShapeInv
      <3>2. QED
        BY <2>1, <3>1, OpenJob, WriteJob DEF Running
    <2>3. QED
      BY <2>1, <2>2, HeldShape DEF ClosedInv, OneStart
  <1>3. ASSUME SameInputs(i),
               \A e \in Range(current'[l]) :
                  \/ \E f \in files : e.num = f.num /\ e.inf = f.inf /\ e.sup = f.sup
                  \/ \A a, b \in Work(jobs[i]) : ~ Overlaps(e, a.inf, b.sup)
        PROVE  OK(i)
    <2>1. Closed(jobs'[i], Range(current'[l]))
      <3> HIDE DEF files
      <3>1. QED
        BY <1>2, <1>3, ClosedKept
    <2>2. QED
      BY <1>2, <1>3, <2>1
  <1>4. ASSUME SameInputs(i), current' = current PROVE OK(i)
    BY <1>3, <1>4
  <1>5. ASSUME SameInputs(i), NEW level, NEW added \in Seq(FileRec), NEW deleted, NEW marked,
               current' = Applied(current, level, added, deleted, marked),
               l = level => \A e \in Range(added), a, b \in Work(jobs[i]) : ~ Overlaps(e, a.inf, b.sup)
        PROVE  OK(i)
    <2>1. SUFFICES ASSUME NEW e \in Range(current'[l])
                   PROVE  \/ \E f \in files : e.num = f.num /\ e.inf = f.inf /\ e.sup = f.sup
                          \/ \A a, b \in Work(jobs[i]) : ~ Overlaps(e, a.inf, b.sup)
      BY <1>3, <1>5
    <2>2. l \in Levels /\ current \in Versions
      BY <1>2, <1>5, HeldShape
    <2>3. LikeOld(level, added, deleted, l, e)
      BY <1>5, <2>1, <2>2, EditKeeps
    <2>4. PICK f \in FileRec :
            /\ f \in Range(current[l]) \/ (l = level /\ f \in Range(added))
            /\ e.num = f.num /\ e.inf = f.inf /\ e.sup = f.sup
      BY <2>3 DEF LikeOld
    <2>5. CASE f \in Range(current[l])
      BY <2>4, <2>5
    <2>6. CASE l = level /\ f \in Range(added)
      <3>1. \A a, b \in Work(jobs[i]) : ~ Overlaps(f, a.inf, b.sup)
        BY <1>5, <2>6
      <3>2. QED
        BY <2>4, <3>1 DEF Overlaps
    <2>7. QED
      BY <2>4, <2>5, <2>6
  <1>6. <<>> \in Seq(FileRec) /\ Range(<<>>) = {}
    BY EmptySeq DEF Range
  <1> HIDE DEF OK, files, l
  <1>7. CASE Quiet
    BY <1>4, <1>7 DEF Quiet, SameWork, SameInputs
  <1>8. ASSUME jobs' = jobs PROVE SameInputs(i)
    BY <1>8 DEF SameInputs, Running
  <1>9. ASSUME NEW m, NEW pairs, TableWritten(m, pairs) PROVE OK(i)
    BY <1>4, <1>8, <1>9 DEF TableWritten, NewTable
  <1>10. ASSUME NEW t, TableInstalled(t) PROVE OK(i)
    <2>1. /\ t \in pending /\ SameInputs(i)
          /\ current' = Applied(current, 0, <<t>>, {}, {})
      BY <1>8, <1>10 DEF TableInstalled, Install
    <2>2. <<t>> \in Seq(FileRec) /\ l # 0
      BY <1>2, <2>1 DEF ShapeInv, FlushOK
    <2>3. QED
      BY <1>5, <2>1, <2>2
  <1>11. ASSUME NEW j \in Jobs, NEW level, NEW f, NEW ins, Picked(j, level, f, ins) PROVE OK(i)
    <2>1. /\ jobs'[j] = [pc |-> "open", level |-> level, ins |-> ins]
          /\ \A k \in Jobs : k # j => jobs'[k] = jobs[k]
          /\ level \in 0 .. NumLevels - 2 /\ InputsFit(current, level, f, ins) /\ f \in Range(current[level])
          /\ current' = Applied(current, level, <<>>, {}, Marks(level, ins))
      BY <1>11 DEF Picked, ShapeInv
    <2>2. CASE i # j
      <3>1. SameInputs(i)
        BY <2>1, <2>2 DEF SameInputs, Running
      <3>2. QED
        BY <1>5, <1>6, <2>1, <3>1
    <2>3. CASE i = j
      <3>1. jobs'[i].level = level /\ jobs'[i].ins = ins
        BY <2>1, <2>3
      <3>2. level \in Levels /\ level + 1 \in Levels \ {0} /\ current \in Versions /\ current[level] \in Seq(FileRec)
        BY <2>1, HeldShape DEF Versions
      <3>3. level # 0 => f.inf <= f.sup
        BY <2>1, <3>2 DEF OrderInv, InOrder, Sorted
      <3>4. OneStart(jobs'[i])
        BY <2>1, <3>1, <3>3 DEF OneStart, InputsFit
      <3>5. ASSUME NEW g \in Range(current'[level + 1]), NEW a \in Work(jobs'[i]), NEW b \in Work(jobs'[i]),
                   Overlaps(g, a.inf, b.sup)
            PROVE  \E h \in Range(ins[2]) : h.num = g.num
        <4>1. LikeOld(level, <<>>, {}, level + 1, g)
          BY <1>6, <2>1, <3>2, <3>5, EditKeeps
        <4>2. PICK h \in FileRec : h \in Range(current[level + 1]) /\ g.num = h.num /\ g.inf = h.inf /\ g.sup = h.sup
          BY <1>6, <4>1 DEF LikeOld
        <4>3. Overlaps(h, a.inf, b.sup)
          BY <3>5, <4>2 DEF Overlaps
        <4>4. a \in Range(ins[1]) \cup Range(ins[2]) /\ b \in Range(ins[1]) \cup Range(ins[2])
          BY <3>1 DEF Work
        <4>5. h \in Range(ins[2])
          BY <2>1, <4>2, <4>3, <4>4 DEF InputsFit
        <4>6. QED
          BY <4>2, <4>5
      <3>6. Closed(jobs'[i], Range(current'[level + 1]))
        BY <3>1, <3>5 DEF Closed
      <3>7. QED
        BY <3>1, <3>4, <3>6 DEF OK
    <2>4. QED
      BY <2>2, <2>3
  <1>12. ASSUME NEW j \in Jobs, Opened(j) PROVE OK(i)
    <2>1. SameInputs(i) /\ current' = current
      BY <1>12 DEF Opened, ShapeInv, Running, SameInputs
    <2>2. QED
      BY <1>4, <2>1
  <1>13. ASSUME NEW j \in Jobs, NEW m, NEW keys, OutputWritten(j, m, keys) PROVE OK(i)
    <2>1. SameInputs(i) /\ current' = current
      BY <1>13 DEF OutputWritten, NewTable, ShapeInv, Running, SameInputs
    <2>2. QED
      BY <1>4, <2>1
  <1>14. ASSUME NEW j \in Jobs, Finalized(j) PROVE OK(i)
    <2> DEFINE level == jobs[j].level + 1
               added == jobs[j].out
               deleted == Marks(jobs[j].level, jobs[j].ins)
    <2>1. SameInputs(i) /\ i # j /\ jobs[j].pc = "write"
      BY <1>1, <1>14 DEF Finalized, ShapeInv, Running, SameInputs
    <2>2. added \in Seq(FileRec) /\ jobs[j].level \in 0 .. NumLevels - 2
      BY <2>1, HeldShape, WriteJob
    <2>3. current' = Applied(current, level, added, deleted, {})
      BY <1>14 DEF Finalized, Install
    <2>4. ASSUME l = level PROVE jobs[i].level = jobs[j].level
      <3>1. jobs[i].level \in 0 .. NumLevels - 2
        <4>1. JobOK(jobs[i]) /\ Running(i)
          BY <1>2, <2>1 DEF ShapeInv
        <4>2. QED
          BY <4>1, OpenJob, WriteJob DEF Running
      <3>2. QED
        BY <2>2, <2>4, <3>1 DEF l
    <2>5. l = level => \A e \in Range(added), a, b \in Work(jobs[i]) : ~ Overlaps(e, a.inf, b.sup)
      BY <1>2, <2>1, <2>4, OutputForeign
    <2> HIDE DEF level, added, deleted
    <2>6. QED
      BY <1>5, <2>1, <2>2, <2>3, <2>5
  <1>15. CASE CrashAndRestart
    BY <1>1, <1>15 DEF CrashAndRestart, NoJob, Running
  <1>16. QED
    BY <1>7, <1>9, <1>10, <1>11, <1>12, <1>13, <1>14, <1>15 DEF StepKinds

-----------------------------------------------------------------------------
(* The levels stay in order. *)

\* The two orders of level 0 differ in files of one bound.
LEMMA OrdersDiffer == FileRec # {} => NewerBound # NotOlderBound
  <1>1. SUFFICES ASSUME NEW m \in FileRec PROVE <<m, m>> \in NotOlderBound /\ <<m, m>> \notin NewerBound
    OBVIOUS
  <1>2. m.xip \in Nat
    BY DEF FileRec
  <1>3. QED
    BY <1>2 DEF NewerBound, NotOlderBound

\* An edit that only marks.
LEMMA MarkedInOrderAgain ==
  ASSUME InOrder(current), NEW level, NEW marked
  PROVE  /\ InOrder(Applied(current, level, <<>>, {}, marked))
         /\ InStrictOrder(current) => InStrictOrder(Applied(current, level, <<>>, {}, marked))
  <1> DEFINE w == Applied(current, level, <<>>, {}, marked)
  <1>1. /\ current \in Versions /\ <<>> \in Seq(FileRec) /\ Range(<<>>) = {} /\ Sorted(<<>>)
        /\ Ordered(<<>>, NewerBound) /\ Ordered(<<>>, NotOlderBound) /\ Ordered(current[0], NotOlderBound)
    BY EmptySeq DEF InOrder, Range, Sorted, Ordered
  <1>2. w \in Versions
    BY <1>1, AppliedVersion
  <1>3. Ordered(w[0], NotOlderBound) /\ \A f \in Range(w[0]) : f.inf <= f.sup
    BY <1>1, NewestAfterEdit
  <1>4. ASSUME NEW l \in Levels \ {0} PROVE Sorted(w[l])
    BY <1>1, SortedAfterEdit
  <1>5. ASSUME InStrictOrder(current) PROVE Ordered(w[0], NewerBound)
    BY <1>1, <1>5, NewestAfterEdit DEF InStrictOrder
  <1> HIDE DEF w
  <1>6. InOrder(w) /\ (InStrictOrder(current) => InStrictOrder(w))
    BY <1>2, <1>3, <1>4, <1>5 DEF InOrder, InStrictOrder
  <1>7. QED
    BY <1>6 DEF w

\* A flushed table, strictly if its bound is a new one.
LEMMA FlushedInOrder ==
  ASSUME InOrder(current), NEW m \in FileRec, m.inf <= m.sup
  PROVE  LET w == Applied(current, 0, <<m>>, {}, {})
         IN  /\ InOrder(w)
             /\ InStrictOrder(current) /\ (\A f \in Range(current[0]) : m.xip # f.xip) => InStrictOrder(w)
  <1> DEFINE w == Applied(current, 0, <<m>>, {}, {})
  <1>1. /\ current \in Versions /\ <<m>> \in Seq(FileRec) /\ Range(<<m>>) = {m}
        /\ <<>> \in Seq(FileRec) /\ Range(<<>>) = {} /\ Sorted(<<>>)
        /\ Ordered(<<m>>, NewerBound) /\ Ordered(<<m>>, NotOlderBound) /\ Ordered(current[0], NotOlderBound)
    BY EmptySeq DEF InOrder, Range, Sorted, Ordered
  <1>2. w \in Versions
    BY <1>1, AppliedVersion
  <1>3. Ordered(w[0], NotOlderBound) /\ \A f \in Range(w[0]) : f.inf <= f.sup
    BY <1>1, OrdersDiffer, NewestAfterEdit
  <1>4. ASSUME NEW l \in Levels \ {0} PROVE Sorted(w[l])
    BY <1>1, SortedAfterEdit
  <1>5. ASSUME InStrictOrder(current), \A f \in Range(current[0]) : m.xip # f.xip
        PROVE  Ordered(w[0], NewerBound)
    BY <1>1, <1>5, NewestAfterEdit DEF InStrictOrder
  <1> HIDE DEF w
  <1>6. /\ InOrder(w)
        /\ InStrictOrder(current) /\ (\A f \in Range(current[0]) : m.xip # f.xip) => InStrictOrder(w)
    BY <1>2, <1>3, <1>4, <1>5 DEF InOrder, InStrictOrder
  <1>7. QED
    BY <1>6 DEF w

\* The output of a compaction in place of its input.
LEMMA FinalizedInOrder ==
  ASSUME ShapeInv, OrderInv, NumbersInv, OutInv, ClosedInv, NEW j \in Jobs, jobs[j].pc = "write"
  PROVE  LET w == Applied(current, jobs[j].level + 1, jobs[j].out, Marks(jobs[j].level, jobs[j].ins), {})
         IN  InOrder(w) /\ (InStrictOrder(current) => InStrictOrder(w))
  <1> DEFINE c == jobs[j]
             level == c.level + 1
             added == c.out
             deleted == Marks(c.level, c.ins)
             w == Applied(current, level, added, deleted, {})
  <1>1. c.level \in 0 .. NumLevels - 2 /\ added \in Seq(FileRec)
    BY HeldShape, WriteJob
  <1>2. level \in Levels \ {0} /\ current \in Versions /\ InOrder(current)
    BY <1>1, HeldShape DEF OrderInv
  <1>3. OutOK(c) /\ Closed(c, Range(current[level]))
    BY DEF OutInv, ClosedInv, Running
  <1>4. /\ <<>> \in Seq(FileRec) /\ Range(<<>>) = {} /\ Sorted(<<>>)
        /\ Ordered(<<>>, NewerBound) /\ Ordered(<<>>, NotOlderBound)
    BY EmptySeq DEF Range, Sorted, Ordered
  <1>5. ASSUME NEW a \in Range(added), NEW b \in Range(current[level]) PROVE a # b
    <2>1. a \in Held[<<"job", j>>] /\ b \in Held[<<"level", level>>]
      BY <1>2, <1>5, HeldAt
    <2>2. <<"job", j>> # <<"level", level>>
      OBVIOUS
    <2> HIDE DEF level
    <2>3. QED
      BY <1>2, <2>1, <2>2, HolderTypes DEF NumbersInv, Distinct
  <1>6. ASSUME NEW a \in Range(added), NEW b \in Range(current[level]), <<level, b.num>> \notin deleted
        PROVE  Apart(a, b)
    <2>1. a \in FileRec /\ b \in FileRec
      BY <1>1, <1>2, <1>6, RangeOfSeq DEF Versions
    <2>2. PICK p \in Work(c), q \in Work(c) : p.inf <= a.inf /\ a.sup <= q.sup
      BY <1>3, <1>6 DEF OutOK, Covered
    <2>3. p \in FileRec /\ q \in FileRec
      <3>1. c.ins \in InputSeqs
        BY HeldShape, WriteJob
      <3>2. QED
        BY <2>2, <3>1, RangeOfSeq DEF Work, InputSeqs
    <2>4. SUFFICES ASSUME ~ Apart(a, b) PROVE FALSE
      OBVIOUS
    <2>5. Overlaps(b, p.inf, q.sup)
      BY <2>1, <2>2, <2>3, <2>4 DEF Apart, Overlaps, FileRec
    <2>6. \E h \in Range(c.ins[2]) : h.num = b.num
      BY <1>3, <1>6, <2>2, <2>5 DEF Closed
    <2>7. \E h : Among(c.level, c.ins, level, h) /\ h.num = b.num
      BY <2>6 DEF Among
    <2>8. <<level, b.num>> \in deleted
      BY <2>7, MarksOf
    <2>9. QED
      BY <1>6, <2>8
  <1>7. Sorted(added)
    BY <1>3 DEF OutOK
  <1> HIDE DEF level, added, deleted, c
  <1>8. w \in Versions
    BY <1>1, <1>2, AppliedVersion
  <1>9. /\ Ordered(w[0], NotOlderBound) /\ \A f \in Range(w[0]) : f.inf <= f.sup
        /\ InStrictOrder(current) => Ordered(w[0], NewerBound)
    <2>1. 0 # level /\ Ordered(current[0], NotOlderBound)
      BY <1>2 DEF InOrder
    <2>2. Ordered(w[0], NotOlderBound) /\ \A f \in Range(w[0]) : f.inf <= f.sup
      BY <1>1, <1>2, <1>4, <2>1, NewestAfterEdit
    <2>3. ASSUME InStrictOrder(current) PROVE Ordered(w[0], NewerBound)
      <3>1. Ordered(current[0], NewerBound)
        BY <2>3 DEF InStrictOrder
      <3>2. QED
        BY <1>1, <1>2, <1>4, <2>1, <3>1, NewestAfterEdit
    <2>4. QED
      BY <2>2, <2>3
  <1>10. ASSUME NEW l \in Levels \ {0} PROVE Sorted(w[l])
    <2>1. CASE l = level
      <3>1. /\ Range(added) \cap Range(current[l]) = {}
            /\ \A a \in Range(added), b \in Range(current[l]) : <<l, b.num>> \notin deleted => Apart(a, b)
        BY <1>5, <1>6, <2>1
      <3>2. QED
        BY <1>1, <1>2, <1>7, <2>1, <3>1, SortedAfterEdit
    <2>2. CASE l # level
      BY <1>1, <1>2, <1>4, <2>2, SortedAfterEdit
    <2>3. QED
      BY <2>1, <2>2
  <1> HIDE DEF w
  <1>11. InOrder(w) /\ (InStrictOrder(current) => InStrictOrder(w))
    BY <1>8, <1>9, <1>10 DEF InOrder, InStrictOrder
  <1>12. QED
    BY <1>11 DEF w, level, added, deleted, c

\* The order is kept by flushes, by marks, by the edits of compactions and
\* by going back to a checkpoint.
LEMMA OrderStep ==
  ASSUME ShapeInv, OrderInv, NumbersInv, OutInv, ClosedInv, StepKinds
  PROVE  OrderInv'
  <1> DEFINE Bounded == \A f \in Range(current'[0]) : f.xip <= minXip'
             Strict == ~ twins' => InStrictOrder(current') /\ InStrictOrder(ckpt'.files)
             Goal == /\ InOrder(current') /\ InOrder(ckpt'.files) /\ Strict
                     /\ Bounded /\ (\A f \in Range(ckpt'.files[0]) : f.xip <= ckpt'.minXip)
  <1>1. SUFFICES Goal
    BY DEF OrderInv, InStrictOrder, InOrder, Versions, Levels, Sorted, Ordered, Below, NewerBound,
           NotOlderBound, FileRec
  <1>2. ASSUME UNCHANGED <<current, minXip, ckpt, twins>> PROVE Goal
    BY <1>2 DEF OrderInv
  <1>4. 0 \in Levels /\ current \in Versions /\ \A f \in FileRec : f.xip \in Nat
    BY HeldShape DEF FileRec
  <1>5. minXip \in Nat
    BY DEF ShapeInv, Ts
  <1>6. <<>> \in Seq(FileRec) /\ Range(<<>>) = {}
    BY EmptySeq DEF Range
  \* The files of level 0 after an edit.
  <1>7. ASSUME NEW level, NEW added \in Seq(FileRec), NEW deleted, NEW marked,
               current' = Applied(current, level, added, deleted, marked), NEW e \in Range(current'[0])
        PROVE  \E f \in FileRec : (f \in Range(current[0]) \/ (0 = level /\ f \in Range(added))) /\ e.xip = f.xip
    <2>1. LikeOld(level, added, deleted, 0, e)
      BY <1>4, <1>7, EditKeeps
    <2>2. QED
      BY <2>1 DEF LikeOld
  <1>8. CASE Quiet
    BY <1>2, <1>8 DEF Quiet
  <1>9. ASSUME NEW m, NEW pairs, TableWritten(m, pairs) PROVE Goal
    BY <1>2, <1>9 DEF TableWritten, NewTable
  <1>10. ASSUME NEW m, TableInstalled(m) PROVE Goal
    <2>1. /\ m \in pending /\ m.xip >= minXip
          /\ current' = Applied(current, 0, <<m>>, {}, {}) /\ minXip' = m.xip
          /\ ckpt'.files = current' /\ ckpt'.minXip = m.xip
          /\ twins' = (twins \/ \E f \in Range(current[0]) : f.xip = m.xip)
      BY <1>10 DEF TableInstalled, Install
    <2>2. m \in FileRec /\ m.inf <= m.sup /\ InOrder(current)
      BY <2>1 DEF ShapeInv, FlushOK, OrderInv
    <2>3. \A f \in Range(current[0]) : f.xip \in Nat /\ f.xip <= minXip
      BY <1>4, RangeOfSeq DEF OrderInv, Versions
    <2>4. \A f \in Range(current[0]) : m.xip >= f.xip
      BY <1>4, <1>5, <2>1, <2>2, <2>3
    <2>5. <<m>> \in Seq(FileRec) /\ Range(<<m>>) = {m}
      BY <2>2 DEF Range
    <2>6. InOrder(current')
      BY <2>1, <2>2, FlushedInOrder
    <2>7. Strict
      <3>1. SUFFICES ASSUME ~ twins' PROVE InStrictOrder(current')
        BY <2>1
      <3>2. InStrictOrder(current) /\ \A f \in Range(current[0]) : m.xip # f.xip
        BY <2>1, <3>1 DEF OrderInv
      <3>3. QED
        BY <2>1, <2>2, <3>2, FlushedInOrder
    <2>8. ASSUME NEW e \in Range(current'[0]) PROVE e.xip <= m.xip
      <3>1. LikeOld(0, <<m>>, {}, 0, e)
        BY <1>4, <2>1, <2>5, <2>8, EditKeeps
      <3>2. PICK g \in FileRec : (g \in Range(current[0]) \/ g = m) /\ e.xip = g.xip
        BY <2>5, <3>1 DEF LikeOld
      <3>3. QED
        BY <1>4, <2>2, <2>4, <3>2
    <2>9. QED
      BY <2>1, <2>6, <2>7, <2>8
  <1>11. ASSUME NEW j, NEW level, NEW f, NEW ins, Picked(j, level, f, ins) PROVE Goal
    <2>1. /\ current' = Applied(current, level, <<>>, {}, Marks(level, ins))
          /\ UNCHANGED <<minXip, ckpt, twins>>
      BY <1>11 DEF Picked
    <2>2. InOrder(current') /\ Strict
      BY <2>1, MarkedInOrderAgain DEF OrderInv
    <2>3. Bounded
      <3>1. SUFFICES ASSUME NEW e \in Range(current'[0]) PROVE e.xip <= minXip'
        OBVIOUS
      <3>2. PICK g \in FileRec : g \in Range(current[0]) /\ e.xip = g.xip
        BY <1>6, <1>7, <2>1, <3>1
      <3>3. QED
        BY <2>1, <3>2 DEF OrderInv
    <2>4. QED
      BY <2>1, <2>2, <2>3 DEF OrderInv
  <1>12. ASSUME NEW j, Opened(j) PROVE Goal
    BY <1>2, <1>12 DEF Opened
  <1>13. ASSUME NEW j, NEW m, NEW keys, OutputWritten(j, m, keys) PROVE Goal
    BY <1>2, <1>13 DEF OutputWritten, NewTable
  <1>14. ASSUME NEW j \in Jobs, Finalized(j) PROVE Goal
    <2> DEFINE level == jobs[j].level + 1
               added == jobs[j].out
               deleted == Marks(jobs[j].level, jobs[j].ins)
    <2>1. /\ current' = Applied(current, level, added, deleted, {})
          /\ minXip' = minXip /\ ckpt'.files = current' /\ ckpt'.minXip = minXip /\ twins' = twins
          /\ jobs[j].pc = "write"
      BY <1>14 DEF Finalized, Install
    <2>2. InOrder(current') /\ Strict
      BY <2>1, FinalizedInOrder DEF OrderInv
    <2>3. added \in Seq(FileRec) /\ level # 0
      BY <2>1, HeldShape, WriteJob
    <2> HIDE DEF level, added, deleted
    <2>4. Bounded
      <3>1. SUFFICES ASSUME NEW e \in Range(current'[0]) PROVE e.xip <= minXip'
        OBVIOUS
      <3>2. PICK g \in FileRec : g \in Range(current[0]) /\ e.xip = g.xip
        BY <1>7, <2>1, <2>3, <3>1
      <3>3. QED
        BY <2>1, <3>2 DEF OrderInv
    <2>5. QED
      BY <2>1, <2>2, <2>4 DEF OrderInv
  <1>15. CASE CrashAndRestart
    BY <1>15 DEF CrashAndRestart, OrderInv
  <1>16. QED
    BY <1>8, <1>9, <1>10, <1>11, <1>12, <1>13, <1>14, <1>15 DEF StepKinds

-----------------------------------------------------------------------------
(* The inductive invariant, and what follows from it. *)

IInv ==
  /\ ShapeInv /\ FlagsInv /\ CountInv /\ DemandInv
  /\ OrderInv /\ NumbersInv /\ DiskInv
  /\ FreshInv /\ Level0Inv /\ OwnInv
  /\ OutInv /\ ClosedInv /\ ApartInv

\* The flags are Boolean.
LEMMA FlagsStep ==
  ASSUME FlagsInv, [Next]_vars PROVE FlagsInv'
  <1>1. CASE WriteTable
    BY <1>1 DEF WriteTable, FlagsInv, vsetVars
  <1>2. ASSUME NEW m, InstallTable(m) \/ AssertionFails(m) PROVE FlagsInv'
    BY <1>2 DEF InstallTable, AssertionFails, FlagsInv, history
  <1>3. CASE FlushAsks
    BY <1>3 DEF FlushAsks, Schedule, Admitted, FlagsInv, vsetVars, history
  <1>4. CASE FlushLowers
    BY <1>4 DEF FlushLowers, FlagsInv, vsetVars, history
  <1>5. ASSUME NEW j \in Jobs, Pick(j) PROVE FlagsInv'
    BY <1>5 DEF Pick, FlagsInv, history
  <1>6. ASSUME NEW j \in Jobs, Open(j) PROVE FlagsInv'
    BY <1>6 DEF Open, FlagsInv, vsetVars, history
  <1>7. ASSUME NEW j \in Jobs, WriteOutput(j) PROVE FlagsInv'
    BY <1>7 DEF WriteOutput, FlagsInv, vsetVars, history
  <1>8. ASSUME NEW j \in Jobs, Finalize(j) PROVE FlagsInv'
    BY <1>8 DEF Finalize, FlagsInv, history
  <1>9. ASSUME NEW j \in Jobs, Ask(j) PROVE FlagsInv'
    BY <1>9 DEF Ask, Schedule, Admitted, FlagsInv, vsetVars, history
  <1>10. ASSUME NEW j \in Jobs, Lower(j) \/ Leave(j) PROVE FlagsInv'
    BY <1>10 DEF Lower, Leave, FlagsInv, vsetVars, history
  <1>11. CASE CrashAndRestart
    BY <1>11 DEF CrashAndRestart, FlagsInv
  <1>12. CASE UNCHANGED vars
    BY <1>12 DEF FlagsInv, vars, vsetVars, history
  <1>13. QED
    BY <1>1, <1>2, <1>3, <1>4, <1>5, <1>6, <1>7, <1>8, <1>9, <1>10, <1>11, <1>12 DEF Next

\* The version of an empty database is in order.
LEMMA EmptyInOrder == InStrictOrder(EmptyVersion)
  <1>1. /\ <<>> \in Seq(FileRec) /\ Range(<<>>) = {} /\ Sorted(<<>>)
        /\ Ordered(<<>>, NewerBound) /\ Ordered(<<>>, NotOlderBound)
    BY EmptySeq DEF Range, Sorted, Ordered
  <1>2. 0 \in Levels /\ EmptyVersion \in Versions /\ \A l \in Levels : EmptyVersion[l] = <<>>
    BY <1>1, OptionsAssumption DEF Levels, EmptyVersion, Versions
  <1> HIDE DEF EmptyVersion
  <1>3. QED
    BY <1>1, <1>2 DEF InStrictOrder, InOrder

\* The invariant holds at the start.
LEMMA InitIInv ==
  ASSUME Init PROVE IInv
  <1>1. /\ current = EmptyVersion /\ l0Busy = FALSE /\ minXip = 0 /\ nextNum = 2 /\ ckpt.files = EmptyVersion
        /\ ckpt.minXip = 0 /\ ckpt.nextNum = 2
        /\ poisoned = FALSE /\ running = 0 /\ jobs = [j \in Jobs |-> [pc |-> "none"]]
        /\ pending = {} /\ asking = 0 /\ lowering = 0 /\ used = {} /\ installed = 0 /\ twins = FALSE
        /\ crashes = 0 /\ refused = FALSE /\ stuck = {}
    BY DEF Init, NoCheckpoint, NoJob
  <1>2. 0 \in Levels /\ \A l \in Levels : Range(current[l]) = {} /\ Range(ckpt.files[l]) = {}
    BY <1>1, OptionsAssumption DEF EmptyVersion, Levels, Range
  <1>3. ShapeInv
    <2>1. FlushOK
      BY <1>1, FS_EmptySet, VersionSetAssumption DEF FlushOK, FlushJobs
    <2>2. QED
      BY <1>1, <2>1 DEF ShapeInv, JobOK
  <1>4. FlagsInv
    BY <1>1 DEF FlagsInv
  <1>5. CountInv
    <2>1. Active = {} /\ Lowering = {}
      BY <1>1 DEF Active, Lowering
    <2>2. QED
      BY <1>1, <2>1, FS_EmptySet DEF CountInv
  <1>6. DemandInv
    BY <1>1 DEF DemandInv
  <1>7. OrderInv
    BY <1>1, <1>2, EmptyInOrder DEF OrderInv, InStrictOrder
  <1>8. \A h \in Holders : Held[h] = {} /\ HeldByCheckpoint[h] = {}
    BY <1>1, <1>2, HolderTypes, HeldAt, CheckpointAt
  <1>9. NumbersInv
    BY <1>8 DEF NumbersInv, Distinct, Numbered
  <1>10. DiskInv
    BY <1>8 DEF DiskInv, AllOnDisk
  <1>11. \A j \in Jobs : ~ Running(j) /\ jobs[j].pc # "write"
    BY <1>1 DEF Running
  <1>12. FreshInv /\ Level0Inv
    BY <1>1, <1>11 DEF FreshInv, Level0Inv
  <1>13. OwnInv
    BY <1>2, <1>11 DEF OwnInv, Uses
  <1>14. OutInv /\ ClosedInv /\ ApartInv
    BY <1>11 DEF OutInv, ClosedInv, ApartInv, SameLevel
  <1>15. QED
    BY <1>3, <1>4, <1>5, <1>6, <1>7, <1>9, <1>10, <1>12, <1>13, <1>14 DEF IInv

\* Every step keeps it.
LEMMA NextIInv ==
  ASSUME IInv, [Next]_vars PROVE IInv'
  <1>1. /\ ShapeInv /\ FlagsInv /\ CountInv /\ DemandInv /\ OrderInv /\ NumbersInv /\ DiskInv
        /\ FreshInv /\ Level0Inv /\ OwnInv /\ OutInv /\ ClosedInv /\ ApartInv
    BY DEF IInv
  <1>2. StepKinds
    BY <1>1, Steps
  <1>3. HeldKinds
    BY <1>1, <1>2, HeldStep
  <1>4. PairsOK
    BY <1>1, OwnedPairs
  <1>5. ShapeInv'
    BY <1>1, <1>4, ShapeStep
  <1>6. FlagsInv' /\ CountInv' /\ DemandInv'
    BY <1>1, FlagsStep, CountStep, DemandStep
  <1>7. OrderInv'
    BY <1>1, <1>2, OrderStep
  <1>8. NumbersInv' /\ DiskInv'
    BY <1>1, <1>3, NumbersStep, DiskStep
  <1>9. FreshInv' /\ Level0Inv' /\ OwnInv'
    BY <1>1, <1>2, FreshStep, Level0Step, OwnStep
  <1>10. OutInv' /\ ClosedInv' /\ ApartInv'
    BY <1>1, <1>2, OutStep, ClosedStep, ApartStep
  <1>11. QED
    BY <1>5, <1>6, <1>7, <1>8, <1>9, <1>10 DEF IInv

\* It contains the types,
LEMMA TypesFollow ==
  ASSUME IInv PROVE StorageTypeOK
  <1>1. ShapeInv /\ FlagsInv /\ CountInv /\ OrderInv /\ NumbersInv /\ DiskInv
    BY DEF IInv
  <1>2. current \in Versions
    BY <1>1, HeldShape
  <1>3. DOMAIN current = Levels
    BY <1>2 DEF Versions
  <1>4. ASSUME NEW l \in Levels, NEW f \in Range(current[l])
        PROVE  /\ f.num \in DOMAIN disk /\ f.num < nextNum
               /\ f.busy \in BOOLEAN /\ f.xip \in Ts \cup {DefaultTs}
               /\ disk[f.num].ok =>
                     /\ \A k \in DOMAIN disk[f.num].pairs : f.inf <= k /\ k <= f.sup
                     /\ f.size = Cardinality(DOMAIN disk[f.num].pairs)
    <2>1. f \in Held[<<"level", l>>] /\ <<"level", l>> \in Holders
      BY <1>4, HeldAt, HolderTypes
    <2>2. f \in FileRec /\ f.num < nextNum
      BY <1>1, <2>1 DEF NumbersInv, Numbered
    <2>3. f.busy \in BOOLEAN
      BY <2>2 DEF FileRec
    <2>4. OnDisk(f, disk)
      BY <1>1, <2>1 DEF DiskInv, AllOnDisk
    <2>5. QED
      BY <2>2, <2>3, <2>4 DEF OnDisk, DefaultTs
  <1>5. running \in 0 .. 2 * MaxCompactions + MaxFlushJobs
    BY <1>1, CountBound
  <1>6. /\ {minXip, installed} \subseteq Ts \cup {0} /\ used \subseteq Ts
        /\ {l0Busy, poisoned, refused, twins} \subseteq BOOLEAN
    BY <1>1 DEF ShapeInv, FlushOK, FlagsInv
  <1>7. FlushJobs \in 0 .. MaxFlushJobs
    BY <1>1, FlushCounts DEF ShapeInv
  <1>8. ASSUME NEW j \in Jobs
        PROVE  jobs[j].pc \in {"none", "pick", "open", "write", "ask", "lower", "leave", "dead"}
    BY <1>1 DEF ShapeInv, JobOK
  <1>9. QED
    BY <1>3, <1>4, <1>5, <1>6, <1>7, <1>8 DEF StorageTypeOK

\* the order of the levels,
LEMMA OrderFollows ==
  ASSUME IInv PROVE LevelsAreSorted
  <1>1. InOrder(current) /\ (~ twins => InStrictOrder(current)) /\ 0 \in Levels
    BY OptionsAssumption DEF IInv, OrderInv, Levels
  <1>2. ASSUME NEW i \in DOMAIN current[0], NEW j \in DOMAIN current[0], i < j
        PROVE  /\ current[0][i].xip >= current[0][j].xip
               /\ ~ twins => current[0][i].xip # current[0][j].xip
    <2>1. <<current[0][i], current[0][j]>> \in NotOlderBound
      BY <1>1, <1>2 DEF InOrder, Ordered
    <2>2. ~ twins => <<current[0][i], current[0][j]>> \in NewerBound
      BY <1>1, <1>2 DEF InStrictOrder, Ordered
    <2>3. current[0][i].xip \in Nat /\ current[0][j].xip \in Nat
      BY <2>1 DEF NotOlderBound, FileRec
    <2>4. QED
      BY <2>1, <2>2, <2>3 DEF NotOlderBound, NewerBound
  <1>3. QED
    BY <1>1, <1>2 DEF InOrder, Sorted, Ordered, Below, LevelsAreSorted

\* A mark of a job is that of a file it works on.
LEMMA MarkOfUse ==
  ASSUME NEW j \in Jobs, Running(j), NEW m \in Marks(jobs[j].level, jobs[j].ins)
  PROVE  \E f : Uses(j, m[1], f) /\ f.num = m[2]
  <1>1. m = <<m[1], m[2]>>
    BY DEF Marks
  <1>2. PICK f : Among(jobs[j].level, jobs[j].ins, m[1], f) /\ f.num = m[2]
    BY <1>1, MarksOf
  <1>3. QED
    BY <1>2 DEF Uses

\* and that jobs own their inputs.
LEMMA OwnershipFollows ==
  ASSUME IInv PROVE JobsOwnTheirInputs
  <1>1. ShapeInv /\ OrderInv /\ OwnInv /\ Level0Inv
    BY DEF IInv
  <1>2. ASSUME NEW j \in Jobs, Running(j), NEW m \in Marks(jobs[j].level, jobs[j].ins)
        PROVE  \E f \in Range(current[m[1]]) : f.num = m[2] /\ f.busy
    <2>1. PICK f : Uses(j, m[1], f) /\ f.num = m[2]
      BY <1>2, MarkOfUse
    <2>2. f \in FileRec /\ InUse(f) \in Range(current[m[1]])
      BY <1>1, <2>1, UsesTypes DEF OwnInv
    <2>3. InUse(f).num = m[2] /\ IsBusy(InUse(f))
      BY <2>1, <2>2, InUseProperties, InUseBusy
    <2>4. QED
      BY <2>2, <2>3 DEF IsBusy
  <1>3. ASSUME NEW i \in Jobs, NEW j \in Jobs, i # j, Running(i), Running(j)
        PROVE  /\ Marks(jobs[i].level, jobs[i].ins) \cap Marks(jobs[j].level, jobs[j].ins) = {}
               /\ ~ (jobs[i].level = 0 /\ jobs[j].level = 0)
    <2>1. ASSUME NEW m, m \in Marks(jobs[i].level, jobs[i].ins), m \in Marks(jobs[j].level, jobs[j].ins)
          PROVE  FALSE
      <3>1. PICK f : Uses(i, m[1], f) /\ f.num = m[2]
        BY <1>3, <2>1, MarkOfUse
      <3>2. PICK g : Uses(j, m[1], g) /\ g.num = m[2]
        BY <1>3, <2>1, MarkOfUse
      <3>3. QED
        BY <1>1, <1>3, <3>1, <3>2 DEF OwnInv
    <2>2. ~ (jobs[i].level = 0 /\ jobs[j].level = 0)
      BY <1>1, <1>3 DEF Level0Inv
    <2>3. QED
      BY <2>1, <2>2
  <1>4. ASSUME NEW n \in Marked(current) \ stuck
        PROVE  \E j \in Jobs : Running(j) /\ \E m \in Marks(jobs[j].level, jobs[j].ins) : m[2] = n
    <2>1. PICK l \in Levels : \E f \in Range(current[l]) : f.num = n /\ IsBusy(f)
      BY DEF Marked, IsBusy
    <2>2. PICK j \in Jobs : \E k, g : Uses(j, k, g) /\ g.num = n
      BY <1>1, <2>1 DEF OwnInv
    <2>3. PICK k, g : Uses(j, k, g) /\ g.num = n
      BY <2>2
    <2>4. Running(j) /\ <<k, n>> \in Marks(jobs[j].level, jobs[j].ins)
      BY <2>3, MarksOf DEF Uses
    <2>5. QED
      BY <2>4
  <1>5. QED
    BY <1>2, <1>3, <1>4 DEF JobsOwnTheirInputs

\* The invariant holds always.
LEMMA AlwaysIInv == Spec => []IInv
  BY InitIInv, NextIInv, PTL DEF Spec

\* StorageTypeOK: the types, the counter of the flow control within its
\* bounds, and every file of the version in its table file.
THEOREM Types == Spec => []StorageTypeOK
  BY AlwaysIInv, TypesFollow, PTL

\* LevelsAreSorted: no two files of a level above 0 overlap, and level 0 is
\* ordered by bound, strictly until a bound has come twice, whatever
\* compactions are installed in which order.
THEOREM Order == Spec => []LevelsAreSorted
  BY AlwaysIInv, OrderFollows, PTL

\* JobsOwnTheirInputs: the inputs of a compaction stay marked in the version
\* and belong to no other one; no mark outlives its job but in a checkpoint.
THEOREM Ownership == Spec => []JobsOwnTheirInputs
  BY AlwaysIInv, OwnershipFollows, PTL

\* NothingLeftToCompact: no compaction is due when all jobs have come to
\* rest, unless the flow control refused the latest request.
THEOREM Demand == Spec => []NothingLeftToCompact
  <1>1. IInv => NothingLeftToCompact
    BY DemandMet DEF IInv
  <1>2. QED
    BY <1>1, AlwaysIInv, PTL

-----------------------------------------------------------------------------
(* Lookups: a compaction of level 0 has the oldest tables. *)

\* The inputs of level 0 are ordered by bound, and no other table of level 0
\* is older.
OldestOK(c, files) ==
  c.level = 0 =>
    /\ Ordered(c.ins[1], NotOlderBound)
    /\ \A e \in files : \/ \E g \in Range(c.ins[1]) : g.num = e.num
                        \/ \A g \in Range(c.ins[1]) : e.xip >= g.xip

OldestInv == \A j \in Jobs : Running(j) => OldestOK(jobs[j], Range(current[0]))

\* A table of level 0 that comes from a table of the same number and bound.
LEMMA OldestKept ==
  ASSUME NEW c, NEW files, OldestOK(c, files), NEW more,
         \A e \in more : \/ \E f \in files : e.num = f.num /\ e.xip = f.xip
                         \/ c.level = 0 => \A g \in Range(c.ins[1]) : e.xip >= g.xip
  PROVE  OldestOK(c, more)
  BY DEF OldestOK

\* No table is added to level 0 with a smaller bound.
LEMMA OldestStep ==
  ASSUME ShapeInv, OrderInv, Level0Inv, OwnInv, OldestInv, StepKinds
  PROVE  OldestInv'
  <1>1. Jobs' = Jobs
    BY DEF Jobs
  <1>2. SUFFICES ASSUME NEW i \in Jobs, Running(i)' PROVE OldestOK(jobs'[i], Range(current'[0]))
    BY <1>1 DEF OldestInv, OldestOK, Ordered, NotOlderBound, FileRec
  <1>3. 0 \in Levels /\ current \in Versions /\ \A f \in FileRec : f.xip \in Nat
    BY HeldShape DEF FileRec
  <1>4. ASSUME SameInputs(i), current'[0] = current[0] PROVE OldestOK(jobs'[i], Range(current'[0]))
    BY <1>2, <1>4 DEF SameInputs, OldestInv, OldestOK
  <1>5. ASSUME SameInputs(i),
               \A e \in Range(current'[0]) :
                  \/ \E f \in Range(current[0]) : e.num = f.num /\ e.xip = f.xip
                  \/ jobs[i].level = 0 => \A g \in Range(jobs[i].ins[1]) : e.xip >= g.xip
        PROVE  OldestOK(jobs'[i], Range(current'[0]))
    <2>1. Running(i) /\ jobs'[i].level = jobs[i].level /\ jobs'[i].ins = jobs[i].ins
      BY <1>2, <1>5 DEF SameInputs
    <2>2. OldestOK(jobs[i], Range(current[0]))
      BY <2>1 DEF OldestInv
    <2>3. OldestOK(jobs[i], Range(current'[0]))
      BY <1>5, <2>2, OldestKept
    <2>4. QED
      BY <2>1, <2>3 DEF OldestOK
  <1>6. <<>> \in Seq(FileRec) /\ Range(<<>>) = {}
    BY EmptySeq DEF Range
  <1>7. CASE \A k \in Jobs : SameInputs(k)
    <2>1. SameInputs(i)
      BY <1>7
    <2>2. ASSUME current' = current PROVE OldestOK(jobs'[i], Range(current'[0]))
      BY <1>4, <2>1, <2>2
    <2>3. ASSUME NEW m, TableInstalled(m) PROVE OldestOK(jobs'[i], Range(current'[0]))
      <3>1. /\ m \in pending /\ m.xip >= minXip
            /\ current' = Applied(current, 0, <<m>>, {}, {})
        BY <2>3 DEF TableInstalled, Install
      <3>2. m \in FileRec /\ minXip \in Nat
        BY <3>1 DEF ShapeInv, FlushOK, Ts
      <3>3. <<m>> \in Seq(FileRec) /\ Range(<<m>>) = {m}
        BY <3>2 DEF Range
      <3>4. ASSUME jobs[i].level = 0, NEW g \in Range(jobs[i].ins[1]) PROVE m.xip >= g.xip
        <4>1. Uses(i, 0, g)
          BY <1>2, <2>1, <3>4 DEF SameInputs, Uses, Among
        <4>2. g \in FileRec /\ InUse(g) \in Range(current[0])
          BY <4>1, UsesTypes DEF OwnInv
        <4>3. InUse(g).xip <= minXip /\ InUse(g).xip = g.xip
          BY <4>2, InUseProperties DEF OrderInv
        <4>4. QED
          BY <1>3, <3>1, <3>2, <4>2, <4>3
      <3>5. ASSUME NEW e \in Range(current'[0])
            PROVE  \/ \E f \in Range(current[0]) : e.num = f.num /\ e.xip = f.xip
                   \/ jobs[i].level = 0 => \A g \in Range(jobs[i].ins[1]) : e.xip >= g.xip
        <4>1. LikeOld(0, <<m>>, {}, 0, e)
          BY <1>3, <3>1, <3>3, EditKeeps
        <4>2. QED
          BY <3>3, <3>4, <4>1 DEF LikeOld
      <3>6. QED
        BY <1>5, <2>1, <3>5
    <2>4. ASSUME NEW j \in Jobs, Finalized(j) PROVE OldestOK(jobs'[i], Range(current'[0]))
      <3> DEFINE level == jobs[j].level + 1
                 added == jobs[j].out
                 deleted == Marks(jobs[j].level, jobs[j].ins)
      <3>1. current' = Applied(current, level, added, deleted, {}) /\ jobs[j].pc = "write"
        BY <2>4 DEF Finalized, Install
      <3>2. added \in Seq(FileRec) /\ level # 0
        BY <3>1, HeldShape, WriteJob
      <3> HIDE DEF level, added, deleted
      <3>3. ASSUME NEW e \in Range(current'[0])
            PROVE  \E f \in Range(current[0]) : e.num = f.num /\ e.xip = f.xip
        <4>1. LikeOld(level, added, deleted, 0, e)
          BY <1>3, <3>1, <3>2, EditKeeps
        <4>2. QED
          BY <3>2, <4>1 DEF LikeOld
      <3>4. QED
        BY <1>5, <2>1, <3>3
    <2>5. ASSUME NEW j \in Jobs, NEW level, NEW f, NEW ins, Picked(j, level, f, ins)
          PROVE  OldestOK(jobs'[i], Range(current'[0]))
      <3>1. ASSUME NEW e \in Range(current'[0])
            PROVE  \E g \in Range(current[0]) : e.num = g.num /\ e.xip = g.xip
        <4>1. current' = Applied(current, level, <<>>, {}, Marks(level, ins))
          BY <2>5 DEF Picked
        <4>2. LikeOld(level, <<>>, {}, 0, e)
          BY <1>3, <1>6, <4>1, EditKeeps
        <4>3. QED
          BY <1>6, <4>2 DEF LikeOld
      <3>2. QED
        BY <1>5, <2>1, <3>1
    <2>6. CASE CrashAndRestart
      BY <1>2, <2>6 DEF CrashAndRestart, NoJob, Running
    <2>7. CASE Quiet
      BY <2>2, <2>7 DEF Quiet
    <2>8. ASSUME NEW m, NEW pairs, TableWritten(m, pairs) PROVE OldestOK(jobs'[i], Range(current'[0]))
      BY <2>2, <2>8 DEF TableWritten, NewTable
    <2>9. ASSUME NEW j \in Jobs, Opened(j) PROVE OldestOK(jobs'[i], Range(current'[0]))
      BY <2>2, <2>9 DEF Opened
    <2>10. ASSUME NEW j \in Jobs, NEW m, NEW keys, OutputWritten(j, m, keys)
           PROVE  OldestOK(jobs'[i], Range(current'[0]))
      BY <2>2, <2>10 DEF OutputWritten, NewTable
    <2>11. QED
      BY <2>3, <2>4, <2>5, <2>6, <2>7, <2>8, <2>9, <2>10 DEF StepKinds
  <1>8. ASSUME NEW j \in Jobs, NEW level, NEW f0, NEW ins, Picked(j, level, f0, ins),
               jobs'[j] = [pc |-> "open", level |-> level, ins |-> ins],
               \A k \in Jobs : k # j => SameInputs(k)
        PROVE  OldestOK(jobs'[i], Range(current'[0]))
    <2>1. /\ current' = Applied(current, level, <<>>, {}, Marks(level, ins))
          /\ InputsFit(current, level, f0, ins)
      BY <1>8 DEF Picked
    <2>2. ASSUME NEW e \in Range(current'[0])
          PROVE  \E g \in Range(current[0]) : e.num = g.num /\ e.xip = g.xip
      <3>1. LikeOld(level, <<>>, {}, 0, e)
        BY <1>3, <1>6, <2>1, EditKeeps
      <3>2. QED
        BY <1>6, <3>1 DEF LikeOld
    <2>3. CASE i # j
      <3>1. SameInputs(i)
        BY <1>8, <2>3
      <3>2. QED
        BY <1>5, <2>2, <3>1
    <2>4. CASE i = j
      <3>1. OldestOK(jobs'[j], Range(current[0]))
        BY <1>8, <2>1 DEF InputsFit, OldestOK
      <3>2. OldestOK(jobs'[j], Range(current'[0]))
        BY <2>2, <3>1, OldestKept
      <3>3. QED
        BY <2>4, <3>2
    <2>5. QED
      BY <2>3, <2>4
  <1>9. QED
    BY <1>7, <1>8, InputsStay

-----------------------------------------------------------------------------
(* Lookups: the values in the tables are numbers of flushes. *)

\* Values of the flushes up to the n-th.
OfFlush(pairs, n) == \A k \in DOMAIN pairs : pairs[k] \in 1 .. n

\* The value of the last table that has been installed, at least that of all
\* flushes of earlier starts.
Latest == Value(installed)

\* Only the tables that are being flushed may have later values, each its own.
ValueInv ==
  /\ crashes <= MaxCrashes
  /\ \A m \in pending : \A k \in DOMAIN disk[m.num].pairs : disk[m.num].pairs[k] = Value(m.xip)
  /\ \A n \in DOMAIN disk : OfFlush(disk[n].pairs, Latest) \/ \E m \in pending : m.num = n
  /\ \A j \in Jobs : jobs[j].pc = "write" => OfFlush(jobs[j].rest, Latest)

\* Values grow with the bounds, and from one start of the program to the next.
LEMMA ValuesGrow ==
  ASSUME ShapeInv
  PROVE  /\ Latest \in Nat /\ MaxTs \in Nat
         /\ \A b \in Ts : Value(b) \in Nat /\ Value(b) >= 1
         /\ \A b, c \in Ts \cup {0} : b <= c => Value(b) <= Value(c)
         /\ \A b \in Ts, c \in Ts \cup {0} : b > c => Value(b) > Value(c)
         /\ \A b \in Ts \cup {0} : crashes' = crashes + 1 => Value(b) <= (crashes * MaxTs + MaxTs)
         /\ crashes' = crashes + 1 /\ installed' = 0 => Latest' = crashes * MaxTs + MaxTs
  <1>1. crashes \in Nat /\ MaxTs \in Nat /\ installed \in Ts \cup {0}
    BY VersionSetAssumption DEF ShapeInv, FlushOK
  <1>2. Ts = 1 .. MaxTs
    BY DEF Ts
  <1>3. crashes * MaxTs \in Nat
    BY <1>1
  <1>4. crashes' = crashes + 1 => crashes' * MaxTs = crashes * MaxTs + MaxTs
    BY <1>1
  <1> DEFINE base == crashes * MaxTs
  <1>5. \A b : Value(b) = base + b
    BY DEF Value
  <1>6. crashes' = crashes + 1 /\ installed' = 0 => Latest' = base + MaxTs + 0
    BY <1>4 DEF Latest, Value
  <1>7. Latest = base + installed
    BY <1>5 DEF Latest
  <1> HIDE DEF base
  <1>8. base \in Nat
    BY <1>3 DEF base
  <1>9. /\ Latest \in Nat
        /\ \A b \in Ts : Value(b) \in Nat /\ Value(b) >= 1
        /\ \A b, c \in Ts \cup {0} : b <= c => Value(b) <= Value(c)
        /\ \A b \in Ts, c \in Ts \cup {0} : b > c => Value(b) > Value(c)
        /\ \A b \in Ts \cup {0} : Value(b) <= base + MaxTs
    BY <1>1, <1>2, <1>5, <1>7, <1>8
  <1>10. crashes' = crashes + 1 /\ installed' = 0 => Latest' = base + MaxTs
    BY <1>1, <1>6, <1>8
  <1>11. QED
    BY <1>1, <1>9, <1>10 DEF base

\* A new table file leaves those of other numbers alone.
LEMMA NewDisk ==
  ASSUME NEW m, NEW pairs, NewTable(m, pairs)
  PROVE  /\ DOMAIN disk' = DOMAIN disk \cup {nextNum}
         /\ \A n \in DOMAIN disk : n # nextNum => disk'[n] = disk[n]
         /\ disk'[nextNum].pairs = pairs
  <1>1. disk' = Written(nextNum, pairs)
    BY DEF NewTable
  <1>2. QED
    BY <1>1 DEF Written

\* A flushed table is of a number of its own ...
LEMMA FlushedApart ==
  ASSUME NumbersInv, NEW m \in pending
  PROVE  /\ m \in FileRec /\ m.num < nextNum
         /\ \A l \in Levels : \A f \in Range(current[l]) : f.num # m.num
         /\ \A o \in pending : o.num = m.num => o = m
  <1> DEFINE h == <<"flush", 0>>
  <1>1. h \in Holders /\ Held[h] = pending
    BY HolderTypes, HeldAt
  <1>2. ASSUME NEW l \in Levels, NEW f \in Range(current[l]), f.num = m.num PROVE FALSE
    <2>1. <<"level", l>> \in Holders /\ f \in Held[<<"level", l>>]
      BY HolderTypes, HeldAt
    <2>2. <<"level", l>> = h
      BY <1>1, <1>2, <2>1 DEF NumbersInv, Distinct
    <2>3. QED
      BY <2>2
  <1> HIDE DEF h
  <1>3. \A o \in pending : o.num = m.num => o = m
    BY <1>1 DEF NumbersInv, Distinct
  <1>4. QED
    BY <1>1, <1>2, <1>3 DEF NumbersInv, Numbered

\* ... and so are the inputs of a job.
LEMMA InputsApart ==
  ASSUME ShapeInv, OrderInv, NumbersInv, OwnInv, DiskInv, NEW j \in Jobs, NEW l, NEW f, Uses(j, l, f)
  PROVE  /\ f.num \in DOMAIN disk /\ f.num < nextNum /\ f.num \in Nat
         /\ \A m \in pending : m.num # f.num
  <1>1. l \in Levels /\ f \in FileRec /\ InUse(f) \in Range(current[l])
    BY UsesTypes DEF OwnInv
  <1>2. InUse(f).num = f.num
    BY <1>1, InUseProperties
  <1>3. OnDisk(f, disk)
    BY InputsOnDisk
  <1>4. <<"level", l>> \in Holders /\ InUse(f) \in Held[<<"level", l>>]
    BY <1>1, HolderTypes, HeldAt
  <1>5. f.num < nextNum
    BY <1>2, <1>4 DEF NumbersInv, Numbered
  <1>6. \A m \in pending : m.num # f.num
    BY <1>1, <1>2, FlushedApart
  <1>7. QED
    BY <1>1, <1>3, <1>5, <1>6 DEF OnDisk, FileRec

\* A job writes values of its inputs.
LEMMA OpenedValues ==
  ASSUME ShapeInv, OrderInv, NumbersInv, OwnInv, DiskInv, OldestInv, ValueInv, NEW j \in Jobs, Opened(j)
  PROVE  OfFlush(jobs'[j].rest, Latest)
  <1> DEFINE c == jobs[j]
             merged == MergedPairs(c.level, c.ins, disk)
  <1>1. c.pc = "open" /\ jobs'[j].rest = merged
    BY DEF Opened, ShapeInv
  <1>2. c.ins \in Seq(FileRec) \X Seq(FileRec) /\ Running(j)
    BY <1>1, HeldShape, OpenJob DEF InputSeqs, Running
  <1>3. c.level = 0 => Ordered(c.ins[1], NotOlderBound)
    BY <1>2 DEF OldestInv, OldestOK
  <1>4. \A k \in DOMAIN merged : \E f : Wins(c.level, c.ins, disk, k, f) /\ merged[k] = disk[f.num].pairs[k]
    <2>1. WinnersOf(c.level, c.ins, disk, merged)
      BY <1>2, <1>3, MergedValues
    <2> HIDE DEF c, merged
    <2>2. QED
      BY <2>1 DEF WinnersOf
  <1>5. ASSUME NEW k \in DOMAIN merged PROVE merged[k] \in 1 .. Latest
    <2>1. PICK f : Wins(c.level, c.ins, disk, k, f) /\ merged[k] = disk[f.num].pairs[k]
      BY <1>4, <1>5
    <2>2. \E l : Uses(j, l, f)
      BY <1>2, <2>1 DEF Wins, Uses, Among
    <2>3. f.num \in DOMAIN disk /\ \A m \in pending : m.num # f.num
      BY <2>2, InputsApart
    <2>4. OfFlush(disk[f.num].pairs, Latest)
      BY <2>3 DEF ValueInv
    <2>5. QED
      BY <2>1, <2>4 DEF OfFlush, Wins, Has
  <1> HIDE DEF merged
  <1>6. QED
    BY <1>1, <1>5 DEF OfFlush

\* Values stay those of flushes, the latest of which are those whose tables
\* are being flushed.
LEMMA ValueStep ==
  ASSUME ShapeInv, OrderInv, NumbersInv, OwnInv, DiskInv, OldestInv, ValueInv, StepKinds
  PROVE  ValueInv'
  <1>1. Latest \in Nat /\ Jobs' = Jobs
    BY ValuesGrow DEF Jobs
  <1>2. \A pairs, m, n : m \in Nat /\ n \in Nat /\ m <= n /\ OfFlush(pairs, m) => OfFlush(pairs, n)
    BY DEF OfFlush
  <1>3. ASSUME UNCHANGED <<installed, crashes, pending, disk>>,
               \A j \in Jobs : jobs'[j].pc = "write" => OfFlush(jobs'[j].rest, Latest)
        PROVE  ValueInv'
    <2>1. Latest' = Latest /\ \A b : Value(b)' = Value(b)
      BY <1>3 DEF Latest, Value
    <2>2. QED
      BY <1>1, <1>3, <2>1 DEF ValueInv, OfFlush
  \* A table whose file has the next number, if it is not one that is flushed.
  <1>4. ASSUME NEW m, NEW pairs, NewTable(m, pairs)
        PROVE  /\ \A o \in pending : o.num # nextNum /\ disk'[o.num] = disk[o.num]
               /\ DOMAIN disk' = DOMAIN disk \cup {nextNum} /\ disk'[nextNum].pairs = pairs
               /\ \A n \in DOMAIN disk' : \/ n = nextNum
                                          \/ OfFlush(disk'[n].pairs, Latest)
                                          \/ \E o \in pending : o.num = n
    <2>1. ASSUME NEW o \in pending PROVE o.num # nextNum /\ disk'[o.num] = disk[o.num]
      <3>1. o.num # nextNum
        BY FlushedApart DEF FileRec, ShapeInv
      <3>2. <<"flush", 0>> \in Holders /\ o \in Held[<<"flush", 0>>]
        BY HolderTypes, HeldAt
      <3>3. o.num \in DOMAIN disk
        BY <3>2 DEF DiskInv, AllOnDisk, OnDisk
      <3>4. QED
        BY <1>4, <3>1, <3>3, NewDisk
    <2>2. QED
      BY <1>4, <2>1, NewDisk DEF ValueInv
  <1>5. CASE Quiet
    BY <1>3, <1>5 DEF Quiet, SameWork, ValueInv
  <1>6. ASSUME NEW m, NEW pairs, TableWritten(m, pairs) PROVE ValueInv'
    <2>1. /\ NewTable(m, pairs) /\ m.num = nextNum
          /\ pending' = pending \cup {m} /\ jobs' = jobs
          /\ installed' = installed /\ crashes' = crashes
          /\ \A k \in DOMAIN pairs : pairs[k] = Value(m.xip)
      BY <1>6 DEF TableWritten, NewTable
    <2>2. Latest' = Latest /\ \A b : Value(b)' = Value(b)
      BY <2>1 DEF Latest, Value
    <2>3. \A n \in DOMAIN disk' : OfFlush(disk'[n].pairs, Latest) \/ \E o \in pending' : o.num = n
      BY <1>4, <2>1
    <2>4. \A o \in pending' : \A k \in DOMAIN disk'[o.num].pairs : disk'[o.num].pairs[k] = Value(o.xip)
      BY <1>4, <2>1 DEF ValueInv
    <2>5. QED
      BY <1>1, <2>1, <2>2, <2>3, <2>4 DEF ValueInv, OfFlush
  <1>7. ASSUME NEW m, TableInstalled(m) PROVE ValueInv'
    <2>1. /\ m \in pending /\ m.xip >= minXip /\ pending' = pending \ {m} /\ installed' = m.xip
          /\ disk' = disk /\ jobs' = jobs /\ crashes' = crashes
      BY <1>7 DEF TableInstalled
    <2>2. m.xip \in Ts /\ installed \in Ts \cup {0} /\ installed <= m.xip
      <3>1. m.xip \in Ts /\ installed \in Ts \cup {0} /\ installed <= minXip /\ minXip \in Ts \cup {0}
        BY <2>1 DEF ShapeInv, FlushOK
      <3>2. m.xip \in Nat /\ installed \in Nat /\ minXip \in Nat
        BY <3>1 DEF Ts
      <3>3. QED
        BY <2>1, <3>1, <3>2
    <2>3. Latest' = Value(m.xip) /\ \A b : Value(b)' = Value(b)
      BY <2>1 DEF Latest, Value
    <2>4. Latest' \in Nat /\ Latest <= Latest' /\ Latest' >= 1
      BY <2>2, <2>3, ValuesGrow DEF Latest
    <2>5. ASSUME NEW n \in DOMAIN disk PROVE OfFlush(disk[n].pairs, Latest') \/ \E o \in pending' : o.num = n
      <3>1. CASE OfFlush(disk[n].pairs, Latest)
        BY <1>1, <1>2, <2>4, <3>1
      <3>2. CASE m.num = n
        <4>1. \A k \in DOMAIN disk[n].pairs : disk[n].pairs[k] = Latest'
          BY <2>1, <2>3, <3>2 DEF ValueInv
        <4>2. QED
          BY <2>4, <4>1 DEF OfFlush
      <3>3. ASSUME NEW o \in pending, o.num = n, o # m PROVE \E p \in pending' : p.num = n
        BY <2>1, <3>3
      <3>4. QED
        BY <3>1, <3>2, <3>3 DEF ValueInv
    <2>6. \A j \in Jobs : jobs'[j].pc = "write" => OfFlush(jobs'[j].rest, Latest')
      BY <1>1, <1>2, <2>1, <2>4 DEF ValueInv
    <2>7. QED
      BY <1>1, <2>1, <2>3, <2>5, <2>6 DEF ValueInv, OfFlush
  <1>8. ASSUME NEW i \in Jobs, NEW level, NEW f, NEW ins, Picked(i, level, f, ins) PROVE ValueInv'
    <2>1. \A j \in Jobs : jobs'[j].pc = "write" => OfFlush(jobs'[j].rest, Latest)
      BY <1>8 DEF Picked, ShapeInv, ValueInv
    <2>2. QED
      BY <1>3, <1>8, <2>1 DEF Picked
  <1>9. ASSUME NEW i \in Jobs, Opened(i) PROVE ValueInv'
    <2>1. \A j \in Jobs : jobs'[j].pc = "write" => OfFlush(jobs'[j].rest, Latest)
      <3>1. SUFFICES ASSUME NEW j \in Jobs, jobs'[j].pc = "write" PROVE OfFlush(jobs'[j].rest, Latest)
        OBVIOUS
      <3>2. CASE i = j
        BY <1>9, <3>2, OpenedValues
      <3>3. CASE i # j
        <4>1. jobs'[j] = jobs[j]
          BY <1>9, <3>3 DEF Opened, ShapeInv
        <4>2. QED
          BY <3>1, <4>1 DEF ValueInv
      <3>4. QED
        BY <3>2, <3>3
    <2>2. QED
      BY <1>3, <1>9, <2>1 DEF Opened
  <1>10. ASSUME NEW i \in Jobs, NEW m, NEW keys, OutputWritten(i, m, keys) PROVE ValueInv'
    <2> DEFINE rest == jobs[i].rest
    <2>1. /\ NewTable(m, Restrict(rest, keys)) /\ UNCHANGED <<pending, installed, crashes>>
          /\ jobs[i].pc = "write" /\ keys = OutputKeys(rest)
          /\ jobs'[i].rest = Restrict(rest, DOMAIN rest \ keys)
          /\ \A j \in Jobs : j # i => jobs'[j] = jobs[j]
      BY <1>10 DEF OutputWritten, ShapeInv
    <2>2. OfFlush(rest, Latest) /\ keys \subseteq DOMAIN rest
      BY <2>1 DEF ValueInv, OutputKeys
    <2>3. OfFlush(Restrict(rest, keys), Latest) /\ OfFlush(jobs'[i].rest, Latest)
      BY <2>1, <2>2 DEF OfFlush, Restrict
    <2> HIDE DEF rest
    <2>4. Latest' = Latest /\ \A b : Value(b)' = Value(b)
      BY <2>1 DEF Latest, Value
    <2>5. \A j \in Jobs : jobs'[j].pc = "write" => OfFlush(jobs'[j].rest, Latest)
      BY <2>1, <2>3 DEF ValueInv
    <2>6. \A n \in DOMAIN disk' : OfFlush(disk'[n].pairs, Latest) \/ \E o \in pending : o.num = n
      BY <1>4, <2>1, <2>3
    <2>7. \A o \in pending : \A k \in DOMAIN disk'[o.num].pairs : disk'[o.num].pairs[k] = Value(o.xip)
      BY <1>4, <2>1 DEF ValueInv
    <2>8. QED
      BY <1>1, <2>1, <2>4, <2>5, <2>6, <2>7 DEF ValueInv, OfFlush
  <1>11. ASSUME NEW i \in Jobs, Finalized(i) PROVE ValueInv'
    <2>1. \A j \in Jobs : jobs'[j].pc = "write" => OfFlush(jobs'[j].rest, Latest)
      BY <1>11 DEF Finalized, ShapeInv, ValueInv
    <2>2. QED
      BY <1>3, <1>11, <2>1 DEF Finalized
  <1>12. CASE CrashAndRestart
    <2>1. /\ crashes < MaxCrashes /\ crashes' = crashes + 1 /\ installed' = 0 /\ pending' = {} /\ disk' = disk
          /\ \A j \in Jobs : jobs'[j].pc # "write"
      BY <1>12 DEF CrashAndRestart, NoJob
    <2> DEFINE top == crashes * MaxTs + MaxTs
    <2>2. /\ Latest' = top /\ \A b \in Ts \cup {0} : Value(b) <= top
      BY <2>1, ValuesGrow
    <2>3. crashes \in Nat /\ MaxCrashes \in Nat /\ MaxTs \in Nat
      BY VersionSetAssumption DEF ShapeInv, FlushOK
    <2>4. top \in Nat
      BY <2>3
    <2> HIDE DEF top
    <2>5. Latest <= top
      BY <2>2 DEF Latest, ShapeInv, FlushOK
    <2>6. ASSUME NEW n \in DOMAIN disk PROVE OfFlush(disk[n].pairs, top)
      <3>1. CASE OfFlush(disk[n].pairs, Latest)
        BY <1>1, <1>2, <2>4, <2>5, <3>1
      <3>2. ASSUME NEW m \in pending, m.num = n PROVE OfFlush(disk[n].pairs, top)
        <4>1. m.xip \in Ts /\ \A k \in DOMAIN disk[n].pairs : disk[n].pairs[k] = Value(m.xip)
          BY <3>2 DEF ValueInv, ShapeInv, FlushOK
        <4>2. Value(m.xip) \in Nat /\ Value(m.xip) >= 1 /\ Value(m.xip) <= top
          BY <2>2, <4>1, ValuesGrow
        <4>3. QED
          BY <2>4, <4>1, <4>2 DEF OfFlush
      <3>3. QED
        BY <3>1, <3>2 DEF ValueInv
    <2>7. crashes' <= MaxCrashes
      BY <2>1, <2>3
    <2>8. QED
      BY <1>1, <2>1, <2>2, <2>6, <2>7 DEF ValueInv, OfFlush
  <1>13. QED
    BY <1>5, <1>6, <1>7, <1>8, <1>9, <1>10, <1>11, <1>12 DEF StepKinds

-----------------------------------------------------------------------------
(* Lookups: what a job has written and has yet to write. *)

\* Of each key of its inputs, the pair of the input that wins.
MergedOK(c, d) ==
  /\ \A f \in Work(c) : d[f.num].ok
  /\ \A k \in DOMAIN c.rest : \E f : Wins(c.level, c.ins, d, k, f) /\ c.rest[k] = d[f.num].pairs[k]
  /\ \A g \in Range(c.out) : \A k : Has(d, g, k) =>
       \E f : Wins(c.level, c.ins, d, k, f) /\ d[g.num].pairs[k] = d[f.num].pairs[k]
  /\ \A f \in Work(c) : \A k : Has(d, f, k) => k \in DOMAIN c.rest \/ \E g \in Range(c.out) : Has(d, g, k)

MergedInv == \A j \in Jobs : jobs[j].pc = "write" => MergedOK(jobs[j], disk)

\* The winner is an input.
LEMMA WinnerWorks ==
  ASSUME NEW c, NEW d, NEW k, NEW f, Wins(c.level, c.ins, d, k, f)
  PROVE  f \in Work(c) /\ Has(d, f, k)
  BY DEF Wins, Work

\* It wins wherever the inputs have the same table files.
LEMMA WinsStill ==
  ASSUME NEW c, NEW d, NEW e, \A f \in Work(c) : e[f.num] = d[f.num],
         NEW k, NEW f, Wins(c.level, c.ins, d, k, f)
  PROVE  Wins(c.level, c.ins, e, k, f)
  <1>1. \A g \in Work(c) : Has(e, g, k) <=> Has(d, g, k)
    BY DEF Has
  <1>2. f \in Work(c) /\ Range(c.ins[1]) \subseteq Work(c)
    BY WinnerWorks DEF Work
  <1>3. QED
    BY <1>1, <1>2 DEF Wins

\* Other table files do not matter.
LEMMA MergedStill ==
  ASSUME NEW c, NEW d, NEW e, MergedOK(c, d),
         \A f \in Work(c) \cup Range(c.out) : e[f.num] = d[f.num]
  PROVE  MergedOK(c, e)
  <1>1. \A f \in Work(c) \cup Range(c.out) : \A k : Has(e, f, k) <=> Has(d, f, k)
    BY DEF Has
  <1>2. \A k, f : Wins(c.level, c.ins, d, k, f) =>
          Wins(c.level, c.ins, e, k, f) /\ e[f.num] = d[f.num]
    BY WinnerWorks, WinsStill
  <1>3. \A f \in Work(c) : e[f.num].ok
    BY DEF MergedOK
  <1>4. ASSUME NEW k \in DOMAIN c.rest
        PROVE  \E f : Wins(c.level, c.ins, e, k, f) /\ c.rest[k] = e[f.num].pairs[k]
    <2>1. PICK f : Wins(c.level, c.ins, d, k, f) /\ c.rest[k] = d[f.num].pairs[k]
      BY <1>4 DEF MergedOK
    <2>2. QED
      BY <1>2, <2>1
  <1>5. ASSUME NEW g \in Range(c.out), NEW k, Has(e, g, k)
        PROVE  \E f : Wins(c.level, c.ins, e, k, f) /\ e[g.num].pairs[k] = e[f.num].pairs[k]
    <2>1. Has(d, g, k) /\ e[g.num] = d[g.num]
      BY <1>1, <1>5
    <2>2. PICK f : Wins(c.level, c.ins, d, k, f) /\ d[g.num].pairs[k] = d[f.num].pairs[k]
      BY <1>5, <2>1 DEF MergedOK
    <2>3. QED
      BY <1>2, <2>1, <2>2
  <1>6. ASSUME NEW f \in Work(c), NEW k, Has(e, f, k)
        PROVE  k \in DOMAIN c.rest \/ \E g \in Range(c.out) : Has(e, g, k)
    BY <1>1, <1>6 DEF MergedOK
  <1>7. QED
    BY <1>3, <1>4, <1>5, <1>6 DEF MergedOK

\* At the start everything is still to be written.
LEMMA OpenedMerges ==
  ASSUME ShapeInv, OldestInv, NEW j \in Jobs, Opened(j)
  PROVE  MergedOK(jobs'[j], disk)
  <1> DEFINE c == jobs[j]
             d == jobs'[j]
             merged == MergedPairs(c.level, c.ins, disk)
  <1>1. /\ c.pc = "open" /\ d.level = c.level /\ d.ins = c.ins /\ d.out = <<>> /\ d.rest = merged
        /\ \A f \in Work(c) : disk[f.num].ok
    BY DEF Opened, ShapeInv, Work
  <1>2. c.ins \in Seq(FileRec) \X Seq(FileRec) /\ Running(j)
    BY <1>1, OpenJob DEF InputSeqs, Running, ShapeInv
  <1>3. c.level = 0 => Ordered(c.ins[1], NotOlderBound)
    BY <1>2 DEF OldestInv, OldestOK
  <1>4. WinnersOf(c.level, c.ins, disk, merged)
    BY <1>2, <1>3, MergedValues
  <1>5. Range(d.out) = {} /\ Work(d) = Work(c)
    BY <1>1 DEF Range, Work
  <1> HIDE DEF c, d, merged
  <1>6. MergedOK(d, disk)
    BY <1>1, <1>4, <1>5 DEF WinnersOf, MergedOK, Work
  <1>7. QED
    BY <1>6 DEF d

\* What is in a sequence with one more element, and what was in it.
LEMMA RangeAppended ==
  ASSUME NEW s \in Seq(FileRec), NEW m \in FileRec
  PROVE  m \in Range(Append(s, m)) /\ Range(s) \subseteq Range(Append(s, m))
  <1>1. /\ Len(s) \in Nat /\ DOMAIN s = 1 .. Len(s) /\ DOMAIN Append(s, m) = 1 .. Len(s) + 1
        /\ Append(s, m)[Len(s) + 1] = m /\ \A i \in 1 .. Len(s) : Append(s, m)[i] = s[i]
    BY LenProperties, AppendProperties
  <1>2. QED
    BY <1>1 DEF Range

\* The table files of a job that writes are not of the next number.
LEMMA JobFilesOld ==
  ASSUME ShapeInv, OrderInv, NumbersInv, OwnInv, DiskInv, NEW j \in Jobs, jobs[j].pc = "write",
         NEW f \in Work(jobs[j]) \cup Range(jobs[j].out)
  PROVE  f.num \in DOMAIN disk /\ f.num # nextNum
  <1>1. CASE f \in Work(jobs[j])
    <2>1. \E l : Uses(j, l, f)
      BY <1>1 DEF Uses, Among, Work, Running
    <2>2. QED
      BY <2>1, InputsApart DEF ShapeInv
  <1>2. CASE f \in Range(jobs[j].out)
    <2>1. <<"job", j>> \in Holders /\ f \in Held[<<"job", j>>]
      BY <1>2, HolderTypes, HeldAt
    <2>2. f \in FileRec /\ f.num < nextNum /\ OnDisk(f, disk)
      BY <2>1 DEF NumbersInv, Numbered, DiskInv, AllOnDisk
    <2>3. QED
      BY <2>2 DEF OnDisk, FileRec, ShapeInv
  <1>3. QED
    BY <1>1, <1>2

\* A pair goes from what is to be written to the output file.
LEMMA OutputMerges ==
  ASSUME ShapeInv, OrderInv, NumbersInv, OwnInv, DiskInv, MergedInv,
         NEW j \in Jobs, NEW m, NEW keys, OutputWritten(j, m, keys)
  PROVE  MergedOK(jobs'[j], disk')
  <1> DEFINE c == jobs[j]
             d == jobs'[j]
             D == DOMAIN c.rest
  <1>1. /\ c.pc = "write" /\ keys = OutputKeys(c.rest) /\ m \in FileRec /\ m.num = nextNum
        /\ NewTable(m, Restrict(c.rest, keys))
        /\ d.level = c.level /\ d.ins = c.ins /\ d.out = Append(c.out, m)
        /\ d.rest = Restrict(c.rest, D \ keys)
    BY DEF OutputWritten, NewTable, ShapeInv
  <1>2. c.out \in Seq(FileRec) /\ MergedOK(c, disk)
    BY <1>1, WriteJob DEF ShapeInv, MergedInv
  <1>3. keys \subseteq D
    BY <1>1 DEF OutputKeys
  <1>4. MergedOK(c, disk')
    <2>1. ASSUME NEW f \in Work(c) \cup Range(c.out) PROVE disk'[f.num] = disk[f.num]
      BY <1>1, JobFilesOld, NewDisk
    <2>2. QED
      BY <1>2, <2>1, MergedStill
  <1>5. \A k : Has(disk', m, k) <=> k \in keys
    BY <1>1, NewDisk DEF Has, Restrict
  <1>6. \A k \in keys : disk'[m.num].pairs[k] = c.rest[k]
    BY <1>1, NewDisk DEF Restrict
  <1>7. DOMAIN d.rest = D \ keys /\ \A k \in D \ keys : d.rest[k] = c.rest[k]
    BY <1>1 DEF Restrict
  <1>8. Work(d) = Work(c)
    BY <1>1 DEF Work
  <1>9. /\ \A g \in Range(d.out) : g \in Range(c.out) \/ g = m
        /\ m \in Range(d.out) /\ Range(c.out) \subseteq Range(d.out)
    BY <1>1, <1>2, RangeOfAppend, RangeAppended
  <1> HIDE DEF c, d
  <1>10. \A k \in D : \E f : Wins(c.level, c.ins, disk', k, f) /\ c.rest[k] = disk'[f.num].pairs[k]
    BY <1>4 DEF MergedOK
  <1> HIDE DEF D
  <1>11. \A k \in DOMAIN d.rest : \E f : Wins(d.level, d.ins, disk', k, f) /\ d.rest[k] = disk'[f.num].pairs[k]
    BY <1>1, <1>7, <1>10
  <1>12. ASSUME NEW g \in Range(d.out), NEW k, Has(disk', g, k)
         PROVE  \E f : Wins(d.level, d.ins, disk', k, f) /\ disk'[g.num].pairs[k] = disk'[f.num].pairs[k]
    <2>1. CASE g = m
      BY <1>1, <1>3, <1>5, <1>6, <1>10, <1>12, <2>1
    <2>2. CASE g \in Range(c.out)
      BY <1>1, <1>4, <1>12, <2>2 DEF MergedOK
    <2>3. QED
      BY <1>9, <2>1, <2>2
  <1>13. ASSUME NEW f \in Work(d), NEW k, Has(disk', f, k)
         PROVE  k \in DOMAIN d.rest \/ \E g \in Range(d.out) : Has(disk', g, k)
    <2>1. k \in D \/ \E g \in Range(c.out) : Has(disk', g, k)
      BY <1>4, <1>8, <1>13 DEF MergedOK, D
    <2>2. QED
      BY <1>5, <1>7, <1>9, <2>1
  <1>14. \A f \in Work(d) : disk'[f.num].ok
    BY <1>4, <1>8 DEF MergedOK
  <1>15. MergedOK(d, disk')
    BY <1>11, <1>12, <1>13, <1>14 DEF MergedOK
  <1>16. QED
    BY <1>15 DEF d

\* Jobs lose no pair and keep none that a newer one replaces.
LEMMA MergedStep ==
  ASSUME ShapeInv, OrderInv, NumbersInv, OwnInv, DiskInv, OldestInv, MergedInv, StepKinds
  PROVE  MergedInv'
  <1>1. Jobs' = Jobs
    BY DEF Jobs
  <1>2. SUFFICES ASSUME NEW j \in Jobs, jobs'[j].pc = "write" PROVE MergedOK(jobs'[j], disk')
    BY <1>1 DEF MergedInv, MergedOK, Work, Wins, Has
  <1>3. ASSUME jobs'[j] = jobs[j], disk' = disk PROVE MergedOK(jobs'[j], disk')
    BY <1>2, <1>3 DEF MergedInv
  <1>4. ASSUME jobs'[j] = jobs[j], NEW m, NEW pairs, NewTable(m, pairs) PROVE MergedOK(jobs'[j], disk')
    <2>1. jobs[j].pc = "write" /\ MergedOK(jobs[j], disk)
      BY <1>2, <1>4 DEF MergedInv
    <2>2. ASSUME NEW f \in Work(jobs[j]) \cup Range(jobs[j].out) PROVE disk'[f.num] = disk[f.num]
      BY <1>4, <2>1, JobFilesOld, NewDisk
    <2>3. MergedOK(jobs[j], disk')
      BY <2>1, <2>2, MergedStill
    <2>4. QED
      BY <1>4, <2>3
  <1>5. CASE Quiet
    BY <1>2, <1>3, <1>5 DEF Quiet, SameWork
  <1>6. ASSUME NEW m, NEW pairs, TableWritten(m, pairs) PROVE MergedOK(jobs'[j], disk')
    BY <1>4, <1>6 DEF TableWritten
  <1>7. ASSUME NEW t, TableInstalled(t) PROVE MergedOK(jobs'[j], disk')
    BY <1>3, <1>7 DEF TableInstalled
  <1>8. ASSUME NEW i \in Jobs, NEW level, NEW f, NEW ins, Picked(i, level, f, ins) PROVE MergedOK(jobs'[j], disk')
    BY <1>2, <1>3, <1>8 DEF Picked, ShapeInv
  <1>9. ASSUME NEW i \in Jobs, Opened(i) PROVE MergedOK(jobs'[j], disk')
    <2>1. disk' = disk /\ (i = j \/ jobs'[j] = jobs[j])
      BY <1>9 DEF Opened, ShapeInv
    <2>2. QED
      BY <1>3, <1>9, <2>1, OpenedMerges
  <1>10. ASSUME NEW i \in Jobs, NEW m, NEW keys, OutputWritten(i, m, keys) PROVE MergedOK(jobs'[j], disk')
    <2>1. i = j \/ jobs'[j] = jobs[j]
      BY <1>10 DEF OutputWritten, ShapeInv
    <2>2. NewTable(m, Restrict(jobs[i].rest, keys))
      BY <1>10 DEF OutputWritten
    <2>3. QED
      BY <1>4, <1>10, <2>1, <2>2, OutputMerges
  <1>11. ASSUME NEW i \in Jobs, Finalized(i) PROVE MergedOK(jobs'[j], disk')
    BY <1>2, <1>3, <1>11 DEF Finalized, ShapeInv
  <1>12. CASE CrashAndRestart
    BY <1>2, <1>12 DEF CrashAndRestart, NoJob
  <1>13. QED
    BY <1>5, <1>6, <1>7, <1>8, <1>9, <1>10, <1>11, <1>12 DEF StepKinds

-----------------------------------------------------------------------------
(* Lookups: the checkpoint has the files of the version. *)

\* Every file of v is in w, at its level; its mark aside.
Within(v, w) ==
  \A l \in Levels : \A f \in Range(v[l]) : \E g \in Range(w[l]) : g.num = f.num /\ g.xip = f.xip

SameFiles(v, w) == Within(v, w) /\ Within(w, v)

SameInv == SameFiles(ckpt.files, current)

\* A version has its own files.
LEMMA SameReflexive == \A v : SameFiles(v, v)
  BY DEF SameFiles, Within

\* Versions with the files of one version have the same files.
LEMMA SameTransitive ==
  ASSUME NEW u, NEW v, NEW w, SameFiles(u, v), SameFiles(v, w)
  PROVE  SameFiles(u, w)
  <1>1. ASSUME NEW a, NEW b, NEW c, Within(a, b), Within(b, c) PROVE Within(a, c)
    <2>1. SUFFICES ASSUME NEW l \in Levels, NEW f \in Range(a[l])
                   PROVE  \E g \in Range(c[l]) : g.num = f.num /\ g.xip = f.xip
      BY DEF Within
    <2>2. PICK g \in Range(b[l]) : g.num = f.num /\ g.xip = f.xip
      BY <1>1, <2>1 DEF Within
    <2>3. PICK h \in Range(c[l]) : h.num = g.num /\ h.xip = g.xip
      BY <1>1, <2>1, <2>2 DEF Within
    <2>4. QED
      BY <2>2, <2>3
  <1>2. QED
    BY <1>1 DEF SameFiles

\* An edit that only marks.
LEMMA MarkedSame ==
  ASSUME current \in Versions, NEW level, NEW marked,
         current' = Applied(current, level, <<>>, {}, marked)
  PROVE  SameFiles(current, current')
  <1>1. <<>> \in Seq(FileRec) /\ Range(<<>>) = {}
    BY EmptySeq DEF Range
  <1>2. ASSUME NEW l \in Levels, NEW f \in Range(current[l])
        PROVE  \E g \in Range(current'[l]) : g.num = f.num /\ g.xip = f.xip
    <2>1. f \in FileRec
      BY <1>2, RangeOfSeq DEF Versions
    <2>2. Marking(f, l, marked) \in Range(current'[l])
      BY <1>1, <1>2, EditedTo
    <2>3. QED
      BY <2>1, <2>2, MarkingProperties
  <1>3. ASSUME NEW l \in Levels, NEW e \in Range(current'[l])
        PROVE  \E g \in Range(current[l]) : g.num = e.num /\ g.xip = e.xip
    <2>1. LikeOld(level, <<>>, {}, l, e)
      BY <1>1, <1>3, EditKeeps
    <2>2. QED
      BY <1>1, <2>1 DEF LikeOld
  <1>4. QED
    BY <1>2, <1>3 DEF SameFiles, Within

\* Every edit that changes the files is logged, and marks do not change them.
LEMMA SameStep ==
  ASSUME ShapeInv, OrderInv, SameInv, StepKinds
  PROVE  SameInv'
  <1>1. ASSUME ckpt' = ckpt, SameFiles(current, current') PROVE SameInv'
    <2>1. SameFiles(ckpt.files, current')
      BY <1>1, SameTransitive DEF SameInv
    <2>2. SameFiles(ckpt'.files, current')
      BY <1>1, <2>1
    <2>3. QED
      BY <2>2 DEF SameInv, SameFiles, Within, Levels
  <1>2. ASSUME ckpt'.files = current' PROVE SameInv'
    BY <1>2 DEF SameInv, SameFiles, Within
  <1>3. ASSUME current' = current, ckpt' = ckpt PROVE SameInv'
    BY <1>1, <1>3, SameReflexive
  <1>4. CASE Quiet
    BY <1>3, <1>4 DEF Quiet
  <1>5. ASSUME NEW m, NEW pairs, TableWritten(m, pairs) PROVE SameInv'
    BY <1>3, <1>5 DEF TableWritten, NewTable
  <1>6. ASSUME NEW t, TableInstalled(t) PROVE SameInv'
    BY <1>2, <1>6 DEF TableInstalled, Install
  <1>7. ASSUME NEW i \in Jobs, NEW level, NEW f, NEW ins, Picked(i, level, f, ins) PROVE SameInv'
    <2>1. SameFiles(current, current')
      BY <1>7, HeldShape, MarkedSame DEF Picked
    <2>2. QED
      BY <1>1, <1>7, <2>1 DEF Picked
  <1>8. ASSUME NEW i \in Jobs, Opened(i) PROVE SameInv'
    BY <1>3, <1>8 DEF Opened
  <1>9. ASSUME NEW i \in Jobs, NEW m, NEW keys, OutputWritten(i, m, keys) PROVE SameInv'
    BY <1>3, <1>9 DEF OutputWritten, NewTable
  <1>10. ASSUME NEW i \in Jobs, Finalized(i) PROVE SameInv'
    BY <1>2, <1>10 DEF Finalized, Install
  <1>11. CASE CrashAndRestart
    BY <1>2, <1>11 DEF CrashAndRestart
  <1>12. QED
    BY <1>4, <1>5, <1>6, <1>7, <1>8, <1>9, <1>10, <1>11 DEF StepKinds

-----------------------------------------------------------------------------
(* Lookups: what a step does to them. *)

\* The tables of v are on the disk d, with values of the first n flushes.
TablesOK(v, d, n) ==
  n \in Nat /\ \A l \in Levels : \A f \in Range(v[l]) : OnDisk(f, d) /\ OfFlush(d[f.num].pairs, n)

\* A table of v is overwritten in part.
Damaged(v, d) == \E l \in Levels : \E f \in Range(v[l]) : ~ d[f.num].ok

\* The tables of the version have no values of flushes that are under way.
LEMMA CurrentTables ==
  ShapeInv /\ NumbersInv /\ DiskInv /\ ValueInv => TablesOK(current, disk, Latest)
  <1>1. SUFFICES ASSUME ShapeInv, NumbersInv, DiskInv, ValueInv PROVE TablesOK(current, disk, Latest)
    OBVIOUS
  <1>2. Latest \in Nat
    BY <1>1, ValuesGrow
  <1>3. ASSUME NEW l \in Levels, NEW f \in Range(current[l])
        PROVE  OnDisk(f, disk) /\ OfFlush(disk[f.num].pairs, Latest)
    <2>1. <<"level", l>> \in Holders /\ f \in Held[<<"level", l>>]
      BY <1>3, HolderTypes, HeldAt
    <2>2. OnDisk(f, disk)
      BY <1>1, <2>1 DEF DiskInv, AllOnDisk
    <2>3. \A m \in pending : m.num # f.num
      BY <1>1, <1>3, FlushedApart
    <2>4. OfFlush(disk[f.num].pairs, Latest)
      BY <1>1, <2>2, <2>3 DEF ValueInv, OnDisk
    <2>5. QED
      BY <2>2, <2>4
  <1>4. QED
    BY <1>2, <1>3 DEF TablesOK

\* The latest value is one of those that the map knows, if it is of a flush.
LEMMA LatestBounded == ShapeInv /\ ValueInv => Latest \in 0 .. (MaxCrashes + 1) * MaxTs
  <1>1. SUFFICES ASSUME ShapeInv, ValueInv PROVE Latest \in 0 .. (MaxCrashes + 1) * MaxTs
    OBVIOUS
  <1>2. /\ crashes \in Nat /\ MaxCrashes \in Nat /\ MaxTs \in Nat /\ crashes <= MaxCrashes
        /\ installed \in 0 .. MaxTs
    BY <1>1, VersionSetAssumption DEF ShapeInv, FlushOK, ValueInv, Ts
  <1>3. PICK d \in Nat : MaxCrashes = crashes + d
    <2>1. MaxCrashes - crashes \in Nat /\ MaxCrashes = crashes + (MaxCrashes - crashes)
      BY <1>2
    <2>2. QED
      BY <2>1
  <1>4. (crashes + d + 1) * MaxTs = crashes * MaxTs + d * MaxTs + MaxTs
    BY <1>2, <1>3
  <1>5. crashes * MaxTs \in Nat /\ d * MaxTs \in Nat
    BY <1>2, <1>3
  <1> DEFINE a == crashes * MaxTs
             b == d * MaxTs
             top == (MaxCrashes + 1) * MaxTs
  <1>6. top = a + b + MaxTs /\ Latest = a + installed
    BY <1>3, <1>4 DEF Latest, Value
  <1>7. a \in Nat /\ b \in Nat
    BY <1>5
  <1> HIDE DEF a, b, top
  <1>8. Latest \in 0 .. top
    BY <1>2, <1>6, <1>7
  <1>9. QED
    BY <1>8 DEF top

\* The same after a step.
LEMMA LatestBoundedNext ==
  (ShapeInv /\ ValueInv => Latest \in 0 .. (MaxCrashes + 1) * MaxTs)'
  BY LatestBounded, PTL

\* And the tables after a step.
LEMMA CurrentTablesNext ==
  (ShapeInv /\ NumbersInv /\ DiskInv /\ ValueInv => TablesOK(current, disk, Latest))'
  BY CurrentTables, PTL

\* A version in strict order, none of whose tables is overwritten, is intact.
LEMMA IntactTables ==
  ASSUME NEW v, NEW d, NEW n, InStrictOrder(v), TablesOK(v, d, n), ~ Damaged(v, d)
  PROVE  Intact(v, d)
  <1>1. ASSUME NEW l \in Levels, NEW f \in Range(v[l]) PROVE Readable(f, d)
    <2>1. OnDisk(f, d) /\ OfFlush(d[f.num].pairs, n) /\ d[f.num].ok /\ n \in Nat
      BY <1>1 DEF TablesOK, Damaged
    <2>2. QED
      BY <2>1 DEF OnDisk, OfFlush, Readable
  <1>2. QED
    BY <1>1 DEF Intact

\* A lookup finds a value of the first n flushes, or nothing.
LEMMA ValuesFound ==
  ASSUME NEW v, NEW d, NEW n, InOrder(v), TablesOK(v, d, n), ~ Damaged(v, d), NEW key
  PROVE  Get(v, d, key) \in 0 .. n
  <1>1. ASSUME NEW l \in Levels, NEW f \in Range(v[l]) PROVE Answer(d, f.num, key) \in 0 .. n
    <2>1. OfFlush(d[f.num].pairs, n) /\ d[f.num].ok /\ n \in Nat
      BY <1>1 DEF TablesOK, Damaged
    <2>2. QED
      BY <2>1 DEF OfFlush, Answer, Absent
  <1>2. n \in Nat /\ Absent \in 0 .. n
    BY DEF TablesOK, Absent
  <1>3. v \in Versions
    BY DEF InOrder
  <1>4. QED
    BY <1>1, <1>2, <1>3, LookupType DEF AnswersIn

\* The same where tables may be overwritten.
LEMMA AnswersFound ==
  ASSUME NEW v \in Versions, NEW d, NEW n, TablesOK(v, d, n), NEW key
  PROVE  Get(v, d, key) \in (0 .. n) \cup {Unreadable}
  <1>1. ASSUME NEW l \in Levels, NEW f \in Range(v[l])
        PROVE  Answer(d, f.num, key) \in (0 .. n) \cup {Unreadable}
    <2>1. OfFlush(d[f.num].pairs, n) /\ n \in Nat
      BY <1>1 DEF TablesOK
    <2>2. QED
      BY <2>1 DEF OfFlush, Answer, Absent
  <1>2. Absent \in (0 .. n) \cup {Unreadable}
    BY DEF TablesOK, Absent
  <1>3. QED
    BY <1>1, <1>2, LookupType DEF AnswersIn

\* The tables of v are the same on the disk e.
SameTables(v, d, e) == \A l \in Levels : \A f \in Range(v[l]) : e[f.num] = d[f.num]

\* Versions with the same files on the same table files.
LEMMA AlikeLookup ==
  ASSUME NEW v, NEW d, NEW w, NEW e, SameFiles(v, w), SameTables(v, d, e), NEW key
  PROVE  SameLookup(v, d, w, e, key)
  <1>1. ASSUME NEW l \in Levels, NEW g \in Range(w[l])
        PROVE  \E f \in Range(v[l]) : f.num = g.num /\ f.xip = g.xip /\ (Has(e, g, key) <=> Has(d, f, key))
    <2>1. PICK f \in Range(v[l]) : f.num = g.num /\ f.xip = g.xip
      BY <1>1 DEF SameFiles, Within
    <2>2. e[g.num] = d[f.num]
      BY <2>1 DEF SameTables
    <2>3. QED
      BY <2>1, <2>2 DEF Has
  <1>2. ASSUME NEW l, NEW f, EndsAt(v, d, key, l, f)
        PROVE  \E m, g : EndsAt(w, e, key, m, g) /\ e[g.num].pairs[key] = d[f.num].pairs[key]
    <2>1. /\ l \in Levels /\ f \in Range(v[l]) /\ Has(d, f, key)
          /\ NoneHas(v, d, key, 0, l)
          /\ l = 0 => \A h \in Range(v[0]) : Has(d, h, key) => h.xip <= f.xip
      BY <1>2 DEF EndsAt
    <2>2. PICK g \in Range(w[l]) : g.num = f.num /\ g.xip = f.xip
      BY <2>1 DEF SameFiles, Within
    <2>3. e[g.num] = d[f.num] /\ Has(e, g, key)
      BY <2>1, <2>2 DEF SameTables, Has
    <2>4. NoneHas(w, e, key, 0, l)
      <3>1. SUFFICES ASSUME NEW m \in 0 .. l - 1, NEW h \in Range(w[m]), Has(e, h, key) PROVE FALSE
        BY DEF NoneHas
      <3>2. m \in Levels
        BY <2>1, OptionsAssumption DEF Levels
      <3>3. QED
        BY <1>1, <2>1, <3>1, <3>2 DEF NoneHas
    <2>5. ASSUME l = 0, NEW h \in Range(w[0]), Has(e, h, key) PROVE h.xip <= g.xip
      BY <1>1, <2>1, <2>2, <2>5
    <2>6. EndsAt(w, e, key, l, g)
      BY <2>1, <2>2, <2>3, <2>4, <2>5 DEF EndsAt
    <2>7. QED
      BY <2>3, <2>6
  <1>3. \A m \in Levels : \A g \in Range(w[m]) : Has(e, g, key) =>
          \E l \in Levels : \E f \in Range(v[l]) : Has(d, f, key)
    BY <1>1
  <1>4. QED
    BY <1>2, <1>3 DEF SameLookup

\* Such versions are damaged together.
LEMMA AlikeDamaged ==
  ASSUME NEW v, NEW d, NEW w, NEW e, SameFiles(v, w), SameTables(v, d, e), Damaged(v, d)
  PROVE  Damaged(w, e)
  <1>1. PICK l \in Levels : \E f \in Range(v[l]) : ~ d[f.num].ok
    BY DEF Damaged
  <1>2. PICK f \in Range(v[l]) : ~ d[f.num].ok
    BY <1>1
  <1>3. PICK g \in Range(w[l]) : g.num = f.num
    BY DEF SameFiles, Within
  <1>4. ~ e[g.num].ok
    BY <1>2, <1>3 DEF SameTables
  <1>5. QED
    BY <1>4 DEF Damaged

\* Steps that install no edit change neither the files nor their tables.
LEMMA AlikeSteps ==
  ASSUME ShapeInv, OrderInv, NumbersInv, DiskInv, SameInv, StepKinds,
         \A m : ~ TableInstalled(m), \A j \in Jobs : ~ Finalized(j)
  PROVE  SameFiles(current, current') /\ SameTables(current, disk, disk')
  <1>1. ASSUME current' = current, disk' = disk
        PROVE  SameFiles(current, current') /\ SameTables(current, disk, disk')
    BY <1>1, SameReflexive DEF SameTables
  <1>2. ASSUME NEW m, NEW pairs, NewTable(m, pairs)
        PROVE  SameFiles(current, current') /\ SameTables(current, disk, disk')
    <2>1. ASSUME NEW l \in Levels, NEW f \in Range(current[l]) PROVE disk'[f.num] = disk[f.num]
      <3>1. <<"level", l>> \in Holders /\ f \in Held[<<"level", l>>]
        BY <2>1, HolderTypes, HeldAt
      <3>2. f \in FileRec /\ f.num < nextNum /\ OnDisk(f, disk)
        BY <3>1 DEF NumbersInv, Numbered, DiskInv, AllOnDisk
      <3>3. f.num \in DOMAIN disk /\ f.num # nextNum
        BY <3>2 DEF OnDisk, FileRec, ShapeInv
      <3>4. QED
        BY <1>2, <3>3, NewDisk
    <2>2. current' = current
      BY <1>2 DEF NewTable
    <2>3. QED
      BY <2>1, <2>2, SameReflexive DEF SameTables
  <1>3. CASE Quiet
    BY <1>1, <1>3 DEF Quiet
  <1>4. ASSUME NEW m, NEW pairs, TableWritten(m, pairs)
        PROVE  SameFiles(current, current') /\ SameTables(current, disk, disk')
    BY <1>2, <1>4 DEF TableWritten
  <1>5. ASSUME NEW i \in Jobs, NEW level, NEW f, NEW ins, Picked(i, level, f, ins)
        PROVE  SameFiles(current, current') /\ SameTables(current, disk, disk')
    <2>1. SameFiles(current, current')
      BY <1>5, HeldShape, MarkedSame DEF Picked
    <2>2. disk' = disk
      BY <1>5 DEF Picked
    <2>3. QED
      BY <2>1, <2>2 DEF SameTables
  <1>6. ASSUME NEW i \in Jobs, Opened(i)
        PROVE  SameFiles(current, current') /\ SameTables(current, disk, disk')
    BY <1>1, <1>6 DEF Opened
  <1>7. ASSUME NEW i \in Jobs, NEW m, NEW keys, OutputWritten(i, m, keys)
        PROVE  SameFiles(current, current') /\ SameTables(current, disk, disk')
    BY <1>2, <1>7 DEF OutputWritten
  <1>8. CASE CrashAndRestart
    <2>1. current' = ckpt.files /\ disk' = disk
      BY <1>8 DEF CrashAndRestart
    <2>2. SameFiles(current, ckpt.files)
      BY DEF SameInv, SameFiles
    <2>3. QED
      BY <2>1, <2>2 DEF SameTables
  <1>9. QED
    BY <1>3, <1>4, <1>5, <1>6, <1>7, <1>8 DEF StepKinds

\* The files after a flush: those of before, and the flushed one.
LEMMA InstalledFiles ==
  ASSUME ShapeInv, OrderInv, NEW m \in FileRec, current' = Applied(current, 0, <<m>>, {}, {})
  PROVE  /\ m \in Range(current'[0])
         /\ \A l \in Levels : Range(current[l]) \subseteq Range(current'[l])
         /\ \A l \in Levels : \A e \in Range(current'[l]) : e \in Range(current[l]) \/ (l = 0 /\ e = m)
  <1>1. current \in Versions /\ 0 \in Levels
    BY HeldShape
  <1>2. <<m>> \in Seq(FileRec) /\ Range(<<m>>) = {m}
    BY DEF Range
  <1>3. ASSUME NEW l \in Levels, NEW f, f \in Range(current[l]) \/ (l = 0 /\ f = m)
        PROVE  f \in Range(current'[l])
    <2>1. Marking(f, l, {}) \in Range(current'[l])
      BY <1>1, <1>2, <1>3, EditedTo
    <2>2. QED
      BY <2>1, MarkingNone
  <1>4. ASSUME NEW l \in Levels, NEW e \in Range(current'[l])
        PROVE  e \in Range(current[l]) \/ (l = 0 /\ e = m)
    <2>1. ComesFrom(current, 0, <<m>>, {}, {}, l, e)
      BY <1>1, <1>2, <1>4, EditedFrom
    <2>2. PICK f : /\ f \in Range(current[l]) \/ (l = 0 /\ f \in Range(<<m>>))
                   /\ e = Marking(f, l, {})
      BY <2>1 DEF ComesFrom
    <2>3. e = f
      BY <2>2, MarkingNone
    <2>4. QED
      BY <1>2, <2>2, <2>3
  <1>5. QED
    BY <1>1, <1>3, <1>4

\* A flush gives keys of its table its value, and leaves the others alone.
LEMMA InstalledLookup ==
  ASSUME ShapeInv, OrderInv, NumbersInv, DiskInv, ValueInv, NEW m, TableInstalled(m), ~ twins',
         Intact(current, disk), Intact(current', disk'), NEW key \in Int
  PROVE  Get(current', disk', key) \in {Get(current, disk, key), Latest'}
  <1>1. /\ m \in pending /\ m.xip >= minXip /\ disk' = disk
        /\ current' = Applied(current, 0, <<m>>, {}, {})
        /\ \A f \in Range(current[0]) : f.xip # m.xip
        /\ Latest' = Value(m.xip)
    BY DEF TableInstalled, Install, Latest, Value
  <1>2. m \in FileRec /\ m.xip \in Nat /\ minXip \in Nat
    BY <1>1 DEF FileRec, ShapeInv, FlushOK, Ts
  <1>3. \A f \in Range(current[0]) : f.xip < m.xip
    <2>1. \A f \in FileRec : f.xip \in Nat
      BY DEF FileRec
    <2>2. current[0] \in Seq(FileRec)
      BY HeldShape DEF Versions
    <2>3. \A f \in Range(current[0]) : f \in FileRec /\ f.xip <= minXip
      BY <2>2, RangeOfSeq DEF OrderInv
    <2>4. QED
      BY <1>1, <1>2, <2>1, <2>3
  <1>4. /\ m \in Range(current'[0])
        /\ \A l \in Levels : Range(current[l]) \subseteq Range(current'[l])
        /\ \A l \in Levels : \A e \in Range(current'[l]) : e \in Range(current[l]) \/ (l = 0 /\ e = m)
    BY <1>1, <1>2, InstalledFiles
  <1>5. 0 \in Levels
    BY HeldShape
  <1>6. CASE Has(disk, m, key)
    <2>1. \A g \in Range(current'[0]) : g.xip <= m.xip
      <3>1. \A f \in FileRec : f.xip \in Nat
        BY DEF FileRec
      <3>2. SUFFICES ASSUME NEW g \in Range(current'[0]) PROVE g.xip <= m.xip
        OBVIOUS
      <3>3. CASE g = m
        BY <1>2, <3>3
      <3>4. CASE g \in Range(current[0])
        <4>1. g \in FileRec
          BY <3>4, HeldShape, RangeOfSeq DEF Versions
        <4>2. QED
          BY <1>2, <1>3, <3>1, <3>4, <4>1
      <3>5. QED
        BY <1>4, <1>5, <3>2, <3>3, <3>4
    <2>2. NoneHas(current', disk, key, 0, 0)
      BY DEF NoneHas
    <2>3. EndsAt(current', disk, key, 0, m)
      BY <1>4, <1>5, <1>6, <2>1, <2>2 DEF EndsAt
    <2>4. Get(current', disk, key) = disk[m.num].pairs[key]
      BY <1>1, <2>3, LookupResult
    <2>5. disk[m.num].pairs[key] = Value(m.xip)
      BY <1>1, <1>6 DEF ValueInv, Has
    <2>6. QED
      BY <1>1, <2>4, <2>5
  <1>7. CASE ~ Has(disk, m, key)
    <2>1. ASSUME NEW l, NEW f, EndsAt(current, disk, key, l, f)
          PROVE  EndsAt(current', disk, key, l, f)
      <3>1. l \in Levels /\ f \in Range(current'[l]) /\ Has(disk, f, key)
        BY <1>4, <2>1 DEF EndsAt
      <3>2. NoneHas(current', disk, key, 0, l)
        <4>1. SUFFICES ASSUME NEW n \in 0 .. l - 1, NEW h \in Range(current'[n]), Has(disk, h, key) PROVE FALSE
          BY DEF NoneHas
        <4>2. n \in Levels
          BY <3>1, OptionsAssumption DEF Levels
        <4>3. h \in Range(current[n])
          BY <1>4, <1>7, <4>1, <4>2
        <4>4. QED
          BY <2>1, <4>1, <4>3 DEF EndsAt, NoneHas
      <3>3. ASSUME l = 0, NEW g \in Range(current'[0]), Has(disk, g, key) PROVE g.xip <= f.xip
        <4>1. g \in Range(current[0])
          BY <1>4, <1>5, <1>7, <3>3
        <4>2. QED
          BY <2>1, <3>3, <4>1 DEF EndsAt
      <3>4. QED
        BY <3>1, <3>2, <3>3 DEF EndsAt
    <2>2. \A n \in Levels : \A g \in Range(current'[n]) : Has(disk, g, key) =>
            \E l \in Levels : \E f \in Range(current[l]) : Has(disk, f, key)
      BY <1>4, <1>7
    <2>3. SameLookup(current, disk, current', disk, key)
      BY <2>1, <2>2 DEF SameLookup
    <2>4. Get(current', disk, key) = Get(current, disk, key)
      BY <1>1, <2>3, LookupsAgree
    <2>5. QED
      BY <1>1, <2>4
  <1>8. QED
    BY <1>6, <1>7

\* An input of a job: a file of the version that has the same table file.
InputOf(c, l, e) == \E f : Among(c.level, c.ins, l, f) /\ e = InUse(f) /\ f \in FileRec

\* The files after the edit of a compaction: those of before that are not
\* inputs, and the output files.
FinalizedFiles(c, l, e) ==
  \/ e \in Range(current[l]) /\ ~ InputOf(c, l, e)
  \/ l = c.level + 1 /\ e \in Range(c.out)

\* A file of the version has the number of an input only if it is that input.
LEMMA InputByNumber ==
  ASSUME ShapeInv, OrderInv, NumbersInv, OwnInv, NEW j \in Jobs, Running(j),
         NEW l \in Levels, NEW e \in Range(current[l])
  PROVE  <<l, e.num>> \in Marks(jobs[j].level, jobs[j].ins) <=> InputOf(jobs[j], l, e)
  <1> DEFINE c == jobs[j]
  <1>1. ASSUME <<l, e.num>> \in Marks(c.level, c.ins) PROVE InputOf(c, l, e)
    <2>1. PICK f : Among(c.level, c.ins, l, f) /\ f.num = e.num
      BY <1>1, MarksOf
    <2>2. f \in FileRec /\ InUse(f) \in Range(current[l])
      BY <2>1, UsesTypes DEF Uses, OwnInv
    <2>3. InUse(f).num = e.num
      BY <2>1, <2>2, InUseProperties
    <2>4. e = InUse(f)
      BY <2>2, <2>3, OneNumber
    <2>5. QED
      BY <2>1, <2>2, <2>4 DEF InputOf
  <1>2. ASSUME InputOf(c, l, e) PROVE <<l, e.num>> \in Marks(c.level, c.ins)
    <2>1. PICK f : Among(c.level, c.ins, l, f) /\ e = InUse(f) /\ f \in FileRec
      BY <1>2 DEF InputOf
    <2>2. f.num = e.num
      BY <2>1, InUseProperties
    <2>3. QED
      BY <2>1, <2>2, MarksOf
  <1>3. QED
    BY <1>1, <1>2

\* The output files are not numbered like an input.
LEMMA OutputNumbers ==
  ASSUME ShapeInv, OrderInv, NumbersInv, OwnInv, NEW j \in Jobs, jobs[j].pc = "write",
         NEW g \in Range(jobs[j].out), NEW l
  PROVE  <<l, g.num>> \notin Marks(jobs[j].level, jobs[j].ins)
  <1>1. SUFFICES ASSUME <<l, g.num>> \in Marks(jobs[j].level, jobs[j].ins) PROVE FALSE
    OBVIOUS
  <1>2. PICK f : Among(jobs[j].level, jobs[j].ins, l, f) /\ f.num = g.num
    BY <1>1, MarksOf
  <1>3. Uses(j, l, f)
    BY <1>2 DEF Uses, Running
  <1>4. l \in Levels /\ f \in FileRec /\ InUse(f) \in Range(current[l])
    BY <1>3, UsesTypes DEF OwnInv
  <1>5. InUse(f).num = g.num
    BY <1>2, <1>4, InUseProperties
  <1>6. /\ <<"level", l>> \in Holders /\ InUse(f) \in Held[<<"level", l>>]
        /\ <<"job", j>> \in Holders /\ g \in Held[<<"job", j>>]
    BY <1>4, HolderTypes, HeldAt
  <1>7. <<"level", l>> = <<"job", j>>
    BY <1>5, <1>6 DEF NumbersInv, Distinct
  <1>8. QED
    BY <1>7

\* The edit of a compaction leaves exactly these files.
LEMMA FilesFinalized ==
  ASSUME ShapeInv, OrderInv, NumbersInv, OwnInv, NEW j \in Jobs, Finalized(j), NEW l \in Levels, NEW e
  PROVE  e \in Range(current'[l]) <=> FinalizedFiles(jobs[j], l, e)
  <1> DEFINE c == jobs[j]
             deleted == Marks(c.level, c.ins)
  <1>1. c.pc = "write" /\ current' = Applied(current, c.level + 1, c.out, deleted, {})
    BY DEF Finalized, Install
  <1>2. current \in Versions /\ c.out \in Seq(FileRec) /\ c.level + 1 \in Levels
    BY <1>1, HeldShape, WriteJob
  <1>3. Running(j)
    BY <1>1 DEF Running
  <1>4. ASSUME e \in Range(current'[l]) PROVE FinalizedFiles(c, l, e)
    <2>1. ComesFrom(current, c.level + 1, c.out, deleted, {}, l, e)
      BY <1>1, <1>2, <1>4, EditedFrom
    <2>2. PICK f : /\ f \in Range(current[l]) \/ (l = c.level + 1 /\ f \in Range(c.out))
                   /\ <<l, f.num>> \notin deleted
                   /\ e = Marking(f, l, {})
      BY <2>1 DEF ComesFrom
    <2>3. e = f
      BY <2>2, MarkingNone
    <2>4. QED
      BY <1>3, <2>2, <2>3, InputByNumber DEF FinalizedFiles
  <1>5. ASSUME FinalizedFiles(c, l, e) PROVE e \in Range(current'[l])
    <2>1. e \in Range(current[l]) \/ (l = c.level + 1 /\ e \in Range(c.out))
      BY <1>5 DEF FinalizedFiles
    <2>2. <<l, e.num>> \notin deleted
      BY <1>1, <1>3, <1>5, InputByNumber, OutputNumbers DEF FinalizedFiles
    <2>3. Marking(e, l, {}) \in Range(current'[l])
      BY <1>1, <1>2, <2>1, <2>2, EditedTo
    <2>4. QED
      BY <2>3, MarkingNone
  <1>6. QED
    BY <1>4, <1>5

\* An input is in the version, with its table file and bound.
LEMMA InputInVersion ==
  ASSUME ShapeInv, OrderInv, OwnInv, NEW j \in Jobs, Running(j),
         NEW l, NEW f, Among(jobs[j].level, jobs[j].ins, l, f)
  PROVE  /\ l \in Levels /\ InUse(f) \in Range(current[l]) /\ InputOf(jobs[j], l, InUse(f))
         /\ InUse(f).num = f.num /\ InUse(f).xip = f.xip
         /\ \A k : Has(disk, InUse(f), k) <=> Has(disk, f, k)
  <1>1. l \in Levels /\ f \in FileRec /\ InUse(f) \in Range(current[l])
    BY UsesTypes DEF Uses, OwnInv
  <1>2. InUse(f).num = f.num /\ InUse(f).xip = f.xip
    BY <1>1, InUseProperties
  <1>3. QED
    BY <1>1, <1>2 DEF InputOf, Has

\* In a strict order one table of level 0 has a bound.
LEMMA OneBound ==
  ASSUME NEW v, InStrictOrder(v), NEW e \in Range(v[0]), NEW h \in Range(v[0]), e.xip = h.xip
  PROVE  e = h
  <1>1. v[0] \in Seq(FileRec) /\ Ordered(v[0], NewerBound)
    BY OptionsAssumption DEF InStrictOrder, InOrder, Versions, Levels
  <1>2. PICK i \in DOMAIN v[0] : v[0][i] = e
    BY DEF Range
  <1>3. PICK n \in DOMAIN v[0] : v[0][n] = h
    BY DEF Range
  <1>4. i \in Nat /\ n \in Nat /\ e.xip \in Nat /\ h.xip \in Nat
    <2>1. e \in FileRec /\ h \in FileRec
      BY <1>1, RangeOfSeq
    <2>2. DOMAIN v[0] \subseteq Nat
      BY <1>1, LenProperties
    <2>3. QED
      BY <2>1, <2>2 DEF FileRec
  <1>5. ASSUME NEW k \in DOMAIN v[0], NEW l \in DOMAIN v[0], k < l PROVE v[0][k].xip > v[0][l].xip
    BY <1>1, <1>5 DEF Ordered, NewerBound
  <1>6. ~ (e.xip > h.xip) /\ ~ (h.xip > e.xip)
    BY <1>4
  <1>7. ~ (i < n) /\ ~ (n < i)
    BY <1>2, <1>3, <1>5, <1>6
  <1>8. QED
    BY <1>2, <1>3, <1>4, <1>7

\* Where a lookup ends the value is that of the input which wins.
LEMMA WinnerIsFound ==
  ASSUME ShapeInv, OrderInv, OwnInv, Intact(current, disk), NEW j \in Jobs, Running(j),
         NEW key \in Int, NEW l, NEW e, EndsAt(current, disk, key, l, e), InputOf(jobs[j], l, e),
         NEW f, Wins(jobs[j].level, jobs[j].ins, disk, key, f)
  PROVE  f.num = e.num
  <1> DEFINE c == jobs[j]
  <1>1. PICK a : Among(c.level, c.ins, l, a) /\ e = InUse(a) /\ a \in FileRec
    BY DEF InputOf
  <1>2. /\ l \in Levels /\ e \in Range(current[l]) /\ Has(disk, e, key)
        /\ a.num = e.num /\ a.xip = e.xip /\ Has(disk, a, key)
    BY <1>1, InUseProperties DEF EndsAt, Has
  <1>3. c.level \in Nat /\ c.level + 1 # c.level
    <2>1. c.level \in 0 .. NumLevels - 2
      BY OpenJob, WriteJob DEF ShapeInv, Running
    <2>2. QED
      BY <2>1
  <1>4. ASSUME NEW b, Among(c.level, c.ins, l, b), Has(disk, b, key), l = 0 => a.xip <= b.xip
        PROVE  b.num = e.num
    <2>1. /\ InUse(b) \in Range(current[l]) /\ Has(disk, InUse(b), key)
          /\ InUse(b).num = b.num /\ InUse(b).xip = b.xip
      BY <1>4, InputInVersion
    <2>2. CASE l # 0
      <3>1. l \in Levels \ {0}
        BY <1>2, <2>2
      <3>2. InUse(b) = e
        BY <1>2, <2>1, <3>1, HalvingFinds
      <3>3. QED
        BY <2>1, <3>2
    <2>3. CASE l = 0
      <3>1. b.xip <= e.xip
        BY <2>1, <2>3 DEF EndsAt
      <3>2. e.xip <= b.xip
        BY <1>2, <1>4, <2>3
      <3>3. e \in Range(current[0]) /\ InUse(b) \in Range(current[0])
        BY <1>2, <2>1, <2>3
      <3>4. e \in FileRec /\ InUse(b) \in FileRec
        BY <3>3, HeldShape, RangeOfSeq DEF Versions
      <3>5. e.xip = InUse(b).xip
        BY <2>1, <3>1, <3>2, <3>4 DEF FileRec
      <3>6. e = InUse(b)
        BY <3>3, <3>5, OneBound DEF Intact
      <3>7. QED
        BY <2>1, <3>6
    <2>4. QED
      BY <2>2, <2>3
  <1>5. CASE f \in Range(c.ins[1])
    <2>1. Among(c.level, c.ins, c.level, f) /\ Has(disk, f, key)
      BY <1>5 DEF Among, Wins
    <2>2. CASE l = c.level
      <3>1. a \in Range(c.ins[1])
        BY <1>1, <1>3, <2>2 DEF Among
      <3>2. l = 0 => a.xip <= f.xip
        BY <1>2, <2>2, <3>1 DEF Wins
      <3>3. QED
        BY <1>4, <2>1, <2>2, <3>2
    <2>3. CASE l = c.level + 1
      <3>1. InUse(f) \in Range(current[c.level]) /\ Has(disk, InUse(f), key)
        BY <2>1, InputInVersion
      <3>2. c.level \in 0 .. l - 1
        BY <1>3, <2>3
      <3>3. QED
        BY <3>1, <3>2 DEF EndsAt, NoneHas
    <2>4. QED
      BY <1>1, <2>2, <2>3 DEF Among
  <1>6. CASE f \notin Range(c.ins[1])
    <2>1. /\ f \in Range(c.ins[2]) /\ Has(disk, f, key)
          /\ \A g \in Range(c.ins[1]) : ~ Has(disk, g, key)
      BY <1>6 DEF Wins
    <2>2. l = c.level + 1
      BY <1>1, <1>2, <2>1 DEF Among
    <2>3. Among(c.level, c.ins, l, f) /\ l # 0
      BY <1>3, <2>1, <2>2 DEF Among
    <2>4. QED
      BY <1>4, <2>1, <2>3
  <1>7. QED
    BY <1>5, <1>6

\* Every key of an output file is one of an input, which wins.
LEMMA OutputHasWinner ==
  ASSUME MergedInv, NEW j \in Jobs, jobs[j].pc = "write", NEW g \in Range(jobs[j].out), NEW key, Has(disk, g, key)
  PROVE  \E f : /\ Wins(jobs[j].level, jobs[j].ins, disk, key, f)
                /\ disk[g.num].pairs[key] = disk[f.num].pairs[key]
                /\ \E l \in {jobs[j].level, jobs[j].level + 1} : Among(jobs[j].level, jobs[j].ins, l, f)
  <1>1. MergedOK(jobs[j], disk)
    BY DEF MergedInv
  <1>2. PICK f : /\ Wins(jobs[j].level, jobs[j].ins, disk, key, f)
                 /\ disk[g.num].pairs[key] = disk[f.num].pairs[key]
    BY <1>1 DEF MergedOK
  <1>3. \E l \in {jobs[j].level, jobs[j].level + 1} : Among(jobs[j].level, jobs[j].ins, l, f)
    BY <1>2 DEF Wins, Among
  <1>4. QED
    BY <1>2, <1>3

\* A lookup that ends at a file which the compaction leaves ends there again.
LEMMA EndsAtOther ==
  ASSUME ShapeInv, OrderInv, NumbersInv, OwnInv, MergedInv, NEW j \in Jobs, Finalized(j),
         NEW key \in Int, NEW l, NEW e, EndsAt(current, disk, key, l, e), ~ InputOf(jobs[j], l, e)
  PROVE  EndsAt(current', disk, key, l, e)
  <1> DEFINE c == jobs[j]
  <1>1. c.pc = "write" /\ Running(j) /\ c.level \in Nat
    <2>1. c.pc = "write"
      BY DEF Finalized
    <2>2. c.level \in 0 .. NumLevels - 2
      BY <2>1, WriteJob DEF ShapeInv
    <2>3. QED
      BY <2>1, <2>2 DEF Running
  <1>2. l \in Levels /\ e \in Range(current[l]) /\ Has(disk, e, key) /\ NoneHas(current, disk, key, 0, l)
    BY DEF EndsAt
  <1>3. e \in Range(current'[l])
    BY <1>2, FilesFinalized DEF FinalizedFiles
  <1>4. NoneHas(current', disk, key, 0, l)
    <2>1. SUFFICES ASSUME NEW m \in 0 .. l - 1, NEW h \in Range(current'[m]), Has(disk, h, key) PROVE FALSE
      BY DEF NoneHas
    <2>2. m \in Levels /\ m < l
      BY <1>2, OptionsAssumption DEF Levels
    <2>3. FinalizedFiles(c, m, h)
      BY <2>1, <2>2, FilesFinalized
    <2>4. CASE h \in Range(current[m])
      BY <1>2, <2>1, <2>4 DEF NoneHas
    <2>5. CASE m = c.level + 1 /\ h \in Range(c.out)
      <3>1. PICK f : /\ Wins(c.level, c.ins, disk, key, f)
                     /\ \E n \in {c.level, c.level + 1} : Among(c.level, c.ins, n, f)
        BY <1>1, <2>1, <2>5, OutputHasWinner
      <3>2. PICK n \in {c.level, c.level + 1} : Among(c.level, c.ins, n, f)
        BY <3>1
      <3>3. InUse(f) \in Range(current[n]) /\ Has(disk, InUse(f), key)
        BY <1>1, <3>1, <3>2, InputInVersion DEF Wins
      <3>4. n \in 0 .. l - 1
        BY <1>1, <1>2, <2>2, <2>5, <3>2 DEF Levels
      <3>5. QED
        BY <1>2, <3>3, <3>4 DEF NoneHas
    <2>6. QED
      BY <2>3, <2>4, <2>5 DEF FinalizedFiles
  <1>5. ASSUME l = 0, NEW g \in Range(current'[0]), Has(disk, g, key) PROVE g.xip <= e.xip
    <2>1. FinalizedFiles(c, 0, g)
      BY <1>2, <1>5, FilesFinalized
    <2>2. c.level + 1 # 0
      BY <1>1
    <2>3. g \in Range(current[0])
      BY <2>1, <2>2 DEF FinalizedFiles
    <2>4. QED
      BY <1>5, <2>3 DEF EndsAt
  <1>6. QED
    BY <1>2, <1>3, <1>4, <1>5 DEF EndsAt

\* A lookup that ended at an input ends at an output file with its value.
LEMMA EndsAtOutput ==
  ASSUME ShapeInv, OrderInv, NumbersInv, OwnInv, OldestInv, MergedInv, Intact(current, disk),
         NEW j \in Jobs, Finalized(j),
         NEW key \in Int, NEW l, NEW e, EndsAt(current, disk, key, l, e), InputOf(jobs[j], l, e)
  PROVE  \E g : /\ EndsAt(current', disk, key, jobs[j].level + 1, g)
                /\ disk[g.num].pairs[key] = disk[e.num].pairs[key]
  <1> DEFINE c == jobs[j]
             out == c.level + 1
  <1>1. c.pc = "write" /\ DOMAIN c.rest = {} /\ Running(j) /\ c.level \in Nat /\ c.level \in Levels /\ out \in Levels
    <2>1. c.pc = "write" /\ DOMAIN c.rest = {}
      BY DEF Finalized
    <2>2. c.level \in 0 .. NumLevels - 2
      BY <2>1, WriteJob DEF ShapeInv
    <2>3. QED
      BY <2>1, <2>2, HeldShape DEF Running
  <1>2. /\ l \in Levels /\ e \in Range(current[l]) /\ Has(disk, e, key) /\ NoneHas(current, disk, key, 0, l)
        /\ l = 0 => \A h \in Range(current[0]) : Has(disk, h, key) => h.xip <= e.xip
    BY DEF EndsAt
  <1>3. PICK a : Among(c.level, c.ins, l, a) /\ e = InUse(a) /\ a \in FileRec
    BY DEF InputOf
  <1>4. a.num = e.num /\ a.xip = e.xip /\ Has(disk, a, key) /\ a \in Work(c)
    BY <1>2, <1>3, InUseProperties DEF Has, Among, Work
  <1>5. l = c.level \/ l = out
    BY <1>3 DEF Among
  <1>6. PICK g \in Range(c.out) : Has(disk, g, key)
    BY <1>1, <1>4 DEF MergedInv, MergedOK
  <1>7. PICK f : /\ Wins(c.level, c.ins, disk, key, f)
                 /\ disk[g.num].pairs[key] = disk[f.num].pairs[key]
    BY <1>1, <1>6, OutputHasWinner
  <1>8. f.num = e.num
    BY <1>1, <1>7, WinnerIsFound
  <1>9. g \in Range(current'[out])
    BY <1>1, <1>6, FilesFinalized DEF FinalizedFiles
  <1>10. NoneHas(current', disk, key, 0, out)
    <2>1. SUFFICES ASSUME NEW m \in 0 .. out - 1, NEW h \in Range(current'[m]), Has(disk, h, key) PROVE FALSE
      BY DEF NoneHas
    <2>2. m \in Levels /\ m \in Nat /\ m < out
      BY <1>1, OptionsAssumption DEF Levels
    <2>3. FinalizedFiles(c, m, h)
      BY <2>1, <2>2, FilesFinalized
    <2>4. h \in Range(current[m]) /\ ~ InputOf(c, m, h)
      BY <2>2, <2>3 DEF FinalizedFiles
    <2>5. CASE m < l
      <3>1. m \in 0 .. l - 1
        BY <1>2, <2>2, <2>5 DEF Levels
      <3>2. QED
        BY <1>2, <2>1, <2>4, <3>1 DEF NoneHas
    <2>6. CASE m = l
      <3>1. l = c.level
        BY <1>5, <2>2, <2>6
      <3>2. CASE l # 0
        <4>1. l \in Levels \ {0}
          BY <1>2, <3>2
        <4>2. h \in Range(current[l]) /\ Has(disk, h, key)
          BY <2>1, <2>4, <2>6
        <4>3. \A x \in Range(current[l]) : Has(disk, x, key) => x = current[l][FilesBelow(current[l], key) + 1]
          BY <4>1, HalvingFinds
        <4>4. h = e
          BY <1>2, <4>2, <4>3
        <4>5. QED
          BY <2>4, <2>6, <4>4
      <3>3. CASE l = 0
        <4>1. a \in Range(c.ins[1])
          BY <1>1, <1>3, <3>1 DEF Among
        <4>2. OldestOK(c, Range(current[0]))
          BY <1>1 DEF OldestInv
        <4>3. CASE \E b \in Range(c.ins[1]) : b.num = h.num
          <5>1. PICK b \in Range(c.ins[1]) : b.num = h.num
            BY <4>3
          <5>2. Among(c.level, c.ins, l, b) /\ b.num = h.num
            BY <3>1, <5>1 DEF Among
          <5>3. <<l, h.num>> \in Marks(c.level, c.ins)
            BY <5>2, MarksOf
          <5>4. QED
            BY <1>1, <1>2, <2>4, <2>6, <5>3, InputByNumber
        <4>4. CASE \A b \in Range(c.ins[1]) : h.xip >= b.xip
          <5>1. h.xip >= e.xip
            BY <1>4, <4>1, <4>4
          <5>2. h \in Range(current[0]) /\ e \in Range(current[0])
            BY <1>2, <2>4, <2>6, <3>3
          <5>3. h.xip <= e.xip
            BY <1>2, <2>1, <3>3, <5>2
          <5>4. h \in FileRec /\ e \in FileRec
            BY <5>2, HeldShape, RangeOfSeq DEF Versions
          <5>5. h.xip = e.xip
            BY <5>1, <5>3, <5>4 DEF FileRec
          <5>6. h = e
            BY <5>2, <5>5, OneBound DEF Intact
          <5>7. QED
            BY <2>4, <2>6, <5>6
        <4>5. QED
          BY <2>4, <2>6, <3>1, <3>3, <4>2, <4>3, <4>4 DEF OldestOK
      <3>4. QED
        BY <3>2, <3>3
    <2>7. m < l \/ m = l
      <3>1. l \in Nat
        BY <1>2 DEF Levels
      <3>2. QED
        BY <1>1, <1>5, <2>2, <3>1
    <2>8. QED
      BY <2>5, <2>6, <2>7
  <1>11. EndsAt(current', disk, key, out, g)
    BY <1>1, <1>6, <1>9, <1>10 DEF EndsAt
  <1>12. QED
    BY <1>7, <1>8, <1>11

\* The edit of a compaction is invisible to lookups.
LEMMA FinalizedLookup ==
  ASSUME ShapeInv, OrderInv, NumbersInv, OwnInv, OldestInv, MergedInv, Intact(current, disk),
         NEW j \in Jobs, Finalized(j), NEW key \in Int
  PROVE  SameLookup(current, disk, current', disk, key)
  <1> DEFINE c == jobs[j]
  <1>1. c.pc = "write" /\ Running(j)
    BY DEF Finalized, Running
  <1>2. ASSUME NEW l, NEW e, EndsAt(current, disk, key, l, e)
        PROVE  \E m, g : EndsAt(current', disk, key, m, g) /\ disk[g.num].pairs[key] = disk[e.num].pairs[key]
    <2>1. CASE InputOf(c, l, e)
      BY <1>2, <2>1, EndsAtOutput
    <2>2. CASE ~ InputOf(c, l, e)
      BY <1>2, <2>2, EndsAtOther
    <2>3. QED
      BY <2>1, <2>2
  <1>3. ASSUME NEW m \in Levels, NEW g \in Range(current'[m]), Has(disk, g, key)
        PROVE  \E l \in Levels : \E f \in Range(current[l]) : Has(disk, f, key)
    <2>1. CASE g \in Range(current[m])
      BY <1>3, <2>1
    <2>2. CASE g \in Range(c.out)
      <3>1. PICK f : /\ Wins(c.level, c.ins, disk, key, f)
                     /\ \E n \in {c.level, c.level + 1} : Among(c.level, c.ins, n, f)
        BY <1>1, <1>3, <2>2, OutputHasWinner
      <3>2. PICK n : Among(c.level, c.ins, n, f)
        BY <3>1
      <3>3. n \in Levels /\ InUse(f) \in Range(current[n]) /\ Has(disk, InUse(f), key)
        BY <1>1, <3>1, <3>2, InputInVersion DEF Wins
      <3>4. QED
        BY <3>3
    <2>3. QED
      BY <1>3, <2>1, <2>2, FilesFinalized DEF FinalizedFiles
  <1>4. QED
    BY <1>2, <1>3 DEF SameLookup

\* What the lookups need besides the order of the files.
LookupInv == OldestInv /\ ValueInv /\ MergedInv /\ SameInv

\* At the start there is nothing to look up.
LEMMA InitLookupInv ==
  ASSUME Init PROVE LookupInv
  <1>1. /\ \A j \in Jobs : jobs[j].pc = "none"
        /\ pending = {} /\ crashes = 0 /\ disk = <<>> /\ ckpt.files = current
    BY DEF Init, NoJob, NoCheckpoint
  <1>2. OldestInv /\ MergedInv
    BY <1>1 DEF OldestInv, MergedInv, Running
  <1>3. ValueInv
    BY <1>1, VersionSetAssumption DEF ValueInv
  <1>4. SameInv
    BY <1>1, SameReflexive DEF SameInv
  <1>5. QED
    BY <1>2, <1>3, <1>4 DEF LookupInv

\* Every step keeps it.
LEMMA NextLookupInv ==
  ASSUME IInv, LookupInv, [Next]_vars PROVE LookupInv'
  <1>1. /\ ShapeInv /\ OrderInv /\ NumbersInv /\ DiskInv /\ OwnInv /\ Level0Inv /\ CountInv
        /\ OldestInv /\ ValueInv /\ MergedInv /\ SameInv
    BY DEF IInv, LookupInv
  <1>2. StepKinds
    BY <1>1, Steps
  <1>3. OldestInv' /\ ValueInv'
    BY <1>1, <1>2, OldestStep, ValueStep
  <1>4. MergedInv' /\ SameInv'
    BY <1>1, <1>2, MergedStep, SameStep
  <1>5. QED
    BY <1>3, <1>4 DEF LookupInv

\* It holds always.
LEMMA AlwaysLookupInv == Spec => []LookupInv
  BY AlwaysIInv, InitLookupInv, NextLookupInv, PTL DEF Spec

\* A damaged table stays in the version: no compaction can open it.
LEMMA DamageStays ==
  ASSUME IInv, LookupInv, StepKinds, Damaged(current, disk)
  PROVE  Damaged(current', disk')
  <1>1. /\ ShapeInv /\ OrderInv /\ NumbersInv /\ DiskInv /\ OwnInv /\ ValueInv /\ MergedInv /\ SameInv
    BY DEF IInv, LookupInv
  <1>2. PICK l \in Levels : \E f \in Range(current[l]) : ~ disk[f.num].ok
    BY DEF Damaged
  <1>3. PICK f \in Range(current[l]) : ~ disk[f.num].ok
    BY <1>2
  <1>4. ASSUME NEW m, TableInstalled(m) PROVE Damaged(current', disk')
    <2>1. /\ current' = Applied(current, 0, <<m>>, {}, {}) /\ disk' = disk
          /\ m \in FileRec
      BY <1>1, <1>4, FlushedApart DEF TableInstalled, Install
    <2>2. f \in Range(current'[l])
      BY <1>1, <2>1, InstalledFiles
    <2>3. QED
      BY <1>3, <2>1, <2>2 DEF Damaged
  <1>5. ASSUME NEW j \in Jobs, Finalized(j) PROVE Damaged(current', disk')
    <2>1. jobs[j].pc = "write" /\ disk' = disk
      BY <1>5 DEF Finalized
    <2>2. \A g \in Work(jobs[j]) : disk[g.num].ok
      BY <1>1, <2>1 DEF MergedInv, MergedOK
    <2>3. ~ InputOf(jobs[j], l, f)
      <3>1. SUFFICES ASSUME InputOf(jobs[j], l, f) PROVE FALSE
        OBVIOUS
      <3>2. PICK g \in FileRec : Among(jobs[j].level, jobs[j].ins, l, g) /\ f = InUse(g)
        BY <3>1 DEF InputOf
      <3>3. f.num = g.num /\ g \in Work(jobs[j])
        BY <3>2, InUseProperties DEF Among, Work
      <3>4. QED
        BY <1>3, <2>2, <3>3
    <2>4. f \in Range(current'[l])
      BY <1>1, <1>5, <2>3, FilesFinalized DEF FinalizedFiles
    <2>5. QED
      BY <1>3, <2>1, <2>4 DEF Damaged
  <1>6. CASE (\A m : ~ TableInstalled(m)) /\ \A j \in Jobs : ~ Finalized(j)
    BY <1>1, <1>6, AlikeSteps, AlikeDamaged
  <1>7. QED
    BY <1>4, <1>5, <1>6

\* And a bound that has come twice is not forgotten.
LEMMA TwinsStay ==
  ASSUME StepKinds, twins PROVE twins'
  BY DEF StepKinds, Quiet, TableWritten, TableInstalled, Picked, Opened, OutputWritten, Finalized,
         CrashAndRestart

\* Only a flush changes what lookups return.
LEMMA OnlyFlushes ==
  ASSUME IInv, LookupInv, StepKinds, ~ twins', Intact(current, disk), Intact(current', disk'),
         NEW key \in Int
  PROVE  /\ Get(current', disk', key) \in {Get(current, disk, key), Latest'}
         /\ (\A m : ~ TableInstalled(m)) => Get(current', disk', key) = Get(current, disk, key)
  <1>1. /\ ShapeInv /\ OrderInv /\ NumbersInv /\ DiskInv /\ OwnInv
        /\ OldestInv /\ ValueInv /\ MergedInv /\ SameInv
    BY DEF IInv, LookupInv
  <1>2. CASE \E m : TableInstalled(m)
    BY <1>1, <1>2, InstalledLookup
  <1>3. ASSUME NEW j \in Jobs, Finalized(j) PROVE Get(current', disk', key) = Get(current, disk, key)
    <2>1. disk' = disk
      BY <1>3 DEF Finalized
    <2>2. SameLookup(current, disk, current', disk', key)
      BY <1>1, <1>3, <2>1, FinalizedLookup
    <2>3. QED
      BY <2>2, LookupsAgree
  <1>4. CASE (\A m : ~ TableInstalled(m)) /\ \A j \in Jobs : ~ Finalized(j)
    <2>1. SameLookup(current, disk, current', disk', key)
      BY <1>1, <1>4, AlikeSteps, AlikeLookup
    <2>2. Get(current', disk', key) = Get(current, disk, key)
      BY <2>1, LookupsAgree
    <2>3. QED
      BY <1>4, <2>2
  <1>5. QED
    BY <1>2, <1>3, <1>4

\* What lookups return, key by key.
Lookups == [k \in Keys |-> Get(current, disk, k)]

\* A lookup after a step is one in the version after it.
LEMMA LookupsNext ==
  /\ Lookups' = [k \in Keys |-> Get(current', disk', k)]
  /\ Damaged(current, disk)' <=> Damaged(current', disk')
  /\ InOrder(current)' <=> InOrder(current')
  /\ InStrictOrder(current)' <=> InStrictOrder(current')
  /\ TablesOK(current, disk, Latest)' <=> TablesOK(current', disk', Latest')
  <1>1. ASSUME NEW key PROVE Get(current, disk, key)' = Get(current', disk', key)
    BY DEF Get, FilesBelow, Answer, Absent, Unreadable
  <1>2. Lookups' = [k \in Keys |-> Get(current', disk', k)]
    BY <1>1 DEF Lookups
  <1>3. Damaged(current, disk)' <=> Damaged(current', disk')
    BY DEF Damaged, Levels
  <1>4. InOrder(current)' <=> InOrder(current')
    BY DEF InOrder, Sorted, Ordered, Below, NotOlderBound, FileRec, Versions, Levels
  <1>5. InStrictOrder(current)' <=> InStrictOrder(current')
    BY <1>4 DEF InStrictOrder, Ordered, NewerBound
  <1>6. TablesOK(current, disk, Latest)' <=> TablesOK(current', disk', Latest')
    BY DEF TablesOK, OnDisk, OfFlush, Levels, Ts
  <1>7. QED
    BY <1>2, <1>3, <1>4, <1>5, <1>6

\* What the invariants say of the version before a step,
LEMMA VersionThen ==
  ASSUME IInv, LookupInv
  PROVE  /\ InOrder(current) /\ TablesOK(current, disk, Latest)
         /\ ~ twins => InStrictOrder(current)
  BY CurrentTables DEF IInv, LookupInv, OrderInv

\* and after it.
LEMMA VersionNow ==
  ASSUME IInv', LookupInv'
  PROVE  /\ InOrder(current') /\ TablesOK(current', disk', Latest')
         /\ ~ twins' => InStrictOrder(current')
  BY CurrentTablesNext, LookupsNext DEF IInv, LookupInv, OrderInv

\* An empty database has no values.
LEMMA InitMapped == Init => Sstables!Init
  <1>1. SUFFICES ASSUME Init PROVE Sstables!Init
    OBVIOUS
  <1>2. current = EmptyVersion /\ \A l \in Levels : Range(current[l]) = {}
    BY <1>1 DEF Init, EmptyVersion, Range
  <1>3. ASSUME NEW k \in Keys PROVE Get(current, disk, k) = 0
    <2>1. current \in Versions
      BY <1>2, EmptyInOrder DEF InStrictOrder, InOrder
    <2>2. AnswersIn(current, disk, k, {0})
      BY <1>2 DEF AnswersIn, Absent
    <2>3. QED
      BY <2>1, <2>2, LookupType
  <1>4. Lookups \in [Keys -> {0}]
    BY <1>3 DEF Lookups
  <1>5. ~ twins /\ ~ Damaged(current, disk)
    BY <1>1, <1>2 DEF Init, Damaged
  <1>6. QED
    BY <1>4, <1>5 DEF Sstables!Init, Lookups, Damaged

\* Values of flushes, or of a table that cannot be read.
Values == 1 .. (MaxCrashes + 1) * MaxTs

\* Nothing is promised any more.
Spoilt == twins \/ Damaged(current, disk)

\* A step of the version set adds values to the map, spoils it, or leaves it
\* as it is.
LEMMA StepMapped ==
  ASSUME IInv, LookupInv, IInv', LookupInv', [Next]_vars
  PROVE  \/ Spoilt' /\ Lookups' \in [Keys -> Values \cup {0, -1}]
         \/ /\ ~ Spoilt /\ ~ Spoilt'
            /\ \/ Lookups' = Lookups
               \/ \E n \in Values : \A k \in Keys : Lookups[k] < n /\ Lookups'[k] \in {Lookups[k], n}
  <1>1. StepKinds
    BY Steps DEF IInv
  <1>2. /\ InOrder(current) /\ TablesOK(current, disk, Latest)
        /\ InOrder(current') /\ TablesOK(current', disk', Latest')
        /\ ~ twins => InStrictOrder(current)
        /\ ~ twins' => InStrictOrder(current')
    BY VersionThen, VersionNow
  <1>3. Latest \in 0 .. (MaxCrashes + 1) * MaxTs /\ Latest' \in 0 .. (MaxCrashes + 1) * MaxTs
    BY LatestBounded, LatestBoundedNext DEF IInv, LookupInv
  <1>4. /\ Lookups = [k \in Keys |-> Get(current, disk, k)]
        /\ Lookups' = [k \in Keys |-> Get(current', disk', k)]
    BY LookupsNext DEF Lookups
  <1>5. Spoilt' <=> twins' \/ Damaged(current', disk')
    BY LookupsNext DEF Spoilt
  <1> DEFINE top == (MaxCrashes + 1) * MaxTs
  <1>6. top \in Int
    BY VersionSetAssumption
  <1>7. Latest \in 0 .. top /\ Latest' \in 0 .. top /\ Values = 1 .. top
    BY <1>3 DEF Values
  <1> HIDE DEF top
  <1>8. CASE Spoilt'
    <2>1. ASSUME NEW k \in Keys PROVE Get(current', disk', k) \in Values \cup {0, -1}
      <3>1. current' \in Versions
        BY <1>2 DEF InOrder
      <3>2. Get(current', disk', k) \in (0 .. Latest') \cup {Unreadable}
        BY <1>2, <3>1, AnswersFound
      <3>3. QED
        BY <1>6, <1>7, <3>2 DEF Unreadable
    <2>2. QED
      BY <1>4, <1>8, <2>1
  <1>9. CASE ~ Spoilt'
    <2>1. ~ twins' /\ ~ Damaged(current', disk')
      BY <1>5, <1>9
    <2>2. ~ twins /\ ~ Damaged(current, disk)
      BY <1>1, <2>1, TwinsStay, DamageStays
    <2>3. Intact(current, disk) /\ Intact(current', disk')
      BY <1>2, <2>1, <2>2, IntactTables
    <2>4. Keys \subseteq Int
      BY VersionSetAssumption
    <2>5. ASSUME NEW k \in Keys
          PROVE  /\ Get(current', disk', k) \in {Get(current, disk, k), Latest'}
                 /\ (\A m : ~ TableInstalled(m)) => Get(current', disk', k) = Get(current, disk, k)
      BY <1>1, <2>1, <2>3, <2>4, OnlyFlushes
    <2>6. ~ Spoilt
      BY <2>2 DEF Spoilt
    <2>7. CASE \A m : ~ TableInstalled(m)
      BY <1>4, <1>9, <2>5, <2>6, <2>7
    <2>8. ASSUME NEW m, TableInstalled(m)
          PROVE  \E n \in Values : \A k \in Keys : Lookups[k] < n /\ Lookups'[k] \in {Lookups[k], n}
      <3>1. /\ m.xip \in Ts /\ m.xip # installed /\ m.xip >= minXip /\ installed <= minXip
            /\ installed \in Ts \cup {0} /\ minXip \in Ts \cup {0} /\ ShapeInv
        BY <2>8 DEF TableInstalled, IInv, ShapeInv, FlushOK
      <3>2. m.xip > installed
        BY <3>1 DEF Ts
      <3>3. Latest' = Value(m.xip) /\ Value(m.xip) > Latest
        BY <2>8, <3>1, <3>2, ValuesGrow DEF TableInstalled, Latest, Value
      <3>4. Latest' \in Values
        BY <1>6, <1>7, <3>3
      <3>5. ASSUME NEW k \in Keys PROVE Get(current, disk, k) < Latest'
        <4>1. Get(current, disk, k) \in 0 .. Latest
          BY <1>2, <2>2, ValuesFound
        <4>2. QED
          BY <1>6, <1>7, <3>3, <4>1
      <3>6. \A k \in Keys : Lookups[k] < Latest' /\ Lookups'[k] \in {Lookups[k], Latest'}
        BY <1>4, <2>5, <3>5
      <3>7. QED
        BY <3>4, <3>6
    <2>9. QED
      BY <1>9, <2>6, <2>7, <2>8
  <1>10. QED
    BY <1>8, <1>9

\* These are the steps of the map.
LEMMA MapSteps ==
  IInv /\ LookupInv /\ IInv' /\ LookupInv' /\ [Next]_vars
    => [Sstables!Next]_<<Lookups, Spoilt>>
  <1>1. SUFFICES ASSUME IInv, LookupInv, IInv', LookupInv', [Next]_vars
                 PROVE  [Sstables!Next]_<<Lookups, Spoilt>>
    OBVIOUS
  <1>2. DOMAIN Lookups' = Keys
    BY LookupsNext
  <1>3. Spoilt \in BOOLEAN /\ Spoilt' \in BOOLEAN
    BY DEF IInv, FlagsInv, Spoilt, Damaged
  <1>4. CASE Spoilt' /\ Lookups' \in [Keys -> Values \cup {0, -1}]
    <2>1. Spoilt' = TRUE
      BY <1>3, <1>4
    <2>2. Sstables!Damage
      BY <1>4, <2>1 DEF Sstables!Damage, Values, Spoilt, Damaged, Lookups
    <2>3. QED
      BY <2>2 DEF Sstables!Next
  <1>5. CASE ~ Spoilt /\ ~ Spoilt' /\ Lookups' = Lookups
    <2>1. Spoilt' = Spoilt
      BY <1>3, <1>5
    <2>2. QED
      BY <1>5, <2>1
  <1>6. ASSUME ~ Spoilt, ~ Spoilt', NEW n \in Values,
               \A k \in Keys : Lookups[k] < n /\ Lookups'[k] \in {Lookups[k], n}
        PROVE  [Sstables!Next]_<<Lookups, Spoilt>>
    <2>1. ~ Spoilt /\ Spoilt' = Spoilt
      BY <1>3, <1>6
    <2>2. \A i \in {Lookups'[k] : k \in {l \in Keys : Lookups'[l] # Lookups[l]}} : i = n
      BY <1>6
    <2>3. Sstables!Add
      BY <1>2, <1>6, <2>1, <2>2 DEF Sstables!Add, Values, Spoilt, Damaged, Lookups
    <2>4. QED
      BY <2>3 DEF Sstables!Next
  <1>7. QED
    BY <1>1, <1>4, <1>5, <1>6, StepMapped

\* Lookups in the sstables behave like a map that only flushes change:
\* picking, merging, splitting, discarding and installing files, crashes and
\* restarts are invisible to them, until a table is damaged or, after a
\* restart, a bound comes twice.
THEOREM LookupsAreUndisturbed == Spec => ImplementsStorageMap
  <1>1. Init => Sstables!Init
    BY InitMapped
  <1>2. IInv /\ LookupInv /\ IInv' /\ LookupInv' /\ [Next]_vars
          => [Sstables!Next]_<<Lookups, Spoilt>>
    BY MapSteps
  <1>3. Spec => [](IInv /\ LookupInv)
    BY AlwaysIInv, AlwaysLookupInv, PTL
  <1>4. QED
    BY <1>1, <1>2, <1>3, PTL DEF Spec, ImplementsStorageMap, Sstables!Spec, Lookups, Spoilt, Damaged

=============================================================================
