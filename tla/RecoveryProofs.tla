--------------------------- MODULE RecoveryProofs ---------------------------
(***************************************************************************)
(* Proofs about Recovery, for any set of transactions and any number of    *)
(* flushes, compactions and crashes.  The invariants come in layers:       *)
(*   TypeInv  the shape of the state;                                      *)
(*   PosInv   what positions in the log point to, and what is on disk;     *)
(*   LogInv   a commit record follows the data of its transaction;         *)
(*   VsetInv  the version set in memory is the checkpoint of the manifest; *)
(*   EraInv   transactions and timestamps of different eras;               *)
(*   SnapInv  the tables of a checkpoint are a snapshot, but for what      *)
(*            cancelled flushes have marked;                               *)
(*   RedoInv  what lies before a redo point.                               *)
(* The first three hold together, the others each from those before.       *)
(***************************************************************************)
EXTENDS Recovery, SequenceTheorems, TLAPS

CkptRecord ==
    [kind : {"ckpt"}, files : SUBSET Txns, minXip : Nat, redo : Nat, era : Nat]

Record ==
    [kind : {"data", "abort"}, txn : Txns] \cup [kind : {"commit"}, txn : Txns, ts : Nat]
        \cup CkptRecord

StartedTxn ==
    [pc : {"active", "stamped", "staged", "logged", "acked", "failed", "aborted", "gone"},
     start : Nat, ts : Nat, era : Nat]

FlushJob ==
    [pc : {"redo"}, redo : Nat]
        \cup [pc : {"bound"}, redo : Nat, bound : Nat]
        \cup [pc : {"table"}, redo : Nat, bound : Nat, table : SUBSET Txns]

Application == [pc : {"flush", "manifest"}, ckpt : CkptRecord, pos : Nat]

\* Types of all variables, for Seq, records and numbers.
TypeInv ==
    /\ counter \in Nat \ {0}
    /\ txn \in [Txns -> [pc : {"new"}] \cup StartedTxn]
    /\ log \in Seq(Record) /\ durable \in 0 .. Len(log)
    /\ manifest \in [pos : Nat, state : {"Shutdowned", "InCrashRecovery", "InProduction"}]
    /\ files \in SUBSET Txns /\ minXip \in Nat /\ redo \in Nat /\ xipEra \in Nat
    /\ flush \in {Idle} \cup FlushJob
    /\ apply \in {Idle} \cup Application
    /\ state \in {"up", "down", "recovering", "corrupted", "poisoned"}
    /\ marked \in SUBSET Txns /\ abandoned \in SUBSET Txns
    /\ jobs \in Nat /\ crashes \in Nat

\* What the manifest and log_and_apply point to, and how far the disk is.
\* Only an open database flushes or applies.
PosInv ==
    /\ manifest.pos > 0 => /\ manifest.pos < durable
                           /\ log[manifest.pos + 1].kind = "ckpt"
                           /\ log[manifest.pos + 1].redo <= durable
    /\ apply # Idle => /\ apply.pos < Len(log)
                       /\ log[apply.pos + 1] = apply.ckpt
                       /\ apply.ckpt.redo <= apply.pos
                       /\ manifest.pos <= apply.pos
                       /\ apply.pc = "manifest" => apply.pos < durable
    /\ flush # Idle => flush.redo <= Len(log)
    /\ redo <= durable
    /\ state # "corrupted"
    /\ ~Up => flush = Idle /\ apply = Idle

\* The first n records of l hold one of transaction t.
Logged(l, n, kind, t) ==
    \E i \in 1 .. n : l[i].kind = kind /\ l[i].txn = t

\* commit_log_records comes before the commit record.
CommitsFollowData ==
    \A j \in 1 .. Len(log) : log[j].kind = "commit" => Logged(log, j - 1, "data", log[j].txn)

\* How far the log is for each stage of a commit.
StageIsLogged(t) ==
    /\ txn[t].pc = "staged" => Logged(log, Len(log), "data", t)
    /\ txn[t].pc = "logged" => Logged(log, Len(log), "commit", t)
    /\ txn[t].pc = "acked" => Logged(log, durable, "commit", t)

LogInv == CommitsFollowData /\ \A t \in Txns : StageIsLogged(t)

\* Appending leaves what is in the log where it is.
LEMMA AppendFacts ==
  ASSUME NEW S, NEW s \in Seq(S), NEW e \in S
  PROVE  /\ Append(s, e) \in Seq(S)
         /\ Len(s) \in Nat /\ Len(Append(s, e)) = Len(s) + 1
         /\ \A i \in 1 .. Len(s) : Append(s, e)[i] = s[i]
         /\ Append(s, e)[Len(s) + 1] = e
  BY AppendProperties, LenProperties

\* A crash leaves the first records of the log.
LEMMA PrefixFacts ==
  ASSUME NEW S, NEW s \in Seq(S), NEW n \in 0 .. Len(s)
  PROVE  /\ SubSeq(s, 1, n) \in Seq(S)
         /\ Len(SubSeq(s, 1, n)) = n
         /\ \A i \in 1 .. n : SubSeq(s, 1, n)[i] = s[i]
  <1>1. Len(s) \in Nat /\ n \in Nat /\ n <= Len(s)
    BY LenProperties
  <1>2. \A i \in 1 .. n : s[i] \in S
    BY <1>1, ElementOfSeq
  <1>3. QED
    BY <1>1, <1>2, SubSeqProperties

-----------------------------------------------------------------------------
(* The shape of the state. *)

\* The first start finds an empty log and no manifest.
LEMMA TypeInit == Init => TypeInv
  BY RecoveryAssumption, EmptySeq DEF Init, TypeInv, Idle, NoXip

\* A started transaction that moves on keeps the shape of its record.
LEMMA TxnShape ==
  ASSUME TypeInv, NEW t \in Txns, txn[t].pc # "new"
  PROVE  txn[t] \in StartedTxn
  BY DEF TypeInv, StartedTxn

\* A step that changes the stage of one transaction changes nothing else of it.
LEMMA PcStep ==
  ASSUME TypeInv, NEW t \in Txns, NEW p, txn[t].pc # "new",
         txn' = [txn EXCEPT ![t].pc = p]
  PROVE  /\ txn'[t].pc = p /\ txn'[t].start = txn[t].start
         /\ txn'[t].ts = txn[t].ts /\ txn'[t].era = txn[t].era
         /\ \A u \in Txns : u # t => txn'[u] = txn[u]
  BY TxnShape DEF TypeInv, StartedTxn

\* What ReadBound compares are start timestamps.
LEMMA XipsAreTimestamps ==
  ASSUME TypeInv
  PROVE  Xips \subseteq Nat
  BY DEF TypeInv, Xips, StartedTxn

\* A record goes behind the others.
LEMMA AppendRecordFacts ==
  ASSUME TypeInv, NEW r \in Record, AppendRecord(r)
  PROVE  /\ log' \in Seq(Record) /\ Len(log') = Len(log) + 1
         /\ \A i \in 1 .. Len(log) : log'[i] = log[i]
         /\ log'[Len(log) + 1] = r
  BY AppendFacts DEF TypeInv, AppendRecord

\* A checkpoint record goes behind the others.
LEMMA AppendCheckpointType ==
  ASSUME TypeInv, NEW c \in CkptRecord, AppendCheckpoint(c)
  PROVE  /\ log' \in Seq(Record) /\ Len(log') = Len(log) + 1
         /\ \A i \in 1 .. Len(log) : log'[i] = log[i]
         /\ apply' = [pc |-> "flush", ckpt |-> c, pos |-> Len(log)]
         /\ apply' \in Application
         /\ log'[Len(log) + 1] = c
  <1>1. c \in Record
    BY DEF Record
  <1>2. AppendRecord(c) /\ apply' = [pc |-> "flush", ckpt |-> c, pos |-> Len(log)]
    BY DEF AppendCheckpoint
  <1>3. Len(log) \in Nat
    BY LenProperties DEF TypeInv
  <1>4. QED
    BY <1>1, <1>2, <1>3, AppendRecordFacts DEF Application

\* One step per action of Next; what is flushed has to be in the log.
LEMMA TypeNext ==
  ASSUME TypeInv, PosInv, LogInv, [Next]_vars
  PROVE  TypeInv'
  <1> USE RecoveryAssumption DEF TypeInv
  <1>0. Len(log) \in Nat /\ \A i \in 1 .. Len(log) : log[i] \in Record
    BY LenProperties, ElementOfSeq
  <1>1. ASSUME NEW t \in Txns, Start(t) PROVE TypeInv'
    BY <1>1 DEF Start, StartedTxn, NoXip, walVars, vsetVars, marks, history
  <1>2. ASSUME NEW t \in Txns, Stamp(t) PROVE TypeInv'
    <2>1. txn[t] \in StartedTxn
      BY <1>2, TxnShape DEF Stamp
    <2>2. [txn EXCEPT ![t].pc = "stamped", ![t].ts = counter][t] \in StartedTxn
      BY <2>1 DEF StartedTxn
    <2>3. txn' \in [Txns -> [pc : {"new"}] \cup StartedTxn]
      BY <1>2, <2>2 DEF Stamp
    <2>4. QED
      BY <1>2, <2>3 DEF Stamp, walVars, vsetVars, marks, history
  <1>3. ASSUME NEW t \in Txns, Stage(t) PROVE TypeInv'
    <2>1. txn' \in [Txns -> [pc : {"new"}] \cup StartedTxn]
      BY <1>3, TxnShape DEF Stage, StartedTxn
    <2>2. [kind |-> "data", txn |-> t] \in Record
      BY DEF Record
    <2>3. QED
      BY <1>0, <1>3, <2>1, <2>2, AppendRecordFacts DEF Stage, vsetVars, marks, history
  <1>4. ASSUME NEW t \in Txns, Log(t) PROVE TypeInv'
    <2>1. txn[t] \in StartedTxn
      BY <1>4, TxnShape DEF Log
    <2>2. txn' \in [Txns -> [pc : {"new"}] \cup StartedTxn]
      BY <1>4, <2>1 DEF Log, StartedTxn
    <2>3. [kind |-> "commit", txn |-> t, ts |-> txn[t].ts] \in Record
      BY <2>1 DEF Record, StartedTxn
    <2>4. QED
      BY <1>0, <1>4, <2>2, <2>3, AppendRecordFacts DEF Log, vsetVars, marks, history
  <1>5. ASSUME NEW t \in Txns, Ack(t) PROVE TypeInv'
    <2>1. txn' \in [Txns -> [pc : {"new"}] \cup StartedTxn]
      BY <1>5, TxnShape DEF Ack, StartedTxn
    <2>2. CommitRecord(t) \in 1 .. Len(log)
      BY <1>0, <1>5 DEF Ack, CommitRecord, LogInv, StageIsLogged, Logged
    <2>3. durable' \in 0 .. Len(log) /\ durable' >= durable
      BY <1>0, <1>5, <2>2 DEF Ack, Flushed
    <2>4. QED
      BY <1>0, <1>5, <2>1, <2>3 DEF Ack, vsetVars, marks, history
  <1>6. ASSUME NEW t \in Txns, LogFails(t) PROVE TypeInv'
    <2>1. txn' \in [Txns -> [pc : {"new"}] \cup StartedTxn]
      BY <1>6, TxnShape DEF LogFails, StartedTxn
    <2>2. QED
      BY <1>6, <2>1 DEF LogFails, walVars, vsetVars, marks, history
  <1>7. ASSUME NEW t \in Txns, Abort(t) PROVE TypeInv'
    <2>1. txn' \in [Txns -> [pc : {"new"}] \cup StartedTxn]
      BY <1>7, TxnShape DEF Abort, StartedTxn
    <2>2. [kind |-> "abort", txn |-> t] \in Record
      BY DEF Record
    <2>3. QED
      BY <1>0, <1>7, <2>1, <2>2, AppendRecordFacts DEF Abort, vsetVars, marks, history
  <1>8. ASSUME ReadRedo PROVE TypeInv'
    BY <1>0, <1>8 DEF ReadRedo, FlushJob, walVars, vsetVars, marks
  <1>9. ASSUME ReadBound PROVE TypeInv'
    <2>1. flush.redo \in Nat
      BY <1>9 DEF ReadBound, FlushJob, Idle
    <2>2. QED
      BY <1>9, <2>1, XipsAreTimestamps, SMTT(20) DEF ReadBound, FlushJob, walVars, vsetVars, marks, history
  <1>10. ASSUME Collect PROVE TypeInv'
    <2>1. flush.redo \in Nat /\ flush.bound \in Nat
      BY <1>10 DEF Collect, FlushJob, Idle
    <2>2. Collectable \in SUBSET Txns
      BY DEF Collectable, Stamped
    <2>3. QED
      BY <1>10, <2>1, <2>2 DEF Collect, FlushJob, walVars, vsetVars, history
  <1>11. ASSUME FlushApplies PROVE TypeInv'
    <2>1. flush \in [pc : {"table"}, redo : Nat, bound : Nat, table : SUBSET Txns]
      BY <1>11 DEF FlushApplies, FlushJob, Idle
    <2>2. Checkpoint(files \cup flush.table, flush.bound, flush.redo, crashes) \in CkptRecord
      BY <2>1 DEF Checkpoint, CkptRecord
    <2>3. CASE flush.bound >= minXip
      BY <1>0, <1>11, <2>2, <2>3, AppendCheckpointType DEF FlushApplies, vsetVars, history
    <2>4. CASE ~(flush.bound >= minXip)
      BY <1>11, <2>1, <2>4 DEF FlushApplies, vsetVars, history
    <2>5. QED
      BY <2>3, <2>4
  <1>12. ASSUME CompactionApplies PROVE TypeInv'
    <2>1. Checkpoint(files, minXip, redo, xipEra) \in CkptRecord
      BY DEF Checkpoint, CkptRecord
    <2>2. QED
      BY <1>0, <1>12, <2>1, AppendCheckpointType DEF CompactionApplies, vsetVars, marks
  <1>13. ASSUME FlushCheckpoint PROVE TypeInv'
    <2>1. apply' \in Application
      BY <1>13, SMTT(20) DEF FlushCheckpoint, Application, Idle
    <2>2. apply # Idle /\ apply.pos \in Nat
      BY <1>13 DEF FlushCheckpoint, Application, Idle
    <2>3. durable' \in 0 .. Len(log) /\ durable' >= durable
      BY <1>0, <1>13, <2>2 DEF FlushCheckpoint, Flushed, PosInv
    <2>4. QED
      BY <1>0, <1>13, <2>1, <2>3 DEF FlushCheckpoint, vsetVars, marks, history
  <1>14. ASSUME WriteManifest PROVE TypeInv'
    <2>1. apply \in Application
      BY <1>14 DEF WriteManifest, Idle
    <2>2. QED
      BY <1>14, <2>1 DEF WriteManifest, Application, CkptRecord, walVars, marks, history
  <1>15. ASSUME Crash PROVE TypeInv'
    <2>1. txn' \in [Txns -> [pc : {"new"}] \cup StartedTxn]
      <3>1. ASSUME NEW t \in Txns
            PROVE  (IF txn[t].pc \in {"active", "stamped", "staged", "logged"}
                    THEN [txn[t] EXCEPT !.pc = "gone"] ELSE txn[t])
                        \in [pc : {"new"}] \cup StartedTxn
        <4>1. CASE txn[t].pc \in {"active", "stamped", "staged", "logged"}
          <5>1. txn[t] \in StartedTxn
            BY <4>1 DEF StartedTxn
          <5>2. [txn[t] EXCEPT !.pc = "gone"] \in StartedTxn
            BY <5>1 DEF StartedTxn
          <5>3. QED
            BY <4>1, <5>2
        <4>2. CASE txn[t].pc \notin {"active", "stamped", "staged", "logged"}
          BY <4>2
        <4>3. QED
          BY <4>1, <4>2
      <3>2. QED
        BY <1>15, <3>1 DEF Crash
    <2>2. durable' \in 0 .. Len(log) /\ log' \in Seq(Record) /\ Len(log') = durable'
      BY <1>0, <1>15, PrefixFacts DEF Crash
    <2>3. QED
      BY <1>0, <1>15, <2>1, <2>2, SMTT(20) DEF Crash, vsetVars, marks
  <1>16. ASSUME Recover PROVE TypeInv'
    <2>1. CASE manifest.pos = 0
      BY <1>16, <2>1 DEF Recover, HasCheckpoint, NoXip, walVars, marks, history
    <2>2. CASE manifest.pos # 0 /\ ~Readable
      BY <1>16, <2>2 DEF Recover, HasCheckpoint, walVars, vsetVars, marks, history
    <2>3. CASE manifest.pos # 0 /\ Readable
      <3>1. log[manifest.pos + 1] \in CkptRecord
        BY <1>0, <2>3 DEF Readable, Record, CkptRecord
      <3>2. /\ files' \in SUBSET Txns /\ minXip' \in Nat /\ redo' \in Nat /\ xipEra' \in Nat
            /\ state' \in {"recovering", "corrupted"}
        BY <1>16, <2>3, <3>1 DEF Recover, HasCheckpoint, CkptRecord
      <3>3. QED
        BY <1>16, <3>2, SMTT(20) DEF Recover, HasCheckpoint, walVars, marks, history
    <2>4. QED
      BY <2>1, <2>2, <2>3
  <1>17. ASSUME OpenForUse PROVE TypeInv'
    BY <1>17 DEF OpenForUse, walVars, vsetVars, marks, history
  <1>20. ASSUME Cancel PROVE TypeInv'
    <2>1. flush.table \in SUBSET Txns
      BY <1>20 DEF Cancel, FlushJob, Idle
    <2>2. QED
      BY <1>20, <2>1 DEF Cancel, walVars, vsetVars, history
  <1>18. ASSUME UNCHANGED vars PROVE TypeInv'
    BY <1>18 DEF vars, walVars, vsetVars, marks, history
  <1>19. QED
    BY <1>1, <1>2, <1>3, <1>4, <1>5, <1>6, <1>7, <1>8, <1>9, <1>10, <1>11, <1>12, <1>13,
       <1>14, <1>15, <1>16, <1>17, <1>18, <1>20 DEF Next

-----------------------------------------------------------------------------
(* Positions in the log. *)

\* What every step but a crash does to the log.
LogGrows ==
    /\ Len(log) <= Len(log') /\ durable <= durable'
    /\ \A i \in 1 .. Len(log) : log'[i] = log[i]

\* start_transaction, commit and abort only add to the log and to what of it is on disk, and change nothing
\* that flushes, checkpoints and the manifest are made of.
LEMMA TxnStepLog ==
  ASSUME TypeInv, LogInv, NEW t \in Txns,
         Start(t) \/ Stamp(t) \/ Stage(t) \/ Log(t) \/ Ack(t) \/ LogFails(t) \/ Abort(t)
  PROVE  /\ LogGrows
         /\ UNCHANGED <<manifest, files, minXip, redo, xipEra, flush, marked, abandoned,
                        apply, state, crashes>>
  <1>0. Len(log) \in Nat /\ durable \in 0 .. Len(log)
    BY LenProperties DEF TypeInv
  <1>2. CASE Start(t) \/ Stamp(t) \/ LogFails(t)
    BY <1>0, <1>2 DEF Start, Stamp, LogFails, LogGrows, walVars, vsetVars, marks, history
  <1>3. CASE Stage(t)
    <2>1. [kind |-> "data", txn |-> t] \in Record
      BY DEF Record
    <2>2. QED
      BY <1>0, <1>3, <2>1, AppendRecordFacts DEF Stage, LogGrows, vsetVars, marks, history
  <1>4. CASE Log(t)
    <2>1. [kind |-> "commit", txn |-> t, ts |-> txn[t].ts] \in Record
      BY <1>4, TxnShape DEF Log, Record, StartedTxn
    <2>2. QED
      BY <1>0, <1>4, <2>1, AppendRecordFacts DEF Log, LogGrows, vsetVars, marks, history
  <1>5. CASE Ack(t)
    <2>1. CommitRecord(t) \in 1 .. Len(log)
      BY <1>0, <1>5 DEF Ack, CommitRecord, LogInv, StageIsLogged, Logged
    <2>2. durable' >= durable
      BY <1>0, <1>5, <2>1 DEF Ack, Flushed
    <2>3. QED
      BY <1>0, <1>5, <2>2 DEF Ack, LogGrows, vsetVars, marks, history
  <1>6. CASE Abort(t)
    <2>1. [kind |-> "abort", txn |-> t] \in Record
      BY DEF Record
    <2>2. QED
      BY <1>0, <1>6, <2>1, AppendRecordFacts DEF Abort, LogGrows, vsetVars, marks, history
  <1>7. QED
    BY <1>2, <1>3, <1>4, <1>5, <1>6

\* Nothing is pointed to before the first checkpoint.
LEMMA PosInit == Init => PosInv
  BY DEF Init, PosInv

\* The checkpoint is flushed before the manifest names it, and its redo point
\* was the end of the log before the record was appended.
LEMMA PosNext ==
  ASSUME TypeInv, TypeInv', PosInv, LogInv, [Next]_vars
  PROVE  PosInv'
  <1>0. /\ Len(log) \in Nat /\ Len(log') \in Nat
        /\ durable \in 0 .. Len(log) /\ durable' \in 0 .. Len(log')
        /\ manifest.pos \in Nat /\ redo \in Nat
        /\ \A i \in 1 .. Len(log) : log[i] \in Record
    BY LenProperties, ElementOfSeq DEF TypeInv
  <1>m. manifest.pos > 0 => log[manifest.pos + 1] \in CkptRecord
    <2>1. manifest.pos > 0 => manifest.pos + 1 \in 1 .. Len(log) /\ log[manifest.pos + 1].kind = "ckpt"
      BY <1>0 DEF PosInv
    <2>2. \A r \in Record : r.kind = "ckpt" => r \in CkptRecord
      BY DEF Record, CkptRecord
    <2>3. QED
      BY <1>0, <2>1, <2>2
  <1>n. manifest.pos > 0 => manifest.pos + 1 \in 1 .. Len(log) /\ log[manifest.pos + 1].redo \in Nat
    BY <1>0, <1>m DEF PosInv, CkptRecord
  <1>a. apply # Idle => apply \in Application
    BY DEF TypeInv
  <1>f. flush # Idle => flush.redo \in Nat
    BY DEF TypeInv, FlushJob
  <1> USE DEF PosInv, Up
  <1>1. ASSUME NEW t \in Txns,
               Start(t) \/ Stamp(t) \/ Stage(t) \/ Log(t) \/ Ack(t) \/ LogFails(t) \/ Abort(t)
        PROVE  PosInv'
    <2>1. LogGrows /\ UNCHANGED <<manifest, redo, flush, apply, state>>
      BY <1>1, TxnStepLog
    <2>2. QED
      BY <1>0, <1>m, <1>a, <1>f, <2>1, SMTT(20) DEF LogGrows, Application, CkptRecord
  <1>2. ASSUME ReadRedo PROVE PosInv'
    BY <1>0, <1>2 DEF ReadRedo, walVars, vsetVars
  <1>3. ASSUME ReadBound \/ Collect \/ Cancel PROVE PosInv'
    BY <1>0, <1>3 DEF ReadBound, Collect, Cancel, walVars, vsetVars, Idle
  <1>4. ASSUME FlushApplies PROVE PosInv'
    <2> DEFINE c == Checkpoint(files \cup flush.table, flush.bound, flush.redo, crashes)
    <2>0. flush.pc = "table"
      BY <1>4 DEF FlushApplies
    <2>f. flush \in {Idle} \cup FlushJob
      BY DEF TypeInv
    <2>1. /\ flush \in [pc : {"table"}, redo : Nat, bound : Nat, table : SUBSET Txns]
          /\ flush.redo <= Len(log)
      BY <2>0, <2>f DEF FlushJob, Idle
    <2>2. c \in CkptRecord /\ c.redo = flush.redo
      BY <2>1 DEF Checkpoint, CkptRecord, TypeInv
    <2> HIDE DEF c
    <2>3. CASE flush.bound >= minXip
      <3>1. AppendCheckpoint(c)
        BY <1>4, <2>3 DEF FlushApplies, c
      <3>2. /\ Len(log') = Len(log) + 1 /\ durable' = durable
            /\ \A i \in 1 .. Len(log) : log'[i] = log[i]
            /\ apply' = [pc |-> "flush", ckpt |-> c, pos |-> Len(log)]
            /\ log'[Len(log) + 1] = c
        BY <1>4, <2>2, <3>1, AppendCheckpointType DEF FlushApplies
      <3>3. /\ UNCHANGED <<manifest, redo, state>> /\ state = "up" /\ flush' = Idle
        BY <1>4, <2>3 DEF FlushApplies, vsetVars
      <3>4. /\ apply'.pos = Len(log) /\ apply'.ckpt = c /\ apply'.pc = "flush"
            /\ c.redo \in Nat /\ c.redo <= Len(log)
        BY <2>1, <2>2, <3>2
      <3>5. QED
        BY <1>0, <1>n, <3>2, <3>3, <3>4
    <2>4. CASE ~(flush.bound >= minXip)
      BY <1>4, <2>4 DEF FlushApplies, walVars, vsetVars
    <2>5. QED
      BY <2>3, <2>4
  <1>5. ASSUME CompactionApplies PROVE PosInv'
    <2> DEFINE c == Checkpoint(files, minXip, redo, xipEra)
    <2>1. c \in CkptRecord /\ c.redo = redo
      BY DEF Checkpoint, CkptRecord, TypeInv
    <2> HIDE DEF c
    <2>2. AppendCheckpoint(c)
      BY <1>5 DEF CompactionApplies, c
    <2>3. /\ Len(log') = Len(log) + 1 /\ durable' = durable
          /\ \A i \in 1 .. Len(log) : log'[i] = log[i]
          /\ apply' = [pc |-> "flush", ckpt |-> c, pos |-> Len(log)]
          /\ log'[Len(log) + 1] = c
      BY <1>5, <2>1, <2>2, AppendCheckpointType DEF CompactionApplies
    <2>4. UNCHANGED <<manifest, redo, state, flush>> /\ state = "up"
      BY <1>5 DEF CompactionApplies, vsetVars
    <2>5. /\ apply'.pos = Len(log) /\ apply'.ckpt = c /\ apply'.pc = "flush"
          /\ c.redo \in Nat /\ c.redo <= Len(log)
      BY <1>0, <2>1, <2>3
    <2>6. QED
      BY <1>0, <1>n, <1>f, <2>3, <2>4, <2>5
  <1>6. ASSUME FlushCheckpoint PROVE PosInv'
    <2>1. apply \in Application /\ apply # Idle
      BY <1>6 DEF FlushCheckpoint, Application, Idle, TypeInv
    <2>2. durable' >= durable /\ durable' > apply.pos /\ durable' \in Nat
      BY <1>0, <1>6, <2>1 DEF FlushCheckpoint, Flushed, Application
    <2>3. /\ apply' # Idle /\ apply'.pos = apply.pos /\ apply'.ckpt = apply.ckpt
          /\ apply'.pc = "manifest"
      BY <1>6, <2>1 DEF FlushCheckpoint, Application, Idle
    <2>4. QED
      BY <1>0, <1>m, <1>6, <2>1, <2>2, <2>3 DEF FlushCheckpoint, vsetVars, CkptRecord
  <1>7. ASSUME WriteManifest PROVE PosInv'
    <2>1. apply \in Application /\ apply # Idle
      BY <1>7, SMTT(20) DEF WriteManifest, Application, Idle, TypeInv
    <2>2. apply.ckpt \in CkptRecord
      BY <2>1 DEF Application
    <2>3. manifest'.pos = apply.pos
      BY <1>7 DEF WriteManifest, TypeInv
    <2>4. QED
      BY <1>0, <1>7, <2>1, <2>2, <2>3 DEF WriteManifest, walVars, CkptRecord, Application
  <1>8. ASSUME Crash PROVE PosInv'
    <2>1. durable <= durable' /\ \A i \in 1 .. durable' : log'[i] = log[i]
      BY <1>0, <1>8, PrefixFacts, SMTT(20) DEF Crash, TypeInv
    <2>2. QED
      BY <1>0, <1>n, <1>8, <2>1 DEF Crash, vsetVars
  <1>9. ASSUME Recover PROVE PosInv'
    <2>1. manifest'.pos = manifest.pos /\ UNCHANGED <<log, durable, flush, apply>>
      BY <1>9 DEF Recover, walVars, TypeInv
    <2>2. redo' <= durable /\ state' # "corrupted" /\ state = "down"
      BY <1>0, <1>m, <1>9 DEF Recover, HasCheckpoint, Readable, RedoInLog
    <2>3. QED
      BY <2>1, <2>2
  <1>10. ASSUME OpenForUse PROVE PosInv'
    BY <1>10 DEF OpenForUse, TypeInv, walVars, vsetVars
  <1>11. ASSUME UNCHANGED vars PROVE PosInv'
    BY <1>11 DEF vars, walVars, vsetVars
  <1>12. QED
    BY <1>1, <1>2, <1>3, <1>4, <1>5, <1>6, <1>7, <1>8, <1>9, <1>10, <1>11 DEF Next

-----------------------------------------------------------------------------
(* The version set and the last checkpoint. *)

\* The version set is what the last checkpoint says, unless that has position
\* 0, and a checkpoint under way says no less.
VsetInv ==
    /\ manifest.pos > 0 => /\ files = LastCheckpoint.files /\ minXip = LastCheckpoint.minXip
                           /\ redo = LastCheckpoint.redo /\ xipEra = LastCheckpoint.era
    /\ apply # Idle => files \subseteq apply.ckpt.files /\ minXip <= apply.ckpt.minXip

\* The last checkpoint, or the empty one before the first, is well formed.
LEMMA LastCheckpointType ==
  ASSUME TypeInv, PosInv
  PROVE  LastCheckpoint \in CkptRecord
  <1>1. manifest.pos > 0 => log[manifest.pos + 1] \in Record
    BY LenProperties, ElementOfSeq DEF TypeInv, PosInv
  <1>2. manifest.pos > 0 => log[manifest.pos + 1] \in CkptRecord
    BY <1>1 DEF PosInv, Record, CkptRecord
  <1>3. Checkpoint({}, NoXip, 0, 0) \in CkptRecord
    BY DEF Checkpoint, CkptRecord, NoXip
  <1>4. QED
    BY <1>2, <1>3 DEF LastCheckpoint, HasCheckpoint, TypeInv

\* Only the manifest decides which checkpoint is the last one; at position 0 a
\* checkpoint is none, and then there was none before it.
LEMMA LastCheckpointStep ==
  ASSUME TypeInv, PosInv, LogInv, [Next]_vars
  PROVE  /\ WriteManifest =>
              /\ apply # Idle /\ manifest'.pos = apply.pos
              /\ LastCheckpoint' = IF apply.pos > 0 THEN apply.ckpt ELSE LastCheckpoint
         /\ ~WriteManifest => LastCheckpoint' = LastCheckpoint /\ manifest'.pos = manifest.pos
  <1>0. /\ Len(log) \in Nat /\ durable \in 0 .. Len(log) /\ manifest.pos \in Nat
        /\ manifest.pos > 0 => manifest.pos + 1 \in 1 .. durable
    BY LenProperties DEF TypeInv, PosInv
  <1>1. ASSUME manifest'.pos = manifest.pos,
               manifest.pos > 0 => log'[manifest.pos + 1] = log[manifest.pos + 1]
        PROVE  LastCheckpoint' = LastCheckpoint /\ manifest'.pos = manifest.pos
    BY <1>0, <1>1 DEF LastCheckpoint, HasCheckpoint, Checkpoint
  <1>2. ASSUME NEW t \in Txns,
               Start(t) \/ Stamp(t) \/ Stage(t) \/ Log(t) \/ Ack(t) \/ LogFails(t) \/ Abort(t)
        PROVE  LastCheckpoint' = LastCheckpoint /\ manifest'.pos = manifest.pos
    BY <1>0, <1>1, <1>2, TxnStepLog DEF LogGrows
  <1>3. ASSUME ReadRedo \/ ReadBound \/ Collect \/ Cancel \/ FlushCheckpoint \/ UNCHANGED vars
        PROVE  LastCheckpoint' = LastCheckpoint /\ manifest'.pos = manifest.pos
    BY <1>1, <1>3 DEF ReadRedo, ReadBound, Collect, Cancel, FlushCheckpoint, vars, walVars
  <1>4. ASSUME FlushApplies
        PROVE  LastCheckpoint' = LastCheckpoint /\ manifest'.pos = manifest.pos
    <2> DEFINE c == Checkpoint(files \cup flush.table, flush.bound, flush.redo, crashes)
    <2>1. flush \in [pc : {"table"}, redo : Nat, bound : Nat, table : SUBSET Txns]
      BY <1>4 DEF FlushApplies, FlushJob, Idle, TypeInv
    <2>2. c \in CkptRecord
      BY <2>1 DEF Checkpoint, CkptRecord, TypeInv
    <2> HIDE DEF c
    <2>3. UNCHANGED manifest /\ (AppendCheckpoint(c) \/ UNCHANGED log)
      BY <1>4 DEF FlushApplies, walVars, c
    <2>4. QED
      BY <1>0, <1>1, <2>2, <2>3, AppendCheckpointType
  <1>5. ASSUME CompactionApplies
        PROVE  LastCheckpoint' = LastCheckpoint /\ manifest'.pos = manifest.pos
    <2>1. Checkpoint(files, minXip, redo, xipEra) \in CkptRecord
      BY DEF Checkpoint, CkptRecord, TypeInv
    <2>2. QED
      BY <1>0, <1>1, <1>5, <2>1, AppendCheckpointType DEF CompactionApplies
  <1>6. ASSUME WriteManifest
        PROVE  /\ apply # Idle /\ manifest'.pos = apply.pos
               /\ LastCheckpoint' = IF apply.pos > 0 THEN apply.ckpt ELSE LastCheckpoint
    <2>1. apply # Idle /\ manifest'.pos = apply.pos /\ UNCHANGED log
      BY <1>6 DEF WriteManifest, Idle, TypeInv, walVars
    <2>2. apply.pos \in Nat
      BY <2>1 DEF TypeInv, Application
    <2>3. CASE apply.pos > 0
      BY <2>1, <2>2, <2>3 DEF LastCheckpoint, HasCheckpoint, PosInv
    <2>4. CASE ~(apply.pos > 0)
      <3>1. manifest.pos = 0 /\ manifest'.pos = 0
        BY <1>0, <2>1, <2>2, <2>4 DEF PosInv
      <3>2. QED
        BY <2>1, <2>4, <3>1 DEF LastCheckpoint, HasCheckpoint, Checkpoint
    <2>5. QED
      BY <2>3, <2>4
  <1>7. ASSUME Crash
        PROVE  LastCheckpoint' = LastCheckpoint /\ manifest'.pos = manifest.pos
    BY <1>0, <1>1, <1>7, PrefixFacts DEF Crash, TypeInv
  <1>8. ASSUME Recover \/ OpenForUse
        PROVE  LastCheckpoint' = LastCheckpoint /\ manifest'.pos = manifest.pos
    BY <1>1, <1>8 DEF Recover, OpenForUse, TypeInv, walVars
  <1>9. QED
    BY <1>2, <1>3, <1>4, <1>5, <1>6, <1>7, <1>8 DEF Next

\* Without a manifest the version set is empty.
LEMMA VsetInit == Init => VsetInv
  BY DEF Init, VsetInv

\* set_current follows the manifest, and a start reads what it names.
LEMMA VsetNext ==
  ASSUME TypeInv, PosInv, LogInv, VsetInv, [Next]_vars
  PROVE  VsetInv'
  <1> USE DEF VsetInv
  <1>1. CASE WriteManifest
    <2>1. UNCHANGED log /\ apply' = Idle
      BY <1>1 DEF WriteManifest, walVars
    <2>2. /\ files' = apply.ckpt.files /\ minXip' = apply.ckpt.minXip
          /\ redo' = apply.ckpt.redo /\ xipEra' = apply.ckpt.era
      BY <1>1 DEF WriteManifest
    <2>3. QED
      BY <1>1, <2>1, <2>2, LastCheckpointStep
  <1>2. CASE ~WriteManifest
    <2>0. /\ LastCheckpoint' = LastCheckpoint /\ LastCheckpoint \in CkptRecord
          /\ manifest'.pos = manifest.pos /\ manifest.pos \in Nat
      BY <1>2, LastCheckpointStep, LastCheckpointType DEF TypeInv
    <2>1. ASSUME NEW t \in Txns,
                 Start(t) \/ Stamp(t) \/ Stage(t) \/ Log(t) \/ Ack(t) \/ LogFails(t) \/ Abort(t)
          PROVE  VsetInv'
      BY <2>0, <2>1, TxnStepLog
    <2>2. ASSUME ReadRedo \/ ReadBound \/ Collect \/ Cancel \/ OpenForUse \/ UNCHANGED vars
          PROVE  VsetInv'
      BY <2>0, <2>2 DEF ReadRedo, ReadBound, Collect, Cancel, OpenForUse, vars, vsetVars
    <2>3. ASSUME FlushApplies PROVE VsetInv'
      <3> DEFINE c == Checkpoint(files \cup flush.table, flush.bound, flush.redo, crashes)
      <3>1. flush \in [pc : {"table"}, redo : Nat, bound : Nat, table : SUBSET Txns]
        BY <2>3 DEF FlushApplies, FlushJob, Idle, TypeInv
      <3>2. c \in CkptRecord /\ files \subseteq c.files /\ c.minXip = flush.bound
        BY <3>1 DEF Checkpoint, CkptRecord, TypeInv
      <3> HIDE DEF c
      <3>3. UNCHANGED vsetVars /\ ((AppendCheckpoint(c) /\ flush.bound >= minXip) \/ UNCHANGED apply)
        BY <2>3 DEF FlushApplies, c
      <3>4. CASE AppendCheckpoint(c) /\ flush.bound >= minXip
        BY <2>0, <3>1, <3>2, <3>3, <3>4, AppendCheckpointType DEF vsetVars, TypeInv
      <3>5. QED
        BY <2>0, <3>3, <3>4 DEF vsetVars
    <2>4. ASSUME CompactionApplies PROVE VsetInv'
      <3> DEFINE c == Checkpoint(files, minXip, redo, xipEra)
      <3>1. c \in CkptRecord /\ c.files = files /\ c.minXip = minXip
        BY DEF Checkpoint, CkptRecord, TypeInv
      <3> HIDE DEF c
      <3>2. AppendCheckpoint(c) /\ UNCHANGED vsetVars
        BY <2>4 DEF CompactionApplies, c
      <3>3. QED
        BY <2>0, <3>1, <3>2, AppendCheckpointType DEF vsetVars, TypeInv
    <2>5. ASSUME FlushCheckpoint PROVE VsetInv'
      <3>1. apply \in Application /\ apply # Idle
        BY <2>5 DEF FlushCheckpoint, Application, Idle, TypeInv
      <3>2. apply'.ckpt = apply.ckpt
        BY <2>5, <3>1 DEF FlushCheckpoint, Application
      <3>3. QED
        BY <2>0, <2>5, <3>1, <3>2 DEF FlushCheckpoint, vsetVars
    <2>6. ASSUME Crash PROVE VsetInv'
      BY <2>0, <2>6 DEF Crash, vsetVars
    <2>7. ASSUME Recover PROVE VsetInv'
      <3>1. apply' = Idle
        BY <2>7 DEF Recover, PosInv, Up
      <3>2. CASE manifest.pos = 0
        BY <2>0, <3>1, <3>2
      <3>3. CASE manifest.pos # 0
        BY <2>0, <2>7, <3>1, <3>3 DEF Recover, HasCheckpoint, LastCheckpoint, Readable, PosInv, TypeInv
      <3>4. QED
        BY <3>2, <3>3
    <2>8. QED
      BY <1>2, <2>1, <2>2, <2>3, <2>4, <2>5, <2>6, <2>7 DEF Next
  <1>3. QED
    BY <1>1, <1>2

-----------------------------------------------------------------------------
(* Eras: the time between two crashes.                                     *)

\* No transaction in progress is of an earlier era, those of this era and the
\* bound of the flush are drawn from its counter.
EraInv ==
    /\ \A t \in Txns : txn[t].pc # "new" =>
        /\ txn[t].era <= crashes
        /\ ~Up => txn[t].era < crashes
        /\ txn[t].pc \in {"active", "stamped", "staged", "logged"} => txn[t].era = crashes
        /\ txn[t].era = crashes => txn[t].start < counter /\ txn[t].ts < counter
    /\ flush.pc \in {"bound", "table"} => flush.bound <= counter

\* Nothing has been started.
LEMMA EraInit == Init => EraInv
  BY DEF Init, EraInv, Idle

\* A commit timestamp is all that commit adds to the record of a transaction.
LEMMA StampStep ==
  ASSUME TypeInv, NEW t \in Txns, txn[t] \in StartedTxn, Stamp(t)
  PROVE  /\ txn'[t] \in StartedTxn
         /\ txn'[t].pc = "stamped" /\ txn'[t].ts = counter
         /\ txn'[t].start = txn[t].start /\ txn'[t].era = txn[t].era
         /\ \A u \in Txns : u # t => txn'[u] = txn[u]
  <1>1. /\ txn'[t] = [txn[t] EXCEPT !.pc = "stamped", !.ts = counter]
        /\ \A u \in Txns : u # t => txn'[u] = txn[u]
    BY DEF Stamp, TypeInv
  <1>2. counter \in Nat
    BY DEF TypeInv
  <1>3. PICK r \in StartedTxn : r = txn[t]
    OBVIOUS
  <1>4. txn'[t] = [r EXCEPT !.pc = "stamped", !.ts = counter]
    BY <1>1, <1>3
  <1>5. txn'[t] = [pc |-> "stamped", start |-> r.start, ts |-> counter, era |-> r.era]
    BY <1>4 DEF StartedTxn
  <1>6. QED
    BY <1>1, <1>2, <1>3, <1>5 DEF StartedTxn

\* Only Recover sets the counter back, when no transaction is of its era.
LEMMA EraNext ==
  ASSUME TypeInv, TypeInv', PosInv, EraInv, [Next]_vars
  PROVE  EraInv'
  <1>0. \A t \in Txns : txn[t].pc # "new" => txn[t] \in StartedTxn
    BY TxnShape
  <1>c. counter \in Nat \ {0} /\ crashes \in Nat
    BY DEF TypeInv
  <1>f. flush.pc \in {"bound", "table"} => flush.bound \in Nat
    BY SMTT(20) DEF TypeInv, FlushJob, Idle
  <1> USE DEF EraInv, Up
  <1>1. ASSUME NEW t \in Txns, Start(t) PROVE EraInv'
    BY <1>c, <1>f, <1>1, <1>0 DEF Start, TypeInv, StartedTxn, NoXip, history
  <1>2. ASSUME NEW t \in Txns, Stamp(t) PROVE EraInv'
    <2>1. /\ txn[t] \in StartedTxn /\ txn'[t] \in StartedTxn
          /\ txn'[t].pc = "stamped" /\ txn'[t].ts = counter
          /\ txn'[t].start = txn[t].start /\ txn'[t].era = txn[t].era
          /\ \A u \in Txns : u # t => txn'[u] = txn[u]
      <3>1. txn[t] \in StartedTxn
        BY <1>0, <1>2 DEF Stamp
      <3>2. QED
        BY <1>2, <3>1, StampStep
    <2>2. /\ counter' = counter + 1 /\ Up /\ UNCHANGED <<crashes, flush, state>>
          /\ txn[t].pc = "active"
      BY <1>2 DEF Stamp, history
    <2>3. ASSUME NEW u \in Txns, u # t, txn'[u].pc # "new"
          PROVE  /\ txn'[u].era <= crashes' /\ (~Up' => txn'[u].era < crashes')
                 /\ txn'[u].pc \in {"active", "stamped", "staged", "logged"} => txn'[u].era = crashes'
                 /\ txn'[u].era = crashes' => txn'[u].start < counter' /\ txn'[u].ts < counter'
      BY <1>0, <1>c, <2>1, <2>2, <2>3 DEF StartedTxn
    <2>4. txn'[t].era = crashes' /\ txn'[t].start < counter' /\ txn'[t].ts < counter'
      BY <1>0, <1>c, <2>1, <2>2 DEF StartedTxn
    <2>5. QED
      BY <1>c, <1>f, <2>2, <2>3, <2>4
  <1>3. ASSUME NEW t \in Txns, Stage(t) \/ Log(t) \/ Ack(t) \/ LogFails(t) \/ Abort(t)
        PROVE  EraInv'
    <2>1. /\ txn[t] \in StartedTxn /\ txn[t].pc \in {"active", "stamped", "staged", "logged"}
          /\ txn'[t].ts = txn[t].ts /\ txn'[t].start = txn[t].start /\ txn'[t].era = txn[t].era
          /\ \A u \in Txns : u # t => txn'[u] = txn[u]
      <3>1. \E p \in {"staged", "logged", "acked", "failed", "aborted"} :
                txn' = [txn EXCEPT ![t].pc = p]
        BY <1>3 DEF Stage, Log, Ack, LogFails, Abort
      <3>2. txn[t].pc \in {"active", "stamped", "staged", "logged"}
        BY <1>3 DEF Stage, Log, Ack, LogFails, Abort
      <3>3. QED
        BY <1>0, <3>1, <3>2, PcStep
    <2>2. UNCHANGED <<counter, crashes, flush, state>>
      BY <1>3 DEF Stage, Log, Ack, LogFails, Abort, history
    <2>3. QED
      BY <1>0, <1>c, <1>f, <2>1, <2>2 DEF StartedTxn
  <1>4. ASSUME ReadBound PROVE EraInv'
    <2>1. flush'.bound <= counter' /\ counter <= counter' /\ counter' \in Nat
      <3>1. PICK bound \in Xips \cup {counter} :
                flush' = [pc |-> "bound", redo |-> flush.redo, bound |-> bound]
        BY <1>4 DEF ReadBound
      <3>2. \A x \in Xips : x \in Nat /\ x <= counter
        BY <1>0, <1>c DEF Xips, StartedTxn
      <3>3. QED
        BY <1>c, <1>4, <3>1, <3>2 DEF ReadBound
    <2>2. UNCHANGED <<txn, state, crashes>>
      BY <1>4 DEF ReadBound, history
    <2>3. QED
      BY <1>0, <1>c, <2>1, <2>2 DEF StartedTxn
  <1>5. ASSUME ReadRedo \/ Collect \/ Cancel \/ FlushApplies \/ CompactionApplies
               \/ FlushCheckpoint \/ WriteManifest
        PROVE  EraInv'
    <2>1. UNCHANGED <<txn, counter, crashes>> /\ (Up' <=> Up)
      BY <1>5 DEF ReadRedo, Collect, Cancel, FlushApplies, CompactionApplies, FlushCheckpoint,
         WriteManifest, history
    <2>2. flush'.pc \in {"bound", "table"} => flush.pc \in {"bound", "table"} /\ flush'.bound = flush.bound
      BY <1>5 DEF ReadRedo, Collect, Cancel, FlushApplies, CompactionApplies, FlushCheckpoint,
         WriteManifest, Idle
    <2>3. QED
      BY <1>0, <1>c, <1>f, <2>1, <2>2 DEF StartedTxn
  <1>6. ASSUME Crash PROVE EraInv'
    <2>1. \A t \in Txns : txn'[t].pc # "new" =>
            /\ txn[t].pc # "new" /\ txn'[t].era = txn[t].era
            /\ txn'[t].pc \notin {"active", "stamped", "staged", "logged"}
      BY <1>0, <1>6 DEF Crash, StartedTxn
    <2>2. QED
      BY <1>0, <1>c, <1>6, <2>1 DEF Crash, StartedTxn, Idle
  <1>7. ASSUME Recover PROVE EraInv'
    BY <1>0, <1>c, <1>7 DEF Recover, PosInv, StartedTxn, Idle, history
  <1>8. ASSUME OpenForUse PROVE EraInv'
    BY <1>0, <1>c, <1>8 DEF OpenForUse, PosInv, StartedTxn, Idle, history
  <1>9. ASSUME UNCHANGED vars PROVE EraInv'
    BY <1>9 DEF vars, history
  <1>10. QED
    BY <1>1, <1>2, <1>3, <1>4, <1>5, <1>6, <1>7, <1>8, <1>9 DEF Next

-----------------------------------------------------------------------------
(* The tables of a checkpoint are a snapshot, and stay one.                *)

SnapshotOf(c) ==
    /\ c.era <= crashes
    /\ ~Up => c.era < crashes \/ c.minXip = 0
    /\ c.era = crashes => c.minXip <= counter
    /\ \A t \in c.files : /\ txn[t].pc \notin {"new", "active", "aborted"} /\ txn[t].era <= c.era
                          /\ t \notin abandoned
    /\ \A t \in Stamped : txn[t].era = c.era =>
          (t \in c.files <=> txn[t].ts < c.minXip /\ t \notin abandoned)

\* What a flush would lose, were it cancelled, is not in the tables of c.
NotInFlush(c) == flush.pc = "table" => flush.table \cap c.files = {}

\* A commit of the checkpoint's era is stamped above its bound; a cancelled
\* flush had collected nothing that is in its tables; a crash ends the era and
\* takes transactions away.
LEMMA SnapshotStep ==
  ASSUME TypeInv, TypeInv', PosInv, EraInv, [Next]_vars,
         NEW c \in CkptRecord, SnapshotOf(c), NotInFlush(c)
  PROVE  SnapshotOf(c)'
  <1>0. \A t \in Txns : txn[t].pc # "new" => txn[t] \in StartedTxn
    BY TxnShape
  <1>c. /\ counter \in Nat /\ crashes \in Nat /\ c.era \in Nat /\ c.minXip \in Nat
        /\ c.files \subseteq Txns
    BY DEF TypeInv, CkptRecord
  <1> USE DEF SnapshotOf, Up, Stamped
  <1>1. ASSUME NEW t \in Txns, Start(t) PROVE SnapshotOf(c)'
    <2>1. /\ txn'[t].pc = "active" /\ txn[t].pc = "new"
          /\ \A u \in Txns : u # t => txn'[u] = txn[u]
      BY <1>1 DEF Start, TypeInv
    <2>2. counter' = counter + 1 /\ UNCHANGED <<crashes, state, abandoned>>
      BY <1>1 DEF Start, history, marks
    <2>3. QED
      BY <1>c, <2>1, <2>2
  <1>2. ASSUME NEW t \in Txns, Stamp(t) PROVE SnapshotOf(c)'
    <2>1. /\ txn[t].pc = "active" /\ txn'[t].pc = "stamped"
          /\ txn'[t].ts = counter /\ txn'[t].era = txn[t].era
          /\ \A u \in Txns : u # t => txn'[u] = txn[u]
      BY <1>0, <1>2 DEF Stamp, TypeInv, StartedTxn
    <2>2. counter' = counter + 1 /\ UNCHANGED <<crashes, state, abandoned>>
      BY <1>2 DEF Stamp, history, marks
    <2>3. t \notin c.files /\ txn[t].era = crashes
      BY <2>1 DEF EraInv
    <2>4. QED
      BY <1>c, <2>1, <2>2, <2>3
  <1>3. ASSUME NEW t \in Txns, Stage(t) \/ Log(t) \/ Ack(t) \/ LogFails(t)
        PROVE  SnapshotOf(c)'
    <2>1. \E p \in {"staged", "logged", "acked", "failed"} : txn' = [txn EXCEPT ![t].pc = p]
      BY <1>3 DEF Stage, Log, Ack, LogFails
    <2>2. txn[t].pc \in {"stamped", "staged", "logged"} /\ UNCHANGED <<counter, crashes, state, abandoned>>
      BY <1>3 DEF Stage, Log, Ack, LogFails, history, marks
    <2>3. QED
      BY <1>c, <2>1, <2>2, PcStep
  <1>4. ASSUME NEW t \in Txns, Abort(t) PROVE SnapshotOf(c)'
    <2>1. txn' = [txn EXCEPT ![t].pc = "aborted"] /\ txn[t].pc = "active"
      BY <1>4 DEF Abort
    <2>2. UNCHANGED <<counter, crashes, state, abandoned>>
      BY <1>4 DEF Abort, history, marks
    <2>3. QED
      BY <1>c, <2>1, <2>2, PcStep
  <1>5. ASSUME ReadRedo \/ ReadBound \/ Collect \/ Cancel \/ FlushApplies \/ CompactionApplies
               \/ FlushCheckpoint \/ WriteManifest
        PROVE  SnapshotOf(c)'
    <2>1. /\ UNCHANGED <<txn, crashes>> /\ (Up' <=> Up) /\ counter' >= counter
          /\ abandoned' = abandoned \/ (flush.pc = "table" /\ abandoned' = abandoned \cup flush.table)
      BY <1>c, <1>5 DEF ReadRedo, ReadBound, Collect, Cancel, FlushApplies, CompactionApplies,
         FlushCheckpoint, WriteManifest, history, marks
    <2>2. counter' \in Nat
      BY DEF TypeInv
    <2>3. QED
      BY <1>c, <2>1, <2>2 DEF NotInFlush
  <1>6. ASSUME Crash PROVE SnapshotOf(c)'
    <2>1. \A t \in Txns : /\ txn'[t].pc \in {txn[t].pc, "gone"}
                          /\ txn[t].pc # "new" => txn'[t].era = txn[t].era /\ txn'[t].ts = txn[t].ts
      BY <1>0, <1>6 DEF Crash, StartedTxn
    <2>2. crashes' = crashes + 1 /\ UNCHANGED abandoned
      BY <1>6 DEF Crash
    <2>3. QED
      BY <1>c, <2>1, <2>2
  <1>7. ASSUME Recover PROVE SnapshotOf(c)'
    <2>1. UNCHANGED <<txn, crashes, abandoned>> /\ ~Up /\ ~Up' /\ counter' = 1
      BY <1>7 DEF Recover, HasCheckpoint, history, marks
    <2>2. QED
      BY <1>c, <2>1
  <1>8. ASSUME OpenForUse PROVE SnapshotOf(c)'
    BY <1>8 DEF OpenForUse, history, marks
  <1>9. ASSUME UNCHANGED vars PROVE SnapshotOf(c)'
    BY <1>9 DEF vars, history, marks
  <1>10. QED
    BY <1>1, <1>2, <1>3, <1>4, <1>5, <1>6, <1>7, <1>8, <1>9 DEF Next

\* What a collection leaves out.
InTables == IF apply = Idle THEN files ELSE apply.ckpt.files

\* A collected table is what is committed below the bound and has no mark.
TableOfFlush ==
    flush.pc = "table" =>
        /\ \A t \in flush.table : /\ t \in Stamped /\ txn[t].era = crashes /\ txn[t].ts < flush.bound
                                  /\ t \notin InTables \cup files \cup abandoned
        /\ \A t \in Stamped : txn[t].era = crashes /\ txn[t].ts < flush.bound =>
              t \in flush.table \cup InTables \cup abandoned

\* Marked is what a job holds, the tables have, or a cancelled job has left.
MarkInv ==
    /\ \A t \in InTables \cup abandoned :
          txn[t].pc # "new" /\ (txn[t].era = crashes => t \in marked)
    /\ flush.pc = "table" => flush.table \subseteq marked
    /\ marked \subseteq InTables \cup abandoned \cup (IF flush.pc = "table" THEN flush.table ELSE {})
    /\ ~Up => marked = {}

\* The version set as a checkpoint.
VsetCheckpoint == Checkpoint(files, minXip, redo, xipEra)

\* The layer as a whole.
SnapInv ==
    /\ SnapshotOf(VsetCheckpoint)
    /\ apply # Idle => SnapshotOf(apply.ckpt)
    /\ TableOfFlush
    /\ MarkInv

\* There is no checkpoint and no table.
LEMMA SnapInit == Init => SnapInv
  BY DEF Init, SnapInv, SnapshotOf, VsetCheckpoint, Checkpoint, TableOfFlush, MarkInv, InTables,
     Idle, Up, NoXip, Stamped

\* The version set has the shape of a checkpoint.
LEMMA VsetCheckpointType ==
  ASSUME TypeInv
  PROVE  /\ VsetCheckpoint \in CkptRecord
         /\ VsetCheckpoint.files = files /\ VsetCheckpoint.minXip = minXip
         /\ VsetCheckpoint.redo = redo /\ VsetCheckpoint.era = xipEra
  BY DEF TypeInv, VsetCheckpoint, Checkpoint, CkptRecord

\* What a collection leaves out changes with the edit of a flush only, while
\* the database is up.
LEMMA InTablesStep ==
  ASSUME TypeInv, PosInv, LogInv, [Next]_vars
  PROVE  /\ CompactionApplies \/ FlushCheckpoint \/ WriteManifest => InTables' = InTables
         /\ ~(FlushApplies \/ Crash \/ Recover) => InTables' = InTables
  <1>1. ASSUME NEW t \in Txns,
               Start(t) \/ Stamp(t) \/ Stage(t) \/ Log(t) \/ Ack(t) \/ LogFails(t) \/ Abort(t)
        PROVE  InTables' = InTables
    BY <1>1, TxnStepLog DEF InTables
  <1>2. ReadRedo \/ ReadBound \/ Collect \/ Cancel \/ OpenForUse \/ UNCHANGED vars
            => InTables' = InTables
    BY DEF ReadRedo, ReadBound, Collect, Cancel, OpenForUse, vars, vsetVars, InTables
  <1>3. CompactionApplies => InTables' = InTables
    BY DEF CompactionApplies, AppendCheckpoint, Checkpoint, Idle, InTables
  <1>4. FlushCheckpoint => InTables' = InTables
    <2>1. SUFFICES ASSUME FlushCheckpoint PROVE InTables' = InTables
      OBVIOUS
    <2>2. apply \in Application /\ apply # Idle
      BY <2>1, SMTT(20) DEF FlushCheckpoint, Application, Idle, TypeInv
    <2>3. apply'.ckpt = apply.ckpt /\ apply' # Idle
      BY <2>1, <2>2 DEF FlushCheckpoint, Application, Idle
    <2>4. QED
      BY <2>2, <2>3 DEF InTables
  <1>5. WriteManifest => InTables' = InTables
    BY DEF WriteManifest, InTables, Idle
  <1>6. QED
    BY <1>1, <1>2, <1>3, <1>4, <1>5 DEF Next

\* Later commits are stamped at the bound or above it, so a table stays whole.
LEMMA TableOfFlushStep ==
  ASSUME TypeInv, TypeInv', PosInv, LogInv, VsetInv, EraInv, SnapInv, [Next]_vars
  PROVE  TableOfFlush'
  <1>0. \A t \in Txns : txn[t].pc # "new" => txn[t] \in StartedTxn
    BY TxnShape
  <1>c. counter \in Nat /\ crashes \in Nat
    BY DEF TypeInv
  <1>f. flush.pc = "table" => flush.bound \in Nat /\ flush.bound <= counter /\ flush.table \subseteq Txns
    BY SMTT(20) DEF TypeInv, FlushJob, Idle, EraInv
  <1>t. TableOfFlush /\ files \subseteq InTables
    BY DEF SnapInv, VsetInv, InTables
  <1> USE DEF TableOfFlush
  <1>1. ASSUME NEW t \in Txns, Start(t) \/ Abort(t) PROVE TableOfFlush'
    <2>1. /\ txn'[t].pc \in {"active", "aborted"} /\ txn[t].pc \in {"new", "active"}
          /\ \A u \in Txns : u # t => txn'[u] = txn[u]
      <3>1. CASE Start(t)
        BY <3>1 DEF Start, TypeInv
      <3>2. CASE Abort(t)
        BY <3>2, PcStep DEF Abort
      <3>3. QED
        BY <1>1, <3>1, <3>2
    <2>2. UNCHANGED <<crashes, flush, files, apply, abandoned, InTables>>
      BY <1>1, TxnStepLog DEF InTables
    <2>3. QED
      BY <1>f, <1>t, <2>1, <2>2 DEF Stamped
  <1>2. ASSUME NEW t \in Txns, Stamp(t) PROVE TableOfFlush'
    <2>1. /\ txn[t].pc = "active" /\ txn'[t].pc = "stamped"
          /\ txn'[t].ts = counter /\ txn'[t].era = txn[t].era
          /\ \A u \in Txns : u # t => txn'[u] = txn[u]
      BY <1>0, <1>2 DEF Stamp, TypeInv, StartedTxn
    <2>2. UNCHANGED <<crashes, flush, files, apply, abandoned, InTables>>
      BY <1>2, TxnStepLog DEF InTables
    <2>3. QED
      BY <1>c, <1>f, <1>t, <2>1, <2>2 DEF Stamped
  <1>3. ASSUME NEW t \in Txns, Stage(t) \/ Log(t) \/ Ack(t) \/ LogFails(t)
        PROVE  TableOfFlush'
    <2>1. \E p \in {"staged", "logged", "acked", "failed"} : txn' = [txn EXCEPT ![t].pc = p]
      BY <1>3 DEF Stage, Log, Ack, LogFails
    <2>2. txn[t].pc \in {"stamped", "staged", "logged"}
      BY <1>3 DEF Stage, Log, Ack, LogFails
    <2>3. /\ txn'[t].pc \in {"staged", "logged", "acked", "failed"}
          /\ txn'[t].ts = txn[t].ts /\ txn'[t].era = txn[t].era
          /\ \A u \in Txns : u # t => txn'[u] = txn[u]
      BY <2>1, <2>2, PcStep
    <2>4. UNCHANGED <<crashes, flush, files, apply, abandoned, InTables>>
      BY <1>3, TxnStepLog DEF InTables
    <2>5. Stamped' = Stamped
      BY <2>2, <2>3 DEF Stamped
    <2>6. \A u \in Txns : txn'[u].ts = txn[u].ts /\ txn'[u].era = txn[u].era
      BY <2>3
    <2>7. Stamped \subseteq Txns
      BY DEF Stamped
    <2>8. QED
      BY <1>f, <1>t, <2>4, <2>5, <2>6, <2>7
  <1>4. ASSUME ReadRedo \/ ReadBound \/ Cancel \/ FlushApplies \/ Crash PROVE TableOfFlush'
    BY <1>4 DEF ReadRedo, ReadBound, Cancel, FlushApplies, Crash, Idle
  <1>5. ASSUME Collect PROVE TableOfFlush'
    <2>1. /\ flush'.pc = "table" /\ flush'.bound = flush.bound /\ flush'.table = Collectable
          /\ flush.pc = "bound"
          /\ UNCHANGED <<txn, crashes, abandoned, files, InTables>>
      BY <1>5 DEF Collect, history, vsetVars, InTables
    <2>2. marked \subseteq InTables \cup abandoned
      BY <2>1 DEF SnapInv, MarkInv
    <2>3. \A t \in InTables \cup abandoned : txn[t].era = crashes => t \in marked
      BY DEF SnapInv, MarkInv
    <2>4. QED
      BY <1>t, <2>1, <2>2, <2>3 DEF Collectable, Stamped
  <1>6. ASSUME CompactionApplies \/ FlushCheckpoint \/ WriteManifest PROVE TableOfFlush'
    <2>1. UNCHANGED <<txn, crashes, abandoned, flush>>
      BY <1>6 DEF CompactionApplies, FlushCheckpoint, WriteManifest, history, marks
    <2>2. InTables' = InTables
      BY <1>6, InTablesStep
    <2>3. files' \subseteq InTables
      <3>1. CASE WriteManifest
        BY <3>1 DEF WriteManifest, InTables, Idle
      <3>2. CASE CompactionApplies \/ FlushCheckpoint
        BY <1>t, <3>2 DEF CompactionApplies, FlushCheckpoint, vsetVars
      <3>3. QED
        BY <1>6, <3>1, <3>2
    <2>4. QED
      BY <1>t, <2>1, <2>2, <2>3 DEF Stamped
  <1>7. ASSUME Recover PROVE TableOfFlush'
    BY <1>7 DEF Recover, PosInv, Up, Idle
  <1>8. ASSUME OpenForUse \/ UNCHANGED vars PROVE TableOfFlush'
    BY <1>8, <1>t DEF OpenForUse, vars, history, vsetVars, marks, InTables, Stamped
  <1>9. QED
    BY <1>1, <1>2, <1>3, <1>4, <1>5, <1>6, <1>7, <1>8 DEF Next

\* Marks are set by a collection, and go with the memory in a crash.
LEMMA MarkStep ==
  ASSUME TypeInv, TypeInv', PosInv, LogInv, VsetInv, EraInv, SnapInv, [Next]_vars
  PROVE  MarkInv'
  <1>0. \A t \in Txns : txn[t].pc # "new" => txn[t] \in StartedTxn
    BY TxnShape
  <1>m. /\ MarkInv /\ InTables \cup abandoned \subseteq Txns
        /\ flush.pc = "table" => flush.table \subseteq Txns
    <2>1. files \subseteq Txns /\ abandoned \subseteq Txns
      BY DEF TypeInv
    <2>2. apply # Idle => apply.ckpt.files \subseteq Txns
      BY DEF TypeInv, Application, CkptRecord
    <2>3. flush.pc = "table" => flush.table \subseteq Txns
      BY SMTT(20) DEF TypeInv, FlushJob, Idle
    <2>4. QED
      BY <2>1, <2>2, <2>3 DEF SnapInv, InTables
  <1> USE DEF MarkInv
  <1>1. ASSUME NEW t \in Txns,
               Start(t) \/ Stamp(t) \/ Stage(t) \/ Log(t) \/ Ack(t) \/ LogFails(t) \/ Abort(t)
        PROVE  MarkInv'
    <2>1. UNCHANGED <<crashes, flush, marked, abandoned, state, InTables>>
      BY <1>1, TxnStepLog DEF InTables
    <2>2. /\ \A u \in Txns : u # t => txn'[u] = txn[u]
          /\ txn[t].pc # "new" => txn'[t].pc # "new" /\ txn'[t].era = txn[t].era
      <3>1. CASE Start(t)
        BY <3>1 DEF Start, TypeInv
      <3>2. CASE Stamp(t)
        BY <1>0, <3>2, StampStep DEF Stamp
      <3>3. CASE Stage(t) \/ Log(t) \/ Ack(t) \/ LogFails(t) \/ Abort(t)
        <4>1. \E p \in {"staged", "logged", "acked", "failed", "aborted"} :
                  txn' = [txn EXCEPT ![t].pc = p]
          BY <3>3 DEF Stage, Log, Ack, LogFails, Abort
        <4>2. txn[t].pc # "new"
          BY <3>3 DEF Stage, Log, Ack, LogFails, Abort
        <4>3. QED
          BY <4>1, <4>2, PcStep
      <3>4. QED
        BY <1>1, <3>1, <3>2, <3>3
    <2>3. \A u \in InTables \cup abandoned : u \in Txns /\ txn[u].pc # "new"
      BY <1>m
    <2>4. \A u \in InTables \cup abandoned : txn'[u].pc # "new" /\ txn'[u].era = txn[u].era
      BY <2>2, <2>3
    <2>5. QED
      BY <1>m, <2>1, <2>4 DEF Up
  <1>2. ASSUME ReadRedo \/ ReadBound \/ CompactionApplies \/ FlushCheckpoint \/ WriteManifest
               \/ UNCHANGED vars
        PROVE  MarkInv'
    <2>1. UNCHANGED <<txn, crashes, marked, abandoned, state>>
      BY <1>2 DEF ReadRedo, ReadBound, CompactionApplies, FlushCheckpoint, WriteManifest, vars,
         history, marks
    <2>2. InTables' = InTables
      BY <1>2, InTablesStep DEF ReadRedo, ReadBound, vars, vsetVars, InTables
    <2>3. /\ flush'.pc = "table" => flush' = flush
          /\ flush.pc = "table" => flush' = flush
      BY <1>2 DEF ReadRedo, ReadBound, CompactionApplies, FlushCheckpoint, WriteManifest, vars, Idle
    <2>4. QED
      BY <1>m, <2>1, <2>2, <2>3 DEF Up
  <1>3. ASSUME Collect PROVE MarkInv'
    <2>1. /\ flush'.pc = "table" /\ flush'.table = Collectable /\ marked' = marked \cup Collectable
          /\ flush.pc = "bound" /\ Up
          /\ UNCHANGED <<txn, crashes, abandoned, state, InTables>>
      BY <1>3 DEF Collect, history, vsetVars, InTables
    <2>2. QED
      BY <1>m, <2>1 DEF Up
  <1>4. ASSUME Cancel PROVE MarkInv'
    <2>1. /\ flush.pc = "table" /\ flush' = Idle /\ abandoned' = abandoned \cup flush.table /\ Up
          /\ UNCHANGED <<txn, crashes, marked, state, InTables>>
      BY <1>4 DEF Cancel, history, vsetVars, InTables
    <2>2. \A t \in flush.table : txn[t].pc # "new"
      BY <2>1 DEF SnapInv, TableOfFlush, Stamped
    <2>3. QED
      BY <1>m, <2>1, <2>2 DEF Up, Idle
  <1>5. ASSUME FlushApplies PROVE MarkInv'
    <2>1. /\ flush.pc = "table" /\ flush' = Idle /\ Up /\ Up'
          /\ UNCHANGED <<txn, crashes, marked>>
      BY <1>5 DEF FlushApplies, history, Up
    <2>2. InTables' \cup abandoned' = InTables \cup abandoned \cup flush.table
      <3>1. CASE flush.bound >= minXip
        <4>1. apply'.ckpt.files = files \cup flush.table /\ apply' # Idle /\ apply = Idle
          BY <1>5, <3>1 DEF FlushApplies, AppendCheckpoint, Checkpoint, Idle
        <4>2. UNCHANGED abandoned
          BY <1>5, <3>1 DEF FlushApplies
        <4>3. QED
          BY <4>1, <4>2 DEF InTables
      <3>2. CASE ~(flush.bound >= minXip)
        BY <1>5, <3>2 DEF FlushApplies, InTables, vsetVars
      <3>3. QED
        BY <3>1, <3>2
    <2>3. \A t \in flush.table : txn[t].pc # "new"
      BY <2>1 DEF SnapInv, TableOfFlush, Stamped
    <2>4. flush'.pc # "table"
      BY <2>1 DEF Idle
    <2>5. QED
      BY <1>m, <2>1, <2>2, <2>3, <2>4
  <1>6. ASSUME Crash PROVE MarkInv'
    <2>1. /\ flush' = Idle /\ apply' = Idle /\ marked' = {} /\ crashes' = crashes + 1
          /\ UNCHANGED <<files, abandoned>>
      BY <1>6 DEF Crash, vsetVars
    <2>2. \A t \in Txns : txn[t].pc # "new" =>
              txn'[t].pc # "new" /\ txn'[t].era = txn[t].era /\ txn[t].era <= crashes
      BY <1>0, <1>6 DEF Crash, StartedTxn, EraInv
    <2>3. crashes \in Nat /\ \A t \in Txns : txn[t].pc # "new" => txn[t].era \in Nat
      BY <1>0 DEF TypeInv, StartedTxn
    <2>4. \A t \in Txns : txn[t].pc # "new" => txn'[t].era # crashes'
      BY <2>1, <2>2, <2>3
    <2>5. InTables' = files' /\ files' \subseteq InTables
      BY <2>1 DEF InTables, VsetInv
    <2>6. \A t \in InTables' \cup abandoned' : txn[t].pc # "new" /\ t \in Txns
      BY <1>m, <2>1, <2>5
    <2>7. flush'.pc # "table"
      BY <2>1 DEF Idle
    <2>8. QED
      BY <2>1, <2>2, <2>4, <2>6, <2>7
  <1>7. ASSUME Recover PROVE MarkInv'
    <2>1. /\ UNCHANGED <<txn, crashes, abandoned, marked, flush, apply>> /\ ~Up
          /\ flush = Idle /\ apply = Idle
      BY <1>7 DEF Recover, PosInv, Up, history, marks
    <2>2. files' \subseteq files
      BY <1>7 DEF Recover, HasCheckpoint, VsetInv, LastCheckpoint, vsetVars, TypeInv
    <2>3. InTables' = files' /\ InTables = files
      BY <2>1 DEF InTables
    <2>4. marked = {} /\ flush'.pc # "table" /\ flush.pc # "table"
      BY <1>m, <2>1 DEF Idle
    <2>5. QED
      BY <1>m, <2>1, <2>2, <2>3, <2>4
  <1>8. ASSUME OpenForUse PROVE MarkInv'
    BY <1>8, <1>m DEF OpenForUse, vsetVars, marks, history, InTables, Up
  <1>9. QED
    BY <1>1, <1>2, <1>3, <1>4, <1>5, <1>6, <1>7, <1>8 DEF Next

\* The edit of a flush: the new table holds what the earlier ones lack below
\* the new bound, and they hold nothing above it.
LEMMA FlushedCheckpointIsSnapshot ==
  ASSUME TypeInv, PosInv, EraInv, SnapInv, FlushApplies, flush.bound >= minXip
  PROVE  SnapshotOf(apply.ckpt)'
  <1>1. /\ flush.bound \in Nat /\ flush.table \subseteq Txns /\ flush.bound <= counter
        /\ flush.pc = "table" /\ state = "up" /\ apply = Idle
    BY DEF FlushApplies, FlushJob, Idle, TypeInv, EraInv
  <1>2. PICK c : c = Checkpoint(files \cup flush.table, flush.bound, flush.redo, crashes)
    OBVIOUS
  <1>3. /\ c.files = files \cup flush.table /\ c.minXip = flush.bound /\ c.era = crashes
        /\ apply'.ckpt = c /\ UNCHANGED <<txn, counter, crashes, state, abandoned>>
    <2>1. AppendCheckpoint(c) /\ UNCHANGED <<txn, counter, crashes, state, abandoned>>
      BY <1>2 DEF FlushApplies, history
    <2>2. c.files = files \cup flush.table /\ c.minXip = flush.bound /\ c.era = crashes
      BY <1>2 DEF Checkpoint
    <2>3. QED
      BY <2>1, <2>2 DEF AppendCheckpoint
  <1>4. crashes \in Nat /\ minXip \in Nat /\ files \subseteq Txns
    BY DEF TypeInv
  <1>5. \A t \in Txns : txn[t].pc # "new" => txn[t] \in StartedTxn
    BY TxnShape
  <1>6. ASSUME NEW t \in files
        PROVE  /\ txn[t].pc \notin {"new", "active", "aborted"} /\ txn[t].era <= crashes
               /\ t \notin abandoned
               /\ t \in Stamped /\ txn[t].era = crashes => txn[t].ts < flush.bound
    <2>1. SnapshotOf(VsetCheckpoint)
      BY DEF SnapInv
    <2>2. /\ txn[t].pc \notin {"new", "active", "aborted"} /\ txn[t].era <= xipEra
          /\ xipEra <= crashes /\ t \notin abandoned
          /\ t \in Stamped /\ txn[t].era = xipEra => txn[t].ts < minXip
      BY <2>1, VsetCheckpointType DEF SnapshotOf
    <2>3. txn[t] \in StartedTxn /\ xipEra \in Nat
      BY <1>4, <1>5, <2>2 DEF TypeInv
    <2>4. QED
      BY <1>1, <1>4, <2>2, <2>3 DEF StartedTxn
  <1>7. \A t \in flush.table : /\ t \in Stamped /\ txn[t].era = crashes /\ txn[t].ts < flush.bound
                               /\ txn[t].pc \notin {"new", "active", "aborted"} /\ t \notin abandoned
    BY <1>1 DEF SnapInv, TableOfFlush, Stamped
  <1>8. \A t \in Stamped : txn[t].era = crashes /\ txn[t].ts < flush.bound =>
            t \in c.files \/ t \in abandoned
    BY <1>1, <1>3 DEF SnapInv, TableOfFlush, InTables
  <1>9. SnapshotOf(c)'
    <2>1. \A t \in c.files : /\ txn[t].pc \notin {"new", "active", "aborted"}
                             /\ txn[t].era <= crashes /\ t \notin abandoned
      BY <1>3, <1>4, <1>6, <1>7
    <2>2. \A t \in Stamped : txn[t].era = crashes =>
              (t \in c.files <=> txn[t].ts < flush.bound /\ t \notin abandoned)
      BY <1>3, <1>6, <1>7, <1>8
    <2>3. QED
      BY <1>1, <1>3, <1>4, <2>1, <2>2 DEF SnapshotOf, Up, Stamped
  <1>10. QED
    BY <1>3, <1>9 DEF SnapshotOf

\* A compaction changes neither content nor bound.
LEMMA CompactedCheckpointIsSnapshot ==
  ASSUME SnapInv, CompactionApplies
  PROVE  SnapshotOf(apply.ckpt)'
  <1>1. apply'.ckpt = VsetCheckpoint /\ UNCHANGED <<txn, counter, crashes, state, abandoned>>
    BY DEF CompactionApplies, AppendCheckpoint, VsetCheckpoint, marks
  <1>2. PICK c : c = VsetCheckpoint
    OBVIOUS
  <1>3. SnapshotOf(c) /\ apply'.ckpt = c
    BY <1>1, <1>2 DEF SnapInv
  <1>4. QED
    BY <1>1, <1>3 DEF SnapshotOf, Up, Stamped

\* Only the two edits decide what a checkpoint to come holds.
LEMMA ApplyStep ==
  ASSUME TypeInv, PosInv, LogInv, [Next]_vars, apply' # Idle
  PROVE  \/ FlushApplies /\ flush.bound >= minXip
         \/ CompactionApplies
         \/ apply # Idle /\ apply'.ckpt = apply.ckpt
  <1>1. ASSUME NEW t \in Txns,
               Start(t) \/ Stamp(t) \/ Stage(t) \/ Log(t) \/ Ack(t) \/ LogFails(t) \/ Abort(t)
        PROVE  UNCHANGED apply
    BY <1>1, TxnStepLog
  <1>2. ReadRedo \/ ReadBound \/ Collect \/ Cancel \/ Recover \/ OpenForUse \/ UNCHANGED vars
            => UNCHANGED apply
    BY DEF ReadRedo, ReadBound, Collect, Cancel, Recover, OpenForUse, vars
  <1>3. WriteManifest \/ Crash => apply' = Idle
    BY DEF WriteManifest, Crash
  <1>4. FlushApplies => flush.bound >= minXip \/ UNCHANGED apply
    BY DEF FlushApplies
  <1>5. FlushCheckpoint => apply # Idle /\ apply'.ckpt = apply.ckpt
    BY DEF FlushCheckpoint, TypeInv, Application, Idle
  <1>6. QED
    BY <1>1, <1>2, <1>3, <1>4, <1>5 DEF Next

\* The version set changes to the checkpoint that was under way, and at a start
\* to nothing if no manifest names one.
LEMMA VsetCheckpointStep ==
  ASSUME TypeInv, PosInv, LogInv, VsetInv, [Next]_vars
  PROVE  \/ VsetCheckpoint' = VsetCheckpoint
         \/ apply # Idle /\ VsetCheckpoint' = apply.ckpt
         \/ Recover /\ VsetCheckpoint' = Checkpoint({}, NoXip, 0, 0)
  <1>1. ASSUME NEW t \in Txns,
               Start(t) \/ Stamp(t) \/ Stage(t) \/ Log(t) \/ Ack(t) \/ LogFails(t) \/ Abort(t)
        PROVE  VsetCheckpoint' = VsetCheckpoint
    BY <1>1, TxnStepLog DEF VsetCheckpoint, Checkpoint
  <1>2. ReadRedo \/ ReadBound \/ Collect \/ Cancel \/ FlushApplies \/ CompactionApplies
            \/ FlushCheckpoint \/ Crash \/ OpenForUse \/ UNCHANGED vars
            => VsetCheckpoint' = VsetCheckpoint
    BY DEF ReadRedo, ReadBound, Collect, Cancel, FlushApplies, CompactionApplies, FlushCheckpoint,
       Crash, OpenForUse, vars, vsetVars, VsetCheckpoint, Checkpoint
  <1>3. WriteManifest => apply # Idle /\ VsetCheckpoint' = apply.ckpt
    <2>1. SUFFICES ASSUME WriteManifest PROVE apply # Idle /\ VsetCheckpoint' = apply.ckpt
      OBVIOUS
    <2>2. apply # Idle /\ apply.ckpt \in CkptRecord
      BY <2>1 DEF WriteManifest, TypeInv, Application, Idle
    <2>3. PICK c \in CkptRecord : c = apply.ckpt
      BY <2>2
    <2>4. /\ files' = c.files /\ minXip' = c.minXip /\ redo' = c.redo /\ xipEra' = c.era
      BY <2>1, <2>3 DEF WriteManifest
    <2>5. c = [kind |-> "ckpt", files |-> c.files, minXip |-> c.minXip, redo |-> c.redo, era |-> c.era]
      BY <2>3 DEF CkptRecord
    <2>6. QED
      BY <2>2, <2>3, <2>4, <2>5 DEF VsetCheckpoint, Checkpoint
  <1>4. Recover => VsetCheckpoint' \in {VsetCheckpoint, Checkpoint({}, NoXip, 0, 0)}
    <2>1. SUFFICES ASSUME Recover
                   PROVE  VsetCheckpoint' \in {VsetCheckpoint, Checkpoint({}, NoXip, 0, 0)}
      OBVIOUS
    <2>2. CASE manifest.pos = 0
      BY <2>1, <2>2 DEF Recover, HasCheckpoint, VsetCheckpoint, Checkpoint
    <2>3. CASE manifest.pos # 0
      BY <2>1, <2>3 DEF Recover, HasCheckpoint, VsetInv, LastCheckpoint, vsetVars, TypeInv,
         VsetCheckpoint, Checkpoint
    <2>4. QED
      BY <2>2, <2>3
  <1>5. QED
    BY <1>1, <1>2, <1>3, <1>4 DEF Next

\* The manifest moves to the checkpoint under way, which was a snapshot already.
LEMMA SnapNext ==
  ASSUME TypeInv, TypeInv', PosInv, LogInv, VsetInv, EraInv, SnapInv, [Next]_vars
  PROVE  SnapInv'
  <1>1. TableOfFlush' /\ MarkInv'
    BY TableOfFlushStep, MarkStep
  <1>2. ASSUME NEW c \in CkptRecord, SnapshotOf(c), c.files \subseteq InTables \cup files
        PROVE  SnapshotOf(c)'
    <2>1. NotInFlush(c)
      BY <1>2 DEF NotInFlush, SnapInv, TableOfFlush
    <2>2. QED
      BY <1>2, <2>1, SnapshotStep
  <1>3. ASSUME apply # Idle
        PROVE  \E c \in CkptRecord : c = apply.ckpt /\ SnapshotOf(c) /\ SnapshotOf(c)'
    <2>1. apply.ckpt \in CkptRecord /\ SnapshotOf(apply.ckpt) /\ apply.ckpt.files = InTables
      BY <1>3 DEF TypeInv, Application, SnapInv, InTables
    <2>2. PICK c \in CkptRecord : c = apply.ckpt
      BY <2>1
    <2>3. QED
      BY <1>2, <2>1, <2>2
  <1>4. SnapshotOf(VsetCheckpoint)'
    <2>1. CASE VsetCheckpoint' = VsetCheckpoint
      <3>1. PICK c \in CkptRecord : c = VsetCheckpoint
        BY VsetCheckpointType
      <3>2. SnapshotOf(c) /\ c.files = files
        BY <3>1, VsetCheckpointType DEF SnapInv
      <3>3. SnapshotOf(c)'
        BY <1>2, <3>2
      <3>4. QED
        BY <2>1, <3>1, <3>3 DEF SnapshotOf
    <2>2. CASE apply # Idle /\ VsetCheckpoint' = apply.ckpt
      BY <1>3, <2>2 DEF SnapshotOf
    <2>3. CASE Recover /\ VsetCheckpoint' = Checkpoint({}, NoXip, 0, 0)
      <3>1. PICK c : c = Checkpoint({}, NoXip, 0, 0)
        OBVIOUS
      <3>2. c.files = {} /\ c.minXip = 0 /\ c.era = 0 /\ VsetCheckpoint' = c
        BY <2>3, <3>1 DEF Checkpoint, NoXip
      <3>3. /\ counter' \in Nat /\ crashes' \in Nat
            /\ \A t \in Stamped' : txn'[t].ts \in Nat
        <4>1. \A t \in Txns : txn'[t].pc # "new" => txn'[t] \in StartedTxn
          BY DEF TypeInv, StartedTxn
        <4>2. QED
          BY <4>1 DEF TypeInv, Stamped, StartedTxn
      <3>4. SnapshotOf(c)'
        BY <3>2, <3>3 DEF SnapshotOf
      <3>5. QED
        BY <3>2, <3>4 DEF SnapshotOf
    <2>4. QED
      BY <2>1, <2>2, <2>3, VsetCheckpointStep
  <1>5. ASSUME apply' # Idle PROVE SnapshotOf(apply.ckpt)'
    <2>1. CASE apply # Idle /\ apply'.ckpt = apply.ckpt
      BY <1>3, <2>1 DEF SnapshotOf
    <2>2. QED
      BY <1>5, <2>1, ApplyStep, FlushedCheckpointIsSnapshot, CompactedCheckpointIsSnapshot
  <1>6. QED
    BY <1>1, <1>4, <1>5 DEF SnapInv

-----------------------------------------------------------------------------
(* Commit records and the data before them.                                *)

\* The log is empty.
LEMMA LogInit == Init => LogInv
  BY DEF Init, LogInv, CommitsFollowData, StageIsLogged

\* What is on record stays so while the log grows.
LEMMA LoggedGrows ==
  ASSUME NEW l, NEW n \in Nat, NEW m, NEW k \in Nat, n <= k, NEW kind, NEW t,
         \A i \in 1 .. n : m[i] = l[i], Logged(l, n, kind, t)
  PROVE  Logged(m, k, kind, t)
  BY DEF Logged

\* A commit record needs the data of its transaction in the log before it.
LEMMA CommitsFollowDataStep ==
  ASSUME TypeInv, TypeInv', LogGrows, CommitsFollowData,
         \A j \in Len(log) + 1 .. Len(log') :
            log'[j].kind = "commit" => Logged(log, Len(log), "data", log'[j].txn)
  PROVE  CommitsFollowData'
  <1>1. Len(log) \in Nat /\ Len(log') \in Nat /\ \A i \in 1 .. Len(log) : log'[i] = log[i]
    BY LenProperties DEF TypeInv, LogGrows
  <1>2. ASSUME NEW j \in 1 .. Len(log'), log'[j].kind = "commit"
        PROVE  Logged(log', j - 1, "data", log'[j].txn)
    <2>1. CASE j <= Len(log)
      <3>1. Logged(log, j - 1, "data", log'[j].txn)
        BY <1>1, <1>2, <2>1 DEF CommitsFollowData
      <3>2. j - 1 \in Nat /\ \A i \in 1 .. j - 1 : log'[i] = log[i]
        BY <1>1, <2>1
      <3>3. QED
        BY <3>1, <3>2, LoggedGrows, SMTT(20)
    <2>2. CASE ~(j <= Len(log))
      <3>1. Logged(log, Len(log), "data", log'[j].txn) /\ j - 1 \in Nat /\ Len(log) <= j - 1
        BY <1>1, <1>2, <2>2
      <3>2. QED
        BY <1>1, <3>1, LoggedGrows
    <2>3. QED
      BY <2>1, <2>2
  <1>3. QED
    BY <1>2 DEF CommitsFollowData

\* A transaction of which the stage is the same, or says nothing of the log.
LEMMA StageStays ==
  ASSUME TypeInv, TypeInv', LogGrows, NEW t \in Txns, StageIsLogged(t),
         txn'[t].pc \in {"staged", "logged", "acked"} => txn'[t].pc = txn[t].pc
  PROVE  StageIsLogged(t)'
  <1>1. /\ Len(log) \in Nat /\ Len(log') \in Nat /\ durable \in Nat /\ durable <= Len(log)
        /\ durable' \in Nat /\ durable <= durable' /\ Len(log) <= Len(log')
        /\ \A i \in 1 .. Len(log) : log'[i] = log[i]
        /\ \A i \in 1 .. durable : log'[i] = log[i]
    BY LenProperties, SMTT(20) DEF TypeInv, LogGrows
  <1>2. txn'[t].pc = "staged" => Logged(log', Len(log'), "data", t)
    BY <1>1, LoggedGrows DEF StageIsLogged
  <1>3. txn'[t].pc = "logged" => Logged(log', Len(log'), "commit", t)
    BY <1>1, LoggedGrows DEF StageIsLogged
  <1>4. txn'[t].pc = "acked" => Logged(log', durable', "commit", t)
    BY <1>1, LoggedGrows DEF StageIsLogged
  <1>5. QED
    BY <1>2, <1>3, <1>4 DEF StageIsLogged

\* Each stage of commit adds its record or flushes; a crash cuts behind what
\* was acknowledged.
LEMMA LogNext ==
  ASSUME TypeInv, TypeInv', PosInv, LogInv, [Next]_vars
  PROVE  LogInv'
  <1>0. Len(log) \in Nat /\ Len(log') \in Nat /\ durable \in 0 .. Len(log)
    BY LenProperties DEF TypeInv
  <1>1. ASSUME NEW t \in Txns, Stage(t) PROVE LogInv'
    <2>1. LogGrows
      BY <1>1, TxnStepLog
    <2>2. [kind |-> "data", txn |-> t] \in Record
      BY DEF Record
    <2>3. /\ Len(log') = Len(log) + 1
          /\ log'[Len(log) + 1].kind = "data" /\ log'[Len(log) + 1].txn = t
      BY <1>1, <2>2, AppendRecordFacts DEF Stage
    <2>4. CommitsFollowData'
      BY <1>0, <2>1, <2>3, CommitsFollowDataStep DEF LogInv
    <2>5. txn'[t].pc = "staged" /\ \A u \in Txns : u # t => txn'[u] = txn[u]
      BY <1>1, PcStep DEF Stage
    <2>6. StageIsLogged(t)'
      BY <1>0, <2>3, <2>5 DEF StageIsLogged, Logged
    <2>7. \A u \in Txns : u # t => StageIsLogged(u)'
      BY <2>1, <2>5, StageStays DEF LogInv
    <2>8. QED
      BY <2>4, <2>6, <2>7 DEF LogInv
  <1>2. ASSUME NEW t \in Txns, Log(t) PROVE LogInv'
    <2>1. LogGrows
      BY <1>2, TxnStepLog
    <2>2. [kind |-> "commit", txn |-> t, ts |-> txn[t].ts] \in Record
      BY <1>2, TxnShape DEF Log, Record, StartedTxn
    <2>3. /\ Len(log') = Len(log) + 1
          /\ log'[Len(log) + 1].kind = "commit" /\ log'[Len(log) + 1].txn = t
      BY <1>2, <2>2, AppendRecordFacts DEF Log
    <2>4. Logged(log, Len(log), "data", t)
      BY <1>2 DEF Log, LogInv, StageIsLogged
    <2>5. CommitsFollowData'
      BY <1>0, <2>1, <2>3, <2>4, CommitsFollowDataStep DEF LogInv
    <2>6. txn'[t].pc = "logged" /\ \A u \in Txns : u # t => txn'[u] = txn[u]
      BY <1>2, PcStep DEF Log
    <2>7. StageIsLogged(t)'
      BY <1>0, <2>3, <2>6 DEF StageIsLogged, Logged
    <2>8. \A u \in Txns : u # t => StageIsLogged(u)'
      BY <2>1, <2>6, StageStays DEF LogInv
    <2>9. QED
      BY <2>5, <2>7, <2>8 DEF LogInv
  <1>3. ASSUME NEW t \in Txns, Ack(t) PROVE LogInv'
    <2>1. LogGrows /\ UNCHANGED log
      BY <1>3, TxnStepLog DEF Ack
    <2>2. CommitsFollowData'
      BY <1>0, <2>1, CommitsFollowDataStep DEF LogInv
    <2>3. txn'[t].pc = "acked" /\ \A u \in Txns : u # t => txn'[u] = txn[u]
      BY <1>3, PcStep DEF Ack
    <2>4. PICK i \in 1 .. Len(log) : log[i].kind = "commit" /\ log[i].txn = t
      BY <1>3 DEF Ack, LogInv, StageIsLogged, Logged
    <2>5. /\ CommitRecord(t) \in 1 .. Len(log)
          /\ log[CommitRecord(t)].kind = "commit" /\ log[CommitRecord(t)].txn = t
      BY <2>4, LenProperties DEF CommitRecord, TypeInv
    <2>6. CommitRecord(t) \in 1 .. durable'
      BY <1>0, <1>3, <2>5 DEF Ack, Flushed
    <2>7. StageIsLogged(t)'
      BY <2>1, <2>3, <2>5, <2>6 DEF StageIsLogged, Logged
    <2>8. \A u \in Txns : u # t => StageIsLogged(u)'
      BY <2>1, <2>3, StageStays DEF LogInv
    <2>9. QED
      BY <2>2, <2>7, <2>8 DEF LogInv
  <1>4. ASSUME LogGrows,
               \A j \in Len(log) + 1 .. Len(log') : log'[j].kind # "commit",
               \A u \in Txns : txn'[u].pc \in {"staged", "logged", "acked"} => txn'[u].pc = txn[u].pc
        PROVE  LogInv'
    BY <1>4, CommitsFollowDataStep, StageStays DEF LogInv
  <1>5. ASSUME NEW t \in Txns, Start(t) \/ Stamp(t) \/ LogFails(t) PROVE LogInv'
    <2>1. LogGrows /\ UNCHANGED log
      BY <1>5, TxnStepLog DEF Start, Stamp, LogFails, walVars
    <2>2. \A u \in Txns : txn'[u].pc \in {"staged", "logged", "acked"} => txn'[u].pc = txn[u].pc
      <3>1. txn'[t].pc \in {"active", "stamped", "failed"} /\ \A u \in Txns : u # t => txn'[u] = txn[u]
        <4>1. CASE Start(t)
          BY <4>1 DEF Start, TypeInv
        <4>2. CASE Stamp(t)
          BY <4>2, TxnShape DEF Stamp, TypeInv, StartedTxn
        <4>3. CASE LogFails(t)
          BY <4>3, PcStep DEF LogFails
        <4>4. QED
          BY <1>5, <4>1, <4>2, <4>3
      <3>2. QED
        BY <3>1
    <2>3. QED
      BY <1>0, <1>4, <2>1, <2>2
  <1>6. ASSUME NEW t \in Txns, Abort(t) PROVE LogInv'
    <2>1. LogGrows
      BY <1>6, TxnStepLog
    <2>2. [kind |-> "abort", txn |-> t] \in Record
      BY DEF Record
    <2>3. Len(log') = Len(log) + 1 /\ log'[Len(log) + 1].kind = "abort"
      BY <1>6, <2>2, AppendRecordFacts DEF Abort
    <2>4. txn'[t].pc = "aborted" /\ \A u \in Txns : u # t => txn'[u] = txn[u]
      BY <1>6, PcStep DEF Abort
    <2>5. QED
      BY <1>0, <1>4, <2>1, <2>3, <2>4
  <1>7. ASSUME ReadRedo \/ ReadBound \/ Collect \/ Cancel \/ FlushCheckpoint \/ WriteManifest
               \/ Recover \/ OpenForUse \/ UNCHANGED vars
        PROVE  LogInv'
    <2>1. UNCHANGED <<txn, log>>
      BY <1>7 DEF ReadRedo, ReadBound, Collect, Cancel, FlushCheckpoint, WriteManifest, Recover,
         OpenForUse, vars, walVars
    <2>3. durable <= durable'
      <3>1. FlushCheckpoint => apply \in Application
        BY DEF FlushCheckpoint, TypeInv, Idle
      <3>2. QED
        BY <1>0, <1>7, <3>1 DEF ReadRedo, ReadBound, Collect, Cancel, FlushCheckpoint, WriteManifest,
           Recover, OpenForUse, vars, walVars, Flushed, Application
    <2>2. QED
      BY <1>0, <1>4, <2>1, <2>3 DEF LogGrows
  <1>8. ASSUME FlushApplies \/ CompactionApplies PROVE LogInv'
    <2>1. /\ UNCHANGED <<txn, durable>>
          /\ UNCHANGED log \/ \E c \in CkptRecord : AppendCheckpoint(c)
      <3>1. CASE FlushApplies
        <4>1. flush \in [pc : {"table"}, redo : Nat, bound : Nat, table : SUBSET Txns]
          BY <3>1 DEF FlushApplies, FlushJob, Idle, TypeInv
        <4>2. Checkpoint(files \cup flush.table, flush.bound, flush.redo, crashes) \in CkptRecord
          BY <4>1 DEF Checkpoint, CkptRecord, TypeInv
        <4>3. QED
          BY <3>1, <4>2 DEF FlushApplies
      <3>2. CASE CompactionApplies
        <4>1. Checkpoint(files, minXip, redo, xipEra) \in CkptRecord
          BY DEF Checkpoint, CkptRecord, TypeInv
        <4>2. QED
          BY <3>2, <4>1 DEF CompactionApplies
      <3>3. QED
        BY <1>8, <3>1, <3>2
    <2>2. LogGrows /\ \A j \in Len(log) + 1 .. Len(log') : log'[j].kind # "commit"
      BY <1>0, <2>1, AppendCheckpointType DEF LogGrows, CkptRecord
    <2>3. QED
      BY <1>4, <2>1, <2>2
  <1>9. ASSUME Crash PROVE LogInv'
    <2>1. /\ Len(log') = durable' /\ durable <= durable' /\ durable' \in 0 .. Len(log)
          /\ \A i \in 1 .. durable' : log'[i] = log[i]
      BY <1>0, <1>9, PrefixFacts, SMTT(20) DEF Crash, TypeInv
    <2>2. ASSUME NEW j \in 1 .. durable', log'[j].kind = "commit"
          PROVE  Logged(log', j - 1, "data", log'[j].txn)
      <3>1. Logged(log, j - 1, "data", log'[j].txn)
        BY <1>0, <2>1, <2>2 DEF LogInv, CommitsFollowData
      <3>2. j - 1 \in Nat /\ j - 1 <= j - 1 /\ \A i \in 1 .. j - 1 : log'[i] = log[i]
        BY <1>0, <2>1
      <3>3. QED
        BY <3>1, <3>2, LoggedGrows
    <2>3. ASSUME NEW t \in Txns PROVE StageIsLogged(t)'
      <3>1. txn'[t].pc \notin {"staged", "logged"} /\ (txn'[t].pc = "acked" => txn[t].pc = "acked")
        BY <1>9, TxnShape DEF Crash, StartedTxn
      <3>2. txn'[t].pc = "acked" => Logged(log', durable', "commit", t)
        BY <1>0, <2>1, <3>1 DEF LogInv, StageIsLogged, Logged
      <3>3. QED
        BY <3>1, <3>2 DEF StageIsLogged
    <2>4. QED
      BY <2>1, <2>2, <2>3 DEF LogInv, CommitsFollowData
  <1>10. QED
    BY <1>1, <1>2, <1>3, <1>5, <1>6, <1>7, <1>8, <1>9 DEF Next

-----------------------------------------------------------------------------
(* What lies before a redo point.                                          *)

\* None of the first r records is of transaction t.
NoneBefore(t, r) == \A i \in 1 .. r : log[i].kind # "ckpt" => log[i].txn # t

\* A transaction stamped at the bound b of era e or above it has no record
\* before the redo point r, or b is the start of another that has none.
RedoSafe(r, b, e) ==
    \A t \in Stamped : txn[t].era = e /\ txn[t].ts >= b =>
        \/ NoneBefore(t, r)
        \/ \E u \in Txns \ {t} : /\ txn[u].pc # "new" /\ txn[u].era = e /\ txn[u].start = b
                                 /\ NoneBefore(u, r)

\* A transaction logs nothing before it is stamped.
RecordsFollowStamps ==
    \A i \in 1 .. Len(log) : log[i].kind # "ckpt" =>
        txn[log[i].txn].pc \notin {"new", "active", "stamped"}

\* The layer as a whole.
RedoInv ==
    /\ RecordsFollowStamps
    /\ flush.pc \in {"bound", "table"} => RedoSafe(flush.redo, flush.bound, crashes)
    /\ apply # Idle => RedoSafe(apply.ckpt.redo, apply.ckpt.minXip, apply.ckpt.era)
    /\ RedoSafe(redo, minXip, xipEra)

\* Nothing is stamped and nothing logged.
LEMMA RedoInit == Init => RedoInv
  BY DEF Init, RedoInv, RedoSafe, RecordsFollowStamps, Stamped, Idle

\* Every step but a crash leaves the log and adds to it; a crash leaves what
\* is on disk.
LEMMA LogStep ==
  ASSUME TypeInv, TypeInv', PosInv, LogInv, [Next]_vars
  PROVE  /\ ~Crash => LogGrows
         /\ \A i \in 1 .. durable : log'[i] = log[i]
         /\ \A i \in 1 .. Len(log') : i <= Len(log) => log'[i] = log[i]
         /\ Crash => Len(log') <= Len(log)
  <1>0. Len(log) \in Nat /\ Len(log') \in Nat /\ durable \in 0 .. Len(log) /\ durable' \in Nat
    BY LenProperties DEF TypeInv
  <1>1. ASSUME NEW t \in Txns,
               Start(t) \/ Stamp(t) \/ Stage(t) \/ Log(t) \/ Ack(t) \/ LogFails(t) \/ Abort(t)
        PROVE  LogGrows
    BY <1>1, TxnStepLog
  <1>2. ASSUME ReadRedo \/ ReadBound \/ Collect \/ Cancel \/ WriteManifest
               \/ Recover \/ OpenForUse \/ UNCHANGED vars
        PROVE  LogGrows
    BY <1>0, <1>2 DEF ReadRedo, ReadBound, Collect, Cancel, WriteManifest, Recover, OpenForUse, vars,
       walVars, LogGrows
  <1>3. ASSUME FlushCheckpoint PROVE LogGrows
    <2>1. apply \in Application
      BY <1>3 DEF FlushCheckpoint, TypeInv, Idle
    <2>2. QED
      BY <1>0, <1>3, <2>1 DEF FlushCheckpoint, Flushed, Application, LogGrows
  <1>4. ASSUME FlushApplies PROVE LogGrows
    <2> DEFINE c == Checkpoint(files \cup flush.table, flush.bound, flush.redo, crashes)
    <2>1. flush \in [pc : {"table"}, redo : Nat, bound : Nat, table : SUBSET Txns]
      BY <1>4 DEF FlushApplies, FlushJob, Idle, TypeInv
    <2>2. c \in CkptRecord
      BY <2>1 DEF Checkpoint, CkptRecord, TypeInv
    <2> HIDE DEF c
    <2>3. UNCHANGED durable /\ (AppendCheckpoint(c) \/ UNCHANGED log)
      BY <1>4 DEF FlushApplies, c
    <2>4. QED
      BY <1>0, <2>2, <2>3, AppendCheckpointType DEF LogGrows
  <1>5. ASSUME CompactionApplies PROVE LogGrows
    <2>1. Checkpoint(files, minXip, redo, xipEra) \in CkptRecord
      BY DEF Checkpoint, CkptRecord, TypeInv
    <2>2. QED
      BY <1>0, <1>5, <2>1, AppendCheckpointType DEF CompactionApplies, LogGrows
  <1>6. CASE Crash
    <2>1. /\ Len(log') = durable' /\ durable' \in durable .. Len(log)
          /\ \A i \in 1 .. durable' : log'[i] = log[i]
      BY <1>0, <1>6, PrefixFacts, SMTT(20) DEF Crash, TypeInv
    <2>2. QED
      BY <1>0, <1>6, <2>1
  <1>7. CASE ~Crash
    <2>1. LogGrows
      BY <1>1, <1>2, <1>3, <1>4, <1>5, <1>7 DEF Next
    <2>2. QED
      BY <1>0, <1>7, <2>1 DEF LogGrows
  <1>8. QED
    BY <1>6, <1>7

\* What no step changes of a transaction once it is started, and how it comes
\* to be stamped.
LEMMA TxnStays ==
  ASSUME TypeInv, [Next]_vars, NEW t \in Txns
  PROVE  /\ txn[t].pc # "new" => /\ txn'[t].pc # "new" /\ txn'[t].era = txn[t].era
                                 /\ txn'[t].start = txn[t].start
         /\ t \in Stamped' => (t \in Stamped /\ txn'[t].ts = txn[t].ts) \/ txn[t].pc = "active"
  <1>0. txn[t].pc # "new" => txn[t] \in StartedTxn
    BY TxnShape
  <1> USE DEF Stamped
  <1>1. ASSUME NEW u \in Txns, Start(u)
        PROVE  /\ txn[u].pc = "new" /\ txn'[u].pc = "active"
               /\ \A v \in Txns : v # u => txn'[v] = txn[v]
    BY <1>1 DEF Start, TypeInv
  <1>2. ASSUME NEW u \in Txns, Stamp(u)
        PROVE  /\ txn'[u].pc = "stamped" /\ txn'[u].era = txn[u].era /\ txn[u].pc = "active"
               /\ txn'[u].start = txn[u].start
               /\ \A v \in Txns : v # u => txn'[v] = txn[v]
    <2>1. txn[u].pc = "active" /\ txn[u] \in StartedTxn
      BY <1>2, TxnShape DEF Stamp
    <2>2. QED
      BY <1>2, <2>1, StampStep
  <1>3. ASSUME NEW u \in Txns, Stage(u) \/ Log(u) \/ Ack(u) \/ LogFails(u)
        PROVE  /\ txn'[u].pc # "new" /\ u \in Stamped /\ txn'[u].era = txn[u].era
               /\ txn'[u].ts = txn[u].ts /\ txn'[u].start = txn[u].start
               /\ \A v \in Txns : v # u => txn'[v] = txn[v]
    <2>1. \E p \in {"staged", "logged", "acked", "failed"} : txn' = [txn EXCEPT ![u].pc = p]
      BY <1>3 DEF Stage, Log, Ack, LogFails
    <2>2. txn[u].pc \in {"stamped", "staged", "logged"}
      BY <1>3 DEF Stage, Log, Ack, LogFails
    <2>3. QED
      BY <2>1, <2>2, PcStep
  <1>4. ASSUME NEW u \in Txns, Abort(u)
        PROVE  /\ txn'[u].pc = "aborted" /\ txn'[u].era = txn[u].era
               /\ txn'[u].start = txn[u].start
               /\ \A v \in Txns : v # u => txn'[v] = txn[v]
    <2>1. txn[u].pc = "active" /\ txn' = [txn EXCEPT ![u].pc = "aborted"]
      BY <1>4 DEF Abort
    <2>2. QED
      BY <2>1, PcStep
  <1>5. ReadRedo \/ ReadBound \/ Collect \/ Cancel \/ FlushApplies \/ CompactionApplies
            \/ FlushCheckpoint \/ WriteManifest \/ Recover \/ OpenForUse \/ UNCHANGED vars
            => UNCHANGED txn
    BY DEF ReadRedo, ReadBound, Collect, Cancel, FlushApplies, CompactionApplies, FlushCheckpoint,
       WriteManifest, Recover, OpenForUse, vars
  <1>6. Crash => /\ txn'[t].pc \in {txn[t].pc, "gone"}
                 /\ txn[t].pc # "new" => /\ txn'[t].era = txn[t].era /\ txn'[t].ts = txn[t].ts
                                         /\ txn'[t].start = txn[t].start
    BY <1>0 DEF Crash, StartedTxn
  <1>7. QED
    BY <1>1, <1>2, <1>3, <1>4, <1>5, <1>6 DEF Next

\* A transaction that is stamped has nothing in the log, so that it has nothing
\* before a redo point that lies within the log.
LEMMA RedoSafeStep ==
  ASSUME TypeInv, TypeInv', PosInv, LogInv, RecordsFollowStamps, [Next]_vars,
         NEW r \in Nat, NEW b \in Nat, NEW e \in Nat, r <= Len(log), Crash => r <= durable,
         RedoSafe(r, b, e)
  PROVE  RedoSafe(r, b, e)'
  <1>0. /\ Len(log) \in Nat /\ Len(log') \in Nat /\ durable \in 0 .. Len(log)
        /\ \A i \in 1 .. Len(log) : log[i] \in Record
    BY LenProperties, ElementOfSeq DEF TypeInv
  <1>1. \A i \in 1 .. r : log'[i] = log[i]
    BY <1>0, LogStep DEF LogGrows
  <1>2. \A t \in Txns : NoneBefore(t, r) => NoneBefore(t, r)'
    BY <1>1 DEF NoneBefore
  <1>3. ASSUME NEW t \in Txns, txn[t].pc = "active" PROVE NoneBefore(t, r)
    BY <1>0, <1>3 DEF NoneBefore, RecordsFollowStamps
  <1>4. ASSUME NEW t \in Stamped', txn'[t].era = e, txn'[t].ts >= b
        PROVE  \/ NoneBefore(t, r)'
               \/ \E u \in Txns \ {t} : /\ txn'[u].pc # "new" /\ txn'[u].era = e /\ txn'[u].start = b
                                        /\ NoneBefore(u, r)'
    <2>1. t \in Txns
      BY DEF Stamped
    <2>2. CASE txn[t].pc = "active"
      BY <1>2, <1>3, <2>1, <2>2
    <2>3. CASE t \in Stamped /\ txn'[t].ts = txn[t].ts
      <3>1. txn[t].era = e /\ txn[t].ts >= b
        BY <1>4, <2>1, <2>3, TxnStays DEF Stamped
      <3>2. CASE NoneBefore(t, r)
        BY <1>2, <2>1, <3>2
      <3>3. CASE ~NoneBefore(t, r)
        <4>1. PICK u \in Txns \ {t} : /\ txn[u].pc # "new" /\ txn[u].era = e /\ txn[u].start = b
                                      /\ NoneBefore(u, r)
          BY <2>3, <3>1, <3>3 DEF RedoSafe
        <4>2. txn'[u].pc # "new" /\ txn'[u].era = e /\ txn'[u].start = b /\ NoneBefore(u, r)'
          BY <1>2, <4>1, TxnStays
        <4>3. QED
          BY <4>2
      <3>4. QED
        BY <3>2, <3>3
    <2>4. QED
      BY <1>4, <2>1, <2>2, <2>3, TxnStays
  <1>5. QED
    BY <1>4 DEF RedoSafe

\* Only Stage, Log and Abort add records of transactions.
LEMMA RecordsStep ==
  ASSUME TypeInv, TypeInv', PosInv, LogInv, RecordsFollowStamps, [Next]_vars
  PROVE  RecordsFollowStamps'
  <1>0. /\ Len(log) \in Nat /\ Len(log') \in Nat /\ durable \in 0 .. Len(log)
        /\ \A i \in 1 .. Len(log) : log[i] \in Record
        /\ \A i \in 1 .. Len(log) : log[i].kind # "ckpt" => log[i].txn \in Txns
    BY LenProperties, ElementOfSeq DEF TypeInv, Record, CkptRecord
  <1>1. \A t \in Txns : txn[t].pc \notin {"new", "active", "stamped"}
                            => txn'[t].pc \notin {"new", "active", "stamped"}
    <2>1. ASSUME NEW t \in Txns, Start(t) \/ Stamp(t)
          PROVE  txn[t].pc \in {"new", "active"} /\ \A u \in Txns : u # t => txn'[u] = txn[u]
      BY <2>1 DEF Start, Stamp, TypeInv
    <2>2. ASSUME NEW t \in Txns, Stage(t) \/ Log(t) \/ Ack(t) \/ LogFails(t) \/ Abort(t)
          PROVE  /\ txn'[t].pc \notin {"new", "active", "stamped"}
                 /\ \A u \in Txns : u # t => txn'[u] = txn[u]
      <3>1. \E p \in {"staged", "logged", "acked", "failed", "aborted"} :
                txn' = [txn EXCEPT ![t].pc = p]
        BY <2>2 DEF Stage, Log, Ack, LogFails, Abort
      <3>2. txn[t].pc # "new"
        BY <2>2 DEF Stage, Log, Ack, LogFails, Abort
      <3>3. QED
        BY <3>1, <3>2, PcStep
    <2>3. ReadRedo \/ ReadBound \/ Collect \/ Cancel \/ FlushApplies \/ CompactionApplies
              \/ FlushCheckpoint \/ WriteManifest \/ Recover \/ OpenForUse \/ UNCHANGED vars
              => UNCHANGED txn
      BY DEF ReadRedo, ReadBound, Collect, Cancel, FlushApplies, CompactionApplies, FlushCheckpoint,
         WriteManifest, Recover, OpenForUse, vars
    <2>4. Crash => \A t \in Txns : txn'[t].pc \in {txn[t].pc, "gone"}
      <3>1. SUFFICES ASSUME Crash, NEW t \in Txns PROVE txn'[t].pc \in {txn[t].pc, "gone"}
        OBVIOUS
      <3>2. txn[t].pc # "new" => txn[t] \in StartedTxn
        BY TxnShape
      <3>3. QED
        BY <3>1, <3>2 DEF Crash, StartedTxn
    <2>5. QED
      BY <2>1, <2>2, <2>3, <2>4 DEF Next
  <1>2. \A i \in 1 .. Len(log') : i <= Len(log) => log'[i] = log[i]
    BY LogStep
  <1>3. ASSUME NEW i \in 1 .. Len(log'), i > Len(log), log'[i].kind # "ckpt"
        PROVE  txn'[log'[i].txn].pc \notin {"new", "active", "stamped"}
    <2>1. ASSUME NEW t \in Txns, Stage(t) PROVE log'[i].txn = t /\ txn'[t].pc = "staged"
      <3>1. [kind |-> "data", txn |-> t] \in Record
        BY DEF Record
      <3>2. AppendRecord([kind |-> "data", txn |-> t])
        BY <2>1 DEF Stage
      <3>3. i = Len(log) + 1 /\ log'[i] = [kind |-> "data", txn |-> t]
        BY <1>0, <1>3, <3>1, <3>2, AppendRecordFacts
      <3>4. PICK p : p = "staged" /\ txn' = [txn EXCEPT ![t].pc = p] /\ txn[t].pc # "new"
        BY <2>1 DEF Stage
      <3>5. txn'[t].pc = p
        BY <3>4, PcStep
      <3>6. log'[i].txn = t
        BY <3>3
      <3>7. QED
        BY <3>4, <3>5, <3>6
    <2>2. ASSUME NEW t \in Txns, Log(t) PROVE log'[i].txn = t /\ txn'[t].pc = "logged"
      <3>1. [kind |-> "commit", txn |-> t, ts |-> txn[t].ts] \in Record
        BY <2>2, TxnShape DEF Log, Record, StartedTxn
      <3>2. AppendRecord([kind |-> "commit", txn |-> t, ts |-> txn[t].ts])
        BY <2>2 DEF Log
      <3>3. i = Len(log) + 1 /\ log'[i] = [kind |-> "commit", txn |-> t, ts |-> txn[t].ts]
        BY <1>0, <1>3, <3>1, <3>2, AppendRecordFacts
      <3>4. PICK p : p = "logged" /\ txn' = [txn EXCEPT ![t].pc = p] /\ txn[t].pc # "new"
        BY <2>2 DEF Log
      <3>5. txn'[t].pc = p
        BY <3>4, PcStep
      <3>6. log'[i].txn = t
        BY <3>3
      <3>7. QED
        BY <3>4, <3>5, <3>6
    <2>3. ASSUME NEW t \in Txns, Abort(t) PROVE log'[i].txn = t /\ txn'[t].pc = "aborted"
      <3>1. [kind |-> "abort", txn |-> t] \in Record
        BY DEF Record
      <3>2. AppendRecord([kind |-> "abort", txn |-> t])
        BY <2>3 DEF Abort
      <3>3. i = Len(log) + 1 /\ log'[i] = [kind |-> "abort", txn |-> t]
        BY <1>0, <1>3, <3>1, <3>2, AppendRecordFacts
      <3>4. PICK p : p = "aborted" /\ txn' = [txn EXCEPT ![t].pc = p] /\ txn[t].pc # "new"
        BY <2>3 DEF Abort
      <3>5. txn'[t].pc = p
        BY <3>4, PcStep
      <3>6. log'[i].txn = t
        BY <3>3
      <3>7. QED
        BY <3>4, <3>5, <3>6
    <2>4. ASSUME FlushApplies \/ CompactionApplies PROVE FALSE
      <3>1. UNCHANGED log \/ \E c \in CkptRecord : AppendCheckpoint(c)
        <4>1. CASE FlushApplies
          <5>1. flush \in [pc : {"table"}, redo : Nat, bound : Nat, table : SUBSET Txns]
            BY <4>1 DEF FlushApplies, FlushJob, Idle, TypeInv
          <5>2. Checkpoint(files \cup flush.table, flush.bound, flush.redo, crashes) \in CkptRecord
            BY <5>1 DEF Checkpoint, CkptRecord, TypeInv
          <5>3. QED
            BY <4>1, <5>2 DEF FlushApplies
        <4>2. CASE CompactionApplies
          <5>1. Checkpoint(files, minXip, redo, xipEra) \in CkptRecord
            BY DEF Checkpoint, CkptRecord, TypeInv
          <5>2. QED
            BY <4>2, <5>1 DEF CompactionApplies
        <4>3. QED
          BY <2>4, <4>1, <4>2
      <3>2. QED
        BY <1>0, <1>3, <3>1, AppendCheckpointType DEF CkptRecord
    <2>5. ASSUME NEW t \in Txns, Start(t) \/ Stamp(t) \/ Ack(t) \/ LogFails(t) PROVE UNCHANGED log
      BY <2>5 DEF Start, Stamp, Ack, LogFails, walVars
    <2>6. ReadRedo \/ ReadBound \/ Collect \/ Cancel \/ FlushCheckpoint \/ WriteManifest
              \/ Recover \/ OpenForUse \/ UNCHANGED vars => UNCHANGED log
      BY DEF ReadRedo, ReadBound, Collect, Cancel, FlushCheckpoint, WriteManifest, Recover,
         OpenForUse, vars, walVars
    <2>7. Crash => Len(log') <= Len(log)
      BY LogStep
    <2>8. QED
      BY <1>0, <1>3, <2>1, <2>2, <2>3, <2>4, <2>5, <2>6, <2>7 DEF Next
  <1>4. QED
    BY <1>0, <1>1, <1>2, <1>3 DEF RecordsFollowStamps

\* ReadBound: whoever is stamped at the bound or above it is so because a
\* transaction in progress, with nothing in the log yet, holds the bound back.
LEMMA ReadBoundIsSafe ==
  ASSUME TypeInv, PosInv, EraInv, RecordsFollowStamps, ReadBound
  PROVE  RedoSafe(flush.redo, flush.bound, crashes)'
  <1>0. /\ Len(log) \in Nat /\ \A i \in 1 .. Len(log) : log[i] \in Record
        /\ flush.redo \in Nat /\ flush.redo <= Len(log)
    BY LenProperties, ElementOfSeq DEF TypeInv, PosInv, ReadBound, FlushJob, Idle
  <1>1. PICK bound \in Xips \cup {counter} :
            /\ flush' = [pc |-> "bound", redo |-> flush.redo, bound |-> bound]
            /\ \/ bound = counter
               \/ bound \in Xips
    BY DEF ReadBound
  <1>2. UNCHANGED <<txn, log, crashes>>
    BY DEF ReadBound, walVars, history
  <1>3. ASSUME NEW t \in Stamped, txn[t].era = crashes, txn[t].ts >= bound
        PROVE  \E u \in Txns \ {t} : /\ txn[u].pc # "new" /\ txn[u].era = crashes
                                     /\ txn[u].start = bound /\ NoneBefore(u, flush.redo)
    <2>1. t \in Txns /\ txn[t].pc \notin {"new", "active"} /\ txn[t].ts < counter
      BY <1>3 DEF Stamped, EraInv
    <2>2. txn[t].ts \in Nat /\ counter \in Nat
      BY <2>1, TxnShape DEF StartedTxn, TypeInv
    <2>3. bound \in Xips
      BY <1>1, <1>3, <2>1, <2>2
    <2>4. PICK u \in Txns : txn[u].pc = "active" /\ txn[u].start = bound
      BY <2>3 DEF Xips
    <2>5. NoneBefore(u, flush.redo)
      BY <1>0, <2>4 DEF NoneBefore, RecordsFollowStamps
    <2>6. txn[u].era = crashes /\ u # t
      BY <2>1, <2>4 DEF EraInv
    <2>7. QED
      BY <2>4, <2>5, <2>6
  <1>4. Stamped' = Stamped /\ \A t \in Txns : NoneBefore(t, flush.redo) => NoneBefore(t, flush.redo)'
    BY <1>1, <1>2 DEF Stamped, NoneBefore
  <1>5. flush'.redo = flush.redo /\ flush'.bound = bound
    BY <1>1
  <1>6. QED
    BY <1>2, <1>3, <1>4, <1>5 DEF RedoSafe, NoneBefore, Stamped

\* Bounds and redo points are handed from the job to the checkpoint and to the
\* version set.
LEMMA RedoNext ==
  ASSUME TypeInv, TypeInv', PosInv, LogInv, VsetInv, EraInv, RedoInv, [Next]_vars
  PROVE  RedoInv'
  <1>0. /\ Len(log) \in Nat /\ durable \in 0 .. Len(log) /\ crashes \in Nat
        /\ redo \in Nat /\ minXip \in Nat /\ xipEra \in Nat
    BY LenProperties DEF TypeInv
  <1>1. RecordsFollowStamps'
    BY RecordsStep DEF RedoInv
  <1>2. \A r, b, e \in Nat : r = redo /\ b = minXip /\ e = xipEra => RedoSafe(r, b, e)'
    BY <1>0, RedoSafeStep DEF RedoInv, PosInv
  <1>a. ASSUME apply # Idle, ~Crash,
               NEW r \in Nat, NEW b \in Nat, NEW e \in Nat,
               r = apply.ckpt.redo, b = apply.ckpt.minXip, e = apply.ckpt.era
        PROVE  RedoSafe(r, b, e)'
    <2>1. apply.pos \in Nat /\ apply.pos < Len(log) /\ r <= apply.pos
      BY <1>a DEF PosInv, TypeInv, Application
    <2>2. r <= Len(log) /\ RedoSafe(r, b, e)
      BY <1>0, <1>a, <2>1 DEF RedoInv
    <2>3. QED
      BY <1>a, <2>2, RedoSafeStep DEF RedoInv
  <1>f. ASSUME flush.pc \in {"bound", "table"}, ~Crash,
               NEW r \in Nat, NEW b \in Nat, r = flush.redo, b = flush.bound
        PROVE  RedoSafe(r, b, crashes)'
    <2>1. r <= Len(log) /\ RedoSafe(r, b, crashes)
      BY <1>f DEF RedoInv, PosInv, Idle
    <2>2. PICK e \in Nat : e = crashes
      BY <1>0
    <2>3. RedoSafe(r, b, e)'
      BY <1>f, <2>1, <2>2, RedoSafeStep DEF RedoInv
    <2>4. crashes' = crashes
      BY <1>f DEF Next, Start, Stamp, Stage, Log, Ack, LogFails, Abort, ReadRedo, ReadBound, Collect,
         Cancel, FlushApplies, CompactionApplies, FlushCheckpoint, WriteManifest, Recover,
         OpenForUse, vars, history
    <2>5. QED
      BY <2>2, <2>3, <2>4 DEF RedoSafe
  <1>p. apply # Idle => apply.ckpt.redo \in Nat /\ apply.ckpt.minXip \in Nat /\ apply.ckpt.era \in Nat
    BY DEF TypeInv, Application, CkptRecord
  <1>g. flush.pc \in {"bound", "table"} => flush.redo \in Nat /\ flush.bound \in Nat
    BY SMTT(20) DEF TypeInv, FlushJob, Idle
  <1>3. RedoSafe(redo, minXip, xipEra)'
    <2>1. CASE VsetCheckpoint' = VsetCheckpoint
      <3>1. redo' = redo /\ minXip' = minXip /\ xipEra' = xipEra
        BY <2>1 DEF VsetCheckpoint, Checkpoint
      <3>2. QED
        BY <1>0, <1>2, <3>1 DEF RedoSafe
    <2>2. CASE apply # Idle /\ VsetCheckpoint' = apply.ckpt /\ ~Crash
      <3>1. redo' = apply.ckpt.redo /\ minXip' = apply.ckpt.minXip /\ xipEra' = apply.ckpt.era
        BY <2>2 DEF VsetCheckpoint, Checkpoint
      <3>2. QED
        BY <1>a, <1>p, <2>2, <3>1 DEF RedoSafe
    <2>3. CASE Recover /\ VsetCheckpoint' = Checkpoint({}, NoXip, 0, 0)
      <3>1. redo' = 0
        BY <2>3 DEF VsetCheckpoint, Checkpoint
      <3>2. QED
        BY <3>1 DEF RedoSafe, NoneBefore
    <2>4. Crash => VsetCheckpoint' = VsetCheckpoint
      BY DEF Crash, vsetVars, VsetCheckpoint, Checkpoint
    <2>5. QED
      BY <2>1, <2>2, <2>3, <2>4, VsetCheckpointStep
  <1>4. ASSUME flush'.pc \in {"bound", "table"}
        PROVE  RedoSafe(flush.redo, flush.bound, crashes)'
    <2>1. CASE ReadBound
      BY <2>1, ReadBoundIsSafe DEF RedoInv
    <2>2. CASE ~ReadBound
      <3>1. /\ flush.pc \in {"bound", "table"} /\ ~Crash
            /\ flush'.redo = flush.redo /\ flush'.bound = flush.bound
        <4>1. ASSUME NEW t \in Txns,
                     Start(t) \/ Stamp(t) \/ Stage(t) \/ Log(t) \/ Ack(t) \/ LogFails(t) \/ Abort(t)
              PROVE  UNCHANGED <<flush, crashes>>
          BY <4>1, TxnStepLog
        <4>2. ReadRedo \/ FlushApplies \/ Cancel \/ Crash => flush'.pc \notin {"bound", "table"}
          BY DEF ReadRedo, FlushApplies, Cancel, Crash, Idle
        <4>3. Collect => /\ flush.pc = "bound" /\ flush'.redo = flush.redo
                         /\ flush'.bound = flush.bound
          BY DEF Collect
        <4>4. CompactionApplies \/ FlushCheckpoint \/ WriteManifest \/ Recover \/ OpenForUse
                  \/ UNCHANGED vars => UNCHANGED flush
          BY DEF CompactionApplies, FlushCheckpoint, WriteManifest, Recover, OpenForUse, vars
        <4>5. ~Crash
          BY <1>4, <4>2
        <4>6. QED
          BY <1>4, <2>2, <4>1, <4>2, <4>3, <4>4, <4>5 DEF Next
      <3>2. QED
        BY <1>f, <1>g, <3>1 DEF RedoSafe
    <2>3. QED
      BY <2>1, <2>2
  <1>5. ASSUME apply' # Idle
        PROVE  RedoSafe(apply.ckpt.redo, apply.ckpt.minXip, apply.ckpt.era)'
    <2>c. ~Crash
      BY <1>5 DEF Crash
    <2>1. CASE apply # Idle /\ apply'.ckpt = apply.ckpt
      BY <1>a, <1>p, <2>1, <2>c DEF RedoSafe
    <2>2. CASE FlushApplies /\ flush.bound >= minXip
      <3>1. /\ apply'.ckpt.redo = flush.redo /\ apply'.ckpt.minXip = flush.bound
            /\ apply'.ckpt.era = crashes /\ flush.pc = "table" /\ crashes' = crashes
        BY <2>2 DEF FlushApplies, AppendCheckpoint, Checkpoint, history
      <3>2. QED
        BY <1>f, <1>g, <2>c, <3>1 DEF RedoSafe
    <2>3. CASE CompactionApplies
      <3>1. apply'.ckpt.redo = redo /\ apply'.ckpt.minXip = minXip /\ apply'.ckpt.era = xipEra
        BY <2>3 DEF CompactionApplies, AppendCheckpoint, Checkpoint
      <3>2. QED
        BY <1>0, <1>2, <3>1 DEF RedoSafe
    <2>4. QED
      BY <1>5, <2>1, <2>2, <2>3, ApplyStep
  <1>6. QED
    BY <1>1, <1>3, <1>4, <1>5 DEF RedoInv

-----------------------------------------------------------------------------
(* The theorems. *)

\* The inductive invariant.
RecoveryIndInv == TypeInv /\ PosInv /\ LogInv /\ VsetInv /\ EraInv /\ SnapInv /\ RedoInv

\* Every reachable state satisfies all layers of the invariant, whatever the
\* order of commits, flushes, compactions, crashes and starts.
THEOREM RecoveryInvariance == Spec => []RecoveryIndInv
  <1>1. Init => RecoveryIndInv
    BY TypeInit, PosInit, LogInit, VsetInit, EraInit, SnapInit, RedoInit DEF RecoveryIndInv
  <1>2. RecoveryIndInv /\ [Next]_vars => RecoveryIndInv'
    <2>1. SUFFICES ASSUME RecoveryIndInv, [Next]_vars PROVE RecoveryIndInv'
      OBVIOUS
    <2>2. TypeInv'
      BY <2>1, TypeNext DEF RecoveryIndInv
    <2>3. PosInv' /\ LogInv' /\ VsetInv' /\ EraInv' /\ SnapInv' /\ RedoInv'
      BY <2>1, <2>2, PosNext, LogNext, VsetNext, EraNext, SnapNext, RedoNext DEF RecoveryIndInv
    <2>4. QED
      BY <2>2, <2>3 DEF RecoveryIndInv
  <1>3. QED
    BY <1>1, <1>2, PTL DEF Spec

\* The shape of the state, and redo points within the log.
THEOREM RecoveryTypes == Spec => []RecoveryTypeOK
  <1>1. RecoveryIndInv => RecoveryTypeOK
    <2>1. SUFFICES ASSUME RecoveryIndInv PROVE RecoveryTypeOK
      OBVIOUS
    <2>2. Len(log) \in Nat /\ DOMAIN log = 1 .. Len(log) /\ \A i \in DOMAIN log : log[i] \in Record
      BY <2>1, LenProperties, ElementOfSeq DEF RecoveryIndInv, TypeInv
    <2>3. QED
      BY <2>1, <2>2 DEF RecoveryIndInv, TypeInv, PosInv, RecoveryTypeOK, Record, CkptRecord
  <1>2. QED
    BY <1>1, RecoveryInvariance, PTL

\* A start never answers DataCorrupted: the manifest points to a checkpoint
\* that is on disk, and its redo point is not past the end of the log.
THEOREM StartupIsAccepted == Spec => []StartupAccepts
  <1>1. RecoveryIndInv => StartupAccepts
    BY DEF RecoveryIndInv, TypeInv, PosInv, StartupAccepts, HasCheckpoint, Readable, RedoInLog
  <1>2. QED
    BY <1>1, RecoveryInvariance, PTL

\* The last checkpoint is the version set, or empty if its position is 0.
LEMMA LastCheckpointIsVset ==
  ASSUME RecoveryIndInv
  PROVE  /\ LastCheckpoint \in CkptRecord
         /\ HasCheckpoint => SnapshotOf(LastCheckpoint)
         /\ HasCheckpoint => RedoSafe(LastCheckpoint.redo, LastCheckpoint.minXip, LastCheckpoint.era)
         /\ ~HasCheckpoint => LastCheckpoint = Checkpoint({}, NoXip, 0, 0)
  <1>1. LastCheckpoint \in CkptRecord
    BY LastCheckpointType DEF RecoveryIndInv
  <1>2. ASSUME HasCheckpoint
        PROVE  SnapshotOf(LastCheckpoint)
               /\ RedoSafe(LastCheckpoint.redo, LastCheckpoint.minXip, LastCheckpoint.era)
    <2>1. /\ LastCheckpoint.files = files /\ LastCheckpoint.minXip = minXip
          /\ LastCheckpoint.redo = redo /\ LastCheckpoint.era = xipEra
      BY <1>2 DEF RecoveryIndInv, TypeInv, VsetInv, HasCheckpoint
    <2>2. SnapshotOf(VsetCheckpoint) /\ RedoSafe(redo, minXip, xipEra)
      BY DEF RecoveryIndInv, SnapInv, RedoInv
    <2>3. SnapshotOf(LastCheckpoint)
      BY <2>1, <2>2, VsetCheckpointType DEF SnapshotOf, RecoveryIndInv
    <2>4. QED
      BY <2>1, <2>2, <2>3
  <1>3. QED
    BY <1>1, <1>2 DEF LastCheckpoint

\* The tables of the last checkpoint are what was committed below its bound
\* but for what cancelled flushes have marked, also after a crash and whatever
\* became of the commits in the log.
THEOREM CheckpointIsSnapshot == Spec => []RecoveredIsSnapshot
  <1>1. RecoveryIndInv => RecoveredIsSnapshot
    <2>1. SUFFICES ASSUME RecoveryIndInv, NEW t \in Stamped, txn[t].era = LastCheckpoint.era
                   PROVE  t \in LastCheckpoint.files <=>
                              txn[t].ts < LastCheckpoint.minXip /\ t \notin abandoned
      BY DEF RecoveredIsSnapshot
    <2>2. CASE HasCheckpoint
      BY <2>1, <2>2, LastCheckpointIsVset DEF SnapshotOf
    <2>3. CASE ~HasCheckpoint
      <3>1. LastCheckpoint.files = {} /\ LastCheckpoint.minXip = 0
        BY <2>1, <2>3, LastCheckpointIsVset DEF Checkpoint, NoXip
      <3>2. txn[t].ts \in Nat
        BY <2>1, TxnShape DEF RecoveryIndInv, Stamped, StartedTxn
      <3>3. QED
        BY <3>1, <3>2
    <2>4. QED
      BY <2>2, <2>3
  <1>2. QED
    BY <1>1, RecoveryInvariance, PTL

\* What commit has acknowledged is whole in the log on disk.  Of the time of the
\* checkpoint and unmarked by cancelled flushes, it is in its tables and not
\* above its bound, or not in them and then behind the redo point as well,
\* unless an older transaction, whose start is the bound, has held it back.
THEOREM AckedSurvives == Spec => []AckedIsRestorable
  <1>1. RecoveryIndInv => AckedIsRestorable
    <2> DEFINE c == LastCheckpoint
    <2>1. SUFFICES ASSUME RecoveryIndInv, NEW t \in Txns, txn[t].pc = "acked"
          PROVE  /\ Replayed(t, 0)
                 /\ (HasCheckpoint => txn[t].era = c.era) /\ t \notin abandoned =>
                       \/ t \in c.files /\ txn[t].ts < c.minXip
                       \/ /\ t \notin c.files /\ txn[t].ts >= c.minXip
                          /\ Replayed(t, c.redo) \/ HeldBack(t, c)
      BY DEF AckedIsRestorable
    <2> HIDE DEF c
    <2>2. Len(log) \in Nat /\ durable \in 0 .. Len(log)
      BY <2>1, LenProperties DEF RecoveryIndInv, TypeInv
    <2>3. PICK j \in 1 .. durable : log[j].kind = "commit" /\ log[j].txn = t
      BY <2>1 DEF RecoveryIndInv, LogInv, StageIsLogged, Logged
    <2>4. PICK i \in 1 .. j - 1 : log[i].kind = "data" /\ log[i].txn = t
      BY <2>1, <2>2, <2>3 DEF RecoveryIndInv, LogInv, CommitsFollowData, Logged
    <2>5. ASSUME NEW r \in Nat, NoneBefore(t, r) PROVE Replayed(t, r)
      <3>1. i > r /\ j > r
        BY <2>2, <2>3, <2>4, <2>5 DEF NoneBefore
      <3>2. i \in r + 1 .. durable /\ j \in r + 1 .. durable /\ i < j
        BY <2>2, <2>3, <2>4, <3>1
      <3>3. QED
        BY <2>3, <2>4, <3>2 DEF Replayed
    <2>6. Replayed(t, 0)
      BY <2>5 DEF NoneBefore
    <2>7. /\ txn[t].ts \in Nat /\ c \in CkptRecord /\ t \in Stamped
          /\ c.minXip \in Nat /\ c.redo \in Nat
      BY <2>1, TxnShape, LastCheckpointIsVset DEF RecoveryIndInv, StartedTxn, CkptRecord, c, Stamped
    <2>8. CASE HasCheckpoint /\ txn[t].era = c.era /\ t \notin abandoned
      <3>1. t \in c.files <=> txn[t].ts < c.minXip
        BY <2>1, <2>7, <2>8, LastCheckpointIsVset DEF SnapshotOf, c
      <3>2. ASSUME txn[t].ts >= c.minXip PROVE Replayed(t, c.redo) \/ HeldBack(t, c)
        <4>1. RedoSafe(c.redo, c.minXip, c.era)
          BY <2>1, <2>8, LastCheckpointIsVset DEF c
        <4>2. CASE NoneBefore(t, c.redo)
          BY <2>5, <2>7, <4>2
        <4>3. CASE ~NoneBefore(t, c.redo)
          BY <2>7, <2>8, <3>2, <4>1, <4>3 DEF RedoSafe, HeldBack, NoneBefore
        <4>4. QED
          BY <4>2, <4>3
      <3>3. QED
        BY <2>6, <2>7, <3>1, <3>2
    <2>9. CASE ~HasCheckpoint
      <3>1. c.files = {} /\ c.minXip = 0 /\ c.redo = 0
        BY <2>1, <2>9, LastCheckpointIsVset DEF Checkpoint, NoXip, c
      <3>2. QED
        BY <2>6, <2>7, <3>1
    <2>10. QED
      BY <2>6, <2>8, <2>9
  <1>2. QED
    BY <1>1, RecoveryInvariance, PTL

\* From one checkpoint to the next, over crashes too, no table is forgotten
\* and the bound does not move back.
THEOREM CheckpointsGrow == Spec => CheckpointsOnlyGrow
  <1>1. RecoveryIndInv /\ [Next]_vars =>
            [/\ LastCheckpoint.files \subseteq LastCheckpoint'.files
             /\ LastCheckpoint.minXip <= LastCheckpoint'.minXip]_vars
    <2>1. SUFFICES ASSUME RecoveryIndInv, [Next]_vars
                   PROVE  /\ LastCheckpoint.files \subseteq LastCheckpoint'.files
                          /\ LastCheckpoint.minXip <= LastCheckpoint'.minXip
      OBVIOUS
    <2>2. LastCheckpoint.minXip \in Nat
      BY <2>1, LastCheckpointType DEF RecoveryIndInv, CkptRecord
    <2>3. CASE WriteManifest
      <3>1. /\ apply # Idle /\ apply.pos \in Nat /\ manifest.pos <= apply.pos /\ manifest.pos \in Nat
            /\ LastCheckpoint' = IF apply.pos > 0 THEN apply.ckpt ELSE LastCheckpoint
        BY <2>1, <2>3, LastCheckpointStep DEF RecoveryIndInv, PosInv, TypeInv, Application
      <3>2. apply.ckpt \in CkptRecord
        BY <2>1, <3>1 DEF RecoveryIndInv, TypeInv, Application
      <3>3. LastCheckpoint.files \subseteq apply.ckpt.files /\ LastCheckpoint.minXip <= apply.ckpt.minXip
        <4>1. CASE manifest.pos > 0
          BY <2>1, <3>1, <4>1 DEF RecoveryIndInv, VsetInv
        <4>2. CASE ~(manifest.pos > 0)
          BY <2>1, <3>1, <3>2, <4>2, LastCheckpointIsVset
             DEF HasCheckpoint, Checkpoint, NoXip, CkptRecord
        <4>3. QED
          BY <4>1, <4>2
      <3>4. QED
        BY <2>2, <3>1, <3>3
    <2>4. CASE ~WriteManifest
      BY <2>1, <2>2, <2>4, LastCheckpointStep DEF RecoveryIndInv
    <2>5. QED
      BY <2>3, <2>4
  <1>2. QED
    BY <1>1, RecoveryInvariance, PTL DEF Spec, CheckpointsOnlyGrow
=============================================================================
