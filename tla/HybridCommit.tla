---------------------------- MODULE HybridCommit ----------------------------
(***************************************************************************)
(* The build with feature hybrid_ts: beside normal transactions there are  *)
(* FastCommit ones, whose versions keep the start timestamp they are made  *)
(* with.  Whoever meets such a version asks a snapshot of xips, recorded   *)
(* at the first such question, and the status in a transaction table.      *)
(*   transaction/transaction_manager.rs  record_snapshot, get_snapshot,    *)
(*                                       commit, abort                     *)
(*   transaction/transaction_table.rs    TransactionTable                  *)
(*   transaction.rs                      Snapshot                          *)
(*   memtable/hash_memtable.rs           check_version_visibility,         *)
(*                                       check_ww_conflict                 *)
(* What both builds share is that of HashMemTable.                         *)
(***************************************************************************)
EXTENDS HashMemTable

CONSTANTS
  NoSnapshot,   \* Transaction.current_snapshot is None
  Ops           \* the calls that the user of each transaction makes

ASSUME OpsAssumption == Ops \in [Txn -> SUBSET {"get", "put", "update", "delete"}]

VARIABLES
  fast,       \* the transactions started in mode FastCommit
  status,     \* txn_table; what it does not hold is InProgress
  snapshot,   \* Transaction.current_snapshot: [min, max, xips]
  before      \* history: what had been committed when a transaction started

hybridVars == <<fast, status, snapshot, before>>
allVars == <<vars, hybridVars>>

HybridInit ==
  /\ Init
  /\ fast = {}
  /\ status = [t \in Txn |-> "InProgress"]
  /\ snapshot = [t \in Txn |-> NoSnapshot]
  /\ before = [t \in Txn |-> {}]

SetStatus(t, s) == status' = IF t \in fast THEN [status EXCEPT ![t] = s] ELSE status

\* commit has returned, or, for a normal transaction, passed its last lock.
Returned(t) == IF t \in fast THEN status[t] = "Committed" ELSE Committed(t)

StartHybrid(t) ==
  /\ StartTxn(t)
  /\ \E fastCommit \in BOOLEAN : fast' = IF fastCommit THEN fast \union {t} ELSE fast
  /\ before' = [before EXCEPT ![t] = {u \in Txn : Returned(u)}]
  /\ UNCHANGED <<status, snapshot>>

-----------------------------------------------------------------------------
(* Snapshots.                                                              *)

\* Variant: latest_completed_xid itself counts as unassigned.
RecordedShort(t) ==
  LET below == {x \in xips : x < completed} IN
  [min |-> MinOfSet(below \union {completed}), max |-> completed, xips |-> below \ {start[t]}]

\* record_snapshot: first active, first unassigned, and active transactions.
Recorded(t) ==
  LET max == completed + 1
      below == {x \in xips : x < max} IN
  [min |-> MinOfSet(below \union {max}), max |-> max, xips |-> below \ {start[t]}]

\* Variant: nothing is unassigned.
InProgressBelowMax(s, xid) == xid >= s.min /\ xid \in s.xips

\* Snapshot::is_xid_in_progress
InProgressIn(s, xid) == xid >= s.min /\ (xid >= s.max \/ xid \in s.xips)

\* The version that the check or the walk of t has come to.
Version(t) ==
  IF call[t].pc = "check" THEN call[t].head ELSE call[t].rest

AsksSnapshot(t) == Version(t) # << >> /\ Owner(Head(Version(t))) \in fast

\* get_snapshot, at its first call, under the read lock of snapshot_data.
TakeSnapshot(t) ==
  /\ At(t, "check") \/ At(t, "walk")
  /\ AsksSnapshot(t) /\ snapshot[t] = NoSnapshot
  /\ Unlocked
  /\ snapshot' = [snapshot EXCEPT ![t] = Recorded(t)]
  /\ UNCHANGED <<vars, fast, status, before>>

HasSnapshot(t) == AsksSnapshot(t) => snapshot[t] # NoSnapshot

\* Variant: out of the snapshot's sight is committed.
VisibleAnyStatus(t, n) ==
  IF Owner(n) \in fast
  THEN Owner(n) = t \/ ~ InProgressIn(snapshot[t], start[Owner(n)])
  ELSE Visible(t, n)

\* get_value with check_version_visibility: the snapshot, then the status.
HybridVisible(t, n) ==
  IF Owner(n) \in fast
  THEN Owner(n) = t \/ ( /\ ~ InProgressIn(snapshot[t], start[Owner(n)])
                         /\ status[Owner(n)] = "Committed" )
  ELSE Visible(t, n)

\* check_ww_conflict; it does not ask for the status.
HybridConflict(t, n) ==
  IF Owner(n) \in fast
  THEN Owner(n) # t /\ InProgressIn(snapshot[t], start[Owner(n)])
  ELSE WWConflict(t, n)

-----------------------------------------------------------------------------
(* The table operations, as in HashMemTable but for the two tests.         *)

HybridCheck(t) ==
  /\ At(t, "check") /\ HasSnapshot(t)
  /\ LET op == call[t].op
         head == call[t].head
         conflict == head # << >> /\ HybridConflict(t, Head(head)) IN
     \/ conflict /\ Return(t, Conflict)
     \/ ~ conflict /\ op # "put" /\ ~ IsPresent(head) /\ Return(t, Absent)
     \/ /\ ~ conflict /\ (op = "put" \/ IsPresent(head))
        /\ GoTo(t, IF op = "update" THEN "read" ELSE "cas")
        /\ UNCHANGED reply
  /\ UNCHANGED <<tmVars, chain, stamped, redo, hybridVars>>

HybridWalk(t) ==
  /\ At(t, "walk") /\ HasSnapshot(t)
  /\ LET rest == call[t].rest
         found == rest # << >> /\ HybridVisible(t, Head(rest))
         value == IF found THEN ValueOf(Head(rest)) ELSE Absent IN
     \/ /\ rest # << >> /\ ~ found
        /\ call' = [call EXCEPT ![t].rest = Tail(rest)]
        /\ UNCHANGED reply
     \/ /\ rest = << >> \/ found
        /\ call[t].op = "get" \/ value = Absent
        /\ Return(t, value)
     \/ /\ value # Absent /\ call[t].op = "update"
        /\ call' = [call EXCEPT ![t].value = value, ![t].rest = << >>, ![t].pc = "cas"]
        /\ UNCHANGED reply
  /\ UNCHANGED <<tmVars, chain, stamped, redo, hybridVars>>

-----------------------------------------------------------------------------
(* commit and abort.  A FastCommit transaction has no redo_nodes to stamp  *)
(* or to roll back; its status is set last, unless the log has failed.     *)

StampHybrid(t) == t \notin fast /\ Stamp(t) /\ UNCHANGED hybridVars

FinishCommitHybrid(t) ==
  /\ t \in fast \/ AllStamped(t)
  /\ FinishCommit(t, redo[t] = << >> /\ t \notin fast)
  /\ UNCHANGED <<hmtVars, hybridVars>>

LogCommitHybrid(t) ==
  /\ LogCommitTxn(t)
  /\ \/ SetStatus(t, "Committed")
     \/ redo[t] # << >> /\ UNCHANGED status
  /\ UNCHANGED <<fast, snapshot, before>>

BeginAbortHybrid(t) ==
  /\ Idle(t)
  /\ BeginAbort(t)
  /\ call' = [call EXCEPT ![t] = [op |-> "rollback", pc |-> "load", head |-> << >>,
                                  next |-> IF t \in fast THEN Len(redo[t]) + 1 ELSE 1]]
  /\ UNCHANGED <<chain, stamped, redo, reply, hybridVars>>

FinishAbortHybrid(t) ==
  /\ FinishAbortTxn(t)
  /\ SetStatus(t, "Aborted") \/ UNCHANGED status
  /\ UNCHANGED <<fast, snapshot, before>>

\* The steps in which the builds do not differ.
Shared(t) ==
  /\ \/ \E op \in Ops[t], k \in Key : Call(t, op, k)
     \/ Reload(t) \/ ReadForUpdate(t) \/ Cas(t)
     \/ BeginCommitTxn(t) \/ RollbackLoad(t) \/ RollbackStep(t)
  /\ UNCHANGED hybridVars

HybridNext ==
  \E t \in Txn :
    \/ StartHybrid(t) \/ TakeSnapshot(t) \/ HybridCheck(t) \/ HybridWalk(t) \/ Shared(t)
    \/ StampHybrid(t) \/ FinishCommitHybrid(t) \/ LogCommitHybrid(t)
    \/ BeginAbortHybrid(t) \/ FinishAbortHybrid(t)

HybridSpec == HybridInit /\ [][HybridNext]_allVars

-----------------------------------------------------------------------------
(* Properties                                                              *)

\* A transaction cannot read what others have not committed: also not what a
\* FastCommit transaction has left in the table when it aborted, and not
\* between its departure from xips and the end of commit
\* (can_insert_fast_commit; check_version_visibility).
NoDirtyRead ==
  \A t \in Txn : reply[t].op \in {"get", "update"} /\ reply[t].result \in Node =>
    LET u == Owner(reply[t].result) IN u = t \/ Returned(u)

\* A version is not put over one whose transaction is in progress
\* (can_detect_write_write_conflict_fast_commit), or was in progress in the
\* snapshot of the writer; a normal version right below it was committed
\* before the writer started.
WritersTakeTurns ==
  \A k \in Key : \A i, j \in DOMAIN chain[k] :
    LET t == Owner(chain[k][i])
        u == Owner(chain[k][j]) IN
    i < j /\ t # u =>
      /\ ~ InProgress(u)
      /\ u \in fast /\ snapshot[t] # NoSnapshot => ~ InProgressIn(snapshot[t], start[u])
      /\ u \notin fast /\ j = i + 1 => Committed(u) /\ commit[u] < start[t]

\* A get finds the newest of the versions that had been committed when its
\* transaction started, or one above it: from latest_completed_xid on nothing
\* is taken for unassigned too early, and commit sets the status before it
\* returns (record_snapshot, commit).
CommittedIsFound ==
  \A t \in Txn : InProgress(t) /\ reply[t].op = "get" =>
    LET versions == chain[reply[t].key]
        result == reply[t].result
        Stands(n) == \/ result = n
                     \/ /\ result = Absent /\ RedoOf(n).record = "Delete"
                        /\ Owner(n) = t \/ Committed(Owner(n)) IN
    \A i \in DOMAIN versions :
      Owner(versions[i]) \in before[t] => \E j \in 1 .. i : Stands(versions[j])
=============================================================================
