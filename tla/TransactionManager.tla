------------------------- MODULE TransactionManager -------------------------
(***************************************************************************)
(* The transaction manager of kagi (transaction/transaction_manager.rs):   *)
(* the timestamp counter, the set xips of transactions in progress behind  *)
(* the RwLock snapshot_data, and the published lower bound cached_min_xip. *)
(*                                                                         *)
(* Every transaction is owned by one thread, so its operations are         *)
(* sequential; the transactions run concurrently with each other and with  *)
(* the flush jobs that call min_xip.  A critical section that only touches *)
(* the protected fields is one action.  The write section of commit also   *)
(* stamps version nodes that readers load without the lock, so it is       *)
(* modelled by its two ends, BeginCommit and FinishCommit, with the lock   *)
(* held in between.                                                        *)
(*                                                                         *)
(* Timestamps are natural numbers here, 0 being the invalid timestamp; the *)
(* 64-bit encoding and its wrap-around are left to a module of their own.  *)
(***************************************************************************)
EXTENDS Naturals

CONSTANTS
  Txn,      \* transactions, each one value of type Transaction
  NoTxn,    \* "snapshot_data is not locked for writing"
  MaxTs     \* bound: the timestamp counter stays below it

ASSUME TxnAssumption == NoTxn \notin Txn
ASSUME MaxTsAssumption == MaxTs \in Nat \ {0}

VARIABLES
  counter,      \* timestamp_counter
  xips,         \* snapshot_data.xips: start timestamps in progress
  completed,    \* snapshot_data.latest_completed_xid
  writer,       \* the transaction that holds snapshot_data.write()
  cachedMin,    \* cached_min_xip
  stage,        \* how far start / commit / abort of each transaction has come
  start,        \* Transaction.start_timestamp, 0 before it starts
  commit        \* the commit timestamp commit() drew, 0 before

tmVars == <<counter, xips, completed, writer, cachedMin, stage, start, commit>>

InvalidTs == 0
Timestamp == 0 .. MaxTs

Stage == {"idle",       \* start_transaction not called yet
          "active",     \* handed to the user
          "stamping",   \* in commit, write lock held
          "logging",    \* in commit, versions stamped, lock released
          "committed",  \* commit returned
          "undoing",    \* in abort, removed from xips, rolling versions back
          "aborted"}    \* abort returned

\* commit has passed its critical section: the versions are stamped for good
Committed(t) == stage[t] \in {"logging", "committed"}
\* between start_transaction and the removal from xips
InProgress(t) == stage[t] \in {"active", "stamping"}
Started(t) == stage[t] # "idle"

Unlocked == writer = NoTxn

TMInit ==
  /\ counter = 1
  /\ xips = {}
  /\ completed = InvalidTs
  /\ writer = NoTxn
  /\ cachedMin = InvalidTs
  /\ stage = [t \in Txn |-> "idle"]
  /\ start = [t \in Txn |-> InvalidTs]
  /\ commit = [t \in Txn |-> InvalidTs]

\* Variant: the timestamp is drawn before the write lock is taken.
StartUnlocked(t) ==
  /\ stage[t] = "idle"
  /\ counter < MaxTs
  /\ start' = [start EXCEPT ![t] = counter]
  /\ xips' = xips \union {counter}
  /\ counter' = counter + 1
  /\ stage' = [stage EXCEPT ![t] = "active"]
  /\ UNCHANGED <<completed, writer, cachedMin, commit>>

(***************************************************************************)
(* start_transaction draws the start timestamp and enters xips under the   *)
(* write lock.                                                             *)
(***************************************************************************)
Start(t) ==
  /\ stage[t] = "idle"
  /\ Unlocked
  /\ counter < MaxTs
  /\ start' = [start EXCEPT ![t] = counter]
  /\ xips' = xips \union {counter}
  /\ counter' = counter + 1
  /\ stage' = [stage EXCEPT ![t] = "active"]
  /\ UNCHANGED <<completed, writer, cachedMin, commit>>

(***************************************************************************)
(* commit takes the write lock and draws the commit timestamp ...          *)
(***************************************************************************)
BeginCommit(t) ==
  /\ stage[t] = "active"
  /\ Unlocked
  /\ counter < MaxTs
  /\ writer' = t
  /\ commit' = [commit EXCEPT ![t] = counter]
  /\ counter' = counter + 1
  /\ stage' = [stage EXCEPT ![t] = "stamping"]
  /\ UNCHANGED <<xips, completed, cachedMin, start>>

\* xips.remove(start_ts) and the update of latest_completed_xid
LeaveXips(t) ==
  /\ xips' = xips \ {start[t]}
  /\ completed' = IF completed < start[t] THEN start[t] ELSE completed

(***************************************************************************)
(* ... and, the redo nodes stamped, leaves xips and releases the lock.     *)
(* A read-only transaction writes no log and is done.                      *)
(***************************************************************************)
FinishCommit(t, readonly) ==
  /\ stage[t] = "stamping"
  /\ LeaveXips(t)
  /\ writer' = NoTxn
  /\ stage' = [stage EXCEPT ![t] = IF readonly THEN "committed" ELSE "logging"]
  /\ UNCHANGED <<counter, cachedMin, start, commit>>

(***************************************************************************)
(* The staged records, the commit record and the flush of the log; each    *)
(* may fail, and commit then returns the error with the versions stamped:  *)
(* Ok or Err, nothing else differs.  The same holds of the log of abort.   *)
(***************************************************************************)
LogCommit(t) ==
  /\ stage[t] = "logging"
  /\ stage' = [stage EXCEPT ![t] = "committed"]
  /\ UNCHANGED <<counter, xips, completed, writer, cachedMin, start, commit>>

(***************************************************************************)
(* abort leaves xips first, then rolls the versions back, then logs.       *)
(***************************************************************************)
BeginAbort(t) ==
  /\ stage[t] = "active"
  /\ Unlocked
  /\ LeaveXips(t)
  /\ stage' = [stage EXCEPT ![t] = "undoing"]
  /\ UNCHANGED <<counter, writer, cachedMin, start, commit>>

FinishAbort(t) ==
  /\ stage[t] = "undoing"
  /\ stage' = [stage EXCEPT ![t] = "aborted"]
  /\ UNCHANGED <<counter, xips, completed, writer, cachedMin, start, commit>>

(***************************************************************************)
(* min_xip, called by flush jobs: the read lock is held until the least    *)
(* start timestamp in progress is stored in cached_min_xip.                *)
(***************************************************************************)
\* Variants: any element of xips, or the last one.
AnyXip(m) == m \in xips
IsMaxXip(m) == m \in xips /\ \A x \in xips : x <= m

IsMinXip(m) == m \in xips /\ \A x \in xips : m <= x

\* Variant: the next timestamp is published, and without the lock.
MinXipFromCounter ==
  /\ xips # {}
  /\ cachedMin' = counter
  /\ UNCHANGED <<counter, xips, completed, writer, stage, start, commit>>

MinXip ==
  /\ Unlocked
  /\ \E m \in xips : IsMinXip(m) /\ cachedMin' = m
  /\ UNCHANGED <<counter, xips, completed, writer, stage, start, commit>>

TMTxnStep(t) ==
  \/ Start(t)
  \/ BeginCommit(t)
  \/ \E readonly \in BOOLEAN : FinishCommit(t, readonly)
  \/ LogCommit(t)
  \/ BeginAbort(t)
  \/ FinishAbort(t)

TMNext == MinXip \/ \E t \in Txn : TMTxnStep(t)

TMSpec == TMInit /\ [][TMNext]_tmVars

-----------------------------------------------------------------------------
(* Properties                                                              *)

\* Type invariant of the manager's fields and of each transaction's stage.
TMTypeOK ==
  /\ counter \in 1 .. MaxTs
  /\ xips \subseteq Timestamp
  /\ completed \in Timestamp
  /\ writer \in Txn \union {NoTxn}
  /\ cachedMin \in Timestamp
  /\ stage \in [Txn -> Stage]
  /\ start \in [Txn -> Timestamp]
  /\ commit \in [Txn -> Timestamp]

\* The bound flush jobs work with is safe at any later time: no transaction in
\* progress, whenever it started, has a start timestamp below cached_min_xip,
\* although min_xip drops the lock before the bound is used.
MinXipIsLowerBound ==
  \A t \in Txn : InProgress(t) => cachedMin <= start[t]

\* What a flush may collect is settled: every commit timestamp below the
\* published bound was stamped on all its versions by a commit that has left
\* its critical section.
CollectableIsSettled ==
  \A t \in Txn : commit[t] # InvalidTs /\ commit[t] < cachedMin => Committed(t)

\* The comment of start_transaction: "make sure that no txn with a commit
\* timestamp lower than this start timestamp is committing".
NoLowerCommitInFlight ==
  \A t, u \in Txn :
    stage[t] = "stamping" /\ Started(u) => start[u] < commit[t]

\* xips holds exactly the transactions in progress, one timestamp each, so
\* its minimum, its emptiness and a removal mean what min_xip, abort and
\* commit take them to mean.
XipsExact ==
  /\ xips = {start[t] : t \in {u \in Txn : InProgress(u)}}
  /\ \A t, u \in Txn : Started(t) /\ start[t] = start[u] => t = u

\* A commit never writes below the bound a flush already works with: a commit
\* timestamp is drawn above the bound published before, and the bound only
\* moves up.
BoundNeverOvertaken ==
  [][/\ cachedMin' >= cachedMin
     /\ \A t \in Txn : commit'[t] # commit[t] => cachedMin < commit'[t]]_tmVars
=============================================================================
