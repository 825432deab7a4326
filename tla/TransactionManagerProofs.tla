---------------------- MODULE TransactionManagerProofs ----------------------
(***************************************************************************)
(* Proofs about TransactionManager, for any set of transactions and any    *)
(* bound on the timestamps.  The properties are not inductive one by one:  *)
(* that a bound stays below every transaction in progress needs that       *)
(* start timestamps are drawn from the counter, that xips is exact and     *)
(* that only the holder of the write lock is stamping.  TMIndInv collects  *)
(* these facts.                                                            *)
(***************************************************************************)
EXTENDS TransactionManager, TLAPS

\* Timestamps in use are below the counter.
DrawnFromCounter ==
  /\ cachedMin < counter
  /\ \A t \in Txn : start[t] < counter /\ commit[t] < counter
  /\ \A t \in Txn : Started(t) => start[t] # InvalidTs

\* A transaction that draws a commit timestamp is stamping, then committed.
CommitDrawnInCommit ==
  \A t \in Txn : commit[t] # InvalidTs <=> stage[t] = "stamping" \/ Committed(t)

\* The write lock is held across steps by the one transaction that stamps.
WriterIsStamping ==
  \A t \in Txn : stage[t] = "stamping" <=> writer = t

TMIndInv ==
  /\ TMTypeOK
  /\ DrawnFromCounter
  /\ CommitDrawnInCommit
  /\ WriterIsStamping
  /\ XipsExact
  /\ MinXipIsLowerBound
  /\ NoLowerCommitInFlight

LEMMA TMInitInv == TMInit => TMIndInv
  <1> SUFFICES ASSUME TMInit PROVE TMIndInv
    OBVIOUS
  <1> USE TxnAssumption, MaxTsAssumption DEF TMInit
  <1>1. \A t \in Txn : stage[t] = "idle" /\ start[t] = 0 /\ commit[t] = 0
    BY DEF InvalidTs
  <1>2. TMTypeOK
    BY DEF TMTypeOK, Timestamp, Stage, InvalidTs
  <1>3. QED
    BY <1>1, <1>2 DEF TMIndInv, DrawnFromCounter, CommitDrawnInCommit, WriterIsStamping,
       XipsExact, MinXipIsLowerBound, NoLowerCommitInFlight,
       Started, Committed, InProgress, InvalidTs

\* The actions, each from any state that satisfies the invariant.
LEMMA StartInv ==
  ASSUME TMIndInv, NEW t \in Txn, Start(t)
  PROVE  TMIndInv'
  <1> USE TxnAssumption, MaxTsAssumption DEF TMIndInv, Start, InvalidTs
  <1>1. TMTypeOK'
    BY DEF TMTypeOK, Timestamp, Stage
  <1>2. /\ stage[t] = "idle" /\ stage'[t] = "active" /\ start'[t] = counter
        /\ \A u \in Txn : u # t => stage'[u] = stage[u] /\ start'[u] = start[u]
    BY DEF TMTypeOK
  <1>3. DrawnFromCounter'
    BY <1>2 DEF DrawnFromCounter, TMTypeOK, Timestamp, Started
  <1>4. CommitDrawnInCommit' /\ WriterIsStamping'
    BY <1>2 DEF CommitDrawnInCommit, WriterIsStamping, Committed, Unlocked
  <1>5. XipsExact'
    BY <1>2 DEF XipsExact, DrawnFromCounter, InProgress, Started, TMTypeOK, Timestamp
  <1>6. MinXipIsLowerBound'
    BY <1>2 DEF MinXipIsLowerBound, DrawnFromCounter, InProgress, TMTypeOK, Timestamp
  <1>7. NoLowerCommitInFlight'
    BY <1>2 DEF NoLowerCommitInFlight, WriterIsStamping, Unlocked
  <1>8. QED
    BY <1>1, <1>3, <1>4, <1>5, <1>6, <1>7

LEMMA BeginCommitInv ==
  ASSUME TMIndInv, NEW t \in Txn, BeginCommit(t)
  PROVE  TMIndInv'
  <1> USE TxnAssumption, MaxTsAssumption DEF TMIndInv, BeginCommit, InvalidTs
  <1>1. TMTypeOK'
    BY DEF TMTypeOK, Timestamp, Stage
  <1>2. /\ stage[t] = "active" /\ stage'[t] = "stamping" /\ commit'[t] = counter
        /\ \A u \in Txn : u # t => stage'[u] = stage[u] /\ commit'[u] = commit[u]
    BY DEF TMTypeOK
  <1>3. DrawnFromCounter'
    BY <1>2 DEF DrawnFromCounter, TMTypeOK, Timestamp, Started
  <1>4. CommitDrawnInCommit' /\ WriterIsStamping'
    BY <1>2 DEF CommitDrawnInCommit, WriterIsStamping, Committed, Unlocked, TMTypeOK
  <1>5. XipsExact'
    BY <1>2 DEF XipsExact, InProgress, Started
  <1>6. MinXipIsLowerBound'
    BY <1>2 DEF MinXipIsLowerBound, InProgress
  <1>7. NoLowerCommitInFlight'
    BY <1>2 DEF NoLowerCommitInFlight, WriterIsStamping, Unlocked, DrawnFromCounter, Started
  <1>8. QED
    BY <1>1, <1>3, <1>4, <1>5, <1>6, <1>7

LEMMA FinishCommitInv ==
  ASSUME TMIndInv, NEW t \in Txn, NEW readonly \in BOOLEAN, FinishCommit(t, readonly)
  PROVE  TMIndInv'
  <1> USE TxnAssumption, MaxTsAssumption DEF TMIndInv, FinishCommit, LeaveXips, InvalidTs
  <1>1. TMTypeOK'
    BY DEF TMTypeOK, Timestamp, Stage
  <1>2. /\ stage[t] = "stamping" /\ stage'[t] \in {"committed", "logging"}
        /\ \A u \in Txn : u # t => stage'[u] = stage[u]
    BY DEF TMTypeOK
  <1>3. DrawnFromCounter'
    BY <1>2 DEF DrawnFromCounter, Started
  <1>4. CommitDrawnInCommit' /\ WriterIsStamping'
    BY <1>2 DEF CommitDrawnInCommit, WriterIsStamping, Committed, TMTypeOK
  <1>5. XipsExact'
    BY <1>2 DEF XipsExact, InProgress, Started
  <1>6. MinXipIsLowerBound'
    BY <1>2 DEF MinXipIsLowerBound, InProgress
  <1>7. NoLowerCommitInFlight'
    BY <1>2 DEF NoLowerCommitInFlight, Started
  <1>8. QED
    BY <1>1, <1>3, <1>4, <1>5, <1>6, <1>7

LEMMA LogCommitInv ==
  ASSUME TMIndInv, NEW t \in Txn, LogCommit(t)
  PROVE  TMIndInv'
  <1> USE TxnAssumption DEF TMIndInv, LogCommit
  <1>1. TMTypeOK'
    BY DEF TMTypeOK, Stage
  <1>2. /\ stage[t] = "logging" /\ stage'[t] = "committed"
        /\ \A u \in Txn : u # t => stage'[u] = stage[u]
    BY DEF TMTypeOK
  <1>3. QED
    BY <1>1, <1>2 DEF DrawnFromCounter, CommitDrawnInCommit, WriterIsStamping, Committed,
       XipsExact, MinXipIsLowerBound, NoLowerCommitInFlight, InProgress, Started

LEMMA BeginAbortInv ==
  ASSUME TMIndInv, NEW t \in Txn, BeginAbort(t)
  PROVE  TMIndInv'
  <1> USE TxnAssumption, MaxTsAssumption DEF TMIndInv, BeginAbort, LeaveXips
  <1>1. TMTypeOK'
    BY DEF TMTypeOK, Timestamp, Stage
  <1>2. /\ stage[t] = "active" /\ stage'[t] = "undoing"
        /\ \A u \in Txn : u # t => stage'[u] = stage[u]
    BY DEF TMTypeOK
  <1>3. XipsExact'
    BY <1>2 DEF XipsExact, InProgress, Started
  <1>4. QED
    BY <1>1, <1>2, <1>3 DEF DrawnFromCounter, CommitDrawnInCommit, WriterIsStamping, Committed,
       MinXipIsLowerBound, NoLowerCommitInFlight, InProgress, Started

LEMMA FinishAbortInv ==
  ASSUME TMIndInv, NEW t \in Txn, FinishAbort(t)
  PROVE  TMIndInv'
  <1> USE TxnAssumption DEF TMIndInv, FinishAbort
  <1>1. TMTypeOK'
    BY DEF TMTypeOK, Stage
  <1>2. /\ stage[t] = "undoing" /\ stage'[t] = "aborted"
        /\ \A u \in Txn : u # t => stage'[u] = stage[u]
    BY DEF TMTypeOK
  <1>3. QED
    BY <1>1, <1>2 DEF DrawnFromCounter, CommitDrawnInCommit, WriterIsStamping, Committed,
       XipsExact, MinXipIsLowerBound, NoLowerCommitInFlight, InProgress, Started

LEMMA MinXipInv ==
  ASSUME TMIndInv, MinXip
  PROVE  TMIndInv'
  <1> USE DEF TMIndInv
  <1>1. PICK m \in xips : IsMinXip(m) /\ cachedMin' = m
    BY DEF MinXip
  <1>2. \E t \in Txn : m = start[t] /\ InProgress(t)
    BY DEF XipsExact
  <1>3. TMTypeOK' /\ DrawnFromCounter'
    BY <1>1, <1>2 DEF MinXip, TMTypeOK, DrawnFromCounter, Started
  <1>4. MinXipIsLowerBound'
    BY <1>1 DEF MinXip, IsMinXip, MinXipIsLowerBound, XipsExact, InProgress
  <1>5. QED
    BY <1>3, <1>4 DEF MinXip, CommitDrawnInCommit, WriterIsStamping, XipsExact,
       NoLowerCommitInFlight, InProgress, Started, Committed

LEMMA TMNextInv == TMIndInv /\ [TMNext]_tmVars => TMIndInv'
  <1> SUFFICES ASSUME TMIndInv, [TMNext]_tmVars PROVE TMIndInv'
    OBVIOUS
  <1>1. CASE MinXip
    BY <1>1, MinXipInv
  <1>2. ASSUME NEW t \in Txn, TMTxnStep(t) PROVE TMIndInv'
    BY <1>2, StartInv, BeginCommitInv, FinishCommitInv, LogCommitInv, BeginAbortInv,
       FinishAbortInv DEF TMTxnStep
  <1>3. CASE UNCHANGED tmVars
    BY <1>3 DEF tmVars, TMIndInv, TMTypeOK, DrawnFromCounter, CommitDrawnInCommit,
       WriterIsStamping, XipsExact, MinXipIsLowerBound, NoLowerCommitInFlight,
       InProgress, Started, Committed
  <1>4. QED
    BY <1>1, <1>2, <1>3 DEF TMNext

\* The facts of TMIndInv hold in every reachable state of the manager.
THEOREM TMInvariance == TMSpec => []TMIndInv
  BY TMInitInv, TMNextInv, PTL DEF TMSpec

\* Every field and every transaction keeps its type.
THEOREM TMTypeCorrect == TMSpec => []TMTypeOK
  BY TMInvariance, PTL DEF TMIndInv

\* min_xip publishes a bound that stays below every transaction in progress,
\* also after it has released the lock and whatever starts later.
THEOREM MinXipSafe == TMSpec => []MinXipIsLowerBound
  BY TMInvariance, PTL DEF TMIndInv

\* start_transaction and commit exclude each other: no transaction starts
\* between the draw of a lower commit timestamp and the end of the stamping.
THEOREM StartAfterLowerCommits == TMSpec => []NoLowerCommitInFlight
  BY TMInvariance, PTL DEF TMIndInv

\* xips is the set of the transactions in progress.
THEOREM XipsAccurate == TMSpec => []XipsExact
  BY TMInvariance, PTL DEF TMIndInv

\* Below the published bound every commit has left its critical section.
THEOREM CollectableAreSettled == TMSpec => []CollectableIsSettled
  <1>1. TMIndInv => CollectableIsSettled
    <2> SUFFICES ASSUME TMIndInv, NEW t \in Txn,
                        commit[t] # InvalidTs, commit[t] < cachedMin
                 PROVE  Committed(t)
      BY DEF CollectableIsSettled
    <2>1. CASE stage[t] = "stamping"
      <3>1. cachedMin <= start[t]
        BY <2>1 DEF TMIndInv, MinXipIsLowerBound, InProgress
      <3>2. start[t] < commit[t]
        BY <2>1 DEF TMIndInv, NoLowerCommitInFlight, Started
      <3>3. QED
        BY <3>1, <3>2 DEF TMIndInv, TMTypeOK, Timestamp
    <2>2. QED
      BY <2>1 DEF TMIndInv, CommitDrawnInCommit
  <1>2. QED
    BY <1>1, TMInvariance, PTL

\* The bound only rises, and a commit always draws its timestamp above it.
THEOREM BoundAhead == TMSpec => BoundNeverOvertaken
  <1> DEFINE Ahead == /\ cachedMin' >= cachedMin
                      /\ \A t \in Txn : commit'[t] # commit[t] => cachedMin < commit'[t]
  <1>1. TMIndInv /\ [TMNext]_tmVars => [Ahead]_tmVars
    <2> SUFFICES ASSUME TMIndInv, TMNext PROVE Ahead
      BY DEF tmVars
    <2>1. CASE MinXip
      <3>1. PICK m \in xips : IsMinXip(m) /\ cachedMin' = m
        BY <2>1 DEF MinXip
      <3>2. cachedMin <= m
        BY DEF TMIndInv, XipsExact, MinXipIsLowerBound
      <3>3. QED
        BY <2>1, <3>1, <3>2 DEF MinXip, TMIndInv, TMTypeOK, Timestamp
    <2>2. ASSUME NEW u \in Txn, BeginCommit(u) PROVE Ahead
      BY <2>2 DEF BeginCommit, TMIndInv, TMTypeOK, DrawnFromCounter, Timestamp
    <2>3. ASSUME NEW u \in Txn, TMTxnStep(u), ~ BeginCommit(u) PROVE Ahead
      BY <2>3 DEF TMTxnStep, Start, FinishCommit, LogCommit, BeginAbort, FinishAbort,
         TMIndInv, TMTypeOK, Timestamp
    <2>4. QED
      BY <2>1, <2>2, <2>3 DEF TMNext
  <1>2. QED
    BY <1>1, TMInvariance, PTL DEF TMSpec, BoundNeverOvertaken
=============================================================================
