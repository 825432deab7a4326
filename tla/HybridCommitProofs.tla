------------------------- MODULE HybridCommitProofs -------------------------
(***************************************************************************)
(* Proofs about HybridCommit, for any transactions of either mode, keys    *)
(* and calls: nobody reads what has not been committed, writers take       *)
(* turns, and what had been committed is found.  The manager does not see  *)
(* the modes, so TMIndInv holds as before, and the shape of the table is   *)
(* that of the default build.  The layers above:                           *)
(*   ModesInv           who has a status, and whose versions are stamped;  *)
(*   ReadInv            what a transaction has read, or is about to        *)
(*                      return, is its own or was written by one whose     *)
(*                      commit has returned;                               *)
(*   CompletedInv       latest_completed_xid is above every start          *)
(*                      timestamp that has left xips;                      *)
(*   SnapshotsInv       a snapshot takes for over only what is over;       *)
(*   HybridCheckedInv   the head a writer goes on with is no conflict;     *)
(*   TurnsInv           the owner of a lower version is over, and so it is *)
(*                      in every snapshot in which the higher one's is;    *)
(*   HybridUndoInv      a rollback takes off what is still the head;       *)
(*   BeforeInv          what had been committed at the start is visible;   *)
(*   CommittedStamped   normal transactions have stamped when they commit; *)
(*   GetInv, ReplyInv   a walk passes nothing that it has to find.         *)
(***************************************************************************)
EXTENDS HybridCommit, HashMemTableProofs

\* A status is recorded at the end of commit, only normal transactions stamp.
ModesInv ==
  /\ fast \subseteq Txn /\ DOMAIN status = Txn
  /\ \A u \in fast : Started(u)
  /\ \A u \in Txn : status[u] = "Committed" => Committed(u)
  /\ \A n \in stamped : Owner(n) \in Txn \ fast /\ stage[Owner(n)] \in InCommit

\* What t may read.
Known(t, n) == Owner(n) = t \/ Returned(Owner(n))

\* A call has the fields that its steps read.
HasFields(c) == "op" \in DOMAIN c /\ (c.op = "update" => "value" \in DOMAIN c)

ReadInv ==
  /\ DOMAIN call = Txn /\ DOMAIN reply = Txn
  /\ \A t \in Txn : HasFields(call[t])
  /\ \A t \in Txn : call[t].op = "update" /\ call[t].value \in Node => Known(t, call[t].value)
  /\ NoDirtyRead

HybridIndInv == TMIndInv /\ ModesInv /\ ReadInv

-----------------------------------------------------------------------------
(* The manager and the modes.                                              *)

\* The manager takes the steps it takes in the other build.
LEMMA HybridManagerStep == [HybridNext]_allVars => [TMNext]_tmVars
  <1> SUFFICES ASSUME [HybridNext]_allVars PROVE [TMNext]_tmVars
    OBVIOUS
  <1>1. CASE UNCHANGED allVars
    BY <1>1 DEF allVars, vars, tmVars
  <1>2. ASSUME NEW t \in Txn, TakeSnapshot(t) PROVE UNCHANGED tmVars
    BY <1>2 DEF TakeSnapshot, vars, tmVars
  <1>3. ASSUME NEW t \in Txn, HybridCheck(t) \/ HybridWalk(t) \/ StampHybrid(t)
        PROVE  UNCHANGED tmVars
    BY <1>3 DEF HybridCheck, HybridWalk, StampHybrid, Stamp
  <1>4. ASSUME NEW t \in Txn, Shared(t) PROVE [TMNext]_tmVars
    <2>1. CASE \E op \in Ops[t], k \in Key : Call(t, op, k)
      BY <2>1 DEF Call
    <2>2. CASE Reload(t) \/ ReadForUpdate(t) \/ Cas(t) \/ RollbackLoad(t) \/ RollbackStep(t)
      BY <2>2 DEF Reload, ReadForUpdate, Cas, RollbackLoad, RollbackStep
    <2>3. CASE BeginCommitTxn(t)
      BY <2>3 DEF BeginCommitTxn, TMNext, TMTxnStep
    <2>4. QED
      BY <1>4, <2>1, <2>2, <2>3 DEF Shared
  <1>5. ASSUME NEW t \in Txn, FinishCommitHybrid(t) PROVE TMNext
    <2>1. \E r \in BOOLEAN : FinishCommit(t, r)
      BY <1>5 DEF FinishCommitHybrid
    <2>2. QED
      BY <2>1 DEF TMNext, TMTxnStep
  <1>6. ASSUME NEW t \in Txn, \/ StartHybrid(t) \/ LogCommitHybrid(t)
                             \/ BeginAbortHybrid(t) \/ FinishAbortHybrid(t)
        PROVE  TMNext
    BY <1>6 DEF StartHybrid, LogCommitHybrid, BeginAbortHybrid, FinishAbortHybrid, StartTxn,
       LogCommitTxn, FinishAbortTxn, TMNext, TMTxnStep
  <1>7. QED
    BY <1>1, <1>2, <1>3, <1>4, <1>5, <1>6 DEF HybridNext

\* Modes are chosen at the start, and a recorded commit is final.
LEMMA ModesMove ==
  ASSUME TMTypeOK, ModesInv, [HybridNext]_allVars
  PROVE  /\ fast \subseteq fast' /\ fast' \subseteq Txn /\ DOMAIN status' = Txn
         /\ \A u \in fast' \ fast : stage[u] = "idle" /\ Started(u)'
         /\ \A u \in Txn : status[u] = "Committed" => status'[u] = "Committed"
         /\ \A u \in Txn : status'[u] = "Committed" => status[u] = "Committed" \/ Committed(u)'
  <1> DEFINE Moved ==
         /\ fast \subseteq fast' /\ fast' \subseteq Txn /\ DOMAIN status' = Txn
         /\ \A u \in fast' \ fast : stage[u] = "idle" /\ Started(u)'
         /\ \A u \in Txn : status[u] = "Committed" => status'[u] = "Committed"
         /\ \A u \in Txn : status'[u] = "Committed" => status[u] = "Committed" \/ Committed(u)'
  <1>1. ASSUME UNCHANGED <<fast, status>> PROVE Moved
    BY <1>1 DEF ModesInv
  <1>2. CASE UNCHANGED allVars
    BY <1>1, <1>2 DEF allVars, hybridVars
  <1>3. ASSUME NEW t \in Txn, \/ TakeSnapshot(t) \/ HybridCheck(t) \/ HybridWalk(t) \/ Shared(t)
                             \/ StampHybrid(t) \/ FinishCommitHybrid(t) \/ BeginAbortHybrid(t)
        PROVE  Moved
    BY <1>1, <1>3 DEF TakeSnapshot, HybridCheck, HybridWalk, Shared, StampHybrid,
       FinishCommitHybrid, BeginAbortHybrid, hybridVars
  <1>4. ASSUME NEW t \in Txn, StartHybrid(t) PROVE Moved
    <2>1. stage[t] = "idle" /\ stage'[t] = "active" /\ UNCHANGED status
      BY <1>4 DEF StartHybrid, StartTxn, Start, TMTypeOK
    <2>2. fast' = fast \/ fast' = fast \union {t}
      BY <1>4 DEF StartHybrid
    <2>3. QED
      BY <2>1, <2>2 DEF ModesInv, Started
  <1>5. ASSUME NEW t \in Txn, LogCommitHybrid(t) PROVE Moved
    <2>1. Committed(t)' /\ UNCHANGED fast
      BY <1>5 DEF LogCommitHybrid, LogCommitTxn, LogCommit, Committed, TMTypeOK
    <2>2. status' = [status EXCEPT ![t] = "Committed"] \/ status' = status
      BY <1>5 DEF LogCommitHybrid, SetStatus
    <2>3. QED
      BY <2>1, <2>2 DEF ModesInv
  <1>6. ASSUME NEW t \in Txn, FinishAbortHybrid(t) PROVE Moved
    <2>1. ~ Committed(t) /\ UNCHANGED fast
      BY <1>6 DEF FinishAbortHybrid, FinishAbortTxn, FinishAbort, Committed
    <2>2. status' = [status EXCEPT ![t] = "Aborted"] \/ status' = status
      BY <1>6 DEF FinishAbortHybrid, SetStatus
    <2>3. QED
      BY <2>1, <2>2 DEF ModesInv
  <1>7. QED
    BY <1>2, <1>3, <1>4, <1>5, <1>6 DEF HybridNext

\* The layer of modes and stamps holds on.
LEMMA ModesNext ==
  ASSUME TMTypeOK, ModesInv, [HybridNext]_allVars
  PROVE  ModesInv'
  <1>1. /\ fast \subseteq fast' /\ fast' \subseteq Txn /\ DOMAIN status' = Txn
        /\ \A u \in fast' \ fast : stage[u] = "idle" /\ Started(u)'
        /\ \A u \in Txn : status'[u] = "Committed" => status[u] = "Committed" \/ Committed(u)'
    BY ModesMove
  <1>2. \A u \in Txn : /\ Started(u) => Started(u)'
                       /\ Committed(u) => Committed(u)'
                       /\ stage[u] \in InCommit => stage'[u] \in InCommit
    BY HybridManagerStep, StageMoves
  <1>3. (\A u \in fast : Started(u))'
    BY <1>1, <1>2 DEF ModesInv
  <1>4. (\A u \in Txn : status[u] = "Committed" => Committed(u))'
    BY <1>1, <1>2 DEF ModesInv
  <1>5. stamped' = stamped \/ \E t \in Txn : StampHybrid(t)
    <2>1. CASE UNCHANGED allVars
      BY <2>1 DEF allVars, vars
    <2>2. ASSUME NEW t \in Txn, \/ StartHybrid(t) \/ TakeSnapshot(t) \/ HybridCheck(t)
                               \/ HybridWalk(t) \/ FinishCommitHybrid(t) \/ LogCommitHybrid(t)
                               \/ BeginAbortHybrid(t) \/ FinishAbortHybrid(t)
          PROVE  stamped' = stamped
      BY <2>2 DEF StartHybrid, TakeSnapshot, HybridCheck, HybridWalk, FinishCommitHybrid,
         LogCommitHybrid, BeginAbortHybrid, FinishAbortHybrid, StartTxn, LogCommitTxn,
         FinishAbortTxn, vars, hmtVars
    <2>3. ASSUME NEW t \in Txn, Shared(t) PROVE stamped' = stamped
      BY <2>3 DEF Shared, Call, Reload, ReadForUpdate, Cas, BeginCommitTxn, RollbackLoad,
         RollbackStep, hmtVars
    <2>4. QED
      BY <2>1, <2>2, <2>3 DEF HybridNext
  <1>6. \A n \in stamped' : n \in stamped \/ (Owner(n) \in Txn \ fast /\ stage[Owner(n)] \in InCommit)
    <2>1. ASSUME NEW t \in Txn, StampHybrid(t), NEW n \in stamped', n \notin stamped
          PROVE  Owner(n) \in Txn \ fast /\ stage[Owner(n)] \in InCommit
      BY <2>1 DEF StampHybrid, Stamp, Owner, InCommit
    <2>2. QED
      BY <1>5, <2>1
  <1>7. (\A n \in stamped : Owner(n) \in Txn \ fast /\ stage[Owner(n)] \in InCommit)'
    <2>1. ASSUME NEW n \in stamped'
          PROVE  Owner(n) \in Txn \ fast' /\ stage'[Owner(n)] \in InCommit
      <3>1. Owner(n) \in Txn \ fast /\ stage[Owner(n)] \in InCommit
        BY <1>6, <2>1 DEF ModesInv
      <3>2. QED
        BY <1>1, <1>2, <3>1 DEF InCommit
    <2>2. QED
      BY <2>1 DEF Owner
  <1>8. QED
    BY <1>1, <1>3, <1>4, <1>7 DEF ModesInv

\* A commit that has returned stays so.
LEMMA ReturnedStays ==
  ASSUME TMTypeOK, ModesInv, [HybridNext]_allVars, NEW u \in Txn, Returned(u)
  PROVE  Returned(u)'
  <1>1. /\ fast \subseteq fast'
        /\ \A v \in fast' \ fast : stage[v] = "idle"
        /\ status[u] = "Committed" => status'[u] = "Committed"
    BY ModesMove
  <1>2. Committed(u) => Committed(u)'
    BY HybridManagerStep, StageMoves
  <1>3. Committed(u) => stage[u] # "idle"
    BY DEF Committed
  <1>4. QED
    BY <1>1, <1>2, <1>3 DEF Returned

\* What may be read may be read later.
LEMMA KnownStays ==
  ASSUME TMTypeOK, ModesInv, [HybridNext]_allVars, NEW t \in Txn, NEW n \in Node, Known(t, n)
  PROVE  Known(t, n)'
  <1>1. Owner(n) \in Txn
    BY DEF Node, Owner
  <1>2. QED
    BY <1>1, ReturnedStays DEF Known, Owner

-----------------------------------------------------------------------------
(* Reads.                                                                  *)

\* What is visible may be read: a status that says so is recorded when commit
\* ends, and of a normal version below the start the commit has ended, as no
\* transaction starts above one that is being stamped.
LEMMA VisibleIsKnown ==
  ASSUME TMIndInv, ModesInv, NEW t \in Txn, Started(t), NEW n \in Node, HybridVisible(t, n)
  PROVE  Known(t, n)
  <1> DEFINE u == Owner(n)
  <1>1. u \in Txn
    BY DEF Node, Owner
  <1>2. CASE u \in fast
    BY <1>2 DEF HybridVisible, Known, Returned
  <1>3. CASE u \notin fast /\ n \in stamped
    <2>1. commit[u] <= start[t] /\ stage[u] \in InCommit
      BY <1>3 DEF HybridVisible, Visible, ModesInv
    <2>2. stage[u] # "stamping"
      <3>1. commit[u] \in Int /\ start[t] \in Int
        BY <1>1, MaxTsAssumption DEF TMIndInv, TMTypeOK, Timestamp
      <3>2. stage[u] = "stamping" => start[t] < commit[u]
        BY <1>1 DEF TMIndInv, NoLowerCommitInFlight
      <3>3. QED
        BY <2>1, <3>1, <3>2
    <2>3. QED
      BY <1>3, <2>1, <2>2 DEF InCommit, Known, Returned, Committed
  <1>4. CASE u \notin fast /\ n \notin stamped
    BY <1>4 DEF HybridVisible, Visible, Known
  <1>5. QED
    BY <1>2, <1>3, <1>4

\* A call with what it has read, if anything.
MayGoOn(t, c) == HasFields(c) /\ (c.op = "update" /\ c.value \in Node => Known(t, c.value))

\* An operation goes on or ends, and returns nothing.
LEMMA NothingReturned ==
  ASSUME TMTypeOK, ModesInv, ReadInv, [HybridNext]_allVars, NEW t \in Txn, NEW c,
         call' = [call EXCEPT ![t] = c], reply' = reply, MayGoOn(t, c)
  PROVE  ReadInv'
  <1>1. /\ DOMAIN call' = Txn /\ DOMAIN reply' = Txn
        /\ call'[t] = c /\ \A u \in Txn : u # t => call'[u] = call[u]
    BY DEF ReadInv
  <1>2. \A u \in Txn : HasFields(call'[u])
    BY <1>1 DEF ReadInv, MayGoOn
  <1>3. ASSUME NEW u \in Txn, call'[u].op = "update", call'[u].value \in Node
        PROVE  Known(u, call[u].value)'
    <2>1. Known(u, call'[u].value)
      BY <1>1, <1>3 DEF ReadInv, MayGoOn
    <2>2. QED
      BY <1>3, <2>1, KnownStays DEF Known, Owner
  <1>4. NoDirtyRead'
    <2>1. ASSUME NEW u \in Txn, reply[u].op \in {"get", "update"}, reply[u].result \in Node
          PROVE  Known(u, reply[u].result)'
      BY <2>1, KnownStays DEF ReadInv, NoDirtyRead, Known
    <2>2. QED
      BY <2>1 DEF NoDirtyRead, Known, Owner, Node
  <1>5. QED
    BY <1>1, <1>2, <1>3, <1>4 DEF ReadInv, Node, HasFields

\* An operation returns v.
LEMMA ValueReturned ==
  ASSUME TMTypeOK, ModesInv, ReadInv, [HybridNext]_allVars, NEW t \in Txn, NEW v,
         Return(t, v), call[t].op \in {"get", "update"} /\ v \in Node => Known(t, v)
  PROVE  ReadInv'
  <1> DEFINE r == [op |-> call[t].op, key |-> call[t].key, result |-> v]
  <1>1. call' = [call EXCEPT ![t] = NoCall] /\ reply' = [reply EXCEPT ![t] = r]
    BY DEF Return
  <1>2. /\ DOMAIN call' = Txn /\ DOMAIN reply' = Txn
        /\ call'[t] = NoCall /\ \A u \in Txn : u # t => call'[u] = call[u]
        /\ reply'[t] = r /\ \A u \in Txn : u # t => reply'[u] = reply[u]
    BY <1>1 DEF ReadInv
  <1>3. HasFields(NoCall) /\ NoCall.op # "update"
    BY DEF HasFields, NoCall
  <1>4. \A u \in Txn : HasFields(call'[u])
    BY <1>2, <1>3 DEF ReadInv
  <1>5. ASSUME NEW u \in Txn, call'[u].op = "update", call'[u].value \in Node
        PROVE  Known(u, call[u].value)'
    <2>1. Known(u, call'[u].value)
      BY <1>2, <1>3, <1>5 DEF ReadInv
    <2>2. QED
      BY <1>5, <2>1, KnownStays DEF Known, Owner
  <1>6. NoDirtyRead'
    <2>1. ASSUME NEW u \in Txn, reply'[u].op \in {"get", "update"}, reply'[u].result \in Node
          PROVE  Known(u, reply[u].result)'
      <3>1. Known(u, reply'[u].result)
        BY <1>2, <2>1 DEF ReadInv, NoDirtyRead, Known
      <3>2. QED
        BY <2>1, <3>1, KnownStays DEF Known, Owner
    <2>2. QED
      BY <2>1 DEF NoDirtyRead, Known, Owner, Node
  <1>7. QED
    BY <1>2, <1>4, <1>5, <1>6 DEF ReadInv, Node, HasFields

\* No operation moves.
LEMMA NoCallMoves ==
  ASSUME TMTypeOK, ModesInv, ReadInv, [HybridNext]_allVars, UNCHANGED <<call, reply>>
  PROVE  ReadInv'
  <1>1. ASSUME NEW u \in Txn, call[u].op = "update", call[u].value \in Node
        PROVE  Known(u, call[u].value)'
    BY <1>1, KnownStays DEF ReadInv, Known, Owner
  <1>2. ASSUME NEW u \in Txn, reply[u].op \in {"get", "update"}, reply[u].result \in Node
        PROVE  Known(u, reply[u].result)'
    BY <1>2, KnownStays DEF ReadInv, NoDirtyRead, Known
  <1>3. NoDirtyRead'
    BY <1>2 DEF NoDirtyRead, Known, Owner, Node
  <1>4. QED
    BY <1>1, <1>3 DEF ReadInv, Node, HasFields

-----------------------------------------------------------------------------
(* The steps.                                                              *)

\* A change of fields other than op and value.
LEMMA FieldsStay ==
  ASSUME ReadInv, NEW t \in Txn, NEW p, NEW h, NEW n
  PROVE  /\ MayGoOn(t, [call[t] EXCEPT !.pc = p])
         /\ MayGoOn(t, [call[t] EXCEPT !.rest = h])
         /\ MayGoOn(t, [call[t] EXCEPT !.head = h])
         /\ MayGoOn(t, [call[t] EXCEPT !.head = h, !.pc = p])
         /\ MayGoOn(t, [call[t] EXCEPT !.rest = h, !.pc = p])
         /\ MayGoOn(t, [call[t] EXCEPT !.next = n, !.pc = p, !.head = h])
  <1>1. MayGoOn(t, call[t])
    BY DEF ReadInv, MayGoOn
  <1>2. ASSUME NEW c, DOMAIN c = DOMAIN call[t], "op" \in DOMAIN call[t] => c.op = call[t].op,
               "value" \in DOMAIN call[t] => c.value = call[t].value
        PROVE  MayGoOn(t, c)
    BY <1>1, <1>2 DEF MayGoOn, HasFields
  <1>3. MayGoOn(t, [call[t] EXCEPT !.pc = p])
    BY <1>2
  <1>4. MayGoOn(t, [call[t] EXCEPT !.rest = h])
    BY <1>2
  <1>5. MayGoOn(t, [call[t] EXCEPT !.head = h])
    BY <1>2
  <1>6. MayGoOn(t, [call[t] EXCEPT !.head = h, !.pc = p])
    <2> DEFINE c == [call[t] EXCEPT !.head = h, !.pc = p]
    <2>1. /\ DOMAIN c = DOMAIN call[t]
          /\ "op" \in DOMAIN call[t] => c.op = call[t].op
          /\ "value" \in DOMAIN call[t] => c.value = call[t].value
      OBVIOUS
    <2> HIDE DEF c
    <2>2. MayGoOn(t, c)
      BY <2>1, <1>2
    <2>3. QED
      BY <2>2 DEF c
  <1>7. MayGoOn(t, [call[t] EXCEPT !.rest = h, !.pc = p])
    <2> DEFINE c == [call[t] EXCEPT !.rest = h, !.pc = p]
    <2>1. /\ DOMAIN c = DOMAIN call[t]
          /\ "op" \in DOMAIN call[t] => c.op = call[t].op
          /\ "value" \in DOMAIN call[t] => c.value = call[t].value
      OBVIOUS
    <2> HIDE DEF c
    <2>2. MayGoOn(t, c)
      BY <2>1, <1>2
    <2>3. QED
      BY <2>2 DEF c
  <1>8. MayGoOn(t, [call[t] EXCEPT !.next = n, !.pc = p, !.head = h])
    <2> DEFINE c == [call[t] EXCEPT !.next = n, !.pc = p, !.head = h]
    <2>1. /\ DOMAIN c = DOMAIN call[t]
          /\ "op" \in DOMAIN call[t] => c.op = call[t].op
          /\ "value" \in DOMAIN call[t] => c.value = call[t].value
      OBVIOUS
    <2> HIDE DEF c
    <2>2. MayGoOn(t, c)
      BY <2>1, <1>2
    <2>3. QED
      BY <2>2 DEF c
  <1>9. QED
    BY <1>3, <1>4, <1>5, <1>6, <1>7, <1>8

\* The steps that the builds share.
LEMMA SharedReads ==
  ASSUME TMTypeOK, ModesInv, ReadInv, [HybridNext]_allVars, NEW t \in Txn, Shared(t)
  PROVE  ReadInv'
  <1>1. ASSUME NEW op \in Ops[t], NEW k \in Key, Call(t, op, k) PROVE ReadInv'
    <2> DEFINE c == [op |-> op, key |-> k, pc |-> IF op = "get" THEN "walk" ELSE "check",
                     head |-> IF op = "get" THEN << >> ELSE chain[k],
                     rest |-> IF op = "get" THEN chain[k] ELSE << >>,
                     value |-> Absent]
    <2>1. call' = [call EXCEPT ![t] = c] /\ reply' = reply
      BY <1>1 DEF Call
    <2>2. MayGoOn(t, c)
      BY ResultsAreNoNodes DEF MayGoOn, HasFields
    <2>3. QED
      BY <2>1, <2>2, NothingReturned
  <1>2. CASE Reload(t)
    <2> DEFINE c == [call[t] EXCEPT !.head = chain[call[t].key], !.pc = "check"]
    <2>1. call' = [call EXCEPT ![t] = c] /\ reply' = reply
      BY <1>2 DEF Reload, ReadInv
    <2>2. MayGoOn(t, c)
      BY FieldsStay
    <2> HIDE DEF c
    <2>3. QED
      BY <2>1, <2>2, NothingReturned
  <1>3. CASE ReadForUpdate(t)
    <2> DEFINE c == [call[t] EXCEPT !.rest = chain[call[t].key], !.pc = "walk"]
    <2>1. call' = [call EXCEPT ![t] = c] /\ reply' = reply
      BY <1>3 DEF ReadForUpdate, ReadInv
    <2>2. MayGoOn(t, c)
      BY FieldsStay
    <2> HIDE DEF c
    <2>3. QED
      BY <2>1, <2>2, NothingReturned
  <1>4. CASE Cas(t)
    <2>1. CASE Return(t, IF call[t].op = "update" THEN call[t].value ELSE Done)
      BY <2>1, ValueReturned, ResultsAreNoNodes DEF ReadInv
    <2>2. CASE GoTo(t, "load") /\ reply' = reply
      <3>1. call' = [call EXCEPT ![t] = [call[t] EXCEPT !.pc = "load"]]
        BY <2>2 DEF GoTo, ReadInv
      <3>2. QED
        BY <2>2, <3>1, FieldsStay, NothingReturned
    <2>3. QED
      BY <1>4, <2>1, <2>2 DEF Cas
  <1>5. CASE BeginCommitTxn(t)
    BY <1>5, NoCallMoves DEF BeginCommitTxn, hmtVars
  <1>6. CASE RollbackLoad(t)
    <2> DEFINE h == chain[redo[t][call[t].next].key]
               c == [call[t] EXCEPT !.head = h, !.pc = "undo"]
    <2>1. call' = [call EXCEPT ![t] = c] /\ reply' = reply
      BY <1>6 DEF RollbackLoad, ReadInv
    <2>2. MayGoOn(t, c)
      BY FieldsStay
    <2> HIDE DEF c
    <2>3. QED
      BY <2>1, <2>2, NothingReturned
  <1>7. CASE RollbackStep(t)
    <2> DEFINE c == [call[t] EXCEPT !.head = Tail(call[t].head)]
               d == [call[t] EXCEPT !.next = call[t].next + 1, !.pc = "load", !.head = << >>]
    <2>1. call' = [call EXCEPT ![t] = c] \/ call' = [call EXCEPT ![t] = d]
      BY <1>7 DEF RollbackStep, ReadInv
    <2>2. MayGoOn(t, c) /\ MayGoOn(t, d)
      BY FieldsStay
    <2>3. reply' = reply
      BY <1>7 DEF RollbackStep
    <2> HIDE DEF c, d
    <2>4. QED
      BY <2>1, <2>2, <2>3, NothingReturned
  <1>8. QED
    BY <1>1, <1>2, <1>3, <1>4, <1>5, <1>6, <1>7 DEF Shared

\* get_value, one version at a time.
LEMMA WalkReads ==
  ASSUME TMIndInv, ModesInv, ReadInv, [HybridNext]_allVars, NEW t \in Txn, HybridWalk(t)
  PROVE  ReadInv'
  <1> DEFINE rest == call[t].rest
             found == rest # << >> /\ HybridVisible(t, Head(rest))
             value == IF found THEN ValueOf(Head(rest)) ELSE Absent
  <1>1. TMTypeOK /\ Started(t)
    BY DEF TMIndInv, HybridWalk, At, Started
  <1>2. value \in Node => Known(t, value)
    <2>1. value \in Node => found /\ value = Head(rest)
      BY ResultsAreNoNodes DEF ValueOf
    <2>2. QED
      BY <1>1, <2>1, VisibleIsKnown
  <1>3. CASE call' = [call EXCEPT ![t].rest = Tail(rest)] /\ reply' = reply
    <2> DEFINE c == [call[t] EXCEPT !.rest = Tail(rest)]
    <2>1. call' = [call EXCEPT ![t] = c]
      BY <1>3 DEF ReadInv
    <2>2. MayGoOn(t, c)
      BY FieldsStay
    <2> HIDE DEF c
    <2>3. QED
      BY <1>1, <1>3, <2>1, <2>2, NothingReturned
  <1>4. CASE Return(t, value)
    BY <1>1, <1>2, <1>4, ValueReturned
  <1>5. CASE /\ call' = [call EXCEPT ![t].value = value, ![t].rest = << >>, ![t].pc = "cas"]
             /\ reply' = reply
    <2> DEFINE c == [call[t] EXCEPT !.value = value, !.rest = << >>, !.pc = "cas"]
    <2>1. call' = [call EXCEPT ![t] = c]
      BY <1>5 DEF ReadInv
    <2>2. HasFields(call[t])
      BY DEF ReadInv
    <2>3. /\ DOMAIN c = DOMAIN call[t] /\ "op" \in DOMAIN call[t] /\ c.op = call[t].op
          /\ "value" \in DOMAIN call[t] => c.value = value
      BY <2>2 DEF HasFields
    <2>4. MayGoOn(t, c)
      BY <1>2, <2>2, <2>3 DEF MayGoOn, HasFields
    <2> HIDE DEF c
    <2>5. QED
      BY <1>1, <1>5, <2>1, <2>4, NothingReturned
  <1>6. QED
    BY <1>3, <1>4, <1>5 DEF HybridWalk

\* The check of the head returns no version.
LEMMA CheckReads ==
  ASSUME TMTypeOK, ModesInv, ReadInv, [HybridNext]_allVars, NEW t \in Txn, HybridCheck(t)
  PROVE  ReadInv'
  <1>1. \/ Return(t, Conflict) \/ Return(t, Absent)
        \/ \E p \in {"read", "cas"} : GoTo(t, p) /\ reply' = reply
    BY DEF HybridCheck
  <1>2. CASE Return(t, Conflict) \/ Return(t, Absent)
    BY <1>2, ValueReturned, ResultsAreNoNodes
  <1>3. ASSUME NEW p, GoTo(t, p), reply' = reply PROVE ReadInv'
    <2>1. call' = [call EXCEPT ![t] = [call[t] EXCEPT !.pc = p]]
      BY <1>3 DEF GoTo, ReadInv
    <2>2. QED
      BY <1>3, <2>1, FieldsStay, NothingReturned
  <1>4. QED
    BY <1>1, <1>2, <1>3

\* Every step leaves what has been read readable.
LEMMA ReadNext ==
  ASSUME TMIndInv, ModesInv, ReadInv, [HybridNext]_allVars
  PROVE  ReadInv'
  <1> TMTypeOK
    BY DEF TMIndInv
  <1>1. CASE UNCHANGED allVars
    BY <1>1, NoCallMoves DEF allVars, vars
  <1>2. ASSUME NEW t \in Txn, \/ StartHybrid(t) \/ TakeSnapshot(t) \/ StampHybrid(t)
                             \/ FinishCommitHybrid(t) \/ LogCommitHybrid(t)
        PROVE  ReadInv'
    <2>1. UNCHANGED <<call, reply>>
      BY <1>2 DEF StartHybrid, TakeSnapshot, StampHybrid, FinishCommitHybrid, LogCommitHybrid,
         StartTxn, Stamp, LogCommitTxn, vars, hmtVars
    <2>2. QED
      BY <2>1, NoCallMoves
  <1>3. ASSUME NEW t \in Txn, HybridCheck(t) \/ HybridWalk(t) \/ Shared(t) PROVE ReadInv'
    BY <1>3, CheckReads, WalkReads, SharedReads
  <1>4. ASSUME NEW t \in Txn, BeginAbortHybrid(t) PROVE ReadInv'
    <2> DEFINE c == [op |-> "rollback", pc |-> "load", head |-> << >>,
                     next |-> IF t \in fast THEN Len(redo[t]) + 1 ELSE 1]
    <2>1. call' = [call EXCEPT ![t] = c] /\ reply' = reply
      BY <1>4 DEF BeginAbortHybrid
    <2>2. MayGoOn(t, c)
      BY DEF MayGoOn, HasFields
    <2>3. QED
      BY <2>1, <2>2, NothingReturned
  <1>5. ASSUME NEW t \in Txn, FinishAbortHybrid(t) PROVE ReadInv'
    <2>1. call' = [call EXCEPT ![t] = NoCall] /\ reply' = reply
      BY <1>5 DEF FinishAbortHybrid, FinishAbortTxn
    <2>2. MayGoOn(t, NoCall)
      BY DEF MayGoOn, HasFields, NoCall
    <2>3. QED
      BY <2>1, <2>2, NothingReturned
  <1>6. QED
    BY <1>1, <1>2, <1>3, <1>4, <1>5 DEF HybridNext

-----------------------------------------------------------------------------
(* The theorems.                                                           *)

\* At first nobody has started, written or read.
LEMMA HybridInitInv == HybridInit => HybridIndInv
  <1> SUFFICES ASSUME HybridInit PROVE HybridIndInv
    OBVIOUS
  <1>1. TMIndInv
    BY TMInitInv DEF HybridInit, Init
  <1>2. ModesInv
    BY DEF HybridInit, Init, ModesInv
  <1>3. ReadInv
    <2>1. /\ DOMAIN call = Txn /\ DOMAIN reply = Txn
          /\ \A t \in Txn : call[t] = NoCall /\ reply[t] = NoReply
      BY DEF HybridInit, Init
    <2>2. HasFields(NoCall) /\ NoCall.op = "none" /\ NoReply.op = "none"
      BY DEF HasFields, NoCall, NoReply
    <2>3. QED
      BY <2>1, <2>2 DEF ReadInv, NoDirtyRead
  <1>4. QED
    BY <1>1, <1>2, <1>3 DEF HybridIndInv

\* Every step of either kind of transaction leaves them standing.
LEMMA HybridNextInv == HybridIndInv /\ [HybridNext]_allVars => HybridIndInv'
  <1> SUFFICES ASSUME HybridIndInv, [HybridNext]_allVars PROVE HybridIndInv'
    OBVIOUS
  <1>1. TMIndInv'
    BY HybridManagerStep, TMNextInv DEF HybridIndInv
  <1>2. ModesInv'
    BY ModesNext DEF HybridIndInv, TMIndInv
  <1>3. ReadInv'
    BY ReadNext DEF HybridIndInv
  <1>4. QED
    BY <1>1, <1>2, <1>3 DEF HybridIndInv

\* The layers hold in every reachable state of the hybrid build.
THEOREM HybridInvariance == HybridSpec => []HybridIndInv
  BY HybridInitInv, HybridNextInv, PTL DEF HybridSpec

\* Atomic abort and no early read, whatever the modes: a get or an update
\* returns its own version or one of a transaction whose commit has returned
\* (FastCommit) or has passed its critical section (normal), although aborted
\* FastCommit versions stay in the table (check_version_visibility).
THEOREM NothingUncommittedIsRead == HybridSpec => []NoDirtyRead
  BY HybridInvariance, PTL DEF HybridIndInv, ReadInv

-----------------------------------------------------------------------------
(* The table under the hybrid build.                                       *)

\* The steps that the default build does not take.
OwnStep(t) ==
  \/ HybridCheck(t) \/ HybridWalk(t)
  \/ t \in fast /\ (FinishCommitHybrid(t) \/ BeginAbortHybrid(t))

\* All others are steps of HashMemTable, or leave it alone.
LEMMA StepsOfTheTable ==
  ASSUME [HybridNext]_allVars
  PROVE  [Next]_vars \/ \E t \in Txn : OwnStep(t)
  <1>1. CASE UNCHANGED allVars
    BY <1>1 DEF allVars
  <1>2. ASSUME NEW t \in Txn, TakeSnapshot(t) PROVE UNCHANGED vars
    BY <1>2 DEF TakeSnapshot
  <1>3. ASSUME NEW t \in Txn, StartHybrid(t) \/ StampHybrid(t) \/ LogCommitHybrid(t) \/ FinishAbortHybrid(t)
        PROVE  Next
    BY <1>3 DEF StartHybrid, StampHybrid, LogCommitHybrid, FinishAbortHybrid, Next, Continue, Invoke
  <1>4. ASSUME NEW t \in Txn, Shared(t) PROVE Next
    <2>1. \A op \in Ops[t] : op \in {"get", "put", "update", "delete"}
      BY OpsAssumption
    <2>2. QED
      BY <1>4, <2>1 DEF Shared, Next, Continue, Invoke
  <1>5. ASSUME NEW t \in Txn, FinishCommitHybrid(t), t \notin fast PROVE Next
    <2>1. FinishCommitTxn(t)
      BY <1>5 DEF FinishCommitHybrid, FinishCommitTxn, FinishCommit
    <2>2. QED
      BY <2>1 DEF Next, Continue
  <1>6. ASSUME NEW t \in Txn, BeginAbortHybrid(t), t \notin fast PROVE Next
    <2>1. [op |-> "rollback", pc |-> "load", head |-> << >>, next |-> 1]
          = [op |-> "rollback", next |-> 1, pc |-> "load", head |-> << >>]
      OBVIOUS
    <2>2. BeginAbortTxn(t)
      BY <1>6, <2>1 DEF BeginAbortHybrid, BeginAbortTxn
    <2>3. QED
      BY <2>2 DEF Next, Invoke
  <1>7. QED
    BY <1>1, <1>2, <1>3, <1>4, <1>5, <1>6 DEF HybridNext, OwnStep

\* The check of the loaded head: the call returns, or goes on with a head that
\* is no conflict and, if the question needed one, a snapshot.
LEMMA CheckShape ==
  ASSUME TMTypeOK, ShapeInv, RoomInv, NEW t \in Txn, HybridCheck(t)
  PROVE  /\ ShapeInv' /\ stage[t] = "active" /\ call[t] \in TableCall /\ call[t].op # "get"
         /\ UNCHANGED <<tmVars, chain, stamped, redo, hybridVars>>
         /\ \A u \in Txn : u # t => call'[u] = call[u] /\ reply'[u] = reply[u]
         /\ \/ call'[t] = NoCall /\ reply'[t].op = call[t].op
            \/ /\ \E p \in {"cas", "read"} : call'[t] = [call[t] EXCEPT !.pc = p]
               /\ call'[t] \in TableCall /\ UNCHANGED reply
               /\ call[t].head # << >> => /\ ~ HybridConflict(t, Head(call[t].head))
                                          /\ Owner(Head(call[t].head)) \in fast => snapshot[t] # NoSnapshot
  <1>1. /\ stage[t] = "active" /\ call[t] \in TableCall /\ call[t].pc = "check"
        /\ UNCHANGED <<tmVars, chain, stamped, redo, hybridVars>>
    BY CallShape DEF HybridCheck, At
  <1>2. call[t].op # "get" /\ call[t].op \in {"put", "update", "delete"} /\ call[t].key \in Key
    BY <1>1, CallFields DEF RoomInv
  <1>3. UNCHANGED stage
    BY <1>1 DEF tmVars
  <1>4. ASSUME NEW v \in {Conflict, Absent}, Return(t, v)
        PROVE  /\ ShapeInv' /\ call'[t] = NoCall /\ reply'[t].op = call[t].op
               /\ \A u \in Txn : u # t => call'[u] = call[u] /\ reply'[u] = reply[u]
    <2> DEFINE r == [op |-> call[t].op, key |-> call[t].key, result |-> v]
    <2>1. call' = [call EXCEPT ![t] = NoCall] /\ reply' = [reply EXCEPT ![t] = r]
      BY <1>4 DEF Return
    <2>2. r \in Reply
      BY <1>2 DEF Reply, Result
    <2>3. ShapeInv'
      BY <1>1, <1>3, <2>1, <2>2, OperationShape
    <2>4. QED
      BY <2>1, <2>3 DEF ShapeInv
  <1>5. ASSUME NEW p \in {"read", "cas"}, GoTo(t, p), UNCHANGED reply
        PROVE  /\ ShapeInv' /\ call'[t] = [call[t] EXCEPT !.pc = p] /\ call'[t] \in TableCall
               /\ \A u \in Txn : u # t => call'[u] = call[u] /\ reply'[u] = reply[u]
    <2> DEFINE c == [call[t] EXCEPT !.pc = p]
    <2>1. call' = [call EXCEPT ![t] = c]
      BY <1>5 DEF GoTo, ShapeInv
    <2>2. c \in TableCall
      BY <1>1, CallFields
    <2> HIDE DEF c
    <2>3. ShapeInv'
      BY <1>1, <1>3, <1>5, <2>1, <2>2, OperationShape
    <2>4. call'[t] = c /\ \A u \in Txn : u # t => call'[u] = call[u]
      BY <2>1 DEF ShapeInv
    <2>5. QED
      BY <1>5, <2>2, <2>3, <2>4 DEF c
  <1>6. call[t].head # << >> /\ Owner(Head(call[t].head)) \in fast => snapshot[t] # NoSnapshot
    BY <1>1 DEF HybridCheck, HasSnapshot, AsksSnapshot, Version
  <1> DEFINE conflict == call[t].head # << >> /\ HybridConflict(t, Head(call[t].head))
  <1>7. \/ \E v \in {Conflict, Absent} : Return(t, v)
        \/ /\ ~ conflict
           /\ \E p \in {"read", "cas"} : GoTo(t, p)
           /\ UNCHANGED reply
    BY DEF HybridCheck
  <1> HIDE DEF conflict
  <1>8. CASE \E v \in {Conflict, Absent} : Return(t, v)
    BY <1>1, <1>2, <1>4, <1>8
  <1>9. CASE ~ conflict /\ (\E p \in {"read", "cas"} : GoTo(t, p)) /\ UNCHANGED reply
    BY <1>1, <1>2, <1>5, <1>6, <1>9 DEF conflict
  <1>10. QED
    BY <1>7, <1>8, <1>9

\* What the walk has found.
WalkFound(t) == call[t].rest # << >> /\ HybridVisible(t, Head(call[t].rest))
WalkValue(t) == IF WalkFound(t) THEN ValueOf(Head(call[t].rest)) ELSE Absent

\* One node of the loop of get_value.
LEMMA WalkShape ==
  ASSUME TMTypeOK, ShapeInv, NEW t \in Txn, HybridWalk(t)
  PROVE  /\ ShapeInv' /\ stage[t] = "active" /\ call[t] \in TableCall /\ call[t].pc = "walk"
         /\ UNCHANGED <<tmVars, chain, stamped, redo, hybridVars>>
         /\ \A u \in Txn : u # t => call'[u] = call[u] /\ reply'[u] = reply[u]
         /\ call[t].rest # << >> /\ Owner(Head(call[t].rest)) \in fast => snapshot[t] # NoSnapshot
         /\ \/ /\ call[t].rest # << >> /\ ~ WalkFound(t)
               /\ call'[t] = [call[t] EXCEPT !.rest = Tail(call[t].rest)]
               /\ call'[t] \in TableCall /\ UNCHANGED reply
            \/ /\ call[t].rest = << >> \/ WalkFound(t)
               /\ call'[t] = NoCall
               /\ reply'[t] = [op |-> call[t].op, key |-> call[t].key, result |-> WalkValue(t)]
            \/ /\ call[t].op = "update"
               /\ call'[t] = [call[t] EXCEPT !.value = WalkValue(t), !.rest = << >>, !.pc = "cas"]
               /\ call'[t] \in TableCall /\ UNCHANGED reply
  <1>1. /\ stage[t] = "active" /\ call[t] \in TableCall /\ call[t].pc = "walk"
        /\ UNCHANGED <<tmVars, chain, stamped, redo, hybridVars>>
    BY CallShape DEF HybridWalk, At
  <1>2. call[t].op \in {"get", "put", "update", "delete"} /\ call[t].key \in Key /\ call[t].rest \in Seq(Node)
    BY <1>1, CallFields
  <1>3. UNCHANGED stage
    BY <1>1 DEF tmVars
  <1>4. call[t].rest # << >> => Head(call[t].rest) \in Node /\ Tail(call[t].rest) \in Seq(Node)
    BY <1>2, RestShape
  <1>5. WalkValue(t) \in Node \union {Absent}
    BY <1>4 DEF WalkValue, WalkFound, ValueOf
  <1>6. call[t].rest # << >> /\ Owner(Head(call[t].rest)) \in fast => snapshot[t] # NoSnapshot
    BY <1>1 DEF HybridWalk, HasSnapshot, AsksSnapshot, Version
  <1>7. ASSUME NEW c \in TableCall, call' = [call EXCEPT ![t] = c], UNCHANGED reply
        PROVE  /\ ShapeInv' /\ call'[t] = c
               /\ \A u \in Txn : u # t => call'[u] = call[u] /\ reply'[u] = reply[u]
    <2>1. ShapeInv'
      BY <1>1, <1>3, <1>7, OperationShape
    <2>2. QED
      BY <1>7, <2>1 DEF ShapeInv
  <1>8. \/ /\ call[t].rest # << >> /\ ~ WalkFound(t)
           /\ call' = [call EXCEPT ![t].rest = Tail(call[t].rest)]
           /\ UNCHANGED reply
        \/ (call[t].rest = << >> \/ WalkFound(t)) /\ Return(t, WalkValue(t))
        \/ /\ call[t].op = "update"
           /\ call' = [call EXCEPT ![t].value = WalkValue(t), ![t].rest = << >>, ![t].pc = "cas"]
           /\ UNCHANGED reply
    BY DEF HybridWalk, WalkFound, WalkValue
  <1>9. CASE /\ call[t].rest # << >> /\ ~ WalkFound(t)
             /\ call' = [call EXCEPT ![t].rest = Tail(call[t].rest)]
             /\ UNCHANGED reply
    <2> DEFINE c == [call[t] EXCEPT !.rest = Tail(call[t].rest)]
    <2>1. c \in TableCall
      <3>1. \A h \in Seq(Node) : [call[t] EXCEPT !.rest = h] \in TableCall
        BY <1>1, CallFields
      <3>2. QED
        BY <1>4, <1>9, <3>1
    <2>2. call' = [call EXCEPT ![t] = c]
      BY <1>9 DEF ShapeInv
    <2> HIDE DEF c
    <2>3. ShapeInv' /\ call'[t] = c /\ \A u \in Txn : u # t => call'[u] = call[u] /\ reply'[u] = reply[u]
      BY <1>7, <1>9, <2>1, <2>2
    <2>4. QED
      BY <1>1, <1>6, <1>9, <2>1, <2>3 DEF c
  <1>10. CASE (call[t].rest = << >> \/ WalkFound(t)) /\ Return(t, WalkValue(t))
    <2> DEFINE r == [op |-> call[t].op, key |-> call[t].key, result |-> WalkValue(t)]
    <2>1. call' = [call EXCEPT ![t] = NoCall] /\ reply' = [reply EXCEPT ![t] = r]
      BY <1>10 DEF Return
    <2>2. r \in Reply
      BY <1>2, <1>5 DEF Reply, Result
    <2> HIDE DEF r
    <2>3. ShapeInv'
      BY <1>1, <1>3, <2>1, <2>2, OperationShape
    <2>4. /\ call'[t] = NoCall /\ reply'[t] = r
          /\ \A u \in Txn : u # t => call'[u] = call[u] /\ reply'[u] = reply[u]
      BY <2>1 DEF ShapeInv
    <2>5. QED
      BY <1>1, <1>6, <1>10, <2>3, <2>4 DEF r
  <1>11. CASE /\ call[t].op = "update"
              /\ call' = [call EXCEPT ![t].value = WalkValue(t), ![t].rest = << >>, ![t].pc = "cas"]
              /\ UNCHANGED reply
    <2> DEFINE c == [call[t] EXCEPT !.value = WalkValue(t), !.rest = << >>, !.pc = "cas"]
    <2>1. c \in TableCall
      <3>1. \A h \in Seq(Node), v \in Node \union {Absent} :
              [call[t] EXCEPT !.value = v, !.rest = h, !.pc = "cas"] \in TableCall
        BY <1>1, CallFields
      <3>2. << >> \in Seq(Node)
        OBVIOUS
      <3>3. QED
        BY <1>5, <3>1, <3>2
    <2>2. call' = [call EXCEPT ![t] = c]
      BY <1>11 DEF ShapeInv
    <2> HIDE DEF c
    <2>3. ShapeInv' /\ call'[t] = c /\ \A u \in Txn : u # t => call'[u] = call[u] /\ reply'[u] = reply[u]
      BY <1>7, <1>11, <2>1, <2>2
    <2>4. QED
      BY <1>1, <1>6, <1>11, <2>1, <2>3 DEF c
  <1>12. QED
    BY <1>8, <1>9, <1>10, <1>11

\* A FastCommit transaction that aborts has nothing to roll back.
LEMMA FastAbortShape ==
  ASSUME TMTypeOK, ShapeInv, NEW t \in Txn, t \in fast, BeginAbortHybrid(t)
  PROVE  /\ ShapeInv' /\ UNCHANGED <<chain, stamped, redo, reply, start, commit, hybridVars>>
         /\ stage[t] = "active" /\ stage'[t] = "undoing"
         /\ \A u \in Txn : u # t => call'[u] = call[u] /\ stage'[u] = stage[u]
         /\ call'[t] \in RollbackCall /\ call'[t].pc = "load" /\ call'[t].next \notin DOMAIN redo[t]
  <1> DEFINE n == Len(redo[t]) + 1
             c == [op |-> "rollback", pc |-> "load", head |-> << >>, next |-> n]
  <1>1. /\ UNCHANGED <<chain, stamped, redo, reply, start, commit, hybridVars>>
        /\ stage[t] = "active" /\ stage' = [stage EXCEPT ![t] = "undoing"]
        /\ call' = [call EXCEPT ![t] = c]
    BY DEF BeginAbortHybrid, BeginAbort
  <1>2. n \in Nat \ {0} /\ n \notin DOMAIN redo[t]
    BY RedoShape
  <1> HIDE DEF n
  <1>3. c \in RollbackCall /\ c \notin TableCall /\ c.pc = "load" /\ c.next = n
    <2>1. << >> \in Seq(Node)
      OBVIOUS
    <2>2. QED
      BY <1>2, <2>1 DEF RollbackCall, TableCall
  <1> HIDE DEF c
  <1>4. /\ call'[t] = c /\ stage'[t] = "undoing"
        /\ \A u \in Txn : u # t => call'[u] = call[u] /\ stage'[u] = stage[u]
    BY <1>1 DEF ShapeInv, TMTypeOK
  <1>5. call' \in [Txn -> {NoCall} \union TableCall \union RollbackCall]
    BY <1>1, <1>3 DEF ShapeInv
  <1>6. ShapeInv'
    BY <1>1, <1>3, <1>4, <1>5 DEF ShapeInv
  <1>7. QED
    BY <1>1, <1>2, <1>3, <1>4, <1>6

\* Its commit leaves the table alone.
LEMMA FastCommitShape ==
  ASSUME TMTypeOK, ShapeInv, NEW t \in Txn, FinishCommitHybrid(t)
  PROVE  ShapeInv' /\ UNCHANGED <<hmtVars, hybridVars>>
  <1>1. /\ UNCHANGED <<hmtVars, hybridVars>>
        /\ stage[t] = "stamping" /\ stage'[t] \in {"logging", "committed"}
        /\ \A u \in Txn : u # t => stage'[u] = stage[u]
    BY DEF FinishCommitHybrid, FinishCommit, TMTypeOK
  <1>2. Idle(t)
    BY <1>1, CallShape
  <1>3. call[t] \notin TableCall /\ call[t] \notin RollbackCall
    BY <1>2, CallShape
  <1>4. QED
    BY <1>1, <1>3 DEF ShapeInv, hmtVars

\* Its own steps leave chains, stamps and redo nodes alone.
LEMMA OwnShape ==
  ASSUME TMTypeOK, ShapeInv, RoomInv, NEW t \in Txn, OwnStep(t)
  PROVE  /\ ShapeInv' /\ UNCHANGED <<chain, stamped, redo, hybridVars>>
         /\ \A u \in Txn : u # t => call'[u] = call[u] /\ reply'[u] = reply[u]
  <1>1. CASE HybridCheck(t) \/ HybridWalk(t)
    BY <1>1, CheckShape, WalkShape
  <1>2. CASE t \in fast /\ FinishCommitHybrid(t)
    BY <1>2, FastCommitShape DEF hmtVars
  <1>3. CASE t \in fast /\ BeginAbortHybrid(t)
    BY <1>3, FastAbortShape
  <1>4. QED
    BY <1>1, <1>2, <1>3 DEF OwnStep

\* The shape and the room hold on.
LEMMA HybridShapeNext ==
  ASSUME TMTypeOK, ShapeInv, RoomInv, [HybridNext]_allVars
  PROVE  ShapeInv' /\ RoomInv'
  <1>1. CASE [Next]_vars
    BY <1>1, ShapeNext, RoomNext
  <1>2. ASSUME NEW t \in Txn, OwnStep(t) PROVE ShapeInv' /\ RoomInv'
    <2>1. /\ ShapeInv' /\ UNCHANGED redo
          /\ \A u \in Txn : u # t => call'[u] = call[u]
      BY <1>2, OwnShape
    <2>2. NoCall \notin TableCall /\ RollbackCall \cap TableCall = {}
      BY DEF NoCall, TableCall, RollbackCall
    <2>3. call'[t] \in TableCall => \/ call'[t] = call[t]
                                    \/ /\ call[t] \in TableCall /\ call'[t].op = call[t].op
                                       /\ call[t].op = "get" => call'[t].pc = call[t].pc
      <3>1. CASE HybridCheck(t)
        BY <2>2, <3>1, CheckShape DEF TableCall
      <3>2. CASE HybridWalk(t)
        <4>1. call[t] \in TableCall /\ call[t].pc = "walk"
          BY <3>2, WalkShape
        <4>2. [call[t] EXCEPT !.rest = Tail(call[t].rest)].op = call[t].op
              /\ [call[t] EXCEPT !.rest = Tail(call[t].rest)].pc = call[t].pc
              /\ [call[t] EXCEPT !.value = WalkValue(t), !.rest = << >>, !.pc = "cas"].op = call[t].op
          BY <4>1 DEF TableCall
        <4>3. call[t].op = "update" => call[t].op # "get"
          OBVIOUS
        <4>4. QED
          BY <2>2, <3>2, <4>1, <4>2, <4>3, WalkShape
      <3>3. CASE t \in fast /\ FinishCommitHybrid(t)
        BY <3>3, FastCommitShape DEF hmtVars
      <3>4. CASE t \in fast /\ BeginAbortHybrid(t)
        BY <2>2, <3>4, FastAbortShape
      <3>5. QED
        BY <1>2, <3>1, <3>2, <3>3, <3>4 DEF OwnStep
    <2>4. QED
      BY <2>1, <2>3 DEF RoomInv
  <1>3. QED
    BY <1>1, <1>2, StepsOfTheTable

\* A step links a node, takes one off, or leaves chains and redo nodes alone.
LEMMA HybridChainMoves ==
  ASSUME TMTypeOK, ShapeInv, RoomInv, [HybridNext]_allVars
  PROVE  \/ UNCHANGED <<chain, redo>>
         \/ \E t \in Txn : Cas(t) /\ Linked(t)
         \/ \E t \in Txn : RollbackStep(t) /\ OwnHead(t)
  <1>1. CASE [Next]_vars
    BY <1>1, ChainMoves
  <1>2. ASSUME NEW t \in Txn, OwnStep(t) PROVE UNCHANGED <<chain, redo>>
    BY <1>2, OwnShape
  <1>3. QED
    BY <1>1, <1>2, StepsOfTheTable

\* Stamps and redo nodes stay, and only a commit stamps.
LEMMA HybridRedoStays ==
  ASSUME TMTypeOK, ShapeInv, RoomInv, [HybridNext]_allVars
  PROVE  /\ stamped \subseteq stamped'
         /\ \A n \in stamped' \ stamped : stage[n[1]] = "stamping"
         /\ \A u \in Txn : /\ stage[u] # "active" => redo'[u] = redo[u]
                           /\ \A i \in DOMAIN redo[u] : /\ i \in DOMAIN redo'[u]
                                                        /\ redo'[u][i] = redo[u][i]
  <1>1. CASE [Next]_vars
    BY <1>1, StampedMoves
  <1>2. ASSUME NEW t \in Txn, OwnStep(t) PROVE UNCHANGED <<stamped, redo>>
    BY <1>2, OwnShape
  <1>3. QED
    BY <1>1, <1>2, StepsOfTheTable

\* Linked nodes have redo nodes.
LEMMA HybridLinkedNext ==
  ASSUME TMTypeOK, ShapeInv, RoomInv, UndoInv, LinkedInv, [HybridNext]_allVars
  PROVE  LinkedInv'
  <1>1. CASE [Next]_vars
    BY <1>1, LinkedNext
  <1>2. ASSUME NEW t \in Txn, OwnStep(t) PROVE LinkedInv'
    <2>1. UNCHANGED <<chain, redo>>
      BY <1>2, OwnShape
    <2>2. \A u \in Txn : Started(u) => Started(u)'
      BY HybridManagerStep, StageMoves
    <2>3. \A k \in Key : \A i \in DOMAIN chain[k] : chain[k][i][1] \in Txn
      BY ChainShape
    <2>4. QED
      BY <2>1, <2>2, <2>3 DEF LinkedInv, Started
  <1>3. QED
    BY <1>1, <1>2, StepsOfTheTable

-----------------------------------------------------------------------------
(* Snapshots.                                                              *)

\* t has a snapshot, and it does not take u for one in progress.
Sees(t, u) == snapshot[t] # NoSnapshot /\ ~ InProgressIn(snapshot[t], start[u])

\* latest_completed_xid is above every start timestamp that has left xips.
CompletedInv ==
  /\ completed < counter
  /\ \A u \in Txn : Started(u) /\ ~ InProgress(u) => start[u] <= completed

\* Whoever is in progress, or has not started yet, is in progress in every
\* snapshot that another transaction has taken.
SnapshotsInv ==
  /\ DOMAIN snapshot = Txn
  /\ \A t \in Txn : snapshot[t] # NoSnapshot =>
       /\ Started(t)
       /\ snapshot[t].min \in Nat /\ snapshot[t].max \in Nat
       /\ snapshot[t].min <= snapshot[t].max /\ snapshot[t].max <= counter
       /\ \A u \in Txn : u # t /\ InProgress(u) => InProgressIn(snapshot[t], start[u])

\* What record_snapshot records is exact.
LEMMA RecordedIsExact ==
  ASSUME TMIndInv, CompletedInv, NEW t \in Txn
  PROVE  /\ Recorded(t).min \in Nat /\ Recorded(t).max \in Nat
         /\ Recorded(t).min <= Recorded(t).max /\ Recorded(t).max <= counter
         /\ \A u \in Txn : u # t /\ InProgress(u) => InProgressIn(Recorded(t), start[u])
         /\ \A u \in Txn : Started(u) /\ ~ InProgress(u) => ~ InProgressIn(Recorded(t), start[u])
  <1> DEFINE max == completed + 1
             below == {x \in xips : x < max}
             min == MinOfSet(below \union {max})
             s == [min |-> min, max |-> max, xips |-> below \ {start[t]}]
  <1>1. completed \in Nat /\ counter \in Nat /\ xips \subseteq Nat /\ \A u \in Txn : start[u] \in Nat
    BY DEF TMIndInv, TMTypeOK, Timestamp
  <1>2. max \in Nat /\ below \subseteq xips
    BY <1>1
  <1>3. min \in below \union {max} /\ \A x \in below \union {max} : min <= x
    BY <1>1, <1>2, LeastExists
  <1>4. s.min = min /\ s.max = max /\ s.xips = below \ {start[t]}
    OBVIOUS
  <1>5. Recorded(t) = s
    BY DEF Recorded
  <1>6. min \in Nat /\ min <= max /\ max <= counter
    <2>1. below \union {max} \subseteq Nat
      BY <1>1, <1>2
    <2>2. min \in Nat /\ min <= max
      BY <1>3, <2>1
    <2> HIDE DEF min, below
    <2>3. max <= counter
      BY <1>1 DEF CompletedInv
    <2>4. QED
      BY <2>2, <2>3
  <1>7. \A u \in Txn : start[u] \in xips <=> InProgress(u)
    BY DEF TMIndInv, XipsExact, InProgress, Started
  <1>8. ASSUME NEW u \in Txn, u # t, InProgress(u) PROVE InProgressIn(s, start[u])
    <2>1. start[u] # start[t]
      BY <1>8 DEF TMIndInv, XipsExact, InProgress, Started
    <2>2. CASE start[u] >= max
      BY <1>1, <1>4, <1>6, <2>2 DEF InProgressIn
    <2>3. CASE start[u] < max
      <3>1. start[u] \in below
        BY <1>7, <1>8, <2>3
      <3>2. start[u] >= min
        BY <1>1, <1>3, <1>6, <3>1
      <3>3. QED
        BY <1>4, <2>1, <3>1, <3>2 DEF InProgressIn
    <2>4. QED
      BY <1>1, <1>2, <2>2, <2>3
  <1>9. ASSUME NEW u \in Txn, Started(u), ~ InProgress(u) PROVE ~ InProgressIn(s, start[u])
    <2>1. start[u] <= completed /\ start[u] \notin xips
      BY <1>7, <1>9 DEF CompletedInv
    <2>2. ~ (start[u] >= max) /\ start[u] \notin below
      BY <1>1, <2>1
    <2>3. QED
      BY <1>4, <2>2 DEF InProgressIn
  <1> HIDE DEF s, max, min, below
  <1>10. QED
    BY <1>2, <1>4, <1>5, <1>6, <1>8, <1>9

\* What leaves xips is counted by latest_completed_xid.
LEMMA CompletedNext ==
  ASSUME TMIndInv, CompletedInv, [TMNext]_tmVars
  PROVE  CompletedInv' /\ counter <= counter'
  <1>1. /\ completed \in Nat /\ counter \in Nat /\ completed < counter
        /\ \A u \in Txn : start[u] \in Nat /\ start[u] < counter
    BY DEF TMIndInv, TMTypeOK, Timestamp, DrawnFromCounter, CompletedInv
  <1>2. ASSUME UNCHANGED <<counter, completed, start>>,
               \A u \in Txn : stage'[u] = stage[u] \/ stage'[u] \in {"active", "stamping"}
                              \/ (Started(u) /\ ~ InProgress(u))
        PROVE  CompletedInv' /\ counter <= counter'
    BY <1>1, <1>2 DEF CompletedInv, Started, InProgress
  <1>3. CASE UNCHANGED tmVars
    BY <1>2, <1>3 DEF tmVars
  <1>4. CASE MinXip
    BY <1>2, <1>4 DEF MinXip
  <1>5. ASSUME NEW t \in Txn, TMTxnStep(t) PROVE CompletedInv' /\ counter <= counter'
    <2>1. CASE Start(t)
      <3>1. /\ counter' = counter + 1 /\ UNCHANGED completed /\ stage'[t] = "active"
            /\ \A u \in Txn : u # t => stage'[u] = stage[u] /\ start'[u] = start[u]
        BY <2>1 DEF Start, TMIndInv, TMTypeOK
      <3>2. QED
        BY <1>1, <3>1 DEF CompletedInv, Started, InProgress
    <2>2. CASE BeginCommit(t)
      <3>1. /\ counter' = counter + 1 /\ UNCHANGED <<completed, start>> /\ stage'[t] = "stamping"
            /\ \A u \in Txn : u # t => stage'[u] = stage[u]
        BY <2>2 DEF BeginCommit, TMIndInv, TMTypeOK
      <3>2. QED
        BY <1>1, <3>1 DEF CompletedInv, Started, InProgress
    <2>3. ASSUME LeaveXips(t), UNCHANGED <<counter, start>>, \A u \in Txn : u # t => stage'[u] = stage[u]
          PROVE  CompletedInv' /\ counter <= counter'
      <3>1. /\ completed' \in {completed, start[t]} /\ completed <= completed'
            /\ start[t] <= completed'
        BY <1>1, <2>3 DEF LeaveXips
      <3>2. completed' < counter' /\ completed' \in Nat
        BY <1>1, <2>3, <3>1
      <3>3. ASSUME NEW u \in Txn, Started(u)', ~ InProgress(u)'
            PROVE  start'[u] <= completed'
        <4>1. CASE u = t
          BY <2>3, <3>1, <4>1
        <4>2. CASE u # t
          <5>1. start[u] <= completed
            BY <2>3, <3>3, <4>2 DEF CompletedInv, Started, InProgress
          <5>2. QED
            BY <1>1, <2>3, <3>1, <3>2, <5>1
        <4>3. QED
          BY <4>1, <4>2
      <3>4. QED
        BY <1>1, <2>3, <3>2, <3>3 DEF CompletedInv
    <2>4. ASSUME NEW r \in BOOLEAN, FinishCommit(t, r) PROVE CompletedInv' /\ counter <= counter'
      BY <2>3, <2>4 DEF FinishCommit
    <2>5. CASE BeginAbort(t)
      BY <2>3, <2>5 DEF BeginAbort
    <2>6. CASE LogCommit(t) \/ FinishAbort(t)
      <3>1. /\ stage[t] \in {"logging", "undoing"} /\ UNCHANGED <<counter, completed, start>>
            /\ \A u \in Txn : u # t => stage'[u] = stage[u]
        BY <2>6 DEF LogCommit, FinishAbort, TMIndInv, TMTypeOK
      <3>2. QED
        BY <1>2, <3>1 DEF Started, InProgress
    <2>7. QED
      BY <1>5, <2>1, <2>2, <2>4, <2>5, <2>6 DEF TMTxnStep
  <1>6. QED
    BY <1>3, <1>4, <1>5 DEF TMNext

\* A snapshot is recorded at most once, and never of one who has not started.
LEMMA SnapshotMoves ==
  ASSUME [HybridNext]_allVars
  PROVE  UNCHANGED snapshot \/ \E t \in Txn : TakeSnapshot(t)
  <1>1. CASE UNCHANGED allVars
    BY <1>1 DEF allVars, hybridVars
  <1>2. ASSUME NEW t \in Txn, \/ StartHybrid(t) \/ HybridCheck(t) \/ HybridWalk(t) \/ Shared(t)
                             \/ StampHybrid(t) \/ FinishCommitHybrid(t) \/ LogCommitHybrid(t)
                             \/ BeginAbortHybrid(t) \/ FinishAbortHybrid(t)
        PROVE  UNCHANGED snapshot
    BY <1>2 DEF StartHybrid, HybridCheck, HybridWalk, Shared, StampHybrid, FinishCommitHybrid,
       LogCommitHybrid, BeginAbortHybrid, FinishAbortHybrid, hybridVars
  <1>3. QED
    BY <1>1, <1>2 DEF HybridNext

\* Snapshots do not age: who starts later has a timestamp above them.
LEMMA SnapshotsNext ==
  ASSUME TMIndInv, CompletedInv, SnapshotsInv, [HybridNext]_allVars
  PROVE  SnapshotsInv'
  <1> DEFINE Good(s, t, c) == /\ s.min \in Nat /\ s.max \in Nat /\ s.min <= s.max /\ s.max <= c
                              /\ \A u \in Txn : u # t /\ InProgress(u) => InProgressIn(s, start[u])
  <1>1. /\ [TMNext]_tmVars /\ TMTypeOK /\ TMTypeOK' /\ counter <= counter'
        /\ counter \in Nat /\ counter' \in Nat
    <2>1. [TMNext]_tmVars /\ TMTypeOK
      BY HybridManagerStep DEF TMIndInv
    <2>2. TMTypeOK' /\ counter <= counter'
      BY <2>1, TMNextInv, CompletedNext DEF TMIndInv
    <2>3. QED
      BY <2>1, <2>2, MaxTsAssumption DEF TMTypeOK
  <1>2. ASSUME NEW u \in Txn, InProgress(u)'
        PROVE  (start'[u] = start[u] /\ InProgress(u)) \/ start'[u] = counter
    <2>1. CASE UNCHANGED tmVars \/ MinXip
      BY <1>2, <2>1 DEF tmVars, MinXip, InProgress
    <2>2. ASSUME NEW t \in Txn, Start(t) PROVE (start'[u] = start[u] /\ InProgress(u)) \/ start'[u] = counter
      BY <1>1, <1>2, <2>2 DEF Start, InProgress, TMTypeOK
    <2>3. ASSUME NEW t \in Txn, \/ BeginCommit(t) \/ LogCommit(t) \/ BeginAbort(t) \/ FinishAbort(t)
                               \/ \E r \in BOOLEAN : FinishCommit(t, r)
          PROVE  start'[u] = start[u] /\ InProgress(u)
      BY <1>1, <1>2, <2>3 DEF BeginCommit, LogCommit, BeginAbort, FinishAbort, FinishCommit,
         InProgress, TMTypeOK
    <2>4. QED
      BY <1>1, <2>1, <2>2, <2>3 DEF TMNext, TMTxnStep
  <1>3. ASSUME NEW s, NEW t \in Txn, Good(s, t, counter)
        PROVE  /\ s.min \in Nat /\ s.max \in Nat /\ s.min <= s.max /\ s.max <= counter'
               /\ \A u \in Txn : u # t /\ InProgress(u)' => InProgressIn(s, start'[u])
    <2>1. s.max <= counter'
      BY <1>1, <1>3
    <2>2. ASSUME NEW u \in Txn, u # t, InProgress(u)' PROVE InProgressIn(s, start'[u])
      <3>1. CASE start'[u] = start[u] /\ InProgress(u)
        BY <1>3, <2>2, <3>1
      <3>2. CASE start'[u] = counter
        BY <1>1, <1>3, <3>2 DEF InProgressIn
      <3>3. QED
        BY <1>2, <2>2, <3>1, <3>2
    <2>3. QED
      BY <1>3, <2>1, <2>2
  <1>4. DOMAIN snapshot' = Txn
    BY SnapshotMoves DEF SnapshotsInv, TakeSnapshot
  <1>5. ASSUME NEW t \in Txn, snapshot'[t] # NoSnapshot
        PROVE  Started(t)' /\ Good(snapshot'[t], t, counter)
    <2>1. CASE snapshot'[t] = snapshot[t]
      <3>1. Started(t) /\ Good(snapshot[t], t, counter)
        BY <1>5, <2>1 DEF SnapshotsInv
      <3>2. Started(t)'
        BY <1>1, <3>1, StageMoves
      <3>3. QED
        BY <2>1, <3>1, <3>2
    <2>2. CASE snapshot'[t] # snapshot[t]
      <3>1. TakeSnapshot(t) /\ snapshot'[t] = Recorded(t)
        BY <2>2, SnapshotMoves DEF TakeSnapshot, SnapshotsInv
      <3>2. Started(t)'
        BY <3>1 DEF TakeSnapshot, At, Started, vars
      <3>3. QED
        BY <3>1, <3>2, RecordedIsExact
    <2>3. QED
      BY <2>1, <2>2
  <1> HIDE DEF Good
  <1>6. \A t \in Txn : snapshot'[t] # NoSnapshot =>
          /\ Started(t)'
          /\ snapshot'[t].min \in Nat /\ snapshot'[t].max \in Nat
          /\ snapshot'[t].min <= snapshot'[t].max /\ snapshot'[t].max <= counter'
          /\ \A u \in Txn : u # t /\ InProgress(u)' => InProgressIn(snapshot'[t], start'[u])
    BY <1>3, <1>5
  <1>7. QED
    BY <1>4, <1>6 DEF SnapshotsInv, InProgressIn

-----------------------------------------------------------------------------
(* What a writer has checked.                                              *)

\* A commit timestamp is drawn from the counter; who has left xips stays out.
LEMMA TimesMove ==
  ASSUME TMTypeOK, [TMNext]_tmVars, NEW u \in Txn
  PROVE  /\ commit'[u] = commit[u] \/ commit'[u] = counter
         /\ Started(u) /\ ~ InProgress(u) => ~ InProgress(u)'
         /\ stage[u] \in {"undoing", "aborted"} => stage'[u] \in {"undoing", "aborted"}
  <1> USE DEF Started, InProgress, TMTypeOK
  <1>1. CASE UNCHANGED tmVars
    BY <1>1 DEF tmVars
  <1>2. CASE MinXip
    BY <1>2 DEF MinXip
  <1>3. ASSUME NEW t \in Txn, Start(t) \/ BeginCommit(t)
        PROVE  /\ commit'[u] = commit[u] \/ commit'[u] = counter
               /\ Started(u) /\ ~ InProgress(u) => ~ InProgress(u)'
               /\ stage[u] \in {"undoing", "aborted"} => stage'[u] \in {"undoing", "aborted"}
    BY <1>3 DEF Start, BeginCommit
  <1>4. ASSUME NEW t \in Txn, NEW r \in BOOLEAN, FinishCommit(t, r)
        PROVE  /\ commit'[u] = commit[u]
               /\ Started(u) /\ ~ InProgress(u) => ~ InProgress(u)'
               /\ stage[u] \in {"undoing", "aborted"} => stage'[u] \in {"undoing", "aborted"}
    BY <1>4 DEF FinishCommit
  <1>5. ASSUME NEW t \in Txn, LogCommit(t) \/ BeginAbort(t) \/ FinishAbort(t)
        PROVE  /\ commit'[u] = commit[u]
               /\ Started(u) /\ ~ InProgress(u) => ~ InProgress(u)'
               /\ stage[u] \in {"undoing", "aborted"} => stage'[u] \in {"undoing", "aborted"}
    BY <1>5 DEF LogCommit, BeginAbort, FinishAbort
  <1>6. QED
    BY <1>1, <1>2, <1>3, <1>4, <1>5 DEF TMNext, TMTxnStep

\* The steps that move the operation of a thread are its own.
LEMMA HybridCallMoves ==
  ASSUME TMTypeOK, ShapeInv, RoomInv, [HybridNext]_allVars, NEW u \in Txn, call'[u] # call[u]
  PROVE  \/ HybridCheck(u) \/ HybridWalk(u) \/ Reload(u) \/ ReadForUpdate(u) \/ Cas(u)
         \/ \E op \in {"get", "put", "update", "delete"}, k \in Key : Call(u, op, k)
         \/ RollbackLoad(u) \/ RollbackStep(u) \/ BeginAbortHybrid(u) \/ FinishAbortHybrid(u)
  <1> DEFINE Moves(t) ==
         \/ HybridCheck(t) \/ HybridWalk(t) \/ Reload(t) \/ ReadForUpdate(t) \/ Cas(t)
         \/ \E op \in {"get", "put", "update", "delete"}, k \in Key : Call(t, op, k)
         \/ RollbackLoad(t) \/ RollbackStep(t) \/ BeginAbortHybrid(t) \/ FinishAbortHybrid(t)
  <1>1. PICK t \in Txn :
          \/ StartHybrid(t) \/ TakeSnapshot(t) \/ HybridCheck(t) \/ HybridWalk(t) \/ Shared(t)
          \/ StampHybrid(t) \/ FinishCommitHybrid(t) \/ LogCommitHybrid(t)
          \/ BeginAbortHybrid(t) \/ FinishAbortHybrid(t)
    BY DEF HybridNext, allVars, vars
  <1>2. ~ (StartHybrid(t) \/ TakeSnapshot(t) \/ StampHybrid(t) \/ FinishCommitHybrid(t) \/ LogCommitHybrid(t))
    BY DEF StartHybrid, TakeSnapshot, StampHybrid, FinishCommitHybrid, LogCommitHybrid,
       StartTxn, Stamp, LogCommitTxn, vars, hmtVars
  <1>3. ~ BeginCommitTxn(t)
    BY DEF BeginCommitTxn, hmtVars
  <1>4. \A op \in Ops[t] : op \in {"get", "put", "update", "delete"}
    BY OpsAssumption
  <1>5. Moves(t)
    <2>1. ASSUME NEW op \in Ops[t], NEW k \in Key, Call(t, op, k) PROVE Moves(t)
      BY <1>4, <2>1
    <2>2. (Reload(t) \/ ReadForUpdate(t) \/ Cas(t) \/ RollbackLoad(t) \/ RollbackStep(t)) => Moves(t)
      OBVIOUS
    <2> HIDE DEF Moves
    <2>3. Shared(t) => Moves(t)
      BY <1>3, <2>1, <2>2 DEF Shared
    <2>4. (HybridCheck(t) \/ HybridWalk(t) \/ BeginAbortHybrid(t) \/ FinishAbortHybrid(t)) => Moves(t)
      BY DEF Moves
    <2>5. QED
      BY <1>1, <1>2, <2>3, <2>4
  <1>6. \A v \in Txn : v # t => call'[v] = call[v]
    <2>1. HybridCheck(t) => \A v \in Txn : v # t => call'[v] = call[v]
      BY CheckShape
    <2>2. HybridWalk(t) => \A v \in Txn : v # t => call'[v] = call[v]
      BY WalkShape
    <2>3. CASE \/ Reload(t) \/ ReadForUpdate(t)
               \/ \E op \in {"get", "put", "update", "delete"}, k \in Key : Call(t, op, k)
      BY <2>3, ReadingShape
    <2>4. CASE Cas(t)
      BY <2>4, CasShape
    <2>5. CASE RollbackLoad(t) \/ RollbackStep(t)
      BY <2>5, RollbackLoadShape, RollbackStepShape
    <2>6. CASE BeginAbortHybrid(t) \/ FinishAbortHybrid(t)
      BY <2>6 DEF BeginAbortHybrid, FinishAbortHybrid, FinishAbortTxn, ShapeInv
    <2>7. QED
      BY <1>5, <2>1, <2>2, <2>3, <2>4, <2>5, <2>6
  <1>7. u = t
    BY <1>6
  <1>8. QED
    BY <1>5, <1>7

\* The head that a writer goes on with is no conflict; if it is a version of a
\* FastCommit transaction, the writer has a snapshot.
Agreed(t, n) ==
  ~ HybridConflict(t, n) /\ (Owner(n) \in fast => snapshot[t] # NoSnapshot)

HybridCheckedInv ==
  \A t \in Txn : HoldsChecked(call[t]) => Agreed(t, Head(call[t].head))

\* No conflict arises later: a snapshot is recorded once, a stamp is final.
LEMMA AgreedStays ==
  ASSUME TMIndInv, ShapeInv, RoomInv, ModesInv, SnapshotsInv, [HybridNext]_allVars,
         NEW t \in Txn, stage[t] = "active", NEW n \in Node, Agreed(t, n)
  PROVE  Agreed(t, n)'
  <1> DEFINE o == Owner(n)
  <1>1. TMTypeOK /\ [TMNext]_tmVars /\ o \in Txn /\ o = n[1]
    BY HybridManagerStep DEF TMIndInv, Node, Owner
  <1>2. Started(t) /\ start'[t] = start[t]
    BY <1>1, StageMoves DEF Started
  <1>3. Started(o)
    <2>1. CASE o \in fast
      BY <2>1 DEF ModesInv
    <2>2. CASE o \notin fast /\ n \in stamped
      BY <2>2 DEF ModesInv, InCommit, Started
    <2>3. CASE o \notin fast /\ n \notin stamped
      BY <1>2, <2>3 DEF Agreed, HybridConflict, WWConflict
    <2>4. QED
      BY <2>1, <2>2, <2>3
  <1>4. o \in fast' <=> o \in fast
    BY <1>1, <1>3, ModesMove DEF Started
  <1>5. start'[o] = start[o]
    BY <1>1, <1>3, StageMoves
  <1>6. CASE o \in fast
    <2>1. snapshot'[t] = snapshot[t]
      BY <1>6, SnapshotMoves DEF Agreed, TakeSnapshot, SnapshotsInv
    <2>2. QED
      BY <1>4, <1>5, <1>6, <2>1 DEF Agreed, HybridConflict, InProgressIn, Owner
  <1>7. CASE o \notin fast
    <2>1. CASE n \in stamped
      <3>1. n \in stamped' /\ commit'[o] = commit[o]
        BY <1>1, <2>1, HybridRedoStays, StageMoves DEF ModesInv
      <3>2. QED
        BY <1>2, <1>4, <1>7, <2>1, <3>1 DEF Agreed, HybridConflict, WWConflict, Owner
    <2>2. CASE n \notin stamped
      <3>1. o = t
        BY <1>7, <2>2 DEF Agreed, HybridConflict, WWConflict
      <3>2. n \notin stamped'
        BY <1>1, <2>2, <3>1, HybridRedoStays
      <3>3. QED
        BY <1>4, <1>7, <3>1, <3>2 DEF Agreed, HybridConflict, WWConflict, Owner
    <2>3. QED
      BY <2>1, <2>2
  <1>8. QED
    BY <1>6, <1>7

\* HybridCheck is the only way to hold a head.
LEMMA HybridCheckedNext ==
  ASSUME TMIndInv, ShapeInv, RoomInv, ModesInv, SnapshotsInv, HybridCheckedInv, [HybridNext]_allVars
  PROVE  HybridCheckedInv'
  <1> TMTypeOK
    BY DEF TMIndInv
  <1>1. ASSUME NEW t \in Txn, HoldsChecked(call[t]), NEW n, n = Head(call[t].head)
        PROVE  Agreed(t, n)'
    <2>1. stage[t] = "active"
      BY <1>1 DEF ShapeInv, HoldsChecked
    <2>2. call[t].head \in Seq(Node) /\ call[t].head # << >>
      BY <1>1, CallFields DEF HoldsChecked
    <2>3. n \in Node
      BY <1>1, <2>2, PopFacts
    <2>4. Agreed(t, n)
      BY <1>1 DEF HybridCheckedInv
    <2>5. QED
      BY <2>1, <2>3, <2>4, AgreedStays
  <1>2. NoCall \notin TableCall /\ RollbackCall \cap TableCall = {}
    BY DEF NoCall, TableCall, RollbackCall
  <1>3. ASSUME NEW t \in Txn, HybridCheck(t), HoldsChecked(call'[t]), NEW n, n = Head(call'[t].head)
        PROVE  Agreed(t, n)'
    <2>1. /\ stage[t] = "active" /\ call[t] \in TableCall
          /\ \E p \in {"cas", "read"} : call'[t] = [call[t] EXCEPT !.pc = p]
          /\ call[t].head # << >> => /\ ~ HybridConflict(t, Head(call[t].head))
                                     /\ Owner(Head(call[t].head)) \in fast => snapshot[t] # NoSnapshot
      BY <1>2, <1>3, CheckShape DEF HoldsChecked
    <2>2. call'[t].head = call[t].head
      BY <2>1 DEF TableCall
    <2>3. call[t].head \in Seq(Node) /\ call[t].head # << >>
      BY <1>3, <2>1, <2>2, CallFields DEF HoldsChecked
    <2>4. n \in Node /\ Agreed(t, n)
      BY <1>3, <2>1, <2>2, <2>3, PopFacts DEF Agreed
    <2>5. QED
      BY <2>1, <2>4, AgreedStays
  <1>4. ASSUME NEW t \in Txn, HybridWalk(t) \/ ReadForUpdate(t), HoldsChecked(call'[t])
        PROVE  HoldsChecked(call[t]) /\ call'[t].head = call[t].head
    <2>1. CASE HybridWalk(t)
      <3>1. call[t] \in TableCall /\ call[t].pc = "walk"
        BY <2>1, WalkShape
      <3>2. call'[t] # NoCall
        BY <1>2, <1>4 DEF HoldsChecked
      <3>3. \/ call'[t] = [call[t] EXCEPT !.rest = Tail(call[t].rest)]
            \/ call'[t] = [call[t] EXCEPT !.value = WalkValue(t), !.rest = << >>, !.pc = "cas"]
        BY <2>1, <3>2, WalkShape
      <3>4. call'[t].head = call[t].head /\ call'[t].op = call[t].op
        BY <3>1, <3>3 DEF TableCall
      <3>5. QED
        BY <1>4, <3>1, <3>4 DEF HoldsChecked
    <2>2. CASE ReadForUpdate(t)
      <3>1. /\ call[t] \in TableCall /\ call[t].pc = "read"
        BY <2>2, CallShape DEF ReadForUpdate, At
      <3>2. call'[t].head = call[t].head /\ call'[t].op = call[t].op
        BY <2>2, <3>1 DEF ReadForUpdate, ShapeInv, TableCall
      <3>3. QED
        BY <1>4, <3>1, <3>2 DEF HoldsChecked
    <2>3. QED
      BY <1>4, <2>1, <2>2
  <1>5. ASSUME NEW t \in Txn,
               \/ Reload(t) \/ Cas(t)
               \/ \E op \in {"get", "put", "update", "delete"}, k \in Key : Call(t, op, k)
        PROVE  ~ HoldsChecked(call'[t])
    <2>1. CASE Reload(t)
      <3>1. call[t] \in TableCall
        BY <2>1, CallShape DEF Reload, At
      <3>2. call'[t].pc = "check"
        BY <2>1, <3>1 DEF Reload, ShapeInv, TableCall
      <3>3. QED
        BY <3>2 DEF HoldsChecked
    <2>2. CASE Cas(t)
      <3>1. \/ call'[t] = NoCall
            \/ call'[t] = [call[t] EXCEPT !.pc = "load"] /\ call[t] \in TableCall
        BY <2>2, CasShape DEF Linked
      <3>2. call'[t] = NoCall \/ call'[t].pc = "load"
        BY <3>1 DEF TableCall
      <3>3. QED
        BY <1>2, <3>2 DEF HoldsChecked
    <2>3. ASSUME NEW op \in {"get", "put", "update", "delete"}, NEW k \in Key, Call(t, op, k)
          PROVE  ~ HoldsChecked(call'[t])
      <3>1. call'[t].op = op /\ call'[t].pc = IF op = "get" THEN "walk" ELSE "check"
        BY <2>3 DEF Call, ShapeInv
      <3>2. QED
        BY <3>1 DEF HoldsChecked
    <2>4. QED
      BY <1>5, <2>1, <2>2, <2>3
  <1>6. ASSUME NEW t \in Txn,
               RollbackLoad(t) \/ RollbackStep(t) \/ BeginAbortHybrid(t) \/ FinishAbortHybrid(t)
        PROVE  ~ HoldsChecked(call'[t])
    <2>1. ShapeInv'
      BY HybridShapeNext
    <2>2. CASE RollbackLoad(t) \/ RollbackStep(t)
      <3>1. call'[t] \in RollbackCall
        BY <2>2, RollbackLoadShape, RollbackStepShape
      <3>2. QED
        BY <1>2, <3>1 DEF HoldsChecked
    <2>3. CASE BeginAbortHybrid(t) \/ FinishAbortHybrid(t)
      <3>1. stage'[t] # "active"
        BY <2>3 DEF BeginAbortHybrid, FinishAbortHybrid, FinishAbortTxn, BeginAbort, FinishAbort, TMTypeOK
      <3>2. QED
        BY <2>1, <3>1 DEF HoldsChecked, ShapeInv
    <2>4. QED
      BY <1>6, <2>2, <2>3
  <1>7. ASSUME NEW t \in Txn, HoldsChecked(call'[t]), NEW n, n = Head(call'[t].head)
        PROVE  Agreed(t, n)'
    <2>1. CASE call'[t] = call[t]
      BY <1>1, <1>7, <2>1
    <2>2. CASE call'[t] # call[t]
      <3>1. HybridCheck(t) \/ HybridWalk(t) \/ ReadForUpdate(t)
        BY <1>5, <1>6, <1>7, <2>2, HybridCallMoves
      <3>2. QED
        BY <1>1, <1>3, <1>4, <1>7, <3>1
    <2>3. QED
      BY <2>1, <2>2
  <1>8. QED
    BY <1>7 DEF HybridCheckedInv, Agreed, HybridConflict, WWConflict, InProgressIn, Owner, HoldsChecked

-----------------------------------------------------------------------------
(* Writers take turns.                                                     *)

\* u committed before t started.
EndedBefore(u, t) == commit[u] # InvalidTs /\ commit[u] < start[t]

\* u is over, and if it is a FastCommit transaction, every snapshot in which v
\* is over, and that of v itself, takes u for over.
TakesTurn(v, u) ==
  /\ ~ InProgress(u)
  /\ u \in fast => \A t \in Txn :
       snapshot[t] # NoSnapshot /\ (t = v \/ Sees(t, v) \/ EndedBefore(v, t)) => Sees(t, u)

\* A normal version right below another was committed before that one's start.
Above(v, u) == u \notin fast => Committed(u) /\ commit[u] < start[v]

TurnsInv ==
  \A k \in Key : \A i, j \in DOMAIN chain[k] : \A v, u \in Txn :
    i < j /\ v = Owner(chain[k][i]) /\ u = Owner(chain[k][j]) /\ v # u =>
      TakesTurn(v, u) /\ (j = i + 1 => Above(v, u))

\* Below the head that a writer has checked everybody else is over.
LEMMA CasTakesTurn ==
  ASSUME TMIndInv, TimesInv, ShapeInv, RoomInv, ModesInv, SnapshotsInv, HybridCheckedInv, TurnsInv,
         NEW t \in Txn, Cas(t), Linked(t),
         NEW j \in DOMAIN chain[call[t].key], Owner(chain[call[t].key][j]) # t
  PROVE  LET u == Owner(chain[call[t].key][j]) IN TakesTurn(t, u) /\ (j = 1 => Above(t, u))
  <1> DEFINE k == call[t].key
             s == chain[k]
             top == s[1]
             o == Owner(top)
             u == Owner(s[j])
  <1>1. /\ stage[t] = "active" /\ call[t] \in TableCall /\ call[t].pc = "cas" /\ call[t].op # "get"
        /\ s = call[t].head /\ TMTypeOK
    BY CasShape DEF RoomInv, Linked, TMIndInv
  <1>2. k \in Key
    BY <1>1, CallFields
  <1>3. /\ s \in Seq(Node) /\ Len(s) \in Nat /\ DOMAIN s = 1 .. Len(s)
        /\ \A i \in DOMAIN s : s[i] \in Node /\ Owner(s[i]) \in Txn
    BY <1>2, ChainShape
  <1>4. 1 \in DOMAIN s /\ j \in 1 .. Len(s) /\ s # << >>
    BY <1>3
  <1>5. o \in Txn /\ u \in Txn /\ top \in Node /\ Head(s) = top
    BY <1>3, <1>4, PopFacts
  <1>6. Agreed(t, top)
    <2>1. HoldsChecked(call[t])
      BY <1>1, <1>4 DEF HoldsChecked
    <2>2. QED
      BY <1>1, <1>5, <2>1 DEF HybridCheckedInv
  <1>7. /\ start[t] \in Nat /\ start[o] \in Nat /\ commit[o] \in Nat
        /\ InProgress(t) /\ Started(t) /\ commit[t] = InvalidTs
    BY <1>1, <1>5 DEF TMIndInv, TMTypeOK, Timestamp, InProgress, Started, CommitDrawnInCommit, Committed
  <1>8. o # t /\ o \notin fast => Committed(o) /\ EndedBefore(o, t)
    <2>1. SUFFICES ASSUME o # t, o \notin fast PROVE Committed(o) /\ EndedBefore(o, t)
      OBVIOUS
    <2>2. top \in stamped /\ ~ (commit[o] > start[t])
      BY <1>6, <2>1 DEF Agreed, HybridConflict, WWConflict
    <2>3. stage[o] \in InCommit
      BY <2>2 DEF ModesInv
    <2>4. stage[o] = "stamping" => start[t] < commit[o]
      BY <1>5, <1>7 DEF TMIndInv, NoLowerCommitInFlight
    <2>5. Committed(o)
      BY <1>7, <2>2, <2>3, <2>4 DEF InCommit, Committed
    <2>6. commit[o] # InvalidTs
      BY <1>5, <2>5 DEF TMIndInv, CommitDrawnInCommit
    <2>7. start[t] # commit[o]
      BY <1>5, <1>7, <2>6 DEF TimesInv
    <2>8. QED
      BY <1>7, <2>2, <2>5, <2>6, <2>7 DEF EndedBefore
  <1>9. o # t /\ o \in fast => Sees(t, o)
    BY <1>6 DEF Agreed, HybridConflict, Sees
  <1>10. o # t => ~ InProgress(o)
    <2>1. o # t /\ o \in fast => ~ InProgress(o)
      BY <1>5, <1>9 DEF Sees, SnapshotsInv
    <2>2. QED
      BY <1>8, <2>1 DEF Committed, InProgress
  <1>11. o # u => TakesTurn(o, u)
    <2>1. j # 1 => 1 < j
      BY <1>4
    <2>2. QED
      BY <1>2, <1>3, <1>4, <1>5, <2>1 DEF TurnsInv
  <1>12. ~ InProgress(u)
    BY <1>10, <1>11 DEF TakesTurn
  <1>13. ASSUME u \in fast, snapshot[t] # NoSnapshot PROVE Sees(t, u)
    BY <1>5, <1>8, <1>9, <1>11, <1>13 DEF TakesTurn
  <1>14. ASSUME NEW w \in Txn, snapshot[w] # NoSnapshot, w # t
         PROVE  ~ Sees(w, t) /\ ~ EndedBefore(t, w)
    <2>1. InProgressIn(snapshot[w], start[t])
      BY <1>7, <1>14 DEF SnapshotsInv
    <2>2. QED
      BY <1>7, <2>1 DEF Sees, EndedBefore
  <1>15. TakesTurn(t, u)
    BY <1>12, <1>13, <1>14 DEF TakesTurn
  <1>16. j = 1 => Above(t, u)
    BY <1>8 DEF Above, EndedBefore
  <1>17. QED
    BY <1>15, <1>16

\* Turns that have been taken remain so, also in snapshots recorded later.
LEMMA TurnStays ==
  ASSUME TMIndInv, ModesInv, CompletedInv, SnapshotsInv, [HybridNext]_allVars,
         NEW v \in Txn, NEW u \in Txn, Started(v), Started(u)
  PROVE  /\ TakesTurn(v, u) => TakesTurn(v, u)'
         /\ Above(v, u) => Above(v, u)'
  <1>1. TMTypeOK /\ [TMNext]_tmVars
    BY HybridManagerStep DEF TMIndInv
  <1>2. u \in fast' <=> u \in fast
    BY <1>1, ModesMove DEF Started
  <1>3. start'[v] = start[v] /\ start'[u] = start[u]
    BY <1>1, StageMoves
  <1>4. ASSUME Above(v, u) PROVE Above(v, u)'
    <2>1. Committed(u) => Committed(u)' /\ commit'[u] = commit[u]
      BY <1>1, StageMoves DEF Committed, InCommit
    <2>2. QED
      BY <1>2, <1>3, <1>4, <2>1 DEF Above
  <1>5. ASSUME TakesTurn(v, u) PROVE TakesTurn(v, u)'
    <2>1. ~ InProgress(u) /\ ~ InProgress(u)'
      BY <1>1, <1>5, TimesMove DEF TakesTurn
    <2>2. ASSUME NEW t \in Txn, u \in fast, snapshot'[t] # NoSnapshot,
                 t = v \/ Sees(t, v)' \/ EndedBefore(v, t)'
          PROVE  Sees(t, u)'
      <3>1. CASE snapshot'[t] = snapshot[t]
        <4>1. Started(t) /\ snapshot[t] # NoSnapshot
          BY <2>2, <3>1 DEF SnapshotsInv
        <4>2. start'[t] = start[t]
          BY <1>1, <4>1, StageMoves
        <4>3. Sees(t, v)' => Sees(t, v)
          BY <1>3, <3>1 DEF Sees, InProgressIn
        <4>4. EndedBefore(v, t)' => EndedBefore(v, t)
          <5>1. commit'[v] = commit[v] \/ commit'[v] = counter
            BY <1>1, TimesMove
          <5>2. start[t] < counter /\ start[t] \in Nat /\ counter \in Nat
            BY MaxTsAssumption DEF TMIndInv, DrawnFromCounter, TMTypeOK, Timestamp
          <5>3. QED
            BY <4>2, <5>1, <5>2 DEF EndedBefore
        <4>5. Sees(t, u)
          BY <1>5, <2>2, <4>1, <4>3, <4>4 DEF TakesTurn
        <4>6. QED
          BY <1>3, <3>1, <4>5 DEF Sees, InProgressIn
      <3>2. CASE snapshot'[t] # snapshot[t]
        <4>1. snapshot'[t] = Recorded(t)
          BY <3>2, SnapshotMoves DEF TakeSnapshot, SnapshotsInv
        <4>2. ~ InProgressIn(Recorded(t), start[u])
          BY <2>1, RecordedIsExact
        <4> HIDE DEF Recorded
        <4>3. QED
          BY <1>3, <2>2, <4>1, <4>2 DEF Sees, InProgressIn
      <3>3. QED
        BY <3>1, <3>2
    <2>3. QED
      BY <1>2, <2>1, <2>2 DEF TakesTurn
  <1>6. QED
    BY <1>4, <1>5

\* Of two versions in a chain by different transactions the lower one's is over.
LEMMA TurnsNext ==
  ASSUME TMIndInv, TimesInv, ShapeInv, RoomInv, ModesInv, LinkedInv, CompletedInv, SnapshotsInv,
         UndoInv, HybridCheckedInv, TurnsInv, [HybridNext]_allVars
  PROVE  TurnsInv'
  <1> DEFINE Turn(a, b, next) ==
               \A v, u \in Txn : v = a /\ u = b => TakesTurn(v, u)' /\ (next => Above(v, u)')
             Apart(s) == \A i, j \in DOMAIN s :
                           i < j /\ Owner(s[i]) # Owner(s[j]) => Turn(Owner(s[i]), Owner(s[j]), j = i + 1)
  <1>1. TMTypeOK
    BY DEF TMIndInv
  <1>2. ASSUME NEW k \in Key, NEW i \in DOMAIN chain[k], NEW j \in DOMAIN chain[k],
               i < j, Owner(chain[k][i]) # Owner(chain[k][j])
        PROVE  Turn(Owner(chain[k][i]), Owner(chain[k][j]), j = i + 1)
    <2>1. SUFFICES ASSUME NEW v \in Txn, NEW u \in Txn, v = Owner(chain[k][i]), u = Owner(chain[k][j])
                   PROVE  TakesTurn(v, u)' /\ (j = i + 1 => Above(v, u)')
      OBVIOUS
    <2>2. Started(v) /\ Started(u)
      BY <2>1, ChainShape DEF LinkedInv, Owner
    <2>3. TakesTurn(v, u) /\ (j = i + 1 => Above(v, u))
      BY <1>2, <2>1 DEF TurnsInv
    <2>4. QED
      BY <2>2, <2>3, TurnStays
  <1>3. ASSUME NEW t \in Txn, Cas(t), Linked(t), NEW j \in DOMAIN chain[call[t].key],
               Owner(chain[call[t].key][j]) # t
        PROVE  Turn(t, Owner(chain[call[t].key][j]), j = 1)
    <2>1. stage[t] = "active" /\ call[t] \in TableCall
      BY <1>1, <1>3, CasShape
    <2>2. SUFFICES ASSUME NEW u \in Txn, u = Owner(chain[call[t].key][j])
                   PROVE  TakesTurn(t, u)' /\ (j = 1 => Above(t, u)')
      OBVIOUS
    <2>3. Started(u) /\ Started(t)
      <3>1. call[t].key \in Key
        BY <2>1, CallFields
      <3>2. QED
        BY <1>3, <2>1, <2>2, <3>1 DEF Owner, LinkedInv, Started
    <2>4. TakesTurn(t, u) /\ (j = 1 => Above(t, u))
      BY <1>3, <2>2, CasTakesTurn
    <2>5. QED
      BY <2>3, <2>4, TurnStays
  <1> HIDE DEF Turn
  <1>4. \A k \in Key : Apart(chain[k])
    BY <1>2
  <1>5. ASSUME UNCHANGED <<chain, redo>> PROVE \A k \in Key : Apart(chain'[k])
    BY <1>4, <1>5
  <1>6. ASSUME NEW t \in Txn, Cas(t), Linked(t)
        PROVE  \A k \in Key : Apart(chain'[k])
    <2> DEFINE c == call[t].key
               m == Len(redo[t]) + 1
    <2>1. call[t] \in TableCall /\ Len(redo[t]) < MaxWrites
      BY <1>1, <1>6, CasShape DEF RoomInv
    <2>2. /\ c \in Key /\ m \in Nat /\ DOMAIN chain'[c] = 1 .. Len(chain[c]) + 1
          /\ chain'[c][1] = <<t, m>>
          /\ \A i \in DOMAIN chain[c] : chain'[c][i + 1] = chain[c][i]
          /\ \A j \in Key : j # c => chain'[j] = chain[j]
      BY <1>6, <2>1, LinkStep
    <2>3. DOMAIN chain[c] = 1 .. Len(chain[c]) /\ Len(chain[c]) \in Nat
      BY <2>2, ChainShape
    <2>4. ASSUME NEW i \in DOMAIN chain'[c], i # 1
          PROVE  i - 1 \in DOMAIN chain[c] /\ chain'[c][i] = chain[c][i - 1]
      <3>1. i \in 1 .. Len(chain[c]) + 1
        BY <2>2, <2>4
      <3>2. i - 1 \in 1 .. Len(chain[c]) /\ (i - 1) + 1 = i
        BY <2>3, <2>4, <3>1, DownOne
      <3>3. QED
        BY <2>2, <2>3, <3>2
    <2>5. ASSUME NEW i \in DOMAIN chain'[c], NEW j \in DOMAIN chain'[c], i < j,
                 Owner(chain'[c][i]) # Owner(chain'[c][j])
          PROVE  Turn(Owner(chain'[c][i]), Owner(chain'[c][j]), j = i + 1)
      <3>1. i \in Nat /\ j \in Nat /\ i >= 1 /\ j # 1
        <4>1. i \in 1 .. Len(chain[c]) + 1 /\ j \in 1 .. Len(chain[c]) + 1
          BY <2>2, <2>5
        <4>2. QED
          BY <2>3, <2>5, <4>1
      <3>2. j - 1 \in DOMAIN chain[c] /\ chain'[c][j] = chain[c][j - 1]
        BY <2>4, <2>5, <3>1
      <3>3. CASE i = 1
        <4>1. Owner(chain'[c][i]) = t
          BY <2>2, <3>3 DEF Owner
        <4>2. Turn(t, Owner(chain[c][j - 1]), j - 1 = 1)
          BY <1>3, <1>6, <2>5, <3>2, <4>1
        <4>3. (j - 1 = 1) = (j = i + 1)
          BY <3>1, <3>3
        <4>4. QED
          BY <3>2, <4>1, <4>2, <4>3
      <3>4. CASE i # 1
        <4>1. i - 1 \in DOMAIN chain[c] /\ chain'[c][i] = chain[c][i - 1]
          BY <2>4, <2>5, <3>4
        <4>2. i - 1 < j - 1 /\ (j - 1 = (i - 1) + 1) = (j = i + 1)
          BY <2>5, <3>1
        <4>3. Owner(chain[c][i - 1]) # Owner(chain[c][j - 1])
          BY <2>5, <3>2, <4>1
        <4>4. Turn(Owner(chain[c][i - 1]), Owner(chain[c][j - 1]), j - 1 = (i - 1) + 1)
          BY <1>2, <2>2, <3>2, <4>1, <4>2, <4>3
        <4>5. QED
          BY <3>2, <4>1, <4>2, <4>4
      <3>5. QED
        BY <3>3, <3>4
    <2>6. Apart(chain'[c])
      BY <2>5
    <2>7. \A j \in Key : j # c => chain'[j] = chain[j]
      BY <2>2
    <2> HIDE DEF c, Apart
    <2>8. QED
      BY <1>4, <2>6, <2>7
  <1>7. ASSUME NEW t \in Txn, RollbackStep(t), OwnHead(t)
        PROVE  \A k \in Key : Apart(chain'[k])
    <2> DEFINE c == redo[t][call[t].next].key
    <2>1. /\ c \in Key
          /\ \A i \in DOMAIN chain'[c] : chain'[c][i] = chain[c][i + 1]
          /\ \A i \in DOMAIN chain'[c] : i + 1 \in DOMAIN chain[c] /\ i \in Nat
          /\ \A j \in Key : j # c => chain'[j] = chain[j]
      BY <1>1, <1>7, UnlinkStep
    <2>2. ASSUME NEW i \in DOMAIN chain'[c], NEW j \in DOMAIN chain'[c], i < j,
                 Owner(chain'[c][i]) # Owner(chain'[c][j])
          PROVE  Turn(Owner(chain'[c][i]), Owner(chain'[c][j]), j = i + 1)
      <3>1. i + 1 < j + 1 /\ (j + 1 = (i + 1) + 1) = (j = i + 1)
        <4>1. i \in Nat /\ j \in Nat
          BY <2>1
        <4>2. QED
          BY <2>2, <4>1
      <3>2. /\ i + 1 \in DOMAIN chain[c] /\ chain'[c][i] = chain[c][i + 1]
            /\ j + 1 \in DOMAIN chain[c] /\ chain'[c][j] = chain[c][j + 1]
        BY <2>1, <2>2
      <3>3. Owner(chain[c][i + 1]) # Owner(chain[c][j + 1])
        BY <2>2, <3>2
      <3>4. Turn(Owner(chain[c][i + 1]), Owner(chain[c][j + 1]), j + 1 = (i + 1) + 1)
        BY <1>2, <2>1, <3>1, <3>2, <3>3
      <3>5. QED
        BY <3>1, <3>2, <3>4
    <2>3. Apart(chain'[c])
      BY <2>2
    <2>4. \A j \in Key : j # c => chain'[j] = chain[j]
      BY <2>1
    <2> HIDE DEF c, Apart
    <2>5. QED
      BY <1>4, <2>3, <2>4
  <1> HIDE DEF Apart
  <1>8. \A k \in Key : Apart(chain'[k])
    <2>1. CASE \E t \in Txn : Cas(t) /\ Linked(t)
      BY <1>6, <2>1
    <2>2. CASE \E t \in Txn : RollbackStep(t) /\ OwnHead(t)
      BY <1>7, <2>2
    <2>3. QED
      BY <1>1, <1>5, <2>1, <2>2, HybridChainMoves
  <1>9. QED
    <2>1. SUFFICES ASSUME NEW k \in Key, NEW i \in DOMAIN chain'[k], NEW j \in DOMAIN chain'[k],
                          NEW v \in Txn, NEW u \in Txn, i < j,
                          v = Owner(chain'[k][i]), u = Owner(chain'[k][j]), v # u
                   PROVE  TakesTurn(v, u)' /\ (j = i + 1 => Above(v, u)')
      BY DEF TurnsInv
    <2>2. Turn(Owner(chain'[k][i]), Owner(chain'[k][j]), j = i + 1)
      BY <1>8, <2>1 DEF Apart
    <2>3. QED
      BY <2>1, <2>2 DEF Turn

-----------------------------------------------------------------------------
(* Rolling back.                                                           *)

\* A rollback of a FastCommit transaction finds no redo node.
HybridUndoInv ==
  /\ UndoInv
  /\ \A t \in fast : call[t] \in RollbackCall =>
       call[t].pc = "load" /\ call[t].next \notin DOMAIN redo[t]

\* A rollback is moved by its own steps only.
LEMMA RollbackMoves ==
  ASSUME TMTypeOK, ShapeInv, RoomInv, [HybridNext]_allVars,
         NEW u \in Txn, call'[u] \in RollbackCall, call'[u] # call[u]
  PROVE  RollbackLoad(u) \/ RollbackStep(u) \/ BeginAbortHybrid(u)
  <1>1. RollbackCall \cap TableCall = {} /\ NoCall \notin RollbackCall
    BY DEF RollbackCall, TableCall, NoCall
  <1>2. ~ HybridCheck(u) /\ ~ HybridWalk(u)
    BY <1>1, CheckShape, WalkShape
  <1>3. /\ ~ Reload(u) /\ ~ ReadForUpdate(u)
        /\ ~ \E op \in {"get", "put", "update", "delete"}, k \in Key : Call(u, op, k)
    BY <1>1, ReadingShape
  <1>4. ~ Cas(u)
    BY <1>1, CasShape DEF Linked
  <1>5. ~ FinishAbortHybrid(u)
    BY <1>1, FinishAbortShape DEF FinishAbortHybrid
  <1>6. QED
    BY <1>2, <1>3, <1>4, <1>5, HybridCallMoves

\* It starts at the first redo node, or behind the last.
LEMMA BeginAbortMoves ==
  ASSUME TMTypeOK, ShapeInv, NEW u \in Txn, BeginAbortHybrid(u)
  PROVE  /\ call'[u].pc = "load" /\ stage[u] = "active" /\ UNCHANGED <<fast, redo>>
         /\ u \in fast => call'[u].next \notin DOMAIN redo[u]
  <1>1. UNCHANGED <<fast, redo>> /\ stage[u] = "active" /\ call'[u].pc = "load"
    BY DEF BeginAbortHybrid, BeginAbort, ShapeInv, hybridVars
  <1>2. QED
    BY <1>1, FastAbortShape

\* What a rollback has found to be its own stays the head, as in the default
\* build: nobody links above an uncommitted version of a normal transaction.
LEMMA HybridUndoNext ==
  ASSUME TMIndInv, TimesInv, ShapeInv, RoomInv, ModesInv, SnapshotsInv, HybridCheckedInv, TurnsInv,
         HybridUndoInv, [HybridNext]_allVars
  PROVE  HybridUndoInv'
  <1> DEFINE Own1(h, u) == h # << >> /\ Head(h) \notin stamped' /\ Owner(Head(h)) = u
             Held(c, u) == /\ c.next \in DOMAIN redo[u]
                           /\ Own1(c.head, u) => chain'[redo[u][c.next].key] = c.head
  <1>1. TMTypeOK /\ UndoInv /\ stamped \subseteq stamped'
    BY HybridRedoStays DEF TMIndInv, HybridUndoInv
  <1>2. ASSUME NEW u \in Txn, call[u] \in RollbackCall, call[u].pc = "undo",
               ~ (RollbackStep(u) /\ OwnHead(u))
        PROVE  Held(call[u], u)
    <2> DEFINE k == redo[u][call[u].next].key
    <2>1. call[u].next \in DOMAIN redo[u] /\ u \notin fast /\ stage[u] = "undoing"
      BY <1>2 DEF UndoInv, HybridUndoInv, ShapeInv
    <2>2. SUFFICES ASSUME Own1(call[u].head, u) PROVE chain'[k] = call[u].head
      BY <2>1
    <2>3. call[u].head # << >> /\ Owner(Head(call[u].head)) = u /\ chain[k] = call[u].head
      BY <1>1, <1>2, <2>2 DEF UndoInv, OwnHead, Owner
    <2>4. k \in Key
      BY <2>1, RedoShape
    <2>5. chain[k] \in Seq(Node) /\ DOMAIN chain[k] = 1 .. Len(chain[k])
      BY <2>4, ChainShape
    <2>6. Len(chain[k]) \in Nat \ {0} /\ Head(chain[k]) = chain[k][1]
      BY <2>3, <2>5, PopFacts
    <2>7. 1 \in DOMAIN chain[k] /\ Owner(chain[k][1]) = u
      BY <2>3, <2>5, <2>6
    <2>8. ASSUME NEW t \in Txn, Cas(t), Linked(t) PROVE chain'[k] = chain[k]
      <3>1. /\ stage[t] = "active" /\ call[t] \in TableCall /\ Len(redo[t]) < MaxWrites
        BY <1>1, <2>8, CasShape DEF RoomInv
      <3>2. t # u
        BY <2>1, <3>1
      <3>3. call[t].key # k
        <4>1. SUFFICES ASSUME call[t].key = k PROVE FALSE
          OBVIOUS
        <4>2. Above(t, u)
          BY <2>7, <2>8, <3>2, <4>1, CasTakesTurn
        <4>3. QED
          BY <2>1, <4>2 DEF Above, Committed
      <3>4. QED
        BY <2>4, <2>8, <3>1, <3>3, LinkStep
    <2>9. ASSUME NEW t \in Txn, RollbackStep(t), OwnHead(t) PROVE chain'[k] = chain[k]
      <3>1. t # u
        BY <1>2, <2>9
      <3>2. /\ Owner(chain[redo[t][call[t].next].key][1]) = t
            /\ \A j \in Key : j # redo[t][call[t].next].key => chain'[j] = chain[j]
        BY <1>1, <2>9, UnlinkStep
      <3>3. QED
        BY <2>4, <2>7, <3>1, <3>2
    <2> HIDE DEF k
    <2>10. QED
      BY <1>1, <2>3, <2>8, <2>9, HybridChainMoves
  <1>3. ASSUME NEW u \in Txn, RollbackStep(u), OwnHead(u)
        PROVE  Held(call'[u], u)
    <2>1. /\ call[u] \in RollbackCall /\ call[u].pc = "undo" /\ call'[u].next = call[u].next
      BY <1>1, <1>3, RollbackStepShape
    <2>2. call[u].next \in DOMAIN redo[u]
      BY <1>1, <2>1 DEF UndoInv
    <2>3. call'[u].head = chain'[redo[u][call[u].next].key]
      BY <1>1, <1>3, UnlinkStep
    <2>4. QED
      BY <2>1, <2>2, <2>3
  <1>4. ASSUME NEW u \in Txn, RollbackLoad(u)
        PROVE  Held(call'[u], u)
    <2>1. /\ call[u].next \in DOMAIN redo[u] /\ call'[u].next = call[u].next
          /\ call'[u].head = chain[redo[u][call[u].next].key] /\ UNCHANGED chain
      BY <1>1, <1>4, RollbackLoadShape
    <2>2. QED
      BY <2>1
  <1>5. ASSUME NEW u \in Txn, call'[u] \in RollbackCall, call'[u].pc = "undo"
        PROVE  Held(call'[u], u)
    <2>1. CASE call'[u] = call[u]
      BY <1>2, <1>3, <1>5, <2>1
    <2>2. CASE call'[u] # call[u]
      <3>1. RollbackLoad(u) \/ RollbackStep(u)
        BY <1>1, <1>5, <2>2, RollbackMoves, BeginAbortMoves
      <3>2. RollbackStep(u) => OwnHead(u)
        BY <1>1, <1>5, RollbackStepShape
      <3>3. QED
        BY <1>3, <1>4, <3>1, <3>2
    <2>3. QED
      BY <2>1, <2>2
  <1>6. ASSUME NEW u \in Txn, call'[u] \in RollbackCall
        PROVE  redo'[u] = redo[u]
    <2>1. CASE call'[u] = call[u]
      BY <1>1, <1>6, <2>1, HybridRedoStays DEF ShapeInv
    <2>2. CASE call'[u] # call[u]
      BY <1>1, <1>6, <2>2, RollbackMoves, BeginAbortMoves, RollbackLoadShape, RollbackStepShape
    <2>3. QED
      BY <2>1, <2>2
  <1>7. ASSUME NEW u \in fast', call'[u] \in RollbackCall
        PROVE  call'[u].pc = "load" /\ call'[u].next \notin DOMAIN redo[u]
    <2>1. u \in Txn /\ (u \notin fast => stage[u] = "idle")
      BY <1>1, ModesMove
    <2>2. CASE call'[u] = call[u]
      BY <1>7, <2>1, <2>2 DEF ShapeInv, HybridUndoInv
    <2>3. CASE call'[u] # call[u]
      <3>1. ~ RollbackLoad(u)
        <4>1. RollbackLoad(u) => stage[u] = "undoing" /\ call[u] \in RollbackCall /\ call[u].next \in DOMAIN redo[u]
          BY <1>1, <2>1, RollbackLoadShape
        <4>2. QED
          BY <2>1, <4>1 DEF HybridUndoInv
      <3>2. ~ RollbackStep(u)
        <4>1. RollbackStep(u) => stage[u] = "undoing" /\ call[u] \in RollbackCall /\ call[u].pc = "undo"
          BY <1>1, <2>1, RollbackStepShape
        <4>2. QED
          BY <2>1, <4>1 DEF HybridUndoInv
      <3>3. BeginAbortHybrid(u)
        BY <1>1, <1>7, <2>1, <2>3, <3>1, <3>2, RollbackMoves
      <3>4. QED
        BY <1>1, <2>1, <3>3, BeginAbortMoves
    <2>4. QED
      BY <2>2, <2>3
  <1> HIDE DEF Own1
  <1>8. ASSUME NEW u \in Txn, call'[u] \in RollbackCall, call'[u].pc = "undo"
        PROVE  /\ call'[u].next \in DOMAIN redo'[u]
               /\ Own1(call'[u].head, u) => chain'[redo'[u][call'[u].next].key] = call'[u].head
    BY <1>5, <1>6, <1>8
  <1>9. UndoInv'
    BY <1>8 DEF UndoInv, OwnHead, Own1, Owner
  <1>10. fast' \subseteq Txn
    BY <1>1, ModesMove
  <1>11. QED
    BY <1>6, <1>7, <1>9, <1>10 DEF HybridUndoInv

-----------------------------------------------------------------------------
(* What a transaction has to find.                                         *)

\* What had been committed when t started is visible to t.
BeforeInv ==
  /\ DOMAIN before = Txn
  /\ \A t \in Txn : \A u \in before[t] :
       /\ u \in Txn /\ Returned(u)
       /\ u \notin fast => commit[u] < start[t]
       /\ u \in fast /\ snapshot[t] # NoSnapshot => Sees(t, u)

\* A normal transaction that has committed has stamped all its versions.
CommittedStamped == \A u \in Txn \ fast : Committed(u) => AllStamped(u)

\* The history is written when a transaction starts.
LEMMA BeforeMoves ==
  ASSUME [HybridNext]_allVars
  PROVE  UNCHANGED before \/ \E t \in Txn : StartHybrid(t)
  <1>1. CASE UNCHANGED allVars
    BY <1>1 DEF allVars, hybridVars
  <1>2. ASSUME NEW t \in Txn, \/ TakeSnapshot(t) \/ HybridCheck(t) \/ HybridWalk(t) \/ Shared(t)
                             \/ StampHybrid(t) \/ FinishCommitHybrid(t) \/ LogCommitHybrid(t)
                             \/ BeginAbortHybrid(t) \/ FinishAbortHybrid(t)
        PROVE  UNCHANGED before
    BY <1>2 DEF TakeSnapshot, HybridCheck, HybridWalk, Shared, StampHybrid, FinishCommitHybrid,
       LogCommitHybrid, BeginAbortHybrid, FinishAbortHybrid, hybridVars
  <1>3. QED
    BY <1>1, <1>2 DEF HybridNext

\* Who has returned is out of xips.
LEMMA ReturnedIsOver ==
  ASSUME ModesInv, NEW u \in Txn, Returned(u)
  PROVE  Committed(u) /\ Started(u) /\ ~ InProgress(u)
  BY DEF ModesInv, Returned, Committed, Started, InProgress

\* It stays visible: a later snapshot does not take it for one in progress.
LEMMA BeforeNext ==
  ASSUME TMIndInv, ModesInv, CompletedInv, SnapshotsInv, BeforeInv, [HybridNext]_allVars
  PROVE  BeforeInv'
  <1>1. TMTypeOK /\ [TMNext]_tmVars
    BY HybridManagerStep DEF TMIndInv
  <1>2. ASSUME NEW t \in Txn, NEW u \in Txn, Returned(u),
               u \notin fast => commit[u] < start'[t],
               u \in fast /\ snapshot[t] # NoSnapshot => Sees(t, u),
               snapshot[t] # NoSnapshot => start'[t] = start[t]
        PROVE  /\ Returned(u)'
               /\ u \notin fast' => commit'[u] < start'[t]
               /\ u \in fast' /\ snapshot'[t] # NoSnapshot => Sees(t, u)'
    <2>1. Committed(u) /\ Started(u) /\ ~ InProgress(u)
      BY <1>2, ReturnedIsOver
    <2>2. u \in fast' <=> u \in fast
      BY <1>1, <2>1, ModesMove DEF Started
    <2>3. commit'[u] = commit[u] /\ start'[u] = start[u]
      BY <1>1, <2>1, StageMoves DEF Committed, InCommit
    <2>4. ASSUME u \in fast, snapshot'[t] # NoSnapshot PROVE Sees(t, u)'
      <3>1. CASE snapshot'[t] = snapshot[t]
        BY <1>2, <2>3, <2>4, <3>1 DEF Sees, InProgressIn
      <3>2. CASE snapshot'[t] # snapshot[t]
        <4>1. snapshot'[t] = Recorded(t)
          BY <3>2, SnapshotMoves DEF TakeSnapshot, SnapshotsInv
        <4>2. ~ InProgressIn(Recorded(t), start[u])
          BY <2>1, RecordedIsExact
        <4> HIDE DEF Recorded
        <4>3. QED
          BY <2>3, <2>4, <4>1, <4>2 DEF Sees, InProgressIn
      <3>3. QED
        BY <3>1, <3>2
    <2>5. Returned(u)'
      BY <1>1, <1>2, ReturnedStays
    <2>6. QED
      BY <1>2, <2>2, <2>3, <2>4, <2>5
  <1>3. CASE UNCHANGED before
    <2>1. ASSUME NEW t \in Txn, NEW u \in before[t]
          PROVE  /\ u \in Txn /\ Returned(u)
                 /\ u \notin fast => commit[u] < start'[t]
                 /\ u \in fast /\ snapshot[t] # NoSnapshot => Sees(t, u)
                 /\ snapshot[t] # NoSnapshot => start'[t] = start[t]
      <3>1. /\ u \in Txn /\ Returned(u)
            /\ u \notin fast => commit[u] < start[t]
            /\ u \in fast /\ snapshot[t] # NoSnapshot => Sees(t, u)
        BY <2>1 DEF BeforeInv
      <3>2. Started(t) => start'[t] = start[t]
        BY <1>1, StageMoves
      <3>3. start'[t] = start[t] \/ start'[t] = counter
        <4>1. CASE UNCHANGED tmVars \/ MinXip
          BY <4>1 DEF tmVars, MinXip
        <4>2. ASSUME NEW v \in Txn, TMTxnStep(v) PROVE start'[t] = start[t] \/ start'[t] = counter
          BY <1>1, <4>2 DEF TMTxnStep, TMTypeOK, Start, BeginCommit, FinishCommit, LogCommit, BeginAbort, FinishAbort
        <4>3. QED
          BY <1>1, <4>1, <4>2 DEF TMNext
      <3>4. commit[u] < counter
        BY <3>1 DEF TMIndInv, DrawnFromCounter
      <3>5. QED
        BY <3>1, <3>2, <3>3, <3>4 DEF SnapshotsInv
    <2>2. QED
      BY <1>2, <1>3, <2>1 DEF BeforeInv
  <1>4. ASSUME NEW s \in Txn, StartHybrid(s) PROVE BeforeInv'
    <2>1. /\ before' = [before EXCEPT ![s] = {u \in Txn : Returned(u)}] /\ stage[s] = "idle"
          /\ start' = [start EXCEPT ![s] = counter] /\ UNCHANGED snapshot
      BY <1>4 DEF StartHybrid, StartTxn, Start
    <2>2. ASSUME NEW t \in Txn, NEW u \in before'[t]
          PROVE  /\ u \in Txn /\ Returned(u)
                 /\ u \notin fast => commit[u] < start'[t]
                 /\ u \in fast /\ snapshot[t] # NoSnapshot => Sees(t, u)
                 /\ snapshot[t] # NoSnapshot => start'[t] = start[t]
      <3>1. CASE t = s
        <4>1. u \in Txn /\ Returned(u) /\ start'[t] = counter /\ snapshot[t] = NoSnapshot
          BY <1>1, <2>1, <2>2, <3>1 DEF BeforeInv, TMTypeOK, SnapshotsInv, Started
        <4>2. commit[u] < counter
          BY <4>1 DEF TMIndInv, DrawnFromCounter
        <4>3. QED
          BY <4>1, <4>2
      <3>2. CASE t # s
        <4>1. u \in before[t] /\ start'[t] = start[t]
          BY <1>1, <2>1, <2>2, <3>2 DEF BeforeInv, TMTypeOK
        <4>2. QED
          BY <4>1 DEF BeforeInv
      <3>3. QED
        BY <3>1, <3>2
    <2>3. DOMAIN before' = Txn
      BY <2>1 DEF BeforeInv
    <2>4. QED
      BY <1>2, <2>2, <2>3 DEF BeforeInv
  <1>5. QED
    BY <1>3, <1>4, BeforeMoves

\* Stamps are final, and the critical section ends after the last.
LEMMA CommittedStampedNext ==
  ASSUME TMIndInv, ShapeInv, RoomInv, ModesInv, CommittedStamped, [HybridNext]_allVars
  PROVE  CommittedStamped'
  <1>1. TMTypeOK /\ [TMNext]_tmVars /\ fast \subseteq fast'
    BY HybridManagerStep, ModesMove DEF TMIndInv
  <1>2. ASSUME NEW u \in Txn \ fast', Committed(u)', ~ Committed(u) PROVE FinishCommitHybrid(u)
    <2>1. stage'[u] # stage[u]
      BY <1>2 DEF Committed
    <2>2. PICK t \in Txn :
            \/ StartHybrid(t) \/ TakeSnapshot(t) \/ HybridCheck(t) \/ HybridWalk(t) \/ Shared(t)
            \/ StampHybrid(t) \/ FinishCommitHybrid(t) \/ LogCommitHybrid(t)
            \/ BeginAbortHybrid(t) \/ FinishAbortHybrid(t)
      BY <2>1 DEF HybridNext, allVars, vars, tmVars
    <2>3. ~ (TakeSnapshot(t) \/ HybridCheck(t) \/ HybridWalk(t) \/ StampHybrid(t))
      BY <2>1 DEF TakeSnapshot, HybridCheck, HybridWalk, StampHybrid, Stamp, vars, tmVars
    <2>4. ~ (StartHybrid(t) \/ LogCommitHybrid(t) \/ BeginAbortHybrid(t) \/ FinishAbortHybrid(t))
      BY <1>1, <1>2, <2>1 DEF StartHybrid, StartTxn, Start, LogCommitHybrid, LogCommitTxn, LogCommit,
         BeginAbortHybrid, BeginAbort, FinishAbortHybrid, FinishAbortTxn, FinishAbort, Committed, TMTypeOK
    <2>5. ~ Shared(t)
      <3>1. ~ BeginCommitTxn(t)
        BY <1>1, <1>2, <2>1 DEF BeginCommitTxn, BeginCommit, Committed, TMTypeOK
      <3>2. QED
        BY <2>1, <3>1 DEF Shared, Call, Reload, ReadForUpdate, Cas, RollbackLoad, RollbackStep, tmVars
    <2>6. FinishCommitHybrid(t)
      BY <2>2, <2>3, <2>4, <2>5
    <2>7. u = t
      BY <1>1, <2>1, <2>6 DEF FinishCommitHybrid, FinishCommit, TMTypeOK
    <2>8. QED
      BY <2>6, <2>7
  <1>3. ASSUME NEW u \in Txn \ fast', Committed(u)' PROVE AllStamped(u)'
    <2>1. AllStamped(u) /\ stage[u] # "active"
      <3>1. CASE Committed(u)
        BY <1>1, <1>3, <3>1 DEF CommittedStamped, Committed
      <3>2. CASE ~ Committed(u)
        BY <1>1, <1>2, <1>3, <3>2 DEF FinishCommitHybrid, FinishCommit
      <3>3. QED
        BY <3>1, <3>2
    <2>2. redo'[u] = redo[u] /\ stamped \subseteq stamped'
      BY <1>1, <2>1, HybridRedoStays
    <2>3. QED
      BY <2>1, <2>2 DEF AllStamped
  <1>4. QED
    BY <1>3 DEF CommittedStamped

\* Whose versions a rollback takes, or has taken, off.
Undone(u) == stage[u] \in {"undoing", "aborted"}

\* The version n is s[i], or above it.
NotBelow(s, i, n) == \E j \in 1 .. i : s[j] = n

\* What a step does to a version in a chain: it has just been linked, or it was
\* there and what is above it stays so, but for what a rollback takes off.
LEMMA StaysAbove ==
  ASSUME TMTypeOK, ShapeInv, RoomInv, UndoInv, [HybridNext]_allVars,
         NEW k \in Key, NEW i \in DOMAIN chain'[k]
  PROVE  \/ Owner(chain'[k][i]) \in Txn /\ stage[Owner(chain'[k][i])] = "active"
         \/ \E h \in DOMAIN chain[k] :
              /\ chain[k][h] = chain'[k][i]
              /\ \A n : NotBelow(chain[k], h, n) /\ stage[Owner(n)] # "undoing" => NotBelow(chain'[k], i, n)
  <1> DEFINE Kept == \E h \in DOMAIN chain[k] :
              /\ chain[k][h] = chain'[k][i]
              /\ \A n : NotBelow(chain[k], h, n) /\ stage[Owner(n)] # "undoing" => NotBelow(chain'[k], i, n)
  <1>1. CASE chain'[k] = chain[k]
    BY <1>1
  <1>2. ASSUME NEW t \in Txn, Cas(t), Linked(t)
        PROVE  (Owner(chain'[k][i]) = t /\ stage[t] = "active") \/ Kept
    <2>1. call[t] \in TableCall /\ Len(redo[t]) < MaxWrites /\ stage[t] = "active"
      BY <1>2, CasShape DEF RoomInv
    <2>2. CASE k # call[t].key
      BY <1>1, <1>2, <2>1, <2>2, LinkStep
    <2>3. CASE k = call[t].key
      <3>1. /\ Len(redo[t]) + 1 \in Nat /\ DOMAIN chain'[k] = 1 .. Len(chain[k]) + 1
            /\ chain'[k][1] = <<t, Len(redo[t]) + 1>>
            /\ \A j \in DOMAIN chain[k] : chain'[k][j + 1] = chain[k][j]
        BY <1>2, <2>1, <2>3, LinkStep
      <3>2. DOMAIN chain[k] = 1 .. Len(chain[k]) /\ Len(chain[k]) \in Nat
        BY ChainShape
      <3>3. CASE i = 1
        BY <2>1, <3>1, <3>3 DEF Owner
      <3>4. CASE i # 1
        <4>1. i \in 1 .. Len(chain[k]) + 1
          BY <3>1
        <4>2. i - 1 \in 1 .. Len(chain[k]) /\ (i - 1) + 1 = i
          BY <3>2, <3>4, <4>1, DownOne
        <4>3. chain[k][i - 1] = chain'[k][i]
          BY <3>1, <3>2, <4>2
        <4>4. ASSUME NEW n, NotBelow(chain[k], i - 1, n) PROVE NotBelow(chain'[k], i, n)
          <5>1. PICK j \in 1 .. i - 1 : chain[k][j] = n
            BY <4>4 DEF NotBelow
          <5>2. j \in 1 .. Len(chain[k]) /\ j + 1 \in 1 .. i
            BY <3>2, <4>1, <4>2, <5>1
          <5>3. chain'[k][j + 1] = n
            BY <3>1, <3>2, <5>1, <5>2
          <5>4. QED
            BY <5>2, <5>3 DEF NotBelow
        <4>5. QED
          BY <3>2, <4>2, <4>3, <4>4
      <3>5. QED
        BY <3>3, <3>4
    <2>4. QED
      BY <2>2, <2>3
  <1>3. ASSUME NEW t \in Txn, RollbackStep(t), OwnHead(t) PROVE Kept
    <2>1. stage[t] = "undoing"
      BY <1>3, RollbackStepShape
    <2>2. CASE k # redo[t][call[t].next].key
      BY <1>1, <1>3, <2>2, UnlinkStep
    <2>3. CASE k = redo[t][call[t].next].key
      <3>1. /\ Owner(chain[k][1]) = t
            /\ \A j \in DOMAIN chain'[k] : chain'[k][j] = chain[k][j + 1]
            /\ \A j \in DOMAIN chain'[k] : j + 1 \in DOMAIN chain[k] /\ j \in Nat
            /\ Len(chain[k]) \in Nat \ {0} /\ DOMAIN chain'[k] = 1 .. Len(chain[k]) - 1
        BY <1>3, <2>3, UnlinkStep
      <3>2. i \in Nat /\ i + 1 \in DOMAIN chain[k] /\ chain[k][i + 1] = chain'[k][i]
        BY <3>1
      <3>3. ASSUME NEW n, NotBelow(chain[k], i + 1, n), stage[Owner(n)] # "undoing"
            PROVE  NotBelow(chain'[k], i, n)
        <4>1. PICK j \in 1 .. i + 1 : chain[k][j] = n
          BY <3>3 DEF NotBelow
        <4>2. j # 1
          BY <2>1, <3>1, <3>3, <4>1
        <4>3. j - 1 \in 1 .. i /\ (j - 1) + 1 = j
          BY <3>2, <4>1, <4>2
        <4>4. j - 1 \in DOMAIN chain'[k]
          BY <3>1, <4>3
        <4>5. chain'[k][j - 1] = n
          BY <3>1, <4>1, <4>3, <4>4
        <4>6. QED
          BY <4>3, <4>5 DEF NotBelow
      <3>4. QED
        BY <3>2, <3>3
    <2>4. QED
      BY <2>2, <2>3
  <1> HIDE DEF Kept
  <1>4. QED
    BY <1>1, <1>2, <1>3, HybridChainMoves DEF Kept

\* The replies that a transaction gets are those of its own steps.
LEMMA HybridReplyOwner ==
  ASSUME TMTypeOK, ShapeInv, RoomInv, ReadInv, [HybridNext]_allVars,
         NEW u \in Txn, reply'[u] # reply[u]
  PROVE  /\ stage[u] = "active"
         /\ reply'[u].op = "get" => HybridWalk(u)
  <1>1. PICK t \in Txn :
          \/ StartHybrid(t) \/ TakeSnapshot(t) \/ HybridCheck(t) \/ HybridWalk(t) \/ Shared(t)
          \/ StampHybrid(t) \/ FinishCommitHybrid(t) \/ LogCommitHybrid(t)
          \/ BeginAbortHybrid(t) \/ FinishAbortHybrid(t)
    BY DEF HybridNext, allVars, vars
  <1>2. ~ (\/ StartHybrid(t) \/ TakeSnapshot(t) \/ StampHybrid(t) \/ FinishCommitHybrid(t)
           \/ LogCommitHybrid(t) \/ BeginAbortHybrid(t) \/ FinishAbortHybrid(t))
    BY DEF StartHybrid, TakeSnapshot, StampHybrid, FinishCommitHybrid, LogCommitHybrid,
       BeginAbortHybrid, FinishAbortHybrid, StartTxn, Stamp, LogCommitTxn, FinishAbortTxn, vars, hmtVars
  <1>3. CASE HybridCheck(t)
    <2>1. u = t /\ call'[t] = NoCall /\ reply'[t].op # "get" /\ stage[t] = "active"
      BY <1>3, CheckShape
    <2>2. QED
      BY <2>1
  <1>4. CASE HybridWalk(t)
    BY <1>4, WalkShape
  <1>5. CASE Cas(t)
    <2>1. call[t].op # "get" /\ stage[t] = "active"
      BY <1>5, CasShape DEF RoomInv
    <2>2. reply' = reply \/ \E r : reply' = [reply EXCEPT ![t] = [op |-> call[t].op, key |-> call[t].key, result |-> r]]
      BY <1>5 DEF Cas, Return
    <2>3. QED
      BY <2>1, <2>2 DEF ReadInv
  <1>6. Shared(t) => Cas(t)
    BY DEF Shared, Call, Reload, ReadForUpdate, BeginCommitTxn, RollbackLoad, RollbackStep, hmtVars
  <1>7. QED
    BY <1>1, <1>2, <1>3, <1>4, <1>5, <1>6

\* A walk of get comes to every version it has to find, and what it meets
\* before, and does not leave the table, is above that version or is it.
GetInv ==
  \A t \in Txn : call[t] \in TableCall /\ call[t].op = "get" =>
    LET s == chain[call[t].key]
        rest == call[t].rest IN
    \A i \in DOMAIN s : Owner(s[i]) \in before[t] =>
      \E p \in DOMAIN rest :
        /\ rest[p] = s[i]
        /\ \A q \in 1 .. p : ~ Undone(Owner(rest[q])) => NotBelow(s, i, rest[q])

\* The version n explains what get has returned to t.
Answers(t, n) ==
  /\ Owner(n) = t \/ Committed(Owner(n))
  /\ \/ reply[t].result = n
     \/ reply[t].result = Absent /\ RedoOf(n).record = "Delete"

\* The answer is the version to be found, or one above it.
ReplyInv ==
  \A t \in Txn :
    /\ ~ Started(t) => reply[t] = NoReply
    /\ InProgress(t) /\ reply[t].op = "get" =>
         LET s == chain[reply[t].key] IN
         \A i \in DOMAIN s : Owner(s[i]) \in before[t] => \E j \in 1 .. i : Answers(t, s[j])

\* Who is active has not committed before anybody's start.
LEMMA ActiveIsNotBefore ==
  ASSUME ModesInv, BeforeInv, NEW t \in Txn, NEW u \in before[t]
  PROVE  u \in Txn /\ Committed(u)
  BY ReturnedIsOver DEF BeforeInv

\* What t has to find stays so.
LEMMA BeforeStays ==
  ASSUME TMTypeOK, BeforeInv, [HybridNext]_allVars, NEW t \in Txn, Started(t)
  PROVE  before'[t] = before[t]
  <1>1. ASSUME NEW u \in Txn, StartHybrid(u) PROVE before'[t] = before[t]
    BY <1>1 DEF StartHybrid, StartTxn, Start, Started, BeforeInv
  <1>2. QED
    BY <1>1, BeforeMoves

\* A version to be found is visible, whatever its mode.
LEMMA BeforeIsVisible ==
  ASSUME TMIndInv, ShapeInv, LinkedInv, BeforeInv, CommittedStamped, ModesInv,
         NEW t \in Txn, NEW k \in Key, NEW i \in DOMAIN chain[k], Owner(chain[k][i]) \in before[t],
         Owner(chain[k][i]) \in fast => snapshot[t] # NoSnapshot
  PROVE  HybridVisible(t, chain[k][i])
  <1> DEFINE n == chain[k][i]
             u == Owner(n)
  <1>1. u \in Txn /\ Returned(u) /\ Committed(u)
    BY ActiveIsNotBefore DEF BeforeInv
  <1>2. CASE u \in fast
    BY <1>1, <1>2 DEF BeforeInv, HybridVisible, Sees, Returned
  <1>3. CASE u \notin fast
    <2>1. n = <<u, n[2]>> /\ n[2] \in DOMAIN redo[u]
      BY ChainShape DEF LinkedInv, Owner, Node
    <2>2. n \in stamped
      BY <1>1, <1>3, <2>1 DEF CommittedStamped, AllStamped
    <2>3. commit[u] < start[t]
      BY <1>3 DEF BeforeInv
    <2>4. commit[u] \in Nat /\ start[t] \in Nat
      BY <1>1, MaxTsAssumption DEF TMIndInv, TMTypeOK, Timestamp
    <2>5. commit[u] <= start[t]
      BY <2>3, <2>4
    <2>6. QED
      BY <1>3, <2>2, <2>5 DEF HybridVisible, Visible
  <1>4. QED
    BY <1>2, <1>3

\* A walk passes no version that it has to find.
LEMMA GetNext ==
  ASSUME TMIndInv, ShapeInv, RoomInv, UndoInv, LinkedInv, ModesInv, BeforeInv, CommittedStamped, GetInv,
         [HybridNext]_allVars
  PROVE  GetInv'
  <1>1. TMTypeOK /\ [TMNext]_tmVars /\ ShapeInv' /\ RoomInv'
    BY HybridManagerStep, HybridShapeNext DEF TMIndInv
  <1> DEFINE Undone1(u) == stage'[u] \in {"undoing", "aborted"}
             Comes(rest, s, i) ==
        \E p \in DOMAIN rest :
          /\ rest[p] = s[i]
          /\ \A q \in 1 .. p : ~ Undone1(Owner(rest[q])) => NotBelow(s, i, rest[q])
  <1>2. \A u \in Txn : ~ Undone1(u) => ~ Undone(u)
    BY <1>1, TimesMove DEF Undone
  <1>3. ASSUME NEW t \in Txn, call[t] \in TableCall, call[t].op = "get",
               NEW i \in DOMAIN chain[call[t].key], Owner(chain[call[t].key][i]) \in before[t]
        PROVE  \E p \in DOMAIN call[t].rest :
                 /\ call[t].rest[p] = chain[call[t].key][i]
                 /\ \A q \in 1 .. p : ~ Undone1(Owner(call[t].rest[q])) =>
                      /\ ~ Undone(Owner(call[t].rest[q]))
                      /\ NotBelow(chain[call[t].key], i, call[t].rest[q])
    <2> DEFINE rest == call[t].rest
               s == chain[call[t].key]
    <2>1. PICK p \in DOMAIN rest :
             /\ rest[p] = s[i]
             /\ \A q \in 1 .. p : ~ Undone(Owner(rest[q])) => NotBelow(s, i, rest[q])
      BY <1>3 DEF GetInv
    <2>2. rest \in Seq(Node) /\ DOMAIN rest = 1 .. Len(rest) /\ Len(rest) \in Nat
      BY <1>3, CallFields, LenProperties
    <2>3. ASSUME NEW q \in 1 .. p PROVE Owner(rest[q]) \in Txn
      <3>1. q \in 1 .. Len(rest)
        BY <2>1, <2>2
      <3>2. rest[q] \in Node
        BY <2>2, <3>1, ElementOfSeq
      <3>3. QED
        BY <3>2 DEF Node, Owner
    <2>4. QED
      BY <1>2, <2>1, <2>3
  <1>4. ASSUME NEW t \in Txn, call'[t] \in TableCall, call'[t].op = "get",
               NEW i \in DOMAIN chain'[call'[t].key], Owner(chain'[call'[t].key][i]) \in before'[t]
        PROVE  Comes(call'[t].rest, chain'[call'[t].key], i)
    <2> DEFINE k == call'[t].key
    <2>1. k \in Key /\ stage'[t] = "active"
      BY <1>1, <1>4, CallFields DEF ShapeInv
    <2>2. CASE call'[t] = call[t]
      <3>1. before'[t] = before[t]
        BY <1>1, <1>4, <2>2, BeforeStays DEF ShapeInv, Started, BeforeInv
      <3>2. ~ (Owner(chain'[k][i]) \in Txn /\ stage[Owner(chain'[k][i])] = "active")
        BY <1>4, <3>1, ActiveIsNotBefore DEF Committed
      <3>3. PICK h \in DOMAIN chain[k] :
              /\ chain[k][h] = chain'[k][i]
              /\ \A n : NotBelow(chain[k], h, n) /\ stage[Owner(n)] # "undoing" => NotBelow(chain'[k], i, n)
        BY <1>1, <2>1, <3>2, StaysAbove
      <3>4. PICK p \in DOMAIN call[t].rest :
              /\ call[t].rest[p] = chain[k][h]
              /\ \A q \in 1 .. p : ~ Undone1(Owner(call[t].rest[q])) =>
                   ~ Undone(Owner(call[t].rest[q])) /\ NotBelow(chain[k], h, call[t].rest[q])
        BY <1>3, <1>4, <2>2, <3>1, <3>3
      <3>5. QED
        BY <2>2, <3>3, <3>4 DEF Undone
    <2>3. CASE call'[t] # call[t]
      <3>1. RollbackCall \cap TableCall = {} /\ NoCall \notin TableCall
        BY DEF RollbackCall, TableCall, NoCall
      <3>2. call'[t].pc = "walk"
        BY <1>1, <1>4 DEF RoomInv
      <3>0. ASSUME call[t] \in TableCall
            PROVE  /\ \A p \in {"check", "cas", "read", "load"} : call'[t] # [call[t] EXCEPT !.pc = p]
                   /\ call'[t] # [call[t] EXCEPT !.value = WalkValue(t), !.rest = << >>, !.pc = "cas"]
                   /\ LET c == [call[t] EXCEPT !.rest = Tail(call[t].rest)]
                      IN  c.op = call[t].op /\ c.key = call[t].key /\ c.rest = Tail(call[t].rest)
        <4>1. \A p \in {"check", "cas", "read", "load"} : [call[t] EXCEPT !.pc = p].pc = p
          BY <3>0 DEF TableCall
        <4>2. [call[t] EXCEPT !.value = WalkValue(t), !.rest = << >>, !.pc = "cas"].pc = "cas"
          BY <3>0 DEF TableCall
        <4>3. LET c == [call[t] EXCEPT !.rest = Tail(call[t].rest)]
              IN  c.op = call[t].op /\ c.key = call[t].key /\ c.rest = Tail(call[t].rest)
          BY <3>0 DEF TableCall
        <4>4. QED
          BY <3>2, <4>1, <4>2, <4>3
      <3>3. ~ HybridCheck(t) /\ ~ Reload(t) /\ ~ ReadForUpdate(t) /\ ~ Cas(t)
        <4>1. ~ HybridCheck(t)
          BY <1>1, <1>4, <3>0, <3>1, <3>2, CheckShape
        <4>2. ~ Reload(t)
          <5>1. SUFFICES ASSUME Reload(t) PROVE FALSE
            OBVIOUS
          <5>2. call[t] \in TableCall /\ call'[t].pc = "check"
            BY <5>1, CallShape DEF Reload, At, ShapeInv, TableCall
          <5>3. QED
            BY <3>2, <5>2
        <4>3. ~ ReadForUpdate(t)
          <5>1. SUFFICES ASSUME ReadForUpdate(t) PROVE FALSE
            OBVIOUS
          <5>2. call[t] \in TableCall /\ call[t].pc = "read" /\ call'[t].op = call[t].op
            BY <5>1, CallShape DEF ReadForUpdate, At, ShapeInv, TableCall
          <5>3. QED
            BY <1>4, <5>2 DEF RoomInv
        <4>4. ~ Cas(t)
          BY <1>1, <1>4, <3>0, <3>1, <3>2, CasShape DEF Linked
        <4>5. QED
          BY <4>1, <4>2, <4>3, <4>4
      <3>4. ~ RollbackLoad(t) /\ ~ RollbackStep(t) /\ ~ BeginAbortHybrid(t) /\ ~ FinishAbortHybrid(t)
        <4>1. ~ RollbackLoad(t) /\ ~ RollbackStep(t)
          BY <1>1, <1>4, <3>1, RollbackLoadShape, RollbackStepShape
        <4>2. ~ BeginAbortHybrid(t)
          BY <1>1, <3>2, BeginAbortMoves
        <4>3. ~ FinishAbortHybrid(t)
          BY <1>1, <1>4, <3>1, FinishAbortShape DEF FinishAbortHybrid
        <4>4. QED
          BY <4>1, <4>2, <4>3
      <3>5. ASSUME HybridWalk(t) PROVE Comes(call'[t].rest, chain'[k], i)
        <4>1. /\ UNCHANGED <<tmVars, chain, hybridVars>> /\ call[t] \in TableCall
              /\ call[t].rest # << >> /\ Owner(Head(call[t].rest)) \in fast => snapshot[t] # NoSnapshot
              /\ call[t].rest # << >> /\ ~ WalkFound(t)
              /\ call'[t] = [call[t] EXCEPT !.rest = Tail(call[t].rest)]
          <5>1. call'[t] # NoCall
            BY <1>4, <3>1
          <5>2. call[t] \in TableCall => call'[t] # [call[t] EXCEPT !.value = WalkValue(t), !.rest = << >>, !.pc = "cas"]
            BY <3>0
          <5>3. QED
            BY <1>1, <3>5, <5>1, <5>2, WalkShape
        <4> DEFINE rest == call[t].rest
        <4>2. /\ call[t].op = "get" /\ call[t].key = k /\ call'[t].rest = Tail(rest)
              /\ before'[t] = before[t] /\ chain' = chain
          BY <1>4, <3>0, <4>1 DEF hybridVars
        <4>3. PICK p \in DOMAIN rest :
                /\ rest[p] = chain[k][i]
                /\ \A q \in 1 .. p : ~ Undone1(Owner(rest[q])) => NotBelow(chain[k], i, rest[q])
          BY <1>3, <1>4, <4>1, <4>2
        <4>4. rest \in Seq(Node) /\ rest # << >> /\ DOMAIN rest = 1 .. Len(rest)
          BY <4>1, CallFields, LenProperties
        <4>5. /\ Len(rest) \in Nat \ {0} /\ Head(rest) = rest[1] /\ Tail(rest) \in Seq(Node)
              /\ Len(Tail(rest)) = Len(rest) - 1
              /\ \A q \in 1 .. Len(rest) - 1 : Tail(rest)[q] = rest[q + 1]
          BY <4>4, PopFacts
        <4>6. DOMAIN Tail(rest) = 1 .. Len(rest) - 1
          BY <4>5, LenProperties
        <4>7. p # 1
          <5>1. SUFFICES ASSUME p = 1 PROVE FALSE
            OBVIOUS
          <5>2. Head(rest) = chain[k][i]
            BY <4>3, <4>5, <5>1
          <5>3. HybridVisible(t, chain[k][i])
            BY <1>4, <2>1, <4>1, <4>2, <5>2, BeforeIsVisible
          <5>4. QED
            BY <4>1, <5>2, <5>3 DEF WalkFound
        <4>8. p - 1 \in 1 .. Len(rest) - 1 /\ (p - 1) + 1 = p
          BY <4>3, <4>4, <4>5, <4>7
        <4>9. Tail(rest)[p - 1] = chain[k][i]
          BY <4>3, <4>5, <4>8
        <4>10. ASSUME NEW q \in 1 .. p - 1, ~ Undone1(Owner(Tail(rest)[q]))
               PROVE  NotBelow(chain[k], i, Tail(rest)[q])
          <5>1. q \in 1 .. Len(rest) - 1 /\ q + 1 \in 1 .. p
            BY <4>4, <4>5, <4>8, <4>10
          <5>2. Tail(rest)[q] = rest[q + 1]
            BY <4>5, <5>1
          <5>3. QED
            BY <4>3, <4>10, <5>1, <5>2 DEF Undone
        <4> HIDE DEF k
        <4>11. QED
          BY <4>2, <4>6, <4>8, <4>9, <4>10
      <3>6. ASSUME NEW op \in {"get", "put", "update", "delete"}, NEW key \in Key, Call(t, op, key)
            PROVE  Comes(call'[t].rest, chain'[k], i)
        <4>1. /\ UNCHANGED chain /\ call'[t].op = op /\ call'[t].key = key
              /\ call'[t].rest = IF op = "get" THEN chain[key] ELSE << >>
          BY <3>6 DEF Call, ShapeInv
        <4>2. call'[t].rest = chain'[k]
          BY <1>4, <4>1
        <4>3. i \in 1 .. i
          BY <1>1, <1>4, <2>1, <4>1, ChainShape
        <4>4. \A q \in 1 .. i : NotBelow(chain'[k], i, chain'[k][q])
          BY DEF NotBelow
        <4> HIDE DEF k
        <4>5. QED
          BY <1>4, <4>2, <4>4 DEF k
      <3>7. QED
        BY <1>1, <2>3, <3>3, <3>4, <3>5, <3>6, HybridCallMoves
    <2>4. QED
      BY <2>2, <2>3
  <1> HIDE DEF Comes
  <1>5. QED
    <2>1. SUFFICES ASSUME NEW t \in Txn, call'[t] \in TableCall, call'[t].op = "get",
                          NEW i \in DOMAIN chain'[call'[t].key], Owner(chain'[call'[t].key][i]) \in before'[t]
                   PROVE  \E p \in DOMAIN call'[t].rest :
                            /\ call'[t].rest[p] = chain'[call'[t].key][i]
                            /\ \A q \in 1 .. p : ~ Undone1(Owner(call'[t].rest[q])) =>
                                 NotBelow(chain'[call'[t].key], i, call'[t].rest[q])
      BY DEF GetInv, NotBelow, Undone, Owner
    <2>2. QED
      BY <1>4, <2>1 DEF Comes

\* What explains an answer goes on explaining it.
LEMMA AnswersStay ==
  ASSUME TMTypeOK, ShapeInv, RoomInv, LinkedInv, [HybridNext]_allVars,
         NEW t \in Txn, reply'[t] = reply[t],
         NEW k \in Key, NEW j \in DOMAIN chain[k], Answers(t, chain[k][j]),
         NEW n, n = chain[k][j]
  PROVE  Answers(t, n)'
  <1>1. /\ n[1] = Owner(n) /\ Owner(n) \in Txn
        /\ n[2] \in DOMAIN redo[n[1]]
    BY ChainShape DEF LinkedInv, Owner
  <1>2. redo'[n[1]][n[2]] = redo[n[1]][n[2]]
    BY <1>1, HybridRedoStays
  <1>3. Committed(Owner(n)) => stage'[Owner(n)] \in {"logging", "committed"}
    BY <1>1, HybridManagerStep, StageMoves DEF Committed
  <1>4. QED
    BY <1>2, <1>3 DEF Answers, RedoOf, Committed, Owner

\* A get returns what explains its answer.
LEMMA AnswersAtReturn ==
  ASSUME TMIndInv, ShapeInv, LinkedInv, ModesInv, NEW t \in Txn, HybridWalk(t), InProgress(t),
         call[t] \in TableCall, WalkFound(t), reply'[t].result = WalkValue(t),
         NEW k \in Key, NEW j \in DOMAIN chain[k],
         NEW n \in Node, n = Head(call[t].rest), n = chain[k][j]
  PROVE  Answers(t, n)'
  <1>1. /\ n[1] \in Txn /\ n[2] \in DOMAIN redo[n[1]] /\ Owner(n) \in Txn
    BY ChainShape DEF LinkedInv, Owner
  <1>2. RedoOf(n) \in Redo /\ UNCHANGED <<stage, redo>>
    BY <1>1, ElementOfSeq, LenProperties DEF ShapeInv, RedoOf, HybridWalk, tmVars
  <1>3. Owner(n) = t \/ Committed(Owner(n))
    <2>1. HybridVisible(t, n) /\ Started(t)
      BY DEF WalkFound, InProgress, Started
    <2>2. QED
      BY <1>1, <2>1, VisibleIsKnown, ReturnedIsOver DEF Known
  <1>4. reply'[t].result = ValueOf(n)
    BY DEF WalkValue
  <1>5. RedoOf(n).record \in {"Insert", "Delete"}
    <2> DEFINE r == RedoOf(n)
    <2>1. r \in Redo
      BY <1>2
    <2> HIDE DEF r
    <2>2. r.record \in {"Insert", "Delete"}
      BY <2>1 DEF Redo
    <2>3. QED
      BY <2>2 DEF r
  <1>6. \/ ValueOf(n) = n
        \/ ValueOf(n) = Absent /\ RedoOf(n).record = "Delete"
    BY <1>5 DEF ValueOf
  <1>7. QED
    BY <1>2, <1>3, <1>4, <1>6 DEF Answers, RedoOf, Committed, Owner

\* What is linked later comes above the answer, and what a rollback takes off
\* has not been an answer.
LEMMA ReplyNext ==
  ASSUME TMIndInv, ShapeInv, RoomInv, UndoInv, LinkedInv, ModesInv, ReadInv, BeforeInv, GetInv, ReplyInv,
         [HybridNext]_allVars
  PROVE  ReplyInv'
  <1>1. TMTypeOK /\ [TMNext]_tmVars
    BY HybridManagerStep DEF TMIndInv
  <1>2. ASSUME NEW t \in Txn, HybridWalk(t)
        PROVE  stage[t] = "active" /\ UNCHANGED <<chain, hybridVars, stage>> /\ call[t] \in TableCall
    BY <1>1, <1>2, WalkShape DEF tmVars
  <1>3. ASSUME NEW t \in Txn, ~ Started(t)' PROVE reply'[t] = NoReply
    <2>1. ~ Started(t)
      BY <1>1, <1>3, StageMoves
    <2>2. reply[t] = NoReply
      BY <2>1 DEF ReplyInv
    <2>3. CASE reply'[t] = reply[t]
      BY <2>2, <2>3
    <2>4. CASE reply'[t] # reply[t]
      BY <1>1, <2>1, <2>4, HybridReplyOwner DEF Started
    <2>5. QED
      BY <2>3, <2>4
  <1>4. ASSUME NEW t \in Txn, InProgress(t)', reply'[t].op = "get",
               NEW i \in DOMAIN chain'[reply'[t].key], Owner(chain'[reply'[t].key][i]) \in before'[t]
        PROVE  \E j \in 1 .. i : \E n : n = chain'[reply'[t].key][j] /\ Answers(t, n)'
    <2> DEFINE k == reply'[t].key
    <2>1. CASE reply'[t] = reply[t]
      <3>1. Started(t)
        BY <1>4, <2>1 DEF ReplyInv, NoReply
      <3>2. InProgress(t) /\ before'[t] = before[t]
        BY <1>1, <1>4, <3>1, TimesMove, BeforeStays
      <3>3. ~ (Owner(chain'[k][i]) \in Txn /\ stage[Owner(chain'[k][i])] = "active")
        BY <1>4, <3>2, ActiveIsNotBefore DEF Committed
      <3>4. k \in Key
        BY <1>4, <2>1 DEF ShapeInv, Reply, NoReply
      <3>5. PICK h \in DOMAIN chain[k] :
              /\ chain[k][h] = chain'[k][i]
              /\ \A n : NotBelow(chain[k], h, n) /\ stage[Owner(n)] # "undoing" => NotBelow(chain'[k], i, n)
        BY <1>1, <3>3, <3>4, StaysAbove
      <3>6. PICK j \in 1 .. h : Answers(t, chain[k][j])
        BY <1>4, <2>1, <3>2, <3>5 DEF ReplyInv
      <3>7. j \in DOMAIN chain[k]
        BY <3>4, <3>5, <3>6, ChainShape
      <3>8. PICK n : n = chain[k][j]
        OBVIOUS
      <3>9. Answers(t, n)'
        BY <1>1, <2>1, <3>4, <3>6, <3>7, <3>8, AnswersStay
      <3>10. NotBelow(chain[k], h, n) /\ stage[Owner(n)] # "undoing"
        BY <3>2, <3>6, <3>8 DEF NotBelow, Answers, InProgress, Committed
      <3>11. NotBelow(chain'[k], i, n)
        BY <3>5, <3>10
      <3>12. PICK g \in 1 .. i : chain'[k][g] = n
        BY <3>11 DEF NotBelow
      <3>13. QED
        BY <3>9, <3>12
    <2>2. CASE reply'[t] # reply[t]
      <3>1. HybridWalk(t)
        BY <1>1, <1>4, <2>2, HybridReplyOwner
      <3>2. /\ stage[t] = "active" /\ UNCHANGED <<chain, before>> /\ call[t] \in TableCall
            /\ call[t].rest = << >> \/ WalkFound(t)
            /\ reply'[t] = [op |-> call[t].op, key |-> call[t].key, result |-> WalkValue(t)]
        <4>1. UNCHANGED hybridVars /\ UNCHANGED chain /\ ~ UNCHANGED reply
          BY <1>1, <2>2, <3>1, WalkShape
        <4>2. QED
          BY <1>1, <3>1, <4>1, WalkShape DEF hybridVars
      <3>3. call[t].op = "get" /\ call[t].key = k /\ k \in Key /\ reply'[t].result = WalkValue(t)
        <4>1. reply'[t].op = call[t].op /\ reply'[t].key = call[t].key /\ reply'[t].result = WalkValue(t)
          BY <3>2
        <4>2. call[t].key \in Key
          BY <3>2, CallFields
        <4>3. QED
          BY <1>4, <4>1, <4>2
      <3> HIDE DEF k
      <3>4. i \in DOMAIN chain[k] /\ Owner(chain[k][i]) \in before[t]
        BY <1>4, <3>2 DEF k
      <3>5. PICK p \in DOMAIN call[t].rest :
              /\ call[t].rest[p] = chain[k][i]
              /\ \A q \in 1 .. p : ~ Undone(Owner(call[t].rest[q])) => NotBelow(chain[k], i, call[t].rest[q])
        BY <3>2, <3>3, <3>4 DEF GetInv
      <3>6. call[t].rest \in Seq(Node) /\ DOMAIN call[t].rest = 1 .. Len(call[t].rest) /\ Len(call[t].rest) \in Nat
        BY <3>2, CallFields, LenProperties
      <3>7. WalkFound(t)
        BY <3>2, <3>5, <3>6, EmptySeq
      <3>8. call[t].rest # << >>
        BY <3>7 DEF WalkFound
      <3>9. Head(call[t].rest) = call[t].rest[1] /\ call[t].rest[1] \in Node
        BY <3>6, <3>8, PopFacts
      <3>10. PICK n \in Node : n = Head(call[t].rest) /\ n = call[t].rest[1]
        BY <3>9
      <3>11. 1 \in 1 .. p
        BY <3>5, <3>6
      <3>12. ~ Undone(Owner(n))
        <4>1. HybridVisible(t, n) /\ Started(t)
          BY <3>2, <3>7, <3>10 DEF WalkFound, Started
        <4>2. Owner(n) \in Txn
          BY DEF Node, Owner
        <4>3. Owner(n) = t \/ Committed(Owner(n))
          BY <4>1, <4>2, VisibleIsKnown, ReturnedIsOver DEF Known
        <4>4. QED
          BY <3>2, <4>3 DEF Undone, Committed
      <3>13. PICK j \in 1 .. i : chain[k][j] = n
        BY <3>5, <3>10, <3>11, <3>12 DEF NotBelow
      <3>14. j \in DOMAIN chain[k]
        BY <3>3, <3>4, <3>13, ChainShape
      <3>15. Answers(t, n)'
        BY <3>1, <3>2, <3>3, <3>7, <3>10, <3>13, <3>14, AnswersAtReturn DEF InProgress
      <3>16. QED
        BY <3>2, <3>13, <3>15 DEF k
    <2>3. QED
      BY <2>1, <2>2
  <1>5. QED
    <2>1. ASSUME NEW t \in Txn, InProgress(t)', reply'[t].op = "get",
                 NEW i \in DOMAIN chain'[reply'[t].key], Owner(chain'[reply'[t].key][i]) \in before'[t]
          PROVE  \E j \in 1 .. i : Answers(t, chain[reply[t].key][j])'
      <3>1. PICK j \in 1 .. i : \E n : n = chain'[reply'[t].key][j] /\ Answers(t, n)'
        BY <1>4, <2>1
      <3>2. Answers(t, chain[reply[t].key][j])'
        BY <3>1 DEF Answers, RedoOf, Committed, Owner
      <3>3. QED
        BY <3>2
    <2>2. QED
      BY <1>3, <2>1 DEF ReplyInv, Owner

-----------------------------------------------------------------------------
(* The theorems.                                                           *)

\* The layers on top of those of HybridIndInv.
SnapshotIndInv ==
  /\ HybridIndInv
  /\ TimesInv /\ ShapeInv /\ RoomInv /\ LinkedInv
  /\ CompletedInv /\ SnapshotsInv
  /\ HybridCheckedInv /\ TurnsInv /\ HybridUndoInv
  /\ BeforeInv /\ CommittedStamped /\ GetInv /\ ReplyInv

\* At first there is no version, no snapshot and no history.
LEMMA SnapshotInitInv == HybridInit => SnapshotIndInv
  <1> SUFFICES ASSUME HybridInit PROVE SnapshotIndInv
    OBVIOUS
  <1>1. HybridIndInv /\ ShapeInv
    BY HybridInitInv, ShapeInit DEF HybridInit
  <1>2. /\ counter = 1 /\ completed = 0 /\ fast = {} /\ DOMAIN snapshot = Txn /\ DOMAIN before = Txn
        /\ \A t \in Txn : /\ stage[t] = "idle" /\ commit[t] = InvalidTs /\ snapshot[t] = NoSnapshot
                          /\ before[t] = {} /\ call[t] = NoCall /\ reply[t] = NoReply
        /\ \A k \in Key : chain[k] = << >>
    BY DEF HybridInit, Init, TMInit, InvalidTs
  <1>3. NoCall \notin TableCall /\ NoCall \notin RollbackCall
    BY DEF NoCall, TableCall, RollbackCall
  <1>4. \A k \in Key : DOMAIN chain[k] = {}
    BY <1>2
  <1>5. TimesInv /\ RoomInv /\ LinkedInv /\ CompletedInv /\ SnapshotsInv
    BY <1>2, <1>3, <1>4 DEF TimesInv, RoomInv, LinkedInv, CompletedInv, SnapshotsInv, Started
  <1>6. HybridCheckedInv /\ TurnsInv /\ HybridUndoInv
    BY <1>2, <1>3, <1>4 DEF HybridCheckedInv, HoldsChecked, TurnsInv, HybridUndoInv, UndoInv
  <1>7. BeforeInv /\ CommittedStamped /\ GetInv /\ ReplyInv
    BY <1>2, <1>3 DEF BeforeInv, CommittedStamped, GetInv, ReplyInv, Committed, InProgress
  <1>8. QED
    BY <1>1, <1>5, <1>6, <1>7 DEF SnapshotIndInv

\* Every step of either kind of transaction leaves all layers standing.
LEMMA SnapshotNextInv == SnapshotIndInv /\ [HybridNext]_allVars => SnapshotIndInv'
  <1> SUFFICES ASSUME SnapshotIndInv, [HybridNext]_allVars PROVE SnapshotIndInv'
    OBVIOUS
  <1> USE DEF SnapshotIndInv
  <1>1. /\ TMIndInv /\ ModesInv /\ ReadInv /\ TMTypeOK /\ UndoInv /\ [TMNext]_tmVars
    BY HybridManagerStep DEF HybridIndInv, TMIndInv, HybridUndoInv
  <1>2. HybridIndInv'
    BY HybridNextInv
  <1>3. TimesInv' /\ CompletedInv'
    BY <1>1, TimesNext, CompletedNext
  <1>4. ShapeInv' /\ RoomInv' /\ LinkedInv'
    BY <1>1, HybridShapeNext, HybridLinkedNext
  <1>5. SnapshotsInv' /\ HybridCheckedInv'
    BY <1>1, SnapshotsNext, HybridCheckedNext
  <1>6. TurnsInv' /\ HybridUndoInv'
    BY <1>1, TurnsNext, HybridUndoNext
  <1>7. BeforeInv' /\ CommittedStamped'
    BY <1>1, BeforeNext, CommittedStampedNext
  <1>8. GetInv' /\ ReplyInv'
    BY <1>1, GetNext, ReplyNext
  <1>9. QED
    BY <1>2, <1>3, <1>4, <1>5, <1>6, <1>7, <1>8

\* The layers hold in every reachable state of the hybrid build.
THEOREM SnapshotInvariance == HybridSpec => []SnapshotIndInv
  BY SnapshotInitInv, SnapshotNextInv, PTL DEF HybridSpec

\* No version is put over one whose transaction is in progress, or was so in
\* the snapshot of the writer, and over a normal one only if that was committed
\* before the writer's start: also where versions of FastCommit transactions
\* lie between them, and where aborted ones of theirs stay in the chain
\* (check_ww_conflict, which does not ask for the status).
THEOREM WritersTakeTurnsInBothModes == HybridSpec => []WritersTakeTurns
  <1>1. SnapshotIndInv => WritersTakeTurns
    <2>1. SUFFICES ASSUME SnapshotIndInv, NEW k \in Key, NEW i \in DOMAIN chain[k], NEW j \in DOMAIN chain[k],
                          i < j, Owner(chain[k][i]) # Owner(chain[k][j])
                   PROVE  LET t == Owner(chain[k][i])
                              u == Owner(chain[k][j]) IN
                          /\ ~ InProgress(u)
                          /\ u \in fast /\ snapshot[t] # NoSnapshot => ~ InProgressIn(snapshot[t], start[u])
                          /\ u \notin fast /\ j = i + 1 => Committed(u) /\ commit[u] < start[t]
      BY DEF WritersTakeTurns
    <2>2. Owner(chain[k][i]) \in Txn /\ Owner(chain[k][j]) \in Txn
      BY <2>1, ChainShape DEF SnapshotIndInv
    <2>3. /\ TakesTurn(Owner(chain[k][i]), Owner(chain[k][j]))
          /\ j = i + 1 => Above(Owner(chain[k][i]), Owner(chain[k][j]))
      BY <2>1, <2>2 DEF SnapshotIndInv, TurnsInv
    <2>4. QED
      BY <2>2, <2>3 DEF TakesTurn, Above, Sees
  <1>2. QED
    BY <1>1, SnapshotInvariance, PTL

\* A get misses nothing that had been committed when its transaction started,
\* whatever the mode of its writer: it returns the newest such version or one
\* above it, although the snapshot is recorded later than the start, at the
\* first question (record_snapshot, get_snapshot; commit sets the status before
\* it returns).
THEOREM CommittedBeforeIsFound == HybridSpec => []CommittedIsFound
  <1>1. SnapshotIndInv => CommittedIsFound
    BY DEF SnapshotIndInv, ReplyInv, Answers, CommittedIsFound
  <1>2. QED
    BY <1>1, SnapshotInvariance, PTL
=============================================================================
