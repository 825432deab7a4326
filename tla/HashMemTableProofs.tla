------------------------- MODULE HashMemTableProofs -------------------------
(***************************************************************************)
(* Proofs about HashMemTable, for any transactions, keys and number of     *)
(* writes.  The invariants come in layers:                                 *)
(*   ShapeInv    the shape of chains, redo nodes and running operations,   *)
(*               with RoomInv, the room a writer has for its node;         *)
(*   NodesInv    whose nodes are linked and stamped, with TimesInv, the    *)
(*               order of timestamps;                                      *)
(*   RivalInv    writers of a key do not overlap, what a writer has        *)
(*               checked stays so until its compare_exchange, and what a   *)
(*               rollback has loaded stays at the head until it is undone; *)
(*   KeptInv     nothing is lost and nothing is linked twice;              *)
(*   CleanInv    a rollback leaves nothing behind it.                      *)
(*                                                                         *)
(* That the table implements SnapshotIsolation rests on RefInv.  What a    *)
(* transaction may see of a chain is a set of nodes that does not change   *)
(* while it is active: Seen.  Nobody else links or unlinks a node of that  *)
(* set, so the first of them in a chain stays the first, and it stays the  *)
(* first of what a walk that began earlier has yet to visit:               *)
(*   StampsInv   a commit that has left its critical section has stamped   *)
(*               all its versions;                                         *)
(*   OrderInv    versions of one transaction descend in a chain;           *)
(*   LoadedInv   what a running call has loaded still answers for the      *)
(*               chain as it is.                                           *)
(***************************************************************************)
EXTENDS HashMemTable, TransactionManagerProofs, SequenceTheorems, WellFoundedInduction

Redo == [key : Key, record : {"Insert", "Delete"}]
Result == Node \union {Absent, Done, Conflict}
Reply == [op : {"get", "put", "update", "delete"}, key : Key, result : Result]

TableCall ==
  [op : {"get", "put", "update", "delete"}, key : Key,
   pc : {"walk", "check", "load", "cas", "read"},
   head : Seq(Node), rest : Seq(Node), value : Node \union {Absent}]

RollbackCall == [op : {"rollback"}, next : Nat \ {0}, pc : {"load", "undo"}, head : Seq(Node)]

\* Types of the table, and the stage each operation belongs to.
ShapeInv ==
  /\ chain \in [Key -> Seq(Node)]
  /\ stamped \subseteq Node
  /\ redo \in [Txn -> Seq(Redo)]
  /\ \A t \in Txn : Len(redo[t]) <= MaxWrites
  /\ reply \in [Txn -> {NoReply} \union Reply]
  /\ call \in [Txn -> {NoCall} \union TableCall \union RollbackCall]
  /\ \A t \in Txn : /\ call[t] \in TableCall => stage[t] = "active"
                    /\ call[t] \in RollbackCall <=> stage[t] = "undoing"

-----------------------------------------------------------------------------
(* Sequences, and the least of a set of numbers.                           *)

\* Linking a node moves the others down by one.
LEMMA PushFacts ==
  ASSUME NEW S, NEW s \in Seq(S), NEW e \in S
  PROVE  /\ <<e>> \o s \in Seq(S)
         /\ Len(s) \in Nat /\ Len(<<e>> \o s) = Len(s) + 1
         /\ (<<e>> \o s)[1] = e
         /\ \A i \in 1 .. Len(s) : (<<e>> \o s)[i + 1] = s[i]
  <1>1. <<e>> \in Seq(S) /\ Len(<<e>>) = 1 /\ <<e>>[1] = e
    OBVIOUS
  <1>2. Len(s) \in Nat
    BY LenProperties
  <1>3. /\ <<e>> \o s \in Seq(S)
        /\ Len(<<e>> \o s) = 1 + Len(s)
        /\ \A i \in 1 .. 1 + Len(s) :
             (<<e>> \o s)[i] = IF i <= 1 THEN <<e>>[1] ELSE s[i - 1]
    BY <1>1, ConcatProperties
  <1>4. QED
    BY <1>1, <1>2, <1>3

\* Unlinking the head moves them up.
LEMMA PopFacts ==
  ASSUME NEW S, NEW s \in Seq(S), s # << >>
  PROVE  /\ Tail(s) \in Seq(S)
         /\ Len(s) \in Nat \ {0} /\ Len(Tail(s)) = Len(s) - 1
         /\ Head(s) = s[1] /\ s[1] \in S
         /\ \A i \in 1 .. Len(s) - 1 : Tail(s)[i] = s[i + 1]
  <1>1. Len(s) \in Nat \ {0}
    BY EmptySeq
  <1>2. Head(s) = s[1] /\ s[1] \in S
    BY <1>1, ElementOfSeq
  <1>3. QED
    BY <1>1, <1>2, HeadTailProperties

\* Redo nodes are added at the end.
LEMMA AppendFacts ==
  ASSUME NEW S, NEW s \in Seq(S), NEW e \in S
  PROVE  /\ Append(s, e) \in Seq(S)
         /\ Len(s) \in Nat /\ Len(Append(s, e)) = Len(s) + 1
         /\ \A i \in 1 .. Len(s) : Append(s, e)[i] = s[i]
         /\ Append(s, e)[Len(s) + 1] = e
  BY AppendProperties, LenProperties

\* Every nonempty set of natural numbers has a least element.
LEMMA LeastExists ==
  ASSUME NEW S, S \subseteq Nat, S # {}
  PROVE  MinOfSet(S) \in S /\ \A n \in S : MinOfSet(S) <= n
  <1> DEFINE R == OpToRel(<, Nat)
  <1>1. IsWellFoundedOn(R, Nat)
    BY NatLessThanWellFounded
  <1>2. \A m, n \in Nat : n < m => <<n, m>> \in R
    BY DEF OpToRel
  <1> HIDE DEF R
  <1>3. \E m \in S : \A n \in S : ~ (<<n, m>> \in R)
    BY <1>1, WFMin
  <1>4. PICK m \in S : \A n \in S : ~ (<<n, m>> \in R)
    BY <1>3
  <1>5. \A n \in S : m <= n
    <2>1. SUFFICES ASSUME NEW n \in S PROVE m <= n
      OBVIOUS
    <2>2. m \in Nat /\ n \in Nat
      OBVIOUS
    <2>3. ~ (n < m)
      BY <1>2, <1>4, <2>2
    <2>4. QED
      BY <2>2, <2>3
  <1>6. QED
    BY <1>5 DEF MinOfSet

-----------------------------------------------------------------------------
(* The manager under the table.                                            *)

\* Every step of the table is a step of the manager or none for it.
LEMMA ManagerStep == [Next]_vars => [TMNext]_tmVars
  <1> SUFFICES ASSUME [Next]_vars PROVE [TMNext]_tmVars
    OBVIOUS
  <1>1. CASE UNCHANGED vars
    BY <1>1 DEF vars, tmVars
  <1>2. ASSUME NEW t \in Txn, Continue(t) PROVE [TMNext]_tmVars
    <2>1. CASE Reload(t) \/ Check(t) \/ ReadForUpdate(t) \/ Walk(t) \/ Cas(t) \/ Stamp(t)
               \/ RollbackLoad(t) \/ RollbackStep(t)
      BY <2>1 DEF Reload, Check, ReadForUpdate, Walk, Cas, Stamp, RollbackLoad, RollbackStep
    <2>2. CASE FinishCommitTxn(t) \/ LogCommitTxn(t) \/ FinishAbortTxn(t)
      <3>1. FinishCommit(t, redo[t] = << >>) => \E r \in BOOLEAN : FinishCommit(t, r)
        OBVIOUS
      <3>2. TMTxnStep(t)
        BY <2>2, <3>1 DEF FinishCommitTxn, LogCommitTxn, FinishAbortTxn, TMTxnStep
      <3>3. QED
        BY <3>2 DEF TMNext
    <2>3. QED
      BY <1>2, <2>1, <2>2 DEF Continue
  <1>3. ASSUME NEW t \in Txn, Invoke(t) PROVE [TMNext]_tmVars
    <2>1. ASSUME NEW op, NEW k \in Key, Call(t, op, k) PROVE [TMNext]_tmVars
      BY <2>1 DEF Call
    <2>2. StartTxn(t) \/ BeginCommitTxn(t) \/ BeginAbortTxn(t) => TMTxnStep(t)
      BY DEF StartTxn, BeginCommitTxn, BeginAbortTxn, TMTxnStep
    <2>3. QED
      BY <1>3, <2>1, <2>2 DEF Invoke, TMNext
  <1>4. QED
    BY <1>1, <1>2, <1>3 DEF Next

InCommit == {"stamping", "logging", "committed"}

\* What a step leaves of the past of a transaction.
LEMMA StageMoves ==
  ASSUME TMTypeOK, [TMNext]_tmVars, NEW u \in Txn
  PROVE  /\ Started(u) => Started(u)' /\ start'[u] = start[u]
         /\ Committed(u) => Committed(u)'
         /\ stage[u] \in InCommit => stage'[u] \in InCommit /\ commit'[u] = commit[u]
         /\ stage'[u] = "aborted" => stage[u] \in {"undoing", "aborted"}
         /\ stage'[u] \in InCommit => stage[u] \in InCommit \union {"active"}
  <1> USE DEF Started, Committed, InCommit, TMTypeOK
  <1>1. CASE UNCHANGED tmVars
    BY <1>1 DEF tmVars
  <1>2. CASE MinXip
    BY <1>2 DEF MinXip
  <1>3. ASSUME NEW t \in Txn, TMTxnStep(t)
        PROVE  /\ Started(u) => Started(u)' /\ start'[u] = start[u]
               /\ Committed(u) => Committed(u)'
               /\ stage[u] \in InCommit => stage'[u] \in InCommit /\ commit'[u] = commit[u]
               /\ stage'[u] = "aborted" => stage[u] \in {"undoing", "aborted"}
               /\ stage'[u] \in InCommit => stage[u] \in InCommit \union {"active"}
    <2>1. CASE Start(t)
      BY <2>1 DEF Start
    <2>2. CASE BeginCommit(t)
      BY <2>2 DEF BeginCommit
    <2>3. ASSUME NEW r \in BOOLEAN, FinishCommit(t, r)
          PROVE  /\ stage[t] = "stamping" /\ stage'[t] \in {"logging", "committed"}
                 /\ \A v \in Txn : v # t => stage'[v] = stage[v]
                 /\ UNCHANGED <<start, commit>>
      BY <2>3 DEF FinishCommit
    <2>4. CASE LogCommit(t)
      BY <2>4 DEF LogCommit
    <2>5. CASE BeginAbort(t) \/ FinishAbort(t)
      BY <2>5 DEF BeginAbort, FinishAbort
    <2>6. QED
      BY <1>3, <2>1, <2>2, <2>3, <2>4, <2>5 DEF TMTxnStep
  <1>4. QED
    BY <1>1, <1>2, <1>3 DEF TMNext

-----------------------------------------------------------------------------
(* The shape.                                                              *)

\* Nothing runs and nothing is linked.
LEMMA ShapeInit == Init => ShapeInv
  <1> SUFFICES ASSUME Init PROVE ShapeInv
    OBVIOUS
  <1>1. << >> \in Seq(Node) /\ << >> \in Seq(Redo) /\ Len(<< >>) <= MaxWrites
    BY MaxWritesAssumption, EmptySeq
  <1>2. NoCall \notin TableCall /\ NoCall \notin RollbackCall
    BY DEF NoCall, TableCall, RollbackCall
  <1>3. QED
    BY <1>1, <1>2 DEF Init, TMInit, ShapeInv

\* What the operation of a thread may look like where it goes on.
LEMMA CallShape ==
  ASSUME ShapeInv, NEW t \in Txn
  PROVE  /\ stage[t] = "active" /\ ~ Idle(t) => call[t] \in TableCall
         /\ stage[t] = "undoing" => call[t] \in RollbackCall
         /\ stage[t] \notin {"active", "undoing"} => Idle(t)
         /\ Idle(t) => call[t] \notin TableCall /\ call[t] \notin RollbackCall
  BY DEF ShapeInv, Idle, NoCall, TableCall, RollbackCall

\* Operations that move on, return, or are called leave the shape.
LEMMA OperationShape ==
  ASSUME TMTypeOK, ShapeInv, NEW t \in Txn, NEW c \in {NoCall} \union TableCall,
         stage[t] = "active", UNCHANGED <<stage, chain, stamped, redo>>,
         call' = [call EXCEPT ![t] = c],
         reply' = reply \/ \E r \in Reply : reply' = [reply EXCEPT ![t] = r]
  PROVE  ShapeInv'
  <1>1. c \notin RollbackCall
    BY DEF NoCall, TableCall, RollbackCall
  <1>2. reply' \in [Txn -> {NoReply} \union Reply]
    BY DEF ShapeInv
  <1>3. call' \in [Txn -> {NoCall} \union TableCall \union RollbackCall]
    BY DEF ShapeInv
  <1>4. \A u \in Txn : /\ call'[u] \in TableCall => stage'[u] = "active"
                       /\ call'[u] \in RollbackCall <=> stage'[u] = "undoing"
    BY <1>1 DEF ShapeInv
  <1>5. QED
    BY <1>2, <1>3, <1>4 DEF ShapeInv

\* The fields of an operation, and of one that is changed.
LEMMA CallFields ==
  ASSUME NEW c \in TableCall
  PROVE  /\ c.op \in {"get", "put", "update", "delete"} /\ c.key \in Key
         /\ c.pc \in {"walk", "check", "load", "cas", "read"}
         /\ c.head \in Seq(Node) /\ c.rest \in Seq(Node) /\ c.value \in Node \union {Absent}
         /\ \A p \in {"walk", "check", "load", "cas", "read"} : [c EXCEPT !.pc = p] \in TableCall
         /\ \A h \in Seq(Node), p \in {"walk", "check", "load", "cas", "read"} :
              /\ [c EXCEPT !.head = h, !.pc = p] \in TableCall
              /\ [c EXCEPT !.rest = h, !.pc = p] \in TableCall
              /\ [c EXCEPT !.rest = h] \in TableCall
              /\ \A v \in Node \union {Absent} :
                   [c EXCEPT !.value = v, !.rest = h, !.pc = p] \in TableCall
  <1> DEFINE PC == {"walk", "check", "load", "cas", "read"}
  <1>1. /\ c.op \in {"get", "put", "update", "delete"} /\ c.key \in Key /\ c.pc \in PC
        /\ c.head \in Seq(Node) /\ c.rest \in Seq(Node) /\ c.value \in Node \union {Absent}
    BY DEF TableCall
  <1>2. \A p \in PC : [c EXCEPT !.pc = p] \in TableCall
    BY DEF TableCall
  <1>3. \A h \in Seq(Node), p \in PC : [c EXCEPT !.head = h, !.pc = p] \in TableCall
    BY DEF TableCall
  <1>4. \A h \in Seq(Node), p \in PC : [c EXCEPT !.rest = h, !.pc = p] \in TableCall
    BY DEF TableCall
  <1>5. \A h \in Seq(Node) : [c EXCEPT !.rest = h] \in TableCall
    BY DEF TableCall
  <1>6. \A h \in Seq(Node), p \in PC, v \in Node \union {Absent} :
          [c EXCEPT !.value = v, !.rest = h, !.pc = p] \in TableCall
    BY DEF TableCall
  <1>7. QED
    BY <1>1, <1>2, <1>3, <1>4, <1>5, <1>6

\* Node numbers: the next one fits the bound of writes.
LEMMA NextNode ==
  ASSUME ShapeInv, NEW t \in Txn, Len(redo[t]) < MaxWrites
  PROVE  <<t, Len(redo[t]) + 1>> \in Node
  <1>1. Len(redo[t]) \in Nat
    BY LenProperties DEF ShapeInv
  <1>2. QED
    BY <1>1, MaxWritesAssumption DEF Node

\* The tail of a chain that is not exhausted.
LEMMA RestShape ==
  ASSUME NEW s \in Seq(Node), s # << >>
  PROVE  Head(s) \in Node /\ Tail(s) \in Seq(Node)
  BY PopFacts

\* The operations of an active transaction that do not write.
LEMMA ReadingShape ==
  ASSUME TMTypeOK, ShapeInv, NEW t \in Txn,
         \/ Reload(t) \/ Check(t) \/ ReadForUpdate(t) \/ Walk(t)
         \/ \E op \in {"get", "put", "update", "delete"}, k \in Key : Call(t, op, k)
  PROVE  /\ ShapeInv'
         /\ stage[t] = "active"
         /\ UNCHANGED <<tmVars, chain, stamped, redo>>
         /\ \A u \in Txn : u # t => call'[u] = call[u]
         /\ call'[t] \in {NoCall} \union TableCall
  <1> DEFINE Moved ==
        \E c \in {NoCall} \union TableCall :
           /\ call' = [call EXCEPT ![t] = c]
           /\ reply' = reply \/ \E r \in Reply : reply' = [reply EXCEPT ![t] = r]
  <1>a. \A k \in Key : chain[k] \in Seq(Node)
    BY DEF ShapeInv
  <1>1. ASSUME stage[t] = "active", UNCHANGED <<tmVars, chain, stamped, redo>>, Moved
        PROVE  /\ ShapeInv'
               /\ \A u \in Txn : u # t => call'[u] = call[u]
               /\ call'[t] \in {NoCall} \union TableCall
    <2>1. stage' = stage
      BY <1>1 DEF tmVars
    <2>2. QED
      BY <1>1, <2>1, OperationShape DEF ShapeInv
  <1>2. \A op \in {"get", "put", "update", "delete"}, k \in Key, v \in Result :
          [op |-> op, key |-> k, result |-> v] \in Reply
    BY DEF Reply
  <1>3. CASE Reload(t)
    <2>1. stage[t] = "active" /\ call[t] \in TableCall
      BY <1>3, CallShape DEF Reload, At
    <2>2. [call[t] EXCEPT !.head = chain[call[t].key], !.pc = "check"] \in TableCall
      BY <1>a, <2>1, CallFields
    <2>3. call' = [call EXCEPT ![t] = [call[t] EXCEPT !.head = chain[call[t].key], !.pc = "check"]]
      BY <1>3 DEF Reload, ShapeInv
    <2>4. QED
      BY <1>1, <1>3, <2>1, <2>2, <2>3 DEF Reload
  <1>4. CASE ReadForUpdate(t)
    <2>1. stage[t] = "active" /\ call[t] \in TableCall
      BY <1>4, CallShape DEF ReadForUpdate, At
    <2>2. [call[t] EXCEPT !.rest = chain[call[t].key], !.pc = "walk"] \in TableCall
      BY <1>a, <2>1, CallFields
    <2>3. call' = [call EXCEPT ![t] = [call[t] EXCEPT !.rest = chain[call[t].key], !.pc = "walk"]]
      BY <1>4 DEF ReadForUpdate, ShapeInv
    <2>4. QED
      BY <1>1, <1>4, <2>1, <2>2, <2>3 DEF ReadForUpdate
  <1>5. CASE Check(t)
    <2>1. stage[t] = "active" /\ call[t] \in TableCall
      BY <1>5, CallShape DEF Check, At
    <2>2. \/ Return(t, Conflict) \/ Return(t, Absent)
          \/ \E p \in {"cas", "read"} : GoTo(t, p) /\ UNCHANGED reply
      BY <1>5 DEF Check
    <2>3. CASE Return(t, Conflict) \/ Return(t, Absent)
      BY <1>1, <1>2, <1>5, <2>1, <2>3, CallFields DEF Return, Result, Check
    <2>4. ASSUME NEW p \in {"cas", "read"}, GoTo(t, p), UNCHANGED reply
          PROVE  Moved
      <3>1. [call[t] EXCEPT !.pc = p] \in TableCall
        BY <2>1, CallFields
      <3>2. call' = [call EXCEPT ![t] = [call[t] EXCEPT !.pc = p]]
        BY <2>4 DEF GoTo, ShapeInv
      <3>3. QED
        BY <2>4, <3>1, <3>2
    <2>5. QED
      BY <1>1, <1>5, <2>1, <2>2, <2>3, <2>4 DEF Check
  <1>6. CASE Walk(t)
    <2>1. stage[t] = "active" /\ call[t] \in TableCall
      BY <1>6, CallShape DEF Walk, At
    <2>2. /\ call[t].rest \in Seq(Node)
          /\ call[t].rest # << >> => Head(call[t].rest) \in Node
      BY <2>1, CallFields, RestShape
    <2>3. call[t].rest # << >> => ValueOf(Head(call[t].rest)) \in Node \union {Absent}
      BY <2>2 DEF ValueOf
    <2>4. << >> \in Seq(Node)
      OBVIOUS
    <2>5. \/ /\ call[t].rest # << >>
             /\ call' = [call EXCEPT ![t].rest = Tail(call[t].rest)]
             /\ UNCHANGED reply
          \/ \E v \in Node \union {Absent} : Return(t, v)
          \/ \E v \in Node \union {Absent} :
                /\ call' = [call EXCEPT ![t].value = v, ![t].rest = << >>, ![t].pc = "cas"]
                /\ UNCHANGED reply
      BY <1>6, <2>3 DEF Walk
    <2>6. ASSUME call[t].rest # << >>, call' = [call EXCEPT ![t].rest = Tail(call[t].rest)],
                 UNCHANGED reply
          PROVE  Moved
      <3>1. [call[t] EXCEPT !.rest = Tail(call[t].rest)] \in TableCall
        BY <2>1, <2>2, <2>6, RestShape, CallFields
      <3>2. call' = [call EXCEPT ![t] = [call[t] EXCEPT !.rest = Tail(call[t].rest)]]
        BY <2>6 DEF ShapeInv
      <3>3. QED
        BY <2>6, <3>1, <3>2
    <2>7. ASSUME NEW v \in Node \union {Absent}, Return(t, v) PROVE Moved
      BY <1>2, <2>1, <2>7, CallFields DEF Return, Result
    <2>8. ASSUME NEW v \in Node \union {Absent},
                 call' = [call EXCEPT ![t].value = v, ![t].rest = << >>, ![t].pc = "cas"],
                 UNCHANGED reply
          PROVE  Moved
      <3>1. [call[t] EXCEPT !.value = v, !.rest = << >>, !.pc = "cas"] \in TableCall
        BY <2>1, <2>4, CallFields
      <3>2. call' = [call EXCEPT ![t] = [call[t] EXCEPT !.value = v, !.rest = << >>, !.pc = "cas"]]
        BY <2>8 DEF ShapeInv
      <3>3. QED
        BY <2>8, <3>1, <3>2
    <2>9. QED
      BY <1>1, <1>6, <2>1, <2>5, <2>6, <2>7, <2>8 DEF Walk
  <1>7. ASSUME NEW op \in {"get", "put", "update", "delete"}, NEW k \in Key, Call(t, op, k)
        PROVE  Moved /\ stage[t] = "active" /\ UNCHANGED <<tmVars, chain, stamped, redo>>
    <2> DEFINE c == [op |-> op, key |-> k, pc |-> IF op = "get" THEN "walk" ELSE "check",
                     head |-> IF op = "get" THEN << >> ELSE chain[k],
                     rest |-> IF op = "get" THEN chain[k] ELSE << >>,
                     value |-> Absent]
    <2>1. << >> \in Seq(Node) /\ chain[k] \in Seq(Node)
      BY <1>a
    <2>2. c \in TableCall
      BY <2>1 DEF TableCall
    <2>3. call' = [call EXCEPT ![t] = c]
      BY <1>7 DEF Call
    <2>4. stage[t] = "active" /\ UNCHANGED <<tmVars, chain, stamped, redo, reply>>
      BY <1>7 DEF Call
    <2>5. QED
      BY <2>2, <2>3, <2>4
  <1>8. QED
    BY <1>1, <1>3, <1>4, <1>5, <1>6, <1>7

\* get only walks, and a writer has room for one more redo node.
RoomInv ==
  \A t \in Txn : call[t] \in TableCall =>
    /\ call[t].op = "get" => call[t].pc = "walk"
    /\ call[t].op # "get" => Len(redo[t]) < MaxWrites

\* The compare_exchange succeeds: a node is linked and remembered.
Linked(t) ==
  LET k == call[t].key
      node == <<t, Len(redo[t]) + 1>> IN
  /\ chain[k] = call[t].head
  /\ chain' = [chain EXCEPT ![k] = <<node>> \o chain[k]]
  /\ \E r \in Redo : r.key = k /\ redo' = [redo EXCEPT ![t] = Append(redo[t], r)]
  /\ call'[t] = NoCall

\* Either it succeeds, or the retry loop starts again.
LEMMA CasShape ==
  ASSUME TMTypeOK, ShapeInv, RoomInv, NEW t \in Txn, Cas(t)
  PROVE  /\ ShapeInv'
         /\ stage[t] = "active" /\ call[t] \in TableCall /\ call[t].pc = "cas"
         /\ UNCHANGED <<tmVars, stamped>>
         /\ \A u \in Txn : u # t => call'[u] = call[u]
         /\ \/ Linked(t)
            \/ /\ UNCHANGED <<chain, redo>>
               /\ call'[t] = [call[t] EXCEPT !.pc = "load"]
               /\ call'[t] \in TableCall
  <1> DEFINE k == call[t].key
             head == call[t].head
             node == <<t, Len(redo[t]) + 1>>
  <1>1. stage[t] = "active" /\ call[t] \in TableCall /\ call[t].pc = "cas"
    BY CallShape DEF Cas, At
  <1>2. k \in Key /\ head \in Seq(Node) /\ call[t].op \in {"put", "update", "delete"}
    BY <1>1, CallFields DEF RoomInv
  <1>3. UNCHANGED <<tmVars, stamped>> /\ stage' = stage
    BY DEF Cas, tmVars
  <1>4. CASE chain[k] # head
    <2>1. UNCHANGED <<chain, redo, reply>> /\ call' = [call EXCEPT ![t].pc = "load"]
      BY <1>4 DEF Cas, GoTo
    <2>2. [call[t] EXCEPT !.pc = "load"] \in TableCall
      BY <1>1, CallFields
    <2>3. call' = [call EXCEPT ![t] = [call[t] EXCEPT !.pc = "load"]]
      BY <2>1 DEF ShapeInv
    <2>4. ShapeInv'
      BY <1>1, <1>3, <2>1, <2>2, <2>3, OperationShape
    <2>5. call'[t] = [call[t] EXCEPT !.pc = "load"] /\ \A u \in Txn : u # t => call'[u] = call[u]
      BY <2>3 DEF ShapeInv
    <2>6. QED
      BY <1>1, <1>3, <2>1, <2>2, <2>4, <2>5
  <1>5. CASE chain[k] = head
    <2> DEFINE r == [key |-> k, record |-> IF call[t].op = "delete" THEN "Delete" ELSE "Insert"]
               v == IF call[t].op = "update" THEN call[t].value ELSE Done
    <2>1. /\ chain' = [chain EXCEPT ![k] = <<node>> \o chain[k]]
          /\ redo' = [redo EXCEPT ![t] = Append(redo[t], r)]
          /\ Return(t, v)
      BY <1>5 DEF Cas
    <2>2. Len(redo[t]) < MaxWrites /\ node \in Node
      BY <1>1, <1>2, NextNode DEF RoomInv
    <2>3. r \in Redo /\ r.key = k
      BY <1>2 DEF Redo
    <2>4. v \in Result
      BY <1>1, CallFields DEF Result
    <2>5. <<node>> \o chain[k] \in Seq(Node) /\ chain' \in [Key -> Seq(Node)]
      <3>1. chain[k] \in Seq(Node) /\ chain \in [Key -> Seq(Node)]
        BY <1>2 DEF ShapeInv
      <3>2. <<node>> \o chain[k] \in Seq(Node)
        BY <2>2, <3>1, PushFacts
      <3>3. QED
        BY <2>1, <3>1, <3>2
    <2>6. /\ redo' \in [Txn -> Seq(Redo)]
          /\ \A u \in Txn : Len(redo'[u]) <= MaxWrites
      <3>1. redo \in [Txn -> Seq(Redo)] /\ \A u \in Txn : Len(redo[u]) <= MaxWrites
        BY DEF ShapeInv
      <3>2. /\ Append(redo[t], r) \in Seq(Redo) /\ Len(redo[t]) \in Nat
            /\ Len(Append(redo[t], r)) = Len(redo[t]) + 1
        BY <2>3, <3>1, AppendFacts
      <3>3. QED
        BY <2>1, <2>2, <3>1, <3>2, MaxWritesAssumption
    <2>7. /\ call' = [call EXCEPT ![t] = NoCall]
          /\ reply' = [reply EXCEPT ![t] = [op |-> call[t].op, key |-> k, result |-> v]]
      BY <2>1 DEF Return
    <2>8. reply' \in [Txn -> {NoReply} \union Reply]
      <3>1. [op |-> call[t].op, key |-> k, result |-> v] \in Reply
        BY <1>2, <2>4 DEF Reply
      <3>2. QED
        BY <2>7, <3>1 DEF ShapeInv
    <2>9. /\ call' \in [Txn -> {NoCall} \union TableCall \union RollbackCall]
          /\ call'[t] = NoCall /\ \A u \in Txn : u # t => call'[u] = call[u]
      BY <2>7 DEF ShapeInv
    <2>10. NoCall \notin TableCall /\ NoCall \notin RollbackCall
      BY DEF NoCall, TableCall, RollbackCall
    <2>11. ShapeInv'
      BY <1>1, <1>3, <2>5, <2>6, <2>8, <2>9, <2>10 DEF ShapeInv
    <2>12. Linked(t)
      BY <1>5, <2>1, <2>3, <2>9 DEF Linked
    <2>13. QED
      BY <1>1, <1>3, <2>9, <2>11, <2>12
  <1>6. QED
    BY <1>4, <1>5

\* start and commit: the table has nothing to do with them.
ManagerAction(t) ==
  StartTxn(t) \/ BeginCommitTxn(t) \/ FinishCommitTxn(t) \/ LogCommitTxn(t)

\* They leave the table alone and no operation is running.
LEMMA ManagerShape ==
  ASSUME TMTypeOK, ShapeInv, NEW t \in Txn, ManagerAction(t)
  PROVE  /\ ShapeInv' /\ UNCHANGED hmtVars
         /\ Idle(t) /\ stage[t] # "undoing" /\ stage'[t] # "undoing" /\ stage'[t] # "aborted"
         /\ \A u \in Txn : u # t => stage'[u] = stage[u]
  <1>1. UNCHANGED hmtVars
    BY DEF ManagerAction, StartTxn, BeginCommitTxn, FinishCommitTxn, LogCommitTxn
  <1>2. /\ stage[t] \in {"idle", "stamping", "logging"} \/ (stage[t] = "active" /\ Idle(t))
        /\ stage'[t] \in {"active", "stamping", "logging", "committed"}
        /\ \A u \in Txn : u # t => stage'[u] = stage[u]
    BY DEF ManagerAction, StartTxn, BeginCommitTxn, FinishCommitTxn, LogCommitTxn,
       Start, BeginCommit, FinishCommit, LogCommit, TMTypeOK
  <1>3. Idle(t)
    BY <1>2, CallShape
  <1>4. UNCHANGED <<chain, stamped, redo, call, reply>>
    BY <1>1 DEF hmtVars
  <1>5. \A u \in Txn : /\ call'[u] \in TableCall => stage'[u] = "active"
                       /\ call'[u] \in RollbackCall <=> stage'[u] = "undoing"
    <2>1. ASSUME NEW u \in Txn, u # t
          PROVE  /\ call'[u] \in TableCall => stage'[u] = "active"
                 /\ call'[u] \in RollbackCall <=> stage'[u] = "undoing"
      BY <1>2, <1>4, <2>1 DEF ShapeInv
    <2>2. call'[t] \notin TableCall /\ call'[t] \notin RollbackCall
      BY <1>3, <1>4, CallShape
    <2>3. QED
      BY <1>2, <2>1, <2>2
  <1>6. ShapeInv'
    BY <1>4, <1>5 DEF ShapeInv
  <1>7. QED
    BY <1>1, <1>2, <1>3, <1>6

\* One node of the transaction in commit is stamped.
LEMMA StampShape ==
  ASSUME TMTypeOK, ShapeInv, NEW t \in Txn, Stamp(t)
  PROVE  /\ ShapeInv' /\ stage[t] = "stamping"
         /\ UNCHANGED <<tmVars, chain, redo, call, reply>>
         /\ \E i \in DOMAIN redo[t] : stamped' = stamped \union {<<t, i>>}
  <1>1. /\ stage[t] = "stamping" /\ UNCHANGED <<tmVars, chain, redo, call, reply>>
        /\ stage' = stage
    BY DEF Stamp, tmVars
  <1>2. PICK i \in DOMAIN redo[t] : stamped' = stamped \union {<<t, i>>}
    BY DEF Stamp
  <1>3. DOMAIN redo[t] = 1 .. Len(redo[t]) /\ Len(redo[t]) \in Nat /\ Len(redo[t]) <= MaxWrites
    BY LenProperties DEF ShapeInv
  <1>4. <<t, i>> \in Node
    BY <1>2, <1>3, MaxWritesAssumption DEF Node
  <1>5. ShapeInv'
    BY <1>1, <1>2, <1>4 DEF ShapeInv
  <1>6. QED
    BY <1>1, <1>2, <1>5

\* The fields of a rollback.
LEMMA RollbackFields ==
  ASSUME NEW c \in RollbackCall
  PROVE  /\ c.op = "rollback" /\ c.next \in Nat \ {0} /\ c.pc \in {"load", "undo"}
         /\ c.head \in Seq(Node)
         /\ \A h \in Seq(Node) : /\ [c EXCEPT !.head = h, !.pc = "undo"] \in RollbackCall
                                 /\ [c EXCEPT !.head = h] \in RollbackCall
         /\ [c EXCEPT !.next = c.next + 1, !.pc = "load", !.head = << >>] \in RollbackCall
  <1>1. /\ c.op = "rollback" /\ c.next \in Nat \ {0} /\ c.pc \in {"load", "undo"}
        /\ c.head \in Seq(Node)
    BY DEF RollbackCall
  <1>2. ASSUME NEW h \in Seq(Node)
        PROVE  /\ [c EXCEPT !.head = h, !.pc = "undo"] \in RollbackCall
               /\ [c EXCEPT !.head = h] \in RollbackCall
    BY DEF RollbackCall
  <1>3. c.next + 1 \in Nat \ {0} /\ << >> \in Seq(Node)
    BY <1>1
  <1>4. [c EXCEPT !.next = c.next + 1, !.pc = "load", !.head = << >>] \in RollbackCall
    BY <1>3 DEF RollbackCall
  <1>5. QED
    BY <1>1, <1>2, <1>4

\* A rollback goes on, and the chain of its key may lose its head.
LEMMA RollbackGoesOn ==
  ASSUME TMTypeOK, ShapeInv, NEW t \in Txn, NEW c \in RollbackCall,
         stage[t] = "undoing", UNCHANGED <<tmVars, stamped, redo, reply>>,
         call' = [call EXCEPT ![t] = c], chain' \in [Key -> Seq(Node)]
  PROVE  /\ ShapeInv' /\ call'[t] = c /\ \A u \in Txn : u # t => call'[u] = call[u]
  <1>1. stage' = stage
    BY DEF tmVars
  <1>2. c \notin TableCall
    BY DEF TableCall, RollbackCall
  <1>3. call'[t] = c /\ \A u \in Txn : u # t => call'[u] = call[u]
    BY DEF ShapeInv
  <1>4. call' \in [Txn -> {NoCall} \union TableCall \union RollbackCall]
    BY DEF ShapeInv
  <1>5. QED
    BY <1>1, <1>2, <1>3, <1>4 DEF ShapeInv

\* abort starts with the first redo node.
LEMMA BeginAbortShape ==
  ASSUME TMTypeOK, ShapeInv, NEW t \in Txn, BeginAbortTxn(t)
  PROVE  /\ ShapeInv' /\ UNCHANGED <<chain, stamped, redo, reply, start, commit>>
         /\ stage[t] = "active" /\ stage'[t] = "undoing" /\ Idle(t)
         /\ \A u \in Txn : u # t => call'[u] = call[u] /\ stage'[u] = stage[u]
         /\ call'[t] \in RollbackCall /\ call'[t].next = 1 /\ call'[t].pc = "load"
  <1> DEFINE c == [op |-> "rollback", next |-> 1, pc |-> "load", head |-> << >>]
  <1>1. /\ UNCHANGED <<chain, stamped, redo, reply, start, commit>> /\ Idle(t)
        /\ stage[t] = "active" /\ stage' = [stage EXCEPT ![t] = "undoing"]
        /\ call' = [call EXCEPT ![t] = c]
    BY DEF BeginAbortTxn, BeginAbort
  <1>2. << >> \in Seq(Node)
    OBVIOUS
  <1>3. c \in RollbackCall /\ c \notin TableCall
    BY <1>2 DEF RollbackCall, TableCall
  <1>4. /\ call'[t] = c /\ stage'[t] = "undoing"
        /\ \A u \in Txn : u # t => call'[u] = call[u] /\ stage'[u] = stage[u]
    BY <1>1 DEF ShapeInv, TMTypeOK
  <1>5. call' \in [Txn -> {NoCall} \union TableCall \union RollbackCall]
    BY <1>1, <1>3 DEF ShapeInv
  <1>6. ShapeInv'
    BY <1>1, <1>3, <1>4, <1>5 DEF ShapeInv
  <1>7. QED
    BY <1>1, <1>3, <1>4, <1>6

\* abort ends behind the last one.
LEMMA FinishAbortShape ==
  ASSUME TMTypeOK, ShapeInv, NEW t \in Txn, FinishAbortTxn(t)
  PROVE  /\ ShapeInv' /\ UNCHANGED <<chain, stamped, redo, reply, start, commit>>
         /\ stage[t] = "undoing" /\ stage'[t] = "aborted"
         /\ call[t] \in RollbackCall /\ call[t].next \notin DOMAIN redo[t]
         /\ \A u \in Txn : u # t => call'[u] = call[u] /\ stage'[u] = stage[u]
         /\ call'[t] = NoCall
  <1>1. /\ UNCHANGED <<chain, stamped, redo, reply, start, commit>>
        /\ stage[t] = "undoing" /\ stage' = [stage EXCEPT ![t] = "aborted"]
        /\ call[t].next \notin DOMAIN redo[t]
        /\ call' = [call EXCEPT ![t] = NoCall]
    BY DEF FinishAbortTxn, FinishAbort
  <1>2. NoCall \notin TableCall /\ NoCall \notin RollbackCall
    BY DEF NoCall, TableCall, RollbackCall
  <1>3. /\ call'[t] = NoCall /\ stage'[t] = "aborted"
        /\ \A u \in Txn : u # t => call'[u] = call[u] /\ stage'[u] = stage[u]
    BY <1>1 DEF ShapeInv, TMTypeOK
  <1>4. call' \in [Txn -> {NoCall} \union TableCall \union RollbackCall]
    BY <1>1 DEF ShapeInv
  <1>5. ShapeInv'
    BY <1>1, <1>2, <1>3, <1>4 DEF ShapeInv
  <1>6. call[t] \in RollbackCall
    BY <1>1, CallShape
  <1>7. QED
    BY <1>1, <1>3, <1>5, <1>6

\* The head of the chain of the next redo node is loaded.
LEMMA RollbackLoadShape ==
  ASSUME TMTypeOK, ShapeInv, NEW t \in Txn, RollbackLoad(t)
  PROVE  /\ ShapeInv' /\ UNCHANGED <<tmVars, chain, stamped, redo, reply>>
         /\ stage[t] = "undoing" /\ call[t] \in RollbackCall /\ call[t].pc = "load"
         /\ call[t].next \in DOMAIN redo[t]
         /\ \A u \in Txn : u # t => call'[u] = call[u]
         /\ call'[t] \in RollbackCall /\ call'[t].next = call[t].next /\ call'[t].pc = "undo"
         /\ call'[t].head = chain[redo[t][call[t].next].key]
  <1> DEFINE h == chain[redo[t][call[t].next].key]
             c == [call[t] EXCEPT !.head = h, !.pc = "undo"]
  <1>1. /\ stage[t] = "undoing" /\ call[t].pc = "load" /\ call[t].next \in DOMAIN redo[t]
        /\ UNCHANGED <<tmVars, chain, stamped, redo, reply>>
        /\ call' = [call EXCEPT ![t].head = h, ![t].pc = "undo"]
    BY DEF RollbackLoad
  <1>2. call[t] \in RollbackCall
    BY <1>1, CallShape
  <1>3. redo[t][call[t].next].key \in Key
    <2>1. redo[t] \in Seq(Redo) /\ DOMAIN redo[t] = 1 .. Len(redo[t])
      BY LenProperties DEF ShapeInv
    <2>2. redo[t][call[t].next] \in Redo
      BY <1>1, <2>1, ElementOfSeq
    <2>3. QED
      BY <2>2 DEF Redo
  <1>4. h \in Seq(Node) /\ chain \in [Key -> Seq(Node)]
    BY <1>3 DEF ShapeInv
  <1>5. c \in RollbackCall
    BY <1>2, <1>4, RollbackFields
  <1>6. call' = [call EXCEPT ![t] = c]
    BY <1>1 DEF ShapeInv
  <1>7. ShapeInv' /\ call'[t] = c /\ \A u \in Txn : u # t => call'[u] = call[u]
    BY <1>1, <1>4, <1>5, <1>6, RollbackGoesOn
  <1>8. c.next = call[t].next /\ c.pc = "undo" /\ c.head = h
    BY <1>2 DEF RollbackCall
  <1>9. QED
    BY <1>1, <1>2, <1>5, <1>7, <1>8

\* The version at the head is one of the transaction that rolls back.
OwnHead(t) ==
  call[t].head # << >> /\ Head(call[t].head) \notin stamped /\ Owner(Head(call[t].head)) = t

\* A version of its own is taken off, or the rollback goes to the next redo node.
LEMMA RollbackStepShape ==
  ASSUME TMTypeOK, ShapeInv, NEW t \in Txn, RollbackStep(t)
  PROVE  /\ ShapeInv' /\ UNCHANGED <<tmVars, stamped, redo, reply>>
         /\ stage[t] = "undoing" /\ call[t] \in RollbackCall /\ call[t].pc = "undo"
         /\ \A u \in Txn : u # t => call'[u] = call[u]
         /\ call'[t] \in RollbackCall
         /\ \/ /\ OwnHead(t)
               /\ chain' = [chain EXCEPT ![redo[t][call[t].next].key] = Tail(call[t].head)]
               /\ call'[t].next = call[t].next /\ call'[t].pc = "undo"
               /\ call'[t].head = Tail(call[t].head)
            \/ /\ ~ OwnHead(t)
               /\ UNCHANGED chain
               /\ call'[t].next = call[t].next + 1 /\ call'[t].pc = "load"
  <1> DEFINE k == redo[t][call[t].next].key
  <1>1. /\ stage[t] = "undoing" /\ call[t].pc = "undo"
        /\ UNCHANGED <<tmVars, stamped, redo, reply>>
    BY DEF RollbackStep
  <1>2. call[t] \in RollbackCall /\ call[t].head \in Seq(Node) /\ call[t].next \in Nat
    BY <1>1, CallShape, RollbackFields
  <1>3. CASE OwnHead(t)
    <2> DEFINE c == [call[t] EXCEPT !.head = Tail(call[t].head)]
    <2>1. /\ chain' = [chain EXCEPT ![k] = Tail(call[t].head)]
          /\ call' = [call EXCEPT ![t].head = Tail(call[t].head)]
      BY <1>3 DEF RollbackStep, OwnHead
    <2>2. Tail(call[t].head) \in Seq(Node)
      BY <1>2, <1>3, RestShape DEF OwnHead
    <2>3. c \in RollbackCall
      BY <1>2, <2>2, RollbackFields
    <2>4. call' = [call EXCEPT ![t] = c]
      BY <2>1 DEF ShapeInv
    <2>5. chain' \in [Key -> Seq(Node)]
      BY <2>1, <2>2 DEF ShapeInv
    <2>6. ShapeInv' /\ call'[t] = c /\ \A u \in Txn : u # t => call'[u] = call[u]
      BY <1>1, <2>3, <2>4, <2>5, RollbackGoesOn
    <2>7. c.next = call[t].next /\ c.pc = "undo" /\ c.head = Tail(call[t].head)
      BY <1>1, <1>2 DEF RollbackCall
    <2>8. QED
      BY <1>1, <1>2, <1>3, <2>1, <2>3, <2>6, <2>7
  <1>4. CASE ~ OwnHead(t)
    <2> DEFINE c == [call[t] EXCEPT !.next = call[t].next + 1, !.pc = "load", !.head = << >>]
    <2>1. /\ UNCHANGED chain
          /\ call' = [call EXCEPT ![t].next = call[t].next + 1, ![t].pc = "load", ![t].head = << >>]
      BY <1>4 DEF RollbackStep, OwnHead
    <2>2. c \in RollbackCall
      BY <1>2, RollbackFields
    <2>3. call' = [call EXCEPT ![t] = c]
      BY <2>1 DEF ShapeInv
    <2>4. chain' \in [Key -> Seq(Node)]
      BY <2>1 DEF ShapeInv
    <2>5. ShapeInv' /\ call'[t] = c /\ \A u \in Txn : u # t => call'[u] = call[u]
      BY <1>1, <2>2, <2>3, <2>4, RollbackGoesOn
    <2>6. c.next = call[t].next + 1 /\ c.pc = "load"
      BY <1>2 DEF RollbackCall
    <2>7. QED
      BY <1>1, <1>2, <1>4, <2>1, <2>2, <2>5, <2>6
  <1>5. QED
    BY <1>3, <1>4

\* The steps that change neither chains nor the manager.
Reading(t) ==
  \/ Reload(t) \/ Check(t) \/ ReadForUpdate(t) \/ Walk(t)
  \/ \E op \in {"get", "put", "update", "delete"}, k \in Key : Call(t, op, k)

\* The actions, grouped by what they do to the table.
LEMMA Steps ==
  ASSUME NEW t \in Txn, Continue(t) \/ Invoke(t)
  PROVE  \/ Reading(t) \/ Cas(t) \/ Stamp(t) \/ ManagerAction(t) \/ BeginAbortTxn(t)
         \/ FinishAbortTxn(t) \/ RollbackLoad(t) \/ RollbackStep(t)
  BY DEF Continue, Invoke, Reading, ManagerAction

\* Every step leaves the shape.
LEMMA ShapeNext ==
  ASSUME TMTypeOK, ShapeInv, RoomInv, [Next]_vars
  PROVE  ShapeInv'
  <1>1. CASE UNCHANGED vars
    BY <1>1 DEF vars, ShapeInv
  <1>2. ASSUME NEW t \in Txn, Continue(t) \/ Invoke(t) PROVE ShapeInv'
    <2>1. CASE Reading(t)
      BY <2>1, ReadingShape DEF Reading
    <2>2. CASE Cas(t) \/ Stamp(t) \/ ManagerAction(t) \/ BeginAbortTxn(t)
      BY <2>2, CasShape, StampShape, ManagerShape, BeginAbortShape
    <2>3. CASE FinishAbortTxn(t) \/ RollbackLoad(t) \/ RollbackStep(t)
      BY <2>3, FinishAbortShape, RollbackLoadShape, RollbackStepShape
    <2>4. QED
      BY <1>2, <2>1, <2>2, <2>3, Steps
  <1>3. QED
    BY <1>1, <1>2 DEF Next

\* The operations leave room for their node, and writers come to the end of it
\* one node at a time.
LEMMA RoomNext ==
  ASSUME TMTypeOK, ShapeInv, RoomInv, [Next]_vars
  PROVE  RoomInv'
  <1> DEFINE Room(c, t, r) == c[t] \in TableCall => /\ c[t].op = "get" => c[t].pc = "walk"
                                                    /\ c[t].op # "get" => Len(r[t]) < MaxWrites
  <1>1. CASE UNCHANGED vars
    BY <1>1 DEF vars, RoomInv
  <1>2. ASSUME NEW t \in Txn, Continue(t) \/ Invoke(t) PROVE RoomInv'
    <2>1. ASSUME \A u \in Txn : u # t => call'[u] = call[u] /\ redo'[u] = redo[u],
                 Room(call', t, redo')
          PROVE  RoomInv'
      BY <2>1 DEF RoomInv
    <2>2. CASE Reading(t)
      <3>1. /\ UNCHANGED redo /\ stage[t] = "active"
            /\ \A u \in Txn : u # t => call'[u] = call[u]
        BY <2>2, ReadingShape DEF Reading
      <3>2. ASSUME NEW op \in {"get", "put", "update", "delete"}, NEW k \in Key, Call(t, op, k)
            PROVE  Room(call', t, redo')
        <4>1. /\ op # "get" => Len(redo[t]) < MaxWrites
              /\ call'[t].op = op
              /\ op = "get" => call'[t].pc = "walk"
          BY <3>2 DEF Call, ShapeInv
        <4>2. QED
          BY <3>1, <4>1
      <3>3. CASE Reload(t) \/ Check(t) \/ ReadForUpdate(t) \/ Walk(t)
        <4>1. call[t] \in TableCall
          BY <3>1, <3>3, CallShape DEF Reload, Check, ReadForUpdate, Walk, At
        <4>2. CASE Reload(t) \/ Check(t) \/ ReadForUpdate(t)
          <5>1. call[t].op # "get"
            BY <4>1, <4>2 DEF RoomInv, Reload, Check, ReadForUpdate, At
          <5>2. Len(redo[t]) < MaxWrites
            BY <4>1, <5>1 DEF RoomInv
          <5>3. \/ call'[t] = NoCall \/ call'[t].op = call[t].op
            BY <4>1, <4>2 DEF Reload, Check, ReadForUpdate, Return, GoTo, ShapeInv, TableCall
          <5>4. NoCall \notin TableCall
            BY DEF NoCall, TableCall
          <5>5. call'[t] \in TableCall => call'[t].op # "get"
            BY <5>1, <5>3, <5>4
          <5>6. Len(redo'[t]) < MaxWrites
            BY <3>1, <5>2
          <5>7. QED
            BY <2>1, <3>1, <5>5, <5>6
        <4>3. CASE Walk(t)
          <5>1. \/ call'[t] = NoCall
                \/ call'[t].op = call[t].op /\ (call[t].op = "get" => call'[t].pc = call[t].pc)
            BY <4>1, <4>3 DEF Walk, Return, ShapeInv, TableCall
          <5>2. NoCall \notin TableCall
            BY DEF NoCall, TableCall
          <5>3. QED
            BY <3>1, <4>1, <5>1, <5>2 DEF RoomInv
        <4>4. QED
          BY <3>3, <4>2, <4>3
      <3>4. QED
        BY <2>1, <2>2, <3>1, <3>2, <3>3 DEF Reading
    <2>3. CASE Cas(t)
      <3>1. /\ \A u \in Txn : u # t => call'[u] = call[u]
            /\ call[t] \in TableCall /\ call[t].pc = "cas"
            /\ \/ Linked(t)
               \/ UNCHANGED redo /\ call'[t] = [call[t] EXCEPT !.pc = "load"]
        BY <2>3, CasShape
      <3>2. \A u \in Txn : u # t => redo'[u] = redo[u]
        BY <3>1 DEF Linked, ShapeInv
      <3>3. call[t].op # "get" /\ Len(redo[t]) < MaxWrites
        BY <3>1 DEF RoomInv
      <3>4. NoCall \notin TableCall
        BY DEF NoCall, TableCall
      <3>5. call'[t] = [call[t] EXCEPT !.pc = "load"] => call'[t].op # "get"
        BY <3>1, <3>3 DEF TableCall
      <3>6. QED
        BY <2>1, <3>1, <3>2, <3>3, <3>4, <3>5 DEF Linked
    <2>4. CASE Stamp(t) \/ ManagerAction(t)
      BY <2>4, StampShape, ManagerShape DEF hmtVars, RoomInv
    <2>5. RollbackCall \cap TableCall = {} /\ NoCall \notin TableCall
      BY DEF RollbackCall, TableCall, NoCall
    <2>6. CASE BeginAbortTxn(t) \/ FinishAbortTxn(t) \/ RollbackLoad(t) \/ RollbackStep(t)
      <3>1. /\ UNCHANGED redo /\ \A u \in Txn : u # t => call'[u] = call[u]
            /\ call'[t] \in RollbackCall \union {NoCall}
        BY <2>6, BeginAbortShape, FinishAbortShape, RollbackLoadShape, RollbackStepShape
      <3>2. QED
        BY <2>1, <2>5, <3>1
    <2>7. QED
      BY <1>2, <2>2, <2>3, <2>4, <2>6, Steps
  <1>3. QED
    BY <1>1, <1>2 DEF Next

-----------------------------------------------------------------------------
(* Steps of the chains.                                                    *)

\* Linked nodes have a redo node of the key, stamped ones belong to commits.
LinkedInv ==
  \A k \in Key : \A i \in DOMAIN chain[k] :
    /\ chain[k][i][2] \in DOMAIN redo[chain[k][i][1]]
    /\ redo[chain[k][i][1]][chain[k][i][2]].key = k
    /\ Started(chain[k][i][1])

StampedInv ==
  \A n \in stamped : n[2] \in DOMAIN redo[n[1]] /\ stage[n[1]] \in InCommit

NodesInv == LinkedInv /\ StampedInv

\* What a writer has checked: the head it loaded is no conflict.
CheckedInv ==
  \A t \in Txn :
    /\ call[t] \in TableCall /\ call[t].op # "get"
    /\ call[t].pc \in {"cas", "read", "walk"}
    /\ call[t].head # << >>
    => ~ WWConflict(t, call[t].head[1])

\* What a rollback has loaded: if it is a version of its own, it is still the
\* head when the plain store replaces it.
UndoInv ==
  \A t \in Txn : call[t] \in RollbackCall /\ call[t].pc = "undo" =>
    /\ call[t].next \in DOMAIN redo[t]
    /\ OwnHead(t) => chain[redo[t][call[t].next].key] = call[t].head

RivalInv == WritersDoNotOverlap /\ CheckedInv /\ UndoInv

\* A chain is numbered from its head.
LEMMA ChainShape ==
  ASSUME ShapeInv, NEW k \in Key
  PROVE  /\ chain[k] \in Seq(Node) /\ Len(chain[k]) \in Nat
         /\ DOMAIN chain[k] = 1 .. Len(chain[k])
         /\ \A i \in DOMAIN chain[k] :
              chain[k][i] \in Node /\ chain[k][i][1] \in Txn /\ Owner(chain[k][i]) \in Txn
  <1>1. chain[k] \in Seq(Node)
    BY DEF ShapeInv
  <1>2. DOMAIN chain[k] = 1 .. Len(chain[k]) /\ Len(chain[k]) \in Nat
    BY <1>1, LenProperties
  <1>3. \A i \in DOMAIN chain[k] : chain[k][i] \in Node
    BY <1>1, <1>2, ElementOfSeq
  <1>4. QED
    BY <1>1, <1>2, <1>3 DEF Node, Owner

\* Redo nodes are numbered from the first write.
LEMMA RedoShape ==
  ASSUME ShapeInv, NEW t \in Txn
  PROVE  /\ redo[t] \in Seq(Redo) /\ Len(redo[t]) \in Nat
         /\ DOMAIN redo[t] = 1 .. Len(redo[t])
         /\ \A i \in DOMAIN redo[t] : redo[t][i].key \in Key
  <1>1. redo[t] \in Seq(Redo)
    BY DEF ShapeInv
  <1>2. DOMAIN redo[t] = 1 .. Len(redo[t]) /\ Len(redo[t]) \in Nat
    BY <1>1, LenProperties
  <1>3. \A i \in DOMAIN redo[t] : redo[t][i] \in Redo
    BY <1>1, <1>2, ElementOfSeq
  <1>4. QED
    BY <1>1, <1>2, <1>3 DEF Redo

\* A write puts the next node of the transaction in front of the chain.
LEMMA LinkStep ==
  ASSUME ShapeInv, NEW t \in Txn, call[t] \in TableCall, Linked(t), Len(redo[t]) < MaxWrites
  PROVE  LET k == call[t].key
             m == Len(redo[t]) + 1
         IN  /\ k \in Key /\ m \in Nat
             /\ Len(chain'[k]) = Len(chain[k]) + 1 /\ DOMAIN chain'[k] = 1 .. Len(chain[k]) + 1
             /\ chain'[k][1] = <<t, m>>
             /\ \A i \in DOMAIN chain[k] : chain'[k][i + 1] = chain[k][i]
             /\ \A j \in Key : j # k => chain'[j] = chain[j]
             /\ DOMAIN redo'[t] = 1 .. m /\ redo'[t][m].key = k
             /\ \A i \in DOMAIN redo[t] : redo'[t][i] = redo[t][i]
             /\ \A u \in Txn : u # t => redo'[u] = redo[u]
  <1> DEFINE k == call[t].key
             m == Len(redo[t]) + 1
  <1>1. k \in Key /\ m \in Nat
    <2>1. k \in Key
      BY CallFields
    <2>2. Len(redo[t]) \in Nat
      BY RedoShape
    <2>3. QED
      BY <2>1, <2>2
  <1>2. /\ chain[k] \in Seq(Node) /\ Len(chain[k]) \in Nat /\ DOMAIN chain[k] = 1 .. Len(chain[k])
        /\ <<t, m>> \in Node
    BY <1>1, ChainShape, NextNode
  <1>3. /\ chain'[k] = <<<<t, m>>>> \o chain[k]
        /\ \A j \in Key : j # k => chain'[j] = chain[j]
    BY <1>1 DEF Linked, ShapeInv
  <1>4. /\ Len(chain'[k]) = Len(chain[k]) + 1 /\ chain'[k][1] = <<t, m>>
        /\ \A i \in 1 .. Len(chain[k]) : chain'[k][i + 1] = chain[k][i]
        /\ chain'[k] \in Seq(Node)
    <2> DEFINE s == chain[k]
               n == <<t, m>>
    <2>1. s \in Seq(Node) /\ n \in Node
      BY <1>2
    <2> HIDE DEF s, n
    <2>2. /\ Len(<<n>> \o s) = Len(s) + 1 /\ (<<n>> \o s)[1] = n
          /\ \A i \in 1 .. Len(s) : (<<n>> \o s)[i + 1] = s[i]
          /\ <<n>> \o s \in Seq(Node)
      BY <2>1, PushFacts
    <2>3. chain'[k] = <<n>> \o s
      BY <1>3 DEF s, n
    <2> HIDE DEF m, k
    <2>4. QED
      BY <2>2, <2>3 DEF s, n
  <1>5. DOMAIN chain'[k] = 1 .. Len(chain[k]) + 1
    BY <1>4, LenProperties
  <1>6. PICK r \in Redo : r.key = k /\ redo' = [redo EXCEPT ![t] = Append(redo[t], r)]
    BY DEF Linked
  <1>7. /\ redo'[t] = Append(redo[t], r) /\ redo[t] \in Seq(Redo)
        /\ \A u \in Txn : u # t => redo'[u] = redo[u]
    BY <1>6 DEF ShapeInv
  <1>8. /\ redo'[t] \in Seq(Redo) /\ Len(redo'[t]) = m
        /\ \A i \in 1 .. Len(redo[t]) : redo'[t][i] = redo[t][i]
        /\ redo'[t][m] = r
    BY <1>7, AppendFacts
  <1>9. DOMAIN redo'[t] = 1 .. m /\ DOMAIN redo[t] = 1 .. Len(redo[t])
    BY <1>7, <1>8, LenProperties
  <1>10. QED
    BY <1>1, <1>2, <1>3, <1>4, <1>5, <1>6, <1>7, <1>8, <1>9

\* A rollback takes the head off the chain, which is its own.
LEMMA UnlinkStep ==
  ASSUME TMTypeOK, ShapeInv, UndoInv, NEW t \in Txn, RollbackStep(t), OwnHead(t)
  PROVE  LET k == redo[t][call[t].next].key
         IN  /\ k \in Key /\ Len(chain[k]) \in Nat \ {0} /\ Owner(chain[k][1]) = t
             /\ chain[k] = call[t].head /\ chain[k] # << >>
             /\ call'[t].head = chain'[k] /\ chain'[k] = Tail(chain[k])
             /\ Len(chain'[k]) = Len(chain[k]) - 1 /\ DOMAIN chain'[k] = 1 .. Len(chain[k]) - 1
             /\ \A i \in DOMAIN chain'[k] : chain'[k][i] = chain[k][i + 1]
             /\ \A i \in DOMAIN chain'[k] : i + 1 \in DOMAIN chain[k] /\ i \in Nat
             /\ \A j \in Key : j # k => chain'[j] = chain[j]
  <1> DEFINE k == redo[t][call[t].next].key
  <1>1. /\ call[t] \in RollbackCall /\ call[t].pc = "undo"
        /\ chain' = [chain EXCEPT ![k] = Tail(call[t].head)] /\ call'[t].head = Tail(call[t].head)
    BY RollbackStepShape
  <1>2. call[t].next \in DOMAIN redo[t] /\ chain[k] = call[t].head
    BY <1>1 DEF UndoInv
  <1>3. k \in Key
    BY <1>2, RedoShape
  <1>4. chain[k] \in Seq(Node) /\ chain[k] # << >> /\ Owner(Head(chain[k])) = t
    BY <1>2, <1>3 DEF ShapeInv, OwnHead
  <1>5. /\ Tail(chain[k]) \in Seq(Node) /\ Len(chain[k]) \in Nat \ {0}
        /\ Len(Tail(chain[k])) = Len(chain[k]) - 1 /\ Head(chain[k]) = chain[k][1]
        /\ \A i \in 1 .. Len(chain[k]) - 1 : Tail(chain[k])[i] = chain[k][i + 1]
    BY <1>4, PopFacts
  <1>6. chain'[k] = Tail(chain[k]) /\ \A j \in Key : j # k => chain'[j] = chain[j]
    BY <1>1, <1>2, <1>3 DEF ShapeInv
  <1>7. DOMAIN chain'[k] = 1 .. Len(chain[k]) - 1
    BY <1>5, <1>6, LenProperties
  <1>8. \A i \in DOMAIN chain'[k] : i + 1 \in DOMAIN chain[k] /\ i \in Nat
    <2> DEFINE n == Len(chain[k])
    <2>1. DOMAIN chain[k] = 1 .. n /\ DOMAIN chain'[k] = 1 .. n - 1 /\ n \in Nat \ {0}
      BY <1>4, <1>5, <1>7, LenProperties
    <2> HIDE DEF n
    <2>2. QED
      BY <2>1
  <1>9. QED
    BY <1>1, <1>2, <1>3, <1>4, <1>5, <1>6, <1>7, <1>8

\* All other steps leave chains and redo nodes alone.
LEMMA ChainMoves ==
  ASSUME TMTypeOK, ShapeInv, RoomInv, [Next]_vars
  PROVE  \/ UNCHANGED <<chain, redo>>
         \/ \E t \in Txn : Cas(t) /\ Linked(t)
         \/ \E t \in Txn : RollbackStep(t) /\ OwnHead(t)
  <1>1. CASE UNCHANGED vars
    BY <1>1 DEF vars
  <1>2. ASSUME NEW t \in Txn, Continue(t) \/ Invoke(t)
        PROVE  UNCHANGED <<chain, redo>> \/ (Cas(t) /\ Linked(t)) \/ (RollbackStep(t) /\ OwnHead(t))
    <2>1. CASE Reading(t)
      BY <2>1, ReadingShape DEF Reading
    <2>2. CASE Cas(t)
      BY <2>2, CasShape
    <2>3. CASE Stamp(t) \/ ManagerAction(t)
      BY <2>3, StampShape, ManagerShape DEF hmtVars
    <2>4. CASE BeginAbortTxn(t) \/ FinishAbortTxn(t) \/ RollbackLoad(t) \/ RollbackStep(t)
      BY <2>4, BeginAbortShape, FinishAbortShape, RollbackLoadShape, RollbackStepShape
    <2>5. QED
      BY <1>2, <2>1, <2>2, <2>3, <2>4, Steps
  <1>3. QED
    BY <1>1, <1>2 DEF Next


-----------------------------------------------------------------------------
(* What is kept.                                                           *)

\* Timestamps of starts and commits differ, a commit follows its start.
TimesInv ==
  \A t \in Txn : commit[t] # InvalidTs =>
    /\ start[t] < commit[t]
    /\ \A u \in Txn : Started(u) => start[u] # commit[t]

\* No node is linked twice, and what is not rolled back is linked.
KeptInv ==
  /\ \A k \in Key : \A i, j \in DOMAIN chain[k] : chain[k][i] = chain[k][j] => i = j
  /\ \A t \in Txn : stage[t] \notin {"undoing", "aborted"} =>
       \A i \in DOMAIN redo[t] :
         \E p \in DOMAIN chain[redo[t][i].key] : chain[redo[t][i].key][p] = <<t, i>>

\* No version of the transaction is in the chain.
Clean(t, k) == \A i \in DOMAIN chain[k] : Owner(chain[k][i]) # t

\* The keys a rollback has dealt with stay clean, and so does the one whose
\* head it has found not to be its own.
CleanInv ==
  /\ RollbackIsComplete
  /\ \A t \in Txn : call[t] \in RollbackCall =>
       /\ \A i \in DOMAIN redo[t] : i < call[t].next => Clean(t, redo[t][i].key)
       /\ call[t].pc = "undo" /\ ~ OwnHead(t) => Clean(t, redo[t][call[t].next].key)

HMTIndInv ==
  /\ TMIndInv
  /\ ShapeInv
  /\ RoomInv
  /\ TimesInv
  /\ NodesInv
  /\ RivalInv
  /\ KeptInv
  /\ CleanInv


-----------------------------------------------------------------------------
(* The layers, one after the other.                                        *)

\* The node at a position that is not the first was one position above.
LEMMA DownOne ==
  ASSUME NEW n \in Nat, NEW i \in 1 .. n + 1, i # 1
  PROVE  i - 1 \in 1 .. n /\ (i - 1) + 1 = i
  OBVIOUS

\* Every timestamp is drawn from the counter.
LEMMA TimesNext ==
  ASSUME TMIndInv, TimesInv, [TMNext]_tmVars
  PROVE  TimesInv'
  <1> USE DEF TMIndInv, TimesInv, TMTypeOK, Timestamp, InvalidTs
  <1>1. CASE UNCHANGED tmVars
    BY <1>1 DEF tmVars, Started
  <1>2. CASE MinXip
    BY <1>2 DEF MinXip, Started
  <1>3. ASSUME NEW t \in Txn, TMTxnStep(t) PROVE TimesInv'
    <2>1. CASE Start(t)
      <3>1. commit[t] = 0 /\ start'[t] = counter /\ UNCHANGED commit
        BY <2>1 DEF Start, CommitDrawnInCommit, Committed
      <3>2. \A u \in Txn : u # t => start'[u] = start[u] /\ (Started(u)' => Started(u))
        BY <2>1 DEF Start, Started
      <3>3. QED
        BY <3>1, <3>2 DEF DrawnFromCounter
    <2>2. CASE BeginCommit(t)
      BY <2>2 DEF BeginCommit, Started, DrawnFromCounter
    <2>3. ASSUME UNCHANGED <<start, commit>>, \A u \in Txn : Started(u)' => Started(u)
          PROVE  TimesInv'
      BY <2>3
    <2>4. CASE LogCommit(t) \/ BeginAbort(t) \/ FinishAbort(t)
      BY <2>3, <2>4 DEF LogCommit, BeginAbort, FinishAbort, Started
    <2>5. ASSUME NEW r \in BOOLEAN, FinishCommit(t, r) PROVE TimesInv'
      BY <2>3, <2>5 DEF FinishCommit, Started
    <2>6. QED
      BY <1>3, <2>1, <2>2, <2>4, <2>5 DEF TMTxnStep
  <1>4. QED
    BY <1>1, <1>2, <1>3 DEF TMNext

\* Nodes are stamped by the transaction that wrote them, in its commit, and
\* their redo nodes stay.
LEMMA StampedMoves ==
  ASSUME TMTypeOK, ShapeInv, RoomInv, [Next]_vars
  PROVE  /\ stamped \subseteq stamped'
         /\ \A n \in stamped' \ stamped : n[2] \in DOMAIN redo[n[1]] /\ stage[n[1]] = "stamping"
         /\ \A u \in Txn : /\ stage[u] # "active" => redo'[u] = redo[u]
                           /\ \A i \in DOMAIN redo[u] : /\ i \in DOMAIN redo'[u]
                                                        /\ redo'[u][i] = redo[u][i]
  <1>1. CASE UNCHANGED vars
    BY <1>1 DEF vars
  <1>2. ASSUME NEW t \in Txn, Continue(t) \/ Invoke(t)
        PROVE  \/ UNCHANGED <<stamped, redo>>
               \/ Stamp(t)
               \/ Cas(t) /\ Linked(t) /\ UNCHANGED stamped
    <2>1. CASE Reading(t)
      BY <2>1, ReadingShape DEF Reading
    <2>2. CASE Cas(t)
      BY <2>2, CasShape
    <2>3. CASE ManagerAction(t)
      BY <2>3, ManagerShape DEF hmtVars
    <2>4. CASE BeginAbortTxn(t) \/ FinishAbortTxn(t) \/ RollbackLoad(t) \/ RollbackStep(t)
      BY <2>4, BeginAbortShape, FinishAbortShape, RollbackLoadShape, RollbackStepShape
    <2>5. QED
      BY <1>2, <2>1, <2>2, <2>3, <2>4, Steps
  <1>3. ASSUME NEW t \in Txn, Stamp(t)
        PROVE  /\ UNCHANGED redo /\ stamped \subseteq stamped'
               /\ \A n \in stamped' \ stamped :
                    n[2] \in DOMAIN redo[n[1]] /\ stage[n[1]] = "stamping"
    BY <1>3, StampShape
  <1>4. ASSUME NEW t \in Txn, Cas(t), Linked(t)
        PROVE  \A u \in Txn : /\ stage[u] # "active" => redo'[u] = redo[u]
                              /\ \A i \in DOMAIN redo[u] : /\ i \in DOMAIN redo'[u]
                                                           /\ redo'[u][i] = redo[u][i]
    <2>1. stage[t] = "active" /\ call[t] \in TableCall /\ Len(redo[t]) < MaxWrites
      BY <1>4, CasShape DEF RoomInv
    <2>2. /\ DOMAIN redo'[t] = 1 .. Len(redo[t]) + 1
          /\ \A i \in DOMAIN redo[t] : redo'[t][i] = redo[t][i]
          /\ \A u \in Txn : u # t => redo'[u] = redo[u]
      BY <1>4, <2>1, LinkStep
    <2>3. DOMAIN redo[t] = 1 .. Len(redo[t]) /\ Len(redo[t]) \in Nat
      BY RedoShape
    <2>4. \A i \in DOMAIN redo[t] : i \in DOMAIN redo'[t]
      BY <2>2, <2>3
    <2>5. QED
      BY <2>1, <2>2, <2>4
  <1>5. QED
    BY <1>1, <1>2, <1>3, <1>4 DEF Next

\* Linked nodes have redo nodes.
LEMMA LinkedNext ==
  ASSUME TMTypeOK, ShapeInv, RoomInv, UndoInv, LinkedInv, [Next]_vars
  PROVE  LinkedInv'
  <1> DEFINE Good(n, k) == /\ n[2] \in DOMAIN redo[n[1]] /\ redo[n[1]][n[2]].key = k
                           /\ stage[n[1]] # "idle"
             Still(n, k) == /\ n[2] \in DOMAIN redo'[n[1]] /\ redo'[n[1]][n[2]].key = k
                            /\ stage'[n[1]] # "idle"
  <1>1. ASSUME NEW n \in Node, NEW k, Good(n, k)
        PROVE  Still(n, k)
    <2>1. n[1] \in Txn
      BY DEF Node
    <2>2. stage'[n[1]] # "idle"
      BY <1>1, <2>1, ManagerStep, StageMoves DEF Started
    <2>3. n[2] \in DOMAIN redo'[n[1]] /\ redo'[n[1]][n[2]] = redo[n[1]][n[2]]
      BY <1>1, <2>1, StampedMoves
    <2>4. QED
      BY <1>1, <2>2, <2>3
  <1>2. \A k \in Key : \A i \in DOMAIN chain[k] : chain[k][i] \in Node /\ Good(chain[k][i], k)
    BY ChainShape DEF LinkedInv, Started
  <1> HIDE DEF Good
  <1>3. \A k \in Key : \A i \in DOMAIN chain[k] : Still(chain[k][i], k)
    BY <1>1, <1>2
  <1> HIDE DEF Still
  <1>4. SUFFICES \A k \in Key : \A i \in DOMAIN chain'[k] : Still(chain'[k][i], k)
    BY DEF Still, LinkedInv, Started
  <1>5. CASE UNCHANGED <<chain, redo>>
    BY <1>3, <1>5
  <1>6. ASSUME NEW t \in Txn, Cas(t), Linked(t)
        PROVE  \A k \in Key : \A i \in DOMAIN chain'[k] : Still(chain'[k][i], k)
    <2> DEFINE c == call[t].key
               m == Len(redo[t]) + 1
    <2>1. /\ stage[t] = "active" /\ stage' = stage
          /\ call[t] \in TableCall /\ Len(redo[t]) < MaxWrites
      BY <1>6, CasShape DEF RoomInv, tmVars
    <2>2. /\ c \in Key /\ m \in Nat /\ DOMAIN chain'[c] = 1 .. Len(chain[c]) + 1
          /\ chain'[c][1] = <<t, m>>
          /\ \A i \in DOMAIN chain[c] : chain'[c][i + 1] = chain[c][i]
          /\ \A j \in Key : j # c => chain'[j] = chain[j]
          /\ DOMAIN redo'[t] = 1 .. m /\ redo'[t][m].key = c
      BY <1>6, <2>1, LinkStep
    <2>3. DOMAIN chain[c] = 1 .. Len(chain[c]) /\ Len(chain[c]) \in Nat /\ Len(redo[t]) \in Nat
      BY <2>2, ChainShape, RedoShape
    <2>4. Still(<<t, m>>, c)
      BY <2>1, <2>2, <2>3 DEF Still
    <2>5. ASSUME NEW i \in DOMAIN chain'[c] PROVE Still(chain'[c][i], c)
      <3>1. CASE i = 1
        BY <2>2, <2>4, <3>1
      <3>2. CASE i # 1
        <4>1. i - 1 \in DOMAIN chain[c] /\ (i - 1) + 1 = i
          <5>1. i \in 1 .. Len(chain[c]) + 1 /\ Len(chain[c]) \in Nat
            BY <2>2, <2>3, <2>5
          <5>2. i - 1 \in 1 .. Len(chain[c]) /\ (i - 1) + 1 = i
            BY <3>2, <5>1, DownOne
          <5>3. QED
            BY <2>3, <5>2
        <4>2. chain'[c][i] = chain[c][i - 1]
          BY <2>2, <4>1
        <4>3. QED
          BY <1>3, <2>2, <4>1, <4>2
      <3>3. QED
        BY <3>1, <3>2
    <2>6. QED
      BY <1>3, <2>2, <2>5
  <1>7. ASSUME NEW t \in Txn, RollbackStep(t), OwnHead(t)
        PROVE  \A k \in Key : \A i \in DOMAIN chain'[k] : Still(chain'[k][i], k)
    <2> DEFINE c == redo[t][call[t].next].key
    <2>1. /\ c \in Key /\ Len(chain[c]) \in Nat \ {0}
          /\ DOMAIN chain'[c] = 1 .. Len(chain[c]) - 1
          /\ \A i \in DOMAIN chain'[c] : chain'[c][i] = chain[c][i + 1]
          /\ \A j \in Key : j # c => chain'[j] = chain[j]
      BY <1>7, UnlinkStep
    <2>2. DOMAIN chain[c] = 1 .. Len(chain[c])
      BY <2>1, ChainShape
    <2>3. \A i \in DOMAIN chain'[c] : i + 1 \in DOMAIN chain[c]
      BY <1>7, UnlinkStep
    <2>4. \A i \in DOMAIN chain'[c] : Still(chain'[c][i], c)
      BY <1>3, <2>1, <2>3
    <2>5. QED
      BY <1>3, <2>1, <2>4
  <1>8. QED
    BY <1>5, <1>6, <1>7, ChainMoves

\* Stamped nodes have redo nodes of a transaction in commit.
LEMMA StampedNext ==
  ASSUME TMTypeOK, ShapeInv, RoomInv, StampedInv, [Next]_vars
  PROVE  StampedInv'
  <1>1. [TMNext]_tmVars
    BY ManagerStep
  <1>2. ASSUME NEW n \in stamped'
        PROVE  /\ n[1] \in Txn /\ n[2] \in DOMAIN redo[n[1]] /\ stage[n[1]] \in InCommit
    <2>1. n \in Node
      BY <1>2, ShapeNext DEF ShapeInv
    <2>2. n[1] \in Txn
      BY <2>1 DEF Node
    <2>3. CASE n \in stamped
      BY <2>2, <2>3 DEF StampedInv
    <2>4. CASE n \notin stamped
      BY <1>2, <2>2, <2>4, StampedMoves DEF InCommit
    <2>5. QED
      BY <2>3, <2>4
  <1>3. \A n \in stamped' : n[2] \in DOMAIN redo'[n[1]] /\ stage'[n[1]] \in InCommit
    BY <1>1, <1>2, StampedMoves, StageMoves
  <1>4. QED
    BY <1>3 DEF StampedInv


\* What a writer has found to be no conflict does not become one: only the
\* writer itself could stamp its versions, and what is stamped stays so.
LEMMA ConflictStays ==
  ASSUME TMTypeOK, ShapeInv, RoomInv, StampedInv, [Next]_vars,
         NEW u \in Txn, stage[u] = "active", NEW n \in Node, ~ WWConflict(u, n)
  PROVE  ~ (IF n \in stamped' THEN commit'[Owner(n)] > start'[u] ELSE Owner(n) # u)
  <1>1. Owner(n) \in Txn /\ Owner(n) = n[1]
    BY DEF Owner, Node
  <1>2. [TMNext]_tmVars
    BY ManagerStep
  <1>3. start'[u] = start[u]
    BY <1>2, StageMoves DEF Started
  <1>4. CASE n \in stamped
    <2>1. commit'[Owner(n)] = commit[Owner(n)]
      BY <1>1, <1>2, <1>4, StageMoves DEF StampedInv
    <2>2. n \in stamped' /\ ~ (commit[Owner(n)] > start[u])
      BY <1>4, StampedMoves DEF WWConflict
    <2>3. QED
      BY <1>3, <2>1, <2>2
  <1>5. CASE n \notin stamped
    <2>1. Owner(n) = u
      BY <1>5 DEF WWConflict
    <2>2. n \notin stamped'
      BY <1>1, <1>5, <2>1, StampedMoves
    <2>3. QED
      BY <2>1, <2>2
  <1>6. QED
    BY <1>4, <1>5

\* The head a writer holds.
HoldsChecked(c) ==
  c \in TableCall /\ c.op # "get" /\ c.pc \in {"cas", "read", "walk"} /\ c.head # << >>

\* It was checked when it was loaded, and Check is the only way past it.
LEMMA CheckedNext ==
  ASSUME TMTypeOK, ShapeInv, RoomInv, StampedInv, CheckedInv, [Next]_vars
  PROVE  CheckedInv'
  <1> DEFINE Agreed(t, n) == ~ (IF n \in stamped' THEN commit'[Owner(n)] > start'[t] ELSE Owner(n) # t)
  <1>1. ASSUME NEW t \in Txn, HoldsChecked(call[t])
        PROVE  Agreed(t, call[t].head[1])
    <2>1. stage[t] = "active"
      BY <1>1 DEF ShapeInv, HoldsChecked
    <2>2. call[t].head \in Seq(Node) /\ call[t].head # << >>
      BY <1>1, CallFields DEF HoldsChecked
    <2>3. call[t].head[1] \in Node
      BY <2>2, PopFacts
    <2>4. ~ WWConflict(t, call[t].head[1])
      BY <1>1 DEF CheckedInv, HoldsChecked
    <2>5. QED
      BY <2>1, <2>3, <2>4, ConflictStays
  <1>2. ASSUME NEW t \in Txn, Check(t), HoldsChecked(call'[t])
        PROVE  Agreed(t, call'[t].head[1])
    <2>1. stage[t] = "active" /\ call[t] \in TableCall
      BY <1>2, CallShape DEF Check, At
    <2>2. NoCall \notin TableCall
      BY DEF NoCall, TableCall
    <2>3. ~ (call[t].head # << >> /\ WWConflict(t, Head(call[t].head)))
      <3>1. call'[t] # NoCall
        BY <1>2, <2>2 DEF HoldsChecked
      <3>2. \A r : ~ Return(t, r)
        BY <3>1 DEF Return, ShapeInv
      <3>3. QED
        BY <1>2, <3>2 DEF Check
    <2>4. call'[t].head = call[t].head
      <3>1. \/ \E r : Return(t, r)
            \/ \E p : GoTo(t, p)
        BY <1>2 DEF Check
      <3>2. \A r : ~ Return(t, r)
        BY <1>2, <2>2 DEF Return, ShapeInv, HoldsChecked
      <3>3. PICK p : call' = [call EXCEPT ![t].pc = p]
        BY <3>1, <3>2 DEF GoTo
      <3>4. QED
        BY <2>1, <3>3 DEF ShapeInv, TableCall
    <2>5. call[t].head \in Seq(Node) /\ call[t].head # << >>
      BY <1>2, <2>1, <2>4, CallFields DEF HoldsChecked
    <2>6. Head(call[t].head) = call[t].head[1] /\ call[t].head[1] \in Node
      BY <2>5, PopFacts
    <2>7. QED
      BY <2>1, <2>3, <2>4, <2>5, <2>6, ConflictStays
  <1>3. ASSUME NEW t \in Txn, ReadForUpdate(t) \/ Walk(t), HoldsChecked(call'[t])
        PROVE  HoldsChecked(call[t]) /\ call'[t].head = call[t].head
    <2>1. call[t] \in TableCall /\ call[t].pc \in {"read", "walk"}
      BY <1>3, CallShape DEF ReadForUpdate, Walk, At
    <2>2. NoCall \notin TableCall
      BY DEF NoCall, TableCall
    <2>3. call'[t] # NoCall
      BY <1>3, <2>2 DEF HoldsChecked
    <2>4. \A r : ~ Return(t, r)
      BY <2>3 DEF Return, ShapeInv
    <2>5. call'[t].head = call[t].head /\ call'[t].op = call[t].op
      BY <1>3, <2>1, <2>4 DEF ReadForUpdate, Walk, ShapeInv, TableCall
    <2>6. QED
      BY <1>3, <2>1, <2>5 DEF HoldsChecked
  <1>4. ASSUME NEW t \in Txn, Reload(t) \/ Cas(t) \/ \E op \in {"get", "put", "update", "delete"}, k \in Key : Call(t, op, k)
        PROVE  ~ HoldsChecked(call'[t])
    <2>1. NoCall \notin TableCall
      BY DEF NoCall, TableCall
    <2>2. CASE Reload(t)
      <3>1. call[t] \in TableCall
        BY <2>2, CallShape DEF Reload, At
      <3>2. call'[t].pc = "check"
        BY <2>2, <3>1 DEF Reload, ShapeInv, TableCall
      <3>3. QED
        BY <3>2 DEF HoldsChecked
    <2>3. CASE Cas(t)
      <3>1. \/ call'[t] = NoCall
            \/ call'[t] = [call[t] EXCEPT !.pc = "load"] /\ call[t] \in TableCall
        BY <2>3, CasShape DEF Linked
      <3>2. call'[t] = NoCall \/ call'[t].pc = "load"
        BY <3>1 DEF TableCall
      <3>3. QED
        BY <2>1, <3>2 DEF HoldsChecked
    <2>4. ASSUME NEW op \in {"get", "put", "update", "delete"}, NEW k \in Key, Call(t, op, k)
          PROVE  ~ HoldsChecked(call'[t])
      <3>1. call'[t].op = op /\ call'[t].pc = IF op = "get" THEN "walk" ELSE "check"
        BY <2>4 DEF Call, ShapeInv
      <3>2. QED
        BY <3>1 DEF HoldsChecked
    <2>5. QED
      BY <1>4, <2>2, <2>3, <2>4
  <1>5. ASSUME NEW t \in Txn, HoldsChecked(call'[t])
        PROVE  Agreed(t, call'[t].head[1])
    <2>1. CASE call'[t] = call[t]
      BY <1>1, <1>5, <2>1
    <2>2. CASE call'[t] # call[t]
      <3>1. PICK u \in Txn : Continue(u) \/ Invoke(u)
        BY <2>2 DEF Next, vars
      <3>2. CASE Reading(u)
        <4>1. u = t
          BY <2>2, <3>2, ReadingShape DEF Reading
        <4>2. CASE Check(t)
          BY <1>2, <1>5, <4>2
        <4>3. CASE ReadForUpdate(t) \/ Walk(t)
          BY <1>1, <1>3, <1>5, <4>3
        <4>4. QED
          BY <1>4, <1>5, <3>2, <4>1, <4>2, <4>3 DEF Reading
      <3>3. CASE Cas(u)
        <4>1. u = t
          BY <2>2, <3>3, CasShape
        <4>2. QED
          BY <1>4, <1>5, <3>3, <4>1
      <3>4. CASE Stamp(u) \/ ManagerAction(u)
        BY <2>2, <3>4, StampShape, ManagerShape DEF hmtVars
      <3>5. CASE BeginAbortTxn(u) \/ FinishAbortTxn(u) \/ RollbackLoad(u) \/ RollbackStep(u)
        <4>1. /\ \A v \in Txn : v # u => call'[v] = call[v]
              /\ call'[u] \in RollbackCall \union {NoCall}
          BY <3>5, BeginAbortShape, FinishAbortShape, RollbackLoadShape, RollbackStepShape
        <4>2. call'[t] \in RollbackCall \union {NoCall}
          BY <2>2, <4>1
        <4>3. QED
          BY <1>5, <4>2 DEF HoldsChecked, RollbackCall, TableCall, NoCall
      <3>6. QED
        BY <3>1, <3>2, <3>3, <3>4, <3>5, Steps
    <2>3. QED
      BY <2>1, <2>2
  <1>6. QED
    BY <1>5 DEF CheckedInv, HoldsChecked, WWConflict


\* A successful compare_exchange puts its node above versions that were all
\* committed before its transaction started, or are its own.
LEMMA CasAgrees ==
  ASSUME TMIndInv, ShapeInv, RoomInv, TimesInv, NodesInv, RivalInv,
         NEW t \in Txn, Cas(t), Linked(t),
         NEW j \in DOMAIN chain[call[t].key],
         Owner(chain[call[t].key][j]) # t
  PROVE  LET u == Owner(chain[call[t].key][j]) IN Committed(u) /\ commit[u] < start[t]
  <1> DEFINE k == call[t].key
             s == chain[k]
             top == s[1]
             o == Owner(top)
             u == Owner(s[j])
  <1>1. /\ stage[t] = "active" /\ call[t] \in TableCall /\ call[t].pc = "cas" /\ call[t].op # "get"
        /\ s = call[t].head
    BY CasShape DEF RoomInv, Linked, TMIndInv
  <1>2. k \in Key
    BY <1>1, CallFields
  <1>3. /\ s \in Seq(Node) /\ Len(s) \in Nat /\ DOMAIN s = 1 .. Len(s)
        /\ \A i \in DOMAIN s : s[i] \in Node /\ Owner(s[i]) \in Txn /\ Owner(s[i]) = s[i][1]
    BY <1>2, ChainShape DEF Owner
  <1>4. 1 \in DOMAIN s /\ j \in 1 .. Len(s) /\ s # << >>
    BY <1>3
  <1>5. o \in Txn /\ u \in Txn /\ top \in Node
    BY <1>3, <1>4
  <1>6. ~ WWConflict(t, top)
    BY <1>1, <1>4 DEF RivalInv, CheckedInv
  <1>7. o # u => Committed(u) /\ commit[u] < start[o]
    <2>1. j # 1 => 1 < j
      BY <1>4
    <2>2. QED
      BY <1>2, <1>4, <2>1 DEF RivalInv, WritersDoNotOverlap
  <1>8. start[t] \in Nat /\ start[o] \in Nat /\ commit[o] \in Nat /\ commit[u] \in Nat
    BY <1>5 DEF TMIndInv, TMTypeOK, Timestamp
  <1>9. CASE top \in stamped
    <2>1. stage[o] \in InCommit /\ commit[o] <= start[t]
      <3>1. stage[o] \in InCommit
        BY <1>3, <1>4, <1>9 DEF NodesInv, StampedInv
      <3>2. ~ (commit[o] > start[t])
        BY <1>6, <1>9 DEF WWConflict
      <3>3. QED
        BY <1>8, <3>1, <3>2
    <2>2. Committed(o)
      <3>1. Started(t)
        BY <1>1 DEF Started
      <3>2. stage[o] = "stamping" => start[t] < commit[o]
        BY <1>5, <3>1 DEF TMIndInv, NoLowerCommitInFlight
      <3>3. stage[o] # "stamping"
        BY <1>8, <2>1, <3>2
      <3>4. QED
        BY <2>1, <3>3 DEF InCommit, Committed
    <2>3. commit[o] # InvalidTs
      BY <1>5, <2>2 DEF TMIndInv, CommitDrawnInCommit
    <2>4. start[o] < commit[o] /\ commit[o] < start[t]
      <3>1. start[o] < commit[o] /\ start[t] # commit[o]
        BY <1>1, <1>5, <2>3 DEF TimesInv, Started
      <3>2. QED
        BY <1>8, <2>1, <3>1
    <2>5. CASE o = u
      BY <2>2, <2>4, <2>5
    <2>6. CASE o # u
      <3>1. Committed(u) /\ commit[u] < start[o]
        BY <1>7, <2>6
      <3>2. commit[u] < start[t]
        BY <1>8, <2>4, <3>1
      <3>3. QED
        BY <3>1, <3>2
    <2>7. QED
      BY <2>5, <2>6
  <1>10. CASE top \notin stamped
    BY <1>6, <1>7, <1>10 DEF WWConflict
  <1>11. QED
    BY <1>9, <1>10

\* Transactions that wrote a key do not overlap.
LEMMA OverlapNext ==
  ASSUME TMIndInv, ShapeInv, RoomInv, TimesInv, NodesInv, RivalInv, [Next]_vars
  PROVE  WritersDoNotOverlap'
  <1> DEFINE Below(u, o) == Committed(o) /\ commit[o] < start[u]
             StillBelow(u, o) == stage'[o] \in {"logging", "committed"} /\ commit'[o] < start'[u]
  <1>1. ASSUME NEW u \in Txn, NEW o \in Txn, Started(u), Below(u, o)
        PROVE  StillBelow(u, o)
    <2>1. TMTypeOK /\ [TMNext]_tmVars
      BY ManagerStep DEF TMIndInv
    <2>2. start'[u] = start[u]
      BY <1>1, <2>1, StageMoves
    <2>3. stage'[o] \in {"logging", "committed"}
      BY <1>1, <2>1, StageMoves DEF Committed
    <2>4. commit'[o] = commit[o]
      BY <1>1, <2>1, StageMoves DEF Committed, InCommit
    <2>5. QED
      BY <1>1, <2>2, <2>3, <2>4
  <1>2. ASSUME NEW k \in Key, NEW i \in DOMAIN chain[k], NEW j \in DOMAIN chain[k],
               i < j, Owner(chain[k][i]) # Owner(chain[k][j])
        PROVE  StillBelow(Owner(chain[k][i]), Owner(chain[k][j]))
    <2>1. /\ Owner(chain[k][i]) \in Txn /\ Owner(chain[k][j]) \in Txn
          /\ Owner(chain[k][i]) = chain[k][i][1]
      BY ChainShape DEF Owner
    <2>2. Started(Owner(chain[k][i]))
      BY <2>1 DEF NodesInv, LinkedInv
    <2>3. Below(Owner(chain[k][i]), Owner(chain[k][j]))
      BY <1>2 DEF RivalInv, WritersDoNotOverlap
    <2>4. QED
      BY <1>1, <2>1, <2>2, <2>3
  <1> HIDE DEF Below
  <1> DEFINE Apart(s) == \A i, j \in DOMAIN s :
                           i < j /\ Owner(s[i]) # Owner(s[j]) => StillBelow(Owner(s[i]), Owner(s[j]))
  <1>3. \A k \in Key : Apart(chain[k])
    BY <1>2
  <1>4. SUFFICES \A k \in Key : Apart(chain'[k])
    BY DEF WritersDoNotOverlap, Committed, Owner
  <1> HIDE DEF StillBelow
  <1>5. CASE UNCHANGED <<chain, redo>>
    BY <1>3, <1>5
  <1>6. ASSUME NEW t \in Txn, Cas(t), Linked(t)
        PROVE  \A k \in Key : Apart(chain'[k])
    <2> DEFINE c == call[t].key
               m == Len(redo[t]) + 1
    <2>1. /\ stage[t] = "active" /\ UNCHANGED tmVars
          /\ call[t] \in TableCall /\ Len(redo[t]) < MaxWrites
      BY <1>6, CasShape DEF RoomInv, TMIndInv
    <2>2. /\ c \in Key /\ m \in Nat /\ DOMAIN chain'[c] = 1 .. Len(chain[c]) + 1
          /\ chain'[c][1] = <<t, m>>
          /\ \A i \in DOMAIN chain[c] : chain'[c][i + 1] = chain[c][i]
          /\ \A j \in Key : j # c => chain'[j] = chain[j]
      BY <1>6, <2>1, LinkStep
    <2>3. DOMAIN chain[c] = 1 .. Len(chain[c]) /\ Len(chain[c]) \in Nat
      BY <2>2, ChainShape
    <2>4. ASSUME NEW j \in DOMAIN chain[c], Owner(chain[c][j]) # t
          PROVE  StillBelow(t, Owner(chain[c][j]))
      <3>1. Committed(Owner(chain[c][j])) /\ commit[Owner(chain[c][j])] < start[t]
        BY <1>6, <2>4, CasAgrees
      <3>2. QED
        BY <2>1, <3>1 DEF Committed, tmVars, StillBelow
    <2>5. \A i \in DOMAIN chain'[c] : i # 1 =>
            /\ i - 1 \in DOMAIN chain[c]
            /\ chain'[c][i] = chain[c][i - 1]
      <3>1. ASSUME NEW i \in DOMAIN chain'[c], i # 1
            PROVE  i - 1 \in DOMAIN chain[c] /\ chain'[c][i] = chain[c][i - 1]
        <4>1. i \in 1 .. Len(chain[c]) + 1
          BY <2>2, <3>1
        <4>2. i - 1 \in 1 .. Len(chain[c]) /\ (i - 1) + 1 = i
          BY <2>3, <3>1, <4>1, DownOne
        <4>3. QED
          BY <2>2, <2>3, <4>2
      <3>2. QED
        BY <3>1
    <2>6. ASSUME NEW i \in DOMAIN chain'[c], NEW j \in DOMAIN chain'[c], i < j,
                 Owner(chain'[c][i]) # Owner(chain'[c][j])
          PROVE  StillBelow(Owner(chain'[c][i]), Owner(chain'[c][j]))
      <3>1. i \in Nat /\ j \in Nat /\ i >= 1 /\ j # 1
        <4>1. i \in 1 .. Len(chain[c]) + 1 /\ j \in 1 .. Len(chain[c]) + 1
          BY <2>2, <2>6
        <4>2. QED
          BY <2>3, <2>6, <4>1
      <3>2. j - 1 \in DOMAIN chain[c] /\ chain'[c][j] = chain[c][j - 1]
        BY <2>5, <2>6, <3>1
      <3>3. CASE i = 1
        <4>1. Owner(chain'[c][i]) = t
          BY <2>2, <3>3 DEF Owner
        <4>2. QED
          BY <2>4, <2>6, <3>2, <4>1
      <3>4. CASE i # 1
        <4>1. i - 1 \in DOMAIN chain[c] /\ chain'[c][i] = chain[c][i - 1]
          BY <2>5, <2>6, <3>4
        <4>2. i - 1 < j - 1
          BY <2>6, <3>1
        <4>3. Owner(chain[c][i - 1]) # Owner(chain[c][j - 1])
          BY <2>6, <3>2, <4>1
        <4>4. StillBelow(Owner(chain[c][i - 1]), Owner(chain[c][j - 1]))
          BY <1>2, <2>2, <3>2, <4>1, <4>2, <4>3
        <4>5. QED
          BY <3>2, <4>1, <4>4
      <3>5. QED
        BY <3>3, <3>4
    <2>7. QED
      BY <1>3, <2>2, <2>6
  <1>7. ASSUME NEW t \in Txn, RollbackStep(t), OwnHead(t)
        PROVE  \A k \in Key : Apart(chain'[k])
    <2> DEFINE c == redo[t][call[t].next].key
    <2>1. /\ c \in Key /\ Len(chain[c]) \in Nat \ {0}
          /\ DOMAIN chain'[c] = 1 .. Len(chain[c]) - 1
          /\ \A i \in DOMAIN chain'[c] : chain'[c][i] = chain[c][i + 1]
          /\ \A j \in Key : j # c => chain'[j] = chain[j]
      BY <1>7, UnlinkStep DEF TMIndInv, RivalInv
    <2>2. DOMAIN chain[c] = 1 .. Len(chain[c])
      BY <2>1, ChainShape
    <2>3. \A i \in DOMAIN chain'[c] : i + 1 \in DOMAIN chain[c] /\ i \in Nat
      BY <1>7, UnlinkStep DEF TMIndInv, RivalInv
    <2>4. ASSUME NEW i \in DOMAIN chain'[c], NEW j \in DOMAIN chain'[c], i < j,
                 Owner(chain'[c][i]) # Owner(chain'[c][j])
          PROVE  StillBelow(Owner(chain'[c][i]), Owner(chain'[c][j]))
      <3>1. i + 1 < j + 1
        BY <2>3, <2>4
      <3>2. /\ i + 1 \in DOMAIN chain[c] /\ chain'[c][i] = chain[c][i + 1]
            /\ j + 1 \in DOMAIN chain[c] /\ chain'[c][j] = chain[c][j + 1]
        BY <2>1, <2>3, <2>4
      <3>3. Owner(chain[c][i + 1]) # Owner(chain[c][j + 1])
        BY <2>4, <3>2
      <3>4. StillBelow(Owner(chain[c][i + 1]), Owner(chain[c][j + 1]))
        BY <1>2, <2>1, <3>1, <3>2, <3>3
      <3>5. QED
        BY <3>2, <3>4
    <2>5. QED
      BY <1>3, <2>1, <2>4
  <1>8. QED
    BY <1>5, <1>6, <1>7, ChainMoves DEF TMIndInv


\* The redo nodes of a transaction that rolls back are fixed.
LEMMA RollbackRedo ==
  ASSUME TMTypeOK, ShapeInv, RoomInv, [Next]_vars, NEW u \in Txn, call'[u] \in RollbackCall
  PROVE  redo'[u] = redo[u]
  <1>1. stage'[u] = "undoing"
    BY ShapeNext DEF ShapeInv
  <1>2. stage[u] # "active" => redo'[u] = redo[u]
    BY StampedMoves
  <1>3. ASSUME stage[u] = "active" PROVE redo'[u] = redo[u]
    <2>1. PICK t \in Txn : Continue(t) \/ Invoke(t)
      BY <1>1, <1>3 DEF Next, vars
    <2>2. stage' = stage => FALSE
      BY <1>1, <1>3
    <2>3. ~ (Reading(t) \/ Cas(t))
      BY <2>2, ReadingShape, CasShape DEF Reading, tmVars
    <2>4. Stamp(t) \/ ManagerAction(t) => redo' = redo
      BY StampShape, ManagerShape DEF hmtVars
    <2>5. BeginAbortTxn(t) \/ FinishAbortTxn(t) \/ RollbackLoad(t) \/ RollbackStep(t) => redo' = redo
      BY BeginAbortShape, FinishAbortShape, RollbackLoadShape, RollbackStepShape
    <2>6. QED
      BY <2>1, <2>3, <2>4, <2>5, Steps
  <1>4. QED
    BY <1>2, <1>3

\* What a rollback has found to be its own stays the head: nobody links above
\* an uncommitted version of another, and nobody else takes it off.
LEMMA UndoNext ==
  ASSUME TMIndInv, ShapeInv, RoomInv, TimesInv, NodesInv, RivalInv, [Next]_vars
  PROVE  UndoInv'
  <1> DEFINE Key1(c, u) == redo[u][c.next].key
             Own(h, u) == h # << >> /\ Head(h) \notin stamped /\ Owner(Head(h)) = u
             Own1(h, u) == h # << >> /\ Head(h) \notin stamped' /\ Owner(Head(h)) = u
             Held(c, u) == /\ c.next \in DOMAIN redo[u]
                           /\ Own1(c.head, u) => chain'[Key1(c, u)] = c.head
  <1>1. TMTypeOK /\ UndoInv /\ stamped \subseteq stamped'
    BY StampedMoves DEF TMIndInv, RivalInv
  <1>2. ASSUME NEW u \in Txn, call[u] \in RollbackCall, call[u].pc = "undo", Own(call[u].head, u)
        PROVE  LET k == Key1(call[u], u) IN
                 /\ k \in Key /\ chain[k] = call[u].head
                 /\ 1 \in DOMAIN chain[k] /\ Owner(chain[k][1]) = u /\ stage[u] = "undoing"
    <2> DEFINE k == Key1(call[u], u)
    <2>1. call[u].next \in DOMAIN redo[u] /\ chain[k] = call[u].head
      BY <1>1, <1>2 DEF UndoInv, OwnHead
    <2>2. k \in Key
      BY <2>1, RedoShape
    <2>3. chain[k] \in Seq(Node) /\ chain[k] # << >> /\ DOMAIN chain[k] = 1 .. Len(chain[k])
      BY <1>2, <2>1, <2>2, ChainShape
    <2>4. Len(chain[k]) \in Nat \ {0} /\ Head(chain[k]) = chain[k][1]
      BY <2>3, PopFacts
    <2>5. 1 \in DOMAIN chain[k] /\ Owner(chain[k][1]) = u
      BY <1>2, <2>1, <2>3, <2>4
    <2>6. stage[u] = "undoing"
      BY <1>2 DEF ShapeInv
    <2>7. QED
      BY <2>1, <2>2, <2>5, <2>6
  <1>3. ASSUME NEW u \in Txn, call[u] \in RollbackCall, call[u].pc = "undo",
               ~ (RollbackStep(u) /\ OwnHead(u))
        PROVE  Held(call[u], u)
    <2> DEFINE k == Key1(call[u], u)
    <2>1. call[u].next \in DOMAIN redo[u]
      BY <1>1, <1>3 DEF UndoInv
    <2>2. SUFFICES ASSUME Own1(call[u].head, u) PROVE chain'[k] = call[u].head
      BY <2>1
    <2>3. Own(call[u].head, u)
      BY <1>1, <2>2
    <2>4. /\ k \in Key /\ chain[k] = call[u].head
          /\ 1 \in DOMAIN chain[k] /\ Owner(chain[k][1]) = u /\ stage[u] = "undoing"
      BY <1>2, <1>3, <2>3
    <2>5. CASE UNCHANGED <<chain, redo>>
      BY <2>4, <2>5
    <2>6. ASSUME NEW t \in Txn, Cas(t), Linked(t) PROVE chain'[k] = chain[k]
      <3>1. /\ stage[t] = "active" /\ call[t] \in TableCall /\ Len(redo[t]) < MaxWrites
        BY <1>1, <2>6, CasShape DEF RoomInv
      <3>2. t # u
        BY <2>4, <3>1
      <3>3. call[t].key # k
        <4>1. SUFFICES ASSUME call[t].key = k PROVE FALSE
          OBVIOUS
        <4>2. Committed(u)
          BY <2>4, <2>6, <3>2, <4>1, CasAgrees
        <4>3. QED
          BY <2>4, <4>2 DEF Committed
      <3>4. QED
        BY <2>4, <2>6, <3>1, <3>3, LinkStep
    <2>7. ASSUME NEW t \in Txn, RollbackStep(t), OwnHead(t) PROVE chain'[k] = chain[k]
      <3>1. t # u
        BY <1>3, <2>7
      <3>2. /\ Owner(chain[redo[t][call[t].next].key][1]) = t
            /\ \A j \in Key : j # redo[t][call[t].next].key => chain'[j] = chain[j]
        BY <1>1, <2>7, UnlinkStep
      <3>3. QED
        BY <2>4, <3>1, <3>2
    <2>8. QED
      BY <1>1, <2>4, <2>5, <2>6, <2>7, ChainMoves
  <1>4. ASSUME NEW u \in Txn, RollbackStep(u), OwnHead(u), call'[u].pc = "undo"
        PROVE  Held(call'[u], u)
    <2>1. /\ call[u] \in RollbackCall /\ call[u].pc = "undo" /\ call'[u].next = call[u].next
      BY <1>1, <1>4, RollbackStepShape
    <2>2. call[u].next \in DOMAIN redo[u]
      BY <1>1, <2>1 DEF UndoInv
    <2>3. call'[u].head = chain'[redo[u][call[u].next].key]
      BY <1>1, <1>4, UnlinkStep
    <2>4. QED
      BY <2>1, <2>2, <2>3
  <1>5. ASSUME NEW u \in Txn, RollbackLoad(u)
        PROVE  Held(call'[u], u)
    <2>1. /\ call[u].next \in DOMAIN redo[u] /\ call'[u].next = call[u].next
          /\ call'[u].head = chain[redo[u][call[u].next].key] /\ UNCHANGED chain
      BY <1>1, <1>5, RollbackLoadShape
    <2>2. QED
      BY <2>1
  <1>6. ASSUME NEW u \in Txn, call'[u] \in RollbackCall, call'[u].pc = "undo"
        PROVE  Held(call'[u], u)
    <2>1. CASE call'[u] = call[u]
      <3>1. CASE RollbackStep(u) /\ OwnHead(u)
        BY <1>4, <1>6, <3>1
      <3>2. CASE ~ (RollbackStep(u) /\ OwnHead(u))
        BY <1>3, <1>6, <2>1, <3>2
      <3>3. QED
        BY <3>1, <3>2
    <2>2. CASE call'[u] # call[u]
      <3>1. PICK t \in Txn : Continue(t) \/ Invoke(t)
        BY <2>2 DEF Next, vars
      <3>2. RollbackCall \cap TableCall = {} /\ NoCall \notin RollbackCall
        BY DEF RollbackCall, TableCall, NoCall
      <3>3. CASE Reading(t)
        <4>1. u = t /\ call'[t] \in {NoCall} \union TableCall
          BY <1>1, <2>2, <3>3, ReadingShape DEF Reading
        <4>2. QED
          BY <1>6, <3>2, <4>1
      <3>4. CASE Cas(t)
        <4>1. u = t /\ (call'[t] = NoCall \/ call'[t] \in TableCall)
          BY <1>1, <2>2, <3>4, CasShape DEF Linked
        <4>2. QED
          BY <1>6, <3>2, <4>1
      <3>5. CASE Stamp(t) \/ ManagerAction(t)
        BY <1>1, <2>2, <3>5, StampShape, ManagerShape DEF hmtVars
      <3>6. CASE BeginAbortTxn(t) \/ FinishAbortTxn(t)
        <4>1. u = t /\ (call'[t] = NoCall \/ call'[t].pc = "load")
          BY <1>1, <2>2, <3>6, BeginAbortShape, FinishAbortShape
        <4>2. QED
          BY <1>6, <3>2, <4>1
      <3>7. CASE RollbackLoad(t)
        <4>1. u = t
          BY <1>1, <2>2, <3>7, RollbackLoadShape
        <4>2. QED
          BY <1>5, <3>7, <4>1
      <3>8. CASE RollbackStep(t)
        <4>1. u = t /\ OwnHead(t)
          BY <1>1, <1>6, <2>2, <3>8, RollbackStepShape
        <4>2. QED
          BY <1>4, <1>6, <3>8, <4>1
      <3>9. QED
        BY <3>1, <3>3, <3>4, <3>5, <3>6, <3>7, <3>8, Steps
    <2>3. QED
      BY <2>1, <2>2
  <1>7. \A u \in Txn : call'[u] \in RollbackCall => redo'[u] = redo[u]
    BY <1>1, RollbackRedo
  <1> HIDE DEF Own, Own1
  <1>8. ASSUME NEW u \in Txn, call'[u] \in RollbackCall, call'[u].pc = "undo"
        PROVE  /\ call'[u].next \in DOMAIN redo'[u]
               /\ Own1(call'[u].head, u) => chain'[redo'[u][call'[u].next].key] = call'[u].head
    BY <1>6, <1>7, <1>8
  <1>9. QED
    BY <1>8 DEF UndoInv, OwnHead, Own1, Owner


\* A new node is in no chain, and only the versions of an aborting
\* transaction are taken off.
LEMMA KeptNext ==
  ASSUME TMIndInv, ShapeInv, RoomInv, NodesInv, RivalInv, KeptInv, [Next]_vars
  PROVE  KeptInv'
  <1> DEFINE Single(s) == \A i, j \in DOMAIN s : s[i] = s[j] => i = j
             Holds(s, n) == \E p \in DOMAIN s : s[p] = n
  <1>1. TMTypeOK /\ UndoInv /\ [TMNext]_tmVars
    BY ManagerStep DEF TMIndInv, RivalInv
  <1>2. \A k \in Key : Single(chain[k])
    BY DEF KeptInv
  <1>3. \A t \in Txn : stage[t] \notin {"undoing", "aborted"} =>
          \A i \in DOMAIN redo[t] : Holds(chain[redo[t][i].key], <<t, i>>)
    BY DEF KeptInv
  <1>4. ASSUME NEW t \in Txn, stage'[t] \notin {"undoing", "aborted"}
        PROVE  stage[t] \notin {"undoing", "aborted"}
    <2>1. CASE UNCHANGED tmVars
      BY <1>4, <2>1 DEF tmVars
    <2>2. CASE MinXip
      BY <1>4, <2>2 DEF MinXip
    <2>3. ASSUME NEW u \in Txn, TMTxnStep(u)
          PROVE  stage[t] \notin {"undoing", "aborted"}
      <3>1. CASE Start(u) \/ BeginCommit(u) \/ LogCommit(u) \/ BeginAbort(u) \/ FinishAbort(u)
        BY <1>1, <1>4, <3>1 DEF Start, BeginCommit, LogCommit, BeginAbort, FinishAbort, TMTypeOK
      <3>2. ASSUME NEW r \in BOOLEAN, FinishCommit(u, r)
            PROVE  stage[t] \notin {"undoing", "aborted"}
        BY <1>1, <1>4, <3>2 DEF FinishCommit, TMTypeOK
      <3>3. QED
        BY <2>3, <3>1, <3>2 DEF TMTxnStep
    <2>4. QED
      BY <1>1, <2>1, <2>2, <2>3 DEF TMNext
  <1>5. SUFFICES
          /\ \A k \in Key : Single(chain'[k])
          /\ \A t \in Txn : stage'[t] \notin {"undoing", "aborted"} =>
               \A i \in DOMAIN redo'[t] : Holds(chain'[redo'[t][i].key], <<t, i>>)
    BY DEF KeptInv
  <1>6. CASE UNCHANGED <<chain, redo>>
    BY <1>2, <1>3, <1>4, <1>6
  <1>7. ASSUME NEW t \in Txn, Cas(t), Linked(t)
        PROVE  /\ \A k \in Key : Single(chain'[k])
               /\ \A u \in Txn : stage'[u] \notin {"undoing", "aborted"} =>
                    \A i \in DOMAIN redo'[u] : Holds(chain'[redo'[u][i].key], <<u, i>>)
    <2> DEFINE c == call[t].key
               m == Len(redo[t]) + 1
    <2>1. /\ call[t] \in TableCall /\ Len(redo[t]) < MaxWrites
      BY <1>1, <1>7, CasShape DEF RoomInv
    <2>2. /\ c \in Key /\ m \in Nat
          /\ DOMAIN chain'[c] = 1 .. Len(chain[c]) + 1
          /\ chain'[c][1] = <<t, m>>
          /\ \A i \in DOMAIN chain[c] : chain'[c][i + 1] = chain[c][i]
          /\ \A j \in Key : j # c => chain'[j] = chain[j]
          /\ DOMAIN redo'[t] = 1 .. m /\ redo'[t][m].key = c
          /\ \A i \in DOMAIN redo[t] : redo'[t][i] = redo[t][i]
          /\ \A u \in Txn : u # t => redo'[u] = redo[u]
      BY <1>7, <2>1, LinkStep
    <2>3. /\ DOMAIN chain[c] = 1 .. Len(chain[c]) /\ Len(chain[c]) \in Nat
          /\ DOMAIN redo[t] = 1 .. Len(redo[t]) /\ Len(redo[t]) \in Nat
      BY <2>2, ChainShape, RedoShape
    <2>4. \A i \in DOMAIN chain[c] : chain[c][i] # <<t, m>>
      <3>1. ASSUME NEW i \in DOMAIN chain[c], chain[c][i] = <<t, m>>
            PROVE  FALSE
        <4>1. chain[c][i][2] \in DOMAIN redo[chain[c][i][1]]
          BY <2>2 DEF NodesInv, LinkedInv
        <4>2. m \in DOMAIN redo[t]
          BY <3>1, <4>1
        <4>3. QED
          BY <2>3, <4>2
      <3>2. QED
        BY <3>1
    <2>5. \A i \in DOMAIN chain'[c] : i # 1 =>
            /\ i - 1 \in DOMAIN chain[c] /\ (i - 1) + 1 = i
            /\ chain'[c][i] = chain[c][i - 1]
      <3>1. ASSUME NEW i \in DOMAIN chain'[c], i # 1
            PROVE  /\ i - 1 \in DOMAIN chain[c] /\ (i - 1) + 1 = i
                   /\ chain'[c][i] = chain[c][i - 1]
        <4>1. i \in 1 .. Len(chain[c]) + 1
          BY <2>2, <3>1
        <4>2. i - 1 \in 1 .. Len(chain[c]) /\ (i - 1) + 1 = i
          BY <2>3, <3>1, <4>1, DownOne
        <4>3. QED
          BY <2>2, <2>3, <4>2
      <3>2. QED
        BY <3>1
    <2>6. Single(chain'[c])
      <3>1. ASSUME NEW i \in DOMAIN chain'[c], NEW j \in DOMAIN chain'[c],
                   chain'[c][i] = chain'[c][j]
            PROVE  i = j
        <4>1. CASE i = 1 /\ j = 1
          BY <4>1
        <4>2. CASE i = 1 /\ j # 1
          <5>1. chain'[c][j] = <<t, m>>
            BY <2>2, <3>1, <4>2
          <5>2. j - 1 \in DOMAIN chain[c] /\ chain'[c][j] = chain[c][j - 1]
            BY <2>5, <3>1, <4>2
          <5>3. QED
            BY <2>4, <5>1, <5>2
        <4>3. CASE i # 1 /\ j = 1
          <5>1. chain'[c][i] = <<t, m>>
            BY <2>2, <3>1, <4>3
          <5>2. i - 1 \in DOMAIN chain[c] /\ chain'[c][i] = chain[c][i - 1]
            BY <2>5, <3>1, <4>3
          <5>3. QED
            BY <2>4, <5>1, <5>2
        <4>4. CASE i # 1 /\ j # 1
          <5>1. /\ i - 1 \in DOMAIN chain[c] /\ j - 1 \in DOMAIN chain[c]
                /\ chain[c][i - 1] = chain[c][j - 1]
                /\ (i - 1) + 1 = i /\ (j - 1) + 1 = j
            BY <2>5, <3>1, <4>4
          <5>2. i - 1 = j - 1
            BY <1>2, <2>2, <5>1
          <5>3. QED
            BY <5>1, <5>2
        <4>5. QED
          BY <4>1, <4>2, <4>3, <4>4
      <3>2. QED
        BY <3>1
    <2>7. \A k \in Key : \A n : Holds(chain[k], n) => Holds(chain'[k], n)
      <3>1. ASSUME NEW n, NEW p \in DOMAIN chain[c], chain[c][p] = n
            PROVE  Holds(chain'[c], n)
        <4>1. p + 1 \in DOMAIN chain'[c]
          BY <2>2, <2>3
        <4>2. chain'[c][p + 1] = n
          BY <2>2, <3>1
        <4>3. QED
          BY <4>1, <4>2
      <3>2. \A n : Holds(chain[c], n) => Holds(chain'[c], n)
        BY <3>1
      <3>3. \A k \in Key : k # c => chain'[k] = chain[k]
        BY <2>2
      <3>4. QED
        BY <3>2, <3>3
    <2>8. ASSUME NEW u \in Txn, stage'[u] \notin {"undoing", "aborted"}, NEW i \in DOMAIN redo'[u]
          PROVE  Holds(chain'[redo'[u][i].key], <<u, i>>)
      <3>1. CASE u = t /\ i = m
        <4>1. 1 \in DOMAIN chain'[c]
          BY <2>2, <2>3
        <4>2. QED
          BY <2>2, <3>1, <4>1
      <3>2. CASE ~ (u = t /\ i = m)
        <4>1. i \in DOMAIN redo[u] /\ redo'[u][i] = redo[u][i]
          <5>1. CASE u = t
            <6>1. i \in 1 .. Len(redo[t]) + 1 /\ i # Len(redo[t]) + 1
              BY <2>2, <2>8, <3>2, <5>1
            <6>2. i \in 1 .. Len(redo[t])
              BY <2>3, <6>1
            <6>3. QED
              BY <2>2, <2>3, <5>1, <6>2
          <5>2. CASE u # t
            BY <2>2, <2>8, <5>2
          <5>3. QED
            BY <5>1, <5>2
        <4>2. redo[u][i].key \in Key
          BY <4>1, RedoShape
        <4>3. Holds(chain[redo[u][i].key], <<u, i>>)
          BY <1>3, <1>4, <2>8, <4>1
        <4>4. QED
          BY <2>7, <4>1, <4>2, <4>3
      <3>3. QED
        BY <3>1, <3>2
    <2>9. \A k \in Key : Single(chain'[k])
      <3>1. ASSUME NEW k \in Key PROVE Single(chain'[k])
        <4>1. CASE k = c
          BY <2>6, <4>1
        <4>2. CASE k # c
          <5>1. chain'[k] = chain[k]
            BY <2>2, <4>2
          <5>2. Single(chain[k])
            BY <1>2
          <5>3. QED
            BY <5>1, <5>2
        <4>3. QED
          BY <4>1, <4>2
      <3>2. QED
        BY <3>1
    <2>10. QED
      BY <2>8, <2>9
  <1>8. ASSUME NEW t \in Txn, RollbackStep(t), OwnHead(t)
        PROVE  /\ \A k \in Key : Single(chain'[k])
               /\ \A u \in Txn : stage'[u] \notin {"undoing", "aborted"} =>
                    \A i \in DOMAIN redo'[u] : Holds(chain'[redo'[u][i].key], <<u, i>>)
    <2> DEFINE c == redo[t][call[t].next].key
    <2>1. /\ c \in Key /\ Len(chain[c]) \in Nat \ {0} /\ Owner(chain[c][1]) = t
          /\ DOMAIN chain'[c] = 1 .. Len(chain[c]) - 1
          /\ \A i \in DOMAIN chain'[c] : chain'[c][i] = chain[c][i + 1]
          /\ \A j \in Key : j # c => chain'[j] = chain[j]
      BY <1>1, <1>8, UnlinkStep
    <2>2. DOMAIN chain[c] = 1 .. Len(chain[c])
      BY <2>1, ChainShape
    <2>3. UNCHANGED redo /\ stage[t] = "undoing"
      BY <1>1, <1>8, RollbackStepShape
    <2>4. \A i \in DOMAIN chain'[c] : i + 1 \in DOMAIN chain[c] /\ i \in Nat
      BY <1>1, <1>8, UnlinkStep
    <2>5. Single(chain'[c])
      <3>1. ASSUME NEW i \in DOMAIN chain'[c], NEW j \in DOMAIN chain'[c],
                   chain'[c][i] = chain'[c][j]
            PROVE  i = j
        <4>1. /\ i + 1 \in DOMAIN chain[c] /\ j + 1 \in DOMAIN chain[c]
              /\ chain[c][i + 1] = chain[c][j + 1] /\ i \in Nat /\ j \in Nat
          BY <2>1, <2>4, <3>1
        <4>2. i + 1 = j + 1
          BY <1>2, <2>1, <4>1
        <4>3. QED
          BY <4>1, <4>2
      <3>2. QED
        BY <3>1
    <2>6. \A k \in Key : \A n : Owner(n) # t /\ Holds(chain[k], n) => Holds(chain'[k], n)
      <3>1. ASSUME NEW n, Owner(n) # t, NEW p \in DOMAIN chain[c], chain[c][p] = n
            PROVE  Holds(chain'[c], n)
        <4>1. p # 1
          BY <2>1, <3>1
        <4>2. p - 1 \in DOMAIN chain'[c] /\ (p - 1) + 1 = p
          <5>1. p \in 1 .. Len(chain[c])
            BY <2>2, <3>1
          <5>2. DOMAIN chain'[c] = 1 .. Len(chain[c]) - 1 /\ Len(chain[c]) \in Nat
            BY <2>1
          <5>3. p - 1 \in 1 .. Len(chain[c]) - 1 /\ (p - 1) + 1 = p
            BY <4>1, <5>1, <5>2
          <5>4. QED
            BY <5>2, <5>3
        <4>3. chain'[c][p - 1] = n
          BY <2>1, <3>1, <4>2
        <4>4. QED
          BY <4>2, <4>3
      <3>2. \A n : Owner(n) # t /\ Holds(chain[c], n) => Holds(chain'[c], n)
        BY <3>1
      <3>3. \A k \in Key : k # c => chain'[k] = chain[k]
        BY <2>1
      <3>4. QED
        BY <3>2, <3>3
    <2>7. ASSUME NEW u \in Txn, stage'[u] \notin {"undoing", "aborted"}, NEW i \in DOMAIN redo'[u]
          PROVE  Holds(chain'[redo'[u][i].key], <<u, i>>)
      <3>1. stage[u] \notin {"undoing", "aborted"} /\ u # t
        BY <1>4, <2>3, <2>7
      <3>2. Owner(<<u, i>>) # t
        BY <3>1 DEF Owner
      <3>3. redo[u][i].key \in Key /\ redo'[u][i] = redo[u][i] /\ i \in DOMAIN redo[u]
        BY <2>3, <2>7, RedoShape
      <3>4. Holds(chain[redo[u][i].key], <<u, i>>)
        BY <1>3, <3>1, <3>3
      <3>5. QED
        BY <2>6, <3>2, <3>3, <3>4
    <2> HIDE DEF Single, Holds, c
    <2>8. \A k \in Key : Single(chain'[k])
      BY <1>2, <2>1, <2>5
    <2>9. QED
      BY <2>7, <2>8
  <1>9. QED
    BY <1>1, <1>6, <1>7, <1>8, ChainMoves


\* Below a head of another there is nothing of a transaction that has not
\* committed.
LEMMA TopDecides ==
  ASSUME NEW s \in Seq(Node), NEW t,
         \A i, j \in DOMAIN s : i < j /\ Owner(s[i]) # Owner(s[j]) => Owner(s[j]) # t,
         s # << >> => Owner(Head(s)) # t
  PROVE  \A i \in DOMAIN s : Owner(s[i]) # t
  <1>1. SUFFICES ASSUME NEW i \in DOMAIN s PROVE Owner(s[i]) # t
    OBVIOUS
  <1>2. DOMAIN s = 1 .. Len(s) /\ Len(s) \in Nat
    BY LenProperties
  <1>3. 1 \in DOMAIN s /\ s # << >> /\ i \in 1 .. Len(s)
    BY <1>2
  <1>4. Owner(s[1]) # t
    BY <1>3, PopFacts
  <1>5. CASE i = 1
    BY <1>4, <1>5
  <1>6. CASE i # 1
    <2>1. 1 < i
      BY <1>2, <1>3, <1>6
    <2>2. QED
      BY <1>3, <1>4, <2>1
  <1>7. QED
    BY <1>5, <1>6

\* A transaction that does not write does not come back.
LEMMA CleanStays ==
  ASSUME TMTypeOK, ShapeInv, RoomInv, UndoInv, [Next]_vars,
         NEW t \in Txn, stage[t] # "active", NEW k \in Key, Clean(t, k)
  PROVE  \A i \in DOMAIN chain'[k] : Owner(chain'[k][i]) # t
  <1>1. CASE UNCHANGED <<chain, redo>>
    BY <1>1 DEF Clean
  <1>2. ASSUME NEW u \in Txn, Cas(u), Linked(u)
        PROVE  \A i \in DOMAIN chain'[k] : Owner(chain'[k][i]) # t
    <2> DEFINE c == call[u].key
               m == Len(redo[u]) + 1
    <2>1. /\ stage[u] = "active" /\ call[u] \in TableCall /\ Len(redo[u]) < MaxWrites
      BY <1>2, CasShape DEF RoomInv
    <2>2. /\ c \in Key
          /\ DOMAIN chain'[c] = 1 .. Len(chain[c]) + 1
          /\ chain'[c][1] = <<u, m>>
          /\ \A i \in DOMAIN chain[c] : chain'[c][i + 1] = chain[c][i]
          /\ \A j \in Key : j # c => chain'[j] = chain[j]
      BY <1>2, <2>1, LinkStep
    <2>3. DOMAIN chain[c] = 1 .. Len(chain[c]) /\ Len(chain[c]) \in Nat
      BY <2>2, ChainShape
    <2>4. CASE k # c
      BY <2>2, <2>4 DEF Clean
    <2>5. ASSUME k = c, NEW i \in DOMAIN chain'[c] PROVE Owner(chain'[c][i]) # t
      <3>1. CASE i = 1
        BY <2>1, <2>2, <3>1 DEF Owner
      <3>2. CASE i # 1
        <4>1. i \in 1 .. Len(chain[c]) + 1
          BY <2>2, <2>5
        <4>2. i - 1 \in 1 .. Len(chain[c]) /\ (i - 1) + 1 = i
          BY <2>3, <3>2, <4>1, DownOne
        <4>3. i - 1 \in DOMAIN chain[c] /\ chain'[c][i] = chain[c][i - 1]
          BY <2>2, <2>3, <4>2
        <4>4. Owner(chain[c][i - 1]) # t
          BY <2>5, <4>3 DEF Clean
        <4>5. QED
          BY <4>3, <4>4
      <3>3. QED
        BY <3>1, <3>2
    <2>6. QED
      BY <2>4, <2>5
  <1>3. ASSUME NEW u \in Txn, RollbackStep(u), OwnHead(u)
        PROVE  \A i \in DOMAIN chain'[k] : Owner(chain'[k][i]) # t
    <2> DEFINE c == redo[u][call[u].next].key
    <2>1. /\ c \in Key /\ Len(chain[c]) \in Nat \ {0}
          /\ DOMAIN chain'[c] = 1 .. Len(chain[c]) - 1
          /\ \A i \in DOMAIN chain'[c] : chain'[c][i] = chain[c][i + 1]
          /\ \A j \in Key : j # c => chain'[j] = chain[j]
      BY <1>3, UnlinkStep
    <2>2. DOMAIN chain[c] = 1 .. Len(chain[c])
      BY <2>1, ChainShape
    <2>3. \A i \in DOMAIN chain'[c] : i + 1 \in DOMAIN chain[c]
      BY <1>3, UnlinkStep
    <2>4. CASE k # c
      BY <2>1, <2>4 DEF Clean
    <2>5. CASE k = c
      <3>1. \A i \in DOMAIN chain[c] : Owner(chain[c][i]) # t
        BY <2>5 DEF Clean
      <3>2. QED
        BY <2>1, <2>3, <2>5, <3>1
    <2>6. QED
      BY <2>4, <2>5
  <1>4. QED
    BY <1>1, <1>2, <1>3, ChainMoves

\* A rollback that has come to the end has met every version it has to take
\* off.
LEMMA AllUndone ==
  ASSUME ShapeInv, LinkedInv, CleanInv, NEW t \in Txn, call[t] \in RollbackCall,
         call[t].next \notin DOMAIN redo[t], NEW k \in Key
  PROVE  Clean(t, k)
  <1>1. SUFFICES ASSUME NEW i \in DOMAIN chain[k], Owner(chain[k][i]) = t PROVE FALSE
    BY DEF Clean
  <1> DEFINE n == chain[k][i][2]
  <1>2. n \in DOMAIN redo[t] /\ redo[t][n].key = k
    BY <1>1 DEF LinkedInv, Owner
  <1>3. DOMAIN redo[t] = 1 .. Len(redo[t]) /\ Len(redo[t]) \in Nat
    BY RedoShape
  <1>4. call[t].next \in Nat \ {0}
    BY RollbackFields
  <1>5. n < call[t].next
    <2>1. n \in 1 .. Len(redo[t]) /\ call[t].next \notin 1 .. Len(redo[t])
      BY <1>2, <1>3
    <2> HIDE DEF n
    <2>2. QED
      BY <1>3, <1>4, <2>1
  <1>6. Clean(t, redo[t][n].key)
    BY <1>2, <1>5 DEF CleanInv
  <1>7. QED
    BY <1>1, <1>2, <1>6 DEF Clean


\* A rollback passes a key when the head is not its own, and then nothing of
\* it is left below.
LEMMA CleanNext ==
  ASSUME TMIndInv, ShapeInv, RoomInv, NodesInv, RivalInv, CleanInv, [Next]_vars
  PROVE  CleanInv'
  <1> DEFINE Clean1(t, k) == \A i \in DOMAIN chain'[k] : Owner(chain'[k][i]) # t
             Own(h, u) == h # << >> /\ Head(h) \notin stamped /\ Owner(Head(h)) = u
             Own1(h, u) == h # << >> /\ Head(h) \notin stamped' /\ Owner(Head(h)) = u
             Passed(c, t) ==
               /\ \A i \in DOMAIN redo[t] : i < c.next => Clean1(t, redo[t][i].key)
               /\ c.pc = "undo" /\ ~ Own1(c.head, t) => Clean1(t, redo[t][c.next].key)
  <1>1. /\ TMTypeOK /\ UndoInv /\ [TMNext]_tmVars
        /\ WritersDoNotOverlap /\ LinkedInv /\ StampedInv
    BY ManagerStep DEF TMIndInv, RivalInv, NodesInv
  <1>2. ASSUME NEW t \in Txn, stage[t] # "active", NEW k \in Key, Clean(t, k)
        PROVE  Clean1(t, k)
    BY <1>1, <1>2, CleanStays
  <1>3. ASSUME NEW t \in Txn, call[t] \in RollbackCall, NEW i \in DOMAIN redo[t], i < call[t].next
        PROVE  Clean1(t, redo[t][i].key)
    <2>1. Clean(t, redo[t][i].key)
      BY <1>3 DEF CleanInv
    <2>2. stage[t] = "undoing" /\ redo[t][i].key \in Key
      BY <1>3, RedoShape DEF ShapeInv
    <2>3. QED
      BY <1>2, <2>1, <2>2
  <1>4. ASSUME NEW t \in Txn, stage[t] = "undoing", NEW k \in Key
        PROVE  \A i, j \in DOMAIN chain[k] :
                 i < j /\ Owner(chain[k][i]) # Owner(chain[k][j]) => Owner(chain[k][j]) # t
    BY <1>1, <1>4 DEF WritersDoNotOverlap, Committed
  <1>5. ASSUME NEW t \in Txn, stage[t] = "undoing", NEW k \in Key, chain[k] # << >>,
               Head(chain[k]) \in stamped
        PROVE  Owner(Head(chain[k])) # t
    <2>1. Owner(Head(chain[k])) = Head(chain[k])[1]
      BY DEF Owner
    <2>2. stage[Head(chain[k])[1]] \in InCommit
      BY <1>1, <1>5 DEF StampedInv
    <2>3. QED
      BY <1>5, <2>1, <2>2 DEF InCommit
  <1>6. ASSUME NEW t \in Txn, call'[t] = call[t], call[t] \in RollbackCall
        PROVE  Passed(call'[t], t)
    <2>1. stage[t] = "undoing"
      BY <1>6 DEF ShapeInv
    <2>2. call[t].pc = "undo" /\ ~ Own1(call[t].head, t) => Clean1(t, redo[t][call[t].next].key)
      <3>1. SUFFICES ASSUME call[t].pc = "undo", ~ Own1(call[t].head, t)
                     PROVE  Clean1(t, redo[t][call[t].next].key)
        OBVIOUS
      <3>2. redo[t][call[t].next].key \in Key
        BY <1>1, <1>6, <3>1, RedoShape DEF UndoInv
      <3>3. ~ OwnHead(t)
        <4>1. SUFFICES ASSUME OwnHead(t) PROVE FALSE
          OBVIOUS
        <4> DEFINE n == Head(call[t].head)
        <4>2. n \notin stamped /\ Owner(n) = t /\ n \in stamped'
          BY <3>1, <4>1 DEF OwnHead
        <4>3. stage[n[1]] = "stamping" /\ n[1] = t
          BY <1>1, <4>2, StampedMoves DEF Owner
        <4>4. QED
          BY <2>1, <4>3
      <3>4. Clean(t, redo[t][call[t].next].key)
        BY <1>6, <3>1, <3>3 DEF CleanInv
      <3>5. QED
        BY <1>2, <2>1, <3>2, <3>4
    <2>3. QED
      BY <1>3, <1>6, <2>2
  <1>7. ASSUME NEW t \in Txn, BeginAbortTxn(t)
        PROVE  Passed(call'[t], t)
    <2>1. call'[t].next = 1 /\ call'[t].pc = "load"
      BY <1>1, <1>7, BeginAbortShape
    <2>2. \A i \in DOMAIN redo[t] : ~ (i < 1)
      <3>1. DOMAIN redo[t] = 1 .. Len(redo[t])
        BY RedoShape
      <3>2. QED
        BY <3>1
    <2>3. QED
      BY <2>1, <2>2
  <1>8. ASSUME NEW t \in Txn, RollbackLoad(t)
        PROVE  Passed(call'[t], t)
    <2> DEFINE k == redo[t][call[t].next].key
    <2>1. /\ UNCHANGED <<chain, stamped>> /\ stage[t] = "undoing" /\ call[t] \in RollbackCall
          /\ call[t].next \in DOMAIN redo[t] /\ call'[t].next = call[t].next
          /\ call'[t].head = chain[k]
      BY <1>1, <1>8, RollbackLoadShape
    <2>2. k \in Key
      BY <2>1, RedoShape
    <2>3. ASSUME ~ Own1(chain[k], t) PROVE Clean1(t, k)
      <3>1. chain[k] \in Seq(Node)
        BY <2>2, ChainShape
      <3>2. chain[k] # << >> => Owner(Head(chain[k])) # t
        BY <1>5, <2>1, <2>2, <2>3
      <3>3. \A i \in DOMAIN chain[k] : Owner(chain[k][i]) # t
        BY <1>4, <2>1, <2>2, <3>1, <3>2, TopDecides
      <3>4. QED
        BY <2>1, <3>3
    <2>4. QED
      BY <1>3, <2>1, <2>3
  <1>9. ASSUME NEW t \in Txn, RollbackStep(t)
        PROVE  Passed(call'[t], t)
    <2> DEFINE k == redo[t][call[t].next].key
    <2>1. /\ stage[t] = "undoing" /\ call[t] \in RollbackCall /\ call[t].pc = "undo"
          /\ UNCHANGED stamped
          /\ \/ OwnHead(t) /\ call'[t].next = call[t].next
             \/ /\ ~ OwnHead(t)
                /\ call'[t].next = call[t].next + 1 /\ call'[t].pc = "load"
      BY <1>1, <1>9, RollbackStepShape
    <2>2. call[t].next \in DOMAIN redo[t] /\ k \in Key
      BY <1>1, <2>1, RedoShape DEF UndoInv
    <2>3. CASE OwnHead(t)
      <3>1. /\ Len(chain[k]) \in Nat \ {0} /\ chain[k] # << >>
            /\ call'[t].head = chain'[k] /\ chain'[k] = Tail(chain[k])
            /\ DOMAIN chain'[k] = 1 .. Len(chain[k]) - 1
            /\ \A i \in DOMAIN chain'[k] : chain'[k][i] = chain[k][i + 1]
        BY <1>1, <1>9, <2>3, UnlinkStep
      <3>2. chain[k] \in Seq(Node) /\ DOMAIN chain[k] = 1 .. Len(chain[k])
        BY <2>2, ChainShape
      <3>3. \A i \in DOMAIN chain'[k] : i + 1 \in DOMAIN chain[k] /\ i \in Nat
        BY <1>1, <1>9, <2>3, UnlinkStep
      <3>4. chain'[k] \in Seq(Node)
        BY <3>1, <3>2, PopFacts
      <3>5. ASSUME NEW i \in DOMAIN chain'[k], NEW j \in DOMAIN chain'[k], i < j,
                   Owner(chain'[k][i]) # Owner(chain'[k][j])
            PROVE  Owner(chain'[k][j]) # t
        <4>1. i + 1 \in DOMAIN chain[k] /\ j + 1 \in DOMAIN chain[k] /\ i + 1 < j + 1
          <5>1. i + 1 \in DOMAIN chain[k] /\ j + 1 \in DOMAIN chain[k] /\ i \in Nat /\ j \in Nat
            BY <3>3
          <5> HIDE DEF k
          <5>2. QED
            BY <3>5, <5>1
        <4>2. chain'[k][i] = chain[k][i + 1] /\ chain'[k][j] = chain[k][j + 1]
          BY <3>1, <3>5
        <4>3. Owner(chain[k][i + 1]) # Owner(chain[k][j + 1])
          BY <3>5, <4>2
        <4>4. Owner(chain[k][j + 1]) # t
          BY <1>4, <2>1, <2>2, <4>1, <4>3
        <4>5. QED
          BY <4>2, <4>4
      <3>6. ASSUME ~ Own1(chain'[k], t) PROVE Clean1(t, k)
        <4>1. ASSUME chain'[k] # << >> PROVE Owner(Head(chain'[k])) # t
          <5>1. CASE Head(chain'[k]) \in stamped
            <6>1. stage[Head(chain'[k])[1]] \in InCommit
              BY <1>1, <5>1 DEF StampedInv
            <6>2. QED
              BY <2>1, <6>1 DEF InCommit, Owner
          <5>2. CASE Head(chain'[k]) \notin stamped
            BY <2>1, <3>6, <4>1, <5>2
          <5>3. QED
            BY <5>1, <5>2
        <4>2. QED
          BY <3>4, <3>5, <4>1, TopDecides
      <3>7. QED
        BY <1>3, <2>1, <2>3, <3>1, <3>6
    <2>4. CASE ~ OwnHead(t)
      <3>1. Clean1(t, k)
        <4>1. Clean(t, k)
          BY <2>1, <2>4 DEF CleanInv
        <4>2. QED
          BY <1>2, <2>1, <2>2, <4>1
      <3>2. call[t].next \in Nat /\ \A i \in DOMAIN redo[t] : i \in Nat
        <4>1. DOMAIN redo[t] = 1 .. Len(redo[t]) /\ Len(redo[t]) \in Nat
          BY RedoShape
        <4>2. QED
          BY <2>2, <4>1
      <3>3. \A i \in DOMAIN redo[t] : i < call[t].next + 1 => i < call[t].next \/ i = call[t].next
        BY <3>2
      <3>4. QED
        BY <1>3, <2>1, <2>4, <3>1, <3>3
    <2>5. QED
      BY <2>3, <2>4
  <1> HIDE DEF Passed
  <1>10. ASSUME NEW t \in Txn, call'[t] \in RollbackCall
         PROVE  Passed(call'[t], t) /\ redo'[t] = redo[t]
    <2>1. redo'[t] = redo[t]
      BY <1>1, <1>10, RollbackRedo
    <2>2. CASE call'[t] = call[t]
      BY <1>6, <1>10, <2>1, <2>2
    <2>3. CASE call'[t] # call[t]
      <3>1. PICK u \in Txn : Continue(u) \/ Invoke(u)
        BY <2>3 DEF Next, vars
      <3>2. RollbackCall \cap TableCall = {} /\ NoCall \notin RollbackCall
        BY DEF RollbackCall, TableCall, NoCall
      <3>3. CASE Reading(u)
        <4>1. u = t /\ call'[u] \in {NoCall} \union TableCall
          BY <1>1, <2>3, <3>3, ReadingShape DEF Reading
        <4>2. QED
          BY <1>10, <3>2, <4>1
      <3>4. CASE Cas(u)
        <4>1. u = t /\ (call'[u] = NoCall \/ call'[u] \in TableCall)
          BY <1>1, <2>3, <3>4, CasShape DEF Linked
        <4>2. QED
          BY <1>10, <3>2, <4>1
      <3>5. CASE Stamp(u) \/ ManagerAction(u)
        BY <1>1, <2>3, <3>5, StampShape, ManagerShape DEF hmtVars
      <3>6. CASE FinishAbortTxn(u)
        <4>1. u = t /\ call'[u] = NoCall
          BY <1>1, <2>3, <3>6, FinishAbortShape
        <4>2. QED
          BY <1>10, <3>2, <4>1
      <3>7. CASE BeginAbortTxn(u)
        <4>1. u = t
          BY <1>1, <2>3, <3>7, BeginAbortShape
        <4>2. QED
          BY <1>7, <2>1, <3>7, <4>1
      <3>8. CASE RollbackLoad(u)
        <4>1. u = t
          BY <1>1, <2>3, <3>8, RollbackLoadShape
        <4>2. QED
          BY <1>8, <2>1, <3>8, <4>1
      <3>9. CASE RollbackStep(u)
        <4>1. u = t
          BY <1>1, <2>3, <3>9, RollbackStepShape
        <4>2. QED
          BY <1>9, <2>1, <3>9, <4>1
      <3>10. QED
        BY <3>1, <3>3, <3>4, <3>5, <3>6, <3>7, <3>8, <3>9, Steps
    <2>4. QED
      BY <2>2, <2>3
  <1>11. ASSUME NEW t \in Txn, stage'[t] = "aborted", NEW k \in Key
         PROVE  Clean1(t, k)
    <2>1. stage[t] \in {"undoing", "aborted"}
      BY <1>1, <1>11, StageMoves
    <2>2. CASE stage[t] = "aborted"
      BY <1>2, <2>2 DEF CleanInv, RollbackIsComplete, Clean
    <2>3. CASE stage[t] = "undoing"
      <3>1. stage' # stage
        BY <1>11, <2>3
      <3>2. PICK u \in Txn : Continue(u) \/ Invoke(u)
        BY <3>1 DEF Next, vars
      <3>3. ~ (Reading(u) \/ Cas(u) \/ Stamp(u) \/ RollbackLoad(u) \/ RollbackStep(u))
        <4>1. UNCHANGED tmVars => stage' = stage
          BY DEF tmVars
        <4>2. Reading(u) \/ Cas(u) => UNCHANGED tmVars
          BY <1>1, ReadingShape, CasShape DEF Reading
        <4>3. Stamp(u) \/ RollbackLoad(u) \/ RollbackStep(u) => UNCHANGED tmVars
          BY <1>1, StampShape, RollbackLoadShape, RollbackStepShape
        <4>4. QED
          BY <3>1, <4>1, <4>2, <4>3
      <3>4. ~ ManagerAction(u) /\ ~ BeginAbortTxn(u)
        BY <1>1, <1>11, <2>3, ManagerShape, BeginAbortShape
      <3>5. FinishAbortTxn(u)
        BY <3>2, <3>3, <3>4, Steps
      <3>6. u = t /\ call[t] \in RollbackCall /\ call[t].next \notin DOMAIN redo[t]
        BY <1>1, <1>11, <2>3, <3>5, FinishAbortShape
      <3>7. Clean(t, k)
        BY <1>1, <3>6, AllUndone
      <3>8. QED
        BY <1>2, <2>3, <3>7
    <2>4. QED
      BY <2>1, <2>2, <2>3
  <1>12. ASSUME NEW t \in Txn, call'[t] \in RollbackCall
         PROVE  /\ \A i \in DOMAIN redo'[t] : i < call'[t].next => Clean1(t, redo'[t][i].key)
                /\ call'[t].pc = "undo" /\ ~ Own1(call'[t].head, t)
                     => Clean1(t, redo'[t][call'[t].next].key)
    <2> HIDE DEF Clean1, Own1
    <2>1. QED
      BY <1>10, <1>12 DEF Passed
  <1>13. QED
    BY <1>11, <1>12 DEF CleanInv, RollbackIsComplete, Clean, OwnHead, Owner


-----------------------------------------------------------------------------
(* The theorems.                                                           *)

\* Nothing is linked, nothing runs.
LEMMA HMTInitInv == Init => HMTIndInv
  <1> SUFFICES ASSUME Init PROVE HMTIndInv
    OBVIOUS
  <1>1. TMIndInv /\ ShapeInv
    BY TMInitInv, ShapeInit DEF Init
  <1>2. /\ \A k \in Key : chain[k] = << >>
        /\ \A t \in Txn : redo[t] = << >> /\ call[t] = NoCall
        /\ stamped = {}
        /\ \A t \in Txn : stage[t] = "idle" /\ commit[t] = InvalidTs
    BY DEF Init, TMInit
  <1>3. NoCall \notin TableCall /\ NoCall \notin RollbackCall
    BY DEF NoCall, TableCall, RollbackCall
  <1>4. DOMAIN << >> = {}
    OBVIOUS
  <1>5. RoomInv /\ TimesInv /\ NodesInv
    BY <1>2, <1>3, <1>4 DEF RoomInv, TimesInv, NodesInv, LinkedInv, StampedInv
  <1>6. RivalInv
    BY <1>2, <1>3, <1>4 DEF RivalInv, WritersDoNotOverlap, CheckedInv, UndoInv
  <1>7. KeptInv /\ CleanInv
    BY <1>2, <1>3, <1>4 DEF KeptInv, CleanInv, RollbackIsComplete
  <1>8. QED
    BY <1>1, <1>5, <1>6, <1>7 DEF HMTIndInv

\* Every step preserves every layer.
LEMMA HMTNextInv == HMTIndInv /\ [Next]_vars => HMTIndInv'
  <1> SUFFICES ASSUME HMTIndInv, [Next]_vars PROVE HMTIndInv'
    OBVIOUS
  <1>1. /\ TMIndInv /\ TMTypeOK /\ ShapeInv /\ RoomInv /\ TimesInv
        /\ NodesInv /\ LinkedInv /\ StampedInv
        /\ RivalInv /\ UndoInv /\ CheckedInv /\ KeptInv /\ CleanInv
    BY DEF HMTIndInv, TMIndInv, NodesInv, RivalInv
  <1>2. [TMNext]_tmVars
    BY ManagerStep
  <1>3. TMIndInv' /\ TimesInv'
    BY <1>1, <1>2, TMNextInv, TimesNext
  <1>4. ShapeInv' /\ RoomInv'
    BY <1>1, ShapeNext, RoomNext
  <1>5. NodesInv'
    BY <1>1, LinkedNext, StampedNext DEF NodesInv
  <1>6. RivalInv'
    BY <1>1, OverlapNext, CheckedNext, UndoNext DEF RivalInv
  <1>7. KeptInv' /\ CleanInv'
    BY <1>1, KeptNext, CleanNext
  <1>8. QED
    BY <1>3, <1>4, <1>5, <1>6, <1>7 DEF HMTIndInv

\* The inductive invariant of the table and the manager under it.
THEOREM TableInvariance == Spec => []HMTIndInv
  BY HMTInitInv, HMTNextInv, PTL DEF Spec

\* The types of the table and of the operations that run in it.
THEOREM TableTypes == Spec => []HMTTypeOK
  <1>1. HMTIndInv => HMTTypeOK
    <2> SUFFICES ASSUME HMTIndInv PROVE HMTTypeOK
      OBVIOUS
    <2>1. TMTypeOK /\ ShapeInv
      BY DEF HMTIndInv, TMIndInv
    <2>2. \A t \in Txn : call[t].op \in {"none", "get", "put", "update", "delete", "rollback"}
      <3>1. NoCall.op = "none"
        BY DEF NoCall
      <3>2. \A c \in TableCall : c.op \in {"get", "put", "update", "delete"}
        BY CallFields
      <3>3. \A c \in RollbackCall : c.op = "rollback"
        BY RollbackFields
      <3>4. \A t \in Txn : call[t] \in {NoCall} \union TableCall \union RollbackCall
        BY <2>1 DEF ShapeInv
      <3>5. QED
        BY <3>1, <3>2, <3>3, <3>4
    <2>3. \A t \in Txn : reply[t].op \in {"none", "get", "put", "update", "delete"}
      <3>1. NoReply.op = "none"
        BY DEF NoReply
      <3>2. \A r \in Reply : r.op \in {"get", "put", "update", "delete"}
        BY DEF Reply
      <3>3. \A t \in Txn : reply[t] \in {NoReply} \union Reply
        BY <2>1 DEF ShapeInv
      <3>4. QED
        BY <3>1, <3>2, <3>3
    <2>4. QED
      BY <2>1, <2>2, <2>3 DEF HMTTypeOK, ShapeInv, Redo
  <1>2. QED
    BY <1>1, TableInvariance, PTL

\* Of two versions of a key by different transactions the lower one was
\* committed before the upper one's transaction started: check_ww_conflict and
\* the compare_exchange do their work.
THEOREM FirstUpdaterWins == Spec => []WritersDoNotOverlap
  <1>1. HMTIndInv => WritersDoNotOverlap
    BY DEF HMTIndInv, RivalInv
  <1>2. QED
    BY <1>1, TableInvariance, PTL

\* No version of a transaction that may still commit, or has, is lost or
\* linked twice, and abort leaves none of its own: the plain store of rollback
\* never overwrites what another has linked.
THEOREM RollbackIsExact == Spec => []ChainsExact
  <1>1. HMTIndInv => NoVersionLost
    <2> SUFFICES ASSUME HMTIndInv, NEW t \in Txn, InProgress(t) \/ Committed(t),
                        NEW i \in DOMAIN redo[t]
                 PROVE  \E p \in DOMAIN chain[redo[t][i].key] :
                          {q \in DOMAIN chain[redo[t][i].key] :
                             chain[redo[t][i].key][q] = <<t, i>>} = {p}
      BY DEF NoVersionLost
    <2> DEFINE s == chain[redo[t][i].key]
    <2>1. stage[t] \notin {"undoing", "aborted"}
      BY DEF InProgress, Committed
    <2>2. redo[t][i].key \in Key
      BY RedoShape DEF HMTIndInv
    <2>3. PICK p \in DOMAIN s : s[p] = <<t, i>>
      BY <2>1 DEF HMTIndInv, KeptInv
    <2>4. \A q \in DOMAIN s : s[q] = <<t, i>> => q = p
      BY <2>2, <2>3 DEF HMTIndInv, KeptInv
    <2>5. {q \in DOMAIN s : s[q] = <<t, i>>} = {p}
      BY <2>3, <2>4
    <2>6. QED
      BY <2>5
  <1>2. HMTIndInv => RollbackIsComplete
    BY DEF HMTIndInv, CleanInv
  <1>3. HMTIndInv => ChainsExact
    BY <1>1, <1>2 DEF ChainsExact
  <1>4. QED
    BY <1>3, TableInvariance, PTL

-----------------------------------------------------------------------------
(* What a transaction sees. *)

\* The nodes that t sees.
Seen(t) == {n \in Node : Owner(n) = t} \union Settled(start[t])

\* n is a version of k that its owner has written.
Written(n, k) == n[2] \in DOMAIN redo[n[1]] /\ redo[n[1]][n[2]].key = k

StampsInv == \A t \in Txn : Committed(t) => AllStamped(t)

OrderInv ==
  \A k \in Key : \A i, j \in DOMAIN chain[k] :
    i < j /\ Owner(chain[k][i]) = Owner(chain[k][j]) => chain[k][j][2] < chain[k][i][2]

\* What call c of t has loaded: the operations go their ways, and a version
\* that has been chosen is the one that t sees in the chain.
Loaded(t, c) ==
  /\ c.pc = "read" => c.op = "update"
  /\ c.pc = "walk" => c.op \in {"get", "update"}
  /\ c.pc = "check" =>
       /\ c.head # << >> => Written(c.head[1], c.key)
       /\ First(c.head, Seen(t)) = First(chain[c.key], Seen(t))
  /\ c.pc = "walk" =>
       /\ \A i \in DOMAIN c.rest : Written(c.rest[i], c.key)
       /\ First(c.rest, Seen(t)) = First(chain[c.key], Seen(t))
  /\ c.pc = "cas" /\ c.op = "update" =>
       /\ c.value = First(chain[c.key], Seen(t))
       /\ c.value \in Node /\ RedoOf(c.value).record = "Insert"
  /\ c.pc = "cas" /\ c.op = "delete" =>
       /\ c.head # << >> /\ Written(c.head[1], c.key)
       /\ RedoOf(c.head[1]).record = "Insert"

LoadedInv == \A t \in Txn : call[t] \in TableCall => Loaded(t, call[t])

\* A transaction that has not started has no timestamp.
IdleInv == \A t \in Txn : stage[t] = "idle" => start[t] = InvalidTs

RefInv == IdleInv /\ StampsInv /\ OrderInv /\ LoadedInv

-----------------------------------------------------------------------------
(* The first of a set of versions.                                         *)

\* A bounded set of positive numbers has a greatest element.
LEMMA GreatestExists ==
  ASSUME NEW b \in Nat, NEW S, S \subseteq 1 .. b, S # {}
  PROVE  MaxOfSet(S) \in S /\ \A n \in S : n <= MaxOfSet(S)
  <1> DEFINE D == {b - n : n \in S}
  <1>1. D \subseteq Nat /\ D # {}
    <2>1. \A n \in S : b - n \in Nat
      OBVIOUS
    <2>2. \E d : d \in D
      OBVIOUS
    <2>3. QED
      BY <2>1, <2>2
  <1>2. MinOfSet(D) \in D /\ \A d \in D : MinOfSet(D) <= d
    BY <1>1, LeastExists
  <1>3. PICK m \in S : MinOfSet(D) = b - m
    BY <1>2
  <1>4. \A n \in S : n <= m
    <2>1. \A n \in S : b - m <= b - n
      BY <1>2, <1>3
    <2>2. QED
      BY <2>1
  <1>5. QED
    BY <1>4 DEF MaxOfSet

LEMMA MaxIs ==
  ASSUME NEW S, S \subseteq Nat, NEW m \in S, \A i \in S : i <= m
  PROVE  MaxOfSet(S) = m
  <1>1. \A x \in S : (\A y \in S : y <= x) => x = m
    <2>1. ASSUME NEW x \in S, \A y \in S : y <= x PROVE x = m
      <3>1. m <= x /\ x <= m /\ m \in Nat /\ x \in Nat
        BY <2>1
      <3>2. QED
        BY <3>1
    <2>2. QED
      BY <2>1
  <1>2. QED
    BY <1>1 DEF MaxOfSet

\* First finds the first, if there is one.
LEMMA FirstFacts ==
  ASSUME NEW s \in Seq(Node), NEW S
  PROVE  \/ First(s, S) = Absent /\ \A i \in DOMAIN s : s[i] \notin S
         \/ /\ First(s, S) \in Node
            /\ \E i \in DOMAIN s : /\ s[i] \in S /\ First(s, S) = s[i]
                                  /\ \A j \in DOMAIN s : s[j] \in S => i <= j
  <1> DEFINE P == Places(s, S)
  <1>1. DOMAIN s = 1 .. Len(s) /\ Len(s) \in Nat
    BY LenProperties
  <1>2. CASE P = {}
    BY <1>2 DEF First, Places
  <1>3. CASE P # {}
    <2>1. P \subseteq Nat
      BY <1>1 DEF Places
    <2>2. MinOfSet(P) \in P /\ \A j \in P : MinOfSet(P) <= j
      BY <1>3, <2>1, LeastExists
    <2>3. First(s, S) = s[MinOfSet(P)]
      BY <1>3 DEF First
    <2>4. /\ MinOfSet(P) \in DOMAIN s /\ s[MinOfSet(P)] \in S
          /\ \A j \in DOMAIN s : s[j] \in S => MinOfSet(P) <= j
      BY <2>2 DEF Places
    <2>5. s[MinOfSet(P)] \in Node
      BY <1>1, <2>4, ElementOfSeq
    <2>6. QED
      BY <2>3, <2>4, <2>5
  <1>4. QED
    BY <1>2, <1>3

\* The first is the only one that no other comes before.
LEMMA FirstIs ==
  ASSUME NEW s \in Seq(Node), NEW S, NEW i \in DOMAIN s, s[i] \in S,
         \A j \in DOMAIN s : s[j] \in S => i <= j
  PROVE  First(s, S) = s[i]
  <1>1. DOMAIN s \subseteq Nat
    <2>1. DOMAIN s = 1 .. Len(s) /\ Len(s) \in Nat
      BY LenProperties
    <2>2. QED
      BY <2>1
  <1>2. PICK p \in DOMAIN s : /\ s[p] \in S /\ First(s, S) = s[p]
                             /\ \A j \in DOMAIN s : s[j] \in S => p <= j
    BY FirstFacts
  <1>3. p <= i /\ i <= p /\ p \in Nat /\ i \in Nat
    BY <1>1, <1>2
  <1>4. QED
    BY <1>2, <1>3

\* Where there is none, there is no first.
LEMMA FirstNone ==
  ASSUME NEW s \in Seq(Node), NEW S, \A i \in DOMAIN s : s[i] \notin S
  PROVE  First(s, S) = Absent
  BY FirstFacts

LEMMA FirstEmpty ==
  ASSUME NEW S
  PROVE  First(<< >>, S) = Absent
  <1>1. DOMAIN << >> = {}
    OBVIOUS
  <1>2. QED
    BY <1>1 DEF First, Places

\* A node on top that is not one of them makes no difference.
LEMMA FirstBelow ==
  ASSUME NEW s \in Seq(Node), NEW r \in Seq(Node), NEW S,
         Len(r) = Len(s) + 1, r[1] \notin S, \A i \in DOMAIN s : r[i + 1] = s[i]
  PROVE  First(r, S) = First(s, S)
  <1>1. /\ Len(s) \in Nat /\ DOMAIN s = 1 .. Len(s) /\ DOMAIN r = 1 .. Len(s) + 1
    BY LenProperties
  <1>2. ASSUME NEW j \in DOMAIN r, r[j] \in S
        PROVE  j - 1 \in DOMAIN s /\ s[j - 1] = r[j] /\ j - 1 \in Nat /\ j = (j - 1) + 1
    <2>1. j # 1
      BY <1>2
    <2>2. j - 1 \in 1 .. Len(s) /\ (j - 1) + 1 = j
      BY <1>1, <2>1, DownOne
    <2>3. QED
      BY <1>1, <2>2
  <1>3. CASE \A i \in DOMAIN s : s[i] \notin S
    <2>1. \A j \in DOMAIN r : r[j] \notin S
      BY <1>2, <1>3
    <2>2. QED
      BY <1>3, <2>1, FirstNone
  <1>4. ASSUME NEW i \in DOMAIN s, s[i] \in S, First(s, S) = s[i],
               \A j \in DOMAIN s : s[j] \in S => i <= j
        PROVE  First(r, S) = First(s, S)
    <2>1. i + 1 \in DOMAIN r /\ r[i + 1] = s[i] /\ i \in Nat
      BY <1>1
    <2>2. ASSUME NEW j \in DOMAIN r, r[j] \in S PROVE i + 1 <= j
      <3>1. i <= j - 1 /\ j - 1 \in Nat /\ j = (j - 1) + 1
        BY <1>2, <1>4, <2>2
      <3> DEFINE d == j - 1
      <3>2. i <= d /\ d \in Nat /\ j = d + 1
        BY <3>1
      <3> HIDE DEF d
      <3>3. QED
        BY <2>1, <3>2
    <2>3. First(r, S) = r[i + 1]
      BY <1>4, <2>1, <2>2, FirstIs
    <2>4. QED
      BY <1>4, <2>1, <2>3
  <1>5. QED
    BY <1>3, <1>4, FirstFacts

\* The top is the first if it is one of them.
LEMMA FirstTop ==
  ASSUME NEW s \in Seq(Node), NEW S, s # << >>, s[1] \in S
  PROVE  First(s, S) = s[1]
  <1>1. DOMAIN s = 1 .. Len(s) /\ Len(s) \in Nat /\ 1 \in DOMAIN s
    BY EmptySeq, LenProperties
  <1>2. QED
    BY <1>1, FirstIs

\* Only the members of the set that are there matter.
LEMMA FirstSame ==
  ASSUME NEW s \in Seq(Node), NEW S, NEW T, \A i \in DOMAIN s : s[i] \in S <=> s[i] \in T
  PROVE  First(s, S) = First(s, T)
  <1>1. Places(s, S) = Places(s, T)
    BY DEF Places
  <1>2. QED
    BY <1>1 DEF First

-----------------------------------------------------------------------------
(* What steps leave as it is.                                              *)

\* What the proofs below use of the invariant of HashMemTableProofs.
LEMMA IndParts ==
  ASSUME HMTIndInv
  PROVE  /\ TMIndInv /\ TMTypeOK /\ DrawnFromCounter /\ CommitDrawnInCommit /\ NoLowerCommitInFlight
         /\ ShapeInv /\ RoomInv /\ TimesInv /\ LinkedInv /\ StampedInv
         /\ RivalInv /\ WritersDoNotOverlap /\ UndoInv /\ KeptInv
  BY DEF HMTIndInv, TMIndInv, NodesInv, RivalInv

\* Only the holder of the lock becomes committed.
LEMMA CommitMoves ==
  ASSUME TMTypeOK, [TMNext]_tmVars, NEW u \in Txn, Committed(u)', ~ Committed(u)
  PROVE  stage[u] = "stamping" /\ \E r \in BOOLEAN : FinishCommit(u, r)
  <1> USE DEF Committed, TMTypeOK
  <1>1. CASE UNCHANGED tmVars
    BY <1>1 DEF tmVars
  <1>2. CASE MinXip
    BY <1>2 DEF MinXip
  <1>3. ASSUME NEW t \in Txn, TMTxnStep(t)
        PROVE  stage[u] = "stamping" /\ \E r \in BOOLEAN : FinishCommit(u, r)
    <2>1. CASE Start(t)
      BY <2>1 DEF Start
    <2>2. CASE BeginCommit(t)
      BY <2>2 DEF BeginCommit
    <2>3. ASSUME NEW r \in BOOLEAN, FinishCommit(t, r)
          PROVE  stage[u] = "stamping" /\ FinishCommit(u, r)
      <3>1. stage[t] = "stamping" /\ \A v \in Txn : v # t => stage'[v] = stage[v]
        BY <2>3 DEF FinishCommit
      <3>2. u = t
        BY <3>1
      <3>3. QED
        BY <2>3, <3>1, <3>2
    <2>4. CASE LogCommit(t)
      BY <2>4 DEF LogCommit
    <2>5. CASE BeginAbort(t) \/ FinishAbort(t)
      BY <2>5 DEF BeginAbort, FinishAbort
    <2>6. QED
      BY <1>3, <2>1, <2>2, <2>3, <2>4, <2>5 DEF TMTxnStep
  <1>4. QED
    BY <1>1, <1>2, <1>3 DEF TMNext

\* Times of a committed transaction.
LEMMA CommittedTimes ==
  ASSUME TMIndInv, NEW u \in Txn, Committed(u)
  PROVE  commit[u] \in Nat \ {0} /\ commit[u] < counter /\ commit[u] <= MaxTs
  <1>1. commit[u] # InvalidTs
    BY DEF TMIndInv, CommitDrawnInCommit
  <1>2. commit[u] \in 0 .. MaxTs /\ counter \in 1 .. MaxTs
    BY DEF TMIndInv, TMTypeOK, Timestamp
  <1>3. QED
    BY <1>1, <1>2, MaxTsAssumption DEF TMIndInv, DrawnFromCounter, InvalidTs

\* What is settled below a bound stays settled, and nothing else becomes it
\* unless a commit below the bound ends.
LEMMA SettledStays ==
  ASSUME HMTIndInv, [Next]_vars, NEW b,
         \A u \in Txn : Committed(u)' /\ ~ Committed(u) => ~ (commit[u] <= b)
  PROVE  {n \in Node : Committed(Owner(n))' /\ commit'[Owner(n)] <= b} = Settled(b)
  <1>1. TMTypeOK /\ [TMNext]_tmVars
    BY IndParts, ManagerStep
  <1>2. \A n \in Node : Owner(n) \in Txn
    BY DEF Node, Owner
  <1>3. ASSUME NEW u \in Txn
        PROVE  Committed(u)' /\ commit'[u] <= b <=> Committed(u) /\ commit[u] <= b
    <2>1. CASE Committed(u)
      <3>1. Committed(u)' /\ commit'[u] = commit[u]
        BY <1>1, <2>1, StageMoves DEF InCommit, Committed
      <3>2. QED
        BY <2>1, <3>1
    <2>2. CASE ~ Committed(u) /\ Committed(u)'
      <3>1. stage[u] \in InCommit
        BY <1>1, <2>2, CommitMoves DEF InCommit
      <3>2. commit'[u] = commit[u]
        BY <1>1, <3>1, StageMoves
      <3>3. QED
        BY <2>2, <3>2
    <2>3. QED
      BY <2>1, <2>2
  <1>4. QED
    BY <1>2, <1>3 DEF Settled

\* The bound a started transaction reads at is safe from commits under way, and
\* nothing is settled below that of one that has not started.
LEMMA BoundIsSafe ==
  ASSUME HMTIndInv, IdleInv, [Next]_vars, NEW t \in Txn
  PROVE  {n \in Node : Committed(Owner(n))' /\ commit'[Owner(n)] <= start[t]} = Settled(start[t])
  <1>1. TMIndInv /\ TMTypeOK /\ NoLowerCommitInFlight /\ [TMNext]_tmVars
    BY IndParts, ManagerStep
  <1>2. ASSUME NEW u \in Txn, Committed(u)', ~ Committed(u)
        PROVE  ~ (commit[u] <= start[t])
    <2>1. stage[u] = "stamping"
      BY <1>1, <1>2, CommitMoves
    <2>2. commit[u] \in Nat /\ start[t] \in Nat
      BY <1>1, MaxTsAssumption DEF TMTypeOK, Timestamp
    <2>3. commit[u] # 0
      BY <1>1, <2>1 DEF TMIndInv, CommitDrawnInCommit, InvalidTs
    <2>4. CASE Started(t)
      BY <1>1, <2>1, <2>2, <2>4 DEF NoLowerCommitInFlight
    <2>5. CASE ~ Started(t)
      <3>1. start[t] = 0
        BY <2>5 DEF IdleInv, Started, InvalidTs
      <3>2. QED
        BY <2>2, <2>3, <3>1
    <2>6. QED
      BY <2>4, <2>5
  <1>3. QED
    BY <1>2, SettledStays

\* Redo nodes that are there stay.
LEMMA WrittenStays ==
  ASSUME HMTIndInv, [Next]_vars, NEW n \in Node, n[2] \in DOMAIN redo[n[1]]
  PROVE  /\ n[1] \in Txn /\ n[2] \in DOMAIN redo'[n[1]] /\ redo'[n[1]][n[2]] = redo[n[1]][n[2]]
         /\ RedoOf(n)' = RedoOf(n) /\ ValueOf(n)' = ValueOf(n)
  <1>1. n[1] \in Txn
    BY DEF Node
  <1>2. n[2] \in DOMAIN redo'[n[1]] /\ redo'[n[1]][n[2]] = redo[n[1]][n[2]]
    BY <1>1, IndParts, StampedMoves
  <1>3. QED
    BY <1>1, <1>2 DEF RedoOf, ValueOf

\* Nobody links or unlinks a node that is not his own.
LEMMA FirstStays ==
  ASSUME HMTIndInv, [Next]_vars, NEW k \in Key, NEW S,
         \A u \in Txn : (Cas(u) /\ Linked(u)) \/ RollbackStep(u) =>
           \A n \in S : n \in Node => Owner(n) # u
  PROVE  First(chain'[k], S) = First(chain[k], S)
  <1>1. TMTypeOK /\ ShapeInv /\ RoomInv /\ UndoInv /\ ShapeInv'
    BY IndParts, ShapeNext
  <1>2. chain[k] \in Seq(Node) /\ chain'[k] \in Seq(Node)
    BY <1>1 DEF ShapeInv
  <1>3. CASE UNCHANGED <<chain, redo>>
    BY <1>3
  <1>4. ASSUME NEW u \in Txn, Cas(u), Linked(u)
        PROVE  First(chain'[k], S) = First(chain[k], S)
    <2> DEFINE m == Len(redo[u]) + 1
    <2>1. call[u] \in TableCall /\ Len(redo[u]) < MaxWrites
      BY <1>1, <1>4, CasShape DEF RoomInv, Cas
    <2>2. CASE k # call[u].key
      BY <1>1, <2>1, <2>2, <1>4, LinkStep
    <2>3. CASE k = call[u].key
      <3>1. /\ Len(chain'[k]) = Len(chain[k]) + 1 /\ chain'[k][1] = <<u, m>>
            /\ \A i \in DOMAIN chain[k] : chain'[k][i + 1] = chain[k][i]
        BY <1>1, <1>4, <2>1, <2>3, LinkStep
      <3>2. <<u, m>> \in Node /\ Owner(<<u, m>>) = u
        BY <1>1, <2>1, NextNode DEF Owner
      <3>3. chain'[k][1] \notin S
        BY <1>4, <3>1, <3>2
      <3>4. QED
        BY <1>2, <3>1, <3>3, FirstBelow
    <2>4. QED
      BY <2>2, <2>3
  <1>5. ASSUME NEW u \in Txn, RollbackStep(u), OwnHead(u)
        PROVE  First(chain'[k], S) = First(chain[k], S)
    <2> DEFINE j == redo[u][call[u].next].key
    <2>1. /\ j \in Key /\ Len(chain[j]) \in Nat \ {0} /\ Owner(chain[j][1]) = u
          /\ Len(chain'[j]) = Len(chain[j]) - 1 /\ DOMAIN chain'[j] = 1 .. Len(chain[j]) - 1
          /\ \A i \in DOMAIN chain'[j] : chain'[j][i] = chain[j][i + 1]
          /\ \A i \in Key : i # j => chain'[i] = chain[i]
      BY <1>1, <1>5, UnlinkStep
    <2> HIDE DEF j
    <2>2. CASE k # j
      BY <2>1, <2>2
    <2>3. CASE k = j
      <3>1. Len(chain[k]) = Len(chain'[k]) + 1
        <4>1. Len(chain[k]) \in Nat \ {0} /\ Len(chain'[k]) = Len(chain[k]) - 1
          BY <2>1, <2>3
        <4>2. QED
          BY <4>1
      <3>2. chain[k][1] \in Node
        <4>1. Len(chain[k]) \in Nat \ {0} /\ DOMAIN chain[k] = 1 .. Len(chain[k])
          BY <1>1, <2>1, <2>3, ChainShape
        <4>2. 1 \in DOMAIN chain[k]
          BY <4>1
        <4>3. QED
          BY <1>1, <4>2, ChainShape
      <3>3. chain[k][1] \notin S
        BY <1>5, <2>1, <2>3, <3>2
      <3>4. \A i \in DOMAIN chain'[k] : chain[k][i + 1] = chain'[k][i]
        BY <2>1, <2>3
      <3>5. QED
        BY <1>2, <3>1, <3>3, <3>4, FirstBelow
    <2>4. QED
      BY <2>2, <2>3
  <1>6. QED
    BY <1>1, <1>3, <1>4, <1>5, ChainMoves

\* So the first that is settled stays, and the first that an active
\* transaction sees, unless it writes.
LEMMA SettledFirst ==
  ASSUME HMTIndInv, [Next]_vars, NEW k \in Key, NEW b
  PROVE  First(chain'[k], Settled(b)) = First(chain[k], Settled(b))
  <1>1. ASSUME NEW u \in Txn, (Cas(u) /\ Linked(u)) \/ RollbackStep(u), NEW n \in Settled(b)
        PROVE  Owner(n) # u
    <2>1. stage[u] \in {"active", "undoing"}
      BY <1>1, IndParts, CasShape, RollbackStepShape
    <2>2. QED
      BY <2>1 DEF Settled, Committed
  <1>2. QED
    BY <1>1, FirstStays

LEMMA SeenFirst ==
  ASSUME HMTIndInv, IdleInv, [Next]_vars, NEW t \in Txn, stage[t] = "active",
         ~ (Cas(t) /\ Linked(t))
  PROVE  /\ Seen(t)' = Seen(t)
         /\ \A k \in Key : First(chain'[k], Seen(t)') = First(chain[k], Seen(t))
  <1>1. TMTypeOK /\ [TMNext]_tmVars /\ ShapeInv /\ RoomInv
    BY IndParts, ManagerStep
  <1>2. start'[t] = start[t]
    BY <1>1, StageMoves DEF Started
  <1>3. Seen(t)' = Seen(t)
    BY <1>2, BoundIsSafe DEF Seen, Settled, Owner, Node
  <1>4. ASSUME NEW u \in Txn, (Cas(u) /\ Linked(u)) \/ RollbackStep(u), NEW n \in Seen(t)
        PROVE  Owner(n) # u
    <2>1. stage[u] \in {"active", "undoing"}
      BY <1>1, <1>4, CasShape, RollbackStepShape
    <2>2. u # t
      BY <1>1, <1>4, RollbackStepShape
    <2>3. QED
      BY <2>1, <2>2 DEF Seen, Settled, Committed
  <1>5. \A k \in Key : First(chain'[k], Seen(t)) = First(chain[k], Seen(t))
    BY <1>4, FirstStays
  <1>6. QED
    BY <1>3, <1>5

-----------------------------------------------------------------------------
(* RefInv is inductive.                                                    *)

LEMMA RefInit == Init => RefInv
  <1> SUFFICES ASSUME Init PROVE RefInv
    OBVIOUS
  <1>1. /\ \A k \in Key : chain[k] = << >>
        /\ \A t \in Txn : call[t] = NoCall /\ stage[t] = "idle" /\ start[t] = InvalidTs
    BY DEF Init, TMInit
  <1>2. NoCall \notin TableCall /\ DOMAIN << >> = {}
    BY DEF NoCall, TableCall
  <1>3. QED
    BY <1>1, <1>2 DEF RefInv, IdleInv, StampsInv, OrderInv, LoadedInv, Committed

\* start_transaction sets the timestamp and leaves no transaction idle.
LEMMA IdleNext ==
  ASSUME TMTypeOK, IdleInv, [TMNext]_tmVars
  PROVE  IdleInv'
  <1> USE DEF IdleInv, TMTypeOK
  <1>1. CASE UNCHANGED tmVars
    BY <1>1 DEF tmVars
  <1>2. CASE MinXip
    BY <1>2 DEF MinXip
  <1>3. ASSUME NEW t \in Txn, TMTxnStep(t) PROVE IdleInv'
    <2>1. CASE Start(t)
      BY <2>1 DEF Start
    <2>2. CASE BeginCommit(t)
      BY <2>2 DEF BeginCommit
    <2>3. ASSUME NEW r \in BOOLEAN, FinishCommit(t, r) PROVE IdleInv'
      BY <2>3 DEF FinishCommit
    <2>4. CASE LogCommit(t)
      BY <2>4 DEF LogCommit
    <2>5. CASE BeginAbort(t) \/ FinishAbort(t)
      BY <2>5 DEF BeginAbort, FinishAbort
    <2>6. QED
      BY <1>3, <2>1, <2>2, <2>3, <2>4, <2>5 DEF TMTxnStep
  <1>4. QED
    BY <1>1, <1>2, <1>3 DEF TMNext

\* Which action of the table ends the critical section of commit.
LEMMA EndOfCommit ==
  ASSUME HMTIndInv, [Next]_vars, NEW u \in Txn, Committed(u)', ~ Committed(u)
  PROVE  FinishCommitTxn(u)
  <1>1. TMTypeOK /\ ShapeInv /\ RoomInv /\ [TMNext]_tmVars
    BY IndParts, ManagerStep
  <1>2. stage[u] = "stamping" /\ stage'[u] # "stamping"
    BY <1>1, CommitMoves DEF Committed
  <1>3. PICK t \in Txn : Continue(t) \/ Invoke(t)
    BY <1>2 DEF Next, vars
  <1>4. /\ ~ Reading(t) /\ ~ Cas(t) /\ ~ Stamp(t) /\ ~ RollbackLoad(t) /\ ~ RollbackStep(t)
        /\ ~ BeginAbortTxn(t) /\ ~ FinishAbortTxn(t)
    BY <1>1, <1>2, ReadingShape, CasShape, StampShape, RollbackLoadShape, RollbackStepShape,
       BeginAbortShape, FinishAbortShape DEF tmVars, Reading
  <1>5. ManagerAction(t)
    BY <1>3, <1>4, Steps
  <1>6. t = u
    BY <1>1, <1>2, <1>5, ManagerShape
  <1>7. QED
    BY <1>2, <1>5, <1>6 DEF ManagerAction, StartTxn, Start, BeginCommitTxn, BeginCommit,
       LogCommitTxn, LogCommit

\* A commit leaves its critical section when the loop has stamped them all.
LEMMA StampsNext ==
  ASSUME HMTIndInv, StampsInv, [Next]_vars
  PROVE  StampsInv'
  <1>1. TMTypeOK /\ ShapeInv /\ RoomInv /\ [TMNext]_tmVars
    BY IndParts, ManagerStep
  <1>2. SUFFICES ASSUME NEW u \in Txn, Committed(u)' PROVE AllStamped(u)'
    BY DEF StampsInv
  <1>3. stamped \subseteq stamped' /\ (stage[u] # "active" => redo'[u] = redo[u])
    BY <1>1, StampedMoves
  <1>4. CASE Committed(u)
    BY <1>3, <1>4 DEF Committed, StampsInv, AllStamped
  <1>5. CASE ~ Committed(u)
    <2>1. FinishCommitTxn(u)
      BY <1>2, <1>5, EndOfCommit
    <2>2. AllStamped(u) /\ stage[u] # "active"
      BY <2>1 DEF FinishCommitTxn, FinishCommit
    <2>3. QED
      BY <1>3, <2>2 DEF AllStamped
  <1>6. QED
    BY <1>4, <1>5

\* A new version has the highest number its transaction has given.
LEMMA OrderNext ==
  ASSUME HMTIndInv, OrderInv, [Next]_vars
  PROVE  OrderInv'
  <1>1. /\ TMTypeOK /\ ShapeInv /\ RoomInv /\ UndoInv /\ LinkedInv
    BY IndParts
  <1> DEFINE Descends(s) == \A i, j \in DOMAIN s :
                              i < j /\ Owner(s[i]) = Owner(s[j]) => s[j][2] < s[i][2]
  <1>2. \A k \in Key : Descends(chain[k])
    BY DEF OrderInv
  <1>3. SUFFICES \A k \in Key : Descends(chain'[k])
    BY DEF OrderInv, Owner
  <1>4. CASE UNCHANGED <<chain, redo>>
    BY <1>2, <1>4
  <1>5. ASSUME NEW t \in Txn, Cas(t), Linked(t)
        PROVE  \A k \in Key : Descends(chain'[k])
    <2> DEFINE c == call[t].key
               m == Len(redo[t]) + 1
    <2>1. call[t] \in TableCall /\ Len(redo[t]) < MaxWrites
      BY <1>1, <1>5, CasShape DEF RoomInv
    <2>2. /\ c \in Key /\ m \in Nat /\ DOMAIN chain'[c] = 1 .. Len(chain[c]) + 1
          /\ chain'[c][1] = <<t, m>>
          /\ \A i \in DOMAIN chain[c] : chain'[c][i + 1] = chain[c][i]
          /\ \A j \in Key : j # c => chain'[j] = chain[j]
      BY <1>1, <1>5, <2>1, LinkStep
    <2>3. DOMAIN chain[c] = 1 .. Len(chain[c]) /\ Len(chain[c]) \in Nat
      BY <1>1, <2>2, ChainShape
    <2>4. ASSUME NEW j \in DOMAIN chain[c], Owner(chain[c][j]) = t
          PROVE  chain[c][j][2] < m
      <3>1. chain[c][j][2] \in DOMAIN redo[t]
        BY <1>1, <2>2, <2>4 DEF LinkedInv, Owner
      <3>2. DOMAIN redo[t] = 1 .. Len(redo[t]) /\ Len(redo[t]) \in Nat
        BY <1>1, RedoShape
      <3> HIDE DEF c
      <3>3. QED
        BY <3>1, <3>2
    <2>5. ASSUME NEW i \in DOMAIN chain'[c], i # 1
          PROVE  i - 1 \in DOMAIN chain[c] /\ chain'[c][i] = chain[c][i - 1]
      <3>1. i - 1 \in 1 .. Len(chain[c]) /\ (i - 1) + 1 = i
        BY <2>2, <2>3, <2>5, DownOne
      <3>2. QED
        BY <2>2, <2>3, <3>1
    <2>6. ASSUME NEW i \in DOMAIN chain'[c], NEW j \in DOMAIN chain'[c], i < j,
                 Owner(chain'[c][i]) = Owner(chain'[c][j])
          PROVE  chain'[c][j][2] < chain'[c][i][2]
      <3>1. i \in Nat /\ j \in Nat /\ i >= 1 /\ j # 1
        BY <2>2, <2>3, <2>6
      <3>2. j - 1 \in DOMAIN chain[c] /\ chain'[c][j] = chain[c][j - 1]
        BY <2>5, <3>1
      <3>3. CASE i = 1
        <4>1. chain'[c][i][2] = m /\ Owner(chain'[c][i]) = t
          BY <2>2, <3>3 DEF Owner
        <4>2. QED
          BY <2>4, <2>6, <3>2, <4>1
      <3>4. CASE i # 1
        <4>1. i - 1 \in DOMAIN chain[c] /\ chain'[c][i] = chain[c][i - 1]
          BY <2>5, <3>4
        <4>2. i - 1 < j - 1
          BY <2>6, <3>1
        <4>3. Owner(chain[c][i - 1]) = Owner(chain[c][j - 1])
          BY <2>6, <3>2, <4>1
        <4>4. chain[c][j - 1][2] < chain[c][i - 1][2]
          BY <1>2, <2>2, <3>2, <4>1, <4>2, <4>3
        <4>5. QED
          BY <3>2, <4>1, <4>4
      <3>5. QED
        BY <3>3, <3>4
    <2>7. QED
      BY <1>2, <2>2, <2>6
  <1>6. ASSUME NEW t \in Txn, RollbackStep(t), OwnHead(t)
        PROVE  \A k \in Key : Descends(chain'[k])
    <2> DEFINE c == redo[t][call[t].next].key
    <2>1. /\ c \in Key
          /\ \A i \in DOMAIN chain'[c] : /\ i \in Nat /\ i + 1 \in DOMAIN chain[c]
                                         /\ chain'[c][i] = chain[c][i + 1]
          /\ \A j \in Key : j # c => chain'[j] = chain[j]
      BY <1>1, <1>6, UnlinkStep
    <2> HIDE DEF c
    <2>2. ASSUME NEW i \in DOMAIN chain'[c], NEW j \in DOMAIN chain'[c], i < j,
                 Owner(chain'[c][i]) = Owner(chain'[c][j])
          PROVE  chain'[c][j][2] < chain'[c][i][2]
      <3>1. /\ i \in Nat /\ i + 1 \in DOMAIN chain[c] /\ chain'[c][i] = chain[c][i + 1]
            /\ j \in Nat /\ j + 1 \in DOMAIN chain[c] /\ chain'[c][j] = chain[c][j + 1]
        BY <2>1
      <3>2. i + 1 < j + 1
        BY <2>2, <3>1
      <3>3. Owner(chain[c][i + 1]) = Owner(chain[c][j + 1])
        BY <2>2, <3>1
      <3>4. Descends(chain[c])
        BY <1>2, <2>1
      <3>5. chain[c][j + 1][2] < chain[c][i + 1][2]
        BY <3>1, <3>2, <3>3, <3>4
      <3>6. QED
        BY <3>1, <3>5
    <2>3. QED
      BY <1>2, <2>1, <2>2
  <1>7. QED
    BY <1>1, <1>4, <1>5, <1>6, ChainMoves

\* An active transaction sees what get_value lets through.
LEMMA VisibleIsSeen ==
  ASSUME HMTIndInv, StampsInv, NEW t \in Txn, stage[t] = "active",
         NEW n \in Node, n[2] \in DOMAIN redo[n[1]]
  PROVE  Visible(t, n) <=> n \in Seen(t)
  <1>1. TMTypeOK /\ StampedInv /\ NoLowerCommitInFlight
    BY IndParts
  <1>2. Owner(n) \in Txn /\ Owner(n) = n[1] /\ n = <<Owner(n), n[2]>>
    BY DEF Node, Owner
  <1>3. n \in Seen(t) <=> Owner(n) = t \/ (Committed(Owner(n)) /\ commit[Owner(n)] <= start[t])
    BY DEF Seen, Settled
  <1>4. CASE n \notin stamped
    <2>1. ~ Committed(Owner(n))
      BY <1>2, <1>4 DEF StampsInv, AllStamped
    <2>2. QED
      BY <1>3, <1>4, <2>1 DEF Visible
  <1>5. CASE n \in stamped
    <2>1. stage[Owner(n)] \in InCommit
      BY <1>1, <1>2, <1>5 DEF StampedInv
    <2>2. Owner(n) # t
      BY <2>1 DEF InCommit
    <2>3. CASE Committed(Owner(n))
      BY <1>3, <1>5, <2>2, <2>3 DEF Visible
    <2>4. CASE ~ Committed(Owner(n))
      <3>1. stage[Owner(n)] = "stamping"
        BY <2>1, <2>4 DEF InCommit, Committed
      <3>2. start[t] < commit[Owner(n)]
        BY <1>1, <1>2, <3>1 DEF NoLowerCommitInFlight, Started
      <3>3. start[t] \in Nat /\ commit[Owner(n)] \in Nat
        BY <1>1, <1>2, MaxTsAssumption DEF TMTypeOK, Timestamp
      <3>4. ~ (commit[Owner(n)] <= start[t])
        BY <3>2, <3>3
      <3>5. QED
        BY <1>3, <1>5, <2>2, <2>4, <3>4 DEF Visible
    <2>5. QED
      BY <2>3, <2>4
  <1>6. QED
    BY <1>4, <1>5

\* All versions in a chain are written.
LEMMA ChainWritten ==
  ASSUME HMTIndInv, NEW k \in Key
  PROVE  /\ chain[k] \in Seq(Node)
         /\ \A i \in DOMAIN chain[k] : chain[k][i] \in Node /\ Written(chain[k][i], k)
         /\ chain[k] # << >> => Written(chain[k][1], k)
  <1>1. ShapeInv /\ LinkedInv
    BY IndParts
  <1>2. /\ chain[k] \in Seq(Node)
        /\ \A i \in DOMAIN chain[k] : chain[k][i] \in Node /\ Written(chain[k][i], k)
    BY <1>1, ChainShape DEF LinkedInv, Written
  <1>3. chain[k] # << >> => 1 \in DOMAIN chain[k]
    BY <1>2, EmptySeq, LenProperties
  <1>4. QED
    BY <1>2, <1>3

\* An operation that runs after a step ran before it or has just been moved on.
LEMMA CallMoves ==
  ASSUME HMTIndInv, [Next]_vars, NEW t \in Txn, call'[t] \in TableCall
  PROVE  /\ stage[t] = "active" /\ stage'[t] = "active" /\ ~ Linked(t)
         /\ \/ call'[t] = call[t] \/ Reading(t)
            \/ call[t] \in TableCall /\ call'[t] = [call[t] EXCEPT !.pc = "load"]
  <1>1. TMTypeOK /\ ShapeInv /\ RoomInv
    BY IndParts
  <1>2. NoCall \notin TableCall /\ TableCall \cap RollbackCall = {}
    BY DEF NoCall, TableCall, RollbackCall
  <1>3. ~ Linked(t)
    BY <1>2 DEF Linked
  <1>4. stage'[t] = "active"
    BY <1>1, ShapeNext DEF ShapeInv
  <1>5. \/ call'[t] = call[t] \/ Reading(t)
        \/ call[t] \in TableCall /\ call'[t] = [call[t] EXCEPT !.pc = "load"] /\ stage[t] = "active"
    <2>1. CASE UNCHANGED vars
      BY <2>1 DEF vars
    <2>2. ASSUME NEW u \in Txn, Continue(u) \/ Invoke(u), call'[t] # call[t]
          PROVE  \/ Reading(t)
                 \/ /\ call[t] \in TableCall /\ call'[t] = [call[t] EXCEPT !.pc = "load"]
                    /\ stage[t] = "active"
      <3>1. CASE Reading(u)
        BY <1>1, <2>2, <3>1, ReadingShape DEF Reading
      <3>2. CASE Cas(u)
        <4>1. u = t
          BY <1>1, <2>2, <3>2, CasShape
        <4>2. QED
          BY <1>1, <1>3, <3>2, <4>1, CasShape
      <3>3. ~ Stamp(u) /\ ~ ManagerAction(u)
        BY <1>1, <2>2, StampShape, ManagerShape DEF hmtVars
      <3>4. ~ BeginAbortTxn(u) /\ ~ FinishAbortTxn(u)
        BY <1>1, <1>2, <2>2, BeginAbortShape, FinishAbortShape
      <3>5. ~ RollbackLoad(u) /\ ~ RollbackStep(u)
        BY <1>1, <1>2, <2>2, RollbackLoadShape, RollbackStepShape
      <3>6. QED
        BY <2>2, <3>1, <3>2, <3>3, <3>4, <3>5, Steps
    <2>3. QED
      BY <2>1, <2>2 DEF Next
  <1>6. stage[t] = "active"
    BY <1>1, <1>5, ReadingShape DEF ShapeInv, Reading
  <1>7. QED
    BY <1>3, <1>4, <1>5, <1>6

\* What an operation loads, checks or passes is true of the chain it is in.
LEMMA ReadingLoaded ==
  ASSUME HMTIndInv, RefInv, NEW t \in Txn, Reading(t), call'[t] \in TableCall
  PROVE  Loaded(t, call'[t])
  <1> DEFINE c == call[t]
             d == call'[t]
  <1>1. /\ ShapeInv /\ TMTypeOK /\ StampsInv /\ stage[t] = "active"
        /\ call \in [Txn -> {NoCall} \union TableCall \union RollbackCall]
    BY IndParts, ReadingShape DEF RefInv, ShapeInv, Reading
  <1>2. c # NoCall => c \in TableCall /\ Loaded(t, c) /\ c.key \in Key /\ c.rest \in Seq(Node)
    BY <1>1, CallShape, CallFields DEF Idle, RefInv, LoadedInv
  <1>3. \A k \in Key : chain[k] # << >> => Written(chain[k][1], k)
    BY ChainWritten
  <1>4. \A k \in Key : \A i \in DOMAIN chain[k] : Written(chain[k][i], k)
    BY ChainWritten
  <1>5. ASSUME NEW op, NEW k \in Key, Call(t, op, k) PROVE Loaded(t, d)
    <2>1. d = [op |-> op, key |-> k, pc |-> IF op = "get" THEN "walk" ELSE "check",
               head |-> IF op = "get" THEN << >> ELSE chain[k],
               rest |-> IF op = "get" THEN chain[k] ELSE << >>,
               value |-> Absent]
      BY <1>1, <1>5 DEF Call
    <2>2. CASE op = "get"
      BY <1>4, <2>1, <2>2 DEF Loaded
    <2>3. CASE op # "get"
      BY <1>3, <2>1, <2>3 DEF Loaded
    <2>4. QED
      BY <2>2, <2>3
  <1>6. CASE Reload(t)
    <2>1. d = [c EXCEPT !.head = chain[c.key], !.pc = "check"] /\ c # NoCall
      BY <1>1, <1>6 DEF Reload, At, Idle
    <2>2. d.head = chain[c.key] /\ d.pc = "check" /\ d.key = c.key
      BY <1>2, <2>1 DEF TableCall
    <2>3. QED
      BY <1>2, <1>3, <2>1, <2>2 DEF Loaded
  <1>7. CASE ReadForUpdate(t)
    <2>1. d = [c EXCEPT !.rest = chain[c.key], !.pc = "walk"] /\ c # NoCall /\ c.pc = "read"
      BY <1>1, <1>7 DEF ReadForUpdate, At, Idle
    <2>2. d.rest = chain[c.key] /\ d.pc = "walk" /\ d.key = c.key /\ d.op = c.op
      BY <1>2, <2>1 DEF TableCall
    <2>3. QED
      BY <1>2, <1>4, <2>1, <2>2 DEF Loaded
  <1>8. CASE Check(t)
    <2>1. c # NoCall /\ c \in TableCall /\ c.pc = "check"
      BY <1>2, <1>8 DEF Check, At, Idle
    <2>2. d # NoCall
      BY DEF NoCall, TableCall
    <2>3. \/ c.op = "put" /\ d = [c EXCEPT !.pc = "cas"]
          \/ c.op = "delete" /\ IsPresent(c.head) /\ d = [c EXCEPT !.pc = "cas"]
          \/ c.op = "update" /\ d = [c EXCEPT !.pc = "read"]
      BY <1>1, <1>8, <2>2 DEF Check, Return, GoTo
    <2>4. CASE c.op = "update" /\ d = [c EXCEPT !.pc = "read"]
      <3>1. d.pc = "read" /\ d.op = "update"
        BY <2>1, <2>4 DEF TableCall
      <3>2. QED
        BY <3>1 DEF Loaded
    <2>5. CASE c.op = "put" /\ d = [c EXCEPT !.pc = "cas"]
      <3>1. d.pc = "cas" /\ d.op = "put"
        BY <2>1, <2>5 DEF TableCall
      <3>2. QED
        BY <3>1 DEF Loaded
    <2>6. CASE c.op = "delete" /\ IsPresent(c.head) /\ d = [c EXCEPT !.pc = "cas"]
      <3>1. d.pc = "cas" /\ d.op = "delete" /\ d.head = c.head /\ d.key = c.key
        BY <2>1, <2>6 DEF TableCall
      <3>2. c.head # << >> /\ Written(c.head[1], c.key)
        BY <1>2, <2>1, <2>6 DEF IsPresent, Loaded
      <3>3. Head(c.head) = c.head[1]
        BY <2>1, <3>2, CallFields, PopFacts
      <3>4. QED
        BY <2>6, <3>1, <3>2, <3>3 DEF Loaded, IsPresent
    <2>7. QED
      BY <2>3, <2>4, <2>5, <2>6
  <1>9. CASE Walk(t)
    <2> DEFINE r == c.rest
    <2>1. c # NoCall /\ c \in TableCall /\ c.pc = "walk"
      BY <1>2, <1>9 DEF Walk, At, Idle
    <2>2. d # NoCall
      BY DEF NoCall, TableCall
    <2>3. \/ r # << >> /\ ~ Visible(t, Head(r)) /\ d = [c EXCEPT !.rest = Tail(r)]
          \/ /\ r # << >> /\ Visible(t, Head(r)) /\ c.op = "update" /\ ValueOf(Head(r)) # Absent
             /\ d = [c EXCEPT !.value = ValueOf(Head(r)), !.rest = << >>, !.pc = "cas"]
      BY <1>1, <1>9, <2>2 DEF Walk, Return
    <2>4. /\ \A i \in DOMAIN r : Written(r[i], c.key)
          /\ First(r, Seen(t)) = First(chain[c.key], Seen(t))
          /\ c.op \in {"get", "update"} /\ r \in Seq(Node) /\ c.key \in Key
      BY <1>2, <2>1 DEF Loaded
    <2>5. /\ Tail(r) \in Seq(Node) /\ Len(r) \in Nat \ {0} /\ Len(Tail(r)) = Len(r) - 1
          /\ Head(r) = r[1] /\ r[1] \in Node
          /\ \A i \in 1 .. Len(r) - 1 : Tail(r)[i] = r[i + 1]
      BY <2>3, <2>4, PopFacts
    <2>6. DOMAIN r = 1 .. Len(r) /\ DOMAIN Tail(r) = 1 .. Len(r) - 1
      BY <2>4, <2>5, LenProperties
    <2>7. 1 \in DOMAIN r /\ \A i \in DOMAIN Tail(r) : i + 1 \in DOMAIN r
      BY <2>5, <2>6
    <2>8. Visible(t, Head(r)) <=> r[1] \in Seen(t)
      BY <1>1, <2>4, <2>5, <2>7, VisibleIsSeen DEF Written
    <2>9. CASE ~ Visible(t, Head(r)) /\ d = [c EXCEPT !.rest = Tail(r)]
      <3>1. d.pc = "walk" /\ d.op = c.op /\ d.rest = Tail(r) /\ d.key = c.key
        BY <2>1, <2>9 DEF TableCall
      <3>2. Len(r) = Len(Tail(r)) + 1
        BY <2>5
      <3>3. \A i \in DOMAIN Tail(r) : r[i + 1] = Tail(r)[i]
        BY <2>5, <2>6
      <3>4. First(r, Seen(t)) = First(Tail(r), Seen(t))
        BY <2>4, <2>5, <2>8, <2>9, <3>2, <3>3, FirstBelow
      <3>5. \A i \in DOMAIN Tail(r) : Written(Tail(r)[i], c.key)
        BY <2>4, <2>7, <3>3
      <3>6. QED
        BY <2>4, <3>1, <3>4, <3>5 DEF Loaded
    <2>10. CASE /\ r # << >> /\ Visible(t, Head(r)) /\ c.op = "update" /\ ValueOf(Head(r)) # Absent
                /\ d = [c EXCEPT !.value = ValueOf(Head(r)), !.rest = << >>, !.pc = "cas"]
      <3>1. d.pc = "cas" /\ d.op = "update" /\ d.value = ValueOf(Head(r)) /\ d.key = c.key
        BY <2>1, <2>10 DEF TableCall
      <3>2. ValueOf(Head(r)) = r[1] /\ RedoOf(r[1]).record = "Insert"
        BY <2>5, <2>10 DEF ValueOf
      <3>3. First(r, Seen(t)) = r[1]
        BY <2>4, <2>8, <2>10, FirstTop
      <3>4. QED
        BY <2>4, <2>5, <3>1, <3>2, <3>3 DEF Loaded
    <2>11. QED
      BY <2>3, <2>9, <2>10
  <1>10. QED
    BY <1>5, <1>6, <1>7, <1>8, <1>9 DEF Reading

\* What a call has loaded keeps answering for the chain, whatever others do.
LEMMA LoadedStays ==
  ASSUME HMTIndInv, IdleInv, [Next]_vars, NEW t \in Txn, stage[t] = "active",
         ~ (Cas(t) /\ Linked(t)), NEW c \in TableCall, Loaded(t, c)
  PROVE  Loaded(t, c)'
  <1>1. /\ c.key \in Key /\ c.head \in Seq(Node) /\ c.rest \in Seq(Node)
        /\ c.head # << >> => c.head[1] \in Node
        /\ \A i \in DOMAIN c.rest : c.rest[i] \in Node
    <2>1. c.key \in Key /\ c.head \in Seq(Node) /\ c.rest \in Seq(Node)
      BY CallFields
    <2>2. c.head # << >> => c.head[1] \in Node
      BY <2>1, PopFacts
    <2>3. \A i \in DOMAIN c.rest : c.rest[i] \in Node
      BY <2>1
    <2>4. QED
      BY <2>1, <2>2, <2>3
  <1>2. ASSUME NEW n \in Node, Written(n, c.key)
        PROVE  /\ n[2] \in DOMAIN redo'[n[1]] /\ redo'[n[1]][n[2]].key = c.key
               /\ redo'[n[1]][n[2]] = redo[n[1]][n[2]]
    BY <1>2, WrittenStays DEF Written
  <1>3. Seen(t)' = Seen(t) /\ First(chain'[c.key], Seen(t)') = First(chain[c.key], Seen(t))
    BY <1>1, SeenFirst
  <1> DEFINE S == Seen(t)
             f == First(chain[c.key], S)
  <1>4. f \in Node => Written(f, c.key)
    <2>1. chain[c.key] \in Seq(Node) /\ \A i \in DOMAIN chain[c.key] : Written(chain[c.key][i], c.key)
      BY <1>1, ChainWritten
    <2>2. f \in Node => f # Absent
      BY ResultsAreNoNodes
    <2>3. QED
      BY <2>1, <2>2, FirstFacts
  <1>5. c.pc = "check" =>
          /\ c.head # << >> => Written(c.head[1], c.key)'
          /\ First(c.head, S)' = First(chain[c.key], S)'
    BY <1>1, <1>2, <1>3 DEF Loaded, Written
  <1>6. c.pc = "walk" =>
          /\ \A i \in DOMAIN c.rest : Written(c.rest[i], c.key)'
          /\ First(c.rest, S)' = First(chain[c.key], S)'
    BY <1>1, <1>2, <1>3 DEF Loaded, Written
  <1>7. c.pc = "cas" /\ c.op = "update" =>
          /\ c.value = First(chain[c.key], S)'
          /\ c.value \in Node /\ (RedoOf(c.value).record = "Insert")'
    BY <1>2, <1>3, <1>4 DEF Loaded, RedoOf
  <1>8. c.pc = "cas" /\ c.op = "delete" =>
          /\ c.head # << >> /\ Written(c.head[1], c.key)'
          /\ (RedoOf(c.head[1]).record = "Insert")'
    BY <1>1, <1>2 DEF Loaded, Written, RedoOf
  <1> HIDE DEF S, f
  <1>9. QED
    BY <1>5, <1>6, <1>7, <1>8 DEF Loaded, S

LEMMA LoadedNext ==
  ASSUME HMTIndInv, RefInv, [Next]_vars
  PROVE  LoadedInv'
  <1>1. SUFFICES ASSUME NEW t \in Txn, NEW c \in TableCall, c = call'[t]
                 PROVE  Loaded(t, c)'
    BY DEF LoadedInv, Loaded
  <1>2. stage[t] = "active" /\ ~ Linked(t)
    BY <1>1, CallMoves
  <1>3. Loaded(t, c)
    <2>1. CASE call'[t] = call[t]
      BY <1>1, <2>1 DEF RefInv, LoadedInv
    <2>2. CASE Reading(t)
      BY <1>1, <2>2, ReadingLoaded
    <2>3. CASE call[t] \in TableCall /\ call'[t] = [call[t] EXCEPT !.pc = "load"]
      <3>1. c.pc = "load"
        BY <1>1, <2>3 DEF TableCall
      <3>2. QED
        BY <3>1 DEF Loaded
    <2>4. QED
      BY <1>1, <2>1, <2>2, <2>3, CallMoves
  <1>4. QED
    BY <1>2, <1>3, LoadedStays DEF RefInv

LEMMA RefNext == HMTIndInv /\ RefInv /\ [Next]_vars => RefInv'
  <1> SUFFICES ASSUME HMTIndInv, RefInv, [Next]_vars PROVE RefInv'
    OBVIOUS
  <1>1. TMTypeOK /\ [TMNext]_tmVars
    BY IndParts, ManagerStep
  <1>2. QED
    BY <1>1, IdleNext, StampsNext, OrderNext, LoadedNext DEF RefInv

\* What a running operation has loaded of a chain, and every value it has chosen
\* from it, stays what its transaction sees there, whatever others link, stamp
\* or roll back meanwhile.
THEOREM LoadedStaysSeen == Spec => []RefInv
  <1>1. Init => HMTIndInv /\ RefInv
    BY HMTInitInv, RefInit
  <1>2. HMTIndInv /\ RefInv /\ [Next]_vars => (HMTIndInv /\ RefInv)'
    BY HMTNextInv, RefNext
  <1>3. QED
    BY <1>1, <1>2, PTL DEF Spec

-----------------------------------------------------------------------------
(* What the abstract variables stand for, and what steps leave of them.    *)

\* A version found in a chain is written, so its value is for good.
LEMMA FirstValueStays ==
  ASSUME HMTIndInv, [Next]_vars, NEW k \in Key, NEW S,
         First(chain'[k], S) = First(chain[k], S)
  PROVE  FirstValue(chain[k], S)' = FirstValue(chain[k], S)
  <1> DEFINE n == First(chain[k], S)
  <1>1. n = Absent \/ (n \in Node /\ n[2] \in DOMAIN redo[n[1]])
    <2>1. chain[k] \in Seq(Node) /\ \A i \in DOMAIN chain[k] : Written(chain[k][i], k)
      BY ChainWritten
    <2>2. QED
      BY <2>1, FirstFacts DEF Written
  <1>2. First(chain[k], S)' = n
    OBVIOUS
  <1> HIDE DEF n
  <1>3. CASE n = Absent
    BY <1>2, <1>3 DEF FirstValue, n
  <1>4. CASE n # Absent
    <2>1. redo'[n[1]][n[2]] = redo[n[1]][n[2]]
      BY <1>1, <1>4, WrittenStays
    <2>2. QED
      BY <1>2, <1>4, <2>1 DEF FirstValue, ValueOf, RedoOf, n
  <1>5. QED
    BY <1>3, <1>4

\* The value of a key that is settled below a bound.
LEMMA NewestStays ==
  ASSUME HMTIndInv, [Next]_vars, NEW k \in Key, NEW b, Settled(b)' = Settled(b)
  PROVE  Newest(k, b)' = Newest(k, b)
  <1> DEFINE S == Settled(b)
  <1>1. First(chain'[k], S) = First(chain[k], S)
    BY SettledFirst
  <1>2. First(chain[k], Settled(b))' = First(chain'[k], Settled(b)')
    OBVIOUS
  <1> HIDE DEF S
  <1>3. QED
    BY <1>1, <1>2, FirstValueStays DEF Newest, FirstValue, S, ValueOf, RedoOf

\* The snapshot of a transaction does not change once it has its timestamp.
LEMMA SnapStays ==
  ASSUME HMTIndInv, IdleInv, [Next]_vars, NEW t \in Txn, start'[t] = start[t], NEW k \in Key
  PROVE  Newest(k, start[t])' = Newest(k, start[t])
  <1>1. PICK b : b = start[t]
    OBVIOUS
  <1>2. Settled(b)' = Settled(b)
    BY <1>1, BoundIsSafe DEF Settled, Node, Owner
  <1>3. Newest(k, b)' = Newest(k, b)
    BY <1>2, NewestStays
  <1>4. Newest(k, start[t])' = Newest(k, b)'
    BY <1>1 DEF Newest, Settled, FirstValue
  <1>5. QED
    BY <1>1, <1>3, <1>4

\* The store changes with the end of a commit only.
LEMMA StoreStays ==
  ASSUME HMTIndInv, [Next]_vars, NEW k \in Key,
         \A u \in Txn : Committed(u)' => Committed(u)
  PROVE  Newest(k, MaxTs)' = Newest(k, MaxTs)
  <1>1. Settled(MaxTs)' = Settled(MaxTs)
    BY SettledStays DEF Settled, Node, Owner
  <1>2. QED
    BY <1>1, NewestStays

\* Who had committed before a transaction started does not change either.
LEMMA EarlierStays ==
  ASSUME HMTIndInv, IdleInv, [Next]_vars, NEW t \in Txn, start'[t] = start[t], NEW u \in Txn
  PROVE  Committed(u)' /\ commit'[u] < start'[t] <=> Committed(u) /\ commit[u] < start[t]
  <1>1. TMIndInv /\ TMTypeOK /\ NoLowerCommitInFlight /\ [TMNext]_tmVars
    BY IndParts, ManagerStep
  <1>2. CASE Committed(u)
    <2>1. Committed(u)' /\ commit'[u] = commit[u]
      BY <1>1, <1>2, StageMoves DEF InCommit, Committed
    <2>2. QED
      BY <1>2, <2>1
  <1>3. CASE ~ Committed(u) /\ Committed(u)'
    <2>1. stage[u] = "stamping"
      BY <1>1, <1>3, CommitMoves
    <2>2. commit'[u] = commit[u]
      BY <1>1, <2>1, StageMoves DEF InCommit
    <2>3. commit[u] \in Nat /\ start[t] \in Nat
      BY <1>1, MaxTsAssumption DEF TMTypeOK, Timestamp
    <2>4. start[t] < commit[u] \/ start[t] = 0
      BY <1>1, <2>1 DEF NoLowerCommitInFlight, IdleInv, Started, InvalidTs
    <2>5. ~ (commit'[u] < start'[t])
      BY <2>2, <2>3, <2>4
    <2>6. QED
      BY <1>3, <2>5
  <1>4. QED
    BY <1>2, <1>3

\* What a transaction has written is in its redo nodes.
LEMMA WsetStays ==
  ASSUME NEW t \in Txn, redo'[t] = redo[t]
  PROVE  AbsWset'[t] = AbsWset[t]
  <1>1. \A k : Writes(t, k)' = Writes(t, k)
    BY DEF Writes
  <1>2. \A k : LastWrite(t, k)' = LastWrite(t, k)
    BY <1>1 DEF LastWrite
  <1>3. \A k : ValueOf(LastWrite(t, k))' = ValueOf(LastWrite(t, k))
    BY <1>2 DEF ValueOf, RedoOf, LastWrite
  <1>4. QED
    BY <1>3 DEF AbsWset

\* So a step that neither starts a transaction nor ends a commit leaves all but
\* the status and the writes.
LEMMA AbsKeeps ==
  ASSUME HMTIndInv, IdleInv, [Next]_vars, start' = start,
         \A u \in Txn : Committed(u)' => Committed(u)
  PROVE  AbsStore' = AbsStore /\ AbsSnap' = AbsSnap /\ AbsBefore' = AbsBefore
  <1>1. \A k \in Key : Newest(k, MaxTs)' = Newest(k, MaxTs)
    BY StoreStays
  <1>2. \A t \in Txn, k \in Key : Newest(k, start[t])' = Newest(k, start[t])
    BY SnapStays
  <1>3. \A t \in Txn, u \in Txn :
          Committed(u)' /\ commit'[u] < start'[t] <=> Committed(u) /\ commit[u] < start[t]
    BY EarlierStays
  <1>4. AbsBefore' = AbsBefore
    <2>1. \A t \in Txn : {u \in Txn : Committed(u)' /\ commit'[u] < start'[t]}
                           = {u \in Txn : Committed(u) /\ commit[u] < start[t]}
      BY <1>3
    <2>2. QED
      BY <2>1 DEF AbsBefore
  <1>5. AbsStore' = AbsStore
    BY <1>1 DEF AbsStore
  <1>6. AbsSnap' = AbsSnap
    BY <1>2 DEF AbsSnap
  <1>7. QED
    BY <1>4, <1>5, <1>6

LEMMA AbsWsetKeeps ==
  ASSUME redo' = redo
  PROVE  AbsWset' = AbsWset
  <1>1. \A t \in Txn : AbsWset'[t] = AbsWset[t]
    BY WsetStays
  <1>2. QED
    BY <1>1 DEF AbsWset

\* The status of a transaction is that of its stage.
LEMMA StatusFacts ==
  ASSUME TMTypeOK, NEW t \in Txn
  PROVE  /\ AbsStatus[t] = StatusOf(t)
         /\ AbsStatus[t] = "idle" <=> stage[t] = "idle"
         /\ AbsStatus[t] = "active" <=> stage[t] \in {"active", "stamping"}
         /\ AbsStatus[t] = "committed" <=> Committed(t)
         /\ AbsStatus[t] = "aborted" <=> stage[t] \in {"undoing", "aborted"}
  BY DEF AbsStatus, StatusOf, InProgress, Committed, TMTypeOK, Stage

\* The writes of a transaction that may still commit are on top, the last one
\* first: it is the first of any versions that include them all.
LEMMA LastIsFirst ==
  ASSUME HMTIndInv, OrderInv, NEW t \in Txn, InProgress(t), NEW k \in Key, Writes(t, k) # {},
         NEW S, \A n \in Node : Owner(n) = t => n \in S
  PROVE  First(chain[k], S) = LastWrite(t, k) /\ LastWrite(t, k) \in Node
  <1>1. ShapeInv /\ LinkedInv /\ WritersDoNotOverlap /\ KeptInv
    BY IndParts
  <1>2. /\ DOMAIN redo[t] = 1 .. Len(redo[t]) /\ Len(redo[t]) \in Nat
        /\ chain[k] \in Seq(Node) /\ DOMAIN chain[k] = 1 .. Len(chain[k]) /\ Len(chain[k]) \in Nat
        /\ \A i \in DOMAIN chain[k] : chain[k][i] \in Node
    BY <1>1, RedoShape, ChainShape
  <1> DEFINE W == Writes(t, k)
             m == MaxOfSet(W)
  <1>3. m \in W /\ \A i \in W : i <= m
    <2>1. W \subseteq 1 .. Len(redo[t])
      BY <1>2 DEF Writes
    <2>2. QED
      BY <1>2, <2>1, GreatestExists
  <1>4. m \in DOMAIN redo[t] /\ redo[t][m].key = k
    BY <1>3 DEF Writes
  <1>5. stage[t] \notin {"undoing", "aborted"}
    BY DEF InProgress
  <1>6. PICK p \in DOMAIN chain[k] : chain[k][p] = <<t, m>>
    BY <1>1, <1>4, <1>5 DEF KeptInv
  <1>7. Owner(chain[k][p]) = t /\ chain[k][p][2] = m /\ chain[k][p] \in S
    BY <1>2, <1>6 DEF Owner
  <1>8. PICK i \in DOMAIN chain[k] :
          /\ First(chain[k], S) = chain[k][i]
          /\ \A j \in DOMAIN chain[k] : chain[k][j] \in S => i <= j
    BY <1>2, <1>7, FirstFacts
  <1>9. i <= p /\ i \in Nat /\ p \in Nat
    BY <1>2, <1>7, <1>8
  <1> HIDE DEF m
  <1>10. CASE i < p
    <2>1. Owner(chain[k][i]) = t
      BY <1>1, <1>7, <1>10 DEF WritersDoNotOverlap, InProgress, Committed
    <2>2. chain[k][i][2] \in W
      BY <1>1, <2>1 DEF LinkedInv, Writes, Owner
    <2>3. m < chain[k][i][2]
      BY <1>7, <1>10, <2>1 DEF OrderInv
    <2>4. chain[k][i][2] <= m /\ m \in Nat /\ chain[k][i][2] \in Nat
      BY <1>2, <1>3, <2>2 DEF Writes
    <2>5. QED
      BY <2>3, <2>4
  <1>11. CASE i = p
    BY <1>2, <1>6, <1>8, <1>11 DEF LastWrite, m
  <1>12. QED
    BY <1>9, <1>10, <1>11

LEMMA WsetFacts ==
  ASSUME NEW t \in Txn, NEW k
  PROVE  /\ k \in DOMAIN AbsWset[t] <=> Writes(t, k) # {}
         /\ k \in DOMAIN AbsWset[t] => AbsWset[t][k] = ValueOf(LastWrite(t, k))
  BY DEF AbsWset, Writes

\* What t reads of k in the abstract is the first version that it sees there.
LEMMA ViewIsSeen ==
  ASSUME HMTIndInv, RefInv, NEW t \in Txn, stage[t] = "active", NEW k \in Key
  PROVE  SI!View(t, k) = FirstValue(chain[k], Seen(t))
  <1>1. ShapeInv /\ LinkedInv /\ OrderInv
    BY IndParts DEF RefInv
  <1>2. SI!View(t, k) = IF k \in DOMAIN AbsWset[t] THEN AbsWset[t][k] ELSE AbsSnap[t][k]
    BY DEF SI!View
  <1>3. CASE Writes(t, k) # {}
    <2>1. First(chain[k], Seen(t)) = LastWrite(t, k) /\ LastWrite(t, k) \in Node
      <3>1. \A n \in Node : Owner(n) = t => n \in Seen(t)
        BY DEF Seen
      <3>2. InProgress(t)
        BY DEF InProgress
      <3>3. QED
        BY <1>1, <1>3, <3>1, <3>2, LastIsFirst
    <2>2. LastWrite(t, k) # Absent
      BY <2>1, ResultsAreNoNodes
    <2>3. FirstValue(chain[k], Seen(t)) = ValueOf(LastWrite(t, k))
      BY <2>1, <2>2 DEF FirstValue
    <2>4. QED
      BY <1>2, <1>3, <2>3, WsetFacts
  <1>4. CASE Writes(t, k) = {}
    <2>1. /\ chain[k] \in Seq(Node)
          /\ \A i \in DOMAIN chain[k] : chain[k][i] \in Node /\ Owner(chain[k][i]) # t
      <3>1. chain[k] \in Seq(Node) /\ \A i \in DOMAIN chain[k] : chain[k][i] \in Node
        BY <1>1, ChainShape
      <3>2. ASSUME NEW i \in DOMAIN chain[k], Owner(chain[k][i]) = t PROVE FALSE
        BY <1>1, <1>4, <3>2 DEF LinkedInv, Writes, Owner
      <3>3. QED
        BY <3>1, <3>2
    <2>2. \A i \in DOMAIN chain[k] : chain[k][i] \in Seen(t) <=> chain[k][i] \in Settled(start[t])
      BY <2>1 DEF Seen
    <2>3. First(chain[k], Seen(t)) = First(chain[k], Settled(start[t]))
      BY <2>1, <2>2, FirstSame
    <2>4. AbsSnap[t][k] = FirstValue(chain[k], Settled(start[t]))
      BY DEF AbsSnap, Newest
    <2>5. QED
      BY <1>2, <1>4, <2>3, <2>4, WsetFacts DEF FirstValue
  <1>5. QED
    BY <1>3, <1>4

\* start_transaction takes the committed store as it is for its snapshot.
LEMMA StartMapped ==
  ASSUME HMTIndInv, RefInv, [Next]_vars, NEW t \in Txn, StartTxn(t)
  PROVE  SI!Begin(t)
  <1>1. TMIndInv /\ TMTypeOK /\ DrawnFromCounter /\ TMTypeOK'
    <2>1. TMIndInv /\ TMTypeOK /\ DrawnFromCounter /\ [TMNext]_tmVars
      BY IndParts, ManagerStep
    <2>2. TMIndInv'
      BY <2>1, TMNextInv
    <2>3. QED
      BY <2>1, <2>2 DEF TMIndInv
  <1>2. /\ stage[t] = "idle" /\ stage' = [stage EXCEPT ![t] = "active"]
        /\ start' = [start EXCEPT ![t] = counter] /\ commit' = commit
        /\ UNCHANGED <<chain, redo, reply>>
    BY DEF StartTxn, Start, hmtVars
  <1>3. \A u \in Txn : Committed(u)' <=> Committed(u)
    BY <1>1, <1>2 DEF Committed, TMTypeOK
  <1>4. AbsStatus[t] = "idle" /\ AbsStatus' = [AbsStatus EXCEPT ![t] = "active"]
    <2>1. AbsStatus[t] = "idle"
      BY <1>1, <1>2, StatusFacts
    <2>2. StatusOf(t)' = "active" /\ \A u \in Txn : u # t => StatusOf(u)' = StatusOf(u)
      BY <1>1, <1>2 DEF StatusOf, InProgress, Committed, TMTypeOK
    <2>3. QED
      BY <2>1, <2>2 DEF AbsStatus
  <1>5. AbsStore' = AbsStore
    <2>1. \A k \in Key : Newest(k, MaxTs)' = Newest(k, MaxTs)
      BY <1>3, StoreStays
    <2>2. QED
      BY <2>1 DEF AbsStore
  <1>6. AbsWset' = AbsWset
    BY <1>2, AbsWsetKeeps
  <1>7. ASSUME NEW u \in Txn, u # t
        PROVE  AbsSnap'[u] = AbsSnap[u] /\ AbsBefore'[u] = AbsBefore[u]
    <2>1. start'[u] = start[u]
      BY <1>1, <1>2, <1>7 DEF TMTypeOK
    <2>2. \A k \in Key : Newest(k, start[u])' = Newest(k, start[u])
      BY <2>1, SnapStays DEF RefInv
    <2>3. \A v \in Txn : Committed(v)' /\ commit'[v] < start'[u] <=> Committed(v) /\ commit[v] < start[u]
      BY <2>1, EarlierStays DEF RefInv
    <2>4. AbsSnap'[u] = AbsSnap[u]
      BY <2>2 DEF AbsSnap
    <2>5. AbsBefore'[u] = AbsBefore[u]
      BY <2>3 DEF AbsBefore
    <2>6. QED
      BY <2>4, <2>5
  <1>8. start'[t] = counter /\ counter \in Nat
    BY <1>1, <1>2, MaxTsAssumption DEF TMTypeOK
  <1>9. AbsBefore'[t] = {u \in Txn : AbsStatus[u] = "committed"}
    <2>1. \A u \in Txn : Committed(u)' /\ commit'[u] < start'[t] <=> AbsStatus[u] = "committed"
      BY <1>1, <1>2, <1>3, <1>8, CommittedTimes, StatusFacts
    <2>2. QED
      BY <2>1 DEF AbsBefore
  <1>10. AbsSnap'[t] = AbsStore
    <2>1. ASSUME NEW n \in Node
          PROVE  Committed(Owner(n))' /\ commit'[Owner(n)] <= start'[t]
                   <=> Committed(Owner(n)) /\ commit[Owner(n)] <= MaxTs
      <3>1. Owner(n) \in Txn
        BY DEF Node, Owner
      <3>2. Committed(Owner(n)) => commit[Owner(n)] <= counter /\ commit[Owner(n)] <= MaxTs
        BY <1>1, <1>8, <3>1, CommittedTimes
      <3>3. QED
        BY <1>2, <1>3, <1>8, <3>1, <3>2
    <2>2. Settled(start[t])' = Settled(MaxTs)
      BY <2>1 DEF Settled, Node, Owner
    <2>3. \A k \in Key : Newest(k, start[t])' = Newest(k, MaxTs)
      BY <1>2, <2>2 DEF Newest, FirstValue, ValueOf, RedoOf
    <2>4. QED
      BY <2>3 DEF AbsSnap, AbsStore
  <1>11. AbsSnap' = [AbsSnap EXCEPT ![t] = AbsStore]
    BY <1>7, <1>10 DEF AbsSnap
  <1>12. AbsBefore' = [AbsBefore EXCEPT ![t] = {u \in Txn : AbsStatus[u] = "committed"}]
    BY <1>7, <1>9 DEF AbsBefore
  <1>13. QED
    BY <1>2, <1>4, <1>5, <1>6, <1>11, <1>12 DEF SI!Begin

\* The end of the critical section of commit puts all writes into the store.
LEMMA CommitMapped ==
  ASSUME HMTIndInv, RefInv, [Next]_vars, NEW t \in Txn, FinishCommitTxn(t)
  PROVE  SI!Commit(t)
  <1>1. TMIndInv /\ TMTypeOK /\ ShapeInv /\ LinkedInv /\ OrderInv
    BY IndParts DEF RefInv
  <1>2. /\ stage[t] = "stamping" /\ stage'[t] \in {"logging", "committed"}
        /\ \A u \in Txn : u # t => stage'[u] = stage[u]
        /\ UNCHANGED <<start, commit, chain, redo, reply>>
    BY <1>1 DEF FinishCommitTxn, FinishCommit, hmtVars, TMTypeOK
  <1>3. \A u \in Txn : Committed(u)' <=> Committed(u) \/ u = t
    BY <1>2 DEF Committed
  <1>4. AbsStatus[t] = "active" /\ AbsStatus' = [AbsStatus EXCEPT ![t] = "committed"]
    <2>1. AbsStatus[t] = "active"
      BY <1>1, <1>2, StatusFacts
    <2>2. StatusOf(t)' = "committed" /\ \A u \in Txn : u # t => StatusOf(u)' = StatusOf(u)
      BY <1>1, <1>2 DEF StatusOf, InProgress, Committed, TMTypeOK
    <2>3. QED
      BY <2>1, <2>2 DEF AbsStatus
  <1>5. AbsWset' = AbsWset
    BY <1>2, AbsWsetKeeps
  <1>6. AbsSnap' = AbsSnap
    <2>1. \A u \in Txn, k \in Key : Newest(k, start[u])' = Newest(k, start[u])
      BY <1>2, SnapStays DEF RefInv
    <2>2. QED
      BY <2>1 DEF AbsSnap
  <1>7. AbsBefore' = AbsBefore
    <2>1. \A u \in Txn : {v \in Txn : Committed(v)' /\ commit'[v] < start'[u]}
                           = {v \in Txn : Committed(v) /\ commit[v] < start[u]}
      BY <1>2, EarlierStays DEF RefInv
    <2>2. QED
      BY <2>1 DEF AbsBefore
  <1>8. \A n \in Node : n \in Settled(MaxTs)' <=> n \in Settled(MaxTs) \/ Owner(n) = t
    <2>1. commit[t] <= MaxTs
      BY <1>1, MaxTsAssumption DEF TMTypeOK, Timestamp
    <2>2. \A n \in Node : Owner(n) \in Txn
      BY DEF Node, Owner
    <2>3. QED
      BY <1>2, <1>3, <2>1, <2>2 DEF Settled, Node, Owner
  <1>9. ASSUME NEW k \in Key
        PROVE  Newest(k, MaxTs)' = IF k \in DOMAIN AbsWset[t] THEN AbsWset[t][k] ELSE AbsStore[k]
    <2>1. Newest(k, MaxTs)' = FirstValue(chain[k], Settled(MaxTs)')
      BY <1>2 DEF Newest, FirstValue, ValueOf, RedoOf
    <2>2. CASE Writes(t, k) # {}
      <3>1. InProgress(t)
        BY <1>2 DEF InProgress
      <3>2. First(chain[k], Settled(MaxTs)') = LastWrite(t, k) /\ LastWrite(t, k) \in Node
        BY <1>1, <1>8, <2>2, <3>1, LastIsFirst
      <3>3. LastWrite(t, k) # Absent
        BY <3>2, ResultsAreNoNodes
      <3>4. QED
        BY <2>1, <2>2, <3>2, <3>3, WsetFacts DEF FirstValue
    <2>3. CASE Writes(t, k) = {}
      <3>1. /\ chain[k] \in Seq(Node)
            /\ \A i \in DOMAIN chain[k] : chain[k][i] \in Node
        BY <1>1, ChainShape
      <3>2. ASSUME NEW i \in DOMAIN chain[k] PROVE Owner(chain[k][i]) # t
        BY <1>1, <2>3 DEF LinkedInv, Writes, Owner
      <3>3. \A i \in DOMAIN chain[k] : chain[k][i] \in Settled(MaxTs)' <=> chain[k][i] \in Settled(MaxTs)
        BY <1>8, <3>1, <3>2
      <3>4. First(chain[k], Settled(MaxTs)') = First(chain[k], Settled(MaxTs))
        BY <3>1, <3>3, FirstSame
      <3>5. AbsStore[k] = FirstValue(chain[k], Settled(MaxTs))
        BY DEF AbsStore, Newest
      <3>6. QED
        BY <2>1, <2>3, <3>4, <3>5, WsetFacts DEF FirstValue
    <2>4. QED
      BY <2>2, <2>3
  <1>10. AbsStore' = [k \in Key |-> IF k \in DOMAIN AbsWset[t] THEN AbsWset[t][k] ELSE AbsStore[k]]
    BY <1>9 DEF AbsStore
  <1>11. QED
    BY <1>2, <1>4, <1>5, <1>6, <1>7, <1>10 DEF SI!Commit

\* The abstract transaction is aborted once it has left xips.
LEMMA AbortMapped ==
  ASSUME HMTIndInv, RefInv, [Next]_vars, NEW t \in Txn, BeginAbortTxn(t)
  PROVE  SI!Abort(t)
  <1>1. TMTypeOK /\ ShapeInv
    BY IndParts
  <1>2. /\ stage[t] = "active" /\ stage'[t] = "undoing"
        /\ \A u \in Txn : u # t => stage'[u] = stage[u]
        /\ UNCHANGED <<start, chain, redo, reply>>
    BY <1>1, BeginAbortShape
  <1>3. AbsStatus[t] = "active" /\ AbsStatus' = [AbsStatus EXCEPT ![t] = "aborted"]
    <2>1. AbsStatus[t] = "active"
      BY <1>1, <1>2, StatusFacts
    <2>2. StatusOf(t)' = "aborted" /\ \A u \in Txn : u # t => StatusOf(u)' = StatusOf(u)
      BY <1>1, <1>2 DEF StatusOf, InProgress, Committed, TMTypeOK
    <2>3. QED
      BY <2>1, <2>2 DEF AbsStatus
  <1>4. \A u \in Txn : Committed(u)' => Committed(u)
    BY <1>2 DEF Committed
  <1>5. AbsStore' = AbsStore /\ AbsSnap' = AbsSnap /\ AbsBefore' = AbsBefore /\ AbsWset' = AbsWset
    BY <1>2, <1>4, AbsKeeps, AbsWsetKeeps DEF RefInv
  <1>6. QED
    BY <1>2, <1>3, <1>5 DEF SI!Abort

\* Drawing a commit timestamp, stamping, logging and rolling back are not seen.
LEMMA QuietMapped ==
  ASSUME HMTIndInv, RefInv, [Next]_vars, NEW t \in Txn,
         \/ BeginCommitTxn(t) \/ LogCommitTxn(t) \/ Stamp(t)
         \/ RollbackLoad(t) \/ RollbackStep(t) \/ FinishAbortTxn(t)
  PROVE  UNCHANGED SI!vars
  <1>1. TMTypeOK /\ ShapeInv
    BY IndParts
  <1>2. /\ UNCHANGED <<start, redo, reply>>
        /\ \A u \in Txn : u # t => stage'[u] = stage[u]
        /\ \/ stage'[t] = stage[t]
           \/ stage[t] = "active" /\ stage'[t] = "stamping"
           \/ stage[t] = "logging" /\ stage'[t] = "committed"
           \/ stage[t] = "undoing" /\ stage'[t] = "aborted"
    <2>1. CASE BeginCommitTxn(t) \/ LogCommitTxn(t)
      BY <1>1, <2>1 DEF BeginCommitTxn, BeginCommit, LogCommitTxn, LogCommit, hmtVars, TMTypeOK
    <2>2. CASE Stamp(t)
      BY <1>1, <2>2, StampShape DEF tmVars
    <2>3. CASE RollbackLoad(t) \/ RollbackStep(t)
      BY <1>1, <2>3, RollbackLoadShape, RollbackStepShape DEF tmVars
    <2>4. CASE FinishAbortTxn(t)
      BY <1>1, <2>4, FinishAbortShape
    <2>5. QED
      BY <2>1, <2>2, <2>3, <2>4
  <1>3. \A u \in Txn : StatusOf(u)' = StatusOf(u) /\ (Committed(u)' => Committed(u))
    <2>1. ASSUME NEW u \in Txn PROVE StatusOf(u)' = StatusOf(u) /\ (Committed(u)' => Committed(u))
      <3>1. CASE stage'[u] = stage[u]
        BY <3>1 DEF StatusOf, InProgress, Committed
      <3>2. CASE stage'[u] # stage[u]
        BY <1>2, <3>2 DEF StatusOf, InProgress, Committed
      <3>3. QED
        BY <3>1, <3>2
    <2>2. QED
      BY <2>1
  <1>4. AbsStatus' = AbsStatus
    BY <1>3 DEF AbsStatus
  <1>5. AbsStore' = AbsStore /\ AbsSnap' = AbsSnap /\ AbsBefore' = AbsBefore /\ AbsWset' = AbsWset
    BY <1>2, <1>3, AbsKeeps, AbsWsetKeeps DEF RefInv
  <1>6. QED
    BY <1>2, <1>4, <1>5 DEF SI!vars

\* The writes with a new value of k.
With(writes, k, v) == [j \in DOMAIN writes \union {k} |-> IF j = k THEN v ELSE writes[j]]

\* A new redo node adds the value of its key to the writes.
LEMMA WsetGrows ==
  ASSUME ShapeInv, NEW t \in Txn, NEW r \in Redo, NEW k, r.key = k,
         redo'[t] = Append(redo[t], r), \A u \in Txn : u # t => redo'[u] = redo[u],
         NEW v, v = IF r.record = "Insert" THEN <<t, Len(redo[t]) + 1>> ELSE Absent
  PROVE  AbsWset'[t] = With(AbsWset[t], k, v) /\ \A u \in Txn : u # t => AbsWset'[u] = AbsWset[u]
  <1> DEFINE m == Len(redo[t]) + 1
  <1>1. /\ redo[t] \in Seq(Redo) /\ Len(redo[t]) \in Nat /\ DOMAIN redo[t] = 1 .. Len(redo[t])
    BY RedoShape
  <1>2. /\ redo'[t] = Append(redo[t], r) /\ \A u \in Txn : u # t => redo'[u] = redo[u]
        /\ redo'[t] \in Seq(Redo) /\ Len(redo'[t]) = m /\ DOMAIN redo'[t] = 1 .. m
        /\ \A i \in 1 .. Len(redo[t]) : redo'[t][i] = redo[t][i]
        /\ redo'[t][m] = r
    <2>1. redo'[t] = Append(redo[t], r) /\ \A u \in Txn : u # t => redo'[u] = redo[u]
      OBVIOUS
    <2>2. /\ Append(redo[t], r) \in Seq(Redo) /\ Len(Append(redo[t], r)) = m
          /\ \A i \in 1 .. Len(redo[t]) : Append(redo[t], r)[i] = redo[t][i]
          /\ Append(redo[t], r)[m] = r
      BY <1>1, AppendFacts
    <2>3. DOMAIN Append(redo[t], r) = 1 .. m
      BY <2>2, LenProperties
    <2>4. QED
      BY <2>1, <2>2, <2>3
  <1>3. m \in Nat /\ 1 .. m = (1 .. Len(redo[t])) \union {m} /\ m \notin 1 .. Len(redo[t])
        /\ \A i \in 1 .. Len(redo[t]) : i <= m
    BY <1>1
  <1> HIDE DEF m
  <1>4. \A j : Writes(t, j)' = IF j = k THEN Writes(t, j) \union {m} ELSE Writes(t, j)
    BY <1>1, <1>2, <1>3 DEF Writes
  <1>5. MaxOfSet(Writes(t, k)') = m
    <2>1. Writes(t, k)' = Writes(t, k) \union {m} /\ Writes(t, k) \subseteq 1 .. Len(redo[t])
      BY <1>1, <1>4 DEF Writes
    <2>2. Writes(t, k)' \subseteq Nat /\ m \in Writes(t, k)' /\ \A i \in Writes(t, k)' : i <= m
      BY <1>3, <2>1
    <2>3. QED
      BY <2>2, MaxIs
  <1>6. ValueOf(LastWrite(t, k))' = v
    BY <1>2, <1>5 DEF m, ValueOf, RedoOf, LastWrite
  <1>7. ASSUME NEW j, j # k, Writes(t, j) # {}
        PROVE  ValueOf(LastWrite(t, j))' = AbsWset[t][j]
    <2>1. Writes(t, j)' = Writes(t, j)
      BY <1>4, <1>7
    <2>2. Writes(t, j) \subseteq 1 .. Len(redo[t])
      BY <1>1 DEF Writes
    <2>3. MaxOfSet(Writes(t, j)) \in 1 .. Len(redo[t])
      BY <1>1, <1>7, <2>2, GreatestExists
    <2>4. redo'[t][MaxOfSet(Writes(t, j))] = redo[t][MaxOfSet(Writes(t, j))]
      BY <1>2, <2>3
    <2>5. ValueOf(LastWrite(t, j))' = ValueOf(LastWrite(t, j))
      BY <2>1, <2>4 DEF ValueOf, RedoOf, LastWrite
    <2>6. QED
      BY <1>7, <2>5, WsetFacts
  <1>8. \A j : j \in {redo'[t][i].key : i \in DOMAIN redo'[t]} <=> j \in DOMAIN AbsWset[t] \union {k}
    <2>1. \A j : j \in {redo'[t][i].key : i \in DOMAIN redo'[t]} <=> Writes(t, j)' # {}
      BY DEF Writes
    <2>2. \A j : Writes(t, j)' # {} <=> j = k \/ Writes(t, j) # {}
      BY <1>4
    <2>3. QED
      BY <2>1, <2>2, WsetFacts
  <1>9. \A j \in DOMAIN AbsWset[t] \union {k} :
          ValueOf(LastWrite(t, j))' = IF j = k THEN v ELSE AbsWset[t][j]
    BY <1>6, <1>7, WsetFacts
  <1>10. AbsWset'[t] = With(AbsWset[t], k, v)
    <2>1. {redo'[t][i].key : i \in DOMAIN redo'[t]} = DOMAIN AbsWset[t] \union {k}
      BY <1>8
    <2>2. AbsWset'[t] = [j \in {redo'[t][i].key : i \in DOMAIN redo'[t]} |-> ValueOf(LastWrite(t, j))']
      BY DEF AbsWset
    <2>3. QED
      BY <1>9, <2>1, <2>2 DEF With
  <1>11. \A u \in Txn : u # t => AbsWset'[u] = AbsWset[u]
    BY <1>2, WsetStays
  <1>12. QED
    BY <1>10, <1>11

\* A step of an operation that neither writes nor returns is not seen.
LEMMA UnseenStep ==
  ASSUME HMTIndInv, RefInv, [Next]_vars, UNCHANGED tmVars
  PROVE  /\ AbsStore' = AbsStore /\ AbsSnap' = AbsSnap /\ AbsBefore' = AbsBefore
         /\ AbsStatus' = AbsStatus
         /\ redo' = redo => AbsWset' = AbsWset
         /\ redo' = redo /\ reply' = reply => UNCHANGED SI!vars
  <1>1. start' = start /\ stage' = stage
    BY DEF tmVars
  <1>2. AbsStore' = AbsStore /\ AbsSnap' = AbsSnap /\ AbsBefore' = AbsBefore
    BY <1>1, AbsKeeps DEF Committed, RefInv
  <1>3. AbsStatus' = AbsStatus
    BY <1>1 DEF AbsStatus, StatusOf, InProgress, Committed
  <1>4. redo' = redo => AbsWset' = AbsWset
    BY AbsWsetKeeps
  <1>5. QED
    BY <1>2, <1>3, <1>4 DEF SI!vars

\* The head that an operation has found free of conflict is what it sees.
LEMMA FreeHeadIsSeen ==
  ASSUME HMTIndInv, RefInv, NEW t \in Txn, stage[t] = "active",
         NEW s \in Seq(Node), s # << >>, s[1][2] \in DOMAIN redo[s[1][1]], ~ WWConflict(t, s[1])
  PROVE  /\ First(s, Seen(t)) = s[1] /\ s[1] # Absent /\ s[1] \in Node
         /\ FirstValue(s, Seen(t)) = IF IsPresent(s) THEN s[1] ELSE Absent
  <1>1. TMTypeOK /\ StampsInv
    BY IndParts DEF RefInv
  <1>2. s[1] \in Node /\ Head(s) = s[1] /\ Owner(s[1]) \in Txn
    BY PopFacts DEF Node, Owner
  <1>3. Visible(t, s[1])
    <2>1. commit[Owner(s[1])] \in Nat /\ start[t] \in Nat
      BY <1>1, <1>2, MaxTsAssumption DEF TMTypeOK, Timestamp
    <2>2. QED
      BY <2>1 DEF WWConflict, Visible
  <1>4. s[1] \in Seen(t)
    BY <1>1, <1>2, <1>3, VisibleIsSeen
  <1>5. First(s, Seen(t)) = s[1] /\ s[1] # Absent
    BY <1>2, <1>4, FirstTop, ResultsAreNoNodes
  <1>6. QED
    BY <1>2, <1>5 DEF FirstValue, ValueOf, IsPresent

\* The compare_exchange that succeeds is the abstract write; one that fails is
\* not seen.
LEMMA CasMapped ==
  ASSUME HMTIndInv, RefInv, [Next]_vars, NEW t \in Txn, Cas(t)
  PROVE  SI!Next \/ UNCHANGED SI!vars
  <1> DEFINE c == call[t]
             k == c.key
             m == Len(redo[t]) + 1
             r == [key |-> k, record |-> IF c.op = "delete" THEN "Delete" ELSE "Insert"]
             v == IF r.record = "Insert" THEN <<t, m>> ELSE Absent
             result == IF c.op = "update" THEN c.value ELSE Done
  <1>1. /\ TMIndInv /\ TMTypeOK /\ ShapeInv /\ RoomInv /\ TimesInv /\ LinkedInv /\ KeptInv
        /\ NodesInv /\ RivalInv
    BY IndParts DEF HMTIndInv
  <1>2. /\ c \in TableCall /\ c.pc = "cas" /\ stage[t] = "active" /\ UNCHANGED <<tmVars, stamped>>
        /\ Linked(t) \/ call'[t] \in TableCall
    BY <1>1, CasShape
  <1>3. /\ c.op \in {"get", "put", "update", "delete"} /\ k \in Key
        /\ c.head \in Seq(Node) /\ c.op # "get" /\ Len(redo[t]) < MaxWrites /\ Loaded(t, c)
    BY <1>1, <1>2, CallFields DEF RoomInv, RefInv, LoadedInv
  <1>4. CASE chain[k] # c.head
    BY <1>2, <1>4, UnseenStep DEF Cas
  <1>5. CASE chain[k] = c.head
    <2>1. /\ redo' = [redo EXCEPT ![t] = Append(redo[t], r)]
          /\ reply' = [reply EXCEPT ![t] = [op |-> c.op, key |-> k, result |-> result]]
          /\ call'[t] = NoCall
      BY <1>1, <1>5 DEF Cas, Return, ShapeInv
    <2>2. Linked(t)
      BY <1>2, <2>1 DEF NoCall, TableCall
    <2>3. r \in Redo /\ r.key = k /\ <<t, m>> \in Node
      BY <1>1, <1>3, NextNode DEF Redo
    <2>4. AbsWset' = [AbsWset EXCEPT ![t] = With(AbsWset[t], k, v)]
      <3>1. v = IF r.record = "Insert" THEN <<t, Len(redo[t]) + 1>> ELSE Absent
        OBVIOUS
      <3>2. redo'[t] = Append(redo[t], r) /\ \A u \in Txn : u # t => redo'[u] = redo[u]
        BY <1>1, <2>1 DEF ShapeInv
      <3> HIDE DEF v, r, k
      <3>3. AbsWset'[t] = With(AbsWset[t], k, v) /\ \A u \in Txn : u # t => AbsWset'[u] = AbsWset[u]
        BY <1>1, <2>3, <3>1, <3>2, WsetGrows
      <3>4. AbsWset = [u \in Txn |-> AbsWset[u]] /\ AbsWset' = [u \in Txn |-> AbsWset'[u]]
        BY DEF AbsWset
      <3>5. QED
        BY <3>3, <3>4
    <2>5. ASSUME NEW u \in Txn, SI!Rival(t, u, k) PROVE AbsStatus[u] = "aborted"
      <3>1. u # t /\ u \notin AbsBefore[t] /\ Writes(u, k) # {}
        BY <2>5, WsetFacts DEF SI!Rival
      <3>2. PICK i \in DOMAIN redo[u] : redo[u][i].key = k
        BY <3>1 DEF Writes
      <3> stage[u] \in {"undoing", "aborted"} => AbsStatus[u] = "aborted"
        BY <1>1, StatusFacts
      <3>3. SUFFICES ASSUME stage[u] \notin {"undoing", "aborted"} PROVE FALSE
        OBVIOUS
      <3>4. PICK p \in DOMAIN chain[k] : chain[k][p] = <<u, i>>
        <4>1. \E p \in DOMAIN chain[redo[u][i].key] : chain[redo[u][i].key][p] = <<u, i>>
          BY <1>1, <3>3 DEF KeptInv
        <4> HIDE DEF k
        <4>2. QED
          BY <3>2, <4>1
      <3>5. Owner(chain[k][p]) = u
        BY <3>4 DEF Owner
      <3>6. Committed(u) /\ commit[u] < start[t]
        BY <1>1, <2>2, <3>1, <3>4, <3>5, CasAgrees
      <3>7. QED
        BY <3>1, <3>6 DEF AbsBefore
    <2>6. SI!Write(t, k, v)
      <3>1. AbsStatus[t] = "active"
        BY <1>1, <1>2, StatusFacts
      <3>2. QED
        BY <1>2, <2>4, <2>5, <3>1, UnseenStep DEF SI!Write, With
    <2>7. SI!View(t, k) = FirstValue(chain[k], Seen(t))
      BY <1>2, <1>3, ViewIsSeen
    <2>8. CASE c.op = "put"
      <3>1. v \in Node /\ result = Done
        BY <2>3, <2>8
      <3>2. SI!Put(t, k)
        BY <2>1, <2>6, <2>8, <3>1 DEF SI!Put, SI!Answer
      <3>3. QED
        BY <1>3, <3>2 DEF SI!Next
    <2>9. CASE c.op = "update"
      <3>1. v \in Node /\ result = c.value
        BY <2>3, <2>9
      <3>2. /\ c.value = First(chain[k], Seen(t)) /\ c.value \in Node
            /\ RedoOf(c.value).record = "Insert"
        BY <1>2, <1>3, <2>9 DEF Loaded
      <3>3. SI!View(t, k) = c.value /\ c.value # Absent
        BY <2>7, <3>2, ResultsAreNoNodes DEF FirstValue, ValueOf
      <3>4. SI!Update(t, k)
        BY <2>1, <2>6, <2>9, <3>1, <3>3 DEF SI!Update, SI!Answer
      <3>5. QED
        BY <1>3, <3>4 DEF SI!Next
    <2>10. CASE c.op = "delete"
      <3>1. v = Absent /\ result = Done
        BY <2>10
      <3>2. /\ c.head # << >> /\ Written(c.head[1], k) /\ RedoOf(c.head[1]).record = "Insert"
        BY <1>2, <1>3, <2>10 DEF Loaded
      <3>3. ~ WWConflict(t, c.head[1])
        BY <1>1, <1>2, <1>3, <3>2 DEF RivalInv, CheckedInv
      <3>4. IsPresent(c.head)
        BY <1>3, <3>2, PopFacts DEF IsPresent
      <3>5. SI!View(t, k) # Absent
        BY <1>2, <1>3, <1>5, <2>7, <3>2, <3>3, <3>4, FreeHeadIsSeen DEF Written
      <3>6. SI!Delete(t, k)
        BY <2>1, <2>6, <2>10, <3>1, <3>5 DEF SI!Delete, SI!Answer
      <3>7. QED
        BY <1>3, <3>6 DEF SI!Next
    <2>11. QED
      BY <1>3, <2>8, <2>9, <2>10
  <1>6. QED
    BY <1>4, <1>5

\* A conflict at the head is a rival of the abstract transaction.
LEMMA ConflictIsRival ==
  ASSUME HMTIndInv, RefInv, NEW t \in Txn, stage[t] = "active", NEW k \in Key,
         NEW n \in Node, Written(n, k), WWConflict(t, n)
  PROVE  \E u \in Txn : SI!Rival(t, u, k)
  <1>1. TMTypeOK /\ StampedInv /\ StampsInv
    BY IndParts DEF RefInv
  <1> DEFINE u == Owner(n)
  <1>2. u \in Txn /\ u = n[1] /\ n = <<u, n[2]>>
    BY DEF Node, Owner
  <1>3. k \in DOMAIN AbsWset[u]
    BY <1>2, WsetFacts DEF Written, Writes
  <1>4. CASE n \in stamped
    <2>1. stage[u] \in InCommit
      BY <1>1, <1>2, <1>4 DEF StampedInv
    <2>2. u # t
      BY <2>1 DEF InCommit
    <2>3. commit[u] \in Nat /\ start[t] \in Nat /\ commit[u] > start[t]
      BY <1>1, <1>2, <1>4, MaxTsAssumption DEF TMTypeOK, Timestamp, WWConflict
    <2>4. u \notin AbsBefore[t]
      <3>1. ~ (commit[u] < start[t])
        BY <2>3
      <3>2. QED
        BY <3>1 DEF AbsBefore
    <2>5. QED
      BY <1>2, <1>3, <2>2, <2>4 DEF SI!Rival
  <1>5. CASE n \notin stamped
    <2>1. u # t
      BY <1>5 DEF WWConflict
    <2>2. ~ Committed(u)
      BY <1>1, <1>2, <1>5 DEF StampsInv, AllStamped, Written
    <2>3. u \notin AbsBefore[t]
      BY <2>2 DEF AbsBefore
    <2>4. QED
      BY <1>2, <1>3, <2>1, <2>3 DEF SI!Rival
  <1>6. QED
    BY <1>4, <1>5

\* An operation that returns without a write has an abstract answer.
LEMMA ReadingMapped ==
  ASSUME HMTIndInv, RefInv, [Next]_vars, NEW t \in Txn, Reading(t)
  PROVE  SI!Next \/ UNCHANGED SI!vars
  <1> DEFINE c == call[t]
             k == c.key
  <1>1. TMTypeOK /\ ShapeInv /\ RoomInv /\ StampsInv
    BY IndParts DEF RefInv
  <1>2. stage[t] = "active" /\ UNCHANGED <<tmVars, chain, stamped, redo>>
    BY <1>1, ReadingShape DEF Reading
  <1>3. /\ UNCHANGED <<AbsStore, AbsStatus, AbsSnap, AbsBefore, AbsWset>>
        /\ reply' = reply => UNCHANGED SI!vars
        /\ AbsStatus[t] = "active"
    BY <1>1, <1>2, UnseenStep, StatusFacts
  <1>4. ~ Idle(t) => /\ c \in TableCall /\ Loaded(t, c) /\ k \in Key
                     /\ c.head \in Seq(Node) /\ c.rest \in Seq(Node)
                     /\ c.op \in {"get", "put", "update", "delete"}
                     /\ SI!View(t, k) = FirstValue(chain[k], Seen(t))
    BY <1>1, <1>2, CallShape, CallFields, ViewIsSeen DEF RefInv, LoadedInv
  <1>5. CASE reply' = reply
    BY <1>3, <1>5
  <1>6. CASE Check(t) /\ reply' # reply
    <2> DEFINE conflict == c.head # << >> /\ WWConflict(t, Head(c.head))
    <2>1. ~ Idle(t) /\ c.pc = "check"
      BY <1>6 DEF Check, At
    <2>2. /\ c.op # "get"
          /\ c.head # << >> => Written(c.head[1], k) /\ Head(c.head) = c.head[1] /\ c.head[1] \in Node
          /\ First(c.head, Seen(t)) = First(chain[k], Seen(t))
      BY <1>1, <1>4, <2>1, PopFacts DEF RoomInv, Loaded
    <2>3. \/ conflict /\ Return(t, Conflict)
          \/ ~ conflict /\ c.op # "put" /\ ~ IsPresent(c.head) /\ Return(t, Absent)
      BY <1>6 DEF Check
    <2>4. CASE conflict /\ Return(t, Conflict)
      <3>1. \E u \in Txn : SI!Rival(t, u, k)
        BY <1>2, <1>4, <2>1, <2>2, <2>4, ConflictIsRival
      <3>2. SI!Answer(t, c.op, k, Conflict)
        BY <2>4 DEF Return, SI!Answer
      <3>3. SI!Refuse(t, k)
        BY <1>3, <1>4, <2>1, <2>2, <3>1, <3>2 DEF SI!Refuse
      <3>4. QED
        BY <1>4, <2>1, <3>3 DEF SI!Next
    <2>5. CASE ~ conflict /\ c.op # "put" /\ ~ IsPresent(c.head) /\ Return(t, Absent)
      <3>1. SI!View(t, k) = Absent
        <4>1. SI!View(t, k) = FirstValue(c.head, Seen(t))
          BY <1>4, <2>1, <2>2 DEF FirstValue
        <4>2. CASE c.head = << >>
          BY <4>1, <4>2, FirstEmpty DEF FirstValue
        <4>3. CASE c.head # << >>
          BY <1>2, <1>4, <2>1, <2>2, <2>5, <4>1, <4>3, FreeHeadIsSeen DEF Written
        <4>4. QED
          BY <4>2, <4>3
      <3>2. SI!Answer(t, c.op, k, Absent)
        BY <2>5 DEF Return, SI!Answer
      <3>3. SI!Miss(t, k)
        BY <1>3, <1>4, <2>1, <2>2, <2>5, <3>1, <3>2 DEF SI!Miss
      <3>4. QED
        BY <1>4, <2>1, <3>3 DEF SI!Next
    <2>6. QED
      BY <2>3, <2>4, <2>5
  <1>7. CASE Walk(t) /\ reply' # reply
    <2> DEFINE r == c.rest
               found == r # << >> /\ Visible(t, Head(r))
               value == IF found THEN ValueOf(Head(r)) ELSE Absent
    <2>1. ~ Idle(t) /\ c.pc = "walk"
      BY <1>7 DEF Walk, At
    <2>2. /\ r = << >> \/ found
          /\ ~ (c.op = "update" /\ value # Absent)
          /\ Return(t, value)
      BY <1>7 DEF Walk
    <2>3. /\ \A i \in DOMAIN r : Written(r[i], k)
          /\ First(r, Seen(t)) = First(chain[k], Seen(t))
          /\ c.op \in {"get", "update"}
      BY <1>4, <2>1 DEF Loaded
    <2>4. SI!View(t, k) = value
      <3>1. SI!View(t, k) = FirstValue(r, Seen(t))
        BY <1>4, <2>1, <2>3 DEF FirstValue
      <3>2. CASE r = << >>
        BY <3>1, <3>2, FirstEmpty DEF FirstValue
      <3>3. CASE r # << >>
        <4>1. Head(r) = r[1] /\ r[1] \in Node /\ 1 \in DOMAIN r
          BY <1>4, <2>1, <3>3, PopFacts, LenProperties
        <4>2. r[1] \in Seen(t)
          BY <1>1, <1>2, <2>2, <2>3, <3>3, <4>1, VisibleIsSeen DEF Written
        <4>3. First(r, Seen(t)) = r[1] /\ r[1] # Absent
          BY <1>4, <2>1, <3>3, <4>1, <4>2, FirstTop, ResultsAreNoNodes
        <4>4. QED
          BY <2>2, <3>1, <3>3, <4>1, <4>3 DEF FirstValue
      <3>4. QED
        BY <3>2, <3>3
    <2>5. SI!Answer(t, c.op, k, value)
      BY <2>2 DEF Return, SI!Answer
    <2> HIDE DEF value
    <2>6. CASE c.op = "get"
      <3>1. SI!Get(t, k)
        BY <1>3, <2>4, <2>5, <2>6 DEF SI!Get
      <3>2. QED
        BY <1>4, <2>1, <3>1 DEF SI!Next
    <2>7. CASE c.op = "update"
      <3>1. SI!Miss(t, k)
        BY <1>3, <2>2, <2>4, <2>5, <2>7 DEF SI!Miss
      <3>2. QED
        BY <1>4, <2>1, <3>1 DEF SI!Next
    <2>8. QED
      BY <2>3, <2>6, <2>7
  <1>8. QED
    BY <1>5, <1>6, <1>7 DEF Reading, Call, Reload, ReadForUpdate

\* Every step of the table is a step of SnapshotIsolation or not seen there.
LEMMA StepMapped ==
  ASSUME HMTIndInv, RefInv, [Next]_vars
  PROVE  SI!Next \/ UNCHANGED SI!vars
  <1>1. CASE UNCHANGED vars
    <2>1. UNCHANGED <<tmVars, redo, reply>>
      BY <1>1 DEF vars, tmVars
    <2>2. QED
      BY <2>1, UnseenStep
  <1>2. ASSUME NEW t \in Txn, Continue(t) \/ Invoke(t)
        PROVE  SI!Next \/ UNCHANGED SI!vars
    <2>1. CASE Reading(t)
      BY <2>1, ReadingMapped
    <2>2. CASE Cas(t)
      BY <2>2, CasMapped
    <2>3. CASE StartTxn(t)
      BY <2>3, StartMapped DEF SI!Next
    <2>4. CASE FinishCommitTxn(t)
      BY <2>4, CommitMapped DEF SI!Next
    <2>5. CASE BeginAbortTxn(t)
      BY <2>5, AbortMapped DEF SI!Next
    <2>6. CASE \/ BeginCommitTxn(t) \/ LogCommitTxn(t) \/ Stamp(t)
               \/ RollbackLoad(t) \/ RollbackStep(t) \/ FinishAbortTxn(t)
      BY <2>6, QuietMapped
    <2>7. QED
      BY <1>2, <2>1, <2>2, <2>3, <2>4, <2>5, <2>6, Steps DEF ManagerAction
  <1>3. QED
    BY <1>1, <1>2 DEF Next

\* The empty table is the empty store.
LEMMA InitMapped == Init => SI!Init
  <1> SUFFICES ASSUME Init PROVE SI!Init
    OBVIOUS
  <1>1. /\ \A k \in Key : chain[k] = << >>
        /\ \A t \in Txn : redo[t] = << >> /\ stage[t] = "idle"
        /\ reply = [t \in Txn |-> NoReply]
    BY DEF Init, TMInit
  <1>2. ASSUME NEW k \in Key, NEW b PROVE Newest(k, b) = Absent
    BY <1>1, FirstEmpty DEF Newest, FirstValue
  <1>3. AbsStore = [k \in Key |-> Absent] /\ AbsSnap = [t \in Txn |-> [k \in Key |-> Absent]]
    BY <1>2 DEF AbsStore, AbsSnap
  <1>4. AbsStatus = [t \in Txn |-> "idle"]
    <2>1. \A t \in Txn : StatusOf(t) = "idle"
      BY <1>1 DEF StatusOf, InProgress, Committed
    <2>2. QED
      BY <2>1 DEF AbsStatus
  <1>5. AbsBefore = [t \in Txn |-> {}]
    BY <1>1 DEF AbsBefore, Committed
  <1>6. AbsWset = [t \in Txn |-> [k \in {} |-> Absent]]
    <2>1. \A t \in Txn : {redo[t][i].key : i \in DOMAIN redo[t]} = {}
      <3>1. DOMAIN << >> = {}
        OBVIOUS
      <3>2. QED
        BY <1>1, <3>1
    <2>2. \A t \in Txn : AbsWset[t] = [k \in {} |-> Absent]
      BY <2>1 DEF AbsWset
    <2>3. AbsWset = [t \in Txn |-> AbsWset[t]]
      BY DEF AbsWset
    <2> HIDE DEF AbsWset
    <2>4. QED
      BY <2>2, <2>3
  <1>7. QED
    BY <1>1, <1>3, <1>4, <1>5, <1>6 DEF SI!Init, SI!NoReply, NoReply

\* The lock-free table, with the manager that stamps and rolls back, gives its
\* transactions snapshot isolation: repeatable reads of the store as it was at
\* their start, first-updater-wins with no refusal without a rival, and commits
\* that appear at once.
THEOREM TableIsSnapshotIsolated == Spec => ImplementsSnapshotIsolation
  <1>1. Init => SI!Init
    BY InitMapped
  <1>2. HMTIndInv /\ RefInv /\ [Next]_vars => [SI!Next]_SI!vars
    BY StepMapped
  <1>3. Spec => [](HMTIndInv /\ RefInv)
    BY TableInvariance, LoadedStaysSeen, PTL
  <1>4. QED
    BY <1>1, <1>2, <1>3, PTL DEF Spec, ImplementsSnapshotIsolation, SI!Spec

=============================================================================
