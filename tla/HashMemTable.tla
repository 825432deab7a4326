---------------------------- MODULE HashMemTable ----------------------------
(***************************************************************************)
(* The lock-free multi-version table (memtable/hash_memtable.rs) as the    *)
(* transactions of the default build use it, composed with the transaction *)
(* manager that stamps and rolls back its versions.                        *)
(*                                                                         *)
(* An entry is an atomic pointer to a chain of redo nodes, newest first;   *)
(* the `next` of a published node does not change without garbage          *)
(* collection (MemTableGc), so a pointer to a node is the sequence of the  *)
(* nodes reachable from it, and the null pointer is << >>.  Every access   *)
(* to an entry or to the timestamp of a node is an action of its own;      *)
(* what a thread does between two of them belongs to the earlier one.      *)
(*                                                                         *)
(* A missing entry and one whose chain is null answer alike (update and    *)
(* delete return false, get returns None) and only put inserts entries, so *)
(* << >> stands for both.  A value is named by the node that holds it.     *)
(***************************************************************************)
EXTENDS TransactionManager, Sequences

CONSTANTS
  Key,
  MaxWrites,              \* bound: redo nodes of one transaction
  Absent, Done, Conflict  \* None or false, true, Err(TransactionAborted)

ASSUME MaxWritesAssumption == MaxWrites \in Nat
ASSUME ResultsDiffer == Absent # Done /\ Absent # Conflict /\ Done # Conflict

VARIABLES
  chain,    \* the version chain of every key
  stamped,  \* the nodes whose timestamp is a commit timestamp
  redo,     \* Transaction.redo_nodes, in the order of the writes
  call,     \* the table operation a transaction is in
  reply     \* its last completed operation and the result

hmtVars == <<chain, stamped, redo, call, reply>>
vars == <<counter, xips, completed, writer, cachedMin, stage, start, commit,
          chain, stamped, redo, call, reply>>

Node == Txn \X (1 .. MaxWrites)    \* the n-th write of a transaction
Owner(n) == n[1]
RedoOf(n) == redo[n[1]][n[2]]      \* RedoNode: key, Insert or Delete
ValueOf(n) == IF RedoOf(n).record = "Insert" THEN n ELSE Absent

ASSUME ResultsAreNoNodes == {Absent, Done, Conflict} \cap Node = {}

MinOfSet(S) == CHOOSE x \in S : \A y \in S : x <= y
MaxOfSet(S) == CHOOSE x \in S : \A y \in S : y <= x

NoCall == [op |-> "none"]
NoReply == [op |-> "none"]

Init ==
  /\ TMInit
  /\ chain = [k \in Key |-> << >>]
  /\ stamped = {}
  /\ redo = [t \in Txn |-> << >>]
  /\ call = [t \in Txn |-> NoCall]
  /\ reply = [t \in Txn |-> NoReply]

-----------------------------------------------------------------------------
(* The timestamp tests.  A node carries Uncommitted(start) of its owner    *)
(* until commit stores Commit(commit_ts); Timestamps of different types    *)
(* never meet in these tests.                                              *)

\* get_value: not skip_delta
Visible(t, n) ==
  IF n \in stamped THEN commit[Owner(n)] <= start[t] ELSE Owner(n) = t

\* check_ww_conflict, of the version at the head
WWConflict(t, n) ==
  IF n \in stamped THEN commit[Owner(n)] > start[t] ELSE Owner(n) # t

\* is_present, the tag of the pointer to the head
IsPresent(ptr) == ptr # << >> /\ RedoOf(Head(ptr)).record = "Insert"

-----------------------------------------------------------------------------
(* Table operations of an active transaction                               *)

Idle(t) == call[t] = NoCall

Return(t, result) ==
  /\ reply' = [reply EXCEPT ![t] =
                 [op |-> call[t].op, key |-> call[t].key, result |-> result]]
  /\ call' = [call EXCEPT ![t] = NoCall]

GoTo(t, pc) == call' = [call EXCEPT ![t].pc = pc]

\* Every operation starts by loading the head of the chain.  put, update and
\* delete keep it as the expected value of their compare_exchange; get walks
\* from it.
Call(t, op, k) ==
  /\ stage[t] = "active"
  /\ Idle(t)
  /\ op # "get" => Len(redo[t]) < MaxWrites
  /\ call' = [call EXCEPT ![t] =
                [op |-> op, key |-> k, pc |-> IF op = "get" THEN "walk" ELSE "check",
                 head |-> IF op = "get" THEN << >> ELSE chain[k],
                 rest |-> IF op = "get" THEN chain[k] ELSE << >>,
                 value |-> Absent]]
  /\ UNCHANGED <<tmVars, chain, stamped, redo, reply>>

At(t, pc) == stage[t] = "active" /\ ~ Idle(t) /\ call[t].pc = pc

\* Variants: the retry does not check the new head, or does not load it.
ReloadUnchecked(t) ==
  /\ At(t, "load")
  /\ call' = [call EXCEPT ![t].head = chain[call[t].key], ![t].pc = "cas"]
  /\ UNCHANGED <<tmVars, chain, stamped, redo, reply>>

ReloadStale(t) ==
  /\ At(t, "load")
  /\ GoTo(t, "check")
  /\ UNCHANGED <<tmVars, chain, stamped, redo, reply>>

\* The top of the retry loop, after a failed compare_exchange.
Reload(t) ==
  /\ At(t, "load")
  /\ call' = [call EXCEPT ![t].head = chain[call[t].key], ![t].pc = "check"]
  /\ UNCHANGED <<tmVars, chain, stamped, redo, reply>>

\* The timestamp of the loaded head is checked for a conflict, its tag for a
\* present value.
Check(t) ==
  /\ At(t, "check")
  /\ LET op == call[t].op
         head == call[t].head
         conflict == head # << >> /\ WWConflict(t, Head(head)) IN
     \/ conflict /\ Return(t, Conflict)
     \/ /\ ~ conflict
        /\ \/ op = "put" /\ GoTo(t, "cas") /\ UNCHANGED reply
           \/ op # "put" /\ ~ IsPresent(head) /\ Return(t, Absent)
           \/ op = "delete" /\ IsPresent(head) /\ GoTo(t, "cas") /\ UNCHANGED reply
           \/ op = "update" /\ IsPresent(head) /\ GoTo(t, "read") /\ UNCHANGED reply
  /\ UNCHANGED <<tmVars, chain, stamped, redo>>

\* update calls get_value, which loads the head again.
ReadForUpdate(t) ==
  /\ At(t, "read")
  /\ call' = [call EXCEPT ![t].rest = chain[call[t].key], ![t].pc = "walk"]
  /\ UNCHANGED <<tmVars, chain, stamped, redo, reply>>

\* One node of the loop of get_value.
Walk(t) ==
  /\ At(t, "walk")
  /\ LET rest == call[t].rest
         found == rest # << >> /\ Visible(t, Head(rest))
         value == IF found THEN ValueOf(Head(rest)) ELSE Absent IN
     \/ /\ rest # << >> /\ ~ found
        /\ call' = [call EXCEPT ![t].rest = Tail(rest)]
        /\ UNCHANGED reply
     \/ /\ ~ (rest # << >> /\ ~ found)
        /\ ~ (call[t].op = "update" /\ value # Absent)
        /\ Return(t, value)
     \/ /\ found /\ call[t].op = "update" /\ value # Absent
        /\ call' = [call EXCEPT ![t].value = value, ![t].rest = << >>, ![t].pc = "cas"]
        /\ UNCHANGED reply
  /\ UNCHANGED <<tmVars, chain, stamped, redo>>

\* Variant: a plain store.
CasBlind(t) ==
  /\ At(t, "cas")
  /\ LET op == call[t].op
         k == call[t].key
         node == <<t, Len(redo[t]) + 1>> IN
     /\ chain' = [chain EXCEPT ![k] = <<node>> \o call[t].head]
     /\ redo' = [redo EXCEPT ![t] = Append(@,
                   [key |-> k, record |-> IF op = "delete" THEN "Delete" ELSE "Insert"])]
     /\ Return(t, IF op = "update" THEN call[t].value ELSE Done)
  /\ UNCHANGED <<tmVars, stamped>>

\* compare_exchange of the head against the one loaded, then stage_log_record
\* and add_redo_node.
Cas(t) ==
  /\ At(t, "cas")
  /\ LET op == call[t].op
         k == call[t].key
         node == <<t, Len(redo[t]) + 1>> IN
     \/ /\ chain[k] = call[t].head
        /\ chain' = [chain EXCEPT ![k] = <<node>> \o @]
        /\ redo' = [redo EXCEPT ![t] = Append(@,
                      [key |-> k, record |-> IF op = "delete" THEN "Delete" ELSE "Insert"])]
        /\ Return(t, IF op = "update" THEN call[t].value ELSE Done)
     \/ /\ chain[k] # call[t].head
        /\ GoTo(t, "load")
        /\ UNCHANGED <<chain, redo, reply>>
  /\ UNCHANGED <<tmVars, stamped>>

-----------------------------------------------------------------------------
(* start, commit and abort                                                 *)

StartTxn(t) == Start(t) /\ UNCHANGED hmtVars

BeginCommitTxn(t) == Idle(t) /\ BeginCommit(t) /\ UNCHANGED hmtVars

\* Variant: off by one.
StampPrevious(t) ==
  /\ stage[t] = "stamping"
  /\ \E i \in DOMAIN redo[t] :
       /\ <<t, i>> \notin stamped
       /\ stamped' = stamped \union {<<t, i - 1>>}
  /\ UNCHANGED <<tmVars, chain, redo, call, reply>>

\* The loop over redo_nodes under the write lock, one store_timestamp a step.
Stamp(t) ==
  /\ stage[t] = "stamping"
  /\ \E i \in DOMAIN redo[t] :
       /\ <<t, i>> \notin stamped
       /\ \A j \in 1 .. i - 1 : <<t, j>> \in stamped
       /\ stamped' = stamped \union {<<t, i>>}
  /\ UNCHANGED <<tmVars, chain, redo, call, reply>>

\* Variant: the lock is released before the versions are stamped.
StampedOrNot(t) == redo[t] = redo[t]

AllStamped(t) == \A i \in DOMAIN redo[t] : <<t, i>> \in stamped

FinishCommitTxn(t) ==
  /\ AllStamped(t)
  /\ FinishCommit(t, redo[t] = << >>)
  /\ UNCHANGED hmtVars

LogCommitTxn(t) == LogCommit(t) /\ UNCHANGED hmtVars

\* abort drains redo_nodes and, out of xips, calls rollback for each.
BeginAbortTxn(t) ==
  /\ Idle(t)
  /\ BeginAbort(t)
  /\ call' = [call EXCEPT ![t] = [op |-> "rollback", next |-> 1, pc |-> "load", head |-> << >>]]
  /\ UNCHANGED <<chain, stamped, redo, reply>>

\* rollback loads the head of the chain of the next redo node ...
RollbackLoad(t) ==
  /\ stage[t] = "undoing"
  /\ call[t].pc = "load" /\ call[t].next \in DOMAIN redo[t]
  /\ call' = [call EXCEPT ![t].head = chain[redo[t][call[t].next].key], ![t].pc = "undo"]
  /\ UNCHANGED <<tmVars, chain, stamped, redo, reply>>

\* ... and, while it is a version of this transaction, stores its successor.
RollbackStep(t) ==
  /\ stage[t] = "undoing"
  /\ call[t].pc = "undo"
  /\ LET k == redo[t][call[t].next].key
         head == call[t].head
         own == head # << >> /\ Head(head) \notin stamped /\ Owner(Head(head)) = t IN
     \/ /\ own
        /\ chain' = [chain EXCEPT ![k] = Tail(head)]
        /\ call' = [call EXCEPT ![t].head = Tail(head)]
     \/ /\ ~ own
        /\ call' = [call EXCEPT ![t].next = @ + 1, ![t].pc = "load", ![t].head = << >>]
        /\ UNCHANGED chain
  /\ UNCHANGED <<tmVars, stamped, redo, reply>>

FinishAbortTxn(t) ==
  /\ FinishAbort(t)
  /\ call[t].next \notin DOMAIN redo[t]
  /\ call' = [call EXCEPT ![t] = NoCall]
  /\ UNCHANGED <<chain, stamped, redo, reply>>

-----------------------------------------------------------------------------
(* What a thread does once it is inside an operation.                      *)
Continue(t) ==
  \/ Reload(t) \/ Check(t) \/ ReadForUpdate(t) \/ Walk(t) \/ Cas(t)
  \/ Stamp(t) \/ FinishCommitTxn(t) \/ LogCommitTxn(t)
  \/ RollbackLoad(t) \/ RollbackStep(t) \/ FinishAbortTxn(t)

\* What its user decides.
Invoke(t) ==
  \/ StartTxn(t)
  \/ \E op \in {"get", "put", "update", "delete"}, k \in Key : Call(t, op, k)
  \/ BeginCommitTxn(t)
  \/ BeginAbortTxn(t)

Next == \E t \in Txn : Continue(t) \/ Invoke(t)

Spec == Init /\ [][Next]_vars

(***************************************************************************)
(* The operating system keeps running a thread that is inside an           *)
(* operation; nothing is assumed of what users decide.                     *)
(***************************************************************************)
FairSpec == Spec /\ \A t \in Txn : WF_vars(Continue(t))

-----------------------------------------------------------------------------
(* Properties                                                              *)

\* Type invariant of the table and of the operation each thread is in.
HMTTypeOK ==
  /\ TMTypeOK
  /\ chain \in [Key -> Seq(Node)]
  /\ stamped \subseteq Node
  /\ redo \in [Txn -> Seq([key : Key, record : {"Insert", "Delete"}])]
  /\ \A t \in Txn : /\ Len(redo[t]) <= MaxWrites
                    /\ call[t].op \in {"none", "get", "put", "update", "delete", "rollback"}
                    /\ reply[t].op \in {"none", "get", "put", "update", "delete"}

\* Transactions that wrote the same key did not overlap: of two versions in a
\* chain by different transactions the lower one was committed before the
\* upper one's transaction started.  This is what check_ww_conflict and the
\* compare_exchange are for; it makes uncommitted versions a prefix by one
\* owner and the committed ones descend.
WritersDoNotOverlap ==
  \A k \in Key : \A i, j \in DOMAIN chain[k] :
    LET upper == chain[k][i]
        lower == chain[k][j] IN
    i < j /\ Owner(upper) # Owner(lower)
      => Committed(Owner(lower)) /\ commit[Owner(lower)] < start[Owner(upper)]

\* Each version of a transaction that is committed or may still commit is in
\* the chain of its key, exactly once.
NoVersionLost ==
  \A t \in Txn : InProgress(t) \/ Committed(t) =>
    \A i \in DOMAIN redo[t] :
      \E p \in DOMAIN chain[redo[t][i].key] :
        {q \in DOMAIN chain[redo[t][i].key] : chain[redo[t][i].key][q] = <<t, i>>} = {p}

\* When abort returns none of the transaction's versions is left in the table.
RollbackIsComplete ==
  \A t \in Txn : stage[t] = "aborted" =>
    \A k \in Key : \A i \in DOMAIN chain[k] : Owner(chain[k][i]) # t

\* rollback, with its plain store, takes out all that the transaction wrote
\* and nothing that others write meanwhile.
ChainsExact == NoVersionLost /\ RollbackIsComplete

(***************************************************************************)
(* The table implements snapshot isolation.  The store holds, for every    *)
(* key, the value of the newest version by a transaction that has left the *)
(* critical section of commit, and the snapshot of a transaction the same  *)
(* below its start timestamp.                                              *)
(***************************************************************************)
Settled(bound) == {n \in Node : Committed(Owner(n)) /\ commit[Owner(n)] <= bound}

\* The first of the versions that belong to S.
Places(versions, S) == {i \in DOMAIN versions : versions[i] \in S}
First(versions, S) ==
  IF Places(versions, S) = {} THEN Absent ELSE versions[MinOfSet(Places(versions, S))]

FirstValue(versions, S) ==
  LET n == First(versions, S) IN IF n = Absent THEN Absent ELSE ValueOf(n)

Newest(k, bound) == FirstValue(chain[k], Settled(bound))

Writes(t, k) == {i \in DOMAIN redo[t] : redo[t][i].key = k}
LastWrite(t, k) == <<t, MaxOfSet(Writes(t, k))>>

StatusOf(t) ==
  CASE stage[t] = "idle" -> "idle"
    [] InProgress(t) -> "active"
    [] Committed(t) -> "committed"
    [] OTHER -> "aborted"

AbsStore == [k \in Key |-> Newest(k, MaxTs)]
AbsStatus == [t \in Txn |-> StatusOf(t)]
AbsSnap == [t \in Txn |-> [k \in Key |-> Newest(k, start[t])]]
AbsBefore == [t \in Txn |-> {u \in Txn : Committed(u) /\ commit[u] < start[t]}]
AbsWset == [t \in Txn |-> [k \in {redo[t][i].key : i \in DOMAIN redo[t]} |->
                             ValueOf(LastWrite(t, k))]]

SI == INSTANCE SnapshotIsolation WITH
  Value <- Node,
  store <- AbsStore, status <- AbsStatus, snap <- AbsSnap, before <- AbsBefore, wset <- AbsWset

\* Reads are repeatable and see no uncommitted or later value, writes are
\* refused exactly as first-updater-wins demands, commits are atomic.
ImplementsSnapshotIsolation == SI!Spec

\* No operation, commit or abort spins or blocks for good: the retry loops of
\* put, update and delete end, and so does the chase of rollback.
EveryCallReturns ==
  \A t \in Txn :
    ~ Idle(t) \/ stage[t] \in {"stamping", "logging", "undoing"}
      ~> Idle(t) /\ stage[t] \notin {"stamping", "logging", "undoing"}
=============================================================================
