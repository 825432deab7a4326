------------------------- MODULE SnapshotIsolation --------------------------
(***************************************************************************)
(* What the in-memory table promises to normal transactions: every         *)
(* operation of a transaction sees the store as it was when the            *)
(* transaction started plus its own writes, the writes of a transaction    *)
(* appear all at once, and of two concurrent transactions that write the   *)
(* same key at most one succeeds (the first updater).  There are no        *)
(* versions, timestamps or locks here; HashMemTable implements it.         *)
(***************************************************************************)
CONSTANTS
  Txn,
  Key,
  Value,
  Absent,   \* the result of reading a key that has no value
  Done,     \* the result of a successful put or delete
  Conflict  \* the result of a write that must not succeed

VARIABLES
  store,    \* the committed value of every key
  status,   \* of every transaction: "idle", "active", "committed", "aborted"
  snap,     \* the store at the start of a transaction
  before,   \* the transactions that had committed by then
  wset,     \* what a transaction has written: a function on some of the keys
  reply     \* the last completed operation of a transaction and its result

vars == <<store, status, snap, before, wset, reply>>

ValueOrAbsent == Value \union {Absent}
NoReply == [op |-> "none"]

Init ==
  /\ store = [k \in Key |-> Absent]
  /\ status = [t \in Txn |-> "idle"]
  /\ snap = [t \in Txn |-> [k \in Key |-> Absent]]
  /\ before = [t \in Txn |-> {}]
  /\ wset = [t \in Txn |-> [k \in {} |-> Absent]]
  /\ reply = [t \in Txn |-> NoReply]

\* What t sees of k, and what t would leave there if it committed now.
View(t, k) == IF k \in DOMAIN wset[t] THEN wset[t][k] ELSE snap[t][k]

\* A transaction that may still get in the way of t on key k.
Rival(t, u, k) == u # t /\ u \notin before[t] /\ k \in DOMAIN wset[u]

Answer(t, op, k, result) ==
  reply' = [reply EXCEPT ![t] = [op |-> op, key |-> k, result |-> result]]

Begin(t) ==
  /\ status[t] = "idle"
  /\ status' = [status EXCEPT ![t] = "active"]
  /\ snap' = [snap EXCEPT ![t] = store]
  /\ before' = [before EXCEPT ![t] = {u \in Txn : status[u] = "committed"}]
  /\ UNCHANGED <<store, wset, reply>>

Get(t, k) ==
  /\ status[t] = "active"
  /\ Answer(t, "get", k, View(t, k))
  /\ UNCHANGED <<store, status, snap, before, wset>>

\* First updater wins: nobody concurrent has a pending or committed write.
Write(t, k, v) ==
  /\ status[t] = "active"
  /\ ~ \E u \in Txn : Rival(t, u, k) /\ status[u] # "aborted"
  /\ wset' = [wset EXCEPT ![t] = [j \in DOMAIN @ \union {k} |->
                                     IF j = k THEN v ELSE @[j]]]
  /\ UNCHANGED <<store, status, snap, before>>

Put(t, k) == \E v \in Value : Write(t, k, v) /\ Answer(t, "put", k, Done)

\* update hands the value it sees to the caller's function, and stores the
\* result; it fails on a key that has no value.
Update(t, k) ==
  /\ View(t, k) # Absent
  /\ \E v \in Value : Write(t, k, v) /\ Answer(t, "update", k, View(t, k))

Delete(t, k) ==
  /\ View(t, k) # Absent
  /\ Write(t, k, Absent)
  /\ Answer(t, "delete", k, Done)

Miss(t, k) ==
  /\ status[t] = "active"
  /\ View(t, k) = Absent
  /\ \E op \in {"update", "delete"} : Answer(t, op, k, Absent)
  /\ UNCHANGED <<store, status, snap, before, wset>>

\* A write is refused only for a reason: some transaction that had not
\* committed when t started has written the key.
Refuse(t, k) ==
  /\ status[t] = "active"
  /\ \E u \in Txn : Rival(t, u, k)
  /\ \E op \in {"put", "update", "delete"} : Answer(t, op, k, Conflict)
  /\ UNCHANGED <<store, status, snap, before, wset>>

Commit(t) ==
  /\ status[t] = "active"
  /\ status' = [status EXCEPT ![t] = "committed"]
  /\ store' = [k \in Key |-> IF k \in DOMAIN wset[t] THEN wset[t][k] ELSE store[k]]
  /\ UNCHANGED <<snap, before, wset, reply>>

Abort(t) ==
  /\ status[t] = "active"
  /\ status' = [status EXCEPT ![t] = "aborted"]
  /\ UNCHANGED <<store, snap, before, wset, reply>>

Next ==
  \E t \in Txn :
    \/ Begin(t) \/ Commit(t) \/ Abort(t)
    \/ \E k \in Key : \/ Get(t, k) \/ Put(t, k) \/ Update(t, k) \/ Delete(t, k)
                      \/ Miss(t, k) \/ Refuse(t, k)

Spec == Init /\ [][Next]_vars
=============================================================================
