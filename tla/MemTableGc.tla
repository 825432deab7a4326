----------------------------- MODULE MemTableGc -----------------------------
(***************************************************************************)
(* The life of one key: transactions that get, put, delete, commit and     *)
(* abort (db.rs, memtable/hash_memtable.rs, transaction_manager.rs) while  *)
(* flush jobs copy the key's version into an immutable table (snapshot),   *)
(* reclaim it from the memory table (gc) and move it to an sstable.        *)
(* snapshot and gc treat one entry after another and keep no state from    *)
(* one to the next but counters, so one key shows every interleaving at    *)
(* an entry; what a commit does across keys is in HashMemTable.            *)
(*                                                                         *)
(* The table is at pointer level here: an entry is an atomic pointer, a    *)
(* pointer carries the Abort tag besides its target (the Present tag is    *)
(* that of the target's record and is not repeated), and nodes have a next *)
(* pointer that gc cuts.  A thread that looked an entry up keeps it after  *)
(* it was removed from the hash table, so entries have an identity.        *)
(* Reclaiming a node (defer_destroy) only counts it in `retired`: epochs   *)
(* keep it readable for threads that already run.                          *)
(***************************************************************************)
EXTENDS TransactionManager, FiniteSets

CONSTANTS
  Job,           \* flush jobs (background_flush)
  Null,          \* the null pointer, also "no node"
  Scenarios,     \* situations to start from, see IsScenario
  MaxEntries     \* bound: entries created for the key

\* A situation: the commit timestamps of the versions that are there, the start
\* timestamps of the transactions in progress, the calls each transaction's
\* user makes, and how many transactions and flush jobs there are in all.
IsScenario(s) ==
  /\ s.versions \subseteq 1 .. MaxTs
  /\ DOMAIN s.starts \subseteq Txn /\ \A t \in DOMAIN s.starts : s.starts[t] \in 1 .. MaxTs
  /\ s.ops \in [Txn -> SUBSET {"get", "put", "delete", "end"}]
  /\ s.txns \in Nat /\ s.jobs \in Nat

ASSUME ScenariosAssumption == \A s \in Scenarios : IsScenario(s)

VARIABLES
  scenario,   \* the situation this behaviour started from
  entry,      \* the entry of the key in the hash table, 0 if none
  entries,    \* how many entries the key has had
  ptr,        \* the pointer in each entry
  next,       \* RedoNode.next
  record,     \* RedoNode.record of the node a transaction writes
  linked,     \* the transactions whose redo_nodes holds their node
  stamped,    \* the transactions whose node has its commit timestamp
  collected,  \* RedoNode.collected
  retired,    \* how often a node was handed to defer_destroy
  call,       \* the Db operation, or the rollback, each transaction is in
  reply,      \* its last get: the result, and whether it had written
  job,        \* progress and local variables of each flush job
  collectSet, \* bounds of the jobs that are collecting
  immSet,     \* immutable tables: [bound, node] for this key
  sstables,   \* level-0 tables: [bound, node] for this key
  vsetMin     \* VersionSet.min_xip

tableVars == <<entry, entries, ptr, next, collected, retired>>
txnVars == <<scenario, record, linked, stamped, call, reply>>
flushVars == <<scenario, job, collectSet, immSet, sstables, vsetMin>>
vars == <<tmVars, tableVars, txnVars, flushVars>>

\* Every transaction writes the key at most once; the node is named after it.
\* The initial versions are named by their commit timestamps.
InitVersions == scenario.versions
Node == UNION {s.versions : s \in Scenarios} \union Txn
Pointer == [to : Node \union {Null}, abort : BOOLEAN]
NullPtr == [to |-> Null, abort |-> FALSE]
To(n) == [to |-> n, abort |-> FALSE]

MaxOfSet(S) == CHOOSE x \in S : \A y \in S : y <= x
InitNext(n) ==
  LET older == {m \in InitVersions : m < n} IN
  IF older = {} THEN NullPtr ELSE To(MaxOfSet(older))

NoCall == [op |-> "none"]
NoReply == [result |-> Null, own |-> FALSE, op |-> "none"]
NoJob == [pc |-> "idle"]

Early == DOMAIN scenario.starts

\* A moment after the initial versions were committed and none was flushed.
Init ==
  /\ scenario \in Scenarios
  /\ xips = {scenario.starts[t] : t \in Early}
  /\ counter = 1 + MaxOfSet({0} \union InitVersions \union xips)
  /\ completed = MaxOfSet({0} \union {v - 1 : v \in InitVersions})
  /\ writer = NoTxn
  /\ cachedMin = InvalidTs
  /\ stage = [t \in Txn |-> IF t \in Early THEN "active" ELSE "idle"]
  /\ start = [t \in Txn |-> IF t \in Early THEN scenario.starts[t] ELSE InvalidTs]
  /\ commit = [t \in Txn |-> InvalidTs]
  /\ entry = (IF InitVersions = {} THEN 0 ELSE 1)
  /\ entries = entry
  /\ ptr = [e \in 1 .. MaxEntries |->
              IF e <= entry THEN To(MaxOfSet(InitVersions)) ELSE NullPtr]
  /\ next = [n \in Node |-> IF n \in InitVersions THEN InitNext(n) ELSE NullPtr]
  /\ record = [t \in Txn |-> "none"]
  /\ linked = {}
  /\ stamped = {}
  /\ collected = [n \in Node |-> InvalidTs]
  /\ retired = [n \in Node |-> 0]
  /\ call = [t \in Txn |-> NoCall]
  /\ reply = [t \in Txn |-> NoReply]
  /\ job = [f \in Job |-> NoJob]
  /\ collectSet = {}
  /\ immSet = {}
  /\ sstables = {}
  /\ vsetMin = InvalidTs

-----------------------------------------------------------------------------
(* Versions                                                                *)

IsCommitted(n) == n \in InitVersions \/ n \in stamped
CommitTs(n) == IF n \in Txn THEN commit[n] ELSE n
RecordOf(n) == IF n \in Txn THEN record[n] ELSE "Insert"
IsPresent(p) == p.to # Null /\ RecordOf(p.to) = "Insert"

Visible(t, n) == IF IsCommitted(n) THEN CommitTs(n) <= start[t] ELSE n = t
WWConflict(t, n) == IF IsCommitted(n) THEN CommitTs(n) > start[t] ELSE n # t
IsVersionSafeForGc(n, bound) == IsCommitted(n) /\ CommitTs(n) < bound

-----------------------------------------------------------------------------
(* Db::get, Db::put and Db::delete of a transaction                        *)

Idle(t) == call[t] = NoCall
At(t, op, pc) == stage[t] = "active" /\ call[t].op = op /\ call[t].pc = pc
GoTo(t, pc) == call' = [call EXCEPT ![t].pc = pc]
Finish(t) == call' = [call EXCEPT ![t] = NoCall]

\* The answer of a get, with what the transaction had written by then.
Answer(t, result) ==
  /\ reply' = [reply EXCEPT ![t] = [op |-> "get", result |-> result, own |-> t \in linked]]
  /\ Finish(t)

\* The lookup of the entry in the hash table.
Get(t) ==
  /\ stage[t] = "active" /\ Idle(t) /\ "get" \in scenario.ops[t]
  /\ call' = [call EXCEPT ![t] = [op |-> "get", pc |-> IF entry = 0 THEN "imm" ELSE "head",
                                  entry |-> entry, at |-> Null]]
  /\ UNCHANGED <<tmVars, tableVars, record, linked, stamped, reply, flushVars>>

\* get_value: an aborted entry has no value in the memory table.
GetHead(t) ==
  /\ At(t, "get", "head")
  /\ LET p == ptr[call[t].entry] IN
     call' = [call EXCEPT ![t].pc = IF p.abort THEN "imm" ELSE "walk", ![t].at = p.to]
  /\ UNCHANGED <<tmVars, tableVars, record, linked, stamped, reply, flushVars>>

\* One round of the loop of get_value.  A deleted key is None for Db::get too,
\* which goes on to the storage as for a key that is not there.
GetWalk(t) ==
  /\ At(t, "get", "walk")
  /\ LET n == call[t].at
         found == n # Null /\ Visible(t, n) IN
     \/ found /\ RecordOf(n) = "Insert" /\ Answer(t, n)
     \/ /\ n # Null /\ ~ found
        /\ call' = [call EXCEPT ![t].at = next[n].to]
        /\ UNCHANGED reply
     \/ /\ n = Null \/ (found /\ RecordOf(n) = "Delete")
        /\ GoTo(t, "imm")
        /\ UNCHANGED reply
  /\ UNCHANGED <<tmVars, tableVars, record, linked, stamped, flushVars>>

\* The newest of a set of tables that has a value for the key.
Valued(tables) == {x \in tables : x.node # Null /\ RecordOf(x.node) = "Insert"}
NewestOf(tables) == CHOOSE x \in tables : \A y \in tables : y.bound <= x.bound

\* get_from_storage: the immutable tables, under their lock ...
GetImm(t) ==
  /\ At(t, "get", "imm")
  /\ \/ Valued(immSet) # {} /\ Answer(t, NewestOf(Valued(immSet)).node)
     \/ Valued(immSet) = {} /\ GoTo(t, "sst") /\ UNCHANGED reply
  /\ UNCHANGED <<tmVars, tableVars, record, linked, stamped, flushVars>>

\* ... and the sstables of the current version.
GetSst(t) ==
  /\ At(t, "get", "sst")
  /\ Answer(t, IF Valued(sstables) = {} THEN Null ELSE NewestOf(Valued(sstables)).node)
  /\ UNCHANGED <<tmVars, tableVars, record, linked, stamped, flushVars>>

Write(e, pc) == [op |-> "write", pc |-> pc, entry |-> e, head |-> NullPtr]

\* put looks the entry up.
Put(t) ==
  /\ stage[t] = "active" /\ Idle(t) /\ t \notin linked /\ "put" \in scenario.ops[t]
  /\ record' = [record EXCEPT ![t] = "Insert"]
  /\ call' = [call EXCEPT ![t] = Write(entry, IF entry = 0 THEN "insert" ELSE "load")]
  /\ UNCHANGED <<tmVars, tableVars, linked, stamped, reply, flushVars>>

\* insert_with: an entry with a null pointer, unless one has come meanwhile.
PutInsert(t) ==
  /\ At(t, "write", "insert")
  /\ \/ entry # 0 /\ UNCHANGED <<entry, entries>>
     \/ /\ entry = 0 /\ entries < MaxEntries
        /\ entry' = entries + 1
        /\ entries' = entries + 1
  /\ GoTo(t, "lookup")
  /\ UNCHANGED <<tmVars, ptr, next, collected, retired, record, linked, stamped, reply, flushVars>>

\* The second lookup.  Without an entry the thread panics, and its transaction
\* stays in xips.
PutLookup(t) ==
  /\ At(t, "write", "lookup")
  /\ call' = [call EXCEPT ![t] = Write(entry, IF entry = 0 THEN "panicked" ELSE "load")]
  /\ UNCHANGED <<tmVars, tableVars, record, linked, stamped, reply, flushVars>>

\* delete gives up where there is no entry.
Delete(t) ==
  /\ stage[t] = "active" /\ Idle(t) /\ t \notin linked /\ "delete" \in scenario.ops[t]
  /\ entry # 0
  /\ record' = [record EXCEPT ![t] = "Delete"]
  /\ call' = [call EXCEPT ![t] = Write(entry, "load")]
  /\ UNCHANGED <<tmVars, tableVars, linked, stamped, reply, flushVars>>

WriteLoad(t) ==
  /\ At(t, "write", "load")
  /\ call' = [call EXCEPT ![t].head = ptr[call[t].entry], ![t].pc = "check"]
  /\ UNCHANGED <<tmVars, tableVars, record, linked, stamped, reply, flushVars>>

\* A conflict is an error, a delete of an absent key returns false; the new
\* node is linked in front of the loaded one, whose Abort tag is not looked at.
WriteCheck(t) ==
  /\ At(t, "write", "check")
  /\ LET head == call[t].head
         refused == \/ head.to # Null /\ WWConflict(t, head.to)
                    \/ record[t] = "Delete" /\ ~ IsPresent(head) IN
     \/ refused /\ Finish(t) /\ UNCHANGED next
     \/ ~ refused /\ GoTo(t, "cas") /\ next' = [next EXCEPT ![t] = head]
  /\ UNCHANGED <<tmVars, entry, entries, ptr, collected, retired, record, linked, stamped,
                 reply, flushVars>>

\* compare_exchange compares the tag with the target; add_redo_node follows.
WriteCas(t) ==
  /\ At(t, "write", "cas")
  /\ LET e == call[t].entry IN
     \/ /\ ptr[e] = call[t].head
        /\ ptr' = [ptr EXCEPT ![e] = To(t)]
        /\ linked' = linked \union {t}
        /\ Finish(t)
     \/ /\ ptr[e] # call[t].head
        /\ GoTo(t, "load")
        /\ UNCHANGED <<ptr, linked>>
  /\ UNCHANGED <<tmVars, entry, entries, next, collected, retired, record, stamped, reply,
                 flushVars>>

-----------------------------------------------------------------------------
(* start, commit and abort                                                 *)

StartTxn(t) ==
  /\ Cardinality({u \in Txn : stage[u] # "idle"}) < scenario.txns
  /\ Start(t)
  /\ UNCHANGED <<tableVars, txnVars, flushVars>>

BeginCommitTxn(t) ==
  Idle(t) /\ "end" \in scenario.ops[t] /\ BeginCommit(t) /\ UNCHANGED <<tableVars, txnVars, flushVars>>

\* Variant: stamps a node that is not in redo_nodes.
StampUnlinked(t) ==
  /\ stage[t] = "stamping" /\ t \notin stamped
  /\ stamped' = stamped \union {t}
  /\ UNCHANGED <<tmVars, tableVars, record, linked, call, reply, flushVars>>

Stamp(t) ==
  /\ stage[t] = "stamping" /\ t \in linked /\ t \notin stamped
  /\ stamped' = stamped \union {t}
  /\ UNCHANGED <<tmVars, tableVars, record, linked, call, reply, flushVars>>

FinishCommitTxn(t) ==
  /\ t \in linked => t \in stamped
  /\ FinishCommit(t, t \notin linked)
  /\ UNCHANGED <<tableVars, txnVars, flushVars>>

LogCommitTxn(t) == LogCommit(t) /\ UNCHANGED <<tableVars, txnVars, flushVars>>

\* abort leaves xips and calls rollback for the redo node, if there is one.
BeginAbortTxn(t) ==
  /\ Idle(t) /\ "end" \in scenario.ops[t]
  /\ BeginAbort(t)
  /\ call' = [call EXCEPT ![t] = [op |-> "rollback", pc |-> IF t \in linked THEN "lookup" ELSE "end",
                                  entry |-> 0, at |-> Null, next |-> NullPtr]]
  /\ UNCHANGED <<tableVars, record, linked, stamped, reply, flushVars>>

RollbackAt(t, pc) == stage[t] = "undoing" /\ call[t].pc = pc

RollbackLookup(t) ==
  /\ RollbackAt(t, "lookup")
  /\ call' = [call EXCEPT ![t].entry = entry, ![t].pc = IF entry = 0 THEN "end" ELSE "load"]
  /\ UNCHANGED <<tmVars, tableVars, record, linked, stamped, reply, flushVars>>

RollbackLoad(t) ==
  /\ RollbackAt(t, "load")
  /\ call' = [call EXCEPT ![t].at = ptr[call[t].entry].to, ![t].pc = "test"]
  /\ UNCHANGED <<tmVars, tableVars, record, linked, stamped, reply, flushVars>>

\* The loop condition, and the load of next.
RollbackTest(t) ==
  /\ RollbackAt(t, "test")
  /\ IF call[t].at = t /\ t \notin stamped
     THEN call' = [call EXCEPT ![t].next = next[t], ![t].pc = "unlink"]
     ELSE GoTo(t, "end")
  /\ UNCHANGED <<tmVars, tableVars, record, linked, stamped, reply, flushVars>>

\* A plain store of the successor, and the node is reclaimed.
RollbackUnlink(t) ==
  /\ RollbackAt(t, "unlink")
  /\ ptr' = [ptr EXCEPT ![call[t].entry] = call[t].next]
  /\ retired' = [retired EXCEPT ![t] = @ + 1]
  /\ call' = [call EXCEPT ![t].at = call[t].next.to, ![t].pc = "test"]
  /\ UNCHANGED <<tmVars, entry, entries, next, collected, record, linked, stamped, reply,
                 flushVars>>

FinishAbortTxn(t) ==
  /\ RollbackAt(t, "end")
  /\ FinishAbort(t)
  /\ Finish(t)
  /\ UNCHANGED <<tableVars, record, linked, stamped, reply, flushVars>>

-----------------------------------------------------------------------------
(* background_flush: collect                                               *)

JobAt(f, pc) == job[f].pc = pc
JobGoTo(f, pc) == job' = [job EXCEPT ![f].pc = pc]

\* min_xip, or a transaction of the job's own where none is in progress.
\* Transactions that start before that one does are in progress and are
\* covered by the first case, so the second is one step.
FlushMinXip(f) ==
  /\ JobAt(f, "idle") /\ Cardinality({g \in Job : ~ JobAt(g, "idle")}) < scenario.jobs
  /\ \/ MinXip
     \/ /\ xips = {} /\ Unlocked /\ counter + 1 < MaxTs
        /\ cachedMin' = counter
        /\ completed' = counter
        /\ counter' = counter + 2
        /\ UNCHANGED <<xips, writer, stage, start, commit>>
  /\ job' = [job EXCEPT ![f] = [pc |-> "register", bound |-> cachedMin', entry |-> 0, at |-> Null,
                                node |-> Null, head |-> NullPtr, below |-> Null,
                                reclaimable |-> FALSE, removed |-> FALSE, late |-> FALSE]]
  /\ UNCHANGED <<tableVars, txnVars, collectSet, immSet, sstables, vsetMin>>

\* A job whose bound is already being collected gives up.  One that registers
\* below a bound already published is late (history).
FlushRegister(f) ==
  /\ JobAt(f, "register")
  /\ collectSet' = collectSet \union {job[f].bound}
  /\ job' = [job EXCEPT ![f].pc = IF job[f].bound \in collectSet THEN "duplicate" ELSE "snapshot",
                        ![f].late = \E x \in immSet \union sstables : job[f].bound < x.bound]
  /\ UNCHANGED <<tmVars, tableVars, txnVars, immSet, sstables, vsetMin>>

SnapshotEntry(f) ==
  /\ JobAt(f, "snapshot")
  /\ job' = [job EXCEPT ![f].entry = entry, ![f].pc = IF entry = 0 THEN "size" ELSE "snapshotHead"]
  /\ UNCHANGED <<tmVars, tableVars, txnVars, collectSet, immSet, sstables, vsetMin>>

SnapshotHead(f) ==
  /\ JobAt(f, "snapshotHead")
  /\ job' = [job EXCEPT ![f].head = ptr[job[f].entry], ![f].pc = "snapshotWalk"]
  /\ UNCHANGED <<tmVars, tableVars, txnVars, collectSet, immSet, sstables, vsetMin>>

\* Variant: takes the version from the job that has it.
SnapshotWalkAnyway(f) ==
  /\ JobAt(f, "snapshotWalk")
  /\ LET p == job[f].head
         n == p.to
         over == n = Null \/ p.abort IN
     \/ over /\ JobGoTo(f, "size") /\ UNCHANGED collected
     \/ /\ ~ over /\ IsVersionSafeForGc(n, job[f].bound)
        /\ collected' = [collected EXCEPT ![n] = job[f].bound]
        /\ job' = [job EXCEPT ![f].node = n, ![f].pc = "size"]
     \/ /\ ~ over /\ ~ IsVersionSafeForGc(n, job[f].bound)
        /\ job' = [job EXCEPT ![f].head = next[n]]
        /\ UNCHANGED collected
  /\ UNCHANGED <<tmVars, entry, entries, ptr, next, retired, txnVars, collectSet, immSet,
                 sstables, vsetMin>>

\* The first version below the bound is collected unless another job has it.
SnapshotWalk(f) ==
  /\ JobAt(f, "snapshotWalk")
  /\ LET p == job[f].head
         n == p.to
         over == n = Null \/ p.abort IN
     \/ over /\ JobGoTo(f, "size") /\ UNCHANGED collected
     \/ /\ ~ over /\ IsVersionSafeForGc(n, job[f].bound)
        /\ IF collected[n] = InvalidTs
           THEN /\ collected' = [collected EXCEPT ![n] = job[f].bound]
                /\ job' = [job EXCEPT ![f].node = n, ![f].pc = "size"]
           ELSE JobGoTo(f, "size") /\ UNCHANGED collected
     \/ /\ ~ over /\ ~ IsVersionSafeForGc(n, job[f].bound)
        /\ job' = [job EXCEPT ![f].head = next[n]]
        /\ UNCHANGED collected
  /\ UNCHANGED <<tmVars, entry, entries, ptr, next, retired, txnVars, collectSet, immSet,
                 sstables, vsetMin>>

\* Whether the job has found enough pairs depends on the other keys too.  But
\* it has found none at all if another job took a snapshot below the same
\* bound before (SnapshotsAreDisjoint), and then it is cancelled.
FlushCancel(f) ==
  /\ JobAt(f, "size")
  /\ collectSet' = collectSet \ {job[f].bound}
  /\ JobGoTo(f, "cancelled")
  /\ UNCHANGED <<tmVars, tableVars, txnVars, immSet, sstables, vsetMin>>

Snapped(f) == job[f].pc \notin {"idle", "register", "duplicate", "snapshot"}

FlushProceed(f) ==
  /\ JobAt(f, "size")
  /\ ~ \E g \in Job \ {f} : Snapped(g) /\ job[g].bound = job[f].bound
  /\ JobGoTo(f, "rendezvous1")
  /\ UNCHANGED <<tmVars, tableVars, txnVars, collectSet, immSet, sstables, vsetMin>>

\* Variant: the immutable table is not published before the cleanup.
Rendezvous1Unpublished(f) ==
  /\ JobAt(f, "rendezvous1")
  /\ \A b \in collectSet : job[f].bound <= b
  /\ collectSet' = collectSet \ {job[f].bound}
  /\ JobGoTo(f, "gc")
  /\ UNCHANGED <<tmVars, tableVars, txnVars, immSet, sstables, vsetMin>>

\* The jobs pass in the order of their bounds.
Rendezvous1(f) ==
  /\ JobAt(f, "rendezvous1")
  /\ \A b \in collectSet : job[f].bound <= b
  /\ collectSet' = collectSet \ {job[f].bound}
  /\ immSet' = immSet \union {[bound |-> job[f].bound, node |-> job[f].node]}
  /\ JobGoTo(f, "gc")
  /\ UNCHANGED <<tmVars, tableVars, txnVars, sstables, vsetMin>>

-----------------------------------------------------------------------------
(* gc                                                                      *)

GcEntry(f) ==
  /\ JobAt(f, "gc")
  /\ job' = [job EXCEPT ![f].entry = entry, ![f].pc = IF entry = 0 THEN "write" ELSE "gcHead"]
  /\ UNCHANGED <<tmVars, tableVars, txnVars, collectSet, immSet, sstables, vsetMin>>

\* Variant: does not ask who collected the version.
GcHeadUncollected(f) ==
  /\ JobAt(f, "gcHead")
  /\ LET p == ptr[job[f].entry] IN
     IF p.to = Null \/ p.abort THEN JobGoTo(f, "write")
     ELSE job' = [job EXCEPT ![f].head = p, ![f].at = p.to, ![f].pc = "gcLook",
                    ![f].reclaimable = IsVersionSafeForGc(p.to, job[f].bound)]
  /\ UNCHANGED <<tmVars, tableVars, txnVars, collectSet, immSet, sstables, vsetMin>>

\* The head, and whether it is below the bound and collected by this job.
GcHead(f) ==
  /\ JobAt(f, "gcHead")
  /\ LET p == ptr[job[f].entry] IN
     IF p.to = Null \/ p.abort THEN JobGoTo(f, "write")
     ELSE job' = [job EXCEPT ![f].head = p, ![f].at = p.to, ![f].pc = "gcLook",
                    ![f].reclaimable = /\ IsVersionSafeForGc(p.to, job[f].bound)
                                       /\ collected[p.to] = job[f].bound]
  /\ UNCHANGED <<tmVars, tableVars, txnVars, collectSet, immSet, sstables, vsetMin>>

\* Looks for a node above the first version below the bound.
GcLook(f) ==
  /\ JobAt(f, "gcLook")
  /\ LET n == next[job[f].at].to
         safe == n # Null /\ IsVersionSafeForGc(n, job[f].bound) IN
     \/ (n = Null \/ (safe /\ collected[n] # job[f].bound)) /\ JobGoTo(f, "gcTag")
     \/ /\ safe /\ collected[n] = job[f].bound
        /\ job' = [job EXCEPT ![f].pc = "gcCut", ![f].below = n]
     \/ n # Null /\ ~ safe /\ job' = [job EXCEPT ![f].at = n]
  /\ UNCHANGED <<tmVars, tableVars, txnVars, collectSet, immSet, sstables, vsetMin>>

\* Detaches that version and all below it.
GcCut(f) ==
  /\ JobAt(f, "gcCut")
  /\ next' = [next EXCEPT ![job[f].at] = NullPtr]
  /\ job' = [job EXCEPT ![f].at = job[f].below, ![f].pc = "gcReclaim"]
  /\ UNCHANGED <<tmVars, entry, entries, ptr, collected, retired, txnVars, collectSet, immSet,
                 sstables, vsetMin>>

\* Reclaims a chain node by node.
GcReclaim(f) ==
  /\ JobAt(f, "gcReclaim")
  /\ LET n == job[f].at IN
     IF n = Null
     THEN JobGoTo(f, IF job[f].removed THEN "write" ELSE "gcTag") /\ UNCHANGED retired
     ELSE /\ retired' = [retired EXCEPT ![n] = @ + 1]
          /\ job' = [job EXCEPT ![f].at = next[n].to]
  /\ UNCHANGED <<tmVars, entry, entries, ptr, next, collected, txnVars, collectSet, immSet,
                 sstables, vsetMin>>

\* Publishes the Abort tag, if the head itself is to be reclaimed.
GcTag(f) ==
  /\ JobAt(f, "gcTag")
  /\ LET e == job[f].entry
         tagged == job[f].reclaimable /\ ptr[e] = job[f].head IN
     /\ ptr' = IF tagged THEN [ptr EXCEPT ![e].abort = TRUE] ELSE ptr
     /\ JobGoTo(f, IF tagged THEN "gcReload" ELSE "write")
  /\ UNCHANGED <<tmVars, entry, entries, next, collected, retired, txnVars, collectSet, immSet,
                 sstables, vsetMin>>

GcReload(f) ==
  /\ JobAt(f, "gcReload")
  /\ job' = [job EXCEPT ![f].at = ptr[job[f].entry].to, ![f].pc = "gcRemove"]
  /\ UNCHANGED <<tmVars, tableVars, txnVars, collectSet, immSet, sstables, vsetMin>>

\* table.remove, then the whole chain is reclaimed.
GcRemove(f) ==
  /\ JobAt(f, "gcRemove")
  /\ entry' = 0
  /\ job' = [job EXCEPT ![f].pc = "gcReclaim", ![f].removed = TRUE]
  /\ UNCHANGED <<tmVars, entries, ptr, next, collected, retired, txnVars, collectSet, immSet,
                 sstables, vsetMin>>

-----------------------------------------------------------------------------
(* The table file is written and, in the order of the bounds, installed in *)
(* place of the immutable table.  log_and_apply asserts that the bound of  *)
(* the version set does not go back; what follows a panic there is not     *)
(* modelled here (FlushPipeline has it).                                   *)

Rendezvous2(f) ==
  /\ JobAt(f, "write")
  /\ \A x \in immSet : job[f].bound <= x.bound
  /\ job[f].bound >= vsetMin
  /\ vsetMin' = job[f].bound
  /\ sstables' = sstables \union {[bound |-> job[f].bound, node |-> job[f].node]}
  /\ immSet' = {x \in immSet : x.bound # job[f].bound}
  /\ JobGoTo(f, "done")
  /\ UNCHANGED <<tmVars, tableVars, txnVars, collectSet>>

FlushStep(f) ==
  \/ FlushMinXip(f) \/ FlushRegister(f) \/ SnapshotEntry(f) \/ SnapshotHead(f)
  \/ SnapshotWalk(f) \/ FlushCancel(f) \/ FlushProceed(f) \/ Rendezvous1(f)
  \/ GcEntry(f) \/ GcHead(f) \/ GcLook(f) \/ GcCut(f) \/ GcReclaim(f)
  \/ GcTag(f) \/ GcReload(f) \/ GcRemove(f) \/ Rendezvous2(f)

TxnStep(t) ==
  \/ StartTxn(t) \/ Get(t) \/ GetHead(t) \/ GetWalk(t) \/ GetImm(t) \/ GetSst(t)
  \/ Put(t) \/ PutInsert(t) \/ PutLookup(t) \/ Delete(t)
  \/ WriteLoad(t) \/ WriteCheck(t) \/ WriteCas(t)
  \/ BeginCommitTxn(t) \/ Stamp(t) \/ FinishCommitTxn(t) \/ LogCommitTxn(t)
  \/ BeginAbortTxn(t) \/ RollbackLookup(t) \/ RollbackLoad(t) \/ RollbackTest(t)
  \/ RollbackUnlink(t) \/ FinishAbortTxn(t)

Next == (\E t \in Txn : TxnStep(t)) \/ (\E f \in Job : FlushStep(f))

Spec == Init /\ [][Next]_vars

-----------------------------------------------------------------------------
(* Properties                                                              *)

\* Type invariant.
GcTypeOK ==
  /\ TMTypeOK
  /\ entry \in 0 .. MaxEntries /\ entries \in 0 .. MaxEntries
  /\ ptr \in [1 .. MaxEntries -> Pointer] /\ next \in [Node -> Pointer]
  /\ record \in [Txn -> {"none", "Insert", "Delete"}]
  /\ linked \subseteq Txn /\ stamped \subseteq linked
  /\ collected \in [Node -> Timestamp]
  /\ retired \in [Node -> Nat]
  /\ \A t \in Txn : reply[t].result \in Node \union {Null}
  /\ \A f \in Job : ~ JobAt(f, "idle") => job[f].bound \in Timestamp
  /\ collectSet \subseteq Timestamp /\ vsetMin \in Timestamp

\* The committed versions of the key, whether still in memory or not.
CommittedNodes == InitVersions \union {t \in linked : Committed(t)}

\* What a transaction must see of the versions of others.
NewestAt(bound) ==
  LET below == {n \in CommittedNodes : CommitTs(n) <= bound} IN
  IF below = {} THEN Null
  ELSE CHOOSE n \in below : \A m \in below : CommitTs(m) <= CommitTs(n)

ValueOf(n) == IF n = Null \/ RecordOf(n) = "Delete" THEN Null ELSE n

\* Jobs register in the order of their bounds, as far as tables are published.
\* Nothing in the code makes them: the bound is read before (db.rs:343-351).
NobodyLate == \A f \in Job : ~ JobAt(f, "idle") => ~ job[f].late

\* Whatever a flush does meanwhile, a get through the memory table, the
\* immutable tables and the sstables returns the transaction's own write or
\* the newest value committed before it started: never an older one because a
\* version has moved on, never none.
ReadsSnapshot ==
  NobodyLate => \A t \in Txn : reply[t].op = "get" =>
    reply[t].result = ValueOf(IF reply[t].own THEN t ELSE NewestAt(start[t]))

\* Each version goes to at most one table, and a flush takes the newest
\* version below its bound unless an earlier flush took it, so that no table
\* shadows a newer value with an older one.
SnapshotsAreDisjoint ==
  \A f, g \in Job : Snapped(f) /\ job[f].node # Null =>
    /\ job[f].node = NewestAt(job[f].bound)
    /\ Snapped(g) /\ f # g => job[f].node # job[g].node

\* What gc has reclaimed of the committed versions is kept in a table, or
\* superseded by a newer version that is kept below the bound of its job.
NothingCommittedLost ==
  \A n \in CommittedNodes : retired[n] > 0 =>
    \E x \in immSet \union sstables :
      x.node # Null /\ (x.node = n \/ CommitTs(x.node) > CommitTs(n))

-----------------------------------------------------------------------------
(* What the code says of itself, and does not keep.                        *)

\* Case 3 of check_ww_conflict (hash_memtable.rs:214): who writes the key
\* after another has is refused if that one commits after its start.
\* Committed writers do not overlap, whatever gc removes between them.
CommittedWritersDoNotOverlap ==
  \A t, u \in linked : t # u /\ Committed(t) /\ Committed(u) =>
    commit[t] < start[u] \/ commit[u] < start[t]
=============================================================================
