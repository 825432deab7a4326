---------------------------- MODULE MCMemTableGc ----------------------------
(* Instances of MemTableGc for TLC.                                        *)
EXTENDS MemTableGc, TLC

CONSTANTS t1, t2, t3

Nobody == [t \in {} |-> 0]
EarlyReader == [t \in {t1} |-> 3]

\* A key with a second version that the reader in progress must not see, and
\* another reader: two jobs, of different bounds, move the versions.
TwoJobs ==
  [versions |-> {2, 5}, starts |-> EarlyReader, txns |-> 2, jobs |-> 2,
   ops |-> [t \in Txn |-> {"get", "end"}]]

\* The early transaction only reads, and its user leaves it open: a flush job
\* meets a bound that does not move and a key with a version above it. The
\* others write without reading.
HotKey ==
  [versions |-> {2, 5}, starts |-> EarlyReader, txns |-> 3, jobs |-> 1,
   ops |-> [t \in Txn |-> IF t = t1 THEN {"get"} ELSE {"put", "delete", "end"}]]

\* The key is new: one transaction puts it, others look for it, and two jobs
\* collect it and remove its entry.
NewKey ==
  [versions |-> {}, starts |-> Nobody, txns |-> 2, jobs |-> 2,
   ops |-> [t \in Txn |-> IF t = t1 THEN {"put", "end"} ELSE {"get", "end"}]]

\* One committed version, nobody in progress, and writers that also read.
ColdKey ==
  [versions |-> {2}, starts |-> Nobody, txns |-> 2, jobs |-> 1,
   ops |-> [t \in Txn |-> {"get", "put", "end"}]]

OneKey == {TwoJobs, HotKey, NewKey}
LostUpdate == {ColdKey}

\* No situation tells the jobs apart, or the transactions but t1.
Others == Permutations(Txn \ {t1}) \union Permutations(Job)
=============================================================================
