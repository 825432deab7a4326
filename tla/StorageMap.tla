----------------------------- MODULE StorageMap -----------------------------
(***************************************************************************)
(* What the sstables promise to those who look keys up in them: a map to   *)
(* which flushes add newer values, and which nothing else changes, until a *)
(* table is installed that is damaged or as old as another one.  No files, *)
(* levels or compactions.                                                  *)
(***************************************************************************)
EXTENDS Integers

CONSTANTS
    Keys,
    Values      \* numbered in the order in which they are flushed

VARIABLES
    map,        \* the value a lookup returns
    damaged     \* a table has been installed whose file is overwritten in part,
                \* or whose bound is that of another one

Init ==
    /\ map \in [Keys -> {0}]
    /\ damaged = FALSE

\* Keys get one newer value: a table of the value's number is added.
Add ==
    /\ ~damaged /\ UNCHANGED damaged
    /\ DOMAIN map' = Keys
    /\ LET new == {map'[k] : k \in {l \in Keys : map'[l] # map[l]}}
       IN  \A n \in new : new = {n} /\ n \in Values /\ \A k \in Keys : map[k] < n

\* From then on nothing is promised.
Damage ==
    /\ damaged' = TRUE
    /\ map' \in [Keys -> Values \cup {0, -1}]

Next == Add \/ Damage

Spec == Init /\ [][Next]_<<map, damaged>>

=============================================================================
