---- MODULE MCVersionSet ----
EXTENDS VersionSet
MCKeys == 1 .. 3
T(puts, dels) == [puts |-> puts, dels |-> dels]
MCTables == {T({1, 2}, {}), T({3}, {2})}
====
