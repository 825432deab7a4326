------------------------------ MODULE MCFormats ------------------------------
(* The table format and the timestamps in small widths: two components that *)
(* share no state, next to each other.                                      *)
EXTENDS BlockTable, Timestamps

MCTableKeys == {<<1>>, <<1, 1>>, <<1, 1, 2>>, <<1, 2>>, <<2, 1, 1>>, <<2, 2>>}

MCInit == Init /\ CounterInit

MCNext ==
    \/ Next /\ UNCHANGED counter
    \/ Take /\ UNCHANGED vars

MCSpec == MCInit /\ [][MCNext]_<<vars, counter>>

==============================================================================
