------------------------------- MODULE Mutex --------------------------------
(* What a sleep lock promises: at most one process at a time is between    *)
(* acquiresleep() and releasesleep().                                      *)
CONSTANTS Lock, Process
VARIABLE inside  \* [Lock -> the processes that hold it]

Init == inside = [l \in Lock |-> {}]

Enter(l, p) == /\ inside[l] = {}
               /\ inside' = [inside EXCEPT ![l] = {p}]

Leave(l, p) == /\ inside[l] = {p}
               /\ inside' = [inside EXCEPT ![l] = {}]

Spec == Init /\ [][\E l \in Lock, p \in Process : Enter(l, p) \/ Leave(l, p)]_inside
=============================================================================
