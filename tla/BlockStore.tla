----------------------------- MODULE BlockStore -----------------------------
(* What the buffer cache promises: each block is one memory cell that a    *)
(* single process at a time may use.                                       *)
CONSTANTS Process, Block, Val
VARIABLES mem,   \* [Block -> Val]
          users  \* [Block -> the processes between bread() and brelse()]

Init == /\ mem \in [Block -> Val]
        /\ users = [b \in Block |-> {}]

Acquire(p, b) == /\ users[b] = {}
                 /\ users' = [users EXCEPT ![b] = {p}]
                 /\ UNCHANGED mem

Write(p, b, v) == /\ users[b] = {p}
                  /\ mem' = [mem EXCEPT ![b] = v]
                  /\ UNCHANGED users

Release(p, b) == /\ users[b] = {p}
                 /\ users' = [users EXCEPT ![b] = {}]
                 /\ UNCHANGED mem

Next == \E p \in Process, b \in Block :
            Acquire(p, b) \/ Release(p, b) \/ \E v \in Val : Write(p, b, v)

Spec == Init /\ [][Next]_<<mem, users>>
=============================================================================
