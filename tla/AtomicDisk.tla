----------------------------- MODULE AtomicDisk -----------------------------
(* What the log promises to the file system: the writes of the system      *)
(* calls that overlap reach the disk together or, after a crash, not at    *)
(* all.                                                                    *)
CONSTANTS Process, Block, Val
VARIABLES mem,     \* [Block -> Val] what the running kernel reads
          stable,  \* [Block -> Val] what survives a crash
          active   \* processes between begin_op() and end_op()

Init == /\ mem \in [Block -> Val]
        /\ stable = mem
        /\ active = {}

Begin(p) == /\ p \notin active
            /\ active' = active \cup {p}
            /\ UNCHANGED <<mem, stable>>

Write(p, b, v) == /\ p \in active
                  /\ mem' = [mem EXCEPT ![b] = v]
                  /\ UNCHANGED <<stable, active>>

End(p) == /\ p \in active
          /\ active' = active \ {p}
          /\ UNCHANGED <<mem, stable>>

Commit == /\ active = {}
          /\ stable' = mem
          /\ UNCHANGED <<mem, active>>

Crash == /\ mem' = stable
         /\ active' = {}
         /\ UNCHANGED stable

Next == \/ \E p \in Process : Begin(p) \/ End(p)
        \/ \E p \in Process, b \in Block, v \in Val : Write(p, b, v)
        \/ Commit
        \/ Crash

Spec == Init /\ [][Next]_<<mem, stable, active>>
=============================================================================
