--------------------------- MODULE LineDiscipline ---------------------------
(* What the console promises its readers: input is edited line by line,    *)
(* and what has been entered is read once, in the order it was typed.      *)
EXTENDS Naturals, Sequences

CONSTANTS Char,     \* characters that are stored
          Enters,   \* characters that end a line
          Capacity  \* characters that fit

VARIABLES ready,    \* characters a reader may take
          editing   \* the line being typed

Init == ready = <<>> /\ editing = <<>>

Full == Len(ready) + Len(editing) = Capacity

Type(c) == /\ ~Full
           /\ c \notin Enters
           /\ Len(ready) + Len(editing) + 1 < Capacity
           /\ editing' = Append(editing, c)
           /\ UNCHANGED ready

\* A line is entered by its last character, or by the last free place.
Enter(c) == /\ ~Full
            /\ c \in Enters \/ Len(ready) + Len(editing) + 1 = Capacity
            /\ ready' = ready \o Append(editing, c)
            /\ editing' = <<>>

Erase == /\ editing # <<>>
         /\ editing' = SubSeq(editing, 1, Len(editing) - 1)
         /\ UNCHANGED ready

Kill == editing' = <<>> /\ UNCHANGED ready

Take == /\ ready # <<>>
        /\ ready' = Tail(ready)
        /\ UNCHANGED editing

Next == (\E c \in Char : Type(c) \/ Enter(c)) \/ Erase \/ Kill \/ Take

Spec == Init /\ [][Next]_<<ready, editing>>
=============================================================================
