-------------------------------- MODULE MCFs ---------------------------------
(* An instance of Fs for TLC. *)
EXTENDS Fs

Abs(elems) == [abs |-> TRUE, elems |-> elems]
Rel(elems) == [abs |-> FALSE, elems |-> elems]

\* A file that mkfs made, a new directory and a file in it, the parent, and a
\* path with no last element.
MCPath == {Abs(<<"f">>), Rel(<<"d">>), Abs(<<"d", "f">>), Rel(<<"..">>), Abs(<<>>)}

\* Three entries: the root ends in the middle of a block.
MCFiles == <<[name |-> "f", size |-> 1]>>
=============================================================================
