-------------------------------- MODULE MCMem --------------------------------
(* An instance of Mem for TLC: pages of two units. *)
EXTENDS Mem

Seg(vaddr, filesz, memsz, avail) ==
    [kind |-> "load", vaddr |-> vaddr, filesz |-> filesz, memsz |-> memsz, avail |-> avail]
Odd(kind) == [Seg(0, 0, 0, 0) EXCEPT !.kind = kind]
Elf(segs) == [elf |-> TRUE, segs |-> segs]

\* A program of whole pages; one that ends inside a page; two segments, of
\* which the second starts on the next page, with and without a page that is
\* left out; a segment that is not aligned, one cut short, one larger in the
\* file than in memory; headers of another type, cut short and that wrap; no
\* program.
MCProgram ==
    { Elf(<<Seg(0, 2, 2, 2)>>), Elf(<<Seg(0, 3, 3, 3)>>),
      Elf(<<Seg(0, 3, 3, 3), Seg(4, 2, 2, 2)>>), Elf(<<Seg(0, 1, 1, 1), Seg(2, 1, 1, 1)>>),
      Elf(<<Seg(0, 3, 3, 3), Seg(4, 5, 5, 5)>>), Elf(<<Seg(1, 1, 1, 1)>>),
      Elf(<<Seg(0, 2, 3, 1)>>), Elf(<<Seg(0, 2, 1, 2)>>),
      Elf(<<Seg(0, 2, 2, 2), Odd("short")>>), Elf(<<Odd("other"), Odd("wraps")>>), [elf |-> FALSE, segs |-> <<>>] }

MCBrk == {-6, -3, -2, -1, 1, 2, 5}
=============================================================================
