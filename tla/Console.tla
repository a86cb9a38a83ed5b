------------------------------ MODULE Console -------------------------------
(***************************************************************************)
(* Console input: the ring buffer of kern/console.c, filled by the UART    *)
(* interrupt on CPU 0 and emptied by console_read() on any CPU, under      *)
(* conslock.  A step is one character handled by the holder of the lock.   *)
(* Output and formatting are left out.                                     *)
(***************************************************************************)
EXTENDS Naturals, Sequences, FiniteSets

CONSTANTS Reader,     \* processes that read the console
          INPUT_BUF,  \* size of the ring buffer
          Plain,      \* characters without a meaning of their own
          NL,         \* '\n', and '\r', which is stored as '\n'
          EOF,        \* C('D')
          NUL,        \* what the buffer holds at first; never stored
          Intr,       \* the interrupt handler, as a holder of conslock
          Nobody,     \* conslock is free
          MaxRead,    \* bound: bytes asked for in one read
          MaxIndex    \* bound: no character is stored beyond this index

Char == Plain \cup {NL, EOF}

ASSUME BufAssumption == INPUT_BUF \in Nat \ {0}
ASSUME HolderAssumption == Intr \notin Reader /\ Nobody \notin Reader \cup {Intr}
ASSUME CharAssumption == NL # EOF /\ {NL, EOF} \cap Plain = {} /\ NUL \notin Char
ASSUME BoundAssumption == MaxRead \in Nat \ {0} /\ MaxIndex \in Nat

VARIABLES
    buf,       \* input.buf
    r, w, e,   \* input.r, input.w, input.e
    conslock,  \* holder of conslock
    dump,      \* do_proc_dump, until proc_dump() has run
    rpc,       \* [Reader -> "out", "enter", "read", "asleep", "woken", "return"]
    n,         \* [Reader -> bytes still wanted]
    target     \* [Reader -> bytes asked for]

inputVars == <<buf, r, w, e>>
readVars == <<rpc, n, target>>
vars == <<inputVars, conslock, dump, readVars>>

At(k) == k % INPUT_BUF

Init ==
    /\ buf = [k \in 0..INPUT_BUF - 1 |-> NUL]
    /\ r = 0 /\ w = 0 /\ e = 0
    /\ conslock = Nobody
    /\ dump = FALSE
    /\ rpc = [p \in Reader |-> "out"]
    /\ n = [p \in Reader |-> 0]
    /\ target = [p \in Reader |-> 0]

-----------------------------------------------------------------------------
(* console_intr() *)

\* proc_dump() of the previous interrupt is over when the next one is taken.
IntrEnter ==
    /\ conslock = Nobody
    /\ ~dump
    /\ conslock' = Intr
    /\ UNCHANGED <<inputVars, dump, readVars>>

IntrProcDump ==
    /\ conslock = Intr
    /\ dump' = TRUE
    /\ UNCHANGED <<inputVars, conslock, readVars>>

\* C('U'): back to the start of the line, or to a newline not yet entered.
IntrKillLine ==
    /\ conslock = Intr
    /\ \E y \in w..e :
         /\ y = w \/ buf[At(y - 1)] = NL
         /\ \A z \in y + 1..e : buf[At(z - 1)] # NL
         /\ e' = y
    /\ UNCHANGED <<buf, r, w, conslock, dump, readVars>>

\* Mutant: backspace reaches into entered lines.
IntrBackspaceEntered ==
    /\ conslock = Intr
    /\ e # r
    /\ e' = e - 1
    /\ UNCHANGED <<buf, r, w, conslock, dump, readVars>>

IntrBackspace ==
    /\ conslock = Intr
    /\ e # w
    /\ e' = e - 1
    /\ UNCHANGED <<buf, r, w, conslock, dump, readVars>>

\* wakeup(&input.r)
Woken == [p \in Reader |-> IF rpc[p] = "asleep" THEN "woken" ELSE rpc[p]]

\* Mutant: no test for room in the buffer.
IntrStoreNoRoom(c) ==
    /\ conslock = Intr
    /\ e < MaxIndex
    /\ buf' = [buf EXCEPT ![At(e)] = c]
    /\ e' = e + 1
    /\ IF c \in {NL, EOF} \/ e' = r + INPUT_BUF
       THEN w' = e' /\ rpc' = Woken
       ELSE UNCHANGED <<w, rpc>>
    /\ UNCHANGED <<r, conslock, dump, n, target>>

\* Mutant: no wakeup(&input.r).
IntrStoreNoWakeup(c) ==
    /\ conslock = Intr
    /\ e < MaxIndex
    /\ e - r < INPUT_BUF
    /\ buf' = [buf EXCEPT ![At(e)] = c]
    /\ e' = e + 1
    /\ w' = IF c \in {NL, EOF} \/ e' = r + INPUT_BUF THEN e' ELSE w
    /\ UNCHANGED <<r, conslock, dump, readVars>>

IntrStore(c) ==
    /\ conslock = Intr
    /\ e < MaxIndex
    /\ e - r < INPUT_BUF
    /\ buf' = [buf EXCEPT ![At(e)] = c]
    /\ e' = e + 1
    /\ IF c \in {NL, EOF} \/ e' = r + INPUT_BUF
       THEN w' = e' /\ rpc' = Woken
       ELSE UNCHANGED <<w, rpc>>
    /\ UNCHANGED <<r, conslock, dump, n, target>>

\* getc() < 0: the UART has nothing more.
IntrLeave ==
    /\ conslock = Intr
    /\ conslock' = Nobody
    /\ UNCHANGED <<inputVars, dump, readVars>>

\* proc_dump(), which prints under conslock and so runs after its release.
ProcDump ==
    /\ dump
    /\ conslock = Nobody
    /\ dump' = FALSE
    /\ UNCHANGED <<inputVars, conslock, readVars>>

-----------------------------------------------------------------------------
(* console_read() *)

ReadCall(p, k) ==
    /\ rpc[p] = "out"
    /\ rpc' = [rpc EXCEPT ![p] = "enter"]
    /\ n' = [n EXCEPT ![p] = k]
    /\ target' = [target EXCEPT ![p] = k]
    /\ UNCHANGED <<inputVars, conslock, dump>>

\* acquire(&conslock), at the start or on the way back from sleep().
ReadEnter(p) ==
    /\ rpc[p] \in {"enter", "woken"}
    /\ conslock = Nobody
    /\ conslock' = p
    /\ rpc' = [rpc EXCEPT ![p] = "read"]
    /\ UNCHANGED <<inputVars, dump, n, target>>

\* sleep(&input.r, &conslock)
ReadSleep(p) ==
    /\ conslock = p /\ rpc[p] = "read"
    /\ n[p] > 0
    /\ r = w
    /\ rpc' = [rpc EXCEPT ![p] = "asleep"]
    /\ conslock' = Nobody
    /\ UNCHANGED <<inputVars, dump, n, target>>

\* Mutant: C('D') is not kept for the next read.
ReadEOFDropped(p) ==
    /\ conslock = p /\ rpc[p] = "read"
    /\ n[p] > 0
    /\ r # w
    /\ buf[At(r)] = EOF
    /\ r' = r + 1
    /\ rpc' = [rpc EXCEPT ![p] = "return"]
    /\ UNCHANGED <<buf, w, e, conslock, dump, n, target>>

\* C('D') ends the read; after other bytes it is kept for the next one.
ReadEOF(p) ==
    /\ conslock = p /\ rpc[p] = "read"
    /\ n[p] > 0
    /\ r # w
    /\ buf[At(r)] = EOF
    /\ r' = IF n[p] < target[p] THEN r ELSE r + 1
    /\ rpc' = [rpc EXCEPT ![p] = "return"]
    /\ UNCHANGED <<buf, w, e, conslock, dump, n, target>>

\* Mutant: the loop does not stop after the bytes asked for.
ReadCharNoLimit(p) ==
    /\ conslock = p /\ rpc[p] = "read"
    /\ r # w
    /\ buf[At(r)] # EOF
    /\ r' = r + 1
    /\ n' = [n EXCEPT ![p] = @ - 1]
    /\ rpc' = [rpc EXCEPT ![p] = IF buf[At(r)] = NL THEN "return" ELSE @]
    /\ UNCHANGED <<buf, w, e, conslock, dump, target>>

ReadChar(p) ==
    /\ conslock = p /\ rpc[p] = "read"
    /\ n[p] > 0
    /\ r # w
    /\ buf[At(r)] # EOF
    /\ r' = r + 1
    /\ n' = [n EXCEPT ![p] = @ - 1]
    /\ rpc' = [rpc EXCEPT ![p] = IF buf[At(r)] = NL \/ n'[p] = 0 THEN "return" ELSE @]
    /\ UNCHANGED <<buf, w, e, conslock, dump, target>>

\* release(&conslock); return target - n.
ReadReturn(p) ==
    /\ conslock = p /\ (rpc[p] = "return" \/ n[p] = 0)
    /\ conslock' = Nobody
    /\ rpc' = [rpc EXCEPT ![p] = "out"]
    /\ UNCHANGED <<inputVars, dump, n, target>>

-----------------------------------------------------------------------------
Interrupt ==
    \/ IntrEnter \/ IntrProcDump \/ IntrKillLine \/ IntrBackspace
    \/ \E c \in Char : IntrStore(c)
    \/ IntrLeave \/ ProcDump

Read(p) ==
    \/ \E k \in 0..MaxRead : ReadCall(p, k)
    \/ ReadEnter(p) \/ ReadSleep(p) \/ ReadEOF(p) \/ ReadChar(p) \/ ReadReturn(p)

Next == Interrupt \/ \E p \in Reader : Read(p)

Spec == Init /\ [][Next]_vars

\* The handler stops when the UART is empty, and every CPU goes on with the
\* read it has begun.  conslock is not fair: a reader may lose the race for it
\* to the handler only while somebody keeps typing.
Fairness ==
    /\ WF_vars(IntrLeave) /\ WF_vars(ProcDump)
    /\ \A p \in Reader :
         /\ SF_vars(ReadEnter(p))
         /\ WF_vars(ReadSleep(p) \/ ReadEOF(p) \/ ReadChar(p) \/ ReadReturn(p))

FairSpec == Spec /\ Fairness

-----------------------------------------------------------------------------
(* Properties *)

\* Type invariant of the ring buffer and of the readers.
TypeOK ==
    /\ buf \in [0..INPUT_BUF - 1 -> Char \cup {NUL}]
    /\ r \in Nat /\ w \in Nat /\ e \in Nat
    /\ conslock \in Reader \cup {Intr, Nobody}
    /\ dump \in BOOLEAN
    /\ rpc \in [Reader -> {"out", "enter", "read", "asleep", "woken", "return"}]
    /\ n \in [Reader -> Nat]
    /\ target \in [Reader -> Nat]

\* The three indices never pass each other and never span more than the
\* buffer, so that a stored character is never overwritten before it is read
\* and input.e - input.r, which is unsigned, never wraps.  A full buffer has
\* been given to the readers: the editor never ends up with no room for the
\* newline that would enter the line.
IndexOrder == /\ r <= w /\ w <= e /\ e - r <= INPUT_BUF
              /\ e = r + INPUT_BUF => w = e

\* No reader sleeps while there is something to read, although several may
\* wait and one of them may leave a C('D') behind.
AsleepMeansEmpty == \A p \in Reader : rpc[p] = "asleep" => r = w

\* A C('D') is used up only by a read that returns 0 bytes ("Save ^D for next
\* time, to make sure caller gets a 0-byte result").
EOFReadsZero ==
    [][\A p \in Reader :
         r' = r + 1 /\ buf[At(r)] = EOF /\ rpc[p] = "read" /\ rpc'[p] = "return"
            => n'[p] = target[p]]_vars

\* The ring buffer implements a line discipline: what was entered is read
\* once and in order, and what is being typed can still be erased.
Window(from, to) == [k \in 1..to - from |-> buf[At(from + k - 1)]]
LD == INSTANCE LineDiscipline WITH Enters <- {NL, EOF}, Capacity <- INPUT_BUF,
                                   ready <- Window(r, w), editing <- Window(w, e)
IsLineDiscipline == LD!Spec

\* A reader that wants bytes returns once the input holds an entered line,
\* or somebody else has taken it.
LineIsRead ==
    \A p \in Reader :
      (rpc[p] \in {"enter", "asleep", "woken"} /\ r # w)
         ~> (rpc[p] = "out" \/ r = w)
=============================================================================
