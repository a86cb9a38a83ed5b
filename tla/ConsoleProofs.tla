--------------------------- MODULE ConsoleProofs ----------------------------
(* The indices of the console's ring buffer, its sleeping readers, and the *)
(* line discipline it implements, for every buffer size, every set of      *)
(* characters and any number of readers.                                   *)
EXTENDS Console, SequenceTheorems, TLAPS

\* The three invariants are inductive together: a reader takes a character only
\* when r # w, so nobody is asleep then, and w moves only when all are woken.
IInv == TypeOK /\ IndexOrder /\ AsleepMeansEmpty

\* The initial state is an empty buffer with nobody asleep.
LEMMA IInvInit == Init => IInv
<1> SUFFICES ASSUME Init PROVE IInv
  OBVIOUS
<1>1. TypeOK
  BY DEF Init, TypeOK
<1>2. IndexOrder
  BY BufAssumption DEF Init, IndexOrder
<1>3. AsleepMeansEmpty
  BY DEF Init, AsleepMeansEmpty
<1> QED
  BY <1>1, <1>2, <1>3 DEF IInv

\* One step keeps the types.
LEMMA TypeStep == IInv /\ [Next]_vars => TypeOK'
<1> SUFFICES ASSUME IInv, [Next]_vars PROVE TypeOK'
  OBVIOUS
<1> USE BufAssumption, BoundAssumption DEF IInv, IndexOrder, TypeOK
<1>1. CASE UNCHANGED vars
  BY <1>1 DEF vars, inputVars, readVars
<1>2. CASE Interrupt
  <2>1. CASE IntrEnter
    BY <2>1 DEF IntrEnter, inputVars, readVars
  <2>2. CASE IntrProcDump
    BY <2>2 DEF IntrProcDump, inputVars, readVars
  <2>3. CASE IntrKillLine
    BY <2>3 DEF IntrKillLine, readVars
  <2>4. CASE IntrBackspace
    BY <2>4 DEF IntrBackspace, readVars
  <2>5. ASSUME NEW c \in Char, IntrStore(c) PROVE TypeOK'
    BY <2>5 DEF IntrStore, Woken, At
  <2>6. CASE IntrLeave
    BY <2>6 DEF IntrLeave, inputVars, readVars
  <2>7. CASE ProcDump
    BY <2>7 DEF ProcDump, inputVars, readVars
  <2> QED
    BY <1>2, <2>1, <2>2, <2>3, <2>4, <2>5, <2>6, <2>7 DEF Interrupt
<1>3. ASSUME NEW p \in Reader, Read(p) PROVE TypeOK'
  <2>1. ASSUME NEW k \in 0..MaxRead, ReadCall(p, k) PROVE TypeOK'
    BY <2>1 DEF ReadCall, inputVars
  <2>2. CASE ReadEnter(p)
    BY <2>2 DEF ReadEnter, inputVars
  <2>3. CASE ReadSleep(p)
    BY <2>3 DEF ReadSleep, inputVars
  <2>4. CASE ReadEOF(p)
    BY <2>4 DEF ReadEOF
  <2>5. CASE ReadChar(p)
    BY <2>5 DEF ReadChar
  <2>6. CASE ReadReturn(p)
    BY <2>6 DEF ReadReturn, inputVars
  <2> QED
    BY <1>3, <2>1, <2>2, <2>3, <2>4, <2>5, <2>6 DEF Read
<1> QED
  BY <1>1, <1>2, <1>3 DEF Next

\* One step keeps the order of the indices and the sleepers' condition.
LEMMA IndexStep ==
  IInv /\ [Next]_vars => (IndexOrder /\ AsleepMeansEmpty)'
<1> DEFINE Inv == IndexOrder /\ AsleepMeansEmpty
<1> SUFFICES ASSUME IInv, [Next]_vars PROVE Inv'
  OBVIOUS
<1> USE BufAssumption DEF IInv, TypeOK, IndexOrder, AsleepMeansEmpty
<1>1. CASE UNCHANGED vars
  BY <1>1 DEF vars, inputVars, readVars
<1>2. CASE Interrupt
  <2>1. CASE IntrEnter
    BY <2>1 DEF IntrEnter, inputVars, readVars
  <2>2. CASE IntrProcDump
    BY <2>2 DEF IntrProcDump, inputVars, readVars
  <2>3. CASE IntrKillLine
    BY <2>3 DEF IntrKillLine, readVars
  <2>4. CASE IntrBackspace
    BY <2>4 DEF IntrBackspace, readVars
  <2>5. ASSUME NEW c \in Char, IntrStore(c) PROVE Inv'
    BY <2>5 DEF IntrStore, Woken
  <2>6. CASE IntrLeave
    BY <2>6 DEF IntrLeave, inputVars, readVars
  <2>7. CASE ProcDump
    BY <2>7 DEF ProcDump, inputVars, readVars
  <2> QED
    BY <1>2, <2>1, <2>2, <2>3, <2>4, <2>5, <2>6, <2>7 DEF Interrupt
<1>3. ASSUME NEW p \in Reader, Read(p) PROVE Inv'
  <2>1. ASSUME NEW k \in 0..MaxRead, ReadCall(p, k) PROVE Inv'
    BY <2>1 DEF ReadCall, inputVars
  <2>2. CASE ReadEnter(p)
    BY <2>2 DEF ReadEnter, inputVars
  <2>3. CASE ReadSleep(p)
    BY <2>3 DEF ReadSleep, inputVars
  <2>4. CASE ReadEOF(p)
    BY <2>4 DEF ReadEOF
  <2>5. CASE ReadChar(p)
    BY <2>5 DEF ReadChar
  <2>6. CASE ReadReturn(p)
    BY <2>6 DEF ReadReturn, inputVars
  <2> QED
    BY <1>3, <2>1, <2>2, <2>3, <2>4, <2>5, <2>6 DEF Read
<1> QED
  BY <1>1, <1>2, <1>3 DEF Next

\* The inductive invariant of the console.
THEOREM ConsoleInvariant == Spec => []IInv
<1>1. IInv /\ [Next]_vars => IInv'
  BY TypeStep, IndexStep DEF IInv
<1> QED
  BY IInvInit, <1>1, PTL DEF Spec

\* The ring buffer and the readers keep their types: console_read() never
\* counts below zero, and kill and backspace never move input.e below zero.
THEOREM ConsoleTyped == Spec => []TypeOK
  BY ConsoleInvariant, PTL DEF IInv

\* No stored character is overwritten before it is read, and the unsigned
\* difference input.e - input.r never wraps, whatever INPUT_BUF is; and the
\* buffer never fills up with characters that cannot be entered.
THEOREM IndicesInOrder == Spec => []IndexOrder
  BY ConsoleInvariant, PTL DEF IInv

\* No reader sleeps in console_read() while a line is waiting.
THEOREM SleepersFoundNothing == Spec => []AsleepMeansEmpty
  BY ConsoleInvariant, PTL DEF IInv

-----------------------------------------------------------------------------
(* The line discipline *)

\* The line being edited holds no character that enters a line, so that a kill
\* goes back to its start.
EditOK == \A k \in Nat : w <= k /\ k < e => buf[At(k)] \notin {NL, EOF}

\* A read never wants more bytes than it was asked for.
WantOK == \A p \in Reader : n[p] <= target[p]

LineInv == IInv /\ EditOK /\ WantOK

\* Division with remainder, as the provers know it.
LEMMA DivMod ==
  ASSUME NEW m \in Nat \ {0}, NEW a \in Nat
  PROVE  /\ a % m \in 0..m - 1
         /\ a \div m \in Nat
         /\ a = m * (a \div m) + (a % m)
  OBVIOUS

\* No multiple of a number lies strictly between 0 and the number.
LEMMA NoMultipleBetween ==
  ASSUME NEW m \in Nat \ {0}, NEW d \in Int, 0 < m * d, m * d < m
  PROVE  FALSE
<1>1. CASE d >= 1
  <2>1. m * d >= m * 1
    BY <1>1
  <2> QED
    BY <2>1
<1>2. CASE d <= 0
  <2>1. m * d <= m * 0
    BY <1>2
  <2> QED
    BY <2>1
<1> QED
  BY <1>1, <1>2

\* Two indices less than INPUT_BUF apart name two different places.
LEMMA PlacesDiffer ==
  ASSUME NEW a \in Nat, NEW b \in Nat, a < b, b - a < INPUT_BUF
  PROVE  At(a) # At(b)
<1> DEFINE m == INPUT_BUF
<1> SUFFICES ASSUME a % m = b % m PROVE FALSE
  BY DEF At
<1> DEFINE qa == a \div m
           qb == b \div m
           d  == qb - qa
<1>1. /\ qa \in Nat /\ a = m * qa + (a % m) /\ a % m \in 0..m - 1
      /\ qb \in Nat /\ b = m * qb + (b % m) /\ b % m \in 0..m - 1
  BY DivMod, BufAssumption
<1> HIDE DEF qa, qb
<1>2. b - a = m * qb - m * qa
  BY <1>1, BufAssumption
<1>3. m * qb - m * qa = m * d
  BY <1>1, BufAssumption
<1>4. d \in Int
  BY <1>1
<1>5. 0 < m * d /\ m * d < m
  BY <1>2, <1>3
<1> HIDE DEF d
<1> QED
  BY <1>4, <1>5, NoMultipleBetween, BufAssumption

\* Every index has its place in the buffer.
LEMMA PlaceInBuffer == ASSUME NEW k \in Nat PROVE At(k) \in 0..INPUT_BUF - 1
  BY DivMod, BufAssumption DEF At

\* A character stored at e leaves the places from r to e as they are.
LEMMA StoreKeeps ==
  ASSUME IInv, NEW c \in Char, IntrStore(c),
         NEW k \in Nat, r <= k, k < e
  PROVE  buf'[At(k)] = buf[At(k)]
<1>0. e \in Nat /\ r \in Nat /\ e - r < INPUT_BUF
  BY DEF IntrStore, IInv, TypeOK
<1>1. At(k) # At(e)
  BY <1>0, PlacesDiffer, BufAssumption
<1>2. buf' = [buf EXCEPT ![At(e)] = c]
  BY DEF IntrStore
<1>3. At(k) \in 0..INPUT_BUF - 1
  BY PlaceInBuffer
<1> QED
  BY <1>1, <1>2, <1>3 DEF IInv, TypeOK

\* The stored character is at e.
LEMMA StoreAt ==
  ASSUME IInv, NEW c \in Char, IntrStore(c)
  PROVE  buf'[At(e)] = c
<1>1. At(e) \in 0..INPUT_BUF - 1
  BY PlaceInBuffer DEF IInv, TypeOK
<1> QED
  BY <1>1 DEF IntrStore, IInv, TypeOK

\* A kill goes back to the start of the line.
LEMMA KillGoesToStart == IInv /\ EditOK /\ IntrKillLine => e' = w
<1> SUFFICES ASSUME IInv, EditOK, IntrKillLine PROVE e' = w
  OBVIOUS
<1>1. PICK y \in w..e : (y = w \/ buf[At(y - 1)] = NL) /\ e' = y
  BY DEF IntrKillLine
<1>2. y # w => y - 1 \in Nat /\ w <= y - 1 /\ y - 1 < e
  BY <1>1 DEF IInv, TypeOK
<1> QED
  BY <1>1, <1>2 DEF EditOK

\* One step keeps the line being edited free of entering characters.
LEMMA EditStep == LineInv /\ [Next]_vars => EditOK'
<1> SUFFICES ASSUME LineInv, [Next]_vars, NEW k \in Nat, w' <= k, k < e'
             PROVE  buf'[At(k)] \notin {NL, EOF}
  BY DEF EditOK
<1> USE DEF LineInv
<1>1. ASSUME UNCHANGED <<buf, w>>, e' <= e PROVE buf'[At(k)] \notin {NL, EOF}
  <2>1. e' \in Nat
    BY TypeStep DEF IInv, TypeOK
  <2> QED
    BY <1>1, <2>1 DEF EditOK, IInv, TypeOK
<1>2. ASSUME NEW c \in Char, IntrStore(c) PROVE buf'[At(k)] \notin {NL, EOF}
  <2>1. CASE w' = e'
    BY <2>1, TypeStep DEF IInv, TypeOK
  <2>2. CASE w' # e'
    <3>1. w' = w /\ c \notin {NL, EOF} /\ e' = e + 1
      BY <1>2, <2>2 DEF IntrStore
    <3>2. CASE k = e
      BY <1>2, <3>1, <3>2, StoreAt
    <3>3. CASE k # e
      <4>1. r <= k /\ w <= k /\ k < e
        BY <3>1, <3>3 DEF IInv, TypeOK, IndexOrder
      <4> QED
        BY <1>2, <4>1, StoreKeeps DEF EditOK
    <3> QED
      BY <3>2, <3>3
  <2> QED
    BY <2>1, <2>2
<1>3. CASE IntrKillLine
  <2>1. e' = w /\ w <= e /\ UNCHANGED <<buf, w>>
    BY <1>3, KillGoesToStart DEF IntrKillLine, IInv, IndexOrder
  <2> QED
    BY <2>1, <1>1
<1>4. CASE IntrBackspace
  <2>1. UNCHANGED <<buf, w>> /\ e' <= e
    BY <1>4 DEF IntrBackspace, IInv, TypeOK
  <2> QED
    BY <2>1, <1>1
<1>5. CASE UNCHANGED <<buf, w, e>>
  BY <1>1, <1>5 DEF IInv, TypeOK
<1>6. CASE Interrupt
  BY <1>2, <1>3, <1>4, <1>5, <1>6
     DEF Interrupt, IntrEnter, IntrProcDump, IntrLeave, ProcDump, inputVars
<1>7. ASSUME NEW p \in Reader, Read(p) PROVE UNCHANGED <<buf, w, e>>
  BY <1>7 DEF Read, ReadCall, ReadEnter, ReadSleep, ReadEOF, ReadChar, ReadReturn,
              inputVars
<1> QED
  BY <1>5, <1>6, <1>7 DEF Next, vars, inputVars

\* One step keeps what a read wants within what it was asked for.
LEMMA WantStep == LineInv /\ [Next]_vars => WantOK'
<1> SUFFICES ASSUME LineInv, [Next]_vars PROVE WantOK'
  OBVIOUS
<1> USE DEF LineInv, IInv, TypeOK, WantOK
<1>1. CASE UNCHANGED <<n, target>>
  BY <1>1
<1>2. ASSUME NEW p \in Reader, Read(p) PROVE WantOK'
  <2>1. ASSUME NEW k \in 0..MaxRead, ReadCall(p, k) PROVE WantOK'
    BY <2>1, BoundAssumption DEF ReadCall
  <2>2. CASE ReadChar(p)
    BY <2>2 DEF ReadChar
  <2> QED
    BY <1>1, <1>2, <2>1, <2>2
       DEF Read, ReadEnter, ReadSleep, ReadEOF, ReadReturn
<1>3. CASE Interrupt
  BY <1>1, <1>3
     DEF Interrupt, IntrEnter, IntrProcDump, IntrKillLine, IntrBackspace, IntrStore,
         IntrLeave, ProcDump, readVars
<1> QED
  BY <1>1, <1>2, <1>3 DEF Next, vars, readVars

\* The inductive invariant with the line being edited.
THEOREM LineInvariant == Spec => []LineInv
<1>1. Init => EditOK /\ WantOK
  BY DEF Init, EditOK, WantOK
<1>2. LineInv /\ [Next]_vars => LineInv'
  BY TypeStep, IndexStep, EditStep, WantStep DEF LineInv, IInv
<1> QED
  BY IInvInit, <1>1, <1>2, PTL DEF Spec, LineInv

\* A C('D') is used up only by a console_read() that returns 0 bytes.
THEOREM EOFIsKept == Spec => EOFReadsZero
<1> DEFINE Kept(p) == r' = r + 1 /\ buf[At(r)] = EOF /\ rpc[p] = "read" /\ rpc'[p] = "return"
                         => n'[p] = target[p]
<1>1. ASSUME LineInv, [Next]_vars, NEW p \in Reader PROVE Kept(p)
  <2> SUFFICES ASSUME r' = r + 1, buf[At(r)] = EOF, rpc[p] = "read", rpc'[p] = "return"
               PROVE  n'[p] = target[p]
    OBVIOUS
  <2>1. r' # r
    BY <1>1 DEF LineInv, IInv, TypeOK
  <2>2. ~Interrupt /\ ~UNCHANGED vars
    BY <2>1 DEF Interrupt, IntrEnter, IntrProcDump, IntrKillLine, IntrBackspace,
                IntrStore, IntrLeave, ProcDump, vars, inputVars
  <2>3. PICK q \in Reader : Read(q)
    BY <1>1, <2>2 DEF Next
  <2>4. ReadEOF(q)
    BY <2>1, <2>3 DEF Read, ReadCall, ReadEnter, ReadSleep, ReadChar, ReadReturn, inputVars
  <2>5. q = p
    BY <2>4, <1>1 DEF ReadEOF, LineInv, IInv, TypeOK
  <2>6. ~(n[p] < target[p]) /\ n' = n
    BY <2>1, <2>4, <2>5 DEF ReadEOF
  <2> QED
    BY <1>1, <2>6 DEF LineInv, IInv, TypeOK, WantOK
<1>2. LineInv /\ [Next]_vars => [\A p \in Reader : Kept(p)]_vars
  BY <1>1
<1> QED
  BY LineInvariant, <1>2, PTL DEF Spec, EOFReadsZero

\* A window of a buffer b.
Win(b, i, j) == [k \in 1..j - i |-> b[At(i + k - 1)]]
Stored == Char \cup {NUL}
Buffers == [0..INPUT_BUF - 1 -> Stored]

\* A window of the buffer is a sequence, and its length is the distance of the
\* indices.
LEMMA WinIsSeq ==
  ASSUME NEW b \in Buffers, NEW i \in Nat, NEW j \in Nat, i <= j
  PROVE  /\ Win(b, i, j) \in Seq(Stored)
         /\ Len(Win(b, i, j)) = j - i
         /\ \A k \in 1..j - i : Win(b, i, j)[k] = b[At(i + k - 1)]
<1>1. ASSUME NEW k \in 1..j - i PROVE b[At(i + k - 1)] \in Stored
  <2>1. i + k - 1 \in Nat
    OBVIOUS
  <2> QED
    BY <2>1, PlaceInBuffer DEF Buffers
<1>2. j - i \in Nat
  OBVIOUS
<1>3. Win(b, i, j) \in [1..j - i -> Stored]
  BY <1>1 DEF Win
<1> QED
  BY <1>2, <1>3 DEF Win

\* Reading a character takes the first one off the window.
LEMMA WinTail ==
  ASSUME NEW b \in Buffers, NEW i \in Nat, NEW j \in Nat, i < j
  PROVE  Win(b, i, j) # <<>> /\ Win(b, i + 1, j) = Tail(Win(b, i, j))
<1> DEFINE s == Win(b, i, j)
           t == Win(b, i + 1, j)
<1>1. /\ s \in Seq(Stored) /\ Len(s) = j - i
      /\ \A k \in 1..j - i : s[k] = b[At(i + k - 1)]
  BY WinIsSeq
<1>2. /\ t \in Seq(Stored) /\ Len(t) = j - (i + 1)
      /\ \A k \in 1..j - (i + 1) : t[k] = b[At((i + 1) + k - 1)]
  BY WinIsSeq
<1> HIDE DEF s, t
<1>3. s # <<>>
  BY <1>1
<1>4. /\ Tail(s) \in Seq(Stored) /\ Len(Tail(s)) = Len(s) - 1
      /\ \A k \in 1..Len(s) - 1 : Tail(s)[k] = s[k + 1]
  BY <1>1, <1>3
<1>5. ASSUME NEW k \in 1..Len(t) PROVE t[k] = Tail(s)[k]
  <2>1. k + 1 \in 1..j - i /\ k \in 1..Len(s) - 1 /\ i + (k + 1) - 1 = (i + 1) + k - 1
    BY <1>1, <1>2
  <2>2. Tail(s)[k] = b[At(i + (k + 1) - 1)]
    BY <2>1, <1>1, <1>4
  <2> QED
    BY <2>1, <2>2, <1>1, <1>2
<1>6. t = Tail(s)
  BY <1>1, <1>2, <1>4, <1>5, SeqEqual
<1> QED
  BY <1>3, <1>6 DEF s, t

\* A backspace takes the last character off the window.
LEMMA WinFront ==
  ASSUME NEW b \in Buffers, NEW i \in Nat, NEW j \in Nat, i < j
  PROVE  /\ Win(b, i, j) # <<>>
         /\ Win(b, i, j - 1) = SubSeq(Win(b, i, j), 1, Len(Win(b, i, j)) - 1)
<1> DEFINE s == Win(b, i, j)
           t == Win(b, i, j - 1)
           u == SubSeq(s, 1, Len(s) - 1)
<1>1. /\ s \in Seq(Stored) /\ Len(s) = j - i
      /\ \A k \in 1..j - i : s[k] = b[At(i + k - 1)]
  BY WinIsSeq
<1>2. j - 1 \in Nat /\ i <= j - 1
  OBVIOUS
<1>3. /\ t \in Seq(Stored) /\ Len(t) = (j - 1) - i
      /\ \A k \in 1..(j - 1) - i : t[k] = b[At(i + k - 1)]
  BY <1>2, WinIsSeq
<1> HIDE DEF s, t
<1>4. s # <<>>
  BY <1>1
<1>5. /\ u \in Seq(Stored) /\ Len(u) = Len(s) - 1
      /\ \A k \in 1..Len(s) - 1 : u[k] = s[k]
  BY <1>1, <1>4
<1> HIDE DEF u
<1>6. ASSUME NEW k \in 1..Len(t) PROVE t[k] = u[k]
  <2>1. k \in 1..(j - 1) - i /\ k \in 1..j - i /\ k \in 1..Len(s) - 1
    BY <1>1, <1>3
  <2> QED
    BY <2>1, <1>1, <1>3, <1>5
<1>7. t = u
  BY <1>1, <1>3, <1>5, <1>6, SeqEqual
<1> QED
  BY <1>4, <1>7 DEF s, t, u

\* An empty window.
LEMMA WinEmpty == ASSUME NEW b \in Buffers, NEW i \in Nat PROVE Win(b, i, i) = <<>>
<1>1. Win(b, i, i) \in Seq(Stored) /\ Len(Win(b, i, i)) = 0
  BY WinIsSeq
<1> QED
  BY <1>1, EmptySeq

\* Windows of two buffers that agree on the indices are equal.
LEMMA WinAgree ==
  ASSUME NEW b \in Buffers, NEW d \in Buffers, NEW i \in Nat, NEW j \in Nat, i <= j,
         \A k \in Nat : i <= k /\ k < j => b[At(k)] = d[At(k)]
  PROVE  Win(b, i, j) = Win(d, i, j)
<1>1. ASSUME NEW k \in 1..j - i PROVE b[At(i + k - 1)] = d[At(i + k - 1)]
  <2>1. i + k - 1 \in Nat /\ i <= i + k - 1 /\ i + k - 1 < j
    OBVIOUS
  <2> QED
    BY <2>1
<1> QED
  BY <1>1 DEF Win

\* One more character at the end of a window.
LEMMA WinAppend ==
  ASSUME NEW b \in Buffers, NEW i \in Nat, NEW j \in Nat, i <= j
  PROVE  Win(b, i, j + 1) = Append(Win(b, i, j), b[At(j)])
<1> DEFINE s == Win(b, i, j)
           t == Win(b, i, j + 1)
           u == Append(s, b[At(j)])
<1>1. /\ s \in Seq(Stored) /\ Len(s) = j - i
      /\ \A k \in 1..j - i : s[k] = b[At(i + k - 1)]
  BY WinIsSeq
<1>2. /\ t \in Seq(Stored) /\ Len(t) = (j + 1) - i
      /\ \A k \in 1..(j + 1) - i : t[k] = b[At(i + k - 1)]
  BY WinIsSeq
<1>3. b[At(j)] \in Stored
  BY PlaceInBuffer DEF Buffers
<1> HIDE DEF s, t
<1>4. /\ u \in Seq(Stored) /\ Len(u) = Len(s) + 1
      /\ \A k \in 1..Len(s) : u[k] = s[k]
      /\ u[Len(s) + 1] = b[At(j)]
  BY <1>1, <1>3, AppendProperties
<1> HIDE DEF u
<1>5. ASSUME NEW k \in 1..Len(t) PROVE t[k] = u[k]
  <2>1. CASE k = Len(s) + 1
    <3>1. i + k - 1 = j /\ k \in 1..(j + 1) - i
      BY <2>1, <1>1, <1>2
    <3> QED
      BY <2>1, <3>1, <1>2, <1>4
  <2>2. CASE k # Len(s) + 1
    <3>1. k \in 1..(j + 1) - i /\ k \in 1..j - i /\ k \in 1..Len(s)
      BY <2>2, <1>1, <1>2
    <3> QED
      BY <3>1, <1>1, <1>2, <1>4
  <2> QED
    BY <2>1, <2>2
<1>6. t = u
  BY <1>1, <1>2, <1>4, <1>5, SeqEqual
<1> QED
  BY <1>6 DEF s, t, u

\* Two windows that meet are one window.
LEMMA WinConcat ==
  ASSUME NEW b \in Buffers, NEW i \in Nat, NEW j \in Nat, NEW h \in Nat, i <= j, j <= h
  PROVE  Win(b, i, h) = Win(b, i, j) \o Win(b, j, h)
<1> DEFINE s == Win(b, i, j)
           t == Win(b, j, h)
           u == s \o t
           v == Win(b, i, h)
<1>1. /\ s \in Seq(Stored) /\ Len(s) = j - i
      /\ \A k \in 1..j - i : s[k] = b[At(i + k - 1)]
  BY WinIsSeq
<1>2. /\ t \in Seq(Stored) /\ Len(t) = h - j
      /\ \A k \in 1..h - j : t[k] = b[At(j + k - 1)]
  BY WinIsSeq
<1>3. /\ v \in Seq(Stored) /\ Len(v) = h - i
      /\ \A k \in 1..h - i : v[k] = b[At(i + k - 1)]
  BY WinIsSeq
<1> HIDE DEF s, t, v
<1>4. /\ u \in Seq(Stored) /\ Len(u) = Len(s) + Len(t)
      /\ \A k \in 1..Len(s) + Len(t) : u[k] = IF k <= Len(s) THEN s[k] ELSE t[k - Len(s)]
  BY <1>1, <1>2, ConcatProperties
<1> HIDE DEF u
<1>5. ASSUME NEW k \in 1..Len(v) PROVE v[k] = u[k]
  <2>1. k \in 1..h - i /\ k \in 1..Len(s) + Len(t)
    BY <1>1, <1>2, <1>3
  <2>2. CASE k <= Len(s)
    <3>1. k \in 1..j - i
      BY <2>2, <1>1
    <3> QED
      BY <2>1, <2>2, <3>1, <1>1, <1>3, <1>4
  <2>3. CASE ~(k <= Len(s))
    <3>1. k - Len(s) \in 1..h - j /\ j + (k - Len(s)) - 1 = i + k - 1
      BY <2>1, <2>3, <1>1, <1>2
    <3>2. u[k] = b[At(j + (k - Len(s)) - 1)]
      BY <2>1, <2>3, <3>1, <1>2, <1>4
    <3> QED
      BY <2>1, <3>1, <3>2, <1>3
  <2> QED
    BY <2>2, <2>3
<1>6. v = u
  BY <1>1, <1>2, <1>3, <1>4, <1>5, SeqEqual
<1> QED
  BY <1>6 DEF s, t, u, v

\* Storing a character types it, or enters the line with it.
LEMMA StoreImplements ==
  ASSUME LineInv, TypeOK', NEW c \in Char, IntrStore(c)
  PROVE  LD!Next
<1>1. /\ r \in Nat /\ w \in Nat /\ e \in Nat /\ r <= w /\ w <= e
      /\ e - r < INPUT_BUF /\ e' = e + 1 /\ r' = r
      /\ buf \in Buffers /\ buf' \in Buffers
  BY DEF LineInv, IInv, TypeOK, IndexOrder, IntrStore, Buffers, Stored
<1>2. \A k \in Nat : r <= k /\ k < e => buf'[At(k)] = buf[At(k)]
  BY StoreKeeps DEF LineInv
<1>3. Win(buf', w, e + 1) = Append(Win(buf, w, e), c)
  <2>1. Win(buf', w, e) = Win(buf, w, e)
    <3>1. \A k \in Nat : w <= k /\ k < e => buf'[At(k)] = buf[At(k)]
      BY <1>1, <1>2
    <3> QED
      BY <1>1, <3>1, WinAgree
  <2> QED
    BY <1>1, <2>1, WinAppend, StoreAt DEF LineInv
<1>4. Win(buf', r, w) = Win(buf, r, w)
  <2>1. \A k \in Nat : r <= k /\ k < w => buf'[At(k)] = buf[At(k)]
    BY <1>1, <1>2
  <2> QED
    BY <1>1, <2>1, WinAgree
<1>5. Len(Win(buf, r, w)) = w - r /\ Len(Win(buf, w, e)) = e - w
  BY <1>1, WinIsSeq
<1>6. /\ Len(Win(buf, r, w)) + Len(Win(buf, w, e)) # INPUT_BUF
      /\ Len(Win(buf, r, w)) + Len(Win(buf, w, e)) + 1 = e' - r
  BY <1>1, <1>5, BufAssumption
<1>7. CASE c \in {NL, EOF} \/ e' = r + INPUT_BUF
  <2>1. w' = e'
    BY <1>7 DEF IntrStore
  <2>2. Win(buf', r, e + 1) = Win(buf, r, w) \o Append(Win(buf, w, e), c)
    <3>1. e + 1 \in Nat /\ w <= e + 1
      BY <1>1
    <3>2. Win(buf', r, e + 1) = Win(buf', r, w) \o Win(buf', w, e + 1)
      BY <1>1, <3>1, WinConcat
    <3> QED
      BY <3>2, <1>3, <1>4
  <2>3. Win(buf', e + 1, e + 1) = <<>>
    BY <1>1, WinEmpty
  <2>4. c \in {NL, EOF} \/ Len(Win(buf, r, w)) + Len(Win(buf, w, e)) + 1 = INPUT_BUF
    BY <1>1, <1>6, <1>7, BufAssumption
  <2>5. LD!Enter(c)
    BY <1>1, <1>6, <2>1, <2>2, <2>3, <2>4 DEF LD!Enter, LD!Full, Window, Win
  <2> QED
    BY <2>5 DEF LD!Next
<1>8. CASE ~(c \in {NL, EOF} \/ e' = r + INPUT_BUF)
  <2>1. w' = w
    BY <1>8 DEF IntrStore
  <2>2. Len(Win(buf, r, w)) + Len(Win(buf, w, e)) + 1 < INPUT_BUF
    BY <1>1, <1>6, <1>8, BufAssumption
  <2>3. LD!Type(c)
    BY <1>1, <1>3, <1>4, <1>6, <1>8, <2>1, <2>2 DEF LD!Type, LD!Full, Window, Win
  <2> QED
    BY <2>3 DEF LD!Next
<1> QED
  BY <1>7, <1>8

\* A character read, or a C('D') used up, is taken.
LEMMA TakeImplements ==
  ASSUME LineInv, r # w, r' = r + 1, UNCHANGED <<buf, w, e>>
  PROVE  LD!Next
<1>1. r \in Nat /\ w \in Nat /\ r < w /\ buf \in Buffers
  BY DEF LineInv, IInv, TypeOK, IndexOrder, Buffers, Stored
<1>2. Win(buf, r, w) # <<>> /\ Win(buf, r + 1, w) = Tail(Win(buf, r, w))
  BY <1>1, WinTail
<1>3. LD!Take
  BY <1>2 DEF LD!Take, Window, Win
<1> QED
  BY <1>3 DEF LD!Next

\* C('U') kills the line.
LEMMA KillImplements == ASSUME LineInv, IntrKillLine PROVE LD!Next
<1>1. e' = w /\ UNCHANGED <<buf, r, w>>
  BY KillGoesToStart DEF LineInv, IntrKillLine
<1>2. Win(buf, w, w) = <<>>
  BY WinEmpty DEF LineInv, IInv, TypeOK, Buffers, Stored
<1>3. LD!Kill
  BY <1>1, <1>2 DEF LD!Kill, Window, Win
<1> QED
  BY <1>3 DEF LD!Next

\* Backspace erases the last character of the line.
LEMMA BackspaceImplements == ASSUME LineInv, IntrBackspace PROVE LD!Next
<1>1. /\ w \in Nat /\ e \in Nat /\ w < e /\ buf \in Buffers
      /\ e' = e - 1 /\ UNCHANGED <<buf, r, w>>
  BY DEF IntrBackspace, LineInv, IInv, TypeOK, IndexOrder, Buffers, Stored
<1>2. /\ Win(buf, w, e) # <<>>
      /\ Win(buf, w, e - 1) = SubSeq(Win(buf, w, e), 1, Len(Win(buf, w, e)) - 1)
  BY <1>1, WinFront
<1>3. LD!Erase
  BY <1>1, <1>2 DEF LD!Erase, Window, Win
<1> QED
  BY <1>3 DEF LD!Next

\* The ring buffer implements the line discipline, whatever its size: what is
\* entered is read once and in order by all readers together, and kill and
\* backspace change only the line being typed.
THEOREM RingIsLineDiscipline == Spec => IsLineDiscipline
<1> DEFINE lines == <<Window(r, w), Window(w, e)>>
<1>1. Init => LD!Init
  <2> SUFFICES ASSUME Init PROVE LD!Init
    OBVIOUS
  <2>1. buf \in Buffers /\ r = 0 /\ w = 0 /\ e = 0
    BY DEF Init, Buffers, Stored
  <2>2. Win(buf, 0, 0) = <<>>
    BY <2>1, WinEmpty
  <2> QED
    BY <2>1, <2>2 DEF LD!Init, Window, Win
<1>2. LineInv /\ [Next]_vars => [LD!Next]_lines
  <2> SUFFICES ASSUME LineInv, [Next]_vars PROVE LD!Next \/ UNCHANGED lines
    OBVIOUS
  <2>1. TypeOK'
    BY TypeStep DEF LineInv
  <2>2. CASE UNCHANGED inputVars
    BY <2>2 DEF inputVars, Window
  <2>3. CASE Interrupt
    <3>1. ASSUME NEW c \in Char, IntrStore(c) PROVE LD!Next
      BY <2>1, <3>1, StoreImplements
    <3> QED
      BY <2>2, <2>3, <3>1, KillImplements, BackspaceImplements
         DEF Interrupt, IntrEnter, IntrProcDump, IntrLeave, ProcDump
  <2>4. ASSUME NEW p \in Reader, Read(p) PROVE LD!Next \/ UNCHANGED lines
    <3>1. CASE ReadEOF(p)
      <4>1. CASE n[p] < target[p]
        BY <3>1, <4>1, <2>2 DEF ReadEOF, inputVars
      <4>2. CASE ~(n[p] < target[p])
        BY <3>1, <4>2, TakeImplements DEF ReadEOF
      <4> QED
        BY <4>1, <4>2
    <3>2. CASE ReadChar(p)
      BY <3>2, TakeImplements DEF ReadChar
    <3> QED
      BY <2>2, <2>4, <3>1, <3>2 DEF Read, ReadCall, ReadEnter, ReadSleep, ReadReturn
  <2> QED
    BY <2>2, <2>3, <2>4 DEF Next, vars
<1> QED
  BY <1>1, <1>2, LineInvariant, PTL DEF Spec, IsLineDiscipline, LD!Spec
=============================================================================
