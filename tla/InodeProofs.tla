----------------------------- MODULE InodeProofs -----------------------------
(***************************************************************************)
(* What the operators of Inode do, for every size of the disk, of a block, *)
(* of the inode cache and of the tables: the lemmas that FsProofs rests    *)
(* on.  A file system is given by its inodes I (with the copy that a       *)
(* process holds locked in place of the inode on the disk), its blocks D   *)
(* and the set U that the bitmap marks.  Blocks(I, D, U) says that every   *)
(* block has one owner, Whole(I, D) that files have no holes, and          *)
(* Tree(I, D, O) that every inode in use has one entry in a directory and  *)
(* a right link count, but for the inodes O that create() has not linked   *)
(* yet.  The last part shows that the image mkfs writes has all three.     *)
(***************************************************************************)
EXTENDS Fs, TLAPS, FiniteSetTheorems, WellFoundedInduction

-----------------------------------------------------------------------------
(* Induction and recursive functions *)

\* Every set of numbers that is not empty has a least one.
LEMMA LeastNumber ==
    ASSUME NEW S \in SUBSET Nat, S # {}
    PROVE  Min(S) \in S /\ \A y \in S : Min(S) <= y
<1>. DEFINE R == {ss \in Nat \X Nat : ss[1] < ss[2]}
<1>0. IsWellFoundedOn(R, Nat)
  BY NatLessThanWellFounded, Zenon DEF OpToRel
<1>. HIDE DEF R
<1>1. \E x \in S : \A y \in S : ~ (<<y, x>> \in R)
  BY <1>0, WFMin, Zenon
<1>2. \A x \in Nat, y \in Nat : y < x => <<y, x>> \in R
  BY DEF R
<1>3. \A x \in Nat, y \in Nat : ~(y < x) => x <= y
  OBVIOUS
<1>4. \E x \in S : \A y \in S : x <= y
  BY <1>1, <1>2, <1>3, Zenon
<1>. QED  BY <1>4, Zenon DEF Min

\* Induction, with a set in the place of a predicate.
LEMMA Induction ==
    ASSUME NEW S \in SUBSET Nat, 0 \in S, \A n \in S : n + 1 \in S
    PROVE  S = Nat
<1>. SUFFICES ASSUME S # Nat PROVE FALSE
  OBVIOUS
<1>. DEFINE m == Min(Nat \ S)
<1>1. m \in Nat \ S /\ \A y \in Nat \ S : m <= y
  BY LeastNumber
<1>2. m # 0 /\ m - 1 \in Nat /\ m - 1 \in S
  BY <1>1
<1>. QED  BY <1>1, <1>2

\* f iterates the step function h from a on.
Iterates(f, a, h, N) == f = [n \in 0..N |-> IF n = 0 THEN a ELSE h[<<f[n - 1], n>>]]

\* There is a function that iterates h.
LEMMA Iteration ==
    ASSUME NEW N \in Nat, NEW a, NEW h
    PROVE  \E f : Iterates(f, a, h, N)
<1>. DEFINE S == {m \in Nat : m <= N => \E f : Iterates(f, a, h, m)}
<1>1. 0 \in S
  <2>. DEFINE g == [n \in 0..0 |-> a]
  <2>1. Iterates(g, a, h, 0)
    BY DEF Iterates
  <2>. QED  BY <2>1
<1>2. ASSUME NEW m \in S PROVE m + 1 \in S
  <2>. SUFFICES ASSUME m + 1 <= N PROVE \E f : Iterates(f, a, h, m + 1)
    OBVIOUS
  <2>1. PICK f : Iterates(f, a, h, m)
    OBVIOUS
  <2>. DEFINE g == [n \in 0..(m + 1) |-> IF n <= m THEN f[n] ELSE h[<<f[m], m + 1>>]]
  <2>2. \A n \in 0..m : g[n] = IF n = 0 THEN a ELSE h[<<g[n - 1], n>>]
    <3>1. \A n \in 0..m : f[n] = IF n = 0 THEN a ELSE h[<<f[n - 1], n>>]
      BY <2>1, Zenon DEF Iterates
    <3>2. \A n \in 0..m : g[n] = f[n] /\ (n # 0 => g[n - 1] = f[n - 1])
      OBVIOUS
    <3>. QED  BY <3>1, <3>2, Zenon
  <2>3. g[m + 1] = h[<<g[m], m + 1>>] /\ m + 1 # 0 /\ (m + 1) - 1 = m
    <3>1. g[m] = f[m]
      OBVIOUS
    <3>2. g[m + 1] = h[<<f[m], m + 1>>]
      OBVIOUS
    <3>3. m + 1 # 0 /\ (m + 1) - 1 = m
      OBVIOUS
    <3>. QED  BY <3>1, <3>2, <3>3, Zenon
  <2>. HIDE DEF g
  <2>4. \A n \in 0..(m + 1) : n \in 0..m \/ n = m + 1
    OBVIOUS
  <2>6. \A n \in 0..(m + 1) : g[n] = IF n = 0 THEN a ELSE h[<<g[n - 1], n>>]
    BY <2>2, <2>3, <2>4, Zenon
  <2>5. Iterates(g, a, h, m + 1)
    BY <2>6 DEF Iterates, g
  <2>. QED  BY <2>5
<1>. HIDE DEF S
<1>3. S = Nat
  BY <1>1, <1>2, Induction DEF S
<1>. QED  BY <1>3 DEF S

\* A function that leads from T[n - 1] to T[n] stays in T.
LEMMA Stays ==
    ASSUME NEW N \in Nat, NEW T, NEW f, f[0] \in T[0],
           \A n \in 1..N : f[n - 1] \in T[n - 1] => f[n] \in T[n]
    PROVE  \A n \in 0..N : f[n] \in T[n]
<1>. DEFINE S == {n \in Nat : n <= N => f[n] \in T[n]}
<1>1. 0 \in S
  OBVIOUS
<1>2. ASSUME NEW n \in S PROVE n + 1 \in S
  <2>. SUFFICES ASSUME n + 1 <= N PROVE f[n + 1] \in T[n + 1]
    OBVIOUS
  <2>1. n + 1 \in 1..N /\ (n + 1) - 1 = n /\ f[n] \in T[n]
    OBVIOUS
  <2>2. f[(n + 1) - 1] \in T[(n + 1) - 1] => f[n + 1] \in T[n + 1]
    BY <2>1
  <2>. QED  BY <2>1, <2>2
<1>. HIDE DEF S
<1>3. S = Nat
  BY <1>1, <1>2, Induction DEF S
<1>. QED  BY <1>3 DEF S

-----------------------------------------------------------------------------
(* The shape of a file system state *)

Data == nmeta..(FSSIZE - 1)
InodeRec == [inum : Inum \cup {0}, ref : Nat, valid : BOOLEAN,
             lock : Process \cup {NoProc}, ino : Dinode]
Reason == {"no", "balloc", "iget", "ialloc", "file_close: no type"}
Inodes == [Inum -> Dinode]
Datas == [Data -> [0..(BSIZE - 1) -> Cell]]
FsState == [di : Inodes, data : Datas,
            used : SUBSET (0..(FSSIZE - 1)), ic : [Slot -> InodeRec],
            log : SUBSET Nat, panic : Reason]

\* The inodes I over the data blocks D: place n of inode i, where place
\* MAXFILE is the indirect block; 0 if there is none.
Place == 0..MAXFILE
Blk(I, D, i, n) ==
    IF n < NDIRECT THEN I[i].addrs[n]
    ELSE IF n = MAXFILE THEN I[i].addrs[NDIRECT]
    ELSE IF I[i].addrs[NDIRECT] = 0 THEN 0
    ELSE D[I[i].addrs[NDIRECT]][n - NDIRECT][2]

\* Blocks are data blocks; every block has one owner; U are the blocks in
\* use; an indirect block holds block numbers.
Placed(I, D) == \A i \in Inum, n \in Place : Blk(I, D, i, n) \in Data \cup {0}
OneOwner(I, D) ==
    \A i, j \in Inum, m, n \in Place :
        Blk(I, D, i, m) = Blk(I, D, j, n) /\ Blk(I, D, i, m) # 0 => i = j /\ m = n
Marked(I, D, U) ==
    \A b \in 0..(FSSIZE - 1) :
        b \in U <=> b < nmeta \/ \E i \in Inum, n \in Place : Blk(I, D, i, n) = b
Numbers(I, D) ==
    \A i \in Inum : I[i].addrs[NDIRECT] # 0 =>
        \A k \in 0..(BSIZE - 1) : D[I[i].addrs[NDIRECT]][k][1] = ""
Blocks(I, D, U) == Placed(I, D) /\ OneOwner(I, D) /\ Marked(I, D, U) /\ Numbers(I, D)

\* No file has a hole or is too long, a free inode is empty.
Whole(I, D) ==
    \A i \in Inum : /\ \A n \in 0..(MAXFILE - 1) : n * BSIZE < I[i].size => Blk(I, D, i, n) # 0
                    /\ I[i].size <= MAXFILE * BSIZE
                    /\ I[i].type = "0" => I[i].addrs = NoAddrs /\ I[i].size = 0

\* The cell at off in inode i.
At(I, D, i, off) == D[Blk(I, D, i, off \div BSIZE)][off % BSIZE]

DirSet(I) == {i \in Inum : I[i].type = "DIR"}
Offs(I, i) == 0..(I[i].size - 1)
UpAt(I, D, d, off, i) == At(I, D, d, off)[2] = i /\ At(I, D, d, off)[1] \notin {".", ".."}
Pair(name, n) == <<name, n>>
Below(I, D, i) ==
    {d \in DirSet(I) \ {ROOTINO} : \E off \in Offs(I, d) : At(I, D, d, off) = Pair("..", i)}

\* The entries of directories are inodes in use.
Leads(I, D) ==
    \A d \in DirSet(I) : \A x \in Offs(I, d) :
        At(I, D, d, x)[2] # 0 => At(I, D, d, x)[2] \in Inum /\ I[At(I, D, d, x)[2]].type # "0"

\* None of them is one of the new inodes O.
Settled(I, D, O) ==
    \A d \in DirSet(I) : \A x \in Offs(I, d) : At(I, D, d, x)[2] \notin O

\* Names are unique.
Distinct(I, D) ==
    \A d \in DirSet(I) : \A x, y \in Offs(I, d) :
        At(I, D, d, x)[2] # 0 /\ At(I, D, d, y)[2] # 0
        /\ At(I, D, d, x)[1] = At(I, D, d, y)[1] => x = y

\* A directory has "." and "..".
Dotted(I, D, O) ==
    \A d \in DirSet(I) \ O :
        /\ \E x \in Offs(I, d) : At(I, D, d, x) = Pair(".", d)
        /\ \E x \in Offs(I, d) : At(I, D, d, x)[1] = ".." /\ At(I, D, d, x)[2] # 0

\* An inode has one entry other than these.
Parented(I, D) ==
    \A i \in Inum : \A d, e \in DirSet(I) : \A x \in Offs(I, d), y \in Offs(I, e) :
        UpAt(I, D, d, x, i) /\ UpAt(I, D, e, y, i) => d = e /\ x = y
Reached(I, D, O) ==
    \A i \in Inum \ (O \cup {ROOTINO}) : I[i].type # "0" =>
        \E d \in DirSet(I) : \E x \in Offs(I, d) : UpAt(I, D, d, x, i)

\* The links of an inode are its entry and the ".." below it.
Counted(I, D) ==
    \A i \in Inum : I[i].type # "0" => I[i].nlink = 1 + Cardinality(Below(I, D, i))

\* The new inodes are empty.
Unlinked(I, O) ==
    /\ O \subseteq Inum /\ \A i \in O : I[i].type # "0" /\ I[i].size = 0
    /\ I[ROOTINO].type = "DIR" /\ ROOTINO \notin O

\* The directory tree, but for the new inodes O that have no entry yet.
Tree(I, D, O) ==
    /\ Leads(I, D) /\ Settled(I, D, O) /\ Distinct(I, D) /\ Dotted(I, D, O)
    /\ Parented(I, D) /\ Reached(I, D, O) /\ Counted(I, D) /\ Unlinked(I, O)

OneEntry(ic) == \A s, t \in Slot : ic[s].ref > 0 /\ ic[t].ref > 0 /\ ic[s].inum = ic[t].inum => s = t

\* The inode cache over the disk inodes I.
CacheOK(I, ic) ==
    \A s \in Slot : /\ ic[s].ref > 0 => ic[s].inum \in Inum /\ I[ic[s].inum].type # "0"
                    /\ ic[s].ref > 0 /\ ic[s].valid => ic[s].ino = I[ic[s].inum]
                    /\ ic[s].lock # NoProc => ic[s].ref > 0 /\ ic[s].valid

-----------------------------------------------------------------------------
(* Arithmetic *)

\* The layout of the disk.
LEMMA Layout ==
    /\ BSIZE \in Nat /\ BSIZE > 1 /\ NDIRECT \in Nat /\ NDIRECT > 0 /\ MAXFILE = NDIRECT + BSIZE
    /\ MAXFILE \in Nat /\ NINODE \in Nat /\ NINODE > 0 /\ FSSIZE \in Nat /\ FSSIZE > 0
    /\ NINODES \in Nat /\ NINODES > 1 /\ nmeta = nlog + NINODES + 4 /\ nmeta \in Nat
    /\ nmeta > 0 /\ nlog \in Nat /\ inodestart \in Nat /\ bmapstart \in Nat
    /\ \A b \in 0..(FSSIZE - 1) : BBLOCK(b) = bmapstart
    /\ \A i \in Nat : IBLOCK(i) = i + inodestart
    /\ ROOTINO \in Inum
<1>1. ASSUME NEW a \in Nat, NEW b \in Nat, a < b PROVE a \div b = 0
  BY <1>1
<1>2. FSSIZE \div (FSSIZE + 1) = 0 /\ \A b \in 0..(FSSIZE - 1) : b \div (FSSIZE + 1) = 0
  BY <1>1, InodeAssumption
<1>3. \A i \in Nat : i \div 1 = i
  OBVIOUS
<1>4. nbitmap = 1 /\ ninodeblocks = NINODES + 1
  BY <1>2, <1>3, InodeAssumption DEF nbitmap, ninodeblocks, BPB, IPB
<1>5. nmeta = nlog + NINODES + 4 /\ nmeta \in Nat /\ nmeta > 0 /\ nlog \in Nat
  BY <1>4, InodeAssumption DEF nmeta
<1>6. inodestart \in Nat /\ bmapstart \in Nat
  BY <1>4, InodeAssumption DEF inodestart, bmapstart
<1>7. \A b \in 0..(FSSIZE - 1) : BBLOCK(b) = bmapstart
  BY <1>2, <1>6 DEF BBLOCK, BPB
<1>8. \A i \in Nat : IBLOCK(i) = i + inodestart
  BY <1>3 DEF IBLOCK, IPB
<1>9. ROOTINO \in Inum
  BY InodeAssumption DEF Inum, ROOTINO
<1>10. MAXFILE = NDIRECT + BSIZE
  BY DEF MAXFILE, NINDIRECT
<1>11. /\ BSIZE \in Nat /\ BSIZE > 1 /\ NDIRECT \in Nat /\ NDIRECT > 0 /\ NINODE \in Nat /\ NINODE > 0
       /\ FSSIZE \in Nat /\ FSSIZE > 0 /\ NINODES \in Nat /\ NINODES > 1
  BY InodeAssumption, FsAssumption
<1>. QED
  BY <1>5, <1>6, <1>7, <1>8, <1>9, <1>10, <1>11

\* The block and the place in it of an offset.
LEMMA CellOf ==
    ASSUME NEW o \in Nat
    PROVE  /\ o \div BSIZE \in Nat /\ o % BSIZE \in 0..(BSIZE - 1)
           /\ o = BSIZE * (o \div BSIZE) + (o % BSIZE)
           /\ (o \div BSIZE) * BSIZE <= o
           /\ o < ((o \div BSIZE) + 1) * BSIZE
BY Layout, Z3

\* An offset is the only one with its block and place.
LEMMA CellIs ==
    ASSUME NEW o \in Nat, NEW u \in Nat, o \div BSIZE = u \div BSIZE, o % BSIZE = u % BSIZE
    PROVE  o = u
BY CellOf

\* More blocks have more cells.
LEMMA MoreCells ==
    ASSUME NEW m \in Nat, NEW n \in Nat, m <= n
    PROVE  m * BSIZE <= n * BSIZE /\ m * BSIZE \in Nat /\ n * BSIZE \in Nat
BY Layout, Z3

\* An offset below n blocks.
LEMMA CellBelow ==
    ASSUME NEW o \in Nat, NEW n \in Nat
    PROVE  o < n * BSIZE <=> o \div BSIZE < n
<1>. DEFINE q == o \div BSIZE
<1>0. q \in Nat /\ q * BSIZE <= o /\ o < (q + 1) * BSIZE
  BY CellOf
<1>. HIDE DEF q
<1>1. q * BSIZE \in Nat /\ n * BSIZE \in Nat /\ (q + 1) * BSIZE \in Nat
  BY <1>0, Layout
<1>2. q < n => (q + 1) * BSIZE <= n * BSIZE
  BY <1>0, <1>1, MoreCells
<1>3. ~(q < n) => n * BSIZE <= q * BSIZE
  BY <1>0, <1>1, MoreCells
<1>4. o < n * BSIZE <=> q < n
  BY <1>0, <1>1, <1>2, <1>3
<1>. QED  BY <1>4 DEF q

\* The last block of o + 1 cells.
LEMMA CellAfter ==
    ASSUME NEW o \in Nat, NEW n \in Nat, n * BSIZE < o + 1
    PROVE  n * BSIZE < o \/ n = o \div BSIZE
<1>. DEFINE q == o \div BSIZE
<1>0. q \in Nat /\ q * BSIZE <= o /\ o < (q + 1) * BSIZE
  BY CellOf
<1>. HIDE DEF q
<1>1. /\ q * BSIZE \in Nat /\ n * BSIZE \in Nat /\ (q + 1) * BSIZE = q * BSIZE + BSIZE
      /\ BSIZE \in Nat /\ BSIZE > 1
  BY <1>0, Layout
<1>2. q + 1 <= n => (q + 1) * BSIZE <= n * BSIZE
  BY <1>0, <1>1, MoreCells
<1>3. n + 1 <= q => (n + 1) * BSIZE <= q * BSIZE /\ (n + 1) * BSIZE = n * BSIZE + BSIZE
  BY <1>0, <1>1, MoreCells
<1>4. n * BSIZE < o \/ n = q
  BY <1>0, <1>1, <1>2, <1>3
<1>. QED  BY <1>4 DEF q

-----------------------------------------------------------------------------
(* Blocks *)

\* The inodes have the block b at place n of inode i in addition.
Adds(I, D, J, E, i, n, b) ==
    \A j \in Inum, m \in Place :
        Blk(J, E, j, m) = IF j = i /\ m = n THEN b ELSE Blk(I, D, j, m)

\* A free block is a data block that nobody owns.
LEMMA FreeBlock ==
    ASSUME NEW I, NEW D, NEW U, Blocks(I, D, U), NEW b \in (0..(FSSIZE - 1)) \ U
    PROVE  /\ b \in Data /\ b # 0 /\ b \in Nat
           /\ \A i \in Inum, n \in Place : Blk(I, D, i, n) # b
<1>1. ~(b < nmeta) /\ \A i \in Inum, n \in Place : Blk(I, D, i, n) # b
  BY DEF Blocks, Marked
<1>0. nmeta \in Nat /\ nmeta > 0 /\ FSSIZE \in Nat /\ b \in 0..(FSSIZE - 1)
  BY Layout
<1>2. b \in Data /\ b # 0 /\ b \in Nat
  BY <1>0, <1>1 DEF Data
<1>. QED  BY <1>1, <1>2

\* One more block, taken from the free ones.
LEMMA AddsBlocks ==
    ASSUME NEW I, NEW D, NEW U, Blocks(I, D, U), NEW J, NEW E,
           NEW i \in Inum, NEW n \in Place, NEW b \in (0..(FSSIZE - 1)) \ U,
           Adds(I, D, J, E, i, n, b), Blk(I, D, i, n) = 0, Numbers(J, E)
    PROVE  Blocks(J, E, U \cup {b})
<1>1. /\ b \in Data /\ b # 0 /\ \A j \in Inum, m \in Place : Blk(I, D, j, m) # b
  BY FreeBlock
<1>2. \A j \in Inum, m \in Place : Blk(J, E, j, m) \in Data \cup {0}
  BY <1>1, Zenon DEF Adds, Blocks, Placed
<1>3. ASSUME NEW j \in Inum, NEW k \in Inum, NEW m \in Place, NEW o \in Place,
             Blk(J, E, j, m) = Blk(J, E, k, o), Blk(J, E, j, m) # 0
      PROVE  j = k /\ m = o
  <2>1. /\ Blk(J, E, j, m) = IF j = i /\ m = n THEN b ELSE Blk(I, D, j, m)
        /\ Blk(J, E, k, o) = IF k = i /\ o = n THEN b ELSE Blk(I, D, k, o)
    BY DEF Adds
  <2>2. Blk(I, D, j, m) = Blk(I, D, k, o) /\ Blk(I, D, j, m) # 0 => j = k /\ m = o
    BY Zenon DEF Blocks, OneOwner
  <2>. QED  BY <1>1, <1>3, <2>1, <2>2
<1>4. ASSUME NEW x \in 0..(FSSIZE - 1)
      PROVE  x \in U \cup {b} <=> x < nmeta \/ \E j \in Inum, m \in Place : Blk(J, E, j, m) = x
  <2>1. x \in U <=> x < nmeta \/ \E j \in Inum, m \in Place : Blk(I, D, j, m) = x
    BY DEF Blocks, Marked
  <2>2. 0 < nmeta
    BY Layout
  <2>3. CASE x = 0
    BY <2>1, <2>2, <2>3
  <2>4. CASE x # 0
    <3>1. \A j \in Inum, m \in Place : Blk(I, D, j, m) = x => Blk(J, E, j, m) = x
      BY <2>4 DEF Adds
    <3>2. \A j \in Inum, m \in Place : Blk(J, E, j, m) = x => x = b \/ Blk(I, D, j, m) = x
      BY DEF Adds
    <3>3. Blk(J, E, i, n) = b
      BY DEF Adds
    <3>. QED  BY <2>1, <3>1, <3>2, <3>3, Zenon
  <2>. QED  BY <2>3, <2>4
<1>. QED  BY <1>2, <1>3, <1>4 DEF Blocks, Placed, OneOwner, Marked

\* The types of blocks and inodes.
LEMMA Types ==
    /\ Zero \in Cell /\ Zero[1] = "" /\ Zero[2] = 0
    /\ ZeroBlock \in [0..(BSIZE - 1) -> Cell]
    /\ \A k \in 0..(BSIZE - 1) : ZeroBlock[k] = Zero
    /\ NoAddrs \in [0..NDIRECT -> 0..(FSSIZE - 1)] /\ \A k \in 0..NDIRECT : NoAddrs[k] = 0
    /\ \A b \in 0..(FSSIZE - 1) : <<"", b>> \in Cell
<1>1. "" \in Name /\ 0 \in 0..(FSSIZE - 1)
  BY Layout DEF Name
<1>2. Zero \in Cell /\ Zero[1] = "" /\ Zero[2] = 0 /\ \A b \in 0..(FSSIZE - 1) : <<"", b>> \in Cell
  BY <1>1 DEF Zero, Cell
<1>3. ZeroBlock \in [0..(BSIZE - 1) -> Cell] /\ \A k \in 0..(BSIZE - 1) : ZeroBlock[k] = Zero
  BY <1>2 DEF ZeroBlock
<1>. QED  BY <1>1, <1>2, <1>3 DEF NoAddrs

\* The kinds of places.
LEMMA Places ==
    /\ \A n \in 0..(NDIRECT - 1) : n \in Place /\ n # MAXFILE /\ n < NDIRECT
    /\ MAXFILE \in Place /\ ~(MAXFILE < NDIRECT)
    /\ \A k \in 0..(BSIZE - 1) : /\ NDIRECT + k \in Place /\ NDIRECT + k # MAXFILE
                                 /\ ~(NDIRECT + k < NDIRECT) /\ (NDIRECT + k) - NDIRECT = k
    /\ \A n \in Place : n \in 0..(NDIRECT - 1) \/ n = MAXFILE
                       \/ (n - NDIRECT \in 0..(BSIZE - 1) /\ n = NDIRECT + (n - NDIRECT))
BY Layout DEF Place

\* A direct block.
LEMMA BlkDirect ==
    ASSUME NEW I, NEW D, NEW i, NEW n \in 0..(NDIRECT - 1)
    PROVE  Blk(I, D, i, n) = I[i].addrs[n]
BY Places, Zenon DEF Blk

\* The indirect block.
LEMMA BlkIndirect ==
    ASSUME NEW I, NEW D, NEW i
    PROVE  Blk(I, D, i, MAXFILE) = I[i].addrs[NDIRECT]
BY Places, Zenon DEF Blk

\* A block in the indirect block.
LEMMA BlkFar ==
    ASSUME NEW I, NEW D, NEW i, NEW k \in 0..(BSIZE - 1)
    PROVE  Blk(I, D, i, NDIRECT + k) = IF I[i].addrs[NDIRECT] = 0 THEN 0
                                       ELSE D[I[i].addrs[NDIRECT]][k][2]
BY Places, Zenon DEF Blk

PlaceOf(k) == IF k = NDIRECT THEN MAXFILE ELSE k
WithAddr(I, i, k, b) == [I EXCEPT ![i].addrs[k] = b]
WithBlock(D, b) == [D EXCEPT ![b] = ZeroBlock]

\* A free block as a direct block, or as the indirect block.
LEMMA TakeDirect ==
    ASSUME NEW I \in Inodes, NEW D \in Datas, NEW U, Blocks(I, D, U),
           NEW i \in Inum, NEW k \in 0..NDIRECT, I[i].addrs[k] = 0,
           NEW b \in (0..(FSSIZE - 1)) \ U
    PROVE  /\ PlaceOf(k) \in Place /\ Blk(I, D, i, PlaceOf(k)) = 0
           /\ WithAddr(I, i, k, b) \in Inodes /\ WithBlock(D, b) \in Datas
           /\ Adds(I, D, WithAddr(I, i, k, b), WithBlock(D, b), i, PlaceOf(k), b)
           /\ Blocks(WithAddr(I, i, k, b), WithBlock(D, b), U \cup {b})
<1>. DEFINE J == WithAddr(I, i, k, b)
            E == WithBlock(D, b)
            n == PlaceOf(k)
<1>1. b \in Data /\ b # 0 /\ \A j \in Inum, m \in Place : Blk(I, D, j, m) # b
  BY FreeBlock
<1>2. /\ J \in Inodes
      /\ \A j \in Inum, x \in 0..NDIRECT : J[j].addrs[x] = IF j = i /\ x = k THEN b ELSE I[j].addrs[x]
  <2>1. J \in Inodes
    <3>1. I[i] \in Dinode /\ [I[i].addrs EXCEPT ![k] = b] \in [0..NDIRECT -> 0..(FSSIZE - 1)]
      BY DEF Inodes, Dinode
    <3>2. [I[i] EXCEPT !.addrs = [I[i].addrs EXCEPT ![k] = b]] \in Dinode
      BY <3>1 DEF Dinode
    <3>. QED  BY <3>2 DEF WithAddr, Inodes
  <2>2. ASSUME NEW j \in Inum, NEW x \in 0..NDIRECT
        PROVE  J[j].addrs[x] = IF j = i /\ x = k THEN b ELSE I[j].addrs[x]
    BY DEF WithAddr, Inodes, Dinode
  <2>. QED  BY <2>1, <2>2
<1>3. E \in Datas /\ E[b] = ZeroBlock /\ \A x \in Data \ {b} : E[x] = D[x]
  BY <1>1, Types DEF WithBlock, Datas
<1>4. n \in Place /\ Blk(I, D, i, n) = 0
  <2>1. k \in 0..(NDIRECT - 1) \/ k = NDIRECT
    BY Layout
  <2>2. NDIRECT \notin 0..(NDIRECT - 1)
    BY Layout
  <2>. QED  BY <2>1, <2>2, Places, BlkDirect, BlkIndirect DEF PlaceOf
<1>5. NDIRECT \in 0..NDIRECT /\ 0..(NDIRECT - 1) \subseteq 0..NDIRECT /\ NDIRECT \notin 0..(NDIRECT - 1)
  BY Layout
<1>. HIDE DEF J, E
<1>6. ASSUME NEW j \in Inum, I[j].addrs[NDIRECT] # 0
      PROVE  /\ J[j].addrs[NDIRECT] = I[j].addrs[NDIRECT]
             /\ E[J[j].addrs[NDIRECT]] = D[I[j].addrs[NDIRECT]]
  <2>1. J[j].addrs[NDIRECT] = I[j].addrs[NDIRECT]
    BY <1>2, <1>5, <1>6
  <2>2. I[j].addrs[NDIRECT] \in Data \ {b}
    BY <1>1, <1>6, BlkIndirect, Places DEF Blocks, Placed
  <2>. QED  BY <1>3, <2>1, <2>2
<1>7. ASSUME NEW j \in Inum, J[j].addrs[NDIRECT] # 0, I[j].addrs[NDIRECT] = 0
      PROVE  J[j].addrs[NDIRECT] = b /\ j = i /\ k = NDIRECT
  BY <1>2, <1>5, <1>7
<1>8. ASSUME NEW j \in Inum, NEW m \in Place
      PROVE  Blk(J, E, j, m) = IF j = i /\ m = n THEN b ELSE Blk(I, D, j, m)
  <2>1. CASE m \in 0..(NDIRECT - 1)
    <3>1. Blk(J, E, j, m) = J[j].addrs[m] /\ Blk(I, D, j, m) = I[j].addrs[m] /\ m # MAXFILE
      BY <2>1, BlkDirect, Places
    <3>2. m = n <=> m = k
      BY <2>1, <3>1, <1>5 DEF PlaceOf
    <3>3. m \in 0..NDIRECT
      BY <2>1, <1>5
    <3>. QED  BY <1>2, <3>1, <3>2, <3>3
  <2>2. CASE m = MAXFILE
    <3>1. Blk(J, E, j, m) = J[j].addrs[NDIRECT] /\ Blk(I, D, j, m) = I[j].addrs[NDIRECT]
      BY <2>2, BlkIndirect
    <3>2. m = n <=> k = NDIRECT
      <4>1. k # NDIRECT => k \in 0..(NDIRECT - 1)
        BY <1>5, Layout
      <4>. QED  BY <2>2, <4>1, Places DEF PlaceOf
    <3>. QED  BY <1>2, <1>5, <3>1, <3>2
  <2>3. CASE m - NDIRECT \in 0..(BSIZE - 1)
    <3>. DEFINE x == m - NDIRECT
    <3>1. x \in 0..(BSIZE - 1) /\ m = NDIRECT + x
      BY <2>3, Layout DEF Place
    <3>. HIDE DEF x
    <3>2. /\ m # MAXFILE
          /\ Blk(J, E, j, m) = IF J[j].addrs[NDIRECT] = 0 THEN 0 ELSE E[J[j].addrs[NDIRECT]][x][2]
          /\ Blk(I, D, j, m) = IF I[j].addrs[NDIRECT] = 0 THEN 0 ELSE D[I[j].addrs[NDIRECT]][x][2]
      <4>1. NDIRECT + x # MAXFILE
        BY <3>1, Places, Zenon
      <4>2. Blk(J, E, j, NDIRECT + x) = IF J[j].addrs[NDIRECT] = 0 THEN 0
                                        ELSE E[J[j].addrs[NDIRECT]][x][2]
        BY <3>1, BlkFar
      <4>3. Blk(I, D, j, NDIRECT + x) = IF I[j].addrs[NDIRECT] = 0 THEN 0
                                        ELSE D[I[j].addrs[NDIRECT]][x][2]
        BY <3>1, BlkFar
      <4>. QED  BY <3>1, <4>1, <4>2, <4>3, Zenon
    <3>3. m # n
      BY <3>1, <3>2, Layout DEF PlaceOf
    <3>4. CASE I[j].addrs[NDIRECT] # 0
      BY <3>2, <3>3, <3>4, <1>6
    <3>5. CASE I[j].addrs[NDIRECT] = 0 /\ J[j].addrs[NDIRECT] = 0
      BY <3>2, <3>3, <3>5
    <3>6. CASE I[j].addrs[NDIRECT] = 0 /\ J[j].addrs[NDIRECT] # 0
      <4>1. E[J[j].addrs[NDIRECT]][x][2] = 0
        BY <1>3, <1>7, <3>1, <3>6, Types
      <4>. QED  BY <3>2, <3>3, <3>6, <4>1
    <3>. QED  BY <3>4, <3>5, <3>6
  <2>. QED  BY <2>1, <2>2, <2>3, Places
<1>9. Adds(I, D, J, E, i, n, b)
  BY <1>8 DEF Adds
<1>10. Numbers(J, E)
  <2>1. ASSUME NEW j \in Inum, J[j].addrs[NDIRECT] # 0, NEW x \in 0..(BSIZE - 1)
        PROVE  E[J[j].addrs[NDIRECT]][x][1] = ""
    <3>1. CASE I[j].addrs[NDIRECT] # 0
      BY <3>1, <1>6, ZenonT(30) DEF Blocks, Numbers
    <3>2. CASE I[j].addrs[NDIRECT] = 0
      <4>1. J[j].addrs[NDIRECT] = b
        BY <1>7, <2>1, <3>2
      <4>2. E[b][x] = Zero
        BY <1>3, Types
      <4>. QED  BY <4>1, <4>2, Types
    <3>. QED  BY <3>1, <3>2
  <2>. QED  BY <2>1 DEF Numbers
<1>11. Blocks(J, E, U \cup {b})
  BY <1>4, <1>9, <1>10, AddsBlocks
<1>. QED  BY <1>2, <1>3, <1>4, <1>9, <1>11 DEF J, E

WithCell(D, b, k, c) == [D EXCEPT ![b][k] = c]

\* The data after one cell was written.
LEMMA WithCellIs ==
    ASSUME NEW D \in Datas, NEW b \in Data, NEW k \in 0..(BSIZE - 1), NEW c \in Cell,
           NEW E, E = WithCell(D, b, k, c)
    PROVE  /\ E \in Datas
           /\ \A x \in Data, y \in 0..(BSIZE - 1) : E[x][y] = IF x = b /\ y = k THEN c ELSE D[x][y]
           /\ \A x \in Data \ {b} : E[x] = D[x]
<1>1. [D[b] EXCEPT ![k] = c] \in [0..(BSIZE - 1) -> Cell]
  BY DEF Datas
<1>2. E = [D EXCEPT ![b] = [D[b] EXCEPT ![k] = c]]
  BY DEF WithCell
<1>. QED  BY <1>1, <1>2 DEF Datas

\* The data after a block was taken and entered into the indirect block a.
LEMMA FarData ==
    ASSUME NEW D \in Datas, NEW b \in Data, NEW a \in Data, a # b, NEW k \in 0..(BSIZE - 1),
           NEW c \in Cell, NEW E, E = WithCell(WithBlock(D, b), a, k, c)
    PROVE  /\ E \in Datas /\ E[b] = ZeroBlock
           /\ \A x \in Data \ {b}, y \in 0..(BSIZE - 1) : E[x][y] = IF x = a /\ y = k THEN c ELSE D[x][y]
           /\ \A x \in Data \ {a, b} : E[x] = D[x]
<1>. DEFINE W == WithBlock(D, b)
<1>1. W \in Datas /\ W[b] = ZeroBlock /\ \A x \in Data \ {b} : W[x] = D[x]
  BY Types DEF WithBlock, Datas
<1>2. E = WithCell(W, a, k, c)
  OBVIOUS
<1>. HIDE DEF W
<1>3. /\ E \in Datas /\ \A x \in Data \ {a} : E[x] = W[x]
      /\ \A x \in Data, y \in 0..(BSIZE - 1) : E[x][y] = IF x = a /\ y = k THEN c ELSE W[x][y]
  BY <1>1, <1>2, WithCellIs
<1>. QED  BY <1>1, <1>3

\* Data blocks have numbers above 0.
LEMMA DataNumbers == \A b \in Data : b \in Nat /\ b # 0 /\ b \in 0..(FSSIZE - 1)
BY Layout DEF Data

\* Places below the indirect block.
LEMMA BelowMax == \A n \in 0..(MAXFILE - 1) : n \in Nat /\ n < MAXFILE
BY Layout

\* Places of data.
LEMMA InPlace ==
    ASSUME NEW n \in 0..(MAXFILE - 1)
    PROVE  n \in Place
BY Layout DEF Place

\* An entry of an indirect block.
Ptr(b) == <<"", b>>

\* It is a cell with no name and the number b.
LEMMA PtrIs == \A b \in 0..(FSSIZE - 1) : Ptr(b) \in Cell /\ Ptr(b)[1] = "" /\ Ptr(b)[2] = b
BY Types DEF Ptr

\* A block of zeros as the k'th one of an indirect block a.
FarTaken(I, D, U, i, k, b, a, E) ==
    /\ E \in Datas /\ a \in Data /\ a # b /\ Adds(I, D, I, E, i, NDIRECT + k, b)
    /\ Blocks(I, E, U \cup {b}) /\ \A x \in Data \ {a, b} : E[x] = D[x]

\* A free block as the k'th one of an indirect block.
LEMMA TakeFar ==
    ASSUME NEW I \in Inodes, NEW D \in Datas, NEW U, Blocks(I, D, U),
           NEW i \in Inum, NEW k \in 0..(BSIZE - 1), NEW b \in (0..(FSSIZE - 1)) \ U,
           NEW a, a = I[i].addrs[NDIRECT], a # 0, Blk(I, D, i, NDIRECT + k) = 0, NEW E,
           E = WithCell(WithBlock(D, b), a, k, Ptr(b))
    PROVE  FarTaken(I, D, U, i, k, b, a, E)
<1>1. b \in Data /\ b # 0 /\ \A j \in Inum, m \in Place : Blk(I, D, j, m) # b
  BY FreeBlock
<1>2. \A j \in Inum : I[j].addrs[NDIRECT] # 0 =>
         /\ I[j].addrs[NDIRECT] \in Data /\ I[j].addrs[NDIRECT] # b
         /\ (I[j].addrs[NDIRECT] = a => j = i)
  BY <1>1, BlkIndirect, Places DEF Blocks, Placed, OneOwner
<1>4. a \in Data /\ a # b
  BY <1>2
<1>3. Ptr(b) \in Cell
  BY PtrIs
<1>5. /\ E \in Datas
      /\ \A x \in Data \ {b}, y \in 0..(BSIZE - 1) : E[x][y] = IF x = a /\ y = k THEN Ptr(b) ELSE D[x][y]
      /\ \A x \in Data \ {a, b} : E[x] = D[x]
  BY <1>1, <1>3, <1>4, FarData
<1>6. NDIRECT + k \in Place
  BY Places
<1>7. ASSUME NEW j \in Inum, NEW y \in 0..(BSIZE - 1), I[j].addrs[NDIRECT] # 0
      PROVE  E[I[j].addrs[NDIRECT]][y] = IF j = i /\ y = k THEN Ptr(b)
                                         ELSE D[I[j].addrs[NDIRECT]][y]
  <2>1. I[j].addrs[NDIRECT] \in Data \ {b} /\ (I[j].addrs[NDIRECT] = a <=> j = i)
    BY <1>2, <1>7
  <2>. QED  BY <2>1, <1>5
<1>8. ASSUME NEW j \in Inum, NEW m \in Place
      PROVE  Blk(I, E, j, m) = IF j = i /\ m = NDIRECT + k THEN b ELSE Blk(I, D, j, m)
  <2>1. CASE m \in 0..(NDIRECT - 1)
    <3>1. Blk(I, E, j, m) = I[j].addrs[m] /\ Blk(I, D, j, m) = I[j].addrs[m]
      BY <2>1, BlkDirect
    <3>2. m # NDIRECT + k
      BY <2>1, Layout
    <3>. QED  BY <3>1, <3>2
  <2>2. CASE m = MAXFILE
    BY <2>2, BlkIndirect, Places
  <2>3. CASE m - NDIRECT \in 0..(BSIZE - 1) /\ m = NDIRECT + (m - NDIRECT)
    <3>. DEFINE x == m - NDIRECT
    <3>1. x \in 0..(BSIZE - 1) /\ m = NDIRECT + x
      BY <2>3
    <3>. HIDE DEF x
    <3>2. m = NDIRECT + k <=> x = k
      BY <3>1, Layout
    <3>3. /\ Blk(I, E, j, m) = IF I[j].addrs[NDIRECT] = 0 THEN 0 ELSE E[I[j].addrs[NDIRECT]][x][2]
          /\ Blk(I, D, j, m) = IF I[j].addrs[NDIRECT] = 0 THEN 0 ELSE D[I[j].addrs[NDIRECT]][x][2]
      BY <3>1, BlkFar
    <3>. QED  BY <3>1, <3>2, <3>3, <1>7, PtrIs
  <2>. QED  BY <2>1, <2>2, <2>3, Places
<1>9. Adds(I, D, I, E, i, NDIRECT + k, b)
  BY <1>8 DEF Adds
<1>10. Numbers(I, E)
  <2>1. ASSUME NEW j \in Inum, NEW y \in 0..(BSIZE - 1), I[j].addrs[NDIRECT] # 0
        PROVE  E[I[j].addrs[NDIRECT]][y][1] = ""
    <3>1. D[I[j].addrs[NDIRECT]][y][1] = ""
      BY <2>1 DEF Blocks, Numbers
    <3>2. E[I[j].addrs[NDIRECT]][y] = Ptr(b) \/ E[I[j].addrs[NDIRECT]][y] = D[I[j].addrs[NDIRECT]][y]
      BY <1>7, <2>1
    <3>. QED  BY <3>1, <3>2, PtrIs
  <2>. QED  BY <2>1 DEF Numbers
<1>11. Blocks(I, E, U \cup {b})
  BY <1>6, <1>9, <1>10, AddsBlocks
<1>. QED  BY <1>4, <1>5, <1>6, <1>9, <1>11 DEF FarTaken

\* A cell of a block that is not an indirect block.
LEMMA StoreCell ==
    ASSUME NEW I \in Inodes, NEW D \in Datas, NEW U, Blocks(I, D, U),
           NEW i \in Inum, NEW n \in 0..(MAXFILE - 1), Blk(I, D, i, n) # 0,
           NEW k \in 0..(BSIZE - 1), NEW c \in Cell
    PROVE  LET E == WithCell(D, Blk(I, D, i, n), k, c)
           IN  /\ E \in Datas /\ Blocks(I, E, U)
               /\ \A j \in Inum, m \in Place : Blk(I, E, j, m) = Blk(I, D, j, m)
<1>. DEFINE b == Blk(I, D, i, n)
            E == WithCell(D, b, k, c)
<1>1. n \in Place /\ n # MAXFILE /\ MAXFILE \in Place
  BY Layout DEF Place
<1>2. b \in Data
  BY <1>1 DEF Blocks, Placed
<1>. HIDE DEF b
<1>3. E \in Datas /\ \A x \in Data \ {b} : E[x] = D[x]
  BY <1>2, WithCellIs
<1>. HIDE DEF E
<1>4. ASSUME NEW j \in Inum, I[j].addrs[NDIRECT] # 0
      PROVE  E[I[j].addrs[NDIRECT]] = D[I[j].addrs[NDIRECT]]
  <2>1. I[j].addrs[NDIRECT] = Blk(I, D, j, MAXFILE)
    BY BlkIndirect
  <2>2. Blk(I, D, j, MAXFILE) # b
    BY <1>1, <1>4, <2>1 DEF Blocks, OneOwner, b
  <2>3. I[j].addrs[NDIRECT] \in Data
    BY <1>1, <1>4, <2>1 DEF Blocks, Placed
  <2>. QED  BY <1>3, <2>1, <2>2, <2>3
<1>5. ASSUME NEW j \in Inum, NEW m \in Place
      PROVE  Blk(I, E, j, m) = Blk(I, D, j, m)
  <2>1. CASE I[j].addrs[NDIRECT] # 0
    BY <1>4, <2>1, Zenon DEF Blk
  <2>2. CASE I[j].addrs[NDIRECT] = 0
    BY <2>2, Zenon DEF Blk
  <2>. QED  BY <2>1, <2>2
<1>6. Numbers(I, E)
  BY <1>4 DEF Blocks, Numbers
<1>7. Blocks(I, E, U)
  BY <1>5, <1>6 DEF Blocks, Placed, OneOwner, Marked
<1>. QED  BY <1>3, <1>5, <1>7 DEF E, b

-----------------------------------------------------------------------------
(* balloc() and bmap() *)

\* The fields of a file system state.
Fields(G, di, data, used, ic, log, panic) ==
    /\ G \in FsState /\ G.di = di /\ G.data = data /\ G.used = used /\ G.ic = ic
    /\ G.log = log /\ G.panic = panic

\* A block is written and logged.
LEMMA DataLogged ==
    ASSUME NEW H, NEW di, NEW data, NEW used, NEW ic, NEW log, NEW panic,
           Fields(H, di, data, used, ic, log, panic), NEW E \in Datas, NEW x,
           log \cup {x} \in SUBSET Nat, NEW G, G = [H EXCEPT !.data = E, !.log = @ \cup {x}]
    PROVE  Fields(G, di, E, used, ic, log \cup {x}, panic)
BY DEF Fields, FsState

\* The state of the kernel after a panic.
LEMMA PanicIs ==
    ASSUME NEW F \in FsState, Ok(F), NEW why \in Reason
    PROVE  Fields(Panic(F, why), F.di, F.data, F.used, F.ic, F.log, why)
<1>1. Panic(F, why) = [F EXCEPT !.panic = why]
  BY DEF Panic
<1>. QED  BY <1>1 DEF Fields, FsState

\* The disk is full, or balloc() takes the free block b.
BRec == [fs : FsState, b : 0..(FSSIZE - 1)]
Full(F, r) ==
    /\ r \in BRec /\ F.used = 0..(FSSIZE - 1) /\ r.b = 0
    /\ Fields(r.fs, F.di, F.data, F.used, F.ic, F.log, "balloc")
Took(F, r, b) ==
    /\ r \in BRec /\ b \in (0..(FSSIZE - 1)) \ F.used /\ r.b = b
    /\ Fields(r.fs, F.di, WithBlock(F.data, b), F.used \cup {b}, F.ic,
              F.log \cup {bmapstart, b}, F.panic)

\* What balloc() does.
LEMMA BallocIs ==
    ASSUME NEW F \in FsState, Ok(F), NEW r, r = balloc(F), NEW I, Blocks(I, F.data, F.used)
    PROVE  Full(F, r) \/ \E b \in (0..(FSSIZE - 1)) \ F.used : Took(F, r, b)
<1>1. CASE (0..(FSSIZE - 1)) \subseteq F.used
  <2>1. r = [fs |-> Panic(F, "balloc"), b |-> 0]
    BY <1>1 DEF balloc
  <2>2. F.used = 0..(FSSIZE - 1)
    BY <1>1 DEF FsState
  <2>3. r.fs = Panic(F, "balloc") /\ r.b = 0
    BY <2>1
  <2>4. Fields(Panic(F, "balloc"), F.di, F.data, F.used, F.ic, F.log, "balloc")
    <3>1. "balloc" \in Reason
      BY DEF Reason
    <3>. QED  BY <3>1, PanicIs
  <2>5. r \in BRec
    BY <2>1, <2>4, Layout DEF Fields, BRec
  <2>. QED  BY <2>2, <2>3, <2>4, <2>5 DEF Full
<1>2. CASE ~((0..(FSSIZE - 1)) \subseteq F.used)
  <2>. DEFINE S == (0..(FSSIZE - 1)) \ F.used
              b == Min(S)
  <2>1. S \in SUBSET Nat /\ S # {}
    BY <1>2, Layout
  <2>2. b \in S
    BY <2>1, LeastNumber
  <2>. HIDE DEF b
  <2>3. r = Mark(F, b)
    BY <1>2 DEF balloc, b
  <2>4. b \in Data /\ b \in Nat
    BY <2>2, FreeBlock
  <2>5. BBLOCK(b) = bmapstart /\ bmapstart \in Nat
    BY <2>2, Layout
  <2>6. WithBlock(F.data, b) \in Datas
    BY <2>4, Types DEF WithBlock, Datas, FsState
  <2>7. r.b = b /\ r.fs = [F EXCEPT !.used = @ \cup {b}, !.data = WithBlock(F.data, b),
                                    !.log = @ \cup {bmapstart, b}]
    BY <2>3, <2>5 DEF Mark, WithBlock
  <2>8. Fields(r.fs, F.di, WithBlock(F.data, b), F.used \cup {b}, F.ic,
               F.log \cup {bmapstart, b}, F.panic)
    <3>1. F.used \cup {b} \in SUBSET (0..(FSSIZE - 1)) /\ F.log \cup {bmapstart, b} \in SUBSET Nat
      BY <2>2, <2>4, <2>5 DEF FsState
    <3>. QED  BY <2>6, <2>7, <3>1 DEF Fields, FsState
  <2>9. r \in BRec
    BY <2>2, <2>3, <2>7, <2>8 DEF Fields, BRec, Mark
  <2>. QED  BY <2>2, <2>7, <2>8, <2>9 DEF Took
<1>. QED  BY <1>1, <1>2

\* The inodes as the holder of entry s sees them.
See(F, s) == [F.di EXCEPT ![F.ic[s].inum] = F.ic[s].ino]

\* Only the block addresses of the copy in entry s differ.
SameIc(ic, jc, s) ==
    \A t \in Slot : /\ jc[t].inum = ic[t].inum /\ jc[t].ref = ic[t].ref
                    /\ jc[t].valid = ic[t].valid /\ jc[t].lock = ic[t].lock
                    /\ t # s => jc[t] = ic[t]
                    /\ jc[t].ino.type = ic[t].ino.type /\ jc[t].ino.major = ic[t].ino.major
                    /\ jc[t].ino.nlink = ic[t].ino.nlink /\ jc[t].ino.size = ic[t].ino.size

\* Blocks stay where they are, and those of inodes other than i stay at all.
Keeps(I, D, J, E, i) ==
    \A j \in Inum, m \in Place : Blk(I, D, j, m) # 0 \/ j # i => Blk(J, E, j, m) = Blk(I, D, j, m)

\* The contents of the blocks stay.
Holds(I, D, E) ==
    \A j \in Inum, m \in 0..(MAXFILE - 1) : Blk(I, D, j, m) # 0 => E[Blk(I, D, j, m)] = D[Blk(I, D, j, m)]

\* The inode in entry s has got blocks.
Grew(F, G, s) ==
    /\ G \in FsState /\ G.di = F.di /\ SameIc(F.ic, G.ic, s)
    /\ Blocks(See(G, s), G.data, G.used)
    /\ Keeps(See(F, s), F.data, See(G, s), G.data, F.ic[s].inum)
    /\ Holds(See(F, s), F.data, G.data)

\* What is seen is well formed.
LEMMA SeeIs ==
    ASSUME NEW F \in FsState, NEW s \in Slot, F.ic[s].inum \in Inum
    PROVE  /\ See(F, s) \in Inodes /\ See(F, s)[F.ic[s].inum] = F.ic[s].ino
           /\ \A i \in Inum \ {F.ic[s].inum} : See(F, s)[i] = F.di[i]
           /\ F.ic[s].ino \in Dinode /\ F.ic[s] \in InodeRec /\ F.data \in Datas /\ F.di \in Inodes
<1>1. F.ic \in [Slot -> InodeRec] /\ F.data \in Datas /\ F.di \in Inodes
  BY DEF FsState
<1>2. F.ic[s].ino \in Dinode /\ F.ic[s] \in InodeRec
  BY <1>1 DEF InodeRec
<1>. QED  BY <1>1, <1>2 DEF See, Inodes

\* The copy in entry s with another address.
InoAddr(d, k, b) == [d EXCEPT !.addrs[k] = b]
IcAddr(ic, s, k, b) == [ic EXCEPT ![s].ino.addrs[k] = b]

\* Setting one address of the copy in entry s changes nothing else of the cache.
LEMMA AddrSet ==
    ASSUME NEW ic \in [Slot -> InodeRec], NEW s \in Slot, NEW k \in 0..NDIRECT,
           NEW b \in 0..(FSSIZE - 1), NEW jc, jc = IcAddr(ic, s, k, b)
    PROVE  /\ jc \in [Slot -> InodeRec] /\ SameIc(ic, jc, s)
           /\ jc[s].ino = InoAddr(ic[s].ino, k, b)
<1>1. ic[s] \in InodeRec /\ ic[s].ino \in Dinode
  BY DEF InodeRec
<1>2. InoAddr(ic[s].ino, k, b) \in Dinode
  <2>1. [ic[s].ino.addrs EXCEPT ![k] = b] \in [0..NDIRECT -> 0..(FSSIZE - 1)]
    BY <1>1 DEF Dinode
  <2>. QED  BY <1>1, <2>1 DEF Dinode, InoAddr
<1>3. jc = [ic EXCEPT ![s] = [ic[s] EXCEPT !.ino = InoAddr(ic[s].ino, k, b)]]
  BY DEF IcAddr, InoAddr
<1>4. [ic[s] EXCEPT !.ino = InoAddr(ic[s].ino, k, b)] \in InodeRec
  BY <1>1, <1>2 DEF InodeRec
<1>5. jc \in [Slot -> InodeRec]
  BY <1>3, <1>4
<1>6. jc[s].ino = InoAddr(ic[s].ino, k, b)
  BY <1>1, <1>3 DEF InodeRec
<1>7. SameIc(ic, jc, s)
  BY <1>1, <1>3 DEF SameIc, InodeRec, Dinode, InoAddr
<1>. QED  BY <1>5, <1>6, <1>7

\* Nothing happened.
LEMMA GrewNot ==
    ASSUME NEW F \in FsState, NEW s \in Slot, Blocks(See(F, s), F.data, F.used),
           NEW G \in FsState, G.di = F.di, G.data = F.data, G.used = F.used, G.ic = F.ic
    PROVE  Grew(F, G, s) /\ See(G, s) = See(F, s)
<1>1. See(G, s) = See(F, s)
  BY DEF See
<1>. QED  BY <1>1 DEF Grew, SameIc, Keeps, Holds

\* A block was added.
LEMMA GrewBy ==
    ASSUME NEW F \in FsState, NEW s \in Slot, F.ic[s].inum \in Inum,
           Blocks(See(F, s), F.data, F.used), NEW G \in FsState, G.di = F.di,
           SameIc(F.ic, G.ic, s), Blocks(See(G, s), G.data, G.used),
           NEW n \in Place, NEW b \in (0..(FSSIZE - 1)) \ F.used,
           Blk(See(F, s), F.data, F.ic[s].inum, n) = 0,
           Adds(See(F, s), F.data, See(G, s), G.data, F.ic[s].inum, n, b),
           NEW a, \A j \in Inum, m \in 0..(MAXFILE - 1) : Blk(See(F, s), F.data, j, m) # 0 =>
                     Blk(See(F, s), F.data, j, m) # a,
           \A x \in Data \ {a, b} : G.data[x] = F.data[x]
    PROVE  Grew(F, G, s)
<1>1. Keeps(See(F, s), F.data, See(G, s), G.data, F.ic[s].inum)
  BY DEF Keeps, Adds
<1>2. 0..(MAXFILE - 1) \subseteq Place
  BY Layout DEF Place
<1>3. \A j \in Inum, m \in Place : Blk(See(F, s), F.data, j, m) # b
  BY FreeBlock
<1>4. ASSUME NEW j \in Inum, NEW m \in 0..(MAXFILE - 1), Blk(See(F, s), F.data, j, m) # 0
      PROVE  G.data[Blk(See(F, s), F.data, j, m)] = F.data[Blk(See(F, s), F.data, j, m)]
  <2>1. Blk(See(F, s), F.data, j, m) \in Data \ {a, b}
    BY <1>2, <1>3, <1>4 DEF Blocks, Placed
  <2>. QED  BY <2>1
<1>5. Holds(See(F, s), F.data, G.data)
  BY <1>4 DEF Holds
<1>. QED  BY <1>1, <1>5 DEF Grew

\* Where a step of bmap() came to: r.b is the block at place n, or the disk is full.
Mapped(r, s, n) ==
    \/ Ok(r.fs) /\ r.b # 0 /\ r.b = Blk(See(r.fs, s), r.fs.data, r.fs.ic[s].inum, n)
    \/ r.fs.panic = "balloc" /\ r.fs.used = 0..(FSSIZE - 1)

\* A direct block, or the indirect block.
LEMMA DirectIs ==
    ASSUME NEW F \in FsState, Ok(F), NEW s \in Slot, F.ic[s].inum \in Inum,
           Blocks(See(F, s), F.data, F.used), NEW k \in 0..NDIRECT,
           NEW r, r = Direct(F, s, k)
    PROVE  /\ Grew(F, r.fs, s) /\ Mapped(r, s, PlaceOf(k))
           /\ F.ic[s].ino.addrs[k] # 0 => r.fs = F
           /\ \A x \in r.fs.log : x \in F.log \cup {bmapstart}
                 \/ (x # 0 /\ x = Blk(See(r.fs, s), r.fs.data, F.ic[s].inum, PlaceOf(k)))
<1>. DEFINE i == F.ic[s].inum
            I == See(F, s)
            n == PlaceOf(k)
<1>1. /\ I \in Inodes /\ I[i] = F.ic[s].ino /\ F.ic[s].ino \in Dinode /\ F.data \in Datas
      /\ F.di \in Inodes /\ F.ic[s] \in InodeRec
  BY SeeIs
<1>2. k \in 0..(NDIRECT - 1) \/ k = NDIRECT
  BY Layout
<1>3. Blk(I, F.data, i, n) = F.ic[s].ino.addrs[k]
  <2>1. NDIRECT \notin 0..(NDIRECT - 1)
    BY Layout
  <2>. QED  BY <1>1, <1>2, <2>1, BlkDirect, BlkIndirect DEF PlaceOf
<1>4. CASE F.ic[s].ino.addrs[k] # 0
  <2>1. r.fs = F /\ r.b = F.ic[s].ino.addrs[k]
    BY <1>4 DEF Direct, ino
  <2>2. Grew(F, r.fs, s)
    BY <2>1, GrewNot
  <2>. QED  BY <1>3, <1>4, <2>1, <2>2 DEF Mapped
<1>5. CASE F.ic[s].ino.addrs[k] = 0
  <2>. DEFINE q == balloc(F)
  <2>1. r = SetAddr(q, s, k)
    BY <1>5 DEF Direct, ino
  <2>. HIDE DEF q
  <2>2. Full(F, q) \/ \E b \in (0..(FSSIZE - 1)) \ F.used : Took(F, q, b)
    BY BallocIs DEF q
  <2>3. CASE Full(F, q)
    <3>1. r = q
      BY <2>1, <2>3 DEF SetAddr, Full, Fields, Ok
    <3>2. Grew(F, r.fs, s)
      BY <2>3, <3>1, GrewNot DEF Full, Fields
    <3>. QED  BY <1>5, <2>3, <3>1, <3>2 DEF Full, Fields, Mapped
  <2>4. ASSUME NEW b \in (0..(FSSIZE - 1)) \ F.used, Took(F, q, b)
        PROVE  /\ Grew(F, r.fs, s) /\ Mapped(r, s, n)
               /\ \A x \in r.fs.log : x \in F.log \cup {bmapstart} \/ (x # 0 /\ x = Blk(See(r.fs, s), r.fs.data, i, n))
    <3>. DEFINE jc == IcAddr(F.ic, s, k, b)
                G == r.fs
    <3>1. Ok(q.fs) /\ q.b = b /\ q.fs \in FsState /\ q.fs.ic = F.ic
      BY <2>4 DEF Took, Fields, Ok
    <3>2. r = [q EXCEPT !.fs = [q.fs EXCEPT !.ic[s].ino.addrs[k] = q.b]]
      BY <2>1, <3>1 DEF SetAddr
    <3>3. F.ic \in [Slot -> InodeRec]
      BY DEF FsState
    <3>4. /\ jc \in [Slot -> InodeRec] /\ SameIc(F.ic, jc, s)
          /\ jc[s].ino = InoAddr(F.ic[s].ino, k, b)
      BY <3>3, AddrSet
    <3>5. r.b = b /\ r.fs = [q.fs EXCEPT !.ic = jc]
      BY <3>1, <3>2, <2>4 DEF Took, BRec, IcAddr
    <3>. HIDE DEF jc
    <3>6. Fields(G, F.di, WithBlock(F.data, b), F.used \cup {b}, jc, F.log \cup {bmapstart, b}, F.panic)
      BY <2>4, <3>4, <3>5 DEF Took, Fields, FsState
    <3>7. See(G, s) = WithAddr(I, i, k, b)
      BY <1>1, <3>4, <3>6 DEF Fields, See, WithAddr, SameIc, Inodes, InoAddr
    <3>8. /\ n \in Place /\ Blk(I, F.data, i, n) = 0
          /\ Adds(I, F.data, WithAddr(I, i, k, b), WithBlock(F.data, b), i, n, b)
          /\ Blocks(WithAddr(I, i, k, b), WithBlock(F.data, b), F.used \cup {b})
      BY <1>1, <1>5, TakeDirect
    <3>9. \A x \in Data \ {b} : G.data[x] = F.data[x]
      BY <1>1, <3>6 DEF Fields, WithBlock, Datas
    <3>10. Grew(F, G, s)
      <4>1. \A j \in Inum, m \in 0..(MAXFILE - 1) : Blk(I, F.data, j, m) # 0 => Blk(I, F.data, j, m) # 0
        OBVIOUS
      <4>2. \A x \in Data \ {0, b} : G.data[x] = F.data[x]
        BY <3>9
      <4>3. G \in FsState /\ G.di = F.di /\ SameIc(F.ic, G.ic, s) /\ Blocks(See(G, s), G.data, G.used)
            /\ Adds(I, F.data, See(G, s), G.data, i, n, b)
        BY <3>4, <3>6, <3>7, <3>8 DEF Fields
      <4>. QED  BY <3>8, <4>1, <4>2, <4>3, GrewBy
    <3>11. Blk(See(G, s), G.data, i, n) = b /\ b # 0
      BY <3>6, <3>7, <3>8, FreeBlock DEF Adds, Fields
    <3>12. G.ic[s].inum = i
      BY <3>4, <3>6 DEF Fields, SameIc
    <3>. QED  BY <3>5, <3>6, <3>10, <3>11, <3>12 DEF Fields, Mapped, Ok
  <2>. QED  BY <1>5, <2>2, <2>3, <2>4
<1>. QED  BY <1>4, <1>5

\* Growth is transitive.
LEMMA GrewMore ==
    ASSUME NEW F, NEW G, NEW H, NEW s \in Slot, Grew(F, G, s), Grew(G, H, s)
    PROVE  Grew(F, H, s)
<1>1. G.ic[s].inum = F.ic[s].inum
  BY DEF Grew, SameIc
<1>2. SameIc(F.ic, H.ic, s)
  BY DEF Grew, SameIc
<1>3. Keeps(See(F, s), F.data, See(H, s), H.data, F.ic[s].inum)
  BY <1>1 DEF Grew, Keeps
<1>4. 0..(MAXFILE - 1) \subseteq Place
  BY Layout DEF Place
<1>5. Holds(See(F, s), F.data, H.data)
  <2>1. ASSUME NEW j \in Inum, NEW m \in 0..(MAXFILE - 1), Blk(See(F, s), F.data, j, m) # 0
        PROVE  H.data[Blk(See(F, s), F.data, j, m)] = F.data[Blk(See(F, s), F.data, j, m)]
    <3>1. Blk(See(G, s), G.data, j, m) = Blk(See(F, s), F.data, j, m)
      BY <1>4, <2>1 DEF Grew, Keeps
    <3>2. /\ G.data[Blk(See(F, s), F.data, j, m)] = F.data[Blk(See(F, s), F.data, j, m)]
          /\ H.data[Blk(See(G, s), G.data, j, m)] = G.data[Blk(See(G, s), G.data, j, m)]
      BY <2>1, <3>1 DEF Grew, Holds
    <3>. QED  BY <3>1, <3>2
  <2>. QED  BY <2>1 DEF Holds
<1>. QED  BY <1>2, <1>3, <1>5 DEF Grew

\* A cell is a pair.
LEMMA CellPair == \A c \in Cell : c = <<c[1], c[2]>> /\ c[1] \in Name /\ c[2] \in 0..(FSSIZE - 1)
BY DEF Cell

\* A cell other than Zero in an indirect block is a block number.
LEMMA NumberIs ==
    ASSUME NEW D \in Datas, NEW a \in Data, NEW k \in 0..(BSIZE - 1), D[a][k][1] = ""
    PROVE  D[a][k] = Zero <=> D[a][k][2] = 0
<1>1. D[a][k] \in Cell
  BY DEF Datas
<1>. DEFINE c == D[a][k]
<1>2. c[1] = "" /\ c \in Cell
  BY <1>1
<1>. HIDE DEF c
<1>3. c = <<c[1], c[2]>>
  BY <1>2, CellPair, Zenon
<1>4. c[2] = 0 => c = Zero
  BY <1>2, <1>3, Zenon DEF Zero
<1>5. c = Zero => c[2] = 0
  BY Types
<1>. QED  BY <1>4, <1>5 DEF c

\* bmap() asks for block k of the indirect block a of the inode in entry s.
FarAsked(q, s, F, a) ==
    /\ q \in BRec /\ F = q.fs /\ a = q.b
    /\ F \in FsState /\ Ok(F) /\ F.ic[s].inum \in Inum /\ Blocks(See(F, s), F.data, F.used)
    /\ a # 0 /\ a = F.ic[s].ino.addrs[NDIRECT]

\* What it gets.
FarGot(r, s, F, a, n) ==
    /\ r \in BRec /\ Grew(F, r.fs, s) /\ Mapped(r, s, n)
    /\ Blk(See(F, s), F.data, F.ic[s].inum, n) # 0 => r.fs = F
    /\ \A x \in r.fs.log : \/ x \in F.log \cup {bmapstart, a}
                           \/ (x # 0 /\ x = Blk(See(r.fs, s), r.fs.data, F.ic[s].inum, n))

\* A block of the indirect block, there before or new, or a full disk.
LEMMA IndirectAt ==
    ASSUME NEW q, NEW s \in Slot, NEW k \in 0..(BSIZE - 1), NEW r, r = Indirect(q, k),
           NEW F, NEW a, FarAsked(q, s, F, a)
    PROVE  FarGot(r, s, F, a, NDIRECT + k)
<1>. DEFINE i == F.ic[s].inum
            I == See(F, s)
            n == NDIRECT + k
<1>q. q \in BRec /\ F = q.fs /\ a = q.b /\ r = Indirect(q, k)
  BY DEF FarAsked
<1>h. F \in FsState /\ Ok(F) /\ i \in Inum /\ Blocks(I, F.data, F.used) /\ a # 0
  BY DEF FarAsked
<1>1. /\ I \in Inodes /\ I[i] = F.ic[s].ino /\ F.data \in Datas /\ a = I[i].addrs[NDIRECT]
  BY <1>h, SeeIs DEF FarAsked
<1>2. Blk(I, F.data, i, n) = F.data[a][k][2] /\ n \in Place
  <2>1. Blk(I, F.data, i, n) = IF I[i].addrs[NDIRECT] = 0 THEN 0 ELSE F.data[I[i].addrs[NDIRECT]][k][2]
    <3>. HIDE DEF i, I
    <3>. QED  BY BlkFar
  <2>2. n \in Place
    BY Places, Zenon
  <2>. QED  BY <1>h, <1>1, <2>1, <2>2, Zenon
<1>3. a \in Data
  BY <1>h, <1>1, BlkIndirect, Places DEF Blocks, Placed
<1>4. F.data[a][k][1] = ""
  BY <1>h, <1>1 DEF Blocks, Numbers
<1>5. F.data[a][k] = Zero <=> Blk(I, F.data, i, n) = 0
  BY <1>1, <1>2, <1>3, <1>4, NumberIs
<1>6. CASE F.data[a][k] # Zero
  <2>1. r = [q EXCEPT !.b = F.data[a][k][2]]
    BY <1>6, <1>q, <1>h DEF Indirect
  <2>2. r.fs = F /\ r.b = Blk(I, F.data, i, n)
    BY <2>1, <1>2, <1>q DEF BRec
  <2>3. r.b \in 0..(FSSIZE - 1)
    <3>1. F.data[a][k] \in Cell
      BY <1>1, <1>3 DEF Datas
    <3>. QED  BY <1>2, <2>2, <3>1 DEF Cell
  <2>4. r \in BRec
    BY <1>q, <2>1, <2>2, <2>3 DEF BRec
  <2>5. Grew(F, r.fs, s)
    BY <1>h, <2>2, GrewNot
  <2>. QED  BY <1>h, <1>5, <1>6, <2>2, <2>4, <2>5 DEF Mapped, FarGot
<1>7. CASE F.data[a][k] = Zero
  <2>. DEFINE t == balloc(F)
  <2>1. r = SetEntry(t, a, k)
    BY <1>7, <1>q, <1>h DEF Indirect
  <2>. HIDE DEF t
  <2>2. Full(F, t) \/ \E b \in (0..(FSSIZE - 1)) \ F.used : Took(F, t, b)
    BY <1>h, BallocIs DEF t
  <2>3. CASE Full(F, t)
    <3>1. r = t
      BY <2>1, <2>3 DEF SetEntry, Full, Fields, Ok
    <3>2. Grew(F, r.fs, s)
      BY <1>h, <2>3, <3>1, GrewNot DEF Full, Fields
    <3>. QED  BY <1>5, <1>7, <2>3, <3>1, <3>2 DEF Full, Fields, Mapped, FarGot
  <2>4. ASSUME NEW b \in (0..(FSSIZE - 1)) \ F.used, Took(F, t, b)
        PROVE  /\ r \in BRec /\ Grew(F, r.fs, s) /\ Mapped(r, s, n)
               /\ \A x \in r.fs.log : x \in F.log \cup {bmapstart, a}
                                      \/ (x # 0 /\ x = Blk(See(r.fs, s), r.fs.data, i, n))
    <3>. DEFINE E == WithCell(WithBlock(F.data, b), a, k, Ptr(b))
                G == r.fs
    <3>1. Ok(t.fs) /\ t.b = b /\ t \in BRec /\ t.fs.data = WithBlock(F.data, b)
      BY <1>h, <2>4 DEF Took, Fields, Ok
    <3>2. r = [t EXCEPT !.fs = [t.fs EXCEPT !.data = E, !.log = @ \cup {a}]]
      <4>1. r = [t EXCEPT !.fs.data[a][k] = <<"", t.b>>, !.fs.log = @ \cup {a}]
        BY <2>1, <3>1 DEF SetEntry
      <4>2. E = [t.fs.data EXCEPT ![a][k] = <<"", t.b>>]
        BY <3>1 DEF WithCell, Ptr
      <4>. QED  BY <3>1, <4>1, <4>2 DEF BRec, FsState
    <3>3. /\ E \in Datas /\ a # b /\ Adds(I, F.data, I, E, i, n, b)
          /\ Blocks(I, E, F.used \cup {b}) /\ \A x \in Data \ {a, b} : E[x] = F.data[x]
      <4>1. Blocks(I, F.data, F.used) /\ a # 0 /\ i \in Inum
        BY <1>h
      <4>2. E = WithCell(WithBlock(F.data, b), a, k, Ptr(b))
        OBVIOUS
      <4>3. Blk(I, F.data, i, NDIRECT + k) = 0 /\ a = I[i].addrs[NDIRECT] /\ I \in Inodes /\ F.data \in Datas
        BY <1>1, <1>5, <1>7
      <4>. HIDE DEF E
      <4>4. FarTaken(I, F.data, F.used, i, k, b, a, E)
        BY <4>1, <4>2, <4>3, TakeFar
      <4>. QED  BY <4>4, Zenon DEF FarTaken
    <3>. HIDE DEF E
    <3>4. a \in Nat
      BY <1>3, Layout DEF Data
    <3>5. r.b = b /\ Fields(G, F.di, E, F.used \cup {b}, F.ic, F.log \cup {bmapstart, b} \cup {a}, F.panic)
      <4>1. r.b = b /\ G = [t.fs EXCEPT !.data = E, !.log = @ \cup {a}]
        BY <3>1, <3>2 DEF BRec
      <4>2. Fields(t.fs, F.di, WithBlock(F.data, b), F.used \cup {b}, F.ic, F.log \cup {bmapstart, b}, F.panic)
        BY <2>4 DEF Took
      <4>3. F.log \cup {bmapstart, b} \cup {a} \in SUBSET Nat
        BY <3>4, <4>2 DEF Fields, FsState
      <4>. QED  BY <3>3, <4>1, <4>2, <4>3, DataLogged, Zenon
    <3>6. r \in BRec
      BY <3>1, <3>2, <3>5 DEF BRec, Fields
    <3>7. See(G, s) = I /\ SameIc(F.ic, G.ic, s)
      BY <3>5 DEF See, Fields, SameIc
    <3>8. \A j \in Inum, m \in 0..(MAXFILE - 1) : Blk(I, F.data, j, m) # 0 => Blk(I, F.data, j, m) # a
      <4>1. a = Blk(I, F.data, i, MAXFILE) /\ MAXFILE \in Place /\ 0..(MAXFILE - 1) \subseteq Place
            /\ MAXFILE \notin 0..(MAXFILE - 1)
        BY <1>h, <1>1, BlkIndirect, Places, Layout DEF Place
      <4>. QED  BY <1>h, <4>1 DEF Blocks, OneOwner
    <3>9. /\ G \in FsState /\ G.di = F.di /\ Blocks(See(G, s), G.data, G.used)
          /\ Adds(I, F.data, See(G, s), G.data, i, n, b) /\ \A x \in Data \ {a, b} : G.data[x] = F.data[x]
      BY <3>3, <3>5, <3>7 DEF Fields
    <3>10. Blk(I, F.data, i, n) = 0 /\ F.ic[s].inum \in Inum /\ Blocks(I, F.data, F.used)
      BY <1>5, <1>7, <1>h
    <3>11. Grew(F, G, s)
      <4>1. n \in Place /\ F \in FsState
        BY <1>h, <1>2
      <4>. HIDE DEF n
      <4>. QED  BY <3>7, <3>8, <3>9, <3>10, <4>1, GrewBy
    <3>12. Blk(See(G, s), G.data, i, n) = b /\ b # 0
      <4>1. b # 0
        BY <1>1, <3>10, FreeBlock
      <4>2. n \in Place
        BY <1>2
      <4>. HIDE DEF n
      <4>. QED  BY <1>h, <3>9, <4>1, <4>2, Zenon DEF Adds
    <3>13. G.ic[s].inum = i /\ Ok(G)
      BY <1>h, <3>5 DEF Fields, Ok
    <3>. QED  BY <3>5, <3>6, <3>11, <3>12, <3>13 DEF Fields, Mapped
  <2>. QED  BY <1>5, <1>7, <2>2, <2>3, <2>4 DEF FarGot
<1>. QED  BY <1>6, <1>7

\* A block of the indirect block.
LEMMA IndirectIs ==
    ASSUME NEW q \in BRec, Ok(q.fs), NEW s \in Slot, q.fs.ic[s].inum \in Inum,
           Blocks(See(q.fs, s), q.fs.data, q.fs.used), q.b # 0,
           q.b = q.fs.ic[s].ino.addrs[NDIRECT], NEW k \in 0..(BSIZE - 1),
           NEW r, r = Indirect(q, k)
    PROVE  /\ r \in BRec /\ Grew(q.fs, r.fs, s) /\ Mapped(r, s, NDIRECT + k)
           /\ Blk(See(q.fs, s), q.fs.data, q.fs.ic[s].inum, NDIRECT + k) # 0 => r.fs = q.fs
           /\ \A x \in r.fs.log : \/ x \in q.fs.log \cup {bmapstart, q.b}
                                  \/ (x # 0 /\ x = Blk(See(r.fs, s), r.fs.data, q.fs.ic[s].inum, NDIRECT + k))
<1>1. FarAsked(q, s, q.fs, q.b)
  BY DEF FarAsked, BRec
<1>2. FarGot(r, s, q.fs, q.b, NDIRECT + k)
  BY <1>1, IndirectAt
<1>. QED  BY <1>2, Zenon DEF FarGot

\* bmap(): the block at place bn, there before or new, or a full disk.
LEMMA BmapIs ==
    ASSUME NEW F \in FsState, Ok(F), NEW s \in Slot, F.ic[s].inum \in Inum,
           Blocks(See(F, s), F.data, F.used), NEW bn \in 0..(MAXFILE - 1),
           NEW r, r = bmap(F, s, bn)
    PROVE  /\ Grew(F, r.fs, s) /\ Mapped(r, s, bn)
           /\ Blk(See(F, s), F.data, F.ic[s].inum, bn) # 0 => r.fs = F
           /\ \A x \in r.fs.log : \/ x \in F.log \cup {bmapstart}
                                  \/ (x # 0 /\ x = Blk(See(r.fs, s), r.fs.data, F.ic[s].inum, MAXFILE) /\ bn >= NDIRECT)
                                  \/ (x # 0 /\ x = Blk(See(r.fs, s), r.fs.data, F.ic[s].inum, bn))
<1>. DEFINE i == F.ic[s].inum
            I == See(F, s)
<1>1. /\ I \in Inodes /\ I[i] = F.ic[s].ino /\ F.data \in Datas
  BY SeeIs
<1>2. CASE bn < NDIRECT
  <2>1. bn \in 0..(NDIRECT - 1) /\ bn \in 0..NDIRECT /\ PlaceOf(bn) = bn
    BY <1>2, Layout DEF PlaceOf
  <2>2. r = Direct(F, s, bn)
    BY <1>2 DEF bmap
  <2>3. /\ Grew(F, r.fs, s) /\ Mapped(r, s, bn)
        /\ F.ic[s].ino.addrs[bn] # 0 => r.fs = F
        /\ \A x \in r.fs.log : x \in F.log \cup {bmapstart}
                               \/ (x # 0 /\ x = Blk(See(r.fs, s), r.fs.data, F.ic[s].inum, bn))
    BY <2>1, <2>2, DirectIs
  <2>4. Blk(I, F.data, i, bn) = F.ic[s].ino.addrs[bn]
    BY <1>1, <2>1, BlkDirect
  <2>. QED  BY <2>3, <2>4
<1>3. CASE ~(bn < NDIRECT)
  <2>. DEFINE k == bn - NDIRECT
              q == Direct(F, s, NDIRECT)
  <2>0. bn >= NDIRECT
    BY <1>3, Layout
  <2>1. k \in 0..(BSIZE - 1) /\ bn = NDIRECT + k /\ bn < MAXFILE
        /\ NDIRECT \in 0..NDIRECT /\ PlaceOf(NDIRECT) = MAXFILE
    BY <1>3, Layout DEF PlaceOf
  <2>2. r = Indirect(q, k)
    BY <1>3, <2>1 DEF bmap
  <2>. HIDE DEF k, q
  <2>3. /\ Grew(F, q.fs, s) /\ Mapped(q, s, MAXFILE)
        /\ F.ic[s].ino.addrs[NDIRECT] # 0 => q.fs = F
        /\ \A x \in q.fs.log : x \in F.log \cup {bmapstart}
                               \/ (x # 0 /\ x = Blk(See(q.fs, s), q.fs.data, F.ic[s].inum, MAXFILE))
    BY <2>1, DirectIs DEF q
  <2>4. q.fs.ic[s].inum = i /\ q.fs \in FsState /\ Blocks(See(q.fs, s), q.fs.data, q.fs.used)
    BY <2>3 DEF Grew, SameIc
  <2>5. Blk(I, F.data, i, bn) # 0 => F.ic[s].ino.addrs[NDIRECT] # 0
    BY <1>1, <2>1, BlkFar
  <2>6. CASE ~Ok(q.fs)
    <3>1. r = q
      BY <2>2, <2>6 DEF Indirect
    <3>2. Mapped(r, s, bn)
      BY <2>3, <2>6, <3>1 DEF Mapped
    <3>. QED  BY <2>0, <2>3, <2>5, <3>1, <3>2
  <2>7. CASE Ok(q.fs)
    <3>1. q.b # 0 /\ q.b = Blk(See(q.fs, s), q.fs.data, i, MAXFILE)
      BY <2>3, <2>4, <2>7 DEF Mapped, Ok
    <3>2. See(q.fs, s)[i] = q.fs.ic[s].ino
      BY <2>4, SeeIs
    <3>3. q.b = q.fs.ic[s].ino.addrs[NDIRECT]
      BY <3>1, <3>2, BlkIndirect
    <3>4. q \in BRec
      <4>1. q.b \in Data /\ q.b \in 0..(FSSIZE - 1)
        BY <2>4, <3>1, Places, Layout DEF Blocks, Placed, Data
      <4>2. q = [fs |-> q.fs, b |-> q.b]
        <5>1. CASE F.ic[s].ino.addrs[NDIRECT] # 0
          BY <5>1 DEF q, Direct, ino
        <5>2. CASE F.ic[s].ino.addrs[NDIRECT] = 0
          <6>. DEFINE t == balloc(F)
          <6>1. q = SetAddr(t, s, NDIRECT)
            BY <5>2 DEF q, Direct, ino
          <6>. HIDE DEF t
          <6>2. t \in BRec
            BY BallocIs DEF t, Full, Took
          <6>. QED  BY <6>1, <6>2 DEF SetAddr, BRec
        <5>. QED  BY <5>1, <5>2
      <4>. QED  BY <2>4, <4>1, <4>2 DEF BRec
    <3>5. /\ Grew(q.fs, r.fs, s) /\ Mapped(r, s, bn)
          /\ Blk(See(q.fs, s), q.fs.data, i, bn) # 0 => r.fs = q.fs
          /\ \A x \in r.fs.log : \/ x \in q.fs.log \cup {bmapstart, q.b}
                                 \/ (x # 0 /\ x = Blk(See(r.fs, s), r.fs.data, i, bn))
      BY <2>1, <2>2, <2>4, <2>7, <3>1, <3>3, <3>4, IndirectIs
    <3>6. Grew(F, r.fs, s)
      BY <2>3, <3>5, GrewMore
    <3>7. q.b = Blk(See(r.fs, s), r.fs.data, i, MAXFILE)
      BY <2>4, <3>1, <3>5, Places DEF Grew, Keeps
    <3>8. Blk(I, F.data, i, bn) # 0 => r.fs = F
      BY <2>3, <2>5, <3>5
    <3>9. \A x \in r.fs.log : \/ x \in F.log \cup {bmapstart}
                              \/ (x # 0 /\ x = Blk(See(r.fs, s), r.fs.data, i, MAXFILE))
                              \/ (x # 0 /\ x = Blk(See(r.fs, s), r.fs.data, i, bn))
      BY <2>3, <3>1, <3>5, <3>7
    <3>. QED  BY <2>0, <3>5, <3>6, <3>8, <3>9
  <2>. QED  BY <2>6, <2>7
<1>. QED  BY <1>2, <1>3

-----------------------------------------------------------------------------
(* Writing *)

\* The contents of G are those of F but for the cells at offsets in O of inode i.
Beyond(I, D, J, E, i, O) ==
    \A j \in Inum, u \in Nat :
        u \div BSIZE < MAXFILE /\ Blk(I, D, j, u \div BSIZE) # 0 /\ ~(j = i /\ u \in O)
        => At(J, E, j, u) = At(I, D, j, u)

\* The blocks logged on the way from F to G: the bitmap, the indirect block and
\* those of the offsets in O.
Logs(F, G, s, O) ==
    \A x \in G.log :
        \/ x \in F.log \cup {bmapstart}
        \/ /\ x # 0 /\ x = Blk(See(G, s), G.data, F.ic[s].inum, MAXFILE)
           /\ \E o \in O : o \div BSIZE >= NDIRECT
        \/ x # 0 /\ \E o \in O : x = Blk(See(G, s), G.data, F.ic[s].inum, o \div BSIZE)

\* From F to G the inode in entry s may have got blocks.
Extended(F, G, s) ==
    /\ G \in FsState /\ G.di = F.di /\ SameIc(F.ic, G.ic, s)
    /\ Blocks(See(G, s), G.data, G.used)
    /\ Keeps(See(F, s), F.data, See(G, s), G.data, F.ic[s].inum)

DiskFull(G) == G.panic = "balloc" /\ G.used = 0..(FSSIZE - 1)

\* One cell.
LEMMA CellWritten ==
    ASSUME NEW F \in FsState, Ok(F), NEW s \in Slot, F.ic[s].inum \in Inum,
           Blocks(See(F, s), F.data, F.used), NEW o \in Nat, o < MAXFILE * BSIZE,
           NEW c \in Cell, NEW G, G = WriteCell(F, s, o, c)
    PROVE  /\ Extended(F, G, s) /\ Logs(F, G, s, {o})
           /\ Blk(See(F, s), F.data, F.ic[s].inum, o \div BSIZE) # 0 => G.ic = F.ic
           /\ \/ DiskFull(G)
              \/ /\ Ok(G) /\ Blk(See(G, s), G.data, F.ic[s].inum, o \div BSIZE) # 0
                 /\ At(See(G, s), G.data, F.ic[s].inum, o) = c
                 /\ Beyond(See(F, s), F.data, See(G, s), G.data, F.ic[s].inum, {o})
<1>. DEFINE i == F.ic[s].inum
            I == See(F, s)
            bn == o \div BSIZE
            k == o % BSIZE
            m == bmap(F, s, bn)
            H == m.fs
<1>1. bn \in Nat /\ bn < MAXFILE /\ k \in 0..(BSIZE - 1)
  BY CellOf, CellBelow, Layout
<1>2. bn \in 0..(MAXFILE - 1) /\ 0..(MAXFILE - 1) \subseteq Place /\ MAXFILE \in Place
  BY <1>1, Layout DEF Place
<1>3. G = Stored(m, o, c)
  BY DEF WriteCell
<1>. HIDE DEF m, bn, k
<1>4. /\ Grew(F, H, s) /\ Mapped(m, s, bn) /\ (Blk(I, F.data, i, bn) # 0 => H = F)
      /\ \A x \in H.log : \/ x \in F.log \cup {bmapstart}
                          \/ (x # 0 /\ x = Blk(See(H, s), H.data, i, MAXFILE) /\ bn >= NDIRECT)
                          \/ (x # 0 /\ x = Blk(See(H, s), H.data, i, bn))
  BY <1>2, BmapIs DEF m
<1>5. CASE ~Ok(H)
  <2>1. G = H
    BY <1>3, <1>5 DEF Stored
  <2>2. DiskFull(G)
    BY <1>4, <1>5, <2>1 DEF Mapped, DiskFull
  <2>3. Logs(F, G, s, {o})
    BY <1>4, <2>1 DEF Logs, bn
  <2>. QED  BY <1>4, <2>1, <2>2, <2>3 DEF Grew, Extended, bn
<1>6. CASE Ok(H)
  <2>. DEFINE J == See(H, s)
              b == m.b
              E == WithCell(H.data, b, k, c)
  <2>1. H \in FsState /\ H.ic[s].inum = i /\ H.di = F.di /\ Blocks(J, H.data, H.used) /\ SameIc(F.ic, H.ic, s)
    BY <1>4 DEF Grew, SameIc
  <2>2. b # 0 /\ b = Blk(J, H.data, i, bn)
    BY <1>4, <1>6, <2>1 DEF Mapped, Ok
  <2>3. J \in Inodes /\ H.data \in Datas
    BY <2>1, SeeIs
  <2>4. b \in Data /\ b \in Nat
    BY <1>2, <2>1, <2>2, Layout DEF Blocks, Placed, Data
  <2>5. G = [H EXCEPT !.data = E, !.log = @ \cup {b}]
    BY <1>3, <1>6 DEF Stored, WithCell, k
  <2>6. /\ E \in Datas /\ Blocks(J, E, H.used)
        /\ \A j \in Inum, n \in Place : Blk(J, E, j, n) = Blk(J, H.data, j, n)
    BY <1>1, <1>2, <2>1, <2>2, <2>3, StoreCell
  <2>7. \A x \in Data, y \in 0..(BSIZE - 1) : E[x][y] = IF x = b /\ y = k THEN c ELSE H.data[x][y]
    BY <1>1, <2>3, <2>4, WithCellIs
  <2>. HIDE DEF E, b, H
  <2>8. Fields(G, F.di, E, H.used, H.ic, H.log \cup {b}, "no")
    <3>1. H.log \cup {b} \in SUBSET Nat
      BY <2>1, <2>4 DEF FsState
    <3>. QED  BY <1>6, <2>1, <2>5, <2>6, <3>1 DEF Fields, FsState, Ok
  <2>9. See(G, s) = J
    BY <2>1, <2>8 DEF See, Fields
  <2>10. Keeps(I, F.data, J, E, i)
    BY <1>4, <2>6 DEF Grew, Keeps, H
  <2>11. Extended(F, G, s)
    BY <2>1, <2>6, <2>8, <2>9, <2>10 DEF Extended, Fields
  <2>12. Logs(F, G, s, {o})
    <3>1. \A x \in G.log : x \in H.log \/ x = b
      BY <2>8 DEF Fields
    <3>2. Blk(J, E, i, MAXFILE) = Blk(J, H.data, i, MAXFILE) /\ Blk(J, E, i, bn) = Blk(J, H.data, i, bn)
      BY <1>2, <2>6
    <3>3. \A x \in H.log : \/ x \in F.log \cup {bmapstart}
                           \/ (x # 0 /\ x = Blk(J, H.data, i, MAXFILE) /\ bn >= NDIRECT)
                           \/ (x # 0 /\ x = Blk(J, H.data, i, bn))
      BY <1>4 DEF H
    <3>4. G.data = E
      BY <2>8 DEF Fields
    <3>. QED  BY <2>2, <2>9, <3>1, <3>2, <3>3, <3>4 DEF Logs, bn
  <2>13. Blk(I, F.data, i, bn) # 0 => G.ic = F.ic
    BY <1>4, <2>8 DEF Fields, H
  <2>14. Ok(G) /\ Blk(See(G, s), G.data, i, bn) # 0
    BY <1>2, <2>2, <2>6, <2>8, <2>9 DEF Fields, Ok
  <2>15. At(J, E, i, o) = c
    BY <1>1, <1>2, <2>2, <2>4, <2>6, <2>7 DEF At, bn, k
  <2>16. ASSUME NEW j \in Inum, NEW u \in Nat, u \div BSIZE < MAXFILE,
                Blk(I, F.data, j, u \div BSIZE) # 0, ~(j = i /\ u \in {o})
         PROVE  At(J, E, j, u) = At(I, F.data, j, u)
    <3>. DEFINE n == u \div BSIZE
                y == u % BSIZE
                a == Blk(I, F.data, j, n)
    <3>1. n \in 0..(MAXFILE - 1) /\ n \in Place /\ y \in 0..(BSIZE - 1)
      <4>1. n \in Nat /\ y \in 0..(BSIZE - 1)
        BY CellOf
      <4>2. n < MAXFILE
        BY <2>16
      <4>. HIDE DEF n, y
      <4>3. n \in 0..(MAXFILE - 1)
        BY <4>1, <4>2, Layout
      <4>. QED  BY <1>2, <4>1, <4>3
    <3>2. Blk(J, H.data, j, n) = a /\ H.data[a] = F.data[a]
      BY <1>4, <2>16, <3>1 DEF Grew, Keeps, Holds, H
    <3>3. Blk(J, E, j, n) = a
      BY <2>6, <3>1, <3>2
    <3>4. a \in Data
      BY <2>1, <2>16, <3>1, <3>2 DEF Blocks, Placed
    <3>5. ~(a = b /\ y = k)
      <4>1. SUFFICES ASSUME a = b, y = k PROVE FALSE
        OBVIOUS
      <4>2. j = i /\ n = bn
        BY <1>2, <2>1, <2>2, <2>16, <3>1, <3>2, <4>1 DEF Blocks, OneOwner
      <4>3. u = o
        BY <4>1, <4>2, CellIs DEF bn, k
      <4>. QED  BY <2>16, <4>2, <4>3
    <3>6. E[a][y] = F.data[a][y]
      BY <2>7, <3>1, <3>2, <3>4, <3>5
    <3>. QED  BY <3>3, <3>6 DEF At
  <2>17. Beyond(I, F.data, See(G, s), G.data, i, {o})
    BY <2>8, <2>9, <2>16 DEF Beyond, Fields
  <2>. QED  BY <2>8, <2>9, <2>11, <2>12, <2>13, <2>14, <2>15, <2>17 DEF Fields, bn
<1>. QED  BY <1>5, <1>6

\* Nothing is extended.
LEMMA ExtendedNot ==
    ASSUME NEW F \in FsState, NEW s \in Slot, Blocks(See(F, s), F.data, F.used)
    PROVE  Extended(F, F, s) /\ Logs(F, F, s, {})
BY DEF Extended, SameIc, Keeps, Logs

\* Extension is transitive, and so is what it logs and leaves alone.
LEMMA ExtendedMore ==
    ASSUME NEW F, NEW G, NEW H, NEW s \in Slot, F.ic[s].inum \in Inum, Extended(F, H, s), Extended(H, G, s),
           NEW O, NEW P, \A o \in O \cup P : o \in Nat /\ o \div BSIZE \in 0..(MAXFILE - 1),
           Logs(F, H, s, O), Logs(H, G, s, P)
    PROVE  Extended(F, G, s) /\ Logs(F, G, s, O \cup P)
<1>. DEFINE i == F.ic[s].inum
<1>1. H.ic[s].inum = i
  BY DEF Extended, SameIc
<1>2. SameIc(F.ic, G.ic, s)
  BY DEF Extended, SameIc
<1>3. Keeps(See(F, s), F.data, See(G, s), G.data, i)
  BY <1>1 DEF Extended, Keeps
<1>4. Extended(F, G, s)
  BY <1>2, <1>3 DEF Extended
<1>5. MAXFILE \in Place /\ \A o \in O : o \div BSIZE \in Place
  BY Places, Layout DEF Place
<1>6. \A m \in Place : Blk(See(H, s), H.data, i, m) # 0 =>
                       Blk(See(G, s), G.data, i, m) = Blk(See(H, s), H.data, i, m)
  BY <1>1 DEF Extended, Keeps
<1>7. ASSUME NEW x \in G.log
      PROVE  \/ x \in F.log \cup {bmapstart}
             \/ /\ x # 0 /\ x = Blk(See(G, s), G.data, i, MAXFILE)
                /\ \E o \in O \cup P : o \div BSIZE >= NDIRECT
             \/ x # 0 /\ \E o \in O \cup P : x = Blk(See(G, s), G.data, i, o \div BSIZE)
  <2>1. CASE x \in H.log
    <3>1. \/ x \in F.log \cup {bmapstart}
          \/ x # 0 /\ x = Blk(See(H, s), H.data, i, MAXFILE) /\ \E o \in O : o \div BSIZE >= NDIRECT
          \/ x # 0 /\ \E o \in O : x = Blk(See(H, s), H.data, i, o \div BSIZE)
      BY <2>1 DEF Logs
    <3>. QED  BY <1>5, <1>6, <3>1
  <2>2. CASE x \notin H.log
    <3>1. \/ x \in H.log \cup {bmapstart}
          \/ x # 0 /\ x = Blk(See(G, s), G.data, i, MAXFILE) /\ \E o \in P : o \div BSIZE >= NDIRECT
          \/ x # 0 /\ \E o \in P : x = Blk(See(G, s), G.data, i, o \div BSIZE)
      BY <1>1 DEF Logs
    <3>. QED  BY <2>2, <3>1
  <2>. QED  BY <2>1, <2>2
<1>8. Logs(F, G, s, O \cup P)
  BY <1>7 DEF Logs
<1>. QED  BY <1>4, <1>8

\* What is left alone twice is left alone.
LEMMA BeyondMore ==
    ASSUME NEW F, NEW G, NEW H, NEW s \in Slot, NEW i, Extended(F, H, s), i = F.ic[s].inum,
           NEW O, NEW P, 
           Beyond(See(F, s), F.data, See(H, s), H.data, i, O),
           Beyond(See(H, s), H.data, See(G, s), G.data, i, P)
    PROVE  Beyond(See(F, s), F.data, See(G, s), G.data, i, O \cup P)
<1>1. ASSUME NEW j \in Inum, NEW u \in Nat, u \div BSIZE < MAXFILE,
             Blk(See(F, s), F.data, j, u \div BSIZE) # 0, ~(j = i /\ u \in O \cup P)
      PROVE  At(See(G, s), G.data, j, u) = At(See(F, s), F.data, j, u)
  <2>. DEFINE m == u \div BSIZE
  <2>0. m \in Nat
    BY CellOf
  <2>1. m \in Place
    <3>1. m < MAXFILE
      BY <1>1
    <3>. HIDE DEF m
    <3>. QED  BY <2>0, <3>1, Layout DEF Place
  <2>2. Blk(See(H, s), H.data, j, m) = Blk(See(F, s), F.data, j, m)
    BY <1>1, <2>1 DEF Extended, Keeps
  <2>. QED  BY <1>1, <2>2 DEF Beyond
<1>. QED  BY <1>1 DEF Beyond

\* On a full disk nothing more is written.
LEMMA FullStays ==
    ASSUME NEW F \in FsState, DiskFull(F), NEW s, NEW o, NEW c
    PROVE  WriteCell(F, s, o, c) = F
<1>1. ~Ok(F) /\ balloc(F) = [fs |-> F, b |-> 0]
  BY DEF DiskFull, Ok, balloc, Panic
<1>2. \A k : Direct(F, s, k).fs = F
  BY <1>1 DEF Direct, SetAddr, Ok
<1>3. \A q, k : q.fs = F => Indirect(q, k).fs = F
  BY <1>1 DEF Indirect
<1>4. Panic(F, "bmap") = F
  BY <1>1 DEF Panic
<1>5. bmap(F, s, o \div BSIZE).fs = F
  BY <1>2, <1>3, <1>4 DEF bmap
<1>. QED  BY <1>1, <1>5 DEF WriteCell, Stored

\* The first n of the cells are written.
Upto(F, s, off, cells, n, G) ==
    /\ Extended(F, G, s) /\ Logs(F, G, s, off..(off + n - 1))
    /\ (\A o \in off..(off + n - 1) : Blk(See(F, s), F.data, F.ic[s].inum, o \div BSIZE) # 0) => G.ic = F.ic
    /\ \/ DiskFull(G)
       \/ /\ Ok(G)
          /\ \A o \in off..(off + n - 1) :
                /\ Blk(See(G, s), G.data, F.ic[s].inum, o \div BSIZE) # 0
                /\ At(See(G, s), G.data, F.ic[s].inum, o) = cells[o - off + 1]
          /\ Beyond(See(F, s), F.data, See(G, s), G.data, F.ic[s].inum, off..(off + n - 1))

\* One more cell.
LEMMA UptoMore ==
    ASSUME NEW F \in FsState, Ok(F), NEW s \in Slot, F.ic[s].inum \in Inum,
           Blocks(See(F, s), F.data, F.used), NEW off \in Nat, NEW cells \in Seq(Cell),
           off + Len(cells) <= MAXFILE * BSIZE, NEW n \in 1..Len(cells),
           NEW H, Upto(F, s, off, cells, n - 1, H),
           NEW G, G = WriteCell(H, s, off + n - 1, cells[n])
    PROVE  Upto(F, s, off, cells, n, G)
<1>. DEFINE i == F.ic[s].inum
            o == off + n - 1
            O == off..(off + (n - 1) - 1)
            O1 == off..(off + n - 1)
<1>0. n \in Nat /\ n > 0 /\ Len(cells) \in Nat /\ n <= Len(cells) /\ MAXFILE * BSIZE \in Nat
  BY Layout
<1>1. /\ o \in Nat /\ o < MAXFILE * BSIZE /\ cells[n] \in Cell /\ n - 1 \in Nat
      /\ O1 = O \cup {o} /\ o - off + 1 = n /\ o \notin O /\ O1 \subseteq Nat
      /\ \A u \in O1 : u < MAXFILE * BSIZE
  BY <1>0
<1>2. \A u \in O1 : u \in Nat /\ u \div BSIZE \in 0..(MAXFILE - 1)
  <2>1. ASSUME NEW u \in O1 PROVE u \in Nat /\ u \div BSIZE \in Nat /\ u \div BSIZE < MAXFILE
    BY <1>1, CellOf, CellBelow, Layout
  <2>2. \A x \in Nat : x < MAXFILE => x \in 0..(MAXFILE - 1)
    BY Layout
  <2>. QED  BY <2>1, <2>2
<1>3. Extended(F, H, s) /\ Logs(F, H, s, O)
  BY DEF Upto
<1>4. H \in FsState /\ H.ic[s].inum = i /\ Blocks(See(H, s), H.data, H.used)
  BY <1>3 DEF Extended, SameIc
<1>5. G = WriteCell(H, s, o, cells[n])
  OBVIOUS
<1>. HIDE DEF o, O, O1
<1>6. CASE DiskFull(H)
  <2>1. G = H
    BY <1>4, <1>5, <1>6, FullStays
  <2>2. Logs(F, G, s, O1)
    BY <1>1, <1>3, <2>1 DEF Logs
  <2>3. (\A u \in O1 : Blk(See(F, s), F.data, i, u \div BSIZE) # 0) => G.ic = F.ic
    BY <1>1, <2>1 DEF Upto, O
  <2>. QED  BY <1>3, <1>6, <2>1, <2>2, <2>3 DEF Upto, O1
<1>7. CASE ~DiskFull(H)
  <2>1. /\ Ok(H)
        /\ \A u \in O : /\ Blk(See(H, s), H.data, i, u \div BSIZE) # 0
                        /\ At(See(H, s), H.data, i, u) = cells[u - off + 1]
        /\ Beyond(See(F, s), F.data, See(H, s), H.data, i, O)
    BY <1>7 DEF Upto, O
  <2>2. /\ Extended(H, G, s) /\ Logs(H, G, s, {o})
        /\ Blk(See(H, s), H.data, i, o \div BSIZE) # 0 => G.ic = H.ic
        /\ \/ DiskFull(G)
           \/ /\ Ok(G) /\ Blk(See(G, s), G.data, i, o \div BSIZE) # 0
              /\ At(See(G, s), G.data, i, o) = cells[n]
              /\ Beyond(See(H, s), H.data, See(G, s), G.data, i, {o})
    <3>1. H.ic[s].inum \in Inum /\ o \in Nat /\ o < MAXFILE * BSIZE /\ cells[n] \in Cell
      BY <1>1, <1>4
    <3>2. /\ Extended(H, G, s) /\ Logs(H, G, s, {o})
          /\ Blk(See(H, s), H.data, H.ic[s].inum, o \div BSIZE) # 0 => G.ic = H.ic
          /\ \/ DiskFull(G)
             \/ /\ Ok(G) /\ Blk(See(G, s), G.data, H.ic[s].inum, o \div BSIZE) # 0
                /\ At(See(G, s), G.data, H.ic[s].inum, o) = cells[n]
                /\ Beyond(See(H, s), H.data, See(G, s), G.data, H.ic[s].inum, {o})
      BY <1>4, <1>5, <2>1, <3>1, CellWritten
    <3>. QED  BY <1>4, <3>2
  <2>3. Extended(F, G, s) /\ Logs(F, G, s, O1)
    BY <1>1, <1>2, <1>3, <2>2, ExtendedMore
  <2>4. ASSUME \A u \in O1 : Blk(See(F, s), F.data, i, u \div BSIZE) # 0
        PROVE  G.ic = F.ic
    <3>1. H.ic = F.ic
      BY <1>1, <2>4 DEF Upto, O
    <3>2. o \div BSIZE \in Place
      BY <1>1, <1>2, InPlace
    <3>3. Blk(See(H, s), H.data, i, o \div BSIZE) # 0
      BY <1>1, <1>3, <2>4, <3>2 DEF Extended, Keeps
    <3>. QED  BY <2>2, <3>1, <3>3
  <2>5. CASE DiskFull(G)
    BY <2>3, <2>4, <2>5 DEF Upto, O1
  <2>6. CASE ~DiskFull(G)
    <3>1. Beyond(See(F, s), F.data, See(G, s), G.data, i, O1)
      BY <1>1, <1>3, <2>1, <2>2, <2>6, BeyondMore
    <3>2. ASSUME NEW u \in O
          PROVE  /\ Blk(See(G, s), G.data, i, u \div BSIZE) # 0
                 /\ At(See(G, s), G.data, i, u) = cells[u - off + 1]
      <4>1. u \div BSIZE \in Place /\ u \div BSIZE < MAXFILE /\ u \in Nat /\ u # o
        <5>1. u \div BSIZE \in 0..(MAXFILE - 1) /\ u \in Nat /\ u # o
          BY <1>1, <1>2
        <5>2. \A x \in 0..(MAXFILE - 1) : x < MAXFILE /\ x \in Place
          BY Layout DEF Place
        <5>. QED  BY <5>1, <5>2
      <4>2. Blk(See(G, s), G.data, i, u \div BSIZE) = Blk(See(H, s), H.data, i, u \div BSIZE)
        BY <1>4, <2>1, <2>2, <4>1 DEF Extended, Keeps
      <4>3. At(See(G, s), G.data, i, u) = At(See(H, s), H.data, i, u)
        BY <2>1, <2>2, <2>6, <4>1 DEF Beyond
      <4>. QED  BY <2>1, <4>2, <4>3
    <3>3. \A u \in O1 : /\ Blk(See(G, s), G.data, i, u \div BSIZE) # 0
                        /\ At(See(G, s), G.data, i, u) = cells[u - off + 1]
      BY <1>1, <2>2, <2>6, <3>2
    <3>. QED  BY <2>2, <2>3, <2>4, <2>6, <3>1, <3>3 DEF Upto, O1
  <2>. QED  BY <2>5, <2>6
<1>. QED  BY <1>6, <1>7

\* All of the cells.
LEMMA CellsWritten ==
    ASSUME NEW F \in FsState, Ok(F), NEW s \in Slot, F.ic[s].inum \in Inum,
           Blocks(See(F, s), F.data, F.used), NEW off \in Nat, NEW cells \in Seq(Cell),
           off + Len(cells) <= MAXFILE * BSIZE
    PROVE  Upto(F, s, off, cells, Len(cells), WriteCells(F, s, off, cells))
<1>. DEFINE N == Len(cells)
            T == [n \in 0..N |-> {G \in FsState : Upto(F, s, off, cells, n, G)}]
            h == [z \in FsState \X (1..N) |-> WriteCell(z[1], s, off + z[2] - 1, cells[z[2]])]
            R(f) == f = [n \in 0..N |-> IF n = 0 THEN F ELSE WriteCell(f[n - 1], s, off + n - 1, cells[n])]
<1>0. N \in Nat
  OBVIOUS
<1>1. F \in T[0]
  <2>1. off..(off + 0 - 1) = {}
    OBVIOUS
  <2>2. Upto(F, s, off, cells, 0, F)
    BY <2>1, ExtendedNot DEF Upto, Beyond
  <2>. QED  BY <1>0, <2>2
<1>2. ASSUME NEW n \in 1..N, NEW H \in T[n - 1]
      PROVE  /\ WriteCell(H, s, off + n - 1, cells[n]) \in T[n] /\ H \in FsState
             /\ h[<<H, n>>] = WriteCell(H, s, off + n - 1, cells[n])
  <2>1. n - 1 \in 0..N /\ n \in 0..N
    BY <1>0
  <2>2. H \in FsState /\ Upto(F, s, off, cells, n - 1, H)
    BY <2>1
  <2>3. Upto(F, s, off, cells, n, WriteCell(H, s, off + n - 1, cells[n]))
    BY <2>2, UptoMore
  <2>4. WriteCell(H, s, off + n - 1, cells[n]) \in FsState
    BY <2>3 DEF Upto, Extended
  <2>5. h[<<H, n>>] = WriteCell(H, s, off + n - 1, cells[n])
    BY <2>2
  <2>. QED  BY <2>1, <2>2, <2>3, <2>4, <2>5
<1>. HIDE DEF T, h
<1>3. \E f : R(f)
  <2>1. PICK f : Iterates(f, F, h, N)
    BY <1>0, Iteration
  <2>2. \A n \in 0..N : f[n] = IF n = 0 THEN F ELSE h[<<f[n - 1], n>>]
    BY <2>1, Zenon DEF Iterates
  <2>3. f[0] \in T[0]
    <3>1. 0 \in 0..N
      BY <1>0
    <3>2. f[0] = F
      BY <2>2, <3>1, Zenon
    <3>. QED  BY <1>1, <3>2
  <2>4. ASSUME NEW n \in 1..N, f[n - 1] \in T[n - 1]
        PROVE  f[n] \in T[n] /\ f[n] = WriteCell(f[n - 1], s, off + n - 1, cells[n])
    <3>1. n \in 0..N /\ n # 0
      BY <1>0
    <3>2. f[n] = h[<<f[n - 1], n>>]
      BY <2>2, <3>1
    <3>. QED  BY <1>2, <2>4, <3>2
  <2>5. \A n \in 0..N : f[n] \in T[n]
    BY <1>0, <2>3, <2>4, Stays
  <2>6. \A n \in 0..N : n # 0 => n \in 1..N /\ n - 1 \in 0..N
    BY <1>0
  <2>7. \A n \in 0..N : f[n] = IF n = 0 THEN F ELSE WriteCell(f[n - 1], s, off + n - 1, cells[n])
    BY <2>2, <2>4, <2>5, <2>6
  <2>8. f = [n \in 0..N |-> f[n]]
    BY <2>1 DEF Iterates
  <2>. QED  BY <2>7, <2>8
<1>. DEFINE W == CHOOSE f : R(f)
<1>4. R(W)
  BY <1>3, Zenon
<1>5. WriteCells(F, s, off, cells) = W[N]
  BY DEF WriteCells
<1>. HIDE DEF W
<1>6. \A n \in 0..N : W[n] = IF n = 0 THEN F ELSE WriteCell(W[n - 1], s, off + n - 1, cells[n])
  BY <1>4, Zenon
<1>7. W[0] \in T[0]
  BY <1>0, <1>1, <1>6
<1>8. ASSUME NEW n \in 1..N, W[n - 1] \in T[n - 1]
      PROVE  W[n] \in T[n]
  <2>1. n \in 0..N /\ n # 0
    BY <1>0
  <2>2. W[n] = WriteCell(W[n - 1], s, off + n - 1, cells[n])
    BY <1>6, <2>1
  <2>. QED  BY <1>2, <1>8, <2>2
<1>9. \A n \in 0..N : W[n] \in T[n]
  BY <1>0, <1>7, <1>8, Stays
<1>10. N \in 0..N
  BY <1>0
<1>11. W[N] \in {G \in FsState : Upto(F, s, off, cells, N, G)}
  BY <1>9, <1>10 DEF T
<1>. QED  BY <1>5, <1>11

\* The blocks depend on the addresses only.
Alike(I, J, D) ==
    /\ \A j \in Inum : \A n : Blk(J, D, j, n) = Blk(I, D, j, n)
    /\ \A j \in Inum : \A o : At(J, D, j, o) = At(I, D, j, o)
    /\ \A U : Blocks(I, D, U) => Blocks(J, D, U)

\* Inodes with the same addresses have the same blocks and the same contents.
LEMMA SameAddrs ==
    ASSUME NEW I, NEW J, NEW D, \A j \in Inum : J[j].addrs = I[j].addrs
    PROVE  Alike(I, J, D)
<1>1. \A j \in Inum : \A n : Blk(J, D, j, n) = Blk(I, D, j, n)
  BY Zenon DEF Blk
<1>2. \A j \in Inum : \A o : At(J, D, j, o) = At(I, D, j, o)
  BY <1>1, Zenon DEF At
<1>3. ASSUME NEW U, Blocks(I, D, U) PROVE Blocks(J, D, U)
  <2>1. Placed(J, D)
    BY <1>1, <1>3, Zenon DEF Blocks, Placed
  <2>2. OneOwner(J, D)
    BY <1>1, <1>3 DEF Blocks, OneOwner
  <2>3. Marked(J, D, U)
    BY <1>1, <1>3 DEF Blocks, Marked
  <2>4. Numbers(J, D)
    BY <1>3 DEF Blocks, Numbers
  <2>. QED  BY <2>1, <2>2, <2>3, <2>4 DEF Blocks
<1>. QED  BY <1>1, <1>2, <1>3 DEF Alike

\* The holder of entry s has an up to date copy of the inode.
Holder(F, s) ==
    /\ F \in FsState /\ Ok(F) /\ s \in Slot /\ F.ic[s].inum \in Inum /\ F.ic[s].ref > 0
    /\ F.ic[s].ino = F.di[F.ic[s].inum]
    /\ Blocks(F.di, F.data, F.used) /\ Whole(F.di, F.data)

\* It sees what is on the disk.
LEMMA SeeDi ==
    ASSUME NEW F \in FsState, NEW s \in Slot, F.ic[s].inum \in Inum,
           F.ic[s].ino = F.di[F.ic[s].inum]
    PROVE  See(F, s) = F.di
BY DEF See, FsState, Inodes

\* All but the size and the addresses of the copy in entry s is the same.
Kept(ic, jc, s) ==
    \A t \in Slot : /\ jc[t].inum = ic[t].inum /\ jc[t].ref = ic[t].ref
                    /\ jc[t].valid = ic[t].valid /\ jc[t].lock = ic[t].lock
                    /\ t # s => jc[t] = ic[t]
KeptIno(d, e) == e.type = d.type /\ e.major = d.major /\ e.nlink = d.nlink

\* The blocks a write to offsets in O of the inode i in entry s may log.
WLog(G, s, i, O, x) ==
    \/ x \in {bmapstart, IBLOCK(i)}
    \/ /\ x # 0 /\ x = Blk(See(G, s), G.data, i, MAXFILE)
       /\ \E o \in O : o \div BSIZE >= NDIRECT
    \/ x # 0 /\ \E o \in O : x = Blk(See(G, s), G.data, i, o \div BSIZE)

\* F with the cells written from off on is G.
WroteAll(F, G, i, off, cells) ==
    /\ Ok(G) /\ Blocks(G.di, G.data, G.used) /\ Whole(G.di, G.data)
    /\ Keeps(F.di, F.data, G.di, G.data, i)
    /\ G.di[i].size = IF off + Len(cells) > F.di[i].size THEN off + Len(cells) ELSE F.di[i].size
    /\ \A o \in off..(off + Len(cells) - 1) : At(G.di, G.data, i, o) = cells[o - off + 1]
    /\ Beyond(F.di, F.data, G.di, G.data, i, off..(off + Len(cells) - 1))
Wrote(F, G, s, i, off, cells) ==
    /\ G \in FsState /\ Kept(F.ic, G.ic, s)
    /\ \A j \in Inum : KeptIno(F.di[j], G.di[j]) /\ (j # i => G.di[j] = F.di[j])
    /\ \A x \in G.log : x \in F.log \/ WLog(G, s, i, off..(off + Len(cells) - 1), x)
    /\ \/ DiskFull(G)
       \/ G.ic[s].ino = G.di[i] /\ WroteAll(F, G, i, off, cells)

\* The largest size of a file.
LEMMA MaxCells == MAXFILE * BSIZE \in Nat
BY Layout

InoSize(d, n) == [d EXCEPT !.size = n]
IcSize(ic, s, n) == [ic EXCEPT ![s].ino.size = n]
Resized(W, s, n) == iupdate([W EXCEPT !.ic[s].ino.size = n], s)

HasSize(W, G, s, i, n) ==
    /\ Fields(G, G.di, W.data, W.used, G.ic, W.log \cup {IBLOCK(i)}, W.panic)
    /\ Kept(W.ic, G.ic, s) /\ G.ic[s].ino = InoSize(W.ic[s].ino, n)
    /\ G.di[i] = InoSize(W.ic[s].ino, n)
    /\ \A j \in Inum : j # i => G.di[j] = W.di[j]

\* What iupdate() with a new size does.
LEMMA SizeSet ==
    ASSUME NEW W \in FsState, NEW s \in Slot, W.ic[s].inum \in Inum, NEW n \in Nat,
           NEW G, G = Resized(W, s, n)
    PROVE  HasSize(W, G, s, W.ic[s].inum, n)
<1>. DEFINE i == W.ic[s].inum
            d == InoSize(W.ic[s].ino, n)
            jc == IcSize(W.ic, s, n)
<1>1. W.ic \in [Slot -> InodeRec] /\ W.ic[s] \in InodeRec /\ W.ic[s].ino \in Dinode /\ W.di \in Inodes
  BY SeeIs DEF FsState
<1>2. d \in Dinode
  BY <1>1 DEF Dinode, InoSize
<1>3. /\ jc = [W.ic EXCEPT ![s] = [W.ic[s] EXCEPT !.ino = d]]
  BY DEF IcSize, InoSize
<1>4. [W.ic[s] EXCEPT !.ino = d] \in InodeRec
  BY <1>1, <1>2 DEF InodeRec
<1>5. jc \in [Slot -> InodeRec] /\ jc[s].ino = d /\ Kept(W.ic, jc, s)
  <2>1. jc \in [Slot -> InodeRec]
    BY <1>1, <1>3, <1>4
  <2>2. jc[s] = [W.ic[s] EXCEPT !.ino = d] /\ \A t \in Slot : t # s => jc[t] = W.ic[t]
    BY <1>1, <1>3
  <2>3. jc[s].ino = d /\ jc[s].inum = W.ic[s].inum /\ jc[s].ref = W.ic[s].ref
        /\ jc[s].valid = W.ic[s].valid /\ jc[s].lock = W.ic[s].lock
    BY <1>1, <2>2 DEF InodeRec
  <2>. QED  BY <2>1, <2>2, <2>3 DEF Kept
<1>. HIDE DEF jc, d
<1>6. G = [W EXCEPT !.ic = jc, !.di = [W.di EXCEPT ![i] = d], !.log = @ \cup {IBLOCK(i)}]
  <2>. DEFINE V == [W EXCEPT !.ic = jc]
  <2>1. V = [W EXCEPT !.ic[s].ino.size = n]
    BY DEF jc, IcSize
  <2>2. V.ic = jc /\ V.di = W.di /\ V.log = W.log
    BY DEF FsState
  <2>. HIDE DEF V
  <2>3. G = [V EXCEPT !.di[V.ic[s].inum] = V.ic[s].ino, !.log = @ \cup {IBLOCK(V.ic[s].inum)}]
    BY <2>1 DEF Resized, iupdate, ino
  <2>4. V.ic[s].inum = i /\ V.ic[s].ino = d
    BY <1>5, <2>2 DEF Kept
  <2>5. G = [V EXCEPT !.di = [W.di EXCEPT ![i] = d], !.log = W.log \cup {IBLOCK(i)}]
    BY <2>2, <2>3, <2>4
  <2>. QED  BY <2>5 DEF V, FsState
<1>7. IBLOCK(i) \in Nat
  BY Layout DEF Inum
<1>8. [W.di EXCEPT ![i] = d] \in Inodes
  BY <1>1, <1>2 DEF Inodes
<1>9. Fields(G, [W.di EXCEPT ![i] = d], W.data, W.used, jc, W.log \cup {IBLOCK(i)}, W.panic)
  <2>1. W.log \cup {IBLOCK(i)} \in SUBSET Nat
    BY <1>7 DEF FsState
  <2>. QED  BY <1>5, <1>6, <1>8, <2>1 DEF Fields, FsState
<1>10. [W.di EXCEPT ![i] = d][i] = d /\ \A j \in Inum : j # i => [W.di EXCEPT ![i] = d][j] = W.di[j]
  BY <1>1 DEF Inodes
<1>. QED  BY <1>5, <1>9, <1>10 DEF Fields, HasSize, d

\* The first cell of a block.
LEMMA FirstCell == \A n \in Nat : (n * BSIZE) \div BSIZE = n /\ n * BSIZE \in Nat
<1>1. ASSUME NEW n \in Nat PROVE (n * BSIZE) \div BSIZE = n /\ n * BSIZE \in Nat
  <2>. DEFINE o == n * BSIZE
  <2>1. o \in Nat /\ BSIZE \in Nat /\ BSIZE > 1
    BY Layout
  <2>2. o < (n + 1) * BSIZE
    BY Layout
  <2>. HIDE DEF o
  <2>3. o \div BSIZE < n + 1 /\ ~(o \div BSIZE < n) /\ o \div BSIZE \in Nat
    <3>1. ~(o < n * BSIZE)
      BY <2>1 DEF o
    <3>2. n + 1 \in Nat
      OBVIOUS
    <3>. QED  BY <2>1, <2>2, <3>1, <3>2, CellBelow, CellOf
  <2>4. o \div BSIZE = n
    BY <2>3
  <2>. QED  BY <2>1, <2>4 DEF o
<1>. QED  BY <1>1

\* A write inside the file.
LEMMA WriteInside ==
    ASSUME NEW F, NEW s, Holder(F, s), NEW off \in Nat, NEW cells \in Seq(Cell),
           F.ic[s].ino.type # "0", off + Len(cells) <= F.ic[s].ino.size,
           NEW G, G = WriteCells(F, s, off, cells)
    PROVE  Wrote(F, G, s, F.ic[s].inum, off, cells)
<1>. DEFINE i == F.ic[s].inum
            O == off..(off + Len(cells) - 1)
            N == Len(cells)
<1>0. F \in FsState /\ Ok(F) /\ s \in Slot /\ i \in Inum /\ F.ic[s].ino = F.di[i]
  BY DEF Holder
<1>1. See(F, s) = F.di
  BY <1>0, SeeDi
<1>2. F.di[i] \in Dinode /\ F.di[i].size \in Nat /\ F.di[i].size <= MAXFILE * BSIZE /\ N \in Nat
  BY <1>0 DEF Holder, Whole, FsState, Inodes, Dinode
<1>3. off + N <= MAXFILE * BSIZE /\ MAXFILE * BSIZE \in Nat
  <2>. DEFINE M == MAXFILE * BSIZE
  <2>1. M \in Nat /\ F.di[i].size <= M /\ off + N <= F.di[i].size
    BY <1>0, <1>2, Layout
  <2>. HIDE DEF M
  <2>2. off + N <= M
    BY <1>2, <2>1
  <2>. QED  BY <2>1, <2>2 DEF M
<1>4. Upto(F, s, off, cells, N, G)
  BY <1>0, <1>1, <1>3, CellsWritten DEF Holder
<1>5. ASSUME NEW o \in O PROVE Blk(F.di, F.data, i, o \div BSIZE) # 0
  <2>1. o \in Nat /\ o < F.di[i].size /\ o < MAXFILE * BSIZE
    BY <1>0, <1>2, <1>3
  <2>2. o \div BSIZE \in Nat /\ o \div BSIZE < MAXFILE /\ (o \div BSIZE) * BSIZE <= o
    BY <2>1, CellOf, CellBelow, Layout
  <2>. DEFINE n == o \div BSIZE
  <2>. HIDE DEF n
  <2>3. n \in 0..(MAXFILE - 1) /\ n * BSIZE < F.di[i].size
    <3>1. n \in Nat /\ n < MAXFILE /\ n * BSIZE <= o /\ n * BSIZE \in Nat
      BY <2>2, FirstCell DEF n
    <3>2. n \in 0..(MAXFILE - 1)
      BY <3>1, Layout
    <3>3. n * BSIZE < F.di[i].size
      BY <1>2, <2>1, <3>1
    <3>. QED  BY <3>2, <3>3
  <2>4. Blk(F.di, F.data, i, n) # 0
    BY <1>0, <2>3 DEF Holder, Whole
  <2>. QED  BY <2>4 DEF n
<1>6. G.ic = F.ic /\ G.di = F.di /\ G \in FsState
  BY <1>1, <1>4, <1>5 DEF Upto, Extended
<1>7. See(G, s) = G.di
  BY <1>0, <1>6, SeeDi
<1>8. Kept(F.ic, G.ic, s) /\ \A j \in Inum : KeptIno(F.di[j], G.di[j])
  BY <1>6 DEF Kept, KeptIno
<1>9. \A x \in G.log : x \in F.log \/ WLog(G, s, i, O, x)
  BY <1>4 DEF Upto, Logs, WLog
<1>10. CASE DiskFull(G)
  BY <1>6, <1>8, <1>9, <1>10 DEF Wrote
<1>11. CASE ~DiskFull(G)
  <2>1. /\ Ok(G) /\ Blocks(G.di, G.data, G.used) /\ Keeps(F.di, F.data, G.di, G.data, i)
        /\ \A o \in O : At(G.di, G.data, i, o) = cells[o - off + 1]
        /\ Beyond(F.di, F.data, G.di, G.data, i, O)
    BY <1>1, <1>4, <1>7, <1>11 DEF Upto, Extended
  <2>2. Whole(G.di, G.data)
    <3>1. 0..(MAXFILE - 1) \subseteq Place
      BY Layout DEF Place
    <3>2. \A j \in Inum, n \in Place : Blk(F.di, F.data, j, n) # 0 => Blk(G.di, G.data, j, n) # 0
      BY <2>1 DEF Keeps
    <3>. QED  BY <1>6, <3>1, <3>2 DEF Holder, Whole
  <2>3. G.di[i].size = IF off + Len(cells) > F.di[i].size THEN off + Len(cells) ELSE F.di[i].size
    BY <1>0, <1>2, <1>6
  <2>4. WroteAll(F, G, i, off, cells)
    BY <2>1, <2>2, <2>3 DEF WroteAll
  <2>. QED  BY <1>0, <1>6, <1>8, <1>9, <2>4 DEF Wrote
<1>. QED  BY <1>10, <1>11

\* A write past the end of the file.
LEMMA WriteMore ==
    ASSUME NEW F, NEW s, Holder(F, s), NEW off \in Nat, NEW cells \in Seq(Cell),
           F.ic[s].ino.type # "0", off <= F.ic[s].ino.size, off + Len(cells) > F.ic[s].ino.size,
           off + Len(cells) <= MAXFILE * BSIZE,
           NEW W, W = WriteCells(F, s, off, cells),
           NEW G, G = Grown(W, s, off + Len(cells))
    PROVE  Wrote(F, G, s, F.ic[s].inum, off, cells)
<1>. DEFINE i == F.ic[s].inum
            O == off..(off + Len(cells) - 1)
            N == Len(cells)
            end == off + N
<1>0. F \in FsState /\ Ok(F) /\ s \in Slot /\ i \in Inum /\ F.ic[s].ino = F.di[i]
  BY DEF Holder
<1>1. See(F, s) = F.di
  BY <1>0, SeeDi
<1>2. /\ F.di[i] \in Dinode /\ F.di[i].size \in Nat /\ F.di[i].size <= MAXFILE * BSIZE /\ N \in Nat /\ end \in Nat
      /\ MAXFILE * BSIZE \in Nat /\ off <= F.di[i].size /\ end > F.di[i].size /\ end <= MAXFILE * BSIZE
  <2>. DEFINE M == MAXFILE * BSIZE
  <2>1. M \in Nat
    BY MaxCells
  <2>2. F.di[i] \in Dinode /\ F.di[i].size \in Nat /\ F.di[i].size <= M /\ N \in Nat
    BY <1>0 DEF Holder, Whole, FsState, Inodes, Dinode
  <2>3. off <= F.di[i].size /\ end > F.di[i].size /\ end <= M
    BY <1>0
  <2>. HIDE DEF M
  <2>. QED  BY <2>1, <2>2, <2>3 DEF M
<1>3. Upto(F, s, off, cells, N, W)
  BY <1>0, <1>1, CellsWritten DEF Holder
<1>4. /\ W.di = F.di /\ W \in FsState /\ SameIc(F.ic, W.ic, s) /\ W.ic[s].inum = i
      /\ Blocks(See(W, s), W.data, W.used) /\ Keeps(F.di, F.data, See(W, s), W.data, i)
  BY <1>0, <1>1, <1>3 DEF Upto, Extended, SameIc
<1>5. \A x \in W.log : x \in F.log \/ WLog(W, s, i, O, x)
  BY <1>3 DEF Upto, Logs, WLog
<1>6. Kept(F.ic, W.ic, s)
  BY <1>4 DEF Kept, SameIc
<1>. HIDE DEF i, O, N, end
<1>7. CASE DiskFull(W)
  <2>1. G = W
    BY <1>7 DEF Grown, DiskFull, Ok
  <2>2. \A j \in Inum : KeptIno(F.di[j], G.di[j])
    BY <1>4, <2>1 DEF KeptIno
  <2>. QED  BY <1>4, <1>5, <1>6, <1>7, <2>1, <2>2 DEF Wrote, i, O, N
<1>8. CASE ~DiskFull(W)
  <2>1. /\ Ok(W)
        /\ \A o \in O : /\ Blk(See(W, s), W.data, i, o \div BSIZE) # 0
                        /\ At(See(W, s), W.data, i, o) = cells[o - off + 1]
        /\ Beyond(F.di, F.data, See(W, s), W.data, i, O)
    BY <1>1, <1>3, <1>8 DEF Upto, i, O, N
  <2>2. W.ic[s].ino.size = F.di[i].size /\ KeptIno(F.di[i], W.ic[s].ino)
    BY <1>0, <1>4 DEF SameIc, KeptIno
  <2>3. G = Resized(W, s, end)
    BY <1>2, <2>1, <2>2 DEF Grown, Resized, ino, end, N
  <2>4. /\ Fields(G, G.di, W.data, W.used, G.ic, W.log \cup {IBLOCK(i)}, W.panic)
        /\ Kept(W.ic, G.ic, s) /\ G.ic[s].ino = InoSize(W.ic[s].ino, end)
        /\ G.di[i] = InoSize(W.ic[s].ino, end)
        /\ \A j \in Inum : j # i => G.di[j] = W.di[j]
    <3>1. W.ic[s].inum \in Inum /\ end \in Nat /\ W \in FsState /\ s \in Slot
      BY <1>0, <1>2, <1>4
    <3>2. HasSize(W, G, s, W.ic[s].inum, end)
      BY <2>3, <3>1, SizeSet
    <3>. QED  BY <1>4, <3>2 DEF HasSize
  <2>5. See(W, s) \in Inodes /\ See(W, s)[i] = W.ic[s].ino /\ W.ic[s].ino \in Dinode
        /\ \A j \in Inum : j # i => See(W, s)[j] = W.di[j]
    BY <1>0, <1>4, SeeIs
  <2>6. /\ InoSize(W.ic[s].ino, end).addrs = W.ic[s].ino.addrs
        /\ InoSize(W.ic[s].ino, end).size = end /\ KeptIno(W.ic[s].ino, InoSize(W.ic[s].ino, end))
    BY <2>5 DEF InoSize, Dinode, KeptIno
  <2>7. \A j \in Inum : G.di[j].addrs = See(W, s)[j].addrs
    BY <2>4, <2>5, <2>6
  <2>8. /\ \A j \in Inum : \A n : Blk(G.di, W.data, j, n) = Blk(See(W, s), W.data, j, n)
        /\ \A j \in Inum : \A o : At(G.di, W.data, j, o) = At(See(W, s), W.data, j, o)
        /\ Blocks(G.di, W.data, W.used)
    <3>. DEFINE I == See(W, s)
                J == G.di
    <3>1. \A j \in Inum : J[j].addrs = I[j].addrs
      BY <2>7
    <3>2. Blocks(I, W.data, W.used)
      BY <1>4
    <3>. HIDE DEF I, J
    <3>3. Alike(I, J, W.data)
      BY <3>1, SameAddrs
    <3>4. /\ \A j \in Inum : \A n : Blk(J, W.data, j, n) = Blk(I, W.data, j, n)
          /\ \A j \in Inum : \A o : At(J, W.data, j, o) = At(I, W.data, j, o)
          /\ Blocks(J, W.data, W.used)
      BY <3>2, <3>3, Zenon DEF Alike
    <3>. QED  BY <3>4 DEF I, J
  <2>9. G.data = W.data /\ G.used = W.used /\ G \in FsState /\ Ok(G) /\ G.log = W.log \cup {IBLOCK(i)}
    BY <2>1, <2>4 DEF Fields, Ok
  <2>10. G.ic[s].inum = i /\ G.ic[s].ino = G.di[i] /\ See(G, s) = G.di
    <3>1. G.ic[s].inum = i /\ G.ic[s].ino = G.di[i]
      BY <1>0, <1>4, <2>4 DEF Kept
    <3>. QED  BY <1>0, <2>9, <3>1, SeeDi
  <2>11. Kept(F.ic, G.ic, s)
    BY <1>6, <2>4 DEF Kept
  <2>12. \A j \in Inum : KeptIno(F.di[j], G.di[j]) /\ (j # i => G.di[j] = F.di[j])
    BY <1>4, <2>2, <2>4, <2>6 DEF KeptIno
  <2>13. \A x \in G.log : x \in F.log \/ WLog(G, s, i, O, x)
    <3>1. ASSUME NEW x, WLog(W, s, i, O, x) PROVE WLog(G, s, i, O, x)
      <4>1. \A n : Blk(See(W, s), W.data, i, n) = Blk(See(G, s), G.data, i, n)
        BY <1>0, <2>8, <2>9, <2>10
      <4>. QED  BY <3>1, <4>1 DEF WLog
    <3>2. WLog(G, s, i, O, IBLOCK(i))
      BY DEF WLog
    <3>. QED  BY <1>5, <2>9, <3>1, <3>2
  <2>14. Keeps(F.di, F.data, G.di, G.data, i) /\ Beyond(F.di, F.data, G.di, G.data, i, O)
    <3>1. Keeps(F.di, F.data, G.di, G.data, i)
      BY <1>4, <2>8, <2>9 DEF Keeps
    <3>2. Beyond(F.di, F.data, G.di, G.data, i, O)
      BY <2>1, <2>8, <2>9 DEF Beyond
    <3>. QED  BY <3>1, <3>2
  <2>15. Whole(G.di, G.data)
    <3>0. 0..(MAXFILE - 1) \subseteq Place
      BY Layout DEF Place
    <3>1. ASSUME NEW j \in Inum, j # i
          PROVE  /\ \A n \in 0..(MAXFILE - 1) : n * BSIZE < G.di[j].size => Blk(G.di, G.data, j, n) # 0
                 /\ G.di[j].size <= MAXFILE * BSIZE
                 /\ G.di[j].type = "0" => G.di[j].addrs = NoAddrs /\ G.di[j].size = 0
      BY <2>12, <2>14, <3>0, <3>1 DEF Holder, Whole, Keeps
    <3>2. G.di[i].size = end /\ G.di[i].type # "0"
      BY <1>0, <2>4, <2>6, <2>12 DEF KeptIno
    <3>3. ASSUME NEW n \in 0..(MAXFILE - 1), n * BSIZE < end
          PROVE  Blk(G.di, G.data, i, n) # 0
      <4>0. n \in Nat /\ n * BSIZE \in Nat
        BY Layout
      <4>1. CASE n * BSIZE < F.di[i].size
        <5>1. Blk(F.di, F.data, i, n) # 0
          BY <1>0, <4>1 DEF Holder, Whole
        <5>. QED  BY <1>0, <2>14, <3>0, <5>1 DEF Keeps
      <4>2. CASE ~(n * BSIZE < F.di[i].size)
        <5>. DEFINE o == n * BSIZE
        <5>1. o \div BSIZE = n
          BY <4>0, FirstCell
        <5>. HIDE DEF o
        <5>2. o \in O
          BY <1>2, <3>3, <4>0, <4>2 DEF O, o, end, N
        <5>3. Blk(See(W, s), W.data, i, n) # 0
          BY <2>1, <5>1, <5>2
        <5>. QED  BY <1>0, <2>8, <2>9, <5>3
      <4>. QED  BY <4>1, <4>2
    <3>. QED  BY <1>2, <3>1, <3>2, <3>3 DEF Whole
  <2>16. G.di[i].size = IF end > F.di[i].size THEN end ELSE F.di[i].size
    BY <1>2, <2>4, <2>6
  <2>17. \A o \in O : At(G.di, G.data, i, o) = cells[o - off + 1]
    BY <1>0, <2>1, <2>8, <2>9
  <2>18. WroteAll(F, G, i, off, cells)
    BY <2>8, <2>9, <2>14, <2>15, <2>16, <2>17 DEF WroteAll, O, N, end
  <2>. QED  BY <2>9, <2>10, <2>11, <2>12, <2>13, <2>18 DEF Wrote, i, O, N
<1>. QED  BY <1>7, <1>8

\* The write is not refused.
Fits(F, s, off, cells) ==
    /\ F.ic[s].ino.type # "DEV" /\ off <= F.ic[s].ino.size
    /\ off + Len(cells) <= MAXFILE * BSIZE /\ cells # <<>>

\* writei(): all of the cells, or nothing.
LEMMA WriteiIs ==
    ASSUME NEW F, NEW s, Holder(F, s), F.ic[s].ino.type # "0", NEW off \in Nat, NEW cells \in Seq(Cell),
           NEW w, w = writei(F, s, off, cells)
    PROVE  IF Fits(F, s, off, cells) THEN w.ok /\ Wrote(F, w.fs, s, F.ic[s].inum, off, cells)
           ELSE w.fs = F
<1>. DEFINE n == F.ic[s].ino.size
<1>0. n \in Nat /\ Len(cells) \in Nat /\ MAXFILE * BSIZE \in Nat
  <2>0. F \in FsState /\ s \in Slot /\ F.ic[s].inum \in Inum
    BY DEF Holder
  <2>2. F.ic[s].ino \in Dinode
    BY <2>0, SeeIs
  <2>1. n \in Nat
    BY <2>2 DEF Dinode
  <2>. QED  BY <2>1, MaxCells
<1>1. CASE \/ F.ic[s].ino.type = "DEV" \/ off > n \/ off + Len(cells) > MAXFILE * BSIZE \/ cells = <<>>
  <2>1. w.fs = F
    BY <1>1 DEF writei, ino
  <2>. DEFINE M == MAXFILE * BSIZE
  <2>2. CASE off > n
    BY <1>0, <2>1, <2>2 DEF Fits
  <2>3. CASE off + Len(cells) > M
    <3>. HIDE DEF M
    <3>1. ~(off + Len(cells) <= M)
      BY <1>0, <2>3 DEF M
    <3>. QED  BY <2>1, <3>1 DEF Fits, M
  <2>. QED  BY <1>1, <2>1, <2>2, <2>3 DEF Fits
<1>2. CASE /\ F.ic[s].ino.type # "DEV" /\ ~(off > n) /\ ~(off + Len(cells) > MAXFILE * BSIZE)
           /\ cells # <<>>
  <2>. DEFINE W == WriteCells(F, s, off, cells)
              G == Grown(W, s, off + Len(cells))
  <2>1. w.fs = G /\ w.ok
    BY <1>2 DEF writei, ino
  <2>2. off <= n /\ off + Len(cells) <= MAXFILE * BSIZE
    BY <1>0, <1>2
  <2>3. CASE off + Len(cells) > n
    <3>1. Wrote(F, G, s, F.ic[s].inum, off, cells)
      BY <2>2, <2>3, WriteMore
    <3>. QED  BY <1>2, <2>1, <2>2, <3>1 DEF Fits
  <2>4. CASE off + Len(cells) <= n
    <3>1. Wrote(F, W, s, F.ic[s].inum, off, cells)
      BY <2>4, WriteInside
    <3>2. G = W
      <4>. HIDE DEF W
      <4>1. CASE ~Ok(W)
        BY <4>1 DEF Grown
      <4>2. CASE Ok(W)
        <5>1. F.ic[s].inum \in Inum /\ W.ic[s].ino = W.di[F.ic[s].inum]
              /\ W.di[F.ic[s].inum].size = n
          BY <3>1, <4>2, <2>4, <1>0 DEF Wrote, WroteAll, Holder, DiskFull, Ok
        <5>2. ~(off + Len(cells) > W.ic[s].ino.size)
          BY <1>0, <2>4, <5>1
        <5>. QED  BY <5>2 DEF Grown, ino
      <4>. QED  BY <4>1, <4>2
    <3>. QED  BY <1>2, <2>1, <2>2, <3>1, <3>2 DEF Fits
  <2>. QED  BY <1>0, <2>3, <2>4
<1>. QED  BY <1>1, <1>2

\* The cells of inode i from off on.
Contents(I, D, i, off, n) == [k \in 1..n |-> At(I, D, i, off + k - 1)]

\* One more element.
LEMMA AppendIs ==
    ASSUME NEW S, NEW n \in Nat, NEW f, \A k \in 1..(n + 1) : f[k] \in S
    PROVE  Append([k \in 1..n |-> f[k]], f[n + 1]) = [k \in 1..(n + 1) |-> f[k]]
<1>1. [k \in 1..n |-> f[k]] \in Seq(S) /\ Len([k \in 1..n |-> f[k]]) = n
  OBVIOUS
<1>. QED  BY <1>1

\* A cell of a file.
LEMMA CellIn ==
    ASSUME NEW F, NEW s, Holder(F, s), NEW o \in Nat, o < F.ic[s].ino.size
    PROVE  /\ o \div BSIZE \in 0..(MAXFILE - 1)
           /\ Blk(F.di, F.data, F.ic[s].inum, o \div BSIZE) # 0
           /\ At(F.di, F.data, F.ic[s].inum, o) \in Cell
<1>. DEFINE i == F.ic[s].inum
            n == o \div BSIZE
            y == o % BSIZE
<1>0. F \in FsState /\ Ok(F) /\ s \in Slot /\ i \in Inum /\ F.ic[s].ino = F.di[i]
  BY DEF Holder
<1>1. F.di[i].size \in Nat /\ F.di[i].size <= MAXFILE * BSIZE /\ o < F.di[i].size
  BY <1>0 DEF Holder, Whole, FsState, Inodes, Dinode
<1>2. n \in Nat /\ n * BSIZE <= o /\ y \in 0..(BSIZE - 1) /\ n * BSIZE \in Nat
  BY CellOf, FirstCell
<1>3. n < MAXFILE
  <2>. DEFINE M == MAXFILE * BSIZE
  <2>1. M \in Nat /\ F.di[i].size <= M
    BY <1>1, MaxCells
  <2>. HIDE DEF M
  <2>2. o < M
    BY <1>1, <2>1
  <2>. QED  BY <2>2, CellBelow, Layout DEF M
<1>4. At(F.di, F.data, i, o) = F.data[Blk(F.di, F.data, i, n)][y]
  BY DEF At
<1>. HIDE DEF n, y
<1>5. n \in 0..(MAXFILE - 1)
  BY <1>2, <1>3, Layout
<1>6. n * BSIZE < F.di[i].size
  BY <1>1, <1>2
<1>7. Blk(F.di, F.data, i, n) # 0
  BY <1>0, <1>5, <1>6 DEF Holder, Whole
<1>8. n \in Place
  BY <1>5, Layout DEF Place
<1>9. Blk(F.di, F.data, i, n) \in Data
  BY <1>0, <1>7, <1>8 DEF Holder, Blocks, Placed
<1>10. F.data[Blk(F.di, F.data, i, n)][y] \in Cell
  BY <1>0, <1>2, <1>9 DEF FsState, Datas
<1>. QED  BY <1>4, <1>5, <1>7, <1>10 DEF n

\* One cell is read.
LEMMA CellRead ==
    ASSUME NEW F, NEW s, Holder(F, s), NEW o \in Nat, o < F.ic[s].ino.size, NEW r, r.fs = F
    PROVE  ReadCell(r, s, o) = [fs |-> F, out |-> Append(r.out, At(F.di, F.data, F.ic[s].inum, o))]
<1>. DEFINE i == F.ic[s].inum
            n == o \div BSIZE
            m == bmap(F, s, n)
<1>0. F \in FsState /\ Ok(F) /\ s \in Slot /\ i \in Inum /\ F.ic[s].ino = F.di[i]
      /\ Blocks(F.di, F.data, F.used)
  BY DEF Holder
<1>1. See(F, s) = F.di
  BY <1>0, SeeDi
<1>2. n \in 0..(MAXFILE - 1) /\ Blk(F.di, F.data, i, n) # 0
  BY CellIn
<1>3. At(F.di, F.data, i, o) = F.data[Blk(F.di, F.data, i, n)][o % BSIZE]
  BY DEF At
<1>4. ReadCell(r, s, o) = Taken(m, o, r.out)
  BY DEF ReadCell
<1>. HIDE DEF n, m
<1>5. m.fs = F /\ Mapped(m, s, n)
  <2>1. m = bmap(F, s, n)
    BY DEF m
  <2>2. Blocks(See(F, s), F.data, F.used) /\ Blk(See(F, s), F.data, F.ic[s].inum, n) # 0
    BY <1>0, <1>1, <1>2
  <2>. QED  BY <1>0, <1>2, <2>1, <2>2, BmapIs
<1>6. m.b = Blk(F.di, F.data, i, n)
  BY <1>0, <1>1, <1>5 DEF Mapped, Ok
<1>. QED  BY <1>0, <1>3, <1>4, <1>5, <1>6 DEF Taken

\* All that is asked for.
LEMMA CellsRead ==
    ASSUME NEW F, NEW s, Holder(F, s), NEW off \in Nat, NEW n \in Nat, off + n <= F.ic[s].ino.size
    PROVE  ReadCells(F, s, off, n) =
              [fs |-> F, out |-> Contents(F.di, F.data, F.ic[s].inum, off, n)]
<1>. DEFINE i == F.ic[s].inum
            e(k) == [fs |-> F, out |-> Contents(F.di, F.data, i, off, k)]
            R(f) == f = [k \in 0..n |-> IF k = 0 THEN [fs |-> F, out |-> <<>>]
                                        ELSE ReadCell(f[k - 1], s, off + k - 1)]
            g == [k \in 0..n |-> e(k)]
<1>0. F.ic[s].ino.size \in Nat
  <2>1. F \in FsState /\ s \in Slot /\ F.ic[s].inum \in Inum
    BY DEF Holder
  <2>2. F.ic[s].ino \in Dinode
    BY <2>1, SeeIs
  <2>. QED  BY <2>2 DEF Dinode
<1>1. ASSUME NEW k \in 1..n PROVE ReadCell(e(k - 1), s, off + k - 1) = e(k)
  <2>. DEFINE o == off + k - 1
              a == [x \in 1..k |-> At(F.di, F.data, i, off + x - 1)]
  <2>1. o \in Nat /\ o < F.ic[s].ino.size /\ k - 1 \in Nat /\ k = (k - 1) + 1 /\ k \in 1..k
    BY <1>0
  <2>2. ReadCell(e(k - 1), s, o) = [fs |-> F, out |-> Append(e(k - 1).out, At(F.di, F.data, i, o))]
    BY <2>1, CellRead
  <2>3. \A x \in 1..k : a[x] = At(F.di, F.data, i, off + x - 1) /\ a[x] \in Cell
    <3>1. ASSUME NEW x \in 1..k PROVE At(F.di, F.data, i, off + x - 1) \in Cell
      <4>1. off + x - 1 \in Nat /\ off + x - 1 < F.ic[s].ino.size
        BY <1>0
      <4>. QED  BY <4>1, CellIn
    <3>. QED  BY <3>1
  <2>4. e(k - 1).out = [x \in 1..(k - 1) |-> a[x]]
    <3>1. \A x \in 1..(k - 1) : x \in 1..k
      BY <2>1
    <3>. QED  BY <3>1 DEF Contents
  <2>5. a[k] = At(F.di, F.data, i, o)
    BY <2>1
  <2>6. [x \in 1..k |-> a[x]] = Contents(F.di, F.data, i, off, k)
    BY DEF Contents
  <2>. HIDE DEF a, o
  <2>7. Append([x \in 1..(k - 1) |-> a[x]], a[k]) = [x \in 1..k |-> a[x]]
    BY <2>1, <2>3, AppendIs
  <2>8. Append(e(k - 1).out, At(F.di, F.data, i, o)) = Contents(F.di, F.data, i, off, k)
    BY <2>4, <2>5, <2>6, <2>7
  <2>. QED  BY <2>2, <2>8 DEF o
<1>2. e(0) = [fs |-> F, out |-> <<>>]
  BY DEF Contents
<1>. HIDE DEF e
<1>3. R(g)
  <2>1. ASSUME NEW k \in 0..n, k # 0
        PROVE  g[k] = ReadCell(g[k - 1], s, off + k - 1)
    <3>1. k \in 1..n /\ k - 1 \in 0..n
      BY <2>1
    <3>2. g[k] = e(k) /\ g[k - 1] = e(k - 1)
      BY <3>1
    <3>. QED  BY <1>1, <3>1, <3>2
  <2>2. g[0] = [fs |-> F, out |-> <<>>]
    BY <1>2
  <2>. QED  BY <2>1, <2>2
<1>. DEFINE W == CHOOSE f : R(f)
<1>4. R(W)
  BY <1>3, Zenon
<1>5. ReadCells(F, s, off, n) = W[n]
  BY DEF ReadCells
<1>. HIDE DEF W
<1>6. \A k \in 0..n : W[k] = IF k = 0 THEN [fs |-> F, out |-> <<>>] ELSE ReadCell(W[k - 1], s, off + k - 1)
  BY <1>4, Zenon
<1>. DEFINE T == [k \in 0..n |-> {e(k)}]
<1>7. W[0] \in T[0]
  <2>1. 0 \in 0..n
    OBVIOUS
  <2>2. W[0] = e(0)
    BY <1>2, <1>6, <2>1, Zenon
  <2>. QED  BY <2>1, <2>2
<1>8. ASSUME NEW k \in 1..n, W[k - 1] \in T[k - 1]
      PROVE  W[k] \in T[k]
  <2>1. k \in 0..n /\ k # 0 /\ k - 1 \in 0..n
    OBVIOUS
  <2>2. W[k - 1] = e(k - 1)
    BY <1>8, <2>1
  <2>3. W[k] = ReadCell(e(k - 1), s, off + k - 1)
    BY <1>6, <2>1, <2>2
  <2>. QED  BY <1>1, <2>1, <2>3
<1>. HIDE DEF T
<1>9. \A k \in 0..n : W[k] \in T[k]
  BY <1>7, <1>8, Stays
<1>10. W[n] = e(n)
  BY <1>9 DEF T
<1>. QED  BY <1>5, <1>10 DEF e

\* readi() of a locked inode changes nothing.
LEMMA ReadiIs ==
    ASSUME NEW F, NEW s, Holder(F, s), NEW off \in Nat, NEW n \in Nat,
           NEW r, r = readi(F, s, off, n)
    PROVE  /\ r.fs = F /\ Len(r.out) \in Nat
           /\ F.ic[s].ino.type # "DEV" /\ off + n <= F.ic[s].ino.size
              => r.out = Contents(F.di, F.data, F.ic[s].inum, off, n)
<1>0. F.ic[s].ino.size \in Nat
  <2>1. F \in FsState /\ s \in Slot /\ F.ic[s].inum \in Inum
    BY DEF Holder
  <2>2. F.ic[s].ino \in Dinode
    BY <2>1, SeeIs
  <2>. QED  BY <2>2 DEF Dinode
<1>1. CASE F.ic[s].ino.type = "DEV"
  <2>1. r.fs = F /\ (r.out = <<>> \/ r.out = [k \in 1..n |-> Zero])
    BY <1>1 DEF readi, ino
  <2>. QED  BY <1>1, <2>1
<1>2. CASE F.ic[s].ino.type # "DEV" /\ off > F.ic[s].ino.size
  <2>1. r.fs = F /\ r.out = <<>>
    BY <1>2 DEF readi, ino
  <2>. QED  BY <1>0, <1>2, <2>1
<1>3. CASE F.ic[s].ino.type # "DEV" /\ ~(off > F.ic[s].ino.size)
  <2>. DEFINE m == IF off + n > F.ic[s].ino.size THEN F.ic[s].ino.size - off ELSE n
  <2>1. r = ReadCells(F, s, off, m)
    BY <1>3 DEF readi, ino
  <2>2. m \in Nat /\ off + m <= F.ic[s].ino.size /\ (off + n <= F.ic[s].ino.size => m = n)
    BY <1>0, <1>3
  <2>. HIDE DEF m
  <2>3. r = [fs |-> F, out |-> Contents(F.di, F.data, F.ic[s].inum, off, m)]
    BY <2>1, <2>2, CellsRead
  <2>4. Len(Contents(F.di, F.data, F.ic[s].inum, off, m)) = m
    BY <2>2 DEF Contents
  <2>. QED  BY <2>2, <2>3, <2>4
<1>. QED  BY <1>1, <1>2, <1>3

\* A running kernel with a sound inode cache.
Cached(F) ==
    F \in FsState /\ Ok(F) /\ OneEntry(F.ic) /\ CacheOK(F.di, F.ic)
Linked(I) == \A i \in Inum : I[i].type # "0" => I[i].nlink # 0
SameDisk(F, G) ==
    G.di = F.di /\ G.data = F.data /\ G.used = F.used /\ G.log = F.log /\ G.panic = F.panic

\* F with entry s set to e.
WithEntry(F, s, e) == [F EXCEPT !.ic = [F.ic EXCEPT ![s] = e]]
Sound(F, s, e) ==
    /\ e \in InodeRec
    /\ e.ref > 0 => /\ e.inum \in Inum /\ F.di[e.inum].type # "0"
                    /\ e.valid => e.ino = F.di[e.inum]
                    /\ \A t \in Slot : t # s /\ F.ic[t].ref > 0 => F.ic[t].inum # e.inum
    /\ e.lock # NoProc => e.ref > 0 /\ e.valid
Entered(F, G, s, e) ==
    /\ Cached(G) /\ SameDisk(F, G) /\ G.ic[s] = e /\ \A t \in Slot : t # s => G.ic[t] = F.ic[t]

\* A sound entry keeps the cache sound.
LEMMA EntrySet ==
    ASSUME NEW F, Cached(F), NEW s \in Slot, NEW e, Sound(F, s, e), NEW G, G = WithEntry(F, s, e)
    PROVE  Entered(F, G, s, e)
<1>1. F \in FsState /\ F.ic \in [Slot -> InodeRec] /\ Ok(F) /\ e \in InodeRec
  BY DEF Cached, FsState, Sound
<1>. DEFINE jc == [F.ic EXCEPT ![s] = e]
<1>2. jc \in [Slot -> InodeRec] /\ jc[s] = e /\ \A t \in Slot : t # s => jc[t] = F.ic[t]
  BY <1>1
<1>. HIDE DEF jc
<1>3. G = [F EXCEPT !.ic = jc]
  BY DEF WithEntry, jc
<1>4. /\ G \in FsState /\ G.ic = jc /\ G.di = F.di /\ G.data = F.data /\ G.used = F.used
      /\ G.log = F.log /\ G.panic = F.panic
  BY <1>1, <1>2, <1>3 DEF FsState
<1>5. OneEntry(jc)
  BY <1>2 DEF Cached, Sound, OneEntry
<1>6. CacheOK(F.di, jc)
  <2>1. ASSUME NEW t \in Slot
        PROVE  /\ jc[t].ref > 0 => jc[t].inum \in Inum /\ F.di[jc[t].inum].type # "0"
               /\ jc[t].ref > 0 /\ jc[t].valid => jc[t].ino = F.di[jc[t].inum]
               /\ jc[t].lock # NoProc => jc[t].ref > 0 /\ jc[t].valid
    <3>1. CASE t = s
      BY <1>2, <3>1 DEF Sound
    <3>2. CASE t # s
      BY <1>2, <3>2 DEF Cached, CacheOK
    <3>. QED  BY <3>1, <3>2
  <2>. QED  BY <2>1 DEF CacheOK
<1>7. Cached(G)
  BY <1>4, <1>5, <1>6 DEF Cached, Ok
<1>. QED  BY <1>2, <1>4, <1>7 DEF Entered, SameDisk

One(a, t) == IF a = t THEN 1 ELSE 0

\* From F to G: a pointer to entry b, if not 0, was made, one to a dropped,
\* and the lock of s set to x.
Moves(F, G, a, b, s, x) ==
    /\ Cached(G) /\ SameDisk(F, G)
    /\ \A t \in Slot : /\ G.ic[t].ref = F.ic[t].ref + One(b, t) - One(a, t)
                       /\ G.ic[t].lock = IF t = s THEN x ELSE F.ic[t].lock
                       /\ F.ic[t].ref > 0 => G.ic[t].inum = F.ic[t].inum

\* The fields of an entry.
LEMMA EntryIs ==
    ASSUME NEW F \in FsState, NEW s \in Slot
    PROVE  /\ F.ic[s] \in InodeRec /\ F.ic[s].inum \in Inum \cup {0} /\ F.ic[s].ref \in Nat
           /\ F.ic[s].valid \in BOOLEAN /\ F.ic[s].lock \in Process \cup {NoProc} /\ F.ic[s].ino \in Dinode
<1>1. F.ic[s] \in InodeRec
  BY DEF FsState
<1>. QED  BY <1>1 DEF InodeRec

\* Entry s changes, its reference count by a pointer made or dropped.
LEMMA EntryMoves ==
    ASSUME NEW F, F \in FsState, NEW s \in Slot, NEW e, NEW G, Entered(F, G, s, e),
           NEW a, NEW b, a \in {0, s}, b \in {0, s}, e.ref = F.ic[s].ref + One(b, s) - One(a, s),
           F.ic[s].ref > 0 => e.inum = F.ic[s].inum
    PROVE  Moves(F, G, a, b, s, e.lock)
<1>1. \A t \in Slot : F.ic[t].ref \in Nat
  BY EntryIs
<1>2. 0 \notin Slot
  BY DEF Slot
<1>3. ASSUME NEW t \in Slot
      PROVE  /\ G.ic[t].ref = F.ic[t].ref + One(b, t) - One(a, t)
             /\ G.ic[t].lock = IF t = s THEN e.lock ELSE F.ic[t].lock
             /\ F.ic[t].ref > 0 => G.ic[t].inum = F.ic[t].inum
  <2>1. CASE t = s
    BY <2>1 DEF Entered
  <2>2. CASE t # s
    <3>1. One(a, t) = 0 /\ One(b, t) = 0 /\ G.ic[t] = F.ic[t]
      BY <1>2, <2>2 DEF One, Entered
    <3>2. F.ic[t].ref + 0 - 0 = F.ic[t].ref
      BY <1>1
    <3>. QED  BY <2>2, <3>1, <3>2
  <2>. QED  BY <2>1, <2>2
<1>. QED  BY <1>3 DEF Moves, Entered

\* idup() of an entry in use.
LEMMA IdupIs ==
    ASSUME NEW F, Cached(F), NEW s \in Slot, F.ic[s].ref > 0, NEW G, G = idup(F, s)
    PROVE  Moves(F, G, 0, s, 0, NoProc)
<1>. DEFINE e == [F.ic[s] EXCEPT !.ref = F.ic[s].ref + 1]
<1>1. F \in FsState /\ F.ic[s] \in InodeRec /\ F.ic[s].ref \in Nat /\ F.ic \in [Slot -> InodeRec]
  BY EntryIs DEF Cached, FsState
<1>2. /\ e \in InodeRec /\ e.ref = F.ic[s].ref + 1 /\ e.inum = F.ic[s].inum /\ e.lock = F.ic[s].lock
      /\ e.valid = F.ic[s].valid /\ e.ino = F.ic[s].ino
  BY <1>1 DEF InodeRec
<1>. HIDE DEF e
<1>3. G = WithEntry(F, s, e)
  BY <1>1 DEF idup, WithEntry, e
<1>4. Sound(F, s, e)
  BY <1>1, <1>2 DEF Cached, CacheOK, OneEntry, Sound
<1>5. Entered(F, G, s, e)
  BY <1>3, <1>4, EntrySet
<1>6. 0 \notin Slot
  BY DEF Slot
<1>7. e.ref = F.ic[s].ref + One(s, s) - One(0, s)
  BY <1>1, <1>2, <1>6 DEF One
<1>8. Moves(F, G, 0, s, s, F.ic[s].lock)
  BY <1>1, <1>2, <1>5, <1>7, EntryMoves
<1>. QED  BY <1>6, <1>8 DEF Moves

\* ilock() of an entry in use whose lock is free.
LEMMA IlockIs ==
    ASSUME NEW F, Cached(F), NEW s \in Slot, F.ic[s].ref > 0, NEW p \in Process, NEW G, G = ilock(F, s, p)
    PROVE  /\ Moves(F, G, 0, 0, s, p)
           /\ G.ic[s].inum = F.ic[s].inum /\ G.ic[s].ino = F.di[F.ic[s].inum]
<1>. DEFINE d == F.di[F.ic[s].inum]
            e == [F.ic[s] EXCEPT !.lock = p, !.valid = TRUE, !.ino = d]
<1>1. F \in FsState /\ F.ic[s] \in InodeRec /\ F.ic[s].ref \in Nat /\ F.ic \in [Slot -> InodeRec]
  BY EntryIs DEF Cached, FsState
<1>2. F.ic[s].inum \in Inum /\ d.type # "0" /\ d \in Dinode
  BY <1>1 DEF Cached, CacheOK, FsState, Inodes
<1>3. /\ e \in InodeRec /\ e.ref = F.ic[s].ref /\ e.inum = F.ic[s].inum /\ e.lock = p
      /\ e.valid = TRUE /\ e.ino = d
  BY <1>1, <1>2 DEF InodeRec
<1>4. ~(F.ic[s].ref < 1)
  BY <1>1
<1>5. G = WithEntry(F, s, e)
  <2>1. CASE F.ic[s].valid
    <3>1. F.ic[s].ino = d /\ F.ic[s].valid = TRUE
      BY <1>1, <2>1 DEF Cached, CacheOK, InodeRec
    <3>2. e = [F.ic[s] EXCEPT !.lock = p]
      BY <1>1, <3>1 DEF InodeRec
    <3>3. G = [F EXCEPT !.ic[s].lock = p]
      BY <1>4, <2>1 DEF ilock
    <3>. QED  BY <1>1, <3>2, <3>3 DEF WithEntry
  <2>2. CASE ~F.ic[s].valid
    <3>. DEFINE L == [F EXCEPT !.ic[s].lock = p]
    <3>1. G = [L EXCEPT !.ic[s].valid = TRUE, !.ic[s].ino = d]
      BY <1>2, <1>4, <2>2 DEF ilock
    <3>2. L = [F EXCEPT !.ic = [F.ic EXCEPT ![s] = [F.ic[s] EXCEPT !.lock = p]]]
      BY <1>1
    <3>3. L.ic = [F.ic EXCEPT ![s] = [F.ic[s] EXCEPT !.lock = p]]
      BY <1>1, <3>2 DEF FsState
    <3>. HIDE DEF L
    <3>4. G = [L EXCEPT !.ic = [L.ic EXCEPT ![s] = [L.ic[s] EXCEPT !.valid = TRUE, !.ino = d]]]
      BY <3>1, ZenonT(30)
    <3>5. L.ic[s] = [F.ic[s] EXCEPT !.lock = p]
      BY <1>1, <3>3
    <3>6. [L.ic[s] EXCEPT !.valid = TRUE, !.ino = d] = e
      BY <3>5
    <3>7. [L.ic EXCEPT ![s] = e] = [F.ic EXCEPT ![s] = e]
      BY <1>1, <3>3
    <3>. QED  BY <1>1, <3>2, <3>4, <3>6, <3>7 DEF WithEntry, FsState
  <2>. QED  BY <2>1, <2>2
<1>. HIDE DEF e, d
<1>6. Sound(F, s, e)
  BY <1>1, <1>2, <1>3 DEF Cached, OneEntry, Sound, d
<1>7. Entered(F, G, s, e)
  BY <1>5, <1>6, EntrySet
<1>8. 0 \notin Slot
  BY DEF Slot
<1>9. e.ref = F.ic[s].ref + One(0, s) - One(0, s)
  BY <1>1, <1>3, <1>8 DEF One
<1>10. Moves(F, G, 0, 0, s, p)
  BY <1>1, <1>3, <1>7, <1>9, EntryMoves
<1>. QED  BY <1>3, <1>7, <1>10 DEF Entered, d

\* iunlock() of a locked entry.
LEMMA IunlockIs ==
    ASSUME NEW F, Cached(F), NEW s \in Slot, NEW p, p # NoProc, F.ic[s].lock = p,
           NEW G, G = iunlock(F, s, p)
    PROVE  Moves(F, G, 0, 0, s, NoProc)
<1>. DEFINE e == [F.ic[s] EXCEPT !.lock = NoProc]
<1>1. F \in FsState /\ F.ic[s] \in InodeRec /\ F.ic[s].ref \in Nat /\ F.ic \in [Slot -> InodeRec]
  BY EntryIs DEF Cached, FsState
<1>2. F.ic[s].ref > 0 /\ ~(F.ic[s].ref < 1) /\ Ok(F)
  BY <1>1 DEF Cached, CacheOK
<1>3. /\ e \in InodeRec /\ e.ref = F.ic[s].ref /\ e.inum = F.ic[s].inum /\ e.lock = NoProc
      /\ e.valid = F.ic[s].valid /\ e.ino = F.ic[s].ino
  BY <1>1 DEF InodeRec
<1>4. G = WithEntry(F, s, e)
  BY <1>2 DEF iunlock, WithEntry
<1>. HIDE DEF e
<1>5. Sound(F, s, e)
  BY <1>1, <1>2, <1>3 DEF Cached, CacheOK, OneEntry, Sound
<1>6. Entered(F, G, s, e)
  BY <1>4, <1>5, EntrySet
<1>7. 0 \notin Slot
  BY DEF Slot
<1>8. e.ref = F.ic[s].ref + One(0, s) - One(0, s)
  BY <1>1, <1>3, <1>7 DEF One
<1>. QED  BY <1>1, <1>3, <1>6, <1>8, EntryMoves

\* iput() of an entry in use, that of another user if it is locked.  There is
\* no inode without links, so that nothing is freed.
LEMMA IputIs ==
    ASSUME NEW F, Cached(F), Linked(F.di), NEW s \in Slot, F.ic[s].ref > 0,
           F.ic[s].lock = NoProc \/ F.ic[s].ref > 1, NEW G, G = iput(F, s)
    PROVE  Moves(F, G, s, 0, 0, NoProc)
<1>. DEFINE e == [F.ic[s] EXCEPT !.ref = F.ic[s].ref - 1]
<1>1. F \in FsState /\ F.ic[s] \in InodeRec /\ F.ic[s].ref \in Nat /\ F.ic \in [Slot -> InodeRec] /\ Ok(F)
  BY EntryIs DEF Cached, FsState
<1>2. F.ic[s].ref - 1 \in Nat
  BY <1>1
<1>3. /\ e \in InodeRec /\ e.ref = F.ic[s].ref - 1 /\ e.inum = F.ic[s].inum /\ e.lock = F.ic[s].lock
      /\ e.valid = F.ic[s].valid /\ e.ino = F.ic[s].ino
  BY <1>1, <1>2 DEF InodeRec
<1>4. ~(F.ic[s].ref = 1 /\ F.ic[s].valid /\ ino(F, s).nlink = 0)
  BY DEF Cached, CacheOK, Linked, ino
<1>5. G = [F EXCEPT !.ic[s].ref = @ - 1]
  BY <1>1, <1>4 DEF iput
<1>6. G = WithEntry(F, s, e)
  BY <1>1, <1>5 DEF WithEntry
<1>. HIDE DEF e
<1>7. Sound(F, s, e)
  <2>1. e.ref > 0 => F.ic[s].ref > 0
    BY <1>1, <1>3
  <2>2. F.ic[s].ref > 1 => e.ref > 0
    BY <1>1, <1>3
  <2>. QED  BY <1>3, <2>1, <2>2 DEF Cached, CacheOK, OneEntry, Sound
<1>8. Entered(F, G, s, e)
  BY <1>6, <1>7, EntrySet
<1>9. 0 \notin Slot
  BY DEF Slot
<1>10. e.ref = F.ic[s].ref + One(0, s) - One(s, s)
  BY <1>1, <1>3, <1>9 DEF One
<1>11. Moves(F, G, s, 0, s, F.ic[s].lock)
  BY <1>1, <1>3, <1>8, <1>10, EntryMoves
<1>. QED  BY <1>9, <1>11 DEF Moves

\* iget() found every entry in use.
NoEntry(F, r) ==
    /\ r.s = 0 /\ Fields(r.fs, F.di, F.data, F.used, F.ic, F.log, "iget")
    /\ \A s \in Slot : F.ic[s].ref > 0
\* iget() returned an entry for inode n.
GotEntry(F, r, n) ==
    r.s \in Slot /\ Moves(F, r.fs, 0, r.s, 0, NoProc) /\ r.fs.ic[r.s].inum = n

\* iget(): the entry of the inode, or an empty one, or a full cache.
LEMMA IgetIs ==
    ASSUME NEW F, Cached(F), NEW n \in Inum, F.di[n].type # "0", NEW r, r = iget(F, n)
    PROVE  NoEntry(F, r) \/ GotEntry(F, r, n)
<1>0. F \in FsState /\ F.ic \in [Slot -> InodeRec] /\ Ok(F) /\ Slot \subseteq Nat /\ 0 \notin Slot
  BY DEF Cached, FsState, Slot
<1>1. CASE Entry(F, n) # {}
  <2>. DEFINE s == Min(Entry(F, n))
  <2>1. Entry(F, n) \in SUBSET Nat
    BY <1>0 DEF Entry
  <2>2. s \in Entry(F, n)
    BY <1>1, <2>1, LeastNumber
  <2>3. r = [fs |-> idup(F, s), s |-> s]
    BY <1>1 DEF iget, idup
  <2>. HIDE DEF s
  <2>4. s \in Slot /\ F.ic[s].ref > 0 /\ F.ic[s].inum = n
    BY <2>2 DEF Entry
  <2>5. r.s = s /\ r.fs = idup(F, s)
    BY <2>3
  <2>6. Moves(F, r.fs, 0, s, 0, NoProc)
    BY <2>4, <2>5, IdupIs
  <2>7. r.fs.ic[s].inum = n
    BY <2>4, <2>6 DEF Moves
  <2>. QED  BY <2>4, <2>5, <2>6, <2>7 DEF GotEntry
<1>2. CASE Entry(F, n) = {} /\ Empty(F) = {}
  <2>1. r = [fs |-> Panic(F, "iget"), s |-> 0]
    BY <1>2 DEF iget
  <2>2. Fields(Panic(F, "iget"), F.di, F.data, F.used, F.ic, F.log, "iget")
    <3>1. "iget" \in Reason
      BY DEF Reason
    <3>. QED  BY <1>0, <3>1, PanicIs
  <2>3. ASSUME NEW s \in Slot PROVE F.ic[s].ref > 0
    <3>1. F.ic[s].ref \in Nat
      BY <1>0, EntryIs
    <3>2. F.ic[s].ref # 0
      BY <1>2 DEF Empty
    <3>. QED  BY <3>1, <3>2
  <2>. QED  BY <2>1, <2>2, <2>3 DEF NoEntry
<1>3. CASE Entry(F, n) = {} /\ Empty(F) # {}
  <2>. DEFINE s == Min(Empty(F))
              e == [F.ic[s] EXCEPT !.inum = n, !.ref = 1, !.valid = FALSE]
  <2>1. Empty(F) \in SUBSET Nat
    BY <1>0 DEF Empty
  <2>2. s \in Empty(F)
    BY <1>3, <2>1, LeastNumber
  <2>3. r = Recycle(F, s, n)
    BY <1>3 DEF iget
  <2>. HIDE DEF s
  <2>4. s \in Slot /\ F.ic[s].ref = 0
    BY <2>2 DEF Empty
  <2>5. F.ic[s] \in InodeRec
    BY <1>0, <2>4, EntryIs
  <2>6. /\ e \in InodeRec /\ e.ref = 1 /\ e.inum = n /\ e.lock = F.ic[s].lock
        /\ e.valid = FALSE
    BY <2>5 DEF InodeRec
  <2>7. r.s = s /\ r.fs = WithEntry(F, s, e)
    BY <2>3 DEF Recycle, WithEntry
  <2>. HIDE DEF e
  <2>8. F.ic[s].lock = NoProc
    BY <2>4 DEF Cached, CacheOK
  <2>9. \A t \in Slot : F.ic[t].ref > 0 => F.ic[t].inum # n
    BY <1>3 DEF Entry
  <2>10. Sound(F, s, e)
    BY <2>6, <2>8, <2>9 DEF Sound
  <2>11. Entered(F, r.fs, s, e)
    BY <2>4, <2>7, <2>10, EntrySet
  <2>12. e.ref = F.ic[s].ref + One(s, s) - One(0, s)
    BY <1>0, <2>4, <2>6 DEF One
  <2>13. Moves(F, r.fs, 0, s, s, F.ic[s].lock)
    BY <1>0, <2>4, <2>6, <2>11, <2>12, EntryMoves
  <2>14. Moves(F, r.fs, 0, s, 0, NoProc)
    BY <1>0, <2>13 DEF Moves
  <2>15. r.fs.ic[s].inum = n
    BY <2>6, <2>11 DEF Entered
  <2>. QED  BY <2>4, <2>7, <2>14, <2>15 DEF GotEntry
<1>. QED  BY <1>1, <1>2, <1>3

-----------------------------------------------------------------------------
(* Directories *)

\* No entry of directory d has the name.
NoName(I, D, d, name) ==
    \A x \in Offs(I, d) : At(I, D, d, x)[2] # 0 => At(I, D, d, x)[1] # name

\* All of a directory is read.
LEMMA DirRead ==
    ASSUME NEW F, NEW s, Holder(F, s), F.ic[s].ino.type = "DIR",
           NEW r, r = readi(F, s, 0, ino(F, s).size)
    PROVE  LET n == F.ic[s].ino.size
           IN  /\ r.fs = F /\ n \in Nat /\ n <= MAXFILE * BSIZE /\ F.ic[s].inum \in DirSet(F.di)
               /\ F.ic[s].ino = F.di[F.ic[s].inum] /\ Offs(F.di, F.ic[s].inum) = 0..(n - 1)
               /\ DOMAIN r.out = 1..n /\ Len(r.out) = n
               /\ \A k \in 1..n : r.out[k] = At(F.di, F.data, F.ic[s].inum, k - 1)
<1>. DEFINE n == F.ic[s].ino.size
            i == F.ic[s].inum
<1>1. F \in FsState /\ s \in Slot /\ i \in Inum /\ F.ic[s].ino = F.di[i] /\ Whole(F.di, F.data)
  BY DEF Holder
<1>2. F.ic[s].ino \in Dinode
  BY <1>1, EntryIs
<1>3. n \in Nat /\ n <= MAXFILE * BSIZE /\ i \in DirSet(F.di) /\ Offs(F.di, i) = 0..(n - 1)
  BY <1>1, <1>2 DEF Whole, Dinode, DirSet, Offs
<1>4. r = readi(F, s, 0, n) /\ 0 \in Nat /\ 0 + n <= F.ic[s].ino.size /\ F.ic[s].ino.type # "DEV"
  BY <1>3 DEF ino
<1>. HIDE DEF n
<1>5. r.fs = F /\ r.out = Contents(F.di, F.data, i, 0, n)
  BY <1>3, <1>4, ReadiIs
<1>6. DOMAIN r.out = 1..n /\ Len(r.out) = n
  BY <1>3, <1>5 DEF Contents
<1>7. ASSUME NEW k \in 1..n PROVE r.out[k] = At(F.di, F.data, i, k - 1)
  <2>1. 0 + k - 1 = k - 1
    BY <1>3
  <2>. QED  BY <1>5, <2>1 DEF Contents
<1>. QED  BY <1>1, <1>3, <1>5, <1>6, <1>7 DEF n

\* dirlookup(): the name is not there, or its inode is got.
NotThere(F, s, name, r) == r.fs = F /\ r.s = 0 /\ NoName(F.di, F.data, F.ic[s].inum, name)
There(F, s, name, r) ==
    \E x \in Offs(F.di, F.ic[s].inum) :
        LET c == At(F.di, F.data, F.ic[s].inum, x)
        IN  /\ c[1] = name /\ c[2] \in Inum /\ F.di[c[2]].type # "0"
            /\ NoEntry(F, r) \/ GotEntry(F, r, c[2])

\* dirlookup() finds no entry of that name, or goes on with iget() of the
\* inode that the entry names.
LEMMA DirlookupIs ==
    ASSUME NEW F, NEW s, Cached(F), Holder(F, s), F.ic[s].ino.type = "DIR", Leads(F.di, F.data),
           NEW name, NEW r, r = dirlookup(F, s, name)
    PROVE  NotThere(F, s, name, r) \/ There(F, s, name, r)
<1>. DEFINE n == F.ic[s].ino.size
            i == F.ic[s].inum
            all == readi(F, s, 0, ino(F, s).size)
            M == Matches(all.out, name)
<1>1. r = Matched(F, s, all, name)
  BY DEF dirlookup, ino
<1>. HIDE DEF all
<1>2. /\ all.fs = F /\ n \in Nat /\ Offs(F.di, i) = 0..(n - 1) /\ DOMAIN all.out = 1..n /\ i \in DirSet(F.di)
      /\ \A k \in 1..n : all.out[k] = At(F.di, F.data, i, k - 1)
  BY DirRead DEF all
<1>. HIDE DEF n, i
<1>3. Ok(F) /\ s \in Slot
  BY DEF Holder
<1>4. \A x \in 0..(n - 1) : x + 1 \in 1..n /\ (x + 1) - 1 = x
  BY <1>2
<1>5. CASE M = {}
  <2>1. r = [fs |-> F, s |-> 0]
    BY <1>1, <1>2, <1>5 DEF Matched
  <2>2. ASSUME NEW x \in Offs(F.di, i), At(F.di, F.data, i, x)[2] # 0
        PROVE  At(F.di, F.data, i, x)[1] # name
    <3>1. x + 1 \in 1..n /\ all.out[x + 1] = At(F.di, F.data, i, x)
      BY <1>2, <1>4
    <3>2. x + 1 \notin M
      BY <1>5
    <3>. QED  BY <1>2, <2>2, <3>1, <3>2 DEF Matches
  <2>. QED  BY <2>1, <2>2 DEF NotThere, NoName, i
<1>6. CASE M # {}
  <2>. DEFINE k == Min(M)
  <2>1. M \in SUBSET Nat
    BY <1>2 DEF Matches
  <2>2. k \in M
    BY <1>6, <2>1, LeastNumber
  <2>3. r = iget(readi(F, s, 0, k).fs, all.out[k][2])
    <3>1. Ok(all.fs)
      BY <1>2, <1>3
    <3>. QED  BY <1>1, <1>6, <3>1 DEF Matched
  <2>. HIDE DEF k
  <2>4. k \in 1..n /\ all.out[k][1] = name /\ all.out[k][2] # 0
    BY <1>2, <2>2 DEF Matches
  <2>5. readi(F, s, 0, k).fs = F
    <3>1. k \in Nat /\ 0 \in Nat
      BY <2>4
    <3>. QED  BY <3>1, ReadiIs
  <2>. DEFINE x == k - 1
              c == At(F.di, F.data, i, x)
  <2>6. x \in Offs(F.di, i) /\ c = all.out[k]
    BY <1>2, <2>4
  <2>7. c[1] = name /\ c[2] \in Inum /\ F.di[c[2]].type # "0"
    BY <1>2, <2>4, <2>6 DEF Leads
  <2>8. r = iget(F, c[2])
    BY <2>3, <2>5, <2>6
  <2>. HIDE DEF x, c
  <2>9. NoEntry(F, r) \/ GotEntry(F, r, c[2])
    BY <2>7, <2>8, IgetIs
  <2>. QED  BY <2>6, <2>7, <2>9 DEF There, i, c
<1>. QED  BY <1>5, <1>6

\* After a write the cache is sound, and the writer still up to date.
LEMMA WroteCached ==
    ASSUME NEW F, NEW s, Cached(F), Holder(F, s), NEW off, NEW cells, NEW G,
           Wrote(F, G, s, F.ic[s].inum, off, cells), ~DiskFull(G)
    PROVE  Cached(G) /\ Holder(G, s) /\ OneEntry(G.ic) /\ G.ic[s].inum = F.ic[s].inum
<1>. DEFINE i == F.ic[s].inum
<1>1. F \in FsState /\ s \in Slot /\ i \in Inum
  BY DEF Holder
<1>2. /\ G \in FsState /\ Kept(F.ic, G.ic, s) /\ G.ic[s].ino = G.di[i] /\ WroteAll(F, G, i, off, cells)
      /\ \A j \in Inum : KeptIno(F.di[j], G.di[j]) /\ (j # i => G.di[j] = F.di[j])
  BY DEF Wrote
<1>3. Ok(G) /\ Blocks(G.di, G.data, G.used) /\ Whole(G.di, G.data) /\ G.ic[s].inum = i
  BY <1>1, <1>2 DEF WroteAll, Kept
<1>4. OneEntry(G.ic)
  BY <1>2 DEF Cached, OneEntry, Kept
<1>5. CacheOK(G.di, G.ic)
  <2>1. ASSUME NEW t \in Slot
        PROVE  /\ G.ic[t].ref > 0 => G.ic[t].inum \in Inum /\ G.di[G.ic[t].inum].type # "0"
               /\ G.ic[t].ref > 0 /\ G.ic[t].valid => G.ic[t].ino = G.di[G.ic[t].inum]
               /\ G.ic[t].lock # NoProc => G.ic[t].ref > 0 /\ G.ic[t].valid
    <3>1. /\ F.ic[t].ref > 0 => F.ic[t].inum \in Inum /\ F.di[F.ic[t].inum].type # "0"
          /\ F.ic[t].ref > 0 /\ F.ic[t].valid => F.ic[t].ino = F.di[F.ic[t].inum]
          /\ F.ic[t].lock # NoProc => F.ic[t].ref > 0 /\ F.ic[t].valid
      BY DEF Cached, CacheOK
    <3>2. /\ G.ic[t].inum = F.ic[t].inum /\ G.ic[t].ref = F.ic[t].ref /\ G.ic[t].valid = F.ic[t].valid
          /\ G.ic[t].lock = F.ic[t].lock /\ (t # s => G.ic[t] = F.ic[t])
      BY <1>2 DEF Kept
    <3>3. F.ic[t].ref > 0 => G.di[F.ic[t].inum].type # "0"
      BY <1>2, <3>1 DEF KeptIno
    <3>4. t = s => G.ic[t].ino = G.di[F.ic[t].inum]
      BY <1>2
    <3>5. ASSUME t # s, F.ic[t].ref > 0, F.ic[t].valid PROVE G.ic[t].ino = G.di[F.ic[t].inum]
      <4>1. CASE F.ic[t].inum = i
        BY <1>1, <3>5, <4>1 DEF Cached, OneEntry, Holder
      <4>2. CASE F.ic[t].inum # i
        BY <1>2, <3>1, <3>2, <3>5, <4>2
      <4>. QED  BY <4>1, <4>2
    <3>. QED  BY <3>1, <3>2, <3>3, <3>4, <3>5
  <2>. QED  BY <2>1 DEF CacheOK
<1>6. G.ic[s].ref > 0
  BY <1>1, <1>2 DEF Holder, Kept
<1>. QED  BY <1>1, <1>2, <1>3, <1>4, <1>5, <1>6 DEF Cached, Holder

Single(c) == <<c>>

\* The contents of a dirlink(): one entry.
LEMMA SingleIs ==
    ASSUME NEW c \in Cell
    PROVE  Single(c) \in Seq(Cell) /\ Len(Single(c)) = 1 /\ Single(c) # <<>> /\ Single(c)[1] = c
BY DEF Single

\* The place for an entry is an empty one, or the end.
LEMMA EmptyOffIs ==
    ASSUME NEW n \in Nat, NEW out, DOMAIN out = 1..n, Len(out) = n
    PROVE  /\ EmptyOff(out) \in 0..n
           /\ \/ EmptyOff(out) = n /\ \A k \in 1..n : out[k][2] # 0
              \/ EmptyOff(out) < n /\ out[EmptyOff(out) + 1][2] = 0
<1>1. CASE \A k \in DOMAIN out : out[k][2] # 0
  BY <1>1 DEF EmptyOff
<1>2. CASE ~(\A k \in DOMAIN out : out[k][2] # 0)
  <2>. DEFINE S == {k \in DOMAIN out : out[k][2] = 0}
              m == Min(S)
  <2>1. S \in SUBSET Nat /\ S # {}
    BY <1>2
  <2>2. m \in S
    BY <2>1, LeastNumber
  <2>3. EmptyOff(out) = m - 1
    BY <1>2 DEF EmptyOff
  <2>. HIDE DEF m
  <2>4. m \in 1..n /\ out[m][2] = 0
    BY <2>2
  <2>5. m - 1 \in 0..n /\ m - 1 < n /\ (m - 1) + 1 = m
    BY <2>4
  <2>. QED  BY <2>3, <2>4, <2>5
<1>. QED  BY <1>1, <1>2

\* Room for one more entry.
Roomy(I, D, d) == (\A x \in Offs(I, d) : At(I, D, d, x)[2] # 0) => I[d].size < MAXFILE * BSIZE

\* The entry c was put at the empty place x of directory d.
Entered1(F, G, s, d, c, x) ==
    /\ x \in 0..F.di[d].size /\ (x < F.di[d].size => At(F.di, F.data, d, x)[2] = 0)
    /\ Wrote(F, G, s, d, x, Single(c))

\* Link(): an entry for a name that is not there yet.
LEMMA LinkIs ==
    ASSUME NEW F, NEW s, Cached(F), Holder(F, s), F.ic[s].ino.type = "DIR", Leads(F.di, F.data),
           NEW d, d = F.ic[s].inum, NEW name, NEW n, Pair(name, n) \in Cell, NoName(F.di, F.data, d, name),
           Roomy(F.di, F.data, d), NEW G, G = Link(F, s, name, n)
    PROVE  \E x \in 0..F.di[d].size : Entered1(F, G, s, d, Pair(name, n), x)
<1>. DEFINE found == dirlookup(F, s, name)
            all == readi(found.fs, s, 0, ino(found.fs, s).size)
            off == EmptyOff(all.out)
            w == writei(all.fs, s, off, Single(Pair(name, n)))
            size == F.ic[s].ino.size
<1>1. found.fs = F /\ found.s = 0
  <2>. HIDE DEF found
  <2>1. NotThere(F, s, name, found) \/ There(F, s, name, found)
    BY DirlookupIs DEF found
  <2>2. ~There(F, s, name, found)
    <3>1. 0 \notin Inum
      BY DEF Inum
    <3>. QED  BY <3>1 DEF There, NoName
  <2>. QED  BY <2>1, <2>2 DEF NotThere
<1>2. Ok(F)
  BY DEF Holder
<1>3. MustLink(F, s, name, n) = AddEntry(all, s, name, n)
  BY <1>1, <1>2 DEF MustLink, dirlink, LinkUnless
<1>4. /\ all.fs = F /\ size \in Nat /\ size <= MAXFILE * BSIZE /\ F.ic[s].ino = F.di[d]
      /\ Offs(F.di, d) = 0..(size - 1) /\ DOMAIN all.out = 1..size /\ Len(all.out) = size
      /\ \A k \in 1..size : all.out[k] = At(F.di, F.data, d, k - 1)
  <2>1. all = readi(F, s, 0, ino(F, s).size)
    BY <1>1
  <2>. HIDE DEF all
  <2>. QED  BY <2>1, DirRead
<1>5. AddEntry(all, s, name, n) = Written(w)
  BY <1>2, <1>4 DEF AddEntry, Single, Pair
<1>. HIDE DEF all, found, size
<1>6. /\ off \in 0..size
      /\ \/ off = size /\ \A k \in 1..size : all.out[k][2] # 0
         \/ off < size /\ all.out[off + 1][2] = 0
  BY <1>4, EmptyOffIs
<1>7. w = writei(F, s, off, Single(Pair(name, n)))
  BY <1>4
<1>. HIDE DEF off, w
<1>8. off \in Nat /\ off <= size /\ (off < size => At(F.di, F.data, d, off)[2] = 0)
  <2>1. off \in Nat /\ off <= size
    BY <1>4, <1>6
  <2>2. off < size => off + 1 \in 1..size /\ (off + 1) - 1 = off
    BY <1>4, <2>1
  <2>3. off < size => At(F.di, F.data, d, off)[2] = 0
    <3>1. ASSUME off < size PROVE all.out[off + 1][2] = 0
      BY <1>4, <1>6, <2>1, <3>1
    <3>2. ASSUME off < size PROVE all.out[off + 1] = At(F.di, F.data, d, off)
      BY <1>4, <2>2, <3>2
    <3>. QED  BY <3>1, <3>2
  <2>. QED  BY <2>1, <2>3
<1>9. off < MAXFILE * BSIZE
  <2>. DEFINE M == MAXFILE * BSIZE
  <2>0. M \in Nat /\ size <= M
    BY <1>4, MaxCells
  <2>1. CASE off < size
    <3>. HIDE DEF M
    <3>1. off < M
      BY <1>4, <1>8, <2>0, <2>1
    <3>. QED  BY <3>1 DEF M
  <2>2. CASE ~(off < size)
    <3>1. off = size /\ \A k \in 1..size : all.out[k][2] # 0
      BY <1>6, <2>2
    <3>2. ASSUME NEW x \in Offs(F.di, d) PROVE At(F.di, F.data, d, x)[2] # 0
      <4>1. x + 1 \in 1..size /\ (x + 1) - 1 = x
        BY <1>4
      <4>2. all.out[x + 1] = At(F.di, F.data, d, x)
        BY <1>4, <4>1
      <4>. QED  BY <3>1, <4>1, <4>2
    <3>3. F.di[d].size < MAXFILE * BSIZE
      BY <3>2 DEF Roomy
    <3>. QED  BY <1>4, <3>1, <3>3 DEF size
  <2>. QED  BY <2>1, <2>2
<1>10. /\ Single(Pair(name, n)) \in Seq(Cell) /\ Len(Single(Pair(name, n))) = 1 /\ Single(Pair(name, n)) # <<>>
  BY SingleIs
<1>11. Fits(F, s, off, Single(Pair(name, n)))
  <2>. DEFINE M == MAXFILE * BSIZE
  <2>1. M \in Nat /\ off < M
    BY <1>9, MaxCells
  <2>. HIDE DEF M
  <2>2. off + 1 <= M
    BY <1>8, <2>1
  <2>. QED  BY <1>8, <1>10, <2>2 DEF Fits, M, size
<1>12. w.ok /\ Wrote(F, w.fs, s, d, off, Single(Pair(name, n)))
  BY <1>7, <1>8, <1>10, <1>11, WriteiIs
<1>13. G = w.fs
  BY <1>3, <1>5, <1>12 DEF Link, Checked, Written
<1>14. off \in 0..F.di[d].size /\ (off < F.di[d].size => At(F.di, F.data, d, off)[2] = 0)
  BY <1>4, <1>6, <1>8 DEF size
<1>. QED  BY <1>12, <1>13, <1>14 DEF Entered1

-----------------------------------------------------------------------------
(* The directory tree *)

\* The directories are the same.
SameTree(I, D, J, E) ==
    /\ \A i \in Inum : J[i].type = I[i].type
    /\ \A d \in DirSet(I) : J[d].size = I[d].size
    /\ \A d \in DirSet(I) : \A x \in Offs(I, d) : At(J, E, d, x) = At(I, D, d, x)

\* A tree stays one when its directories stay.
LEMMA TreeSame ==
    ASSUME NEW I, NEW D, NEW J, NEW E, NEW O, Tree(I, D, O), SameTree(I, D, J, E),
           \A i \in Inum : J[i].nlink = I[i].nlink, \A i \in O : J[i].size = I[i].size
    PROVE  Tree(J, E, O)
<1>1. DirSet(J) = DirSet(I) /\ DirSet(I) \subseteq Inum
  BY DEF SameTree, DirSet
<1>2. \A d \in DirSet(I) : Offs(J, d) = Offs(I, d)
  BY DEF SameTree, Offs
<1>3. \A d \in DirSet(I) : \A x \in Offs(I, d) : At(J, E, d, x) = At(I, D, d, x)
  BY DEF SameTree
<1>4. \A i \in Inum : J[i].type = I[i].type
  BY DEF SameTree
<1>5. Leads(J, E)
  BY <1>1, <1>2, <1>3, <1>4 DEF Tree, Leads
<1>6. Settled(J, E, O)
  BY <1>1, <1>2, <1>3 DEF Tree, Settled
<1>7. Distinct(J, E)
  BY <1>1, <1>2, <1>3 DEF Tree, Distinct
<1>8. Dotted(J, E, O)
  BY <1>1, <1>2, <1>3 DEF Tree, Dotted
<1>9. \A d \in DirSet(I) : \A x \in Offs(I, d) : \A i : UpAt(J, E, d, x, i) <=> UpAt(I, D, d, x, i)
  BY <1>3 DEF UpAt
<1>10. Parented(J, E)
  BY <1>1, <1>2, <1>9 DEF Tree, Parented
<1>11. Reached(J, E, O)
  BY <1>1, <1>2, <1>4, <1>9 DEF Tree, Reached
<1>12. \A i : Below(J, E, i) = Below(I, D, i)
  BY <1>1, <1>2, <1>3 DEF Below
<1>13. Counted(J, E)
  BY <1>4, <1>12 DEF Tree, Counted
<1>14. Unlinked(J, O)
  BY <1>4, Layout DEF Tree, Unlinked
<1>. QED  BY <1>5, <1>6, <1>7, <1>8, <1>10, <1>11, <1>13, <1>14 DEF Tree

\* A new inode, empty and with one link.
Born(I, J, i) ==
    /\ I[i].type = "0" /\ J[i].type # "0" /\ J[i].size = 0 /\ J[i].nlink = 1
    /\ \A j \in Inum : j # i => J[j] = I[j]

\* The new inode has no entry yet.
LEMMA TreeAlloc ==
    ASSUME NEW I, NEW D, NEW J, NEW O, Tree(I, D, O), NEW i \in Inum, Born(I, J, i)
    PROVE  Tree(J, D, O \cup {i})
<1>0. 0 \notin Inum /\ ROOTINO \in Inum
  BY Layout DEF Inum
<1>1. DirSet(I) \subseteq DirSet(J) /\ DirSet(J) \subseteq DirSet(I) \cup {i} /\ i \notin DirSet(I)
  BY DEF Born, DirSet
<1>2. Offs(J, i) = {} /\ \A d \in DirSet(I) : Offs(J, d) = Offs(I, d)
  <2>1. Offs(J, i) = 0..(0 - 1)
    BY DEF Born, Offs
  <2>2. 0..(0 - 1) = {}
    OBVIOUS
  <2>. QED  BY <1>1, <2>1, <2>2 DEF Born, Offs, DirSet
<1>3. \A d \in DirSet(I) : \A x : At(J, D, d, x) = At(I, D, d, x)
  <2>1. \A d \in DirSet(I) : J[d] = I[d]
    BY <1>1 DEF Born, DirSet
  <2>. QED  BY <2>1, Zenon DEF At, Blk
<1>4. ASSUME NEW d \in DirSet(J), NEW x \in Offs(J, d)
      PROVE  d \in DirSet(I) /\ x \in Offs(I, d) /\ At(J, D, d, x) = At(I, D, d, x)
  BY <1>1, <1>2, <1>3
<1>5. \A j \in Inum : I[j].type # "0" => J[j].type # "0" /\ J[j] = I[j] /\ j # i
  BY DEF Born
<1>6. Leads(J, D)
  BY <1>4, <1>5 DEF Tree, Leads
<1>7. \A d \in DirSet(I) : \A x \in Offs(I, d) : At(I, D, d, x)[2] # i
  BY <1>0 DEF Tree, Leads, Born
<1>8. Settled(J, D, O \cup {i})
  BY <1>4, <1>7 DEF Tree, Settled
<1>9. Distinct(J, D)
  BY <1>4 DEF Tree, Distinct
<1>10. Dotted(J, D, O \cup {i})
  BY <1>1, <1>2, <1>3 DEF Tree, Dotted
<1>11. ASSUME NEW d \in DirSet(J), NEW x \in Offs(J, d), NEW j
       PROVE  UpAt(J, D, d, x, j) <=> UpAt(I, D, d, x, j)
  BY <1>4 DEF UpAt
<1>12. Parented(J, D)
  BY <1>4, <1>11 DEF Tree, Parented
<1>13. Reached(J, D, O \cup {i})
  <2>1. ASSUME NEW j \in Inum \ (O \cup {i} \cup {ROOTINO}), J[j].type # "0"
        PROVE  \E d \in DirSet(J) : \E x \in Offs(J, d) : UpAt(J, D, d, x, j)
    <3>1. I[j].type # "0" /\ j \in Inum \ (O \cup {ROOTINO})
      BY <2>1 DEF Born
    <3>2. PICK d \in DirSet(I) : \E x \in Offs(I, d) : UpAt(I, D, d, x, j)
      BY <3>1 DEF Tree, Reached
    <3>. QED  BY <1>1, <1>2, <1>11, <3>2
  <2>. QED  BY <2>1 DEF Reached
<1>14. Below(J, D, i) = {}
  <2>1. Pair("..", i)[2] = i
    BY DEF Pair
  <2>. QED  BY <1>4, <1>7, <2>1 DEF Below
<1>15. \A j : Below(J, D, j) = Below(I, D, j)
  BY <1>1, <1>2, <1>3, <1>4 DEF Below
<1>16. Counted(J, D)
  <2>1. ASSUME NEW j \in Inum, J[j].type # "0" PROVE J[j].nlink = 1 + Cardinality(Below(J, D, j))
    <3>1. CASE j = i
      <4>1. Cardinality(Below(J, D, i)) = 0
        BY <1>14, FS_EmptySet
      <4>. QED  BY <3>1, <4>1 DEF Born
    <3>2. CASE j # i
      <4>1. J[j] = I[j] /\ I[j].type # "0"
        BY <2>1, <3>2 DEF Born
      <4>. QED  BY <1>15, <4>1 DEF Tree, Counted
    <3>. QED  BY <3>1, <3>2
  <2>. QED  BY <2>1 DEF Counted
<1>17. Unlinked(J, O \cup {i})
  BY <1>0, <1>5 DEF Tree, Unlinked, Born
<1>. QED  BY <1>6, <1>8, <1>9, <1>10, <1>12, <1>13, <1>16, <1>17 DEF Tree

\* Directory d with the entry c at place x.
Put(I, D, J, E, d, c, x) ==
    /\ x \in 0..I[d].size /\ (x < I[d].size => At(I, D, d, x)[2] = 0)
    /\ J[d].size = (IF x + 1 > I[d].size THEN x + 1 ELSE I[d].size)
    /\ At(J, E, d, x) = c
    /\ \A y \in Offs(I, d) : y # x => At(J, E, d, y) = At(I, D, d, y)

\* What becomes of the new inode i when directory d gets an entry for it: a
\* directory has "." and "..", which counts as a link to d.
NewDir(I, J, E, i, d) ==
    IF I[i].type = "DIR"
    THEN /\ J[i].size = 2 /\ At(J, E, i, 0) = Pair(".", i) /\ At(J, E, i, 1) = Pair("..", d)
         /\ J[d].nlink = I[d].nlink + 1
    ELSE J[d].nlink = I[d].nlink
Hung(I, D, J, E, i, d, name, x) ==
    /\ \A j \in Inum : J[j].type = I[j].type
    /\ \A j \in Inum \ {i, d} : J[j].size = I[j].size
    /\ \A j \in Inum \ {d} : J[j].nlink = I[j].nlink
    /\ \A j \in Inum \ {i, d} : \A y \in Offs(I, j) : At(J, E, j, y) = At(I, D, j, y)
    /\ NewDir(I, J, E, i, d)
    /\ Put(I, D, J, E, d, Pair(name, i), x)

\* Where the entries of a directory come from.
Entry1(I, D, J, E, i, d, name, x, e, y) ==
    \/ /\ e \in DirSet(I) /\ e # i /\ y \in Offs(I, e) /\ At(J, E, e, y) = At(I, D, e, y)
       /\ ~(e = d /\ y = x)
    \/ e = d /\ y = x /\ At(J, E, e, y) = Pair(name, i)
    \/ e = i /\ y = 0 /\ I[i].type = "DIR" /\ At(J, E, e, y) = Pair(".", i)
    \/ e = i /\ y = 1 /\ I[i].type = "DIR" /\ At(J, E, e, y) = Pair("..", d)

\* The old entries stay.
EntriesStay(I, D, J, E, i, d, x) ==
    \A e \in DirSet(I) : \A y \in Offs(I, e) :
        At(I, D, e, y)[2] # 0 => /\ y \in Offs(J, e) /\ At(J, E, e, y) = At(I, D, e, y)
                                 /\ e # i /\ ~(e = d /\ y = x)

\* Sizes of inodes.
SizesOf(I) == \A j \in Inum : I[j].size \in Nat

\* The entries after i was linked.
LEMMA HungEntries ==
    ASSUME NEW I, NEW D, NEW J, NEW E, NEW O, Tree(I, D, O), SizesOf(I), NEW i \in O,
           NEW d \in DirSet(I) \ O, NEW name, NEW x, Hung(I, D, J, E, i, d, name, x)
    PROVE  /\ \A e \in DirSet(J) : \A y \in Offs(J, e) : Entry1(I, D, J, E, i, d, name, x, e, y)
           /\ EntriesStay(I, D, J, E, i, d, x)
           /\ x \in Offs(J, d)
           /\ I[i].type = "DIR" => 0 \in Offs(J, i) /\ 1 \in Offs(J, i)
<1>0. i \in Inum /\ d \in Inum /\ i # d /\ I[i].size = 0 /\ DirSet(J) = DirSet(I) /\ DirSet(I) \subseteq Inum
  BY DEF Tree, Unlinked, DirSet, Hung
<1>1. I[d].size \in Nat /\ x \in Nat /\ x <= I[d].size
  BY <1>0 DEF SizesOf, Hung, Put
<1>2. Offs(I, i) = {}
  <2>1. Offs(I, i) = 0..(0 - 1)
    BY <1>0 DEF Offs
  <2>. QED  BY <2>1
<1>3. /\ x \in Offs(J, d) /\ \A y \in Offs(J, d) : y = x \/ y \in Offs(I, d)
      /\ \A y \in Offs(I, d) : y \in Offs(J, d)
  BY <1>1 DEF Hung, Put, Offs
<1>4. \A e \in Inum \ {i, d} : Offs(J, e) = Offs(I, e)
  BY DEF Hung, Offs
<1>5. I[i].type = "DIR" => Offs(J, i) = {0, 1}
  <2>1. 0..(2 - 1) = {0, 1}
    OBVIOUS
  <2>. QED  BY <2>1 DEF Hung, NewDir, Offs
<1>6. ASSUME NEW e \in DirSet(J), NEW y \in Offs(J, e) PROVE Entry1(I, D, J, E, i, d, name, x, e, y)
  <2>1. CASE e = i
    <3>1. I[i].type = "DIR"
      BY <1>0, <2>1 DEF DirSet
    <3>. QED  BY <1>5, <2>1, <3>1 DEF Entry1, Hung, NewDir
  <2>2. CASE e = d
    BY <1>0, <1>3, <2>2 DEF Entry1, Hung, Put
  <2>3. CASE e # i /\ e # d
    BY <1>0, <1>4, <2>3 DEF Entry1, Hung
  <2>. QED  BY <2>1, <2>2, <2>3
<1>7. ASSUME NEW e \in DirSet(I), NEW y \in Offs(I, e), At(I, D, e, y)[2] # 0
      PROVE  y \in Offs(J, e) /\ At(J, E, e, y) = At(I, D, e, y) /\ e # i /\ ~(e = d /\ y = x)
  <2>1. CASE e = d
    <3>1. y < I[d].size
      BY <1>1, <2>1 DEF Offs
    <3>2. y # x
      BY <1>7, <2>1, <3>1 DEF Hung, Put
    <3>. QED  BY <1>0, <1>3, <2>1, <3>2 DEF Hung, Put
  <2>2. CASE e # d
    BY <1>0, <1>2, <1>4, <2>2 DEF Hung
  <2>. QED  BY <2>1, <2>2
<1>8. EntriesStay(I, D, J, E, i, d, x)
  BY <1>7 DEF EntriesStay
<1>. QED  BY <1>3, <1>5, <1>6, <1>8

\* A pair.
LEMMA PairIs == \A name, n : Pair(name, n)[1] = name /\ Pair(name, n)[2] = n
BY DEF Pair

\* The tree after i was linked.
LEMMA TreeLink ==
    ASSUME NEW I, NEW D, NEW J, NEW E, NEW O, Tree(I, D, O), SizesOf(I), NEW i \in O,
           NEW d \in DirSet(I) \ O, NEW name, NEW x, Hung(I, D, J, E, i, d, name, x),
           NoName(I, D, d, name)
    PROVE  Tree(J, E, O \ {i})
<1>0. /\ i \in Inum /\ d \in Inum /\ i # d /\ I[i].size = 0 /\ DirSet(J) = DirSet(I)
      /\ DirSet(I) \subseteq Inum /\ 0 \notin Inum /\ I[i].type # "0" /\ i # ROOTINO
  BY DEF Tree, Unlinked, DirSet, Hung, Inum
<1>1. \A e \in DirSet(J) : \A y \in Offs(J, e) : Entry1(I, D, J, E, i, d, name, x, e, y)
  BY HungEntries
<1>2. \A e \in DirSet(I) : \A y \in Offs(I, e) :
         At(I, D, e, y)[2] # 0 => /\ y \in Offs(J, e) /\ At(J, E, e, y) = At(I, D, e, y)
                                  /\ e # i /\ ~(e = d /\ y = x)
  <2>1. EntriesStay(I, D, J, E, i, d, x)
    BY HungEntries
  <2>. QED  BY <2>1 DEF EntriesStay
<1>3. x \in Offs(J, d) /\ (I[i].type = "DIR" => 0 \in Offs(J, i) /\ 1 \in Offs(J, i))
  BY HungEntries
<1>4. name # "." /\ name # ".."
  <2>1. PICK u \in Offs(I, d) : At(I, D, d, u) = Pair(".", d)
    BY DEF Tree, Dotted
  <2>2. PICK v \in Offs(I, d) : At(I, D, d, v)[1] = ".." /\ At(I, D, d, v)[2] # 0
    BY DEF Tree, Dotted
  <2>. QED  BY <1>0, <2>1, <2>2, PairIs DEF NoName
<1>5. \A j \in Inum : J[j].type = I[j].type
  BY DEF Hung
<1>6. /\ Pair(name, i)[2] = i /\ Pair(name, i)[1] = name /\ Pair(".", i)[1] = "." /\ Pair(".", i)[2] = i
      /\ Pair("..", d)[1] = ".." /\ Pair("..", d)[2] = d
  BY PairIs
<1>7. I[d].type # "0"
  BY DEF DirSet
<1>8. Leads(J, E)
  <2>1. ASSUME NEW e \in DirSet(J), NEW y \in Offs(J, e), At(J, E, e, y)[2] # 0
        PROVE  At(J, E, e, y)[2] \in Inum /\ I[At(J, E, e, y)[2]].type # "0"
    <3>1. Entry1(I, D, J, E, i, d, name, x, e, y)
      BY <1>1
    <3>2. CASE At(J, E, e, y)[2] \in {i, d}
      BY <1>0, <1>7, <3>2
    <3>3. CASE At(J, E, e, y)[2] \notin {i, d}
      <4>1. e \in DirSet(I) /\ y \in Offs(I, e) /\ At(J, E, e, y) = At(I, D, e, y)
        BY <1>6, <3>1, <3>3 DEF Entry1
      <4>. QED  BY <2>1, <4>1 DEF Tree, Leads
    <3>. QED  BY <3>2, <3>3
  <2>. QED  BY <1>5, <2>1 DEF Leads
<1>9. Settled(J, E, O \ {i})
  BY <1>0, <1>1, <1>6 DEF Tree, Settled, Entry1
<1>10. Distinct(J, E)
  <2>1. ASSUME NEW e \in DirSet(J), NEW u \in Offs(J, e), NEW v \in Offs(J, e),
               At(J, E, e, u)[2] # 0, At(J, E, e, v)[2] # 0, At(J, E, e, u)[1] = At(J, E, e, v)[1]
        PROVE  u = v
    <3>1. Entry1(I, D, J, E, i, d, name, x, e, u) /\ Entry1(I, D, J, E, i, d, name, x, e, v)
      BY <1>1
    <3>2. CASE e = i
      BY <1>0, <1>6, <2>1, <3>1, <3>2 DEF Entry1
    <3>3. CASE e # i /\ u # x /\ v # x
      BY <1>0, <2>1, <3>1, <3>3 DEF Entry1, Tree, Distinct
    <3>4. CASE e # i /\ e # d
      BY <1>0, <2>1, <3>1, <3>4 DEF Entry1, Tree, Distinct
    <3>5. CASE e = d /\ u = x
      BY <1>0, <1>6, <2>1, <3>1, <3>5 DEF Entry1, NoName
    <3>6. CASE e = d /\ v = x
      BY <1>0, <1>6, <2>1, <3>1, <3>6 DEF Entry1, NoName
    <3>. QED  BY <3>2, <3>3, <3>4, <3>5, <3>6
  <2>. QED  BY <2>1 DEF Distinct
<1>11. Dotted(J, E, O \ {i})
  <2>1. ASSUME NEW e \in DirSet(J) \ (O \ {i})
        PROVE  /\ \E y \in Offs(J, e) : At(J, E, e, y) = Pair(".", e)
               /\ \E y \in Offs(J, e) : At(J, E, e, y)[1] = ".." /\ At(J, E, e, y)[2] # 0
    <3>1. CASE e = i
      <4>1. I[i].type = "DIR"
        BY <1>0, <3>1 DEF DirSet
      <4>2. At(J, E, i, 0) = Pair(".", i) /\ At(J, E, i, 1) = Pair("..", d)
        BY <4>1 DEF Hung, NewDir
      <4>. QED  BY <1>0, <1>3, <1>6, <3>1, <4>1, <4>2
    <3>2. CASE e # i
      <4>1. e \in DirSet(I) \ O
        BY <1>0, <3>2
      <4>2. PICK u \in Offs(I, e) : At(I, D, e, u) = Pair(".", e)
        BY <4>1 DEF Tree, Dotted
      <4>3. PICK v \in Offs(I, e) : At(I, D, e, v)[1] = ".." /\ At(I, D, e, v)[2] # 0
        BY <4>1 DEF Tree, Dotted
      <4>4. Pair(".", e)[2] = e /\ e # 0
        BY <1>0, <4>1, PairIs
      <4>. QED  BY <1>2, <4>1, <4>2, <4>3, <4>4
    <3>. QED  BY <3>1, <3>2
  <2>. QED  BY <2>1 DEF Dotted
<1>12. ASSUME NEW k \in Inum, NEW e \in DirSet(J), NEW y \in Offs(J, e), UpAt(J, E, e, y, k)
       PROVE  \/ k = i /\ e = d /\ y = x
              \/ k # i /\ e \in DirSet(I) /\ y \in Offs(I, e) /\ UpAt(I, D, e, y, k)
  BY <1>1, <1>6, <1>12 DEF Entry1, UpAt, Tree, Settled
<1>13. Parented(J, E)
  BY <1>12 DEF Tree, Parented
<1>14. Reached(J, E, O \ {i})
  <2>1. ASSUME NEW k \in Inum \ ((O \ {i}) \cup {ROOTINO}), J[k].type # "0"
        PROVE  \E e \in DirSet(J) : \E y \in Offs(J, e) : UpAt(J, E, e, y, k)
    <3>1. CASE k = i
      <4>1. At(J, E, d, x) = Pair(name, i)
        BY DEF Hung, Put
      <4>2. UpAt(J, E, d, x, i)
        BY <1>4, <1>6, <4>1 DEF UpAt
      <4>. QED  BY <1>0, <1>3, <3>1, <4>2
    <3>2. CASE k # i
      <4>1. k \in Inum \ (O \cup {ROOTINO}) /\ I[k].type # "0"
        BY <1>5, <2>1, <3>2
      <4>2. PICK e \in DirSet(I) : \E y \in Offs(I, e) : UpAt(I, D, e, y, k)
        BY <4>1 DEF Tree, Reached
      <4>4. PICK y \in Offs(I, e) : UpAt(I, D, e, y, k)
        BY <4>2
      <4>3. y \in Offs(J, e) /\ At(J, E, e, y) = At(I, D, e, y)
        BY <1>0, <1>2, <4>4 DEF UpAt
      <4>. QED  BY <1>0, <4>3, <4>4 DEF UpAt
    <3>. QED  BY <3>1, <3>2
  <2>. QED  BY <2>1 DEF Reached
<1>15. \A j \in Inum : Pair("..", j)[1] = ".." /\ Pair("..", j)[2] = j /\ j # 0
  BY <1>0, PairIs
<1>16. ASSUME NEW j \in Inum, j # d \/ I[i].type # "DIR" PROVE Below(J, E, j) = Below(I, D, j)
  <2>1. ASSUME NEW e \in DirSet(I), NEW y \in Offs(I, e), At(I, D, e, y) = Pair("..", j)
        PROVE  y \in Offs(J, e) /\ At(J, E, e, y) = Pair("..", j)
    BY <1>2, <1>15, <2>1
  <2>2. ASSUME NEW e \in DirSet(J), NEW y \in Offs(J, e), At(J, E, e, y) = Pair("..", j)
        PROVE  y \in Offs(I, e) /\ At(I, D, e, y) = Pair("..", j)
    BY <1>1, <1>4, <1>6, <1>15, <1>16, <2>2 DEF Entry1
  <2>. QED  BY <1>0, <2>1, <2>2 DEF Below
<1>17. ASSUME I[i].type = "DIR" PROVE Below(J, E, d) = Below(I, D, d) \cup {i}
  <2>1. ASSUME NEW e \in DirSet(I), NEW y \in Offs(I, e), At(I, D, e, y) = Pair("..", d)
        PROVE  y \in Offs(J, e) /\ At(J, E, e, y) = Pair("..", d)
    BY <1>0, <1>2, <1>15, <2>1
  <2>2. ASSUME NEW e \in DirSet(J), NEW y \in Offs(J, e), At(J, E, e, y) = Pair("..", d), e # i
        PROVE  y \in Offs(I, e) /\ At(I, D, e, y) = Pair("..", d)
    BY <1>0, <1>1, <1>4, <1>6, <1>15, <2>2 DEF Entry1
  <2>3. i \in DirSet(J) \ {ROOTINO} /\ 1 \in Offs(J, i) /\ At(J, E, i, 1) = Pair("..", d)
    BY <1>0, <1>3, <1>17 DEF Hung, NewDir, DirSet
  <2>4. i \in Below(J, E, d)
    BY <2>3 DEF Below
  <2>5. \A e : e \in Below(I, D, d) => e \in Below(J, E, d)
    BY <1>0, <2>1 DEF Below
  <2>6. \A e : e \in Below(J, E, d) => e \in Below(I, D, d) \/ e = i
    BY <1>0, <2>2 DEF Below
  <2>. QED  BY <2>4, <2>5, <2>6
<1>18. Counted(J, E)
  <2>1. ASSUME NEW j \in Inum, J[j].type # "0" PROVE J[j].nlink = 1 + Cardinality(Below(J, E, j))
    <3>0. I[j].nlink = 1 + Cardinality(Below(I, D, j))
      BY <1>5, <2>1 DEF Tree, Counted
    <3>1. CASE j # d \/ I[i].type # "DIR"
      <4>1. J[j].nlink = I[j].nlink
        BY <3>1 DEF Hung, NewDir
      <4>. QED  BY <1>16, <3>0, <3>1, <4>1
    <3>2. CASE j = d /\ I[i].type = "DIR"
      <4>1. J[d].nlink = I[d].nlink + 1
        BY <3>2 DEF Hung, NewDir
      <4>2. IsFiniteSet(Below(I, D, d))
        <5>1. IsFiniteSet(Inum)
          BY FS_Interval, Layout DEF Inum
        <5>. QED  BY <1>0, <5>1, FS_Subset DEF Below
      <4>3. i \notin Below(I, D, d)
        <5>1. Offs(I, i) = 0..(0 - 1)
          BY <1>0 DEF Offs
        <5>2. Offs(I, i) = {}
          BY <5>1
        <5>. QED  BY <5>2 DEF Below
      <4>4. Cardinality(Below(I, D, d) \cup {i}) = Cardinality(Below(I, D, d)) + 1
        BY <4>2, <4>3, FS_AddElement
      <4>5. Cardinality(Below(I, D, d)) \in Nat
        BY <4>2, FS_CardinalityType
      <4>6. Cardinality(Below(J, E, d)) = Cardinality(Below(I, D, d)) + 1
        BY <1>17, <3>2, <4>4
      <4>7. I[d].nlink = 1 + Cardinality(Below(I, D, d))
        BY <3>0, <3>2
      <4>8. J[d].nlink = 1 + Cardinality(Below(J, E, d))
        BY <4>1, <4>5, <4>6, <4>7
      <4>. QED  BY <3>2, <4>8
    <3>. QED  BY <3>1, <3>2
  <2>. QED  BY <2>1 DEF Counted
<1>19. Unlinked(J, O \ {i})
  <2>1. \A j \in O \ {i} : j \in Inum \ {i, d}
    BY DEF Tree, Unlinked
  <2>2. O \subseteq Inum /\ I[ROOTINO].type = "DIR" /\ ROOTINO \notin O /\ ROOTINO \in Inum
    BY Layout DEF Tree, Unlinked
  <2>3. \A j \in O \ {i} : J[j].type # "0" /\ J[j].size = 0
    <3>1. \A j \in O \ {i} : I[j].type # "0" /\ I[j].size = 0
      BY DEF Tree, Unlinked
    <3>2. \A j \in O \ {i} : J[j].size = I[j].size
      BY <2>1 DEF Hung
    <3>. QED  BY <1>5, <2>2, <3>1, <3>2
  <2>4. J[ROOTINO].type = "DIR"
    BY <1>5, <2>2
  <2>. QED  BY <2>2, <2>3, <2>4 DEF Unlinked
<1>. QED  BY <1>8, <1>9, <1>10, <1>11, <1>13, <1>14, <1>18, <1>19 DEF Tree

\* A directory has room for one more name as long as an inode has no entry.
LEMMA RoomyIs ==
    ASSUME NEW I, NEW D, NEW O, Tree(I, D, O), SizesOf(I), NEW i \in O, NEW d \in DirSet(I) \ O
    PROVE  Roomy(I, D, d)
<1>. DEFINE S == Offs(I, d)
            T == (0..NINODES) \ {i}
            size == I[d].size
            key(c) == IF c[1] = "." THEN 0 ELSE IF c[1] = ".." THEN NINODES ELSE c[2]
            f == [x \in S |-> key(At(I, D, d, x))]
<1>. SUFFICES ASSUME \A x \in S : At(I, D, d, x)[2] # 0, ~(size < MAXFILE * BSIZE) PROVE FALSE
  BY DEF Roomy
<1>0. /\ d \in DirSet(I) /\ size \in Nat /\ i \in Inum /\ NINODES \in Nat /\ Inum = 1..(NINODES - 1)
      /\ NINODES > 1
  BY Layout DEF SizesOf, DirSet, Inum, Tree, Unlinked
<1>1. size > NINODES
  <2>. DEFINE M == MAXFILE * BSIZE
  <2>1. NINODES < M /\ M \in Nat /\ ~(size < M)
    BY FsAssumption, MaxCells
  <2>. HIDE DEF M, size
  <2>. QED  BY <1>0, <2>1
<1>2. IsFiniteSet(S) /\ Cardinality(S) = size
  <2>1. S = 0..(size - 1) /\ 0 \in Int /\ size - 1 \in Int
    BY <1>0 DEF Offs
  <2>2. Cardinality(0..(size - 1)) = IF 0 > size - 1 THEN 0 ELSE (size - 1) - 0 + 1
    BY <2>1, FS_Interval
  <2>3. IsFiniteSet(0..(size - 1))
    BY <2>1, FS_Interval
  <2>. HIDE DEF S, size
  <2>. QED  BY <1>0, <2>1, <2>2, <2>3
<1>3. IsFiniteSet(T) /\ Cardinality(T) = NINODES
  <2>0. 0 \in Int /\ NINODES \in Int /\ ~(0 > NINODES) /\ NINODES - 0 + 1 = NINODES + 1
    BY <1>0
  <2>4. IsFiniteSet(0..NINODES) /\ Cardinality(0..NINODES) = IF 0 > NINODES THEN 0 ELSE NINODES - 0 + 1
    BY <2>0, FS_Interval, Zenon
  <2>1. IsFiniteSet(0..NINODES) /\ Cardinality(0..NINODES) = NINODES + 1
    BY <2>0, <2>4, Zenon
  <2>2. i \in 0..NINODES
    BY <1>0
  <2>3. IsFiniteSet(T) /\ Cardinality(T) = Cardinality(0..NINODES) - 1
    BY <2>1, <2>2, FS_RemoveElement
  <2>. HIDE DEF T
  <2>. QED  BY <1>0, <2>1, <2>3
<1>4. ASSUME NEW x \in S PROVE At(I, D, d, x)[2] \in Inum \ O
  BY <1>0 DEF Tree, Leads, Settled
<1>5. f \in [S -> T]
  <2>1. ASSUME NEW x \in S PROVE key(At(I, D, d, x)) \in T
    <3>1. At(I, D, d, x)[2] \in Inum \ O
      BY <1>4
    <3>. QED  BY <1>0, <3>1
  <2>. QED  BY <2>1
<1>6. ASSUME NEW x \in S, NEW y \in S, f[x] = f[y] PROVE x = y
  <2>0. At(I, D, d, x)[2] \in Inum \ O /\ At(I, D, d, y)[2] \in Inum \ O
    BY <1>4
  <2>1. key(At(I, D, d, x)) = key(At(I, D, d, y))
    BY <1>6
  <2>. HIDE DEF S
  <2>2. CASE At(I, D, d, x)[1] = At(I, D, d, y)[1]
    BY <1>0, <2>2 DEF Tree, Distinct, S
  <2>3. CASE At(I, D, d, x)[1] # At(I, D, d, y)[1]
    <3>1. At(I, D, d, x)[1] \notin {".", ".."} /\ At(I, D, d, y)[1] \notin {".", ".."}
          /\ At(I, D, d, x)[2] = At(I, D, d, y)[2]
      BY <1>0, <2>0, <2>1, <2>3
    <3>. DEFINE k == At(I, D, d, x)[2]
    <3>2. k \in Inum /\ UpAt(I, D, d, x, k) /\ UpAt(I, D, d, y, k)
      BY <2>0, <3>1 DEF UpAt
    <3>. HIDE DEF k
    <3>. QED  BY <1>0, <3>2 DEF Tree, Parented, S
  <2>. QED  BY <2>2, <2>3
<1>. HIDE DEF S, T, f, size
<1>7. Cardinality(T) < Cardinality(S)
  BY <1>0, <1>1, <1>2, <1>3
<1>8. \E x, y \in S : x # y /\ f[x] = f[y]
  BY <1>2, <1>3, <1>5, <1>7, FS_PigeonHole
<1>. QED  BY <1>6, <1>8

-----------------------------------------------------------------------------
(* Sequences of calls on the inode cache *)

\* Two of them: the first drops no pointer.
LEMMA MovesThen ==
    ASSUME NEW F \in FsState, NEW G, NEW H, NEW a, NEW b, NEW s, NEW x,
           NEW b1, NEW b2, NEW s1, NEW s2, NEW x1, NEW x2,
           Moves(F, G, 0, b1, s1, x1), Moves(G, H, a, b2, s2, x2),
           (b1 = 0 /\ b = b2) \/ (b2 = 0 /\ b = b1),
           (s2 = 0 /\ s = s1 /\ x = x1) \/ (s1 \in {0, s2} /\ s = s2 /\ x = x2)
    PROVE  Moves(F, H, a, b, s, x)
<1>0. 0 \notin Slot
  BY DEF Slot
<1>1. Cached(H) /\ SameDisk(F, H)
  BY DEF Moves, SameDisk
<1>2. ASSUME NEW t \in Slot
      PROVE  /\ H.ic[t].ref = F.ic[t].ref + One(b, t) - One(a, t)
             /\ H.ic[t].lock = IF t = s THEN x ELSE F.ic[t].lock
             /\ F.ic[t].ref > 0 => H.ic[t].inum = F.ic[t].inum
  <2>1. F.ic[t].ref \in Nat
    BY EntryIs
  <2>2. One(0, t) = 0 /\ One(b1, t) \in {0, 1} /\ One(b2, t) \in {0, 1} /\ One(a, t) \in {0, 1}
    BY <1>0 DEF One
  <2>3. G.ic[t].ref = F.ic[t].ref + One(b1, t) - One(0, t) /\ H.ic[t].ref = G.ic[t].ref + One(b2, t) - One(a, t)
    BY DEF Moves
  <2>4. H.ic[t].ref = F.ic[t].ref + One(b, t) - One(a, t)
    BY <2>1, <2>2, <2>3
  <2>5. H.ic[t].lock = IF t = s THEN x ELSE F.ic[t].lock
    BY <1>0 DEF Moves
  <2>6. F.ic[t].ref > 0 => G.ic[t].ref > 0
    BY <2>1, <2>2, <2>3
  <2>7. F.ic[t].ref > 0 => H.ic[t].inum = F.ic[t].inum
    BY <2>6 DEF Moves
  <2>. QED  BY <2>4, <2>5, <2>7
<1>. QED  BY <1>1, <1>2 DEF Moves

\* iunlockput() of a locked entry.
LEMMA IunlockputIs ==
    ASSUME NEW F, Cached(F), Linked(F.di), NEW s \in Slot, NEW p, p # NoProc, F.ic[s].lock = p,
           NEW G, G = iunlockput(F, s, p)
    PROVE  Moves(F, G, s, 0, s, NoProc)
<1>. DEFINE U == iunlock(F, s, p)
<1>1. Moves(F, U, 0, 0, s, NoProc)
  BY IunlockIs
<1>2. G = iput(U, s)
  BY DEF iunlockput
<1>. HIDE DEF U
<1>3. F.ic[s].ref > 0 /\ F.ic[s].ref \in Nat /\ F \in FsState /\ 0 \notin Slot
  BY EntryIs DEF Cached, CacheOK, Slot
<1>4. Cached(U) /\ U.di = F.di /\ U.ic[s].lock = NoProc
  BY <1>1 DEF Moves, SameDisk
<1>5. U.ic[s].ref > 0
  <2>1. U.ic[s].ref = F.ic[s].ref + One(0, s) - One(0, s)
    BY <1>1 DEF Moves
  <2>2. One(0, s) = 0
    BY <1>3 DEF One
  <2>. QED  BY <1>3, <2>1, <2>2
<1>6. Moves(U, G, s, 0, 0, NoProc)
  BY <1>2, <1>4, <1>5, IputIs
<1>. QED  BY <1>1, <1>3, <1>6, MovesThen

\* After a panic nothing happens.
LEMMA Stopped ==
    ASSUME NEW F, ~Ok(F), NEW s
    PROVE  /\ iput(F, s) = F /\ \A p : iunlock(F, s, p) = F /\ iunlockput(F, s, p) = F
           /\ \A name, n : Link(F, s, name, n) = F
<1>1. iput(F, s) = F /\ \A p : iunlock(F, s, p) = F
  BY DEF iunlock, iput
<1>2. \A p : iunlockput(F, s, p) = F
  BY <1>1 DEF iunlockput
<1>3. ASSUME NEW name, NEW n PROVE Link(F, s, name, n) = F
  <2>1. MustLink(F, s, name, n) = [fs |-> F, ok |-> FALSE]
    BY DEF MustLink
  <2>2. Checked([fs |-> F, ok |-> FALSE]) = F
    BY DEF Checked, Panic
  <2>. QED  BY <2>1, <2>2 DEF Link
<1>. QED  BY <1>1, <1>2, <1>3

-----------------------------------------------------------------------------
(* iupdate() *)

WithIno(W, s, e) == [W EXCEPT !.ic[s].ino = e]

\* The inode in entry s, and on the disk, is now e.
Updated(W, G, s, i, e) ==
    /\ Fields(G, G.di, W.data, W.used, G.ic, W.log \cup {IBLOCK(i)}, W.panic)
    /\ Kept(W.ic, G.ic, s) /\ G.ic[s].ino = e /\ G.di[i] = e
    /\ \A j \in Inum : j # i => G.di[j] = W.di[j]

\* What iupdate() does.
LEMMA IupdateIs ==
    ASSUME NEW W \in FsState, NEW s \in Slot, W.ic[s].inum \in Inum, NEW e \in Dinode,
           NEW G, G = iupdate(WithIno(W, s, e), s)
    PROVE  Updated(W, G, s, W.ic[s].inum, e)
<1>. DEFINE i == W.ic[s].inum
            jc == [W.ic EXCEPT ![s].ino = e]
<1>1. W.ic \in [Slot -> InodeRec] /\ W.ic[s] \in InodeRec /\ W.di \in Inodes
  BY SeeIs DEF FsState
<1>2. jc = [W.ic EXCEPT ![s] = [W.ic[s] EXCEPT !.ino = e]]
  OBVIOUS
<1>3. [W.ic[s] EXCEPT !.ino = e] \in InodeRec
  BY <1>1 DEF InodeRec
<1>4. jc \in [Slot -> InodeRec] /\ jc[s].ino = e /\ Kept(W.ic, jc, s)
  <2>1. jc \in [Slot -> InodeRec]
    BY <1>1, <1>2, <1>3
  <2>2. jc[s] = [W.ic[s] EXCEPT !.ino = e] /\ \A t \in Slot : t # s => jc[t] = W.ic[t]
    BY <1>1, <1>2
  <2>3. jc[s].ino = e /\ jc[s].inum = W.ic[s].inum /\ jc[s].ref = W.ic[s].ref
        /\ jc[s].valid = W.ic[s].valid /\ jc[s].lock = W.ic[s].lock
    BY <1>1, <2>2 DEF InodeRec
  <2>. QED  BY <2>1, <2>2, <2>3 DEF Kept
<1>. HIDE DEF jc
<1>5. G = [W EXCEPT !.ic = jc, !.di = [W.di EXCEPT ![i] = e], !.log = @ \cup {IBLOCK(i)}]
  <2>. DEFINE V == WithIno(W, s, e)
  <2>1. V = [W EXCEPT !.ic = jc]
    BY DEF jc, WithIno
  <2>2. V.ic = jc /\ V.di = W.di /\ V.log = W.log
    BY <2>1 DEF FsState
  <2>. HIDE DEF V
  <2>3. G = [V EXCEPT !.di[V.ic[s].inum] = V.ic[s].ino, !.log = @ \cup {IBLOCK(V.ic[s].inum)}]
    BY DEF iupdate, ino, V
  <2>4. V.ic[s].inum = i /\ V.ic[s].ino = e
    BY <1>4, <2>2 DEF Kept
  <2>5. G = [V EXCEPT !.di = [W.di EXCEPT ![i] = e], !.log = W.log \cup {IBLOCK(i)}]
    BY <2>2, <2>3, <2>4
  <2>. QED  BY <2>1, <2>5 DEF FsState
<1>6. IBLOCK(i) \in Nat
  BY Layout DEF Inum
<1>7. [W.di EXCEPT ![i] = e] \in Inodes
  BY <1>1 DEF Inodes
<1>8. Fields(G, [W.di EXCEPT ![i] = e], W.data, W.used, jc, W.log \cup {IBLOCK(i)}, W.panic)
  <2>1. W.log \cup {IBLOCK(i)} \in SUBSET Nat
    BY <1>6 DEF FsState
  <2>. QED  BY <1>4, <1>5, <1>7, <2>1 DEF Fields, FsState
<1>9. [W.di EXCEPT ![i] = e][i] = e /\ \A j \in Inum : j # i => [W.di EXCEPT ![i] = e][j] = W.di[j]
  BY <1>1 DEF Inodes
<1>. QED  BY <1>4, <1>8, <1>9 DEF Fields, Updated

\* The cache stays sound.
LEMMA UpdatedCached ==
    ASSUME NEW W, NEW s \in Slot, Cached(W), W.ic[s].ref > 0, NEW e \in Dinode, e.type # "0",
           NEW G, Updated(W, G, s, W.ic[s].inum, e)
    PROVE  Cached(G)
<1>. DEFINE i == W.ic[s].inum
<1>1. G \in FsState /\ G.panic = W.panic /\ Kept(W.ic, G.ic, s) /\ G.ic[s].ino = e /\ G.di[i] = e
  BY DEF Updated, Fields
<1>2. OneEntry(G.ic)
  BY <1>1 DEF Cached, OneEntry, Kept
<1>3. ASSUME NEW t \in Slot
      PROVE  /\ G.ic[t].ref > 0 => G.ic[t].inum \in Inum /\ G.di[G.ic[t].inum].type # "0"
             /\ G.ic[t].ref > 0 /\ G.ic[t].valid => G.ic[t].ino = G.di[G.ic[t].inum]
             /\ G.ic[t].lock # NoProc => G.ic[t].ref > 0 /\ G.ic[t].valid
  <2>1. /\ W.ic[t].ref > 0 => W.ic[t].inum \in Inum /\ W.di[W.ic[t].inum].type # "0"
        /\ W.ic[t].ref > 0 /\ W.ic[t].valid => W.ic[t].ino = W.di[W.ic[t].inum]
        /\ W.ic[t].lock # NoProc => W.ic[t].ref > 0 /\ W.ic[t].valid
    BY DEF Cached, CacheOK
  <2>2. /\ G.ic[t].inum = W.ic[t].inum /\ G.ic[t].ref = W.ic[t].ref /\ G.ic[t].valid = W.ic[t].valid
        /\ G.ic[t].lock = W.ic[t].lock /\ (t # s => G.ic[t] = W.ic[t])
    BY <1>1 DEF Kept
  <2>3. CASE t = s
    BY <1>1, <2>1, <2>2, <2>3
  <2>4. CASE t # s
    <3>1. W.ic[t].ref > 0 => W.ic[t].inum # i
      BY <2>4 DEF Cached, OneEntry
    <3>2. W.ic[t].ref > 0 => G.di[W.ic[t].inum] = W.di[W.ic[t].inum]
      BY <2>1, <3>1 DEF Updated
    <3>. QED  BY <2>1, <2>2, <2>4, <3>2
  <2>. QED  BY <2>3, <2>4
<1>4. CacheOK(G.di, G.ic)
  BY <1>3 DEF CacheOK
<1>. QED  BY <1>1, <1>2, <1>4 DEF Cached, Ok

-----------------------------------------------------------------------------
(* ialloc() *)

Types3 == {"FILE", "DIR", "DEV"}

\* The disk with a claimed inode.
Claimed(F, i, type) ==
    [F EXCEPT !.di[i] = [NoInode EXCEPT !.type = type], !.log = @ \cup {IBLOCK(i)}]
ClaimIs(F, G, i, type) ==
    /\ Fields(G, G.di, F.data, F.used, F.ic, F.log \cup {IBLOCK(i)}, F.panic)
    /\ G.di[i] = [NoInode EXCEPT !.type = type] /\ \A j \in Inum : j # i => G.di[j] = F.di[j]

\* A free inode is not in the cache.
LEMMA ClaimSound ==
    ASSUME NEW F, Cached(F), NEW i \in Inum, F.di[i].type = "0", NEW type \in Types3,
           NEW G, G = Claimed(F, i, type)
    PROVE  Cached(G) /\ ClaimIs(F, G, i, type) /\ \A t \in Slot : F.ic[t].ref > 0 => F.ic[t].inum # i
<1>. DEFINE e == [NoInode EXCEPT !.type = type]
<1>1. F \in FsState /\ F.di \in Inodes /\ F.log \in SUBSET Nat
  BY DEF Cached, FsState
<1>2. e \in Dinode
  <2>1. NoAddrs \in [0..NDIRECT -> 0..(FSSIZE - 1)]
    BY Types
  <2>. QED  BY <2>1 DEF Dinode, NoInode, Types3
<1>3. e.type # "0"
  BY DEF NoInode, Types3
<1>4. IBLOCK(i) \in Nat
  BY Layout DEF Inum
<1>. DEFINE J == [F.di EXCEPT ![i] = e]
<1>5. J \in Inodes /\ J[i] = e /\ \A j \in Inum : j # i => J[j] = F.di[j]
  BY <1>1, <1>2 DEF Inodes
<1>6. G = [F EXCEPT !.di = J, !.log = F.log \cup {IBLOCK(i)}]
  BY DEF Claimed
<1>. HIDE DEF e, J
<1>7. F.log \cup {IBLOCK(i)} \in SUBSET Nat
  BY <1>1, <1>4
<1>8. Fields(G, J, F.data, F.used, F.ic, F.log \cup {IBLOCK(i)}, F.panic)
  BY <1>1, <1>5, <1>6, <1>7 DEF Fields, FsState
<1>9. ClaimIs(F, G, i, type)
  BY <1>5, <1>8 DEF ClaimIs, Fields, e
<1>10. \A t \in Slot : F.ic[t].ref > 0 => F.ic[t].inum # i
  BY DEF Cached, CacheOK
<1>11. CacheOK(J, F.ic)
  BY <1>5, <1>10 DEF Cached, CacheOK
<1>12. Cached(G)
  BY <1>8, <1>11 DEF Cached, Fields, Ok
<1>. QED  BY <1>9, <1>10, <1>12

\* A pointer to entry s was made, and p has locked it.
Gained(F, G, s, p) ==
    \A t \in Slot : /\ G.ic[t].ref = F.ic[t].ref + One(s, t) - One(0, t)
                    /\ G.ic[t].lock = IF t = s THEN p ELSE F.ic[t].lock
                    /\ F.ic[t].ref > 0 => G.ic[t].inum = F.ic[t].inum

\* From F to G: the free inode i is new, of the type, and locked by p in entry s.
Created(F, G, s, p, i, type) ==
    /\ Cached(G) /\ s \in Slot /\ i \in Inum /\ Born(F.di, G.di, i) /\ G.di[i].type = type
    /\ G.di[i].addrs = NoAddrs /\ G.data = F.data /\ G.used = F.used /\ G.log = F.log \cup {IBLOCK(i)}
    /\ G.ic[s].inum = i /\ F.ic[s].ref = 0 /\ Gained(F, G, s, p)

\* ialloc(): no inode is free, or all entries are in use, or the new inode has an entry.
NoneFree(F, r) ==
    /\ r.s = 0 /\ Fields(r.fs, F.di, F.data, F.used, F.ic, F.log, "ialloc")
    /\ \A i \in Inum : F.di[i].type # "0"
IallocIs(F, r, type) ==
    \/ NoneFree(F, r)
    \/ \E i \in Inum : /\ F.di[i].type = "0"
                       /\ NoEntry(Claimed(F, i, type), r) \/ GotEntry(Claimed(F, i, type), r, i)

\* ialloc() finds no free inode, or claims one and goes on with iget() of it.
LEMMA IallocDoes ==
    ASSUME NEW F, Cached(F), NEW type \in Types3, NEW r, r = ialloc(F, type)
    PROVE  IallocIs(F, r, type)
<1>1. CASE FreeInodes(F) = {}
  <2>1. r = [fs |-> Panic(F, "ialloc"), s |-> 0]
    BY <1>1 DEF ialloc
  <2>2. Fields(Panic(F, "ialloc"), F.di, F.data, F.used, F.ic, F.log, "ialloc")
    <3>1. "ialloc" \in Reason /\ F \in FsState /\ Ok(F)
      BY DEF Reason, Cached
    <3>. QED  BY <3>1, PanicIs
  <2>3. \A i \in Inum : F.di[i].type # "0"
    BY <1>1 DEF FreeInodes
  <2>. QED  BY <2>1, <2>2, <2>3 DEF IallocIs, NoneFree
<1>2. CASE FreeInodes(F) # {}
  <2>. DEFINE i == Min(FreeInodes(F))
              C == Claimed(F, i, type)
  <2>1. FreeInodes(F) \in SUBSET Nat
    BY DEF FreeInodes, Inum
  <2>2. i \in FreeInodes(F)
    BY <1>2, <2>1, LeastNumber
  <2>3. r = iget(C, i)
    BY <1>2 DEF ialloc, Claim, Claimed
  <2>. HIDE DEF i
  <2>4. i \in Inum /\ F.di[i].type = "0"
    BY <2>2 DEF FreeInodes
  <2>5. Cached(C) /\ ClaimIs(F, C, i, type)
    BY <2>4, ClaimSound
  <2>. HIDE DEF C
  <2>6. C.di[i].type # "0"
    BY <2>5 DEF ClaimIs, NoInode, Types3
  <2>7. NoEntry(C, r) \/ GotEntry(C, r, i)
    BY <2>3, <2>4, <2>5, <2>6, IgetIs
  <2>. QED  BY <2>4, <2>7 DEF IallocIs, C
<1>. QED  BY <1>1, <1>2

\* ilock() and the fields of the new inode.
LEMMA FreshIs ==
    ASSUME NEW F, Cached(F), NEW i \in Inum, F.di[i].type = "0", NEW type \in Types3,
           NEW r, GotEntry(Claimed(F, i, type), r, i), NEW p \in Process, NEW call,
           NEW G, G = Fresh(ilock(r.fs, r.s, p), r.s, call)
    PROVE  Created(F, G, r.s, p, i, type)
<1>. DEFINE C == Claimed(F, i, type)
            s == r.s
            L == ilock(r.fs, s, p)
            major == IF call = "mknod" THEN CONSOLE ELSE 0
            e == [L.ic[s].ino EXCEPT !.nlink = 1, !.major = major]
<1>1. Cached(C) /\ ClaimIs(F, C, i, type) /\ \A t \in Slot : F.ic[t].ref > 0 => F.ic[t].inum # i
  BY ClaimSound
<1>2. s \in Slot /\ Moves(C, r.fs, 0, s, 0, NoProc) /\ r.fs.ic[s].inum = i
  BY DEF GotEntry
<1>. HIDE DEF C
<1>3. F \in FsState /\ C \in FsState /\ C.ic = F.ic /\ 0 \notin Slot
  BY <1>1 DEF Cached, ClaimIs, Fields, Slot
<1>4. \A t \in Slot : F.ic[t].ref \in Nat /\ One(0, t) = 0 /\ One(s, t) \in {0, 1} /\ One(s, s) = 1
  BY <1>3, EntryIs DEF One
<1>5. Cached(r.fs) /\ r.fs.di = C.di /\ r.fs.data = C.data /\ r.fs.used = C.used /\ r.fs.log = C.log
      /\ r.fs.panic = C.panic /\ r.fs \in FsState
  BY <1>2 DEF Moves, SameDisk, Cached
<1>6. r.fs.ic[s].ref > 0
  <2>1. r.fs.ic[s].ref = F.ic[s].ref + One(s, s) - One(0, s)
    BY <1>2, <1>3 DEF Moves
  <2>. QED  BY <1>2, <1>4, <2>1
<1>7. F.ic[s].ref = 0
  <2>1. F.ic[s].ref > 0 => r.fs.ic[s].inum = F.ic[s].inum
    BY <1>2, <1>3 DEF Moves
  <2>2. ~(F.ic[s].ref > 0)
    BY <1>1, <1>2, <2>1
  <2>. QED  BY <1>2, <1>4, <2>2
<1>8. Moves(r.fs, L, 0, 0, s, p) /\ L.ic[s].inum = i /\ L.ic[s].ino = C.di[i]
  BY <1>2, <1>5, <1>6, IlockIs
<1>9. Moves(C, L, 0, s, s, p)
  BY <1>2, <1>3, <1>8, MovesThen
<1>10. G = iupdate([L EXCEPT !.ic[s].ino.nlink = 1, !.ic[s].ino.major = major], s)
  BY DEF Fresh
<1>. HIDE DEF L, s
<1>11. Cached(L) /\ L \in FsState /\ L.ic \in [Slot -> InodeRec] /\ SameDisk(C, L)
  BY <1>9 DEF Moves, Cached, FsState
<1>12. L.ic[s].ino = [NoInode EXCEPT !.type = type] /\ L.ic[s].ino \in Dinode /\ L.ic[s] \in InodeRec
  BY <1>1, <1>2, <1>8, <1>11, EntryIs DEF ClaimIs
<1>13. e \in Dinode /\ e.type = type /\ e.nlink = 1 /\ e.size = 0 /\ e.addrs = NoAddrs
  <2>1. major \in {0, CONSOLE}
    OBVIOUS
  <2>. HIDE DEF major
  <2>2. e \in Dinode
    BY <1>12, <2>1 DEF Dinode
  <2>3. e.type = type /\ e.nlink = 1 /\ e.size = 0 /\ e.addrs = NoAddrs
    BY <1>12 DEF NoInode
  <2>. QED  BY <2>2, <2>3
<1>14. [L EXCEPT !.ic[s].ino.nlink = 1, !.ic[s].ino.major = major] = WithIno(L, s, e)
  <2>. HIDE DEF major
  <2>. DEFINE M == [L EXCEPT !.ic[s].ino.nlink = 1]
              n == [L.ic[s].ino EXCEPT !.nlink = 1]
  <2>1. M = [L EXCEPT !.ic = [L.ic EXCEPT ![s] = [L.ic[s] EXCEPT !.ino = n]]]
    BY <1>11, <1>12
  <2>2. M.ic = [L.ic EXCEPT ![s] = [L.ic[s] EXCEPT !.ino = n]] /\ M.ic[s].ino = n
    <3>1. M.ic = [L.ic EXCEPT ![s] = [L.ic[s] EXCEPT !.ino = n]]
      BY <1>11, <2>1 DEF FsState
    <3>2. M.ic[s] = [L.ic[s] EXCEPT !.ino = n]
      BY <1>2, <1>11, <3>1
    <3>. QED  BY <1>12, <3>1, <3>2 DEF InodeRec
  <2>3. [L EXCEPT !.ic[s].ino.nlink = 1, !.ic[s].ino.major = major] = [M EXCEPT !.ic[s].ino.major = major]
    OBVIOUS
  <2>. HIDE DEF M
  <2>4. [M EXCEPT !.ic[s].ino.major = major]
        = [M EXCEPT !.ic = [M.ic EXCEPT ![s] = [M.ic[s] EXCEPT !.ino = [M.ic[s].ino EXCEPT !.major = major]]]]
    OBVIOUS
  <2>5. [M.ic[s].ino EXCEPT !.major = major] = e
    BY <2>2
  <2>6. M.ic[s] = [L.ic[s] EXCEPT !.ino = n]
    BY <1>2, <1>11, <2>2
  <2>. HIDE DEF e, n
  <2>7. [M.ic[s] EXCEPT !.ino = e] = [L.ic[s] EXCEPT !.ino = e]
    BY <1>12, <2>6 DEF InodeRec
  <2>8. [M.ic EXCEPT ![s] = [L.ic[s] EXCEPT !.ino = e]] = [L.ic EXCEPT ![s] = [L.ic[s] EXCEPT !.ino = e]]
    BY <1>2, <1>11, <2>2
  <2>9. [M EXCEPT !.ic = [L.ic EXCEPT ![s] = [L.ic[s] EXCEPT !.ino = e]]]
        = [L EXCEPT !.ic = [L.ic EXCEPT ![s] = [L.ic[s] EXCEPT !.ino = e]]]
    BY <1>11, <2>1 DEF FsState
  <2>10. WithIno(L, s, e) = [L EXCEPT !.ic = [L.ic EXCEPT ![s] = [L.ic[s] EXCEPT !.ino = e]]]
    BY DEF WithIno
  <2>. QED  BY <2>3, <2>4, <2>5, <2>7, <2>8, <2>9, <2>10
<1>. HIDE DEF e, major
<1>15. Updated(L, G, s, i, e)
  BY <1>2, <1>8, <1>10, <1>11, <1>13, <1>14, IupdateIs
<1>16. e.type # "0" /\ L.ic[s].ref > 0
  <2>1. L.ic[s].ref = F.ic[s].ref + One(s, s) - One(0, s)
    BY <1>2, <1>3, <1>9 DEF Moves
  <2>. QED  BY <1>2, <1>4, <1>7, <1>13, <2>1 DEF Types3
<1>17. Cached(G)
  BY <1>2, <1>8, <1>11, <1>13, <1>15, <1>16, UpdatedCached
<1>18. G.ic[s].inum = i /\ Gained(F, G, s, p)
  <2>1. Kept(L.ic, G.ic, s)
    BY <1>15 DEF Updated
  <2>2. ASSUME NEW t \in Slot
        PROVE  /\ G.ic[t].ref = F.ic[t].ref + One(s, t) - One(0, t)
               /\ G.ic[t].lock = IF t = s THEN p ELSE F.ic[t].lock
               /\ F.ic[t].ref > 0 => G.ic[t].inum = F.ic[t].inum
    <3>1. G.ic[t].ref = L.ic[t].ref /\ G.ic[t].lock = L.ic[t].lock /\ G.ic[t].inum = L.ic[t].inum
      BY <2>1 DEF Kept
    <3>2. /\ L.ic[t].ref = C.ic[t].ref + One(s, t) - One(0, t)
          /\ L.ic[t].lock = IF t = s THEN p ELSE C.ic[t].lock
          /\ C.ic[t].ref > 0 => L.ic[t].inum = C.ic[t].inum
      BY <1>9 DEF Moves
    <3>. QED  BY <1>3, <3>1, <3>2
  <2>3. G.ic[s].inum = i
    BY <1>2, <1>8, <2>1 DEF Kept
  <2>. QED  BY <2>2, <2>3 DEF Gained
<1>19. Born(F.di, G.di, i)
  <2>1. \A j \in Inum : j # i => G.di[j] = F.di[j]
    BY <1>1, <1>11, <1>15 DEF Updated, SameDisk, ClaimIs
  <2>2. G.di[i] = e
    BY <1>15 DEF Updated
  <2>. QED  BY <1>13, <1>16, <2>1, <2>2 DEF Born
<1>20. G.data = F.data /\ G.used = F.used /\ G.log = F.log \cup {IBLOCK(i)} /\ G.di[i] = e
  <2>1. G.data = L.data /\ G.used = L.used /\ G.log = L.log \cup {IBLOCK(i)} /\ G.di[i] = e
    BY <1>15 DEF Updated, Fields
  <2>2. L.data = C.data /\ L.used = C.used /\ L.log = C.log
    BY <1>11 DEF SameDisk
  <2>3. C.data = F.data /\ C.used = F.used /\ C.log = F.log \cup {IBLOCK(i)}
    BY <1>1 DEF ClaimIs, Fields
  <2>. QED  BY <2>1, <2>2, <2>3
<1>21. Created(F, G, s, p, i, type)
  BY <1>2, <1>7, <1>13, <1>17, <1>18, <1>19, <1>20 DEF Created
<1>. QED  BY <1>21 DEF s

\* A new inode owns no block.
LEMMA BornBlocks ==
    ASSUME NEW I, NEW J, NEW D, NEW U, NEW i \in Inum, Born(I, J, i), J[i].addrs = NoAddrs,
           Blocks(I, D, U), Whole(I, D)
    PROVE  Blocks(J, D, U) /\ Whole(J, D) /\ Alike(I, J, D)
<1>2. \A j \in Inum : J[j].addrs = I[j].addrs
  BY DEF Born, Whole
<1>3. Alike(I, J, D)
  BY <1>2, SameAddrs
<1>4. Blocks(J, D, U)
  BY <1>3 DEF Alike
<1>5. ASSUME NEW j \in Inum
      PROVE  /\ \A n \in 0..(MAXFILE - 1) : n * BSIZE < J[j].size => Blk(J, D, j, n) # 0
             /\ J[j].size <= MAXFILE * BSIZE
             /\ J[j].type = "0" => J[j].addrs = NoAddrs /\ J[j].size = 0
  <2>1. CASE j = i
    <3>0. J[j].size = 0 /\ J[j].type # "0"
      BY <2>1 DEF Born
    <3>1. \A n \in 0..(MAXFILE - 1) : ~(n * BSIZE < 0)
      <4>1. ASSUME NEW n \in 0..(MAXFILE - 1) PROVE ~(n * BSIZE < 0)
        <5>1. n \in Nat
          BY Layout
        <5>2. n * BSIZE \in Nat
          BY <5>1, FirstCell
        <5>. HIDE DEF MAXFILE
        <5>3. \A m \in Nat : ~(m < 0)
          OBVIOUS
        <5>. QED  BY <5>2, <5>3, Zenon
      <4>. QED  BY <4>1
    <3>2. 0 <= MAXFILE * BSIZE
      BY MaxCells
    <3>. QED  BY <3>0, <3>1, <3>2, Zenon
  <2>2. CASE j # i
    <3>1. J[j] = I[j]
      BY <2>2 DEF Born
    <3>2. \A n : Blk(J, D, j, n) = Blk(I, D, j, n)
      BY <1>3 DEF Alike
    <3>. QED  BY <3>1, <3>2, Zenon DEF Whole
  <2>. QED  BY <2>1, <2>2
<1>6. Whole(J, D)
  BY <1>5, Zenon DEF Whole
<1>. QED  BY <1>3, <1>4, <1>6

\* The same in the kernel.
LEMMA CreatedBlocks ==
    ASSUME NEW F, NEW G, NEW s, NEW p, NEW i, NEW type, Created(F, G, s, p, i, type),
           Blocks(F.di, F.data, F.used), Whole(F.di, F.data)
    PROVE  Blocks(G.di, G.data, G.used) /\ Whole(G.di, G.data)
<1>1. i \in Inum /\ Born(F.di, G.di, i) /\ G.di[i].addrs = NoAddrs /\ G.data = F.data /\ G.used = F.used
  BY DEF Created
<1>. QED  BY <1>1, BornBlocks

\* The disk with one more directory entry.
PutIn(I, D, J, E, d, c, x) ==
    /\ \A j \in Inum : J[j].type = I[j].type /\ J[j].nlink = I[j].nlink
    /\ \A j \in Inum : j # d => J[j].size = I[j].size
    /\ \A j \in Inum : j # d => \A y \in Offs(I, j) : At(J, E, j, y) = At(I, D, j, y)
    /\ Put(I, D, J, E, d, c, x)

\* An offset in a file is in one of its blocks.
LEMMA OffBlock ==
    ASSUME NEW I, NEW D, Whole(I, D), SizesOf(I), NEW j \in Inum, NEW y \in Offs(I, j)
    PROVE  y \in Nat /\ y \div BSIZE < MAXFILE /\ Blk(I, D, j, y \div BSIZE) # 0
<1>. DEFINE size == I[j].size
            n == y \div BSIZE
            M == MAXFILE * BSIZE
<1>1. size \in Nat /\ y \in Nat /\ y < size
  BY DEF SizesOf, Offs
<1>2. size <= M /\ M \in Nat
  BY MaxCells DEF Whole
<1>3. y < M
  <2>. HIDE DEF M, size
  <2>. QED  BY <1>1, <1>2
<1>4. n \in Nat /\ n < MAXFILE /\ n * BSIZE <= y /\ n * BSIZE \in Nat
  <2>1. n \in Nat /\ n * BSIZE <= y
    BY <1>1, CellOf
  <2>2. n < MAXFILE
    BY <1>1, <1>3, Layout, CellBelow
  <2>3. n * BSIZE \in Nat
    BY <2>1, FirstCell
  <2>. QED  BY <2>1, <2>2, <2>3
<1>. HIDE DEF n
<1>5. n * BSIZE < size
  <2>. DEFINE k == n * BSIZE
  <2>1. k \in Nat /\ k <= y
    BY <1>4
  <2>. HIDE DEF k, size
  <2>2. k < size
    BY <1>1, <2>1
  <2>. QED  BY <2>2 DEF k
<1>6. n \in 0..(MAXFILE - 1)
  BY <1>4, Layout
<1>7. Blk(I, D, j, n) # 0
  BY <1>5, <1>6 DEF Whole
<1>. QED  BY <1>1, <1>4, <1>7 DEF n

\* Sizes are numbers.
LEMMA SizesAre ==
    ASSUME NEW F \in FsState
    PROVE  SizesOf(F.di)
BY DEF FsState, Inodes, Dinode, SizesOf

\* What Link() does to the directories.
LEMMA EnteredPut ==
    ASSUME NEW F, NEW s, Holder(F, s), NEW G, NEW d, d = F.ic[s].inum, NEW c \in Cell,
           NEW x, Entered1(F, G, s, d, c, x), ~DiskFull(G)
    PROVE  PutIn(F.di, F.data, G.di, G.data, d, c, x)
<1>. DEFINE O == x..(x + Len(Single(c)) - 1)
<1>1. F \in FsState /\ Whole(F.di, F.data) /\ d \in Inum /\ SizesOf(F.di)
  BY SizesAre DEF Holder
<1>2. /\ x \in 0..F.di[d].size /\ (x < F.di[d].size => At(F.di, F.data, d, x)[2] = 0)
      /\ Wrote(F, G, s, d, x, Single(c))
  BY DEF Entered1
<1>3. WroteAll(F, G, d, x, Single(c)) /\ \A j \in Inum : KeptIno(F.di[j], G.di[j]) /\ (j # d => G.di[j] = F.di[j])
  BY <1>2 DEF Wrote
<1>4. x \in Nat /\ Len(Single(c)) = 1 /\ Single(c)[1] = c
  BY <1>1, <1>2, SingleIs DEF SizesOf
<1>5. O = {x} /\ x - x + 1 = 1
  BY <1>4
<1>. HIDE DEF O
<1>6. /\ G.di[d].size = (IF x + 1 > F.di[d].size THEN x + 1 ELSE F.di[d].size)
      /\ \A o \in O : At(G.di, G.data, d, o) = Single(c)[o - x + 1]
      /\ Beyond(F.di, F.data, G.di, G.data, d, O)
  BY <1>3, <1>4 DEF WroteAll, O
<1>7. At(G.di, G.data, d, x) = c
  BY <1>4, <1>5, <1>6
<1>8. ASSUME NEW j \in Inum, NEW y \in Offs(F.di, j), ~(j = d /\ y = x)
      PROVE  At(G.di, G.data, j, y) = At(F.di, F.data, j, y)
  <2>1. y \in Nat /\ y \div BSIZE < MAXFILE /\ Blk(F.di, F.data, j, y \div BSIZE) # 0
    BY <1>1, OffBlock
  <2>2. ~(j = d /\ y \in O)
    BY <1>5, <1>8
  <2>. QED  BY <1>6, <2>1, <2>2 DEF Beyond
<1>9. Put(F.di, F.data, G.di, G.data, d, c, x)
  BY <1>1, <1>2, <1>6, <1>7, <1>8 DEF Put
<1>10. \A j \in Inum : G.di[j].type = F.di[j].type /\ G.di[j].nlink = F.di[j].nlink
  BY <1>3 DEF KeptIno
<1>. QED  BY <1>3, <1>8, <1>9, <1>10 DEF PutIn

\* The entries of a directory with one more.
LEMMA PutOffs ==
    ASSUME NEW I, NEW D, NEW J, NEW E, NEW d \in Inum, NEW c, NEW x, SizesOf(I), Put(I, D, J, E, d, c, x)
    PROVE  /\ x \in Offs(J, d) /\ \A y \in Offs(J, d) : y = x \/ (y # x /\ y \in Offs(I, d))
           /\ \A y \in Offs(I, d) : y \in Offs(J, d)
<1>1. I[d].size \in Nat /\ x \in Nat /\ x <= I[d].size
  BY DEF SizesOf, Put
<1>. QED  BY <1>1 DEF Put, Offs

\* An entry for an inode in use.
LEMMA PutLeads ==
    ASSUME NEW I, NEW D, NEW J, NEW E, NEW d \in Inum, NEW c, NEW x, SizesOf(I),
           PutIn(I, D, J, E, d, c, x), Leads(I, D), c[2] \in Inum, I[c[2]].type # "0"
    PROVE  Leads(J, E)
<1>1. DirSet(J) = DirSet(I) /\ DirSet(I) \subseteq Inum
  BY DEF PutIn, DirSet
<1>2. \A y \in Offs(J, d) : y = x \/ (y # x /\ y \in Offs(I, d))
  BY PutOffs DEF PutIn
<1>3. \A j \in Inum : j # d => Offs(J, j) = Offs(I, j)
  BY DEF PutIn, Offs
<1>4. ASSUME NEW e \in DirSet(J), NEW y \in Offs(J, e), At(J, E, e, y)[2] # 0
      PROVE  At(J, E, e, y)[2] \in Inum /\ J[At(J, E, e, y)[2]].type # "0"
  <2>1. CASE e = d /\ y = x
    <3>1. At(J, E, e, y) = c
      BY <2>1 DEF PutIn, Put
    <3>. QED  BY <3>1 DEF PutIn
  <2>2. CASE ~(e = d /\ y = x)
    <3>1. e \in DirSet(I) /\ y \in Offs(I, e) /\ At(J, E, e, y) = At(I, D, e, y)
      BY <1>1, <1>2, <1>3, <2>2 DEF PutIn, Put
    <3>. QED  BY <1>4, <3>1 DEF Leads, PutIn
  <2>. QED  BY <2>1, <2>2
<1>. QED  BY <1>4 DEF Leads

\* Only the copies of inodes changed in the cache.
SameRefs(F, G) ==
    \A t \in Slot : /\ G.ic[t].inum = F.ic[t].inum /\ G.ic[t].ref = F.ic[t].ref
                    /\ G.ic[t].valid = F.ic[t].valid /\ G.ic[t].lock = F.ic[t].lock

\* A name and an inode are a cell.
LEMMA PairCell ==
    ASSUME NEW name \in Name, NEW n \in Inum
    PROVE  Pair(name, n) \in Cell
<1>1. n \in 0..(FSSIZE - 1)
  <2>1. nmeta < FSSIZE
    BY FsAssumption
  <2>2. nmeta = nlog + NINODES + 4 /\ nlog \in Nat /\ NINODES \in Nat /\ FSSIZE \in Nat
    BY Layout
  <2>. HIDE DEF nmeta
  <2>3. NINODES < FSSIZE
    BY <2>1, <2>2
  <2>. QED  BY <2>2, <2>3 DEF Inum
<1>. QED  BY <1>1 DEF Pair, Cell

\* The names of dots.
LEMMA DotNames == "." \in Name /\ ".." \in Name
BY DEF Name

\* The blocks that Link() logs.
LEMMA LinkLog ==
    ASSUME NEW F, NEW G, NEW s, NEW d, NEW c \in Cell, NEW x \in Nat, Entered1(F, G, s, d, c, x)
    PROVE  LET b == Blk(See(G, s), G.data, d, x \div BSIZE)
               a == Blk(See(G, s), G.data, d, MAXFILE)
           IN  \A y \in G.log : \/ y \in F.log \cup {bmapstart, IBLOCK(d), b}
                                \/ y = a /\ x \div BSIZE >= NDIRECT
<1>1. Wrote(F, G, s, d, x, Single(c)) /\ Len(Single(c)) = 1
  BY SingleIs DEF Entered1
<1>2. x..(x + 1 - 1) = {x}
  OBVIOUS
<1>3. \A y \in G.log : y \in F.log \/ WLog(G, s, d, {x}, y)
  BY <1>1, <1>2 DEF Wrote
<1>. QED  BY <1>3 DEF WLog

\* A locked entry has an up to date copy.
LEMMA LockedHolder ==
    ASSUME NEW F, Cached(F), Blocks(F.di, F.data, F.used), Whole(F.di, F.data), NEW s \in Slot,
           F.ic[s].lock # NoProc
    PROVE  Holder(F, s)
BY DEF Cached, CacheOK, Holder

\* After Link() nothing but copies of inodes changed in the cache.
LEMMA EnteredRefs ==
    ASSUME NEW F, NEW G, NEW s, NEW d, NEW c, NEW x, Entered1(F, G, s, d, c, x)
    PROVE  SameRefs(F, G) /\ G \in FsState
BY DEF Entered1, Wrote, Kept, SameRefs

\* The link of a directory to its parent, counted.
Counts(F, dp) == iupdate([F EXCEPT !.ic[dp].ino.nlink = @ + 1], dp)

\* The parent has one more link.
CountedUp(F, G, d) ==
    /\ G.data = F.data /\ G.used = F.used /\ G.log = F.log \cup {IBLOCK(d)} /\ SameRefs(F, G)
    /\ G.di[d].nlink = F.di[d].nlink + 1
    /\ \A j \in Inum : j # d => G.di[j] = F.di[j]
    /\ \A j \in Inum : G.di[j].type = F.di[j].type /\ G.di[j].size = F.di[j].size
                       /\ G.di[j].addrs = F.di[j].addrs

\* create() counts ".." of the new directory on its parent and writes the
\* parent back: only the link count changes.
LEMMA CountsIs ==
    ASSUME NEW F, Cached(F), Blocks(F.di, F.data, F.used), Whole(F.di, F.data),
           NEW dp \in Slot, F.ic[dp].lock # NoProc, NEW G, G = Counts(F, dp)
    PROVE  /\ Cached(G) /\ CountedUp(F, G, F.ic[dp].inum)
           /\ Blocks(G.di, G.data, G.used) /\ Whole(G.di, G.data)
<1>. DEFINE d == F.ic[dp].inum
            o == F.ic[dp].ino
            e == [o EXCEPT !.nlink = o.nlink + 1]
<1>1. Holder(F, dp)
  BY LockedHolder
<1>2. F \in FsState /\ d \in Inum /\ o = F.di[d] /\ F.ic[dp].ref > 0 /\ F.ic \in [Slot -> InodeRec]
  BY <1>1 DEF Holder, FsState
<1>3. o \in Dinode /\ o.type # "0" /\ F.ic[dp] \in InodeRec
  BY <1>2, EntryIs DEF Cached, CacheOK
<1>4. /\ e \in Dinode /\ e.type = o.type /\ e.size = o.size /\ e.addrs = o.addrs
      /\ e.nlink = o.nlink + 1
  BY <1>3 DEF Dinode
<1>5. [F EXCEPT !.ic[dp].ino.nlink = @ + 1] = WithIno(F, dp, e)
  BY <1>2, <1>3 DEF WithIno
<1>. HIDE DEF e
<1>6. Updated(F, G, dp, d, e)
  BY <1>2, <1>4, <1>5, IupdateIs DEF Counts
<1>7. Cached(G)
  BY <1>2, <1>3, <1>4, <1>6, UpdatedCached
<1>8. G.data = F.data /\ G.used = F.used /\ G.log = F.log \cup {IBLOCK(d)} /\ Kept(F.ic, G.ic, dp)
  BY <1>6 DEF Updated, Fields
<1>9. G.di[d] = e /\ \A j \in Inum : j # d => G.di[j] = F.di[j]
  BY <1>6 DEF Updated
<1>10. \A j \in Inum : G.di[j].type = F.di[j].type /\ G.di[j].size = F.di[j].size
                       /\ G.di[j].addrs = F.di[j].addrs
  BY <1>2, <1>4, <1>9
<1>11. CountedUp(F, G, d)
  <2>1. SameRefs(F, G)
    BY <1>8 DEF Kept, SameRefs
  <2>2. G.di[d].nlink = F.di[d].nlink + 1
    BY <1>2, <1>4, <1>9
  <2>. QED  BY <1>8, <1>9, <1>10, <2>1, <2>2 DEF CountedUp
<1>12. Alike(F.di, G.di, F.data)
  BY <1>10, SameAddrs
<1>13. Blocks(G.di, G.data, G.used)
  BY <1>8, <1>12 DEF Alike
<1>14. Whole(G.di, G.data)
  BY <1>8, <1>10, <1>12, ZenonT(30) DEF Alike, Whole
<1>. QED  BY <1>7, <1>11, <1>13, <1>14

\* Two locked directories, i empty.
Ready(F, ip, dp, i, d) ==
    /\ Cached(F) /\ Blocks(F.di, F.data, F.used) /\ Whole(F.di, F.data) /\ Leads(F.di, F.data)
    /\ ip \in Slot /\ dp \in Slot /\ F.ic[ip].lock # NoProc /\ F.ic[dp].lock # NoProc
    /\ i = F.ic[ip].inum /\ d = F.ic[dp].inum /\ i # d /\ F.di[d].type = "DIR"

\* From F to G the directory i has got its dots.
HasDots(F, G, i, d) ==
    /\ \A j \in Inum : G.di[j].type = F.di[j].type
    /\ \A j \in Inum : j # i => G.di[j].size = F.di[j].size
    /\ \A j \in Inum : j # d => G.di[j].nlink = F.di[j].nlink
    /\ \A j \in Inum : j # i => \A y \in Offs(F.di, j) : At(G.di, G.data, j, y) = At(F.di, F.data, j, y)
    /\ G.di[d].nlink = F.di[d].nlink + 1 /\ G.di[i].size = 2
    /\ At(G.di, G.data, i, 0) = Pair(".", i) /\ At(G.di, G.data, i, 1) = Pair("..", d)
DotsLog(F, G, i, d, b) == G.log \subseteq F.log \cup {IBLOCK(i), IBLOCK(d), bmapstart, b}
DotsMade(F, G, i, d) ==
    /\ Cached(G) /\ Blocks(G.di, G.data, G.used) /\ Whole(G.di, G.data) /\ Leads(G.di, G.data)
    /\ HasDots(F, G, i, d) /\ \E b : DotsLog(F, G, i, d, b)
DotsFull(F, G, i, d) ==
    DiskFull(G) /\ \E b, c : G.log \subseteq F.log \cup {IBLOCK(i), IBLOCK(d), bmapstart, b, c}

\* The blocks of small offsets.
LEMMA SmallOff == 0 \div BSIZE = 0 /\ 1 \div BSIZE = 0 /\ 0 < NDIRECT /\ 1 < MAXFILE * BSIZE
<1>1. BSIZE \in Nat /\ BSIZE > 1 /\ NDIRECT > 0 /\ NDIRECT \in Nat
  BY Layout
<1>2. 0 \div BSIZE = 0
  BY <1>1
<1>3. 1 \div BSIZE = 0
  BY <1>1
<1>4. 1 < MAXFILE * BSIZE
  <2>1. NINODES < MAXFILE * BSIZE
    BY FsAssumption
  <2>2. NINODES > 1 /\ NINODES \in Nat /\ MAXFILE * BSIZE \in Nat
    BY Layout, MaxCells
  <2>. DEFINE M == MAXFILE * BSIZE
  <2>3. NINODES < M /\ M \in Nat
    BY <2>1, <2>2
  <2>. HIDE DEF M
  <2>4. 1 < M
    BY <2>2, <2>3
  <2>. QED  BY <2>4 DEF M
<1>. QED  BY <1>1, <1>2, <1>3, <1>4

\* Dots(), the directory's first two entries.
LEMMA DotsIs ==
    ASSUME NEW F, NEW ip, NEW dp, NEW i, NEW d, Ready(F, ip, dp, i, d),
           F.di[i].type = "DIR", F.di[i].size = 0, NEW G, G = Dots(F, ip, dp)
    PROVE  SameRefs(F, G) /\ G \in FsState /\ (DotsFull(F, G, i, d) \/ DotsMade(F, G, i, d))
<1>. DEFINE F1 == Counts(F, dp)
            G1 == Link(F1, ip, ".", i)
<1>0. /\ ip \in Slot /\ dp \in Slot /\ Cached(F) /\ i \in Inum /\ d \in Inum /\ i # d
      /\ F \in FsState
  BY DEF Ready, Cached, CacheOK
<1>1. G = Link(G1, ip, "..", d)
  BY DEF Dots, Counts, Ready
<1>2. /\ Cached(F1) /\ CountedUp(F, F1, d) /\ Blocks(F1.di, F1.data, F1.used) /\ Whole(F1.di, F1.data)
  <2>. HIDE DEF F1
  <2>. QED  BY CountsIs DEF Ready, F1
<1>. HIDE DEF F1
<1>3. SameRefs(F, F1) /\ F1.data = F.data /\ F1.log = F.log \cup {IBLOCK(d)} /\ F1 \in FsState
  BY <1>2 DEF CountedUp, Cached
<1>4. Alike(F.di, F1.di, F.data)
  BY <1>2, SameAddrs DEF CountedUp
<1>5. \A j \in Inum : Offs(F1.di, j) = Offs(F.di, j)
  BY <1>2 DEF CountedUp, Offs
<1>6. \A j \in Inum : \A y : At(F1.di, F1.data, j, y) = At(F.di, F.data, j, y)
  BY <1>3, <1>4 DEF Alike
<1>7. Leads(F1.di, F1.data)
  <2>1. DirSet(F1.di) = DirSet(F.di) /\ DirSet(F.di) \subseteq Inum
    BY <1>2 DEF CountedUp, DirSet
  <2>2. \A j \in Inum : F1.di[j].type = F.di[j].type
    BY <1>2 DEF CountedUp
  <2>. QED  BY <1>5, <1>6, <2>1, <2>2 DEF Leads, Ready
<1>8. F1.ic[ip].lock # NoProc /\ F1.ic[ip].inum = i
  BY <1>0, <1>3 DEF Ready, SameRefs
<1>9. Holder(F1, ip)
  BY <1>0, <1>2, <1>8, LockedHolder
<1>10. F1.ic[ip].ino.type = "DIR" /\ F1.di[i].type = "DIR" /\ F1.di[i].size = 0 /\ F1.di[d].type = "DIR"
  BY <1>0, <1>2, <1>8, <1>9 DEF Holder, CountedUp, Ready
<1>11. Offs(F1.di, i) = {}
  <2>1. Offs(F1.di, i) = 0..(0 - 1)
    BY <1>10 DEF Offs
  <2>. QED  BY <2>1
<1>12. NoName(F1.di, F1.data, i, ".") /\ Roomy(F1.di, F1.data, i)
  <2>1. 0 < MAXFILE * BSIZE
    BY SmallOff, MaxCells
  <2>. QED  BY <1>10, <1>11, <2>1 DEF NoName, Roomy
<1>13. Pair(".", i) \in Cell /\ Pair("..", d) \in Cell
  BY <1>0, PairCell, DotNames
<1>14. PICK x1 \in 0..F1.di[i].size : Entered1(F1, G1, ip, i, Pair(".", i), x1)
  BY <1>2, <1>7, <1>8, <1>9, <1>10, <1>12, <1>13, LinkIs
<1>. HIDE DEF G1
<1>15. x1 = 0 /\ Entered1(F1, G1, ip, i, Pair(".", i), 0)
  <2>1. x1 \in 0..0
    BY <1>10
  <2>2. x1 = 0
    BY <2>1
  <2>. QED  BY <1>14, <2>2
<1>16. SameRefs(F1, G1) /\ G1 \in FsState
  BY <1>15, EnteredRefs
<1>. DEFINE b1 == Blk(See(G1, ip), G1.data, i, 0)
<1>17. G1.log \subseteq F.log \cup {IBLOCK(i), IBLOCK(d), bmapstart, b1}
  <2>1. \A y \in G1.log : y \in F1.log \cup {bmapstart, IBLOCK(i), b1} \/ (0 \div BSIZE >= NDIRECT)
    <3>1. 0 \in Nat /\ 0 \div BSIZE = 0
      BY SmallOff
    <3>. QED  BY <1>13, <1>15, <3>1, LinkLog
  <2>2. ~(0 \div BSIZE >= NDIRECT)
    BY SmallOff, Layout
  <2>. QED  BY <1>3, <2>1, <2>2
<1>18. CASE DiskFull(G1)
  <2>1. ~Ok(G1)
    BY <1>18 DEF DiskFull, Ok
  <2>2. G = G1
    BY <1>1, <2>1, Stopped
  <2>3. DotsFull(F, G, i, d)
    <3>1. G.log \subseteq F.log \cup {IBLOCK(i), IBLOCK(d), bmapstart, b1, b1}
      BY <1>17, <2>2
    <3>. QED  BY <1>18, <2>2, <3>1 DEF DotsFull
  <2>4. SameRefs(F, G)
    BY <1>3, <1>16, <2>2 DEF SameRefs
  <2>. QED  BY <1>16, <2>2, <2>3, <2>4
<1>19. CASE ~DiskFull(G1)
  <2>1. Cached(G1) /\ Holder(G1, ip) /\ G1.ic[ip].inum = i
    BY <1>2, <1>8, <1>9, <1>15, <1>19, WroteCached DEF Entered1
  <2>2. PutIn(F1.di, F1.data, G1.di, G1.data, i, Pair(".", i), 0)
    BY <1>8, <1>9, <1>13, <1>15, <1>19, EnteredPut
  <2>3. /\ \A j \in Inum : G1.di[j].type = F1.di[j].type /\ G1.di[j].nlink = F1.di[j].nlink
        /\ \A j \in Inum : j # i => G1.di[j].size = F1.di[j].size
        /\ \A j \in Inum : j # i => \A y \in Offs(F1.di, j) : At(G1.di, G1.data, j, y) = At(F1.di, F1.data, j, y)
        /\ At(G1.di, G1.data, i, 0) = Pair(".", i)
    BY <2>2 DEF PutIn, Put
  <2>4. G1.di[i].size = 1
    <3>1. G1.di[i].size = IF 0 + 1 > 0 THEN 0 + 1 ELSE 0
      BY <1>10, <2>2 DEF PutIn, Put
    <3>. QED  BY <3>1
  <2>5. Leads(G1.di, G1.data)
    <3>1. Pair(".", i)[2] = i /\ F1.di[i].type # "0" /\ SizesOf(F1.di)
      BY <1>3, <1>10, PairIs, SizesAre
    <3>. QED  BY <1>0, <1>7, <2>2, <3>1, PutLeads
  <2>6. Offs(G1.di, i) = {0}
    <3>1. Offs(G1.di, i) = 0..(1 - 1)
      BY <2>4 DEF Offs
    <3>. QED  BY <3>1
  <2>7. NoName(G1.di, G1.data, i, "..")
    <3>1. Pair(".", i)[1] # ".."
      BY PairIs
    <3>. QED  BY <2>3, <2>6, <3>1 DEF NoName
  <2>8. Roomy(G1.di, G1.data, i)
    BY <2>4, SmallOff DEF Roomy
  <2>9. G1.ic[ip].ino.type = "DIR"
    <3>1. G1.ic[ip].ino = G1.di[i]
      BY <2>1 DEF Holder
    <3>. QED  BY <1>0, <1>10, <2>3, <3>1
  <2>10. PICK x2 \in 0..G1.di[i].size : Entered1(G1, G, ip, i, Pair("..", d), x2)
    BY <1>1, <1>13, <2>1, <2>5, <2>7, <2>8, <2>9, LinkIs
  <2>11. x2 = 1
    <3>1. x2 \in 0..1 /\ (x2 < 1 => At(G1.di, G1.data, i, x2)[2] = 0)
      BY <2>4, <2>10 DEF Entered1
    <3>2. Pair(".", i)[2] = i /\ i # 0
      BY <1>0, PairIs DEF Inum
    <3>3. x2 # 0
      BY <2>3, <3>1, <3>2
    <3>. QED  BY <3>1, <3>3
  <2>12. Entered1(G1, G, ip, i, Pair("..", d), 1)
    BY <2>10, <2>11
  <2>13. SameRefs(G1, G) /\ G \in FsState /\ SameRefs(F, G)
    BY <1>3, <1>16, <2>12, EnteredRefs DEF SameRefs
  <2>. DEFINE b2 == Blk(See(G, ip), G.data, i, 0)
  <2>14. G.log \subseteq F.log \cup {IBLOCK(i), IBLOCK(d), bmapstart, b1, b2}
    <3>1. \A y \in G.log : y \in G1.log \cup {bmapstart, IBLOCK(i), b2} \/ (1 \div BSIZE >= NDIRECT)
      <4>1. 1 \in Nat /\ 1 \div BSIZE = 0
        BY SmallOff
      <4>. QED  BY <1>13, <2>12, <4>1, LinkLog
    <3>2. ~(1 \div BSIZE >= NDIRECT)
      BY SmallOff, Layout
    <3>. QED  BY <1>17, <3>1, <3>2
  <2>15. CASE DiskFull(G)
    BY <2>13, <2>14, <2>15 DEF DotsFull
  <2>16. CASE ~DiskFull(G)
    <3>1. Cached(G) /\ Holder(G, ip) /\ G.ic[ip].inum = i
      BY <2>1, <2>12, <2>16, WroteCached DEF Entered1
    <3>2. PutIn(G1.di, G1.data, G.di, G.data, i, Pair("..", d), 1)
      BY <1>13, <2>1, <2>12, <2>16, EnteredPut
    <3>3. /\ \A j \in Inum : G.di[j].type = G1.di[j].type /\ G.di[j].nlink = G1.di[j].nlink
          /\ \A j \in Inum : j # i => G.di[j].size = G1.di[j].size
          /\ \A j \in Inum : j # i => \A y \in Offs(G1.di, j) : At(G.di, G.data, j, y) = At(G1.di, G1.data, j, y)
          /\ At(G.di, G.data, i, 1) = Pair("..", d)
          /\ \A y \in Offs(G1.di, i) : y # 1 => At(G.di, G.data, i, y) = At(G1.di, G1.data, i, y)
      BY <3>2 DEF PutIn, Put
    <3>4. G.di[i].size = 2
      <4>1. G.di[i].size = IF 1 + 1 > 1 THEN 1 + 1 ELSE 1
        BY <2>4, <3>2 DEF PutIn, Put
      <4>. QED  BY <4>1
    <3>5. Leads(G.di, G.data)
      <4>1. Pair("..", d)[2] = d /\ G1.di[d].type # "0" /\ SizesOf(G1.di)
        <5>1. G1.di[d].type = "DIR"
          BY <1>0, <1>10, <2>3
        <5>. QED  BY <1>16, <5>1, PairIs, SizesAre
      <4>. QED  BY <1>0, <2>5, <3>2, <4>1, PutLeads
    <3>6. At(G.di, G.data, i, 0) = Pair(".", i)
      BY <2>3, <2>6, <3>3
    <3>7. ASSUME NEW j \in Inum, j # i
          PROVE  /\ G.di[j].size = F.di[j].size
                 /\ \A y \in Offs(F.di, j) : At(G.di, G.data, j, y) = At(F.di, F.data, j, y)
      <4>1. G.di[j].size = G1.di[j].size /\ G1.di[j].size = F1.di[j].size /\ F1.di[j].size = F.di[j].size
        BY <1>2, <2>3, <3>3, <3>7 DEF CountedUp
      <4>2. Offs(G1.di, j) = Offs(F1.di, j) /\ Offs(F1.di, j) = Offs(F.di, j)
        BY <4>1 DEF Offs
      <4>3. \A y \in Offs(F.di, j) : At(G.di, G.data, j, y) = At(G1.di, G1.data, j, y)
        BY <3>3, <3>7, <4>2
      <4>4. \A y \in Offs(F.di, j) : At(G1.di, G1.data, j, y) = At(F1.di, F1.data, j, y)
        BY <2>3, <3>7, <4>2
      <4>. QED  BY <1>6, <4>1, <4>3, <4>4
    <3>8. /\ \A j \in Inum : G.di[j].type = F.di[j].type
          /\ \A j \in Inum : j # d => G.di[j].nlink = F.di[j].nlink
          /\ G.di[d].nlink = F.di[d].nlink + 1
      BY <1>0, <1>2, <2>3, <3>3 DEF CountedUp
    <3>9. HasDots(F, G, i, d)
      BY <3>3, <3>4, <3>6, <3>7, <3>8 DEF HasDots
    <3>10. b1 = b2
      <4>1. See(G1, ip) = G1.di /\ See(G, ip) = G.di
        BY <2>1, <3>1, SeeDi DEF Holder
      <4>2. Blk(G1.di, G1.data, i, 0) # 0 /\ 0 \in Place
        <5>1. 0 \in Offs(G1.di, i) /\ Whole(G1.di, G1.data) /\ SizesOf(G1.di)
          BY <1>16, <2>1, <2>6, SizesAre DEF Holder
        <5>2. Blk(G1.di, G1.data, i, 0 \div BSIZE) # 0
          BY <1>0, <5>1, OffBlock
        <5>. QED  BY <5>2, SmallOff, Layout DEF Place
      <4>3. Keeps(G1.di, G1.data, G.di, G.data, i)
        BY <2>12, <2>16 DEF Entered1, Wrote, WroteAll
      <4>. QED  BY <1>0, <4>1, <4>2, <4>3 DEF Keeps
    <3>11. DotsLog(F, G, i, d, b1)
      BY <2>14, <3>10 DEF DotsLog
    <3>12. DotsMade(F, G, i, d)
      BY <3>1, <3>5, <3>9, <3>11 DEF DotsMade, Holder
    <3>. QED  BY <2>13, <3>12
  <2>. QED  BY <2>15, <2>16
<1>. QED  BY <1>18, <1>19

\* The blocks of a create().
SixLog(F, G, i, d) == \E a, b, c : G.log \subseteq F.log \cup {IBLOCK(i), IBLOCK(d), bmapstart, a, b, c}

\* The new inode i has its entry in d.
LinkMade(F, G, i, d, name, O) ==
    /\ Cached(G) /\ Blocks(G.di, G.data, G.used) /\ Whole(G.di, G.data)
    /\ Tree(G.di, G.data, O \ {i}) /\ \E x : Hung(F.di, F.data, G.di, G.data, i, d, name, x)

\* D is F, or F with dots in the new directory.
Prepared(F, D, i, d) ==
    \/ D = F /\ F.di[i].type # "DIR"
    \/ F.di[i].type = "DIR" /\ SameRefs(F, D) /\ DotsMade(F, D, i, d)

\* The new inode's own entry.
LEMMA NameLinked ==
    ASSUME NEW F, NEW ip, NEW dp, NEW i, NEW d, Ready(F, ip, dp, i, d), NEW O,
           Tree(F.di, F.data, O), i \in O, d \notin O, NEW name \in Name,
           NoName(F.di, F.data, d, name), NEW D, Prepared(F, D, i, d), NEW G, G = Link(D, dp, name, i)
    PROVE  /\ SameRefs(F, G) /\ G \in FsState /\ SixLog(F, G, i, d)
           /\ DiskFull(G) \/ LinkMade(F, G, i, d, name, O)
<1>0. /\ dp \in Slot /\ Cached(F) /\ i \in Inum /\ d \in Inum /\ i # d /\ F \in FsState /\ SizesOf(F.di)
      /\ F.ic[dp].lock # NoProc /\ d = F.ic[dp].inum /\ F.di[d].type = "DIR" /\ d \in DirSet(F.di) \ O
  BY SizesAre DEF Ready, Cached, CacheOK, DirSet
<1>1. /\ Cached(D) /\ Blocks(D.di, D.data, D.used) /\ Whole(D.di, D.data) /\ Leads(D.di, D.data)
      /\ SameRefs(F, D)
  BY DEF Prepared, DotsMade, Ready, SameRefs
<1>2. /\ \A j \in Inum : D.di[j].type = F.di[j].type
      /\ \A j \in Inum : j # i => D.di[j].size = F.di[j].size
      /\ \A j \in Inum : j # d => D.di[j].nlink = F.di[j].nlink
      /\ \A j \in Inum : j # i => \A y \in Offs(F.di, j) : At(D.di, D.data, j, y) = At(F.di, F.data, j, y)
  BY DEF Prepared, DotsMade, HasDots
<1>3. PICK b : D.log \subseteq F.log \cup {IBLOCK(i), IBLOCK(d), bmapstart, b}
  BY DEF Prepared, DotsMade, DotsLog
<1>4. D \in FsState /\ SizesOf(D.di) /\ D.ic[dp].lock # NoProc /\ D.ic[dp].inum = d
  BY <1>0, <1>1, SizesAre DEF Cached, SameRefs
<1>5. Holder(D, dp)
  BY <1>0, <1>1, <1>4, LockedHolder
<1>6. D.ic[dp].ino.type = "DIR"
  BY <1>0, <1>2, <1>4, <1>5 DEF Holder
<1>7. D.di[d].size = F.di[d].size /\ Offs(D.di, d) = Offs(F.di, d)
  BY <1>0, <1>2 DEF Offs
<1>8. \A y \in Offs(F.di, d) : At(D.di, D.data, d, y) = At(F.di, F.data, d, y)
  BY <1>0, <1>2
<1>9. NoName(D.di, D.data, d, name)
  BY <1>7, <1>8 DEF NoName
<1>10. Roomy(D.di, D.data, d)
  <2>1. Roomy(F.di, F.data, d)
    BY <1>0, RoomyIs
  <2>. QED  BY <1>7, <1>8, <2>1 DEF Roomy
<1>. DEFINE c == Pair(name, i)
<1>11. c \in Cell /\ c[2] = i
  BY <1>0, PairCell, PairIs
<1>12. PICK x \in 0..D.di[d].size : Entered1(D, G, dp, d, c, x)
  BY <1>1, <1>4, <1>5, <1>6, <1>9, <1>10, <1>11, LinkIs
<1>. HIDE DEF c
<1>13. SameRefs(D, G) /\ G \in FsState /\ SameRefs(F, G)
  BY <1>1, <1>12, EnteredRefs DEF SameRefs
<1>14. SixLog(F, G, i, d)
  <2>. DEFINE a1 == Blk(See(G, dp), G.data, d, x \div BSIZE)
              a2 == Blk(See(G, dp), G.data, d, MAXFILE)
  <2>1. x \in Nat
    BY <1>0, <1>4 DEF SizesOf
  <2>2. \A y \in G.log : y \in D.log \cup {bmapstart, IBLOCK(d), a1} \/ y = a2
    BY <1>11, <1>12, <2>1, LinkLog
  <2>. HIDE DEF a1, a2
  <2>3. G.log \subseteq F.log \cup {IBLOCK(i), IBLOCK(d), bmapstart, b, a1, a2}
    BY <1>3, <2>2
  <2>. QED  BY <2>3 DEF SixLog
<1>15. CASE DiskFull(G)
  BY <1>13, <1>14, <1>15
<1>16. CASE ~DiskFull(G)
  <2>1. Cached(G) /\ Holder(G, dp)
    BY <1>1, <1>4, <1>5, <1>12, <1>16, WroteCached DEF Entered1
  <2>2. PutIn(D.di, D.data, G.di, G.data, d, c, x)
    BY <1>4, <1>5, <1>11, <1>12, <1>16, EnteredPut
  <2>3. /\ \A j \in Inum : G.di[j].type = D.di[j].type /\ G.di[j].nlink = D.di[j].nlink
        /\ \A j \in Inum : j # d => G.di[j].size = D.di[j].size
        /\ \A j \in Inum : j # d => \A y \in Offs(D.di, j) : At(G.di, G.data, j, y) = At(D.di, D.data, j, y)
    BY <2>2 DEF PutIn
  <2>4. Put(F.di, F.data, G.di, G.data, d, c, x)
    <3>1. Put(D.di, D.data, G.di, G.data, d, c, x)
      BY <2>2 DEF PutIn
    <3>2. x < D.di[d].size => x \in Offs(D.di, d)
      BY <1>0, <1>4 DEF Offs, SizesOf
    <3>. QED  BY <1>7, <1>8, <3>1, <3>2 DEF Put
  <2>5. ASSUME NEW j \in Inum \ {i, d}
        PROVE  /\ G.di[j].size = F.di[j].size
               /\ \A y \in Offs(F.di, j) : At(G.di, G.data, j, y) = At(F.di, F.data, j, y)
    <3>1. D.di[j].size = F.di[j].size /\ G.di[j].size = D.di[j].size
      BY <1>2, <2>3
    <3>2. Offs(D.di, j) = Offs(F.di, j)
      BY <3>1 DEF Offs
    <3>3. \A y \in Offs(F.di, j) : At(G.di, G.data, j, y) = At(D.di, D.data, j, y)
      BY <2>3, <3>2
    <3>4. \A y \in Offs(F.di, j) : At(D.di, D.data, j, y) = At(F.di, F.data, j, y)
      BY <1>2
    <3>. QED  BY <3>1, <3>3, <3>4
  <2>6. NewDir(F.di, G.di, G.data, i, d)
    <3>1. CASE F.di[i].type # "DIR"
      <4>1. D = F
        BY <3>1 DEF Prepared
      <4>. QED  BY <1>0, <2>3, <3>1, <4>1 DEF NewDir
    <3>2. CASE F.di[i].type = "DIR"
      <4>1. HasDots(F, D, i, d)
        BY <3>2 DEF Prepared, DotsMade
      <4>2. D.di[i].size = 2 /\ D.di[d].nlink = F.di[d].nlink + 1
            /\ At(D.di, D.data, i, 0) = Pair(".", i) /\ At(D.di, D.data, i, 1) = Pair("..", d)
        BY <4>1 DEF HasDots
      <4>3. 0 \in Offs(D.di, i) /\ 1 \in Offs(D.di, i)
        BY <4>2 DEF Offs
      <4>4. G.di[i].size = 2 /\ G.di[d].nlink = F.di[d].nlink + 1
        BY <1>0, <2>3, <4>2
      <4>5. At(G.di, G.data, i, 0) = Pair(".", i) /\ At(G.di, G.data, i, 1) = Pair("..", d)
        BY <1>0, <2>3, <4>2, <4>3
      <4>. QED  BY <3>2, <4>4, <4>5 DEF NewDir
    <3>. QED  BY <3>1, <3>2
  <2>7. Hung(F.di, F.data, G.di, G.data, i, d, name, x)
    <3>1. \A j \in Inum : G.di[j].type = F.di[j].type
      BY <1>2, <2>3
    <3>2. \A j \in Inum \ {d} : G.di[j].nlink = F.di[j].nlink
      BY <1>2, <2>3
    <3>. QED  BY <2>4, <2>5, <2>6, <3>1, <3>2 DEF Hung, c
  <2>8. Tree(G.di, G.data, O \ {i})
    BY <1>0, <2>7, TreeLink
  <2>9. LinkMade(F, G, i, d, name, O)
    BY <2>1, <2>7, <2>8 DEF LinkMade, Holder
  <2>. QED  BY <1>13, <1>14, <2>9
<1>. QED  BY <1>15, <1>16

\* create() of a name that is not there, up to the two unlocks.
LEMMA CreateLinked ==
    ASSUME NEW F, NEW ip, NEW dp, NEW i, NEW d, Ready(F, ip, dp, i, d), NEW O,
           Tree(F.di, F.data, O), i \in O, d \notin O, NEW name \in Name,
           NoName(F.di, F.data, d, name), NEW D, NEW G, G = Link(D, dp, name, i),
           D = IF F.di[i].type = "DIR" THEN Dots(F, ip, dp) ELSE F
    PROVE  /\ SameRefs(F, G) /\ G \in FsState /\ SixLog(F, G, i, d)
           /\ DiskFull(G) \/ LinkMade(F, G, i, d, name, O)
<1>1. CASE F.di[i].type # "DIR"
  <2>1. Prepared(F, D, i, d)
    BY <1>1 DEF Prepared
  <2>. QED  BY <2>1, NameLinked
<1>2. CASE F.di[i].type = "DIR"
  <2>1. F.di[i].size = 0
    BY DEF Tree, Unlinked
  <2>2. SameRefs(F, D) /\ D \in FsState /\ (DotsFull(F, D, i, d) \/ DotsMade(F, D, i, d))
    BY <1>2, <2>1, DotsIs
  <2>3. CASE DotsMade(F, D, i, d)
    <3>1. Prepared(F, D, i, d)
      BY <1>2, <2>2, <2>3 DEF Prepared
    <3>. QED  BY <3>1, NameLinked
  <2>4. CASE DotsFull(F, D, i, d)
    <3>1. G = D
      <4>1. ~Ok(D)
        BY <2>4 DEF DotsFull, DiskFull, Ok
      <4>. QED  BY <4>1, Stopped
    <3>2. SixLog(F, D, i, d)
      <4>1. PICK b, c : D.log \subseteq F.log \cup {IBLOCK(i), IBLOCK(d), bmapstart, b, c}
        BY <2>4 DEF DotsFull
      <4>2. D.log \subseteq F.log \cup {IBLOCK(i), IBLOCK(d), bmapstart, b, c, c}
        BY <4>1
      <4>. QED  BY <4>2 DEF SixLog
    <3>. QED  BY <2>2, <2>4, <3>1, <3>2 DEF DotsFull
  <2>. QED  BY <2>2, <2>3, <2>4
<1>. QED  BY <1>1, <1>2

\* A write to a file leaves the directories alone.
LEMMA WriteTree ==
    ASSUME NEW F, NEW s, Holder(F, s), NEW i, i = F.ic[s].inum, NEW O, i \notin O,
           Tree(F.di, F.data, O), F.di[i].type # "DIR", NEW off, NEW cells, NEW G,
           Wrote(F, G, s, i, off, cells), ~DiskFull(G)
    PROVE  SameTree(F.di, F.data, G.di, G.data) /\ Tree(G.di, G.data, O)
<1>1. F \in FsState /\ Whole(F.di, F.data) /\ i \in Inum /\ SizesOf(F.di)
  BY SizesAre DEF Holder
<1>2. Beyond(F.di, F.data, G.di, G.data, i, off..(off + Len(cells) - 1))
  BY DEF Wrote, WroteAll
<1>3. \A j \in Inum : KeptIno(F.di[j], G.di[j]) /\ (j # i => G.di[j] = F.di[j])
  BY DEF Wrote
<1>4. i \notin DirSet(F.di) /\ DirSet(F.di) \subseteq Inum
  BY DEF DirSet
<1>5. ASSUME NEW d \in DirSet(F.di), NEW x \in Offs(F.di, d)
      PROVE  At(G.di, G.data, d, x) = At(F.di, F.data, d, x)
  <2>1. d \in Inum /\ d # i
    BY <1>4
  <2>2. x \in Nat /\ x \div BSIZE < MAXFILE /\ Blk(F.di, F.data, d, x \div BSIZE) # 0
    BY <1>1, <2>1, OffBlock
  <2>. QED  BY <1>2, <2>1, <2>2 DEF Beyond
<1>6. SameTree(F.di, F.data, G.di, G.data)
  <2>1. \A j \in Inum : G.di[j].type = F.di[j].type
    BY <1>3 DEF KeptIno
  <2>2. \A d \in DirSet(F.di) : G.di[d].size = F.di[d].size
    BY <1>3, <1>4
  <2>. QED  BY <1>5, <2>1, <2>2 DEF SameTree
<1>7. O \subseteq Inum
  BY DEF Tree, Unlinked
<1>8. \A j \in Inum : G.di[j].nlink = F.di[j].nlink
  BY <1>3 DEF KeptIno
<1>9. \A j \in O : G.di[j].size = F.di[j].size
  BY <1>3, <1>7
<1>. QED  BY <1>6, <1>8, <1>9, TreeSame

\* The blocks that k * BSIZE cells lie in.
LEMMA BlocksOf ==
    ASSUME NEW off \in Nat, NEW k \in Nat, NEW n \in Nat, n <= k * BSIZE,
           NEW o \in off..(off + n - 1)
    PROVE  o \div BSIZE \in (off \div BSIZE)..((off \div BSIZE) + k)
<1>. DEFINE q == off \div BSIZE
            u == o \div BSIZE
<1>1. q \in Nat /\ q * BSIZE <= off /\ off < (q + 1) * BSIZE /\ u \in Nat /\ o \in Nat
  BY CellOf
<1>. HIDE DEF q, u
<1>2. ~(u < q)
  <2>1. q * BSIZE \in Nat /\ ~(o < q * BSIZE)
    <3>1. q * BSIZE \in Nat
      BY <1>1, FirstCell
    <3>. DEFINE m == q * BSIZE
    <3>2. m \in Nat /\ m <= off
      BY <1>1, <3>1
    <3>. HIDE DEF m
    <3>3. ~(o < m)
      BY <3>2
    <3>. QED  BY <3>1, <3>3 DEF m
  <2>. QED  BY <1>1, <2>1, CellBelow DEF u
<1>3. u < q + 1 + k
  <2>1. (q + 1 + k) * BSIZE = (q + 1) * BSIZE + k * BSIZE
    BY <1>1, Layout
  <2>. DEFINE a == (q + 1) * BSIZE
              b == k * BSIZE
              c == (q + 1 + k) * BSIZE
  <2>2. a \in Nat /\ b \in Nat /\ c = a + b /\ off < a /\ n <= b
    BY <1>1, <2>1, FirstCell
  <2>. HIDE DEF a, b, c
  <2>3. o < c
    BY <2>2
  <2>4. o < (q + 1 + k) * BSIZE /\ q + 1 + k \in Nat
    BY <1>1, <2>3 DEF c
  <2>. QED  BY <1>1, <2>4, CellBelow DEF u
<1>4. u \in q..(q + k)
  BY <1>1, <1>2, <1>3
<1>. QED  BY <1>4 DEF u, q

\* The set S has at most n elements.
AtMost(S, n) == IsFiniteSet(S) /\ Cardinality(S) \in Nat /\ Cardinality(S) <= n

\* The values of a function on k + 1 numbers.
LEMMA ImageSize ==
    ASSUME NEW q \in Nat, NEW k \in Nat, NEW f, f = [m \in q..(q + k) |-> f[m]],
           NEW T, T = {f[m] : m \in q..(q + k)}
    PROVE  AtMost(T, k + 1)
<1>. DEFINE S == q..(q + k)
<1>1. IsFiniteSet(S) /\ Cardinality(S) = k + 1
  <2>1. q \in Int /\ q + k \in Int /\ ~(q > q + k) /\ (q + k) - q + 1 = k + 1
    OBVIOUS
  <2>2. IsFiniteSet(S) /\ Cardinality(S) = IF q > q + k THEN 0 ELSE (q + k) - q + 1
    BY <2>1, FS_Interval, Zenon
  <2>. QED  BY <2>1, <2>2, Zenon
<1>a. T = {f[m] : m \in S}
  OBVIOUS
<1>. HIDE DEF S
<1>2. f \in Surjection(S, T)
  <2>1. f = [m \in S |-> f[m]]
    BY Zenon DEF S
  <2>2. f \in [S -> T]
    BY <2>1, <1>a
  <2>3. \A t \in T : \E m \in S : f[m] = t
    BY <1>a
  <2>. QED  BY <2>2, <2>3 DEF Surjection
<1>3. IsFiniteSet(T) /\ Cardinality(T) <= Cardinality(S)
  BY <1>1, <1>2, FS_Surjection
<1>4. Cardinality(T) \in Nat
  BY <1>3, FS_CardinalityType
<1>5. IsFiniteSet(T) /\ Cardinality(T) <= k + 1 /\ Cardinality(T) \in Nat
  BY <1>1, <1>3, <1>4
<1>. QED  BY <1>5 DEF AtMost

\* One more element.
LEMMA OneMore ==
    ASSUME NEW S, NEW x, NEW n \in Nat, AtMost(S, n), NEW m \in Nat, m = n + 1
    PROVE  AtMost(S \cup {x}, m)
<1>. DEFINE T == S \cup {x}
<1>1. IsFiniteSet(S) /\ Cardinality(S) \in Nat /\ Cardinality(S) <= n
  BY DEF AtMost
<1>2. IsFiniteSet(T) /\ (Cardinality(T) = Cardinality(S) \/ Cardinality(T) = Cardinality(S) + 1)
  BY <1>1, FS_AddElement, Zenon
<1>. HIDE DEF T
<1>3. IsFiniteSet(T) /\ Cardinality(T) \in Nat /\ Cardinality(T) <= m
  BY <1>1, <1>2
<1>4. AtMost(T, m)
  BY <1>3, Zenon DEF AtMost
<1>. QED  BY <1>4 DEF T

\* A part of a small set.
LEMMA PartAtMost ==
    ASSUME NEW S, NEW T, NEW n \in Nat, S \subseteq T, AtMost(T, n)
    PROVE  AtMost(S, n)
<1>1. IsFiniteSet(T) /\ Cardinality(T) \in Nat /\ Cardinality(T) <= n
  BY DEF AtMost
<1>2. IsFiniteSet(S) /\ Cardinality(S) <= Cardinality(T)
  BY <1>1, FS_Subset, Zenon
<1>3. Cardinality(S) \in Nat
  BY <1>2, FS_CardinalityType, Zenon
<1>4. Cardinality(S) <= n
  BY <1>1, <1>2, <1>3
<1>. QED  BY <1>2, <1>3, <1>4, Zenon DEF AtMost

\* A part of six.
LEMMA SixAtMost ==
    ASSUME NEW S, NEW a, NEW b, NEW c, NEW d, NEW e, NEW f, S \subseteq {a, b, c, d, e, f}
    PROVE  AtMost(S, 6)
<1>. DEFINE T0 == {}
            T1 == T0 \cup {a}
            T2 == T1 \cup {b}
            T3 == T2 \cup {c}
            T4 == T3 \cup {d}
            T5 == T4 \cup {e}
            T6 == T5 \cup {f}
<1>b. /\ {0, 1, 2, 3, 4, 5, 6} \subseteq Nat /\ 1 = 0 + 1 /\ 2 = 1 + 1 /\ 3 = 2 + 1
      /\ 4 = 3 + 1 /\ 5 = 4 + 1 /\ 6 = 5 + 1
  OBVIOUS
<1>0. AtMost(T0, 0)
  <2>1. IsFiniteSet(T0) /\ Cardinality(T0) = 0
    BY FS_EmptySet, Zenon
  <2>2. \A n : n = 0 => n \in Nat /\ n <= 0
    OBVIOUS
  <2>. QED  BY <2>1, <2>2, Zenon DEF AtMost
<1>a. S \subseteq T6
  OBVIOUS
<1>. HIDE DEF T0
<1>1. AtMost(T1, 1)
  BY <1>b, <1>0, OneMore, Zenon
<1>. HIDE DEF T1
<1>2. AtMost(T2, 2)
  BY <1>b, <1>1, OneMore, Zenon
<1>. HIDE DEF T2
<1>3. AtMost(T3, 3)
  BY <1>b, <1>2, OneMore, Zenon
<1>. HIDE DEF T3
<1>4. AtMost(T4, 4)
  BY <1>b, <1>3, OneMore, Zenon
<1>. HIDE DEF T4
<1>5. AtMost(T5, 5)
  BY <1>b, <1>4, OneMore, Zenon
<1>. HIDE DEF T5
<1>6. AtMost(T6, 6)
  BY <1>b, <1>5, OneMore, Zenon
<1>. HIDE DEF T6
<1>. QED  BY <1>a, <1>b, <1>6, PartAtMost, Zenon

\* A chunk of k blocks of data logs at most k + 4 blocks.
LEMMA WriteLog ==
    ASSUME NEW F, NEW G, NEW s, NEW i, NEW off \in Nat, NEW cells \in Seq(Cell), NEW k \in Nat,
           Len(cells) <= k * BSIZE, F.log = {}, Wrote(F, G, s, i, off, cells)
    PROVE  AtMost(G.log, k + 4)
<1>. DEFINE q == off \div BSIZE
            f == [m \in q..(q + k) |-> Blk(See(G, s), G.data, i, m)]
            T == {f[m] : m \in q..(q + k)}
            a == Blk(See(G, s), G.data, i, MAXFILE)
<1>1. q \in Nat /\ Len(cells) \in Nat
  BY CellOf
<1>. HIDE DEF q
<1>2. ASSUME NEW x \in G.log PROVE x \in T \cup {bmapstart} \cup {IBLOCK(i)} \cup {a}
  <2>1. WLog(G, s, i, off..(off + Len(cells) - 1), x)
    BY DEF Wrote
  <2>2. CASE \E o \in off..(off + Len(cells) - 1) : x = Blk(See(G, s), G.data, i, o \div BSIZE)
    <3>1. PICK o \in off..(off + Len(cells) - 1) : x = Blk(See(G, s), G.data, i, o \div BSIZE)
      BY <2>2
    <3>2. o \div BSIZE \in q..(q + k)
      BY <1>1, BlocksOf DEF q
    <3>3. x = f[o \div BSIZE]
      BY <3>1, <3>2
    <3>. QED  BY <3>2, <3>3
  <2>. QED  BY <2>1, <2>2 DEF WLog
<1>3. f = [m \in q..(q + k) |-> f[m]]
  OBVIOUS
<1>. HIDE DEF f, a
<1>c. T = {f[m] : m \in q..(q + k)}
  OBVIOUS
<1>. HIDE DEF T
<1>4. AtMost(T, k + 1)
  BY <1>1, <1>3, <1>c, ImageSize
<1>. DEFINE T1 == T \cup {bmapstart}
            T2 == T1 \cup {IBLOCK(i)}
            T3 == T2 \cup {a}
<1>b. k + 1 \in Nat /\ k + 2 \in Nat /\ k + 3 \in Nat /\ k + 4 \in Nat /\ k + 2 = (k + 1) + 1
      /\ k + 3 = (k + 2) + 1 /\ k + 4 = (k + 3) + 1
  OBVIOUS
<1>8. G.log \subseteq T3
  BY <1>2
<1>5. AtMost(T1, k + 2)
  BY <1>b, <1>4, OneMore
<1>. HIDE DEF T1
<1>6. AtMost(T2, k + 3)
  BY <1>b, <1>5, OneMore
<1>. HIDE DEF T2
<1>7. AtMost(T3, k + 4)
  BY <1>b, <1>6, OneMore
<1>. HIDE DEF T3
<1>. QED  BY <1>b, <1>7, <1>8, PartAtMost

-----------------------------------------------------------------------------
(* mkfs *)

\* An image, and the block that iappend() came to.
Im == [di : Inodes, data : Datas, freeblock : nmeta..FSSIZE, freeinode : Nat, ok : BOOLEAN]
ImIs(N, di, data, free, inum) ==
    N \in Im /\ N.di = di /\ N.data = data /\ N.freeblock = free /\ N.freeinode = inum /\ N.ok

\* A sound image: the blocks below freeblock have one owner each, the others
\* are all zero.
Img(M) ==
    /\ M \in Im /\ M.ok /\ Blocks(M.di, M.data, 0..(M.freeblock - 1))
    /\ \A b \in Data : b >= M.freeblock => M.data[b] = ZeroBlock

\* The types of an image.
LEMMA ImTypes ==
    ASSUME NEW M \in Im
    PROVE  /\ M.di \in Inodes /\ M.data \in Datas /\ M.freeblock \in Nat /\ M.freeblock >= nmeta
           /\ M.freeblock <= FSSIZE /\ M.freeinode \in Nat /\ M.ok \in BOOLEAN
BY Layout DEF Im

\* mkfs gave up.
LEMMA GiveUpIs ==
    ASSUME NEW M \in Im, NEW r, r = GiveUp(M)
    PROVE  r.im \in Im /\ ~r.im.ok
<1>1. r.im = [M EXCEPT !.ok = FALSE]
  BY DEF GiveUp
<1>. QED  BY <1>1 DEF Im

\* The next block.
LEMMA TakeBlockIs ==
    ASSUME NEW M, Img(M), NEW r, r = TakeBlock(M)
    PROVE  \/ r.im \in Im /\ ~r.im.ok
           \/ /\ ImIs(r.im, M.di, M.data, M.freeblock + 1, M.freeinode) /\ r.b = M.freeblock
              /\ r.b \in (0..(FSSIZE - 1)) \ (0..(M.freeblock - 1)) /\ r.b \in Data
              /\ M.data[r.b] = ZeroBlock /\ WithBlock(M.data, r.b) = M.data
              /\ 0..((M.freeblock + 1) - 1) = (0..(M.freeblock - 1)) \cup {r.b}
              /\ r = [im |-> r.im, b |-> r.b]
<1>0. M \in Im /\ M.ok
  BY DEF Img
<1>1. CASE M.freeblock >= FSSIZE
  BY <1>0, <1>1, GiveUpIs DEF TakeBlock
<1>2. CASE ~(M.freeblock >= FSSIZE)
  <2>1. r = [im |-> [M EXCEPT !.freeblock = @ + 1], b |-> M.freeblock]
    BY <1>2 DEF TakeBlock
  <2>2. /\ M.di \in Inodes /\ M.data \in Datas /\ M.freeblock \in Nat /\ M.freeblock >= nmeta
        /\ M.freeblock < FSSIZE /\ nmeta \in Nat /\ FSSIZE \in Nat
    BY <1>0, <1>2, ImTypes, Layout
  <2>3. M.freeblock + 1 \in nmeta..FSSIZE
    BY <2>2
  <2>4. ImIs(r.im, M.di, M.data, M.freeblock + 1, M.freeinode) /\ r.b = M.freeblock
    BY <1>0, <2>1, <2>3 DEF ImIs, Im
  <2>5. r.b \in (0..(FSSIZE - 1)) \ (0..(M.freeblock - 1)) /\ r.b \in Data
    BY <2>2, <2>4 DEF Data
  <2>6. M.data[r.b] = ZeroBlock
    BY <2>2, <2>4, <2>5 DEF Img
  <2>7. WithBlock(M.data, r.b) = M.data
    BY <2>2, <2>6 DEF WithBlock, Datas
  <2>8. 0..((M.freeblock + 1) - 1) = (0..(M.freeblock - 1)) \cup {r.b}
    BY <2>2, <2>4
  <2>. QED  BY <2>1, <2>4, <2>5, <2>6, <2>7, <2>8
<1>. QED  BY <1>1, <1>2

\* The blocks of inode i are the same but for a new one at place n.
OnlyAt(I, D, J, E, i, n) ==
    \A j \in Inum, m \in Place :
        ~(j = i /\ m = n /\ Blk(I, D, j, m) = 0) => Blk(J, E, j, m) = Blk(I, D, j, m)

\* Only the addresses of inode i differ.
SameBut(I, J, i) ==
    /\ \A j \in Inum : j # i => J[j] = I[j]
    /\ KeptIno(I[i], J[i]) /\ J[i].size = I[i].size

\* From M to r.im inode i got a block at place n, if it had none: r.b.
Gets(M, r, i, n) ==
    /\ Img(r.im) /\ r.im.freeinode = M.freeinode /\ SameBut(M.di, r.im.di, i)
    /\ OnlyAt(M.di, M.data, r.im.di, r.im.data, i, n) /\ Holds(M.di, M.data, r.im.data)
    /\ r.b \in Data /\ r.b = Blk(r.im.di, r.im.data, i, n)
    /\ Blk(M.di, M.data, i, n) = 0 => r.im.data[r.b] = ZeroBlock

\* Nothing is taken.
LEMMA GetsNot ==
    ASSUME NEW M, Img(M), NEW i \in Inum, NEW n \in Place, NEW r, r.im = M,
           r.b = Blk(M.di, M.data, i, n), r.b # 0
    PROVE  Gets(M, r, i, n)
<1>1. SameBut(M.di, M.di, i)
  BY DEF SameBut, KeptIno
<1>2. r.b \in Data
  BY DEF Img, Blocks, Placed
<1>. QED  BY <1>1, <1>2 DEF Gets, OnlyAt, Holds

\* A block of zeros is taken as it is.
LEMMA TakeZero ==
    ASSUME NEW I \in Inodes, NEW D \in Datas, NEW U, Blocks(I, D, U),
           NEW i \in Inum, NEW k \in 0..NDIRECT, I[i].addrs[k] = 0,
           NEW b, b \in 0..(FSSIZE - 1), b \notin U, WithBlock(D, b) = D, NEW J, J = WithAddr(I, i, k, b)
    PROVE  /\ Blk(I, D, i, PlaceOf(k)) = 0 /\ J \in Inodes
           /\ Adds(I, D, J, D, i, PlaceOf(k), b) /\ Blocks(J, D, U \cup {b})
<1>1. /\ Blk(I, D, i, PlaceOf(k)) = 0 /\ WithAddr(I, i, k, b) \in Inodes
      /\ Adds(I, D, WithAddr(I, i, k, b), WithBlock(D, b), i, PlaceOf(k), b)
      /\ Blocks(WithAddr(I, i, k, b), WithBlock(D, b), U \cup {b})
  BY TakeDirect
<1>. QED  BY <1>1

\* A direct block, or the indirect block.
LEMMA MkDirectIs ==
    ASSUME NEW M, Img(M), NEW i \in Inum, NEW k \in 0..NDIRECT, NEW r, r = MkDirect(M, i, k)
    PROVE  \/ r.im \in Im /\ ~r.im.ok
           \/ Gets(M, r, i, PlaceOf(k))
<1>0. M \in Im /\ M.ok /\ M.di \in Inodes /\ M.data \in Datas /\ Blocks(M.di, M.data, 0..(M.freeblock - 1))
  BY ImTypes DEF Img
<1>1. PlaceOf(k) \in Place /\ Blk(M.di, M.data, i, PlaceOf(k)) = M.di[i].addrs[k]
  <2>1. CASE k = NDIRECT
    BY <2>1, BlkIndirect, Places DEF PlaceOf
  <2>2. CASE k # NDIRECT
    <3>1. k \in 0..(NDIRECT - 1)
      BY <2>2, Layout
    <3>. QED  BY <2>2, <3>1, BlkDirect, Places DEF PlaceOf
  <2>. QED  BY <2>1, <2>2
<1>2. CASE M.di[i].addrs[k] # 0
  <2>1. r = [im |-> M, b |-> M.di[i].addrs[k]]
    BY <1>2 DEF MkDirect
  <2>2. Gets(M, r, i, PlaceOf(k))
    BY <1>1, <1>2, <2>1, GetsNot
  <2>. QED  BY <2>2
<1>3. CASE M.di[i].addrs[k] = 0
  <2>. PICK t : t = TakeBlock(M)
    OBVIOUS
  <2>1. r = SetDirect(t, i, k)
    BY <1>3 DEF MkDirect
  <2>2. CASE t.im \in Im /\ ~t.im.ok
    BY <2>1, <2>2 DEF SetDirect
  <2>3. CASE ~(t.im \in Im /\ ~t.im.ok)
    <3>1. /\ ImIs(t.im, M.di, M.data, M.freeblock + 1, M.freeinode) /\ t.b = M.freeblock
          /\ t.b \in (0..(FSSIZE - 1)) \ (0..(M.freeblock - 1)) /\ t.b \in Data
          /\ M.data[t.b] = ZeroBlock /\ WithBlock(M.data, t.b) = M.data
          /\ 0..((M.freeblock + 1) - 1) = (0..(M.freeblock - 1)) \cup {t.b}
          /\ t = [im |-> t.im, b |-> t.b]
      BY <2>3, TakeBlockIs
    <3>2. t.im \in Im /\ t.im.di = M.di /\ t.im.ok
      BY <3>1 DEF ImIs
    <3>. PICK J : J = WithAddr(M.di, i, k, t.b)
      OBVIOUS
    <3>3. /\ Blk(M.di, M.data, i, PlaceOf(k)) = 0 /\ J \in Inodes
          /\ Adds(M.di, M.data, J, M.data, i, PlaceOf(k), t.b)
          /\ Blocks(J, M.data, (0..(M.freeblock - 1)) \cup {t.b})
      <4>1. /\ M.di \in Inodes /\ M.data \in Datas /\ Blocks(M.di, M.data, 0..(M.freeblock - 1))
            /\ M.di[i].addrs[k] = 0 /\ t.b \in 0..(FSSIZE - 1) /\ t.b \notin 0..(M.freeblock - 1)
            /\ WithBlock(M.data, t.b) = M.data
        BY <1>0, <1>3, <3>1
      <4>. QED  BY <4>1, TakeZero, ZenonT(30)
    <3>4. r.im = [t.im EXCEPT !.di = J] /\ r.b = t.b
      <4>1. r = [t EXCEPT !.im.di[i].addrs[k] = t.b]
        BY <2>1, <3>2 DEF SetDirect
      <4>2. r.b = t.b /\ r.im = [t.im EXCEPT !.di[i].addrs[k] = t.b]
        BY <3>1, <4>1
      <4>. QED  BY <3>2, <4>2 DEF WithAddr
    <3>5. ImIs(r.im, J, M.data, M.freeblock + 1, M.freeinode)
      BY <3>1, <3>3, <3>4 DEF ImIs, Im
    <3>6. Img(r.im)
      <4>1. Blocks(J, M.data, 0..((M.freeblock + 1) - 1))
        BY <3>1, <3>3
      <4>2. \A b \in Data : b >= M.freeblock + 1 => M.data[b] = ZeroBlock
        <5>1. M.freeblock \in Nat /\ \A b \in Data : b \in Nat
          BY <1>0, ImTypes, Layout DEF Data
        <5>2. \A b \in Data : b >= M.freeblock => M.data[b] = ZeroBlock
          BY DEF Img
        <5>3. \A b \in Data : b >= M.freeblock + 1 => b >= M.freeblock
          BY <5>1
        <5>. QED  BY <5>2, <5>3
      <4>. QED  BY <3>5, <4>1, <4>2 DEF Img, ImIs
    <3>7. SameBut(M.di, J, i)
      <4>1. M.di[i] \in Dinode
        BY <1>0 DEF Inodes
      <4>2. J[i] = [M.di[i] EXCEPT !.addrs[k] = t.b] /\ \A j \in Inum : j # i => J[j] = M.di[j]
        BY <1>0 DEF WithAddr, Inodes
      <4>. QED  BY <4>1, <4>2 DEF SameBut, KeptIno, Dinode
    <3>8. Gets(M, r, i, PlaceOf(k))
      <4>1. /\ r.im.di = J /\ r.im.data = M.data /\ r.im.freeinode = M.freeinode
        BY <3>5 DEF ImIs
      <4>2. OnlyAt(M.di, M.data, J, M.data, i, PlaceOf(k)) /\ Blk(J, M.data, i, PlaceOf(k)) = t.b
        BY <1>1, <3>3 DEF OnlyAt, Adds
      <4>3. Holds(M.di, M.data, M.data)
        BY DEF Holds
      <4>. QED  BY <3>1, <3>4, <3>6, <3>7, <4>1, <4>2, <4>3 DEF Gets
    <3>. QED  BY <3>8
  <2>. QED  BY <2>2, <2>3
<1>. QED  BY <1>2, <1>3

\* A result of mkfs.
Result(M, b) == [im |-> M, b |-> b]

\* It is an image and a block.
LEMMA ResultIs ==
    ASSUME NEW M, NEW b
    PROVE  Result(M, b).im = M /\ Result(M, b).b = b
BY DEF Result

\* A free block of zeros becomes block k of the indirect block of inode i.
LEMMA TakeZeroFar ==
    ASSUME NEW I \in Inodes, NEW D \in Datas, NEW U, Blocks(I, D, U),
           NEW i \in Inum, NEW k \in 0..(BSIZE - 1), NEW b, b \in Data, b \in 0..(FSSIZE - 1),
           b \notin U, NEW a, a = I[i].addrs[NDIRECT], a # 0, Blk(I, D, i, NDIRECT + k) = 0,
           D[b] = ZeroBlock, NEW E, E = WithCell(D, a, k, Ptr(b))
    PROVE  FarTaken(I, D, U, i, k, b, a, E)
<1>1. E = WithCell(WithBlock(D, b), a, k, Ptr(b))
  <2>1. WithBlock(D, b) = D
    BY DEF WithBlock, Datas
  <2>. QED  BY <2>1, Zenon
<1>. QED  BY <1>1, TakeFar

\* A file block is no indirect block.
LEMMA NotIndirect ==
    ASSUME NEW I, NEW D, OneOwner(I, D), NEW i \in Inum, NEW a, a = I[i].addrs[NDIRECT], a # 0
    PROVE  \A j \in Inum, m \in 0..(MAXFILE - 1) : Blk(I, D, j, m) # a
<1>. SUFFICES ASSUME NEW j \in Inum, NEW m \in 0..(MAXFILE - 1), Blk(I, D, j, m) = a PROVE FALSE
  OBVIOUS
<1>1. Blk(I, D, i, MAXFILE) = a /\ m \in Place /\ MAXFILE \in Place /\ m # MAXFILE
  BY BlkIndirect, Layout DEF Place
<1>. QED  BY <1>1 DEF OneOwner

\* mkfs asks for a block of the indirect block a of inode i of the image M.
MkAsked(q, r, M, i, k, a) ==
    /\ q.im = M /\ q.b = a /\ Img(M)
    /\ a = M.di[i].addrs[NDIRECT] /\ a # 0
    /\ r = MkIndirect(q, k)

\* A block of the indirect block of an image.
LEMMA MkIndirectAt ==
    ASSUME NEW q, NEW r, NEW M, NEW i \in Inum, NEW k \in 0..(BSIZE - 1), NEW a, MkAsked(q, r, M, i, k, a)
    PROVE  \/ r.im \in Im /\ ~r.im.ok
           \/ Gets(M, r, i, NDIRECT + k)
<1>h. q.im = M /\ q.b = a /\ r = MkIndirect(q, k)
  BY DEF MkAsked
<1>a. a = M.di[i].addrs[NDIRECT] /\ a # 0
  BY DEF MkAsked
<1>m. Img(M)
  BY DEF MkAsked
<1>0. M \in Im /\ M.ok /\ M.di \in Inodes /\ M.data \in Datas /\ Blocks(M.di, M.data, 0..(M.freeblock - 1))
      /\ Img(M) /\ M.freeblock \in Nat
  BY <1>m, ImTypes DEF Img
<1>1. NDIRECT + k \in Place /\ Blk(M.di, M.data, i, NDIRECT + k) = M.data[a][k][2]
  BY <1>a, BlkFar, Places
<1>2. a \in Data
  <2>1. Blk(M.di, M.data, i, MAXFILE) = a /\ MAXFILE \in Place
    BY <1>a, BlkIndirect, Places
  <2>. QED  BY <1>0, <1>a, <2>1 DEF Blocks, Placed
<1>3. M.data[a][k] = Zero <=> M.data[a][k][2] = 0
  <2>1. M.data[a][k][1] = ""
    BY <1>0, <1>a DEF Blocks, Numbers
  <2>. QED  BY <1>0, <1>2, <2>1, NumberIs
<1>4. CASE M.data[a][k] # Zero
  <2>1. r = Result(M, M.data[a][k][2])
    BY <1>h, <1>0, <1>4 DEF MkIndirect, Result
  <2>2. r.im = M /\ r.b = M.data[a][k][2]
    BY <2>1, ResultIs
  <2>4. Gets(M, r, i, NDIRECT + k)
    BY <1>0, <1>1, <1>3, <1>4, <2>2, GetsNot
  <2>. QED  BY <2>4
<1>5. CASE M.data[a][k] = Zero
  <2>t. PICK t : t = TakeBlock(M)
    OBVIOUS
  <2>1. r = SetIndirect(t, a, k)
    BY <1>h, <1>0, <1>5, <2>t DEF MkIndirect
  <2>2. CASE t.im \in Im /\ ~t.im.ok
    BY <2>1, <2>2 DEF SetIndirect
  <2>3. CASE ~(t.im \in Im /\ ~t.im.ok)
    <3>1. /\ ImIs(t.im, M.di, M.data, M.freeblock + 1, M.freeinode) /\ t.b = M.freeblock
          /\ t.b \in (0..(FSSIZE - 1)) \ (0..(M.freeblock - 1)) /\ t.b \in Data
          /\ M.data[t.b] = ZeroBlock /\ WithBlock(M.data, t.b) = M.data
          /\ 0..((M.freeblock + 1) - 1) = (0..(M.freeblock - 1)) \cup {t.b}
          /\ t = [im |-> t.im, b |-> t.b]
      BY <1>0, <2>t, <2>3, TakeBlockIs
    <3>2. t.im \in Im /\ t.im.data = M.data /\ t.im.ok
      BY <3>1 DEF ImIs
    <3>e. PICK E : E = WithCell(M.data, a, k, Ptr(t.b))
      OBVIOUS
    <3>3. /\ E \in Datas /\ a # t.b
          /\ Adds(M.di, M.data, M.di, E, i, NDIRECT + k, t.b)
          /\ Blocks(M.di, E, (0..(M.freeblock - 1)) \cup {t.b})
          /\ \A x \in Data \ {a, t.b} : E[x] = M.data[x]
      <4>1. /\ M.di \in Inodes /\ M.data \in Datas /\ Blocks(M.di, M.data, 0..(M.freeblock - 1))
            /\ t.b \in Data /\ t.b \in 0..(FSSIZE - 1) /\ t.b \notin 0..(M.freeblock - 1)
            /\ a = M.di[i].addrs[NDIRECT] /\ Blk(M.di, M.data, i, NDIRECT + k) = 0
            /\ M.data[t.b] = ZeroBlock
        BY <1>0, <1>a, <1>1, <1>3, <1>5, <3>1
      <4>2. FarTaken(M.di, M.data, 0..(M.freeblock - 1), i, k, t.b, a, E)
        BY <1>a, <3>e, <4>1, TakeZeroFar
      <4>. QED  BY <4>2 DEF FarTaken
    <3>4. r.im = [t.im EXCEPT !.data = E] /\ r.b = t.b
      <4>1. r = [t EXCEPT !.im.data[a][k] = <<"", t.b>>]
        BY <2>1, <3>2 DEF SetIndirect
      <4>2. r.b = t.b /\ r.im = [t.im EXCEPT !.data[a][k] = <<"", t.b>>]
        BY <3>1, <4>1
      <4>. QED  BY <3>e, <3>2, <4>2 DEF WithCell, Ptr
    <3>5. ImIs(r.im, M.di, E, M.freeblock + 1, M.freeinode)
      BY <3>1, <3>3, <3>4 DEF ImIs, Im
    <3>6. E[t.b] = ZeroBlock
      <4>1. Ptr(t.b) \in Cell
        BY <3>1, PtrIs
      <4>2. \A x \in Data \ {a} : E[x] = M.data[x]
        BY <1>0, <1>2, <3>e, <4>1, WithCellIs
      <4>. QED  BY <3>1, <3>3, <4>2
    <3>7. Img(r.im)
      <4>1. Blocks(M.di, E, 0..((M.freeblock + 1) - 1))
        BY <3>1, <3>3
      <4>2. ASSUME NEW b \in Data, b >= M.freeblock + 1 PROVE E[b] = ZeroBlock
        <5>1. M.freeblock \in Nat /\ b \in Nat
          <6>1. M.freeblock \in Nat
            BY <1>0
          <6>2. b \in Nat
            BY Layout DEF Data
          <6>. QED  BY <6>1, <6>2
        <5>2. b >= M.freeblock /\ b # t.b
          BY <3>1, <4>2, <5>1
        <5>3. M.data[b] = ZeroBlock
          BY <1>0, <5>2 DEF Img
        <5>4. a \in 0..(M.freeblock - 1)
          <6>1. Blk(M.di, M.data, i, MAXFILE) = a /\ MAXFILE \in Place
            BY <1>a, BlkIndirect, Places
          <6>2. a \in 0..(FSSIZE - 1)
            BY <1>2, Layout DEF Data
          <6>. QED  BY <1>0, <1>a, <6>1, <6>2 DEF Blocks, Marked
        <5>5. b # a
          BY <5>1, <5>2, <5>4
        <5>. QED  BY <3>3, <5>2, <5>3, <5>5
      <4>. QED  BY <3>5, <4>1, <4>2 DEF Img, ImIs
    <3>8. Gets(M, r, i, NDIRECT + k)
      <4>1. /\ r.im.di = M.di /\ r.im.data = E /\ r.im.freeinode = M.freeinode
        BY <3>5 DEF ImIs
      <4>2. OnlyAt(M.di, M.data, M.di, E, i, NDIRECT + k) /\ Blk(M.di, E, i, NDIRECT + k) = t.b
        BY <1>1, <1>3, <1>5, <3>3 DEF OnlyAt, Adds
      <4>3. Holds(M.di, M.data, E)
        <5>1. ASSUME NEW j \in Inum, NEW m \in 0..(MAXFILE - 1), Blk(M.di, M.data, j, m) # 0
              PROVE  E[Blk(M.di, M.data, j, m)] = M.data[Blk(M.di, M.data, j, m)]
          <6>x. PICK x : x = Blk(M.di, M.data, j, m)
            OBVIOUS
          <6>1. m \in Place /\ x \in Data
            BY <1>0, <5>1, <6>x, Layout DEF Place, Blocks, Placed
          <6>2. x # a
            BY <1>0, <1>a, <6>x, NotIndirect DEF Blocks
          <6>3. x # t.b
            <7>1. t.b \in 0..(FSSIZE - 1) /\ t.b \notin 0..(M.freeblock - 1)
              BY <3>1
            <7>. QED  BY <1>0, <5>1, <6>x, <6>1, <7>1 DEF Blocks, Marked
          <6>. QED  BY <3>3, <6>x, <6>1, <6>2, <6>3
        <5>. QED  BY <5>1 DEF Holds
      <4>4. SameBut(M.di, M.di, i)
        BY DEF SameBut, KeptIno
      <4>. QED  BY <3>1, <3>4, <3>6, <3>7, <4>1, <4>2, <4>3, <4>4 DEF Gets
    <3>. QED  BY <3>8
  <2>. QED  BY <2>2, <2>3
<1>. QED  BY <1>4, <1>5

\* A block of the indirect block.
LEMMA MkIndirectIs ==
    ASSUME NEW q, Img(q.im), NEW i \in Inum, NEW k \in 0..(BSIZE - 1),
           NEW a, a = q.im.di[i].addrs[NDIRECT], a # 0, q.b = a, NEW r, r = MkIndirect(q, k)
    PROVE  \/ r.im \in Im /\ ~r.im.ok
           \/ Gets(q.im, r, i, NDIRECT + k)
<1>1. MkAsked(q, r, q.im, i, k, a)
  BY Zenon DEF MkAsked
<1>. QED  BY <1>1, MkIndirectAt

\* Inode i has no other new block that holds data.
Elsewhere(I, D, J, E, i, n) == \A m \in 0..(MAXFILE - 1) : m # n => Blk(J, E, i, m) = Blk(I, D, i, m)

\* From M to r.im inode i got blocks, r.b is the one at place n < MAXFILE.
Reaches(M, r, i, n) ==
    /\ Img(r.im) /\ r.im.freeinode = M.freeinode /\ SameBut(M.di, r.im.di, i)
    /\ Keeps(M.di, M.data, r.im.di, r.im.data, i) /\ Holds(M.di, M.data, r.im.data)
    /\ r.b \in Data /\ r.b = Blk(r.im.di, r.im.data, i, n)
    /\ Blk(M.di, M.data, i, n) = 0 => r.im.data[r.b] = ZeroBlock
    /\ Elsewhere(M.di, M.data, r.im.di, r.im.data, i, n)

\* One block.
LEMMA ReachesOne ==
    ASSUME NEW M, NEW r, NEW i \in Inum, NEW n \in Place, Gets(M, r, i, n)
    PROVE  Reaches(M, r, i, n)
<1>1. Keeps(M.di, M.data, r.im.di, r.im.data, i)
  BY DEF Gets, OnlyAt, Keeps
<1>2. \A m \in 0..(MAXFILE - 1) : m \in Place
  BY Layout DEF Place
<1>3. Elsewhere(M.di, M.data, r.im.di, r.im.data, i, n)
  BY <1>2 DEF Gets, OnlyAt, Elsewhere
<1>. QED  BY <1>1, <1>3 DEF Gets, Reaches

\* The indirect block and a block of it.
LEMMA ReachesTwo ==
    ASSUME NEW M, Img(M), NEW q, NEW r, NEW i \in Inum, NEW n \in 0..(MAXFILE - 1),
           Gets(M, q, i, MAXFILE), Gets(q.im, r, i, n)
    PROVE  Reaches(M, r, i, n)
<1>0. n \in Place /\ MAXFILE \in Place /\ n # MAXFILE /\ \A m \in 0..(MAXFILE - 1) : m \in Place /\ m # MAXFILE
  BY Layout DEF Place
<1>. PICK A : A = q.im
  OBVIOUS
<1>1. /\ SameBut(M.di, A.di, i) /\ OnlyAt(M.di, M.data, A.di, A.data, i, MAXFILE)
      /\ Holds(M.di, M.data, A.data) /\ A.freeinode = M.freeinode
  BY DEF Gets
<1>2. /\ Img(r.im) /\ r.im.freeinode = A.freeinode /\ SameBut(A.di, r.im.di, i)
      /\ OnlyAt(A.di, A.data, r.im.di, r.im.data, i, n) /\ Holds(A.di, A.data, r.im.data)
      /\ r.b \in Data /\ r.b = Blk(r.im.di, r.im.data, i, n)
      /\ Blk(A.di, A.data, i, n) = 0 => r.im.data[r.b] = ZeroBlock
  BY DEF Gets
<1>3. SameBut(M.di, r.im.di, i)
  BY <1>1, <1>2 DEF SameBut, KeptIno
<1>4. Keeps(M.di, M.data, r.im.di, r.im.data, i)
  <2>. SUFFICES ASSUME NEW j \in Inum, NEW m \in Place, Blk(M.di, M.data, j, m) # 0 \/ j # i
       PROVE  Blk(r.im.di, r.im.data, j, m) = Blk(M.di, M.data, j, m)
    BY DEF Keeps
  <2>1. Blk(A.di, A.data, j, m) = Blk(M.di, M.data, j, m)
    BY <1>1 DEF OnlyAt
  <2>2. Blk(r.im.di, r.im.data, j, m) = Blk(A.di, A.data, j, m)
    BY <1>2, <2>1 DEF OnlyAt
  <2>. QED  BY <2>1, <2>2
<1>5. Holds(M.di, M.data, r.im.data)
  <2>. SUFFICES ASSUME NEW j \in Inum, NEW m \in 0..(MAXFILE - 1), Blk(M.di, M.data, j, m) # 0
       PROVE  r.im.data[Blk(M.di, M.data, j, m)] = M.data[Blk(M.di, M.data, j, m)]
    BY DEF Holds
  <2>. PICK x : x = Blk(M.di, M.data, j, m)
    OBVIOUS
  <2>1. Blk(A.di, A.data, j, m) = x
    BY <1>0, <1>1 DEF OnlyAt
  <2>2. A.data[x] = M.data[x]
    BY <1>1 DEF Holds
  <2>3. r.im.data[x] = A.data[x]
    BY <1>2, <2>1 DEF Holds
  <2>. QED  BY <2>2, <2>3
<1>6. Blk(A.di, A.data, i, n) = Blk(M.di, M.data, i, n)
  BY <1>0, <1>1 DEF OnlyAt
<1>7. Elsewhere(M.di, M.data, r.im.di, r.im.data, i, n)
  <2>. SUFFICES ASSUME NEW m \in 0..(MAXFILE - 1), m # n
       PROVE  Blk(r.im.di, r.im.data, i, m) = Blk(M.di, M.data, i, m)
    BY DEF Elsewhere
  <2>1. Blk(A.di, A.data, i, m) = Blk(M.di, M.data, i, m)
    BY <1>0, <1>1 DEF OnlyAt
  <2>2. Blk(r.im.di, r.im.data, i, m) = Blk(A.di, A.data, i, m)
    BY <1>0, <1>2 DEF OnlyAt
  <2>. QED  BY <2>1, <2>2
<1>. QED  BY <1>1, <1>2, <1>3, <1>4, <1>5, <1>6, <1>7 DEF Reaches

\* The block at place n, there before or new.
LEMMA MkBlockIs ==
    ASSUME NEW M, Img(M), NEW i \in Inum, NEW n \in Nat, NEW r, r = MkBlock(M, i, n)
    PROVE  \/ r.im \in Im /\ ~r.im.ok
           \/ n < MAXFILE /\ Reaches(M, r, i, n)
<1>1. CASE n < NDIRECT
  <2>1. r = MkDirect(M, i, n)
    BY <1>1 DEF MkBlock
  <2>2. n \in 0..NDIRECT /\ n \in Place /\ PlaceOf(n) = n /\ n < MAXFILE
    BY <1>1, Layout DEF PlaceOf, Place
  <2>3. (r.im \in Im /\ ~r.im.ok) \/ Gets(M, r, i, PlaceOf(n))
    BY <2>1, <2>2, MkDirectIs
  <2>. QED  BY <2>2, <2>3, ReachesOne
<1>2. CASE ~(n < NDIRECT) /\ n < MAXFILE
  <2>. PICK k, q : k = n - NDIRECT /\ q = MkDirect(M, i, NDIRECT)
    OBVIOUS
  <2>1. r = MkIndirect(q, k)
    BY <1>2 DEF MkBlock
  <2>2. k \in 0..(BSIZE - 1) /\ NDIRECT + k = n /\ n \in 0..(MAXFILE - 1) /\ NDIRECT \in 0..NDIRECT
    BY <1>2, Layout
  <2>3. (q.im \in Im /\ ~q.im.ok) \/ Gets(M, q, i, PlaceOf(NDIRECT))
    BY <2>2, MkDirectIs
  <2>4. CASE q.im \in Im /\ ~q.im.ok
    BY <2>1, <2>4 DEF MkIndirect
  <2>5. CASE Gets(M, q, i, MAXFILE)
    <3>. PICK a : a = q.im.di[i].addrs[NDIRECT]
      OBVIOUS
    <3>1. Img(q.im) /\ q.b = a /\ a # 0
      <4>1. Img(q.im) /\ q.b \in Data /\ q.b = Blk(q.im.di, q.im.data, i, MAXFILE)
        BY <2>5 DEF Gets
      <4>2. q.b # 0
        BY <4>1, Layout DEF Data
      <4>3. q.b = a
        BY <4>1, BlkIndirect
      <4>. QED  BY <4>1, <4>2, <4>3
    <3>2. (r.im \in Im /\ ~r.im.ok) \/ Gets(q.im, r, i, NDIRECT + k)
      BY <2>1, <2>2, <3>1, MkIndirectIs
    <3>3. Gets(q.im, r, i, n) => Reaches(M, r, i, n)
      BY <2>2, <2>5, ReachesTwo
    <3>. QED  BY <1>2, <2>2, <3>2, <3>3
  <2>. QED  BY <2>3, <2>4, <2>5 DEF PlaceOf
<1>3. CASE ~(n < NDIRECT) /\ ~(n < MAXFILE)
  <2>1. r = GiveUp(M)
    BY <1>3 DEF MkBlock
  <2>. QED  BY <2>1, GiveUpIs DEF Img
<1>. QED  BY <1>1, <1>2, <1>3

\* The image with cell c at place y of block b, and inode i with size n.
SizeTo(I, i, n) == [I EXCEPT ![i].size = n]
Cells(M, N, b, y, c, i, n) ==
    /\ N \in Im /\ N.ok = M.ok /\ N.freeinode = M.freeinode /\ N.freeblock = M.freeblock
    /\ N.data = WithCell(M.data, b, y, c) /\ N.di = SizeTo(M.di, i, n)

\* The inodes with another size.
HasSizeTo(I, J, i, n) ==
    /\ J \in Inodes /\ \A j \in Inum : j # i => J[j] = I[j]
    /\ J[i].size = n /\ KeptIno(I[i], J[i])
    /\ \A j \in Inum : J[j].addrs = I[j].addrs

\* Setting the size of inode i leaves the rest of the inodes alone.
LEMMA SizeToIs ==
    ASSUME NEW I \in Inodes, NEW i \in Inum, NEW n \in Nat, NEW J, J = SizeTo(I, i, n)
    PROVE  HasSizeTo(I, J, i, n)
<1>1. J = [I EXCEPT ![i] = InoSize(I[i], n)]
  BY DEF SizeTo, InoSize
<1>2. I[i] \in Dinode
  BY DEF Inodes
<1>3. /\ InoSize(I[i], n) \in Dinode /\ InoSize(I[i], n).size = n /\ InoSize(I[i], n).addrs = I[i].addrs
      /\ KeptIno(I[i], InoSize(I[i], n))
  BY <1>2 DEF Dinode, InoSize, KeptIno
<1>4. J \in Inodes /\ \A j \in Inum : J[j] = IF j = i THEN InoSize(I[i], n) ELSE I[j]
  BY <1>1, <1>3 DEF Inodes
<1>. QED  BY <1>3, <1>4 DEF HasSizeTo

\* The data with another cell.
HasCell(D, E, b, k, c) ==
    /\ \A x \in Data, y \in 0..(BSIZE - 1) : E[x][y] = IF x = b /\ y = k THEN c ELSE D[x][y]
    /\ \A x \in Data \ {b} : E[x] = D[x]

\* Storing one cell changes that cell and no other.
LEMMA HasCellIs ==
    ASSUME NEW D \in Datas, NEW b \in Data, NEW k \in 0..(BSIZE - 1), NEW c \in Cell,
           NEW E, E = WithCell(D, b, k, c)
    PROVE  HasCell(D, E, b, k, c)
BY WithCellIs DEF HasCell

\* What PutCell() does.
LEMMA PutCellIs ==
    ASSUME NEW r, r.im \in Im, r.im.ok, r.b \in Data, NEW i \in Inum, NEW o \in Nat, NEW c \in Cell,
           NEW N, N = PutCell(r, i, o, c)
    PROVE  Cells(r.im, N, r.b, o % BSIZE, c, i, o + 1)
<1>. PICK M : M = r.im
  OBVIOUS
<1>. PICK b : b = r.b
  OBVIOUS
<1>. PICK y : y = o % BSIZE
  OBVIOUS
<1>1. N = [M EXCEPT !.data = WithCell(M.data, b, y, c), !.di = SizeTo(M.di, i, o + 1)]
  BY DEF PutCell, WithCell, SizeTo
<1>2. y \in 0..(BSIZE - 1) /\ o + 1 \in Nat /\ M.di \in Inodes /\ M.data \in Datas
  BY CellOf, ImTypes
<1>3. WithCell(M.data, b, y, c) \in Datas
  BY <1>2, WithCellIs
<1>4. SizeTo(M.di, i, o + 1) \in Inodes
  BY <1>2, SizeToIs DEF HasSizeTo
<1>. QED  BY <1>1, <1>3, <1>4 DEF Cells, Im

\* The rest of the last block of inode i is all zero.
Blank(I, D, i) ==
    \A u \in Nat : u >= I[i].size /\ u \div BSIZE < MAXFILE /\ Blk(I, D, i, u \div BSIZE) # 0
                   => At(I, D, i, u) = Zero

\* From M to N the cell c was appended to inode i.
Added(M, N, i, c) ==
    /\ Img(N) /\ Whole(N.di, N.data) /\ N.freeinode = M.freeinode
    /\ \A j \in Inum : j # i => N.di[j] = M.di[j]
    /\ KeptIno(M.di[i], N.di[i]) /\ N.di[i].size = M.di[i].size + 1
    /\ Keeps(M.di, M.data, N.di, N.data, i)
    /\ At(N.di, N.data, i, M.di[i].size) = c
    /\ Beyond(M.di, M.data, N.di, N.data, i, {M.di[i].size})
    /\ \A j \in Inum : Blank(M.di, M.data, j) => Blank(N.di, N.data, j)

\* Cell c goes to offset o, the end of inode i.
PutAt(M, r, N, i, o, c) ==
    /\ M.di[i].type # "0" /\ o = M.di[i].size /\ o \div BSIZE < MAXFILE
    /\ Reaches(M, r, i, o \div BSIZE) /\ Cells(r.im, N, r.b, o % BSIZE, c, i, o + 1)

\* The cells after that.
LEMMA AddedIs ==
    ASSUME NEW M, Img(M), Whole(M.di, M.data), NEW i \in Inum, NEW o, NEW c \in Cell, NEW r,
           NEW N, PutAt(M, r, N, i, o, c)
    PROVE  Added(M, N, i, c)
<1>A. PICK A : A = r.im
  OBVIOUS
<1>b. PICK b : b = r.b
  OBVIOUS
<1>n. PICK bn : bn = o \div BSIZE
  OBVIOUS
<1>k. PICK k : k = o % BSIZE
  OBVIOUS
<1>1. o \in Nat /\ M.di \in Inodes /\ M.data \in Datas
  <2>1. M \in Im
    BY DEF Img
  <2>2. M.di \in Inodes /\ M.data \in Datas
    BY <2>1, ImTypes
  <2>3. M.di[i] \in Dinode
    BY <2>2 DEF Inodes
  <2>. QED  BY <2>2, <2>3 DEF Dinode, PutAt
<1>2. bn \in Nat /\ bn < MAXFILE /\ k \in 0..(BSIZE - 1)
  BY <1>1, <1>n, <1>k, CellOf DEF PutAt
<1>3. bn \in 0..(MAXFILE - 1) /\ 0..(MAXFILE - 1) \subseteq Place
  BY <1>2, Layout DEF Place
<1>4. /\ Img(A) /\ A.freeinode = M.freeinode /\ SameBut(M.di, A.di, i)
      /\ Keeps(M.di, M.data, A.di, A.data, i) /\ Holds(M.di, M.data, A.data)
      /\ b \in Data /\ b = Blk(A.di, A.data, i, bn)
      /\ Blk(M.di, M.data, i, bn) = 0 => A.data[b] = ZeroBlock
      /\ Elsewhere(M.di, M.data, A.di, A.data, i, bn)
  <2>1. Reaches(M, r, i, bn)
    BY <1>n DEF PutAt
  <2>. QED  BY <1>A, <1>b, <2>1, Zenon DEF Reaches
<1>5. A \in Im /\ A.ok /\ A.di \in Inodes /\ A.data \in Datas /\ Blocks(A.di, A.data, 0..(A.freeblock - 1))
      /\ \A x \in Data : x >= A.freeblock => A.data[x] = ZeroBlock
  BY <1>4, ImTypes DEF Img
<1>6. b # 0
  BY <1>4, Layout DEF Data
<1>E. PICK E : E = WithCell(A.data, b, k, c)
  OBVIOUS
<1>J. PICK J : J = SizeTo(A.di, i, o + 1)
  OBVIOUS
<1>7. N \in Im /\ N.ok /\ N.freeinode = M.freeinode /\ N.freeblock = A.freeblock /\ N.data = E /\ N.di = J
  BY <1>4, <1>5, <1>A, <1>b, <1>k, <1>E, <1>J DEF Cells, PutAt
<1>8. /\ E \in Datas /\ Blocks(A.di, E, 0..(A.freeblock - 1))
      /\ \A j \in Inum, m \in Place : Blk(A.di, E, j, m) = Blk(A.di, A.data, j, m)
  BY <1>2, <1>3, <1>4, <1>5, <1>6, <1>E, StoreCell
<1>9. /\ \A x \in Data, y \in 0..(BSIZE - 1) : E[x][y] = IF x = b /\ y = k THEN c ELSE A.data[x][y]
      /\ \A x \in Data \ {b} : E[x] = A.data[x]
  <2>1. HasCell(A.data, E, b, k, c)
    BY <1>2, <1>4, <1>5, <1>E, HasCellIs
  <2>. QED  BY <2>1 DEF HasCell
<1>10. /\ J \in Inodes /\ \A j \in Inum : j # i => J[j] = A.di[j]
       /\ J[i].size = o + 1 /\ KeptIno(A.di[i], J[i])
       /\ \A j \in Inum : J[j].addrs = A.di[j].addrs
  <2>1. o + 1 \in Nat
    BY <1>1
  <2>2. HasSizeTo(A.di, J, i, o + 1)
    BY <1>5, <1>J, <2>1, SizeToIs
  <2>. QED  BY <2>2 DEF HasSizeTo
<1>11. /\ \A j \in Inum : \A n : Blk(J, E, j, n) = Blk(A.di, E, j, n)
       /\ \A j \in Inum : \A u : At(J, E, j, u) = At(A.di, E, j, u)
       /\ Blocks(J, E, 0..(A.freeblock - 1))
  <2>1. Alike(A.di, J, E)
    BY <1>10, SameAddrs
  <2>. QED  BY <1>8, <2>1, Zenon DEF Alike
<1>12. \A j \in Inum, m \in Place : Blk(J, E, j, m) = Blk(A.di, A.data, j, m)
  BY <1>8, <1>11
<1>13. Img(N)
  <2>1. b < A.freeblock
    <3>1. b \in 0..(FSSIZE - 1) /\ bn \in Place /\ A.freeblock \in Nat
      <4>1. bn \in Place /\ A.freeblock \in Nat
        BY <1>3, <1>5, ImTypes
      <4>2. b \in 0..(FSSIZE - 1)
        BY <1>4, DataNumbers
      <4>. QED  BY <4>1, <4>2
    <3>2. b \in 0..(A.freeblock - 1)
      BY <1>4, <1>5, <3>1 DEF Blocks, Marked
    <3>. QED  BY <3>1, <3>2
  <2>2. ASSUME NEW x \in Data, x >= A.freeblock PROVE E[x] = ZeroBlock
    <3>1. x # b
      <4>1. A.freeblock \in Nat /\ b \in Nat
        <5>1. A.freeblock \in Nat
          BY <1>5, ImTypes
        <5>2. b \in Nat
          BY <1>4, DataNumbers
        <5>. QED  BY <5>1, <5>2
      <4>. QED  BY <2>1, <2>2, <4>1
    <3>. QED  BY <1>5, <1>9, <2>2, <3>1
  <2>. QED  BY <1>7, <1>11, <2>2 DEF Img
<1>14. Keeps(M.di, M.data, J, E, i)
  BY <1>4, <1>12, Zenon DEF Keeps
<1>15. /\ \A j \in Inum : j # i => J[j] = M.di[j]
       /\ KeptIno(M.di[i], J[i])
  BY <1>4, <1>10 DEF SameBut, KeptIno
<1>16. At(J, E, i, o) = c
  <2>1. Blk(J, E, i, bn) = b
    BY <1>3, <1>4, <1>12
  <2>2. E[b][k] = c
    BY <1>2, <1>4, <1>9
  <2>. QED  BY <1>n, <1>k, <2>1, <2>2 DEF At
<1>17. ASSUME NEW j \in Inum, NEW u \in Nat, u \div BSIZE < MAXFILE,
              Blk(M.di, M.data, j, u \div BSIZE) # 0, ~(j = i /\ u \in {o})
       PROVE  At(J, E, j, u) = At(M.di, M.data, j, u)
  <2>n. PICK n, y, a : n = u \div BSIZE /\ y = u % BSIZE /\ a = Blk(M.di, M.data, j, n)
    OBVIOUS
  <2>1. n \in 0..(MAXFILE - 1) /\ n \in Place /\ y \in 0..(BSIZE - 1)
    <3>1. n \in Nat /\ y \in 0..(BSIZE - 1)
      BY <2>n, CellOf
    <3>2. n \in 0..(MAXFILE - 1)
      BY <1>17, <2>n, <3>1, Layout
    <3>. QED  BY <1>3, <3>1, <3>2
  <2>2. Blk(A.di, A.data, j, n) = a /\ A.data[a] = M.data[a]
    BY <1>4, <1>17, <2>1, <2>n DEF Keeps, Holds
  <2>3. Blk(J, E, j, n) = a
    BY <1>12, <2>1, <2>2
  <2>4. a \in Data
    BY <1>5, <1>17, <2>1, <2>2, <2>n DEF Blocks, Placed
  <2>5. ~(a = b /\ y = k)
    <3>. SUFFICES ASSUME a = b, y = k PROVE FALSE
      OBVIOUS
    <3>1. j = i /\ n = bn
      BY <1>3, <1>4, <1>5, <1>6, <2>1, <2>2 DEF Blocks, OneOwner
    <3>2. u = o
      BY <1>1, <1>n, <1>k, <2>n, <3>1, CellIs
    <3>. QED  BY <1>17, <3>1, <3>2
  <2>6. E[a][y] = M.data[a][y]
    BY <1>9, <2>1, <2>2, <2>4, <2>5
  <2>. QED  BY <2>3, <2>6, <2>n DEF At
<1>18. Beyond(M.di, M.data, J, E, i, {o})
  BY <1>17 DEF Beyond
<1>19. ASSUME NEW j \in Inum, Blank(M.di, M.data, j)
       PROVE  Blank(J, E, j)
  <2>. SUFFICES ASSUME NEW u \in Nat, u >= J[j].size, u \div BSIZE < MAXFILE,
                       Blk(J, E, j, u \div BSIZE) # 0
       PROVE  At(J, E, j, u) = Zero
    BY DEF Blank
  <2>n. PICK n, y : n = u \div BSIZE /\ y = u % BSIZE
    OBVIOUS
  <2>0. n \in 0..(MAXFILE - 1) /\ n \in Place /\ y \in 0..(BSIZE - 1)
    <3>1. n \in Nat /\ y \in 0..(BSIZE - 1)
      BY <2>n, CellOf
    <3>2. n \in 0..(MAXFILE - 1)
      BY <2>n, <3>1, Layout
    <3>. QED  BY <1>3, <3>1, <3>2
  <2>1. u >= M.di[j].size /\ ~(j = i /\ u = o)
    <3>1. CASE j = i
      BY <1>1, <1>10, <3>1 DEF PutAt
    <3>2. CASE j # i
      BY <1>15, <3>2
    <3>. QED  BY <3>1, <3>2
  <2>2. CASE Blk(M.di, M.data, j, n) # 0
    <3>1. At(M.di, M.data, j, u) = Zero
      BY <1>19, <2>1, <2>2, <2>n DEF Blank
    <3>. QED  BY <1>17, <2>1, <2>2, <2>n, <3>1
  <2>3. CASE Blk(M.di, M.data, j, n) = 0
    <3>1. j = i
      BY <1>14, <2>0, <2>3, <2>n DEF Keeps
    <3>2. n = bn
      BY <1>4, <1>12, <2>0, <2>3, <2>n, <3>1 DEF Elsewhere
    <3>3. A.data[b] = ZeroBlock /\ Blk(J, E, j, n) = b
      BY <1>3, <1>4, <1>12, <2>3, <3>1, <3>2, Zenon
    <3>4. y # k
      BY <1>1, <1>n, <1>k, <2>1, <2>n, <3>1, <3>2, CellIs
    <3>5. E[b][y] = Zero
      <4>1. E[b][y] = A.data[b][y]
        BY <1>4, <1>9, <2>0, <3>4
      <4>2. ZeroBlock[y] = Zero
        BY <2>0, Types
      <4>. QED  BY <3>3, <4>1, <4>2
    <3>. QED  BY <2>n, <3>3, <3>5 DEF At
  <2>. QED  BY <2>2, <2>3
<1>20. Whole(J, E)
  <2>1. ASSUME NEW j \in Inum, j # i
        PROVE  /\ \A n \in 0..(MAXFILE - 1) : n * BSIZE < J[j].size => Blk(J, E, j, n) # 0
               /\ J[j].size <= MAXFILE * BSIZE
               /\ J[j].type = "0" => J[j].addrs = NoAddrs /\ J[j].size = 0
    BY <1>3, <1>14, <1>15, <2>1 DEF Whole, Keeps
  <2>2. J[i].type # "0" /\ J[i].size <= MAXFILE * BSIZE
    <3>1. o < MAXFILE * BSIZE
      BY <1>1, CellBelow, Layout DEF PutAt
    <3>2. o + 1 <= MAXFILE * BSIZE
      BY <1>1, <3>1, MaxCells
    <3>. QED  BY <1>10, <1>15, <3>2 DEF KeptIno, PutAt
  <2>3. ASSUME NEW n \in 0..(MAXFILE - 1), n * BSIZE < J[i].size
        PROVE  Blk(J, E, i, n) # 0
    <3>0. n \in Nat
      OBVIOUS
    <3>1. n * BSIZE < o \/ n = bn
      BY <1>1, <1>10, <1>n, <2>3, <3>0, CellAfter
    <3>2. CASE n * BSIZE < o
      <4>1. Blk(M.di, M.data, i, n) # 0
        BY <3>2 DEF Whole, PutAt
      <4>. QED  BY <1>3, <1>14, <4>1 DEF Keeps
    <3>3. CASE n = bn
      BY <1>3, <1>4, <1>6, <1>12, <3>3
    <3>. QED  BY <3>1, <3>2, <3>3
  <2>. QED  BY <2>1, <2>2, <2>3 DEF Whole
<1>. QED  BY <1>7, <1>10, <1>13, <1>14, <1>15, <1>16, <1>18, <1>19, <1>20 DEF Added, PutAt

\* One cell more, or mkfs gave up.
LEMMA AppendCellIs ==
    ASSUME NEW M, Img(M), Whole(M.di, M.data), NEW i \in Inum, M.di[i].type # "0", NEW c \in Cell,
           NEW N, N = AppendCell(M, i, c)
    PROVE  N \in Im /\ (N.ok => Added(M, N, i, c))
<1>. PICK o : o = M.di[i].size
  OBVIOUS
<1>. PICK r : r = MkBlock(M, i, o \div BSIZE)
  OBVIOUS
<1>1. M \in Im /\ M.ok /\ o \in Nat
  <2>1. M \in Im /\ M.ok
    BY DEF Img
  <2>2. M.di[i] \in Dinode
    BY <2>1, ImTypes DEF Inodes
  <2>. QED  BY <2>1, <2>2 DEF Dinode
<1>2. N = PutCell(r, i, o, c)
  BY <1>1 DEF AppendCell
<1>3. o \div BSIZE \in Nat
  BY <1>1, CellOf
<1>4. (r.im \in Im /\ ~r.im.ok) \/ (o \div BSIZE < MAXFILE /\ Reaches(M, r, i, o \div BSIZE))
  BY <1>3, MkBlockIs
<1>5. CASE r.im \in Im /\ ~r.im.ok
  BY <1>2, <1>5 DEF PutCell
<1>6. CASE o \div BSIZE < MAXFILE /\ Reaches(M, r, i, o \div BSIZE)
  <2>1. r.im \in Im /\ r.im.ok /\ r.b \in Data
    BY <1>6 DEF Reaches, Img
  <2>2. Cells(r.im, N, r.b, o % BSIZE, c, i, o + 1)
    BY <1>1, <1>2, <2>1, PutCellIs
  <2>3. Added(M, N, i, c)
    <3>. PutAt(M, r, N, i, o, c)
      BY <1>6, <2>2 DEF PutAt
    <3>. QED  BY AddedIs
  <2>. QED  BY <2>2, <2>3 DEF Cells
<1>. QED  BY <1>4, <1>5, <1>6

\* From M to N the first n of the cells were appended to inode i.
AddedAll(M, N, i, cells, n) ==
    /\ Img(N) /\ Whole(N.di, N.data) /\ N.freeinode = M.freeinode
    /\ \A j \in Inum : j # i => N.di[j] = M.di[j]
    /\ KeptIno(M.di[i], N.di[i]) /\ N.di[i].size = M.di[i].size + n
    /\ Keeps(M.di, M.data, N.di, N.data, i)
    /\ \A x \in 1..n : At(N.di, N.data, i, M.di[i].size + x - 1) = cells[x]
    /\ Beyond(M.di, M.data, N.di, N.data, i, M.di[i].size..(M.di[i].size + n - 1))
    /\ \A j \in Inum : Blank(M.di, M.data, j) => Blank(N.di, N.data, j)

\* The image and the inode that is appended to.
Open(M, i) == Img(M) /\ Whole(M.di, M.data) /\ i \in Inum /\ M.di[i].type # "0"

\* Sizes in an image.
LEMMA ImSizes ==
    ASSUME NEW M, Img(M)
    PROVE  SizesOf(M.di) /\ M.di \in Inodes /\ M.data \in Datas /\ M \in Im /\ M.ok
<1>1. M \in Im /\ M.di \in Inodes /\ M.data \in Datas /\ M.ok
  BY ImTypes DEF Img
<1>2. \A j \in Inum : M.di[j] \in Dinode
  BY <1>1 DEF Inodes
<1>. QED  BY <1>1, <1>2 DEF SizesOf, Dinode

\* What is left alone by two appends.
LEMMA BeyondTwo ==
    ASSUME NEW I, NEW D, NEW J, NEW E, NEW K, NEW G, NEW i, NEW O, NEW P, NEW Q, Q = O \cup P,
           Keeps(I, D, J, E, i), Beyond(I, D, J, E, i, O), Beyond(J, E, K, G, i, P)
    PROVE  Beyond(I, D, K, G, i, Q)
<1>. SUFFICES ASSUME NEW j \in Inum, NEW u \in Nat, u \div BSIZE < MAXFILE,
                     Blk(I, D, j, u \div BSIZE) # 0, ~(j = i /\ u \in Q)
     PROVE  At(K, G, j, u) = At(I, D, j, u)
  BY DEF Beyond
<1>1. At(J, E, j, u) = At(I, D, j, u)
  BY DEF Beyond
<1>2. u \div BSIZE \in Place
  <2>1. u \div BSIZE \in Nat
    BY CellOf
  <2>. QED  BY <2>1, Layout DEF Place
<1>3. Blk(J, E, j, u \div BSIZE) # 0
  BY <1>2 DEF Keeps
<1>4. At(K, G, j, u) = At(J, E, j, u)
  BY <1>3 DEF Beyond
<1>. QED  BY <1>1, <1>4

\* The offsets from o on of n cells, one more than m.
Spans(o, n, m, u) == o..(o + n - 1) = (o..(o + m - 1)) \cup {u}

\* It is the last one that is added.
LEMMA SpansIs ==
    ASSUME NEW o \in Nat, NEW m \in Nat, NEW n, n = m + 1, NEW u, u = o + m
    PROVE  Spans(o, n, m, u)
BY DEF Spans

\* The last of them, and those before it.
LEMMA NextOffset ==
    ASSUME NEW o \in Nat, NEW m \in Nat, NEW n, n = m + 1, NEW u, u = o + m
    PROVE  /\ u \in Nat /\ u = o + n - 1 /\ u + 1 = o + n
           /\ \A x \in 1..n : x # n => x \in 1..m /\ o + x - 1 \in 0..(u - 1) /\ o + x - 1 # u
OBVIOUS

\* One cell more.
LEMMA AddedMore ==
    ASSUME NEW M, NEW i, Open(M, i), NEW cells \in Seq(Cell), NEW n \in 1..Len(cells), NEW m, m = n - 1,
           NEW H, AddedAll(M, H, i, cells, m), NEW N, Added(H, N, i, cells[n])
    PROVE  AddedAll(M, N, i, cells, n)
<1>0. i \in Inum /\ M.di[i].size \in Nat /\ m \in Nat /\ n \in Nat /\ n = m + 1
  BY ImSizes DEF Open, SizesOf
<1>m. m \in Nat /\ n = m + 1
  BY <1>0
<1>o. PICK o, u : o = M.di[i].size /\ u = H.di[i].size
  OBVIOUS
<1>1. /\ Img(H) /\ Whole(H.di, H.data) /\ H.freeinode = M.freeinode
      /\ \A j \in Inum : j # i => H.di[j] = M.di[j]
      /\ KeptIno(M.di[i], H.di[i]) /\ u = o + m
      /\ Keeps(M.di, M.data, H.di, H.data, i)
      /\ \A x \in 1..m : At(H.di, H.data, i, o + x - 1) = cells[x]
      /\ Beyond(M.di, M.data, H.di, H.data, i, o..(o + m - 1))
      /\ \A j \in Inum : Blank(M.di, M.data, j) => Blank(H.di, H.data, j)
  BY <1>o DEF AddedAll
<1>2. /\ Img(N) /\ Whole(N.di, N.data) /\ N.freeinode = H.freeinode
      /\ \A j \in Inum : j # i => N.di[j] = H.di[j]
      /\ KeptIno(H.di[i], N.di[i]) /\ N.di[i].size = u + 1
      /\ Keeps(H.di, H.data, N.di, N.data, i)
      /\ At(N.di, N.data, i, u) = cells[n]
      /\ Beyond(H.di, H.data, N.di, N.data, i, {u})
      /\ \A j \in Inum : Blank(H.di, H.data, j) => Blank(N.di, N.data, j)
  BY <1>o DEF Added
<1>3. u = o + m /\ u \in Nat /\ u = o + n - 1 /\ u + 1 = o + n /\ o \in Nat
  <2>1. u = o + m /\ o \in Nat
    BY <1>0, <1>1, <1>o
  <2>. QED  BY <1>m, <2>1, NextOffset
<1>4. Keeps(M.di, M.data, N.di, N.data, i)
  BY <1>1, <1>2 DEF Keeps
<1>5. KeptIno(M.di[i], N.di[i])
  BY <1>1, <1>2 DEF KeptIno
<1>6. Beyond(M.di, M.data, N.di, N.data, i, o..(o + n - 1))
  <2>1. o..(o + n - 1) = (o..(o + m - 1)) \cup {u}
    <3>1. Spans(o, n, m, u)
      BY <1>m, <1>3, SpansIs
    <3>. QED  BY <3>1 DEF Spans
  <2>2. Keeps(M.di, M.data, H.di, H.data, i) /\ Beyond(M.di, M.data, H.di, H.data, i, o..(o + m - 1))
    BY <1>1
  <2>3. Beyond(H.di, H.data, N.di, N.data, i, {u})
    BY <1>2
  <2>. PICK O, P, Q : O = o..(o + m - 1) /\ P = {u} /\ Q = o..(o + n - 1)
    OBVIOUS
  <2>4. Q = O \cup P /\ Beyond(M.di, M.data, H.di, H.data, i, O) /\ Beyond(H.di, H.data, N.di, N.data, i, P)
    BY <2>1, <2>2, <2>3
  <2>5. Beyond(M.di, M.data, N.di, N.data, i, Q)
    BY <2>2, <2>4, BeyondTwo, Zenon
  <2>. QED  BY <2>5
<1>7. ASSUME NEW x \in 1..n PROVE At(N.di, N.data, i, o + x - 1) = cells[x]
  <2>1. CASE x = n
    BY <1>2, <1>3, <2>1
  <2>2. CASE x # n
    <3>. PICK y : y = o + x - 1
      OBVIOUS
    <3>1. x \in 1..m /\ y \in 0..(u - 1) /\ y # u /\ o + x - 1 = y
      BY <1>m, <1>3, <2>2, NextOffset
    <3>2. At(H.di, H.data, i, y) = cells[x]
      BY <1>1, <3>1
    <3>3. y \in Offs(H.di, i)
      BY <1>o, <3>1 DEF Offs
    <3>4. y \in Nat /\ y \div BSIZE < MAXFILE /\ Blk(H.di, H.data, i, y \div BSIZE) # 0
      BY <1>0, <1>1, <3>3, ImSizes, OffBlock
    <3>5. At(N.di, N.data, i, y) = At(H.di, H.data, i, y)
      BY <1>0, <1>2, <3>1, <3>4 DEF Beyond
    <3>. QED  BY <3>1, <3>2, <3>5
  <2>. QED  BY <2>1, <2>2
<1>. QED  BY <1>o, <1>1, <1>2, <1>3, <1>4, <1>5, <1>6, <1>7 DEF AddedAll

\* Nothing is appended.
LEMMA AddedNone ==
    ASSUME NEW M, NEW i, Open(M, i), NEW cells
    PROVE  AddedAll(M, M, i, cells, 0)
<1>0. i \in Inum /\ M.di[i].size \in Nat
  BY ImSizes DEF Open, SizesOf
<1>1. M.di[i].size + 0 = M.di[i].size
  BY <1>0
<1>2. Keeps(M.di, M.data, M.di, M.data, i) /\ KeptIno(M.di[i], M.di[i])
  BY DEF Keeps, KeptIno
<1>3. \A O : Beyond(M.di, M.data, M.di, M.data, i, O)
  BY DEF Beyond
<1>4. \A x \in 1..0 : FALSE
  OBVIOUS
<1>. QED  BY <1>1, <1>2, <1>3, <1>4 DEF AddedAll, Open

\* iappend(): all of the cells, or mkfs gave up.
LEMMA IappendIs ==
    ASSUME NEW M \in Im, NEW i, M.ok => Open(M, i), NEW cells \in Seq(Cell), NEW X, X = iappend(M, i, cells)
    PROVE  X \in Im /\ (X.ok => M.ok /\ AddedAll(M, X, i, cells, Len(cells)))
<1>. DEFINE N == Len(cells)
            T == [n \in 0..N |-> {G \in Im : G.ok => M.ok /\ AddedAll(M, G, i, cells, n)}]
            h == [z \in Im \X (1..N) |-> AppendCell(z[1], i, cells[z[2]])]
            R(f) == f = [n \in 0..N |-> IF n = 0 THEN M ELSE AppendCell(f[n - 1], i, cells[n])]
<1>0. N \in Nat
  OBVIOUS
<1>1. M \in T[0]
  <2>1. M.ok => AddedAll(M, M, i, cells, 0)
    BY AddedNone
  <2>. QED  BY <1>0, <2>1
<1>2. ASSUME NEW n \in 1..N, NEW H \in T[n - 1]
      PROVE  /\ AppendCell(H, i, cells[n]) \in T[n] /\ H \in Im
             /\ h[<<H, n>>] = AppendCell(H, i, cells[n])
  <2>1. n - 1 \in 0..N /\ n \in 0..N
    BY <1>0
  <2>2. H \in Im /\ (H.ok => M.ok /\ AddedAll(M, H, i, cells, n - 1))
    BY <2>1
  <2>. PICK Y : Y = AppendCell(H, i, cells[n])
    OBVIOUS
  <2>3. Y \in Im /\ (Y.ok => M.ok /\ AddedAll(M, Y, i, cells, n))
    <3>1. CASE ~H.ok
      BY <2>2, <3>1 DEF AppendCell
    <3>2. CASE H.ok
      <4>1. M.ok /\ Open(M, i) /\ AddedAll(M, H, i, cells, n - 1)
        BY <2>2, <3>2
      <4>2. Img(H) /\ Whole(H.di, H.data) /\ i \in Inum /\ H.di[i].type # "0"
        BY <4>1 DEF AddedAll, Open, KeptIno
      <4>3. cells[n] \in Cell
        OBVIOUS
      <4>4. Y \in Im /\ (Y.ok => Added(H, Y, i, cells[n]))
        BY <4>2, <4>3, AppendCellIs
      <4>. QED  BY <4>1, <4>4, AddedMore
    <3>. QED  BY <3>1, <3>2
  <2>4. h[<<H, n>>] = AppendCell(H, i, cells[n])
    BY <2>2
  <2>. QED  BY <2>1, <2>2, <2>3, <2>4
<1>. HIDE DEF T, h
<1>3. \E f : R(f)
  <2>1. PICK f : Iterates(f, M, h, N)
    BY <1>0, Iteration
  <2>2. \A n \in 0..N : f[n] = IF n = 0 THEN M ELSE h[<<f[n - 1], n>>]
    BY <2>1, Zenon DEF Iterates
  <2>3. f[0] \in T[0]
    <3>1. 0 \in 0..N
      BY <1>0
    <3>2. f[0] = M
      BY <2>2, <3>1, Zenon
    <3>. QED  BY <1>1, <3>2
  <2>4. ASSUME NEW n \in 1..N, f[n - 1] \in T[n - 1]
        PROVE  f[n] \in T[n] /\ f[n] = AppendCell(f[n - 1], i, cells[n])
    <3>1. n \in 0..N /\ n # 0
      BY <1>0
    <3>2. f[n] = h[<<f[n - 1], n>>]
      BY <2>2, <3>1
    <3>. QED  BY <1>2, <2>4, <3>2
  <2>5. \A n \in 0..N : f[n] \in T[n]
    BY <1>0, <2>3, <2>4, Stays
  <2>6. \A n \in 0..N : n # 0 => n \in 1..N /\ n - 1 \in 0..N
    BY <1>0
  <2>7. \A n \in 0..N : f[n] = IF n = 0 THEN M ELSE AppendCell(f[n - 1], i, cells[n])
    BY <2>2, <2>4, <2>5, <2>6
  <2>8. f = [n \in 0..N |-> f[n]]
    BY <2>1 DEF Iterates
  <2>. QED  BY <2>7, <2>8
<1>. DEFINE W == CHOOSE f : R(f)
<1>4. R(W)
  BY <1>3, Zenon
<1>5. X = W[N]
  BY DEF iappend
<1>. HIDE DEF W
<1>6. \A n \in 0..N : W[n] = IF n = 0 THEN M ELSE AppendCell(W[n - 1], i, cells[n])
  BY <1>4, Zenon
<1>7. W[0] \in T[0]
  BY <1>0, <1>1, <1>6
<1>8. ASSUME NEW n \in 1..N, W[n - 1] \in T[n - 1]
      PROVE  W[n] \in T[n]
  <2>1. n \in 0..N /\ n # 0
    BY <1>0
  <2>2. W[n] = AppendCell(W[n - 1], i, cells[n])
    BY <1>6, <2>1
  <2>. QED  BY <1>2, <1>8, <2>2
<1>9. \A n \in 0..N : W[n] \in T[n]
  BY <1>0, <1>7, <1>8, Stays
<1>10. N \in 0..N
  BY <1>0
<1>11. W[N] \in {G \in Im : G.ok => M.ok /\ AddedAll(M, G, i, cells, N)}
  BY <1>9, <1>10 DEF T
<1>. QED  BY <1>5, <1>11

\* From M to N inode i is new.
Ialloced(M, N, i, type) ==
    /\ Img(N) /\ Whole(N.di, N.data) /\ N.freeinode = i + 1 /\ N.data = M.data
    /\ Born(M.di, N.di, i) /\ N.di[i].type = type /\ N.di[i].addrs = NoAddrs
    /\ Alike(M.di, N.di, M.data)

\* An image with other inodes.
WithInodes(M, J, n) == [M EXCEPT !.di = J, !.freeinode = n]
HasInodes(M, N, J, n) ==
    /\ N \in Im /\ N.di = J /\ N.data = M.data /\ N.freeinode = n
    /\ N.freeblock = M.freeblock /\ N.ok = M.ok

\* An image with other inodes is an image.
LEMMA WithInodesIs ==
    ASSUME NEW M \in Im, NEW J \in Inodes, NEW n \in Nat, NEW N, N = WithInodes(M, J, n)
    PROVE  HasInodes(M, N, J, n)
BY DEF Im, WithInodes, HasInodes

\* An image with one more inode.
LEMMA BornImage ==
    ASSUME NEW M, Img(M), Whole(M.di, M.data), NEW i \in Inum, NEW J, Born(M.di, J, i),
           J[i].addrs = NoAddrs, NEW N, HasInodes(M, N, J, i + 1)
    PROVE  Ialloced(M, N, i, J[i].type)
<1>1. N \in Im /\ N.di = J /\ N.data = M.data /\ N.freeinode = i + 1 /\ N.freeblock = M.freeblock /\ N.ok = M.ok
  BY DEF HasInodes
<1>2. Blocks(M.di, M.data, 0..(M.freeblock - 1))
  BY DEF Img
<1>3. Blocks(J, M.data, 0..(M.freeblock - 1)) /\ Whole(J, M.data) /\ Alike(M.di, J, M.data)
  BY <1>2, BornBlocks
<1>4. Img(N)
  BY <1>1, <1>3 DEF Img
<1>. QED  BY <1>1, <1>3, <1>4 DEF Ialloced

\* ialloc() of mkfs.
LEMMA MkIallocIs ==
    ASSUME NEW M, Img(M), Whole(M.di, M.data), NEW i \in Inum, M.freeinode = i, M.di[i].type = "0",
           NEW type \in {"DIR", "FILE"}, NEW N, N = MkIalloc(M, type)
    PROVE  Ialloced(M, N, i, type)
<1>. PICK e : e = [NoInode EXCEPT !.type = type, !.nlink = 1]
  OBVIOUS
<1>1. e \in Dinode /\ e.type = type /\ e.nlink = 1 /\ e.size = 0 /\ e.addrs = NoAddrs
  <2>1. NoAddrs \in [0..NDIRECT -> 0..(FSSIZE - 1)]
    BY Types
  <2>. QED  BY <2>1 DEF NoInode, Dinode
<1>2. M \in Im /\ M.di \in Inodes /\ M.freeinode \in Nat
  BY ImTypes DEF Img
<1>. PICK J : J = [M.di EXCEPT ![i] = e]
  OBVIOUS
<1>3. N = WithInodes(M, J, i + 1)
  BY DEF MkIalloc, WithInodes
<1>4. J \in Inodes /\ J[i] = e /\ \A j \in Inum : j # i => J[j] = M.di[j]
  BY <1>1, <1>2 DEF Inodes
<1>5. Born(M.di, J, i) /\ J[i].addrs = NoAddrs /\ J[i].type = type
  BY <1>1, <1>4 DEF Born
<1>6. HasInodes(M, N, J, i + 1)
  <2>1. i + 1 \in Nat
    BY <1>2
  <2>. QED  BY <1>2, <1>3, <1>4, <2>1, WithInodesIs
<1>7. Ialloced(M, N, i, J[i].type)
  BY <1>5, <1>6, BornImage
<1>. QED  BY <1>5, <1>7

\* The empty image.
LEMMA NoImageIs ==
    /\ Img(NoImage) /\ Whole(NoImage.di, NoImage.data) /\ NoImage.freeinode = ROOTINO
    /\ \A i \in Inum : NoImage.di[i].type = "0"
<1>. PICK M : M = NoImage
  OBVIOUS
<1>1. /\ M.di = [i \in Inum |-> NoInode] /\ M.data = [b \in Data |-> ZeroBlock]
      /\ M.freeblock = nmeta /\ M.freeinode = ROOTINO /\ M.ok = TRUE
  BY DEF NoImage, Data
<1>2. NoInode \in Dinode /\ NoInode.type = "0" /\ NoInode.size = 0 /\ NoInode.addrs = NoAddrs
  <2>1. NoAddrs \in [0..NDIRECT -> 0..(FSSIZE - 1)]
    BY Types
  <2>. QED  BY <2>1 DEF NoInode, Dinode
<1>3. M \in Im
  <2>1. M.di \in Inodes
    BY <1>1, <1>2 DEF Inodes
  <2>2. M.data \in Datas
    BY <1>1, Types DEF Datas
  <2>3. nmeta \in nmeta..FSSIZE /\ ROOTINO \in Nat
    BY FsAssumption, Layout DEF ROOTINO
  <2>. PICK X, Y : X = M.di /\ Y = M.data
    OBVIOUS
  <2>4. M = [di |-> X, data |-> Y, freeblock |-> nmeta, freeinode |-> ROOTINO, ok |-> TRUE]
    BY <1>1 DEF NoImage, Data
  <2>5. [di |-> X, data |-> Y, freeblock |-> nmeta, freeinode |-> ROOTINO, ok |-> TRUE] \in Im
    BY <2>1, <2>2, <2>3 DEF Im
  <2>. QED  BY <2>4, <2>5
<1>4. \A i \in Inum, n \in Place : Blk(M.di, M.data, i, n) = 0
  <2>1. ASSUME NEW i \in Inum, NEW n \in Place PROVE Blk(M.di, M.data, i, n) = 0
    <3>1. M.di[i].addrs = NoAddrs
      BY <1>1, <1>2
    <3>2. \A k \in 0..NDIRECT : M.di[i].addrs[k] = 0
      BY <3>1, Types
    <3>3. NDIRECT \in 0..NDIRECT /\ (n < NDIRECT => n \in 0..NDIRECT)
      BY Layout DEF Place
    <3>. QED  BY <3>2, <3>3 DEF Blk
  <2>. QED  BY <2>1
<1>5. Blocks(M.di, M.data, 0..(M.freeblock - 1))
  <2>1. Placed(M.di, M.data) /\ OneOwner(M.di, M.data)
    BY <1>4 DEF Placed, OneOwner
  <2>2. Marked(M.di, M.data, 0..(nmeta - 1))
    <3>1. \A b \in 0..(FSSIZE - 1) : b \in 0..(nmeta - 1) <=> b < nmeta
      BY Layout
    <3>2. \A b \in 0..(FSSIZE - 1) : b = 0 => b < nmeta
      BY Layout
    <3>. QED  BY <1>4, <3>1, <3>2 DEF Marked
  <2>3. Numbers(M.di, M.data)
    <3>1. NDIRECT \in 0..NDIRECT
      BY Layout
    <3>2. \A i \in Inum : M.di[i].addrs[NDIRECT] = 0
      BY <1>1, <1>2, <3>1, Types, ZenonT(30)
    <3>. QED  BY <3>2 DEF Numbers
  <2>. QED  BY <1>1, <2>1, <2>2, <2>3 DEF Blocks
<1>6. Img(M)
  BY <1>1, <1>3, <1>5 DEF Img
<1>7. Whole(M.di, M.data)
  <2>1. \A i \in Inum : M.di[i].size = 0 /\ M.di[i].addrs = NoAddrs
    BY <1>1, <1>2
  <2>2. ASSUME NEW n \in 0..(MAXFILE - 1) PROVE ~(n * BSIZE < 0)
    <3>1. n \in Nat
      BY Layout
    <3>2. n * BSIZE \in Nat
      BY <3>1, FirstCell
    <3>3. \A m \in Nat : ~(m < 0)
      OBVIOUS
    <3>. QED  BY <3>2, <3>3, Zenon
  <2>3. 0 <= MAXFILE * BSIZE
    BY MaxCells
  <2>. QED  BY <2>1, <2>2, <2>3, Zenon DEF Whole
<1>. QED  BY <1>1, <1>2, <1>6, <1>7

\* A root directory alone.
LEMMA RootTree ==
    ASSUME NEW I, NEW D, I[ROOTINO].type = "DIR", I[ROOTINO].nlink = 1, I[ROOTINO].size = 2,
           \A j \in Inum : j # ROOTINO => I[j].type = "0",
           At(I, D, ROOTINO, 0) = Pair(".", ROOTINO), At(I, D, ROOTINO, 1) = Pair("..", ROOTINO)
    PROVE  Tree(I, D, {})
<1>0. ROOTINO \in Inum /\ ROOTINO # 0
  BY Layout DEF ROOTINO
<1>1. DirSet(I) = {ROOTINO} /\ Offs(I, ROOTINO) = {0, 1}
  <2>1. 0..(2 - 1) = {0, 1}
    OBVIOUS
  <2>2. Offs(I, ROOTINO) = {0, 1}
    BY <2>1 DEF Offs
  <2>3. DirSet(I) = {ROOTINO}
    BY <1>0 DEF DirSet
  <2>. QED  BY <2>2, <2>3
<1>2. \A x \in {0, 1} : At(I, D, ROOTINO, x)[2] = ROOTINO /\ At(I, D, ROOTINO, x)[1] \in {".", ".."}
  BY PairIs
<1>3. Leads(I, D) /\ Settled(I, D, {})
  BY <1>0, <1>1, <1>2 DEF Leads, Settled
<1>4. Distinct(I, D)
  <2>1. At(I, D, ROOTINO, 0)[1] = "." /\ At(I, D, ROOTINO, 1)[1] = ".."
    BY PairIs
  <2>. QED  BY <1>1, <2>1 DEF Distinct
<1>5. Dotted(I, D, {})
  <2>1. At(I, D, ROOTINO, 1)[1] = ".." /\ At(I, D, ROOTINO, 1)[2] # 0
    BY <1>0, PairIs
  <2>. QED  BY <1>1, <2>1 DEF Dotted
<1>6. Parented(I, D)
  <2>1. \A x \in {0, 1} : \A i : ~UpAt(I, D, ROOTINO, x, i)
    BY <1>2 DEF UpAt
  <2>. QED  BY <1>1, <2>1 DEF Parented
<1>7. Reached(I, D, {})
  BY DEF Reached
<1>8. Counted(I, D)
  <2>1. \A i : Below(I, D, i) = {}
    BY <1>1 DEF Below
  <2>2. Cardinality({}) = 0
    BY FS_EmptySet
  <2>3. ASSUME NEW i \in Inum, I[i].type # "0"
        PROVE  I[i].nlink = 1 + Cardinality(Below(I, D, i))
    <3>1. i = ROOTINO
      BY <2>3
    <3>. QED  BY <2>1, <2>2, <3>1
  <2>. QED  BY <2>3 DEF Counted
<1>9. Unlinked(I, {})
  BY DEF Unlinked
<1>. QED  BY <1>3, <1>4, <1>5, <1>6, <1>7, <1>8, <1>9 DEF Tree

\* The names in the root after k files.
NameUpto(name, k) == name \in {".", ".."} \/ \E j \in 1..k : name = Files[j].name
RootNames(I, D, k) == \A x \in 0..(k + 1) : NameUpto(At(I, D, ROOTINO, x)[1], k)

\* The image after k files.
Filled(M, k) ==
    /\ Img(M) /\ Whole(M.di, M.data) /\ M.freeinode = k + 2
    /\ \A j \in Inum : j >= k + 2 => M.di[j].type = "0"
    /\ Tree(M.di, M.data, {}) /\ M.di[ROOTINO].size = k + 2 /\ RootNames(M.di, M.data, k)
    /\ Blank(M.di, M.data, ROOTINO)

DotCells == <<Pair(".", ROOTINO), Pair("..", ROOTINO)>>
\* The first entries of the root.
LEMMA DotCellsAre ==
    /\ DotCells \in Seq(Cell) /\ Len(DotCells) = 2
    /\ DotCells[1] = Pair(".", ROOTINO) /\ DotCells[2] = Pair("..", ROOTINO)
<1>1. Pair(".", ROOTINO) \in Cell /\ Pair("..", ROOTINO) \in Cell
  BY Layout, DotNames, PairCell
<1>. QED  BY <1>1 DEF DotCells

\* An inode without blocks is blank.
LEMMA BlankNew ==
    ASSUME NEW I, NEW D, NEW i \in Inum, I[i].addrs = NoAddrs
    PROVE  Blank(I, D, i)
<1>. SUFFICES ASSUME NEW u \in Nat, u \div BSIZE < MAXFILE PROVE Blk(I, D, i, u \div BSIZE) = 0
  BY DEF Blank
<1>. PICK n : n = u \div BSIZE
  OBVIOUS
<1>1. n \in Nat
  BY CellOf
<1>2. \A k \in 0..NDIRECT : I[i].addrs[k] = 0
  BY Types
<1>3. NDIRECT \in 0..NDIRECT /\ (n < NDIRECT => n \in 0..NDIRECT) /\ n # MAXFILE
  BY <1>1, Layout
<1>4. Blk(I, D, i, n) = 0
  BY <1>2, <1>3 DEF Blk
<1>. QED  BY <1>4

\* The image with an empty root.
LEMMA RootImage ==
    ASSUME NEW R, R = iappend(MkIalloc(NoImage, "DIR"), ROOTINO, DotCells), R.ok
    PROVE  Filled(R, 0)
<1>. PICK M : M = MkIalloc(NoImage, "DIR")
  OBVIOUS
<1>0. ROOTINO \in Inum /\ ROOTINO + 1 = 2
  BY Layout DEF ROOTINO
<1>1. Ialloced(NoImage, M, ROOTINO, "DIR")
  BY <1>0, NoImageIs, MkIallocIs
<1>2. /\ Img(M) /\ Whole(M.di, M.data) /\ M.freeinode = 2 /\ M.di[ROOTINO].type = "DIR"
      /\ Born(NoImage.di, M.di, ROOTINO)
  BY <1>0, <1>1 DEF Ialloced
<1>3. Open(M, ROOTINO)
  BY <1>0, <1>2 DEF Open
<1>4. AddedAll(M, R, ROOTINO, DotCells, 2)
  <2>1. M \in Im
    BY <1>2 DEF Img
  <2>. QED  BY <1>3, <2>1, DotCellsAre, IappendIs
<1>5. M.di[ROOTINO].size = 0 /\ M.di[ROOTINO].nlink = 1 /\ \A j \in Inum : j # ROOTINO => M.di[j].type = "0"
  BY <1>2, NoImageIs DEF Born
<1>6. M.di[ROOTINO].addrs = NoAddrs
  BY <1>1 DEF Ialloced
<1>7. Img(R) /\ Whole(R.di, R.data) /\ R.freeinode = 2
  BY <1>2, <1>4 DEF AddedAll
<1>8. R.di[ROOTINO].type = "DIR" /\ R.di[ROOTINO].nlink = 1 /\ R.di[ROOTINO].size = 2
  BY <1>2, <1>4, <1>5 DEF AddedAll, KeptIno
<1>9. \A j \in Inum : j # ROOTINO => R.di[j].type = "0"
  BY <1>4, <1>5 DEF AddedAll
<1>10. At(R.di, R.data, ROOTINO, 0) = Pair(".", ROOTINO) /\ At(R.di, R.data, ROOTINO, 1) = Pair("..", ROOTINO)
  <2>1. \A x \in 1..2 : At(R.di, R.data, ROOTINO, 0 + x - 1) = DotCells[x]
    BY <1>4, <1>5 DEF AddedAll
  <2>2. At(R.di, R.data, ROOTINO, 0) = DotCells[1]
    BY <2>1
  <2>3. At(R.di, R.data, ROOTINO, 1) = DotCells[2]
    BY <2>1
  <2>. QED  BY <2>2, <2>3, DotCellsAre
<1>11. Tree(R.di, R.data, {})
  BY <1>8, <1>9, <1>10, RootTree
<1>12. RootNames(R.di, R.data, 0)
  <2>1. 0..(0 + 1) = {0, 1}
    OBVIOUS
  <2>2. \A x \in {0, 1} : At(R.di, R.data, ROOTINO, x)[1] \in {".", ".."}
    BY <1>10, PairIs
  <2>. QED  BY <2>1, <2>2 DEF RootNames, NameUpto
<1>13. Blank(R.di, R.data, ROOTINO)
  BY <1>0, <1>4, <1>6, BlankNew DEF AddedAll
<1>14. \A j \in Inum : j >= 0 + 2 => R.di[j].type = "0"
  BY <1>9 DEF ROOTINO
<1>. QED  BY <1>7, <1>8, <1>11, <1>12, <1>13, <1>14 DEF Filled

\* An element of a sequence.
LEMMA ElementIs ==
    ASSUME NEW S, NEW s \in Seq(S), NEW k \in 1..Len(s)
    PROVE  s[k] \in S
OBVIOUS

\* The contents of a file.
FileCells(name, n) == [j \in 1..n |-> Pair(name, 0)]
\* The files of the command line.
LEMMA FileIs ==
    ASSUME NEW k \in 1..Len(Files)
    PROVE  /\ Files[k].name \in Name /\ Files[k].size \in Nat
           /\ FileCells(Files[k].name, Files[k].size) \in Seq(Cell)
           /\ Files[k].name \notin {".", ".."}
           /\ \A j \in 1..Len(Files) : Files[j].name = Files[k].name => j = k
<1>1. Files \in Seq([name : STRING, size : Nat]) /\ DOMAIN Files = 1..Len(Files) /\ Len(Files) \in Nat
  BY FsAssumption
<1>2. Files[k] \in Range(Files) /\ Files[k].size \in Nat
  <2>. PICK S : S = [name : STRING, size : Nat]
    OBVIOUS
  <2>0. Files \in Seq(S) /\ k \in 1..Len(Files)
    BY <1>1
  <2>1. k \in DOMAIN Files /\ Files[k] \in S
    BY <1>1, <2>0, ElementIs, Zenon
  <2>2. Files[k] \in Range(Files)
    BY <2>1, Zenon DEF Range
  <2>. QED  BY <2>1, <2>2
<1>3. Files[k].name \in Name
  BY <1>2 DEF Name
<1>4. Pair(Files[k].name, 0) \in Cell
  <2>1. 0 \in 0..(FSSIZE - 1)
    BY Layout
  <2>. QED  BY <1>3, <2>1 DEF Pair, Cell
<1>5. FileCells(Files[k].name, Files[k].size) \in Seq(Cell)
  BY <1>2, <1>4 DEF FileCells
<1>. QED  BY <1>1, <1>2, <1>3, <1>5, FilesAssumption

\* Inodes other than i keep their contents.
SameContents(I, D, J, E, i) ==
    \A j \in Inum : j # i => J[j] = I[j] /\ \A y \in Offs(I, j) : At(J, E, j, y) = At(I, D, j, y)

\* iappend() to inode i leaves the contents of all others alone.
LEMMA OthersKept ==
    ASSUME NEW M, NEW N, NEW i, Open(M, i), NEW cells, NEW n, AddedAll(M, N, i, cells, n)
    PROVE  SameContents(M.di, M.data, N.di, N.data, i)
<1>. SUFFICES ASSUME NEW j \in Inum, j # i, NEW y \in Offs(M.di, j)
     PROVE  At(N.di, N.data, j, y) = At(M.di, M.data, j, y)
  BY DEF SameContents, AddedAll
<1>1. Whole(M.di, M.data) /\ SizesOf(M.di)
  BY ImSizes DEF Open
<1>2. y \in Nat /\ y \div BSIZE < MAXFILE /\ Blk(M.di, M.data, j, y \div BSIZE) # 0
  BY <1>1, OffBlock
<1>3. Beyond(M.di, M.data, N.di, N.data, i, M.di[i].size..(M.di[i].size + n - 1))
  BY DEF AddedAll
<1>. QED  BY <1>2, <1>3 DEF Beyond

\* The entry of a new file.
LEMMA RootEntry ==
    ASSUME NEW M, Open(M, ROOTINO), Tree(M.di, M.data, {}), NEW i \in Inum, i # ROOTINO,
           NEW A, Ialloced(M, A, i, "FILE"), NEW name, NEW c, c = Pair(name, i), NoName(M.di, M.data, ROOTINO, name),
           NEW B, AddedAll(A, B, ROOTINO, Single(c), 1), Single(c)[1] = c
    PROVE  Tree(B.di, B.data, {})
<1>. PICK d : d = ROOTINO
  OBVIOUS
<1>. PICK x : x = A.di[d].size
  OBVIOUS
<1>0. d \in Inum /\ M.di[d].type = "DIR"
  BY Layout DEF Tree, Unlinked
<1>1. /\ Img(A) /\ Whole(A.di, A.data) /\ A.data = M.data /\ Born(M.di, A.di, i) /\ A.di[i].type = "FILE"
      /\ Alike(M.di, A.di, M.data)
  BY DEF Ialloced
<1>2. A.di[d] = M.di[d]
  BY <1>0, <1>1 DEF Born
<1>3. Tree(A.di, A.data, {i})
  <2>1. Tree(A.di, M.data, {} \cup {i})
    BY <1>1, TreeAlloc
  <2>2. {} \cup {i} = {i}
    OBVIOUS
  <2>. QED  BY <1>1, <2>1, <2>2
<1>4. NoName(A.di, A.data, d, name)
  <2>1. Offs(A.di, d) = Offs(M.di, d)
    BY <1>2 DEF Offs
  <2>2. \A y : At(A.di, A.data, d, y) = At(M.di, M.data, d, y)
    BY <1>0, <1>1, Zenon DEF Alike
  <2>. QED  BY <2>1, <2>2 DEF NoName
<1>5. Open(A, d)
  BY <1>0, <1>1, <1>2 DEF Open
<1>6. SameContents(A.di, A.data, B.di, B.data, d)
  BY <1>5, OthersKept
<1>7. SizesOf(A.di) /\ x \in Nat
  BY <1>0, <1>1, ImSizes DEF SizesOf
<1>8. /\ KeptIno(A.di[d], B.di[d]) /\ B.di[d].size = x + 1
      /\ \A y \in 1..1 : At(B.di, B.data, d, x + y - 1) = Single(c)[y]
      /\ Beyond(A.di, A.data, B.di, B.data, d, x..(x + 1 - 1))
  BY DEF AddedAll
<1>9. At(B.di, B.data, d, x) = c
  <2>1. 1 \in 1..1 /\ x + 1 - 1 = x
    BY <1>7
  <2>. QED  BY <1>8, <2>1
<1>10. ASSUME NEW y \in Offs(A.di, d)
       PROVE  At(B.di, B.data, d, y) = At(A.di, A.data, d, y)
  <2>1. y \in Nat /\ y \div BSIZE < MAXFILE /\ Blk(A.di, A.data, d, y \div BSIZE) # 0
    BY <1>0, <1>1, <1>7, OffBlock
  <2>2. y \notin x..(x + 1 - 1)
    BY <1>7 DEF Offs
  <2>. QED  BY <1>0, <1>8, <2>1, <2>2 DEF Beyond
<1>11. Put(A.di, A.data, B.di, B.data, d, c, x)
  <2>1. x \in 0..x /\ ~(x < x) /\ x + 1 > x
    BY <1>7
  <2>. QED  BY <1>8, <1>9, <1>10, <2>1 DEF Put
<1>12. Hung(A.di, A.data, B.di, B.data, i, d, name, x)
  <2>1. \A j \in Inum : B.di[j].type = A.di[j].type /\ B.di[j].nlink = A.di[j].nlink
    BY <1>6, <1>8 DEF SameContents, KeptIno
  <2>2. \A j \in Inum \ {i, d} : /\ B.di[j].size = A.di[j].size
                                 /\ \A y \in Offs(A.di, j) : At(B.di, B.data, j, y) = At(A.di, A.data, j, y)
    BY <1>6 DEF SameContents
  <2>3. NewDir(A.di, B.di, B.data, i, d)
    BY <1>0, <1>1, <2>1 DEF NewDir
  <2>. QED  BY <1>11, <2>1, <2>2, <2>3 DEF Hung
<1>13. d \in DirSet(A.di) \ {i}
  BY <1>0, <1>2 DEF DirSet
<1>14. Tree(B.di, B.data, {i} \ {i})
  <2>1. i \in {i}
    OBVIOUS
  <2>. QED  BY <1>3, <1>4, <1>7, <1>12, <1>13, <2>1, TreeLink
<1>15. {i} \ {i} = {}
  OBVIOUS
<1>. QED  BY <1>14, <1>15

\* The names of the root do not hold that of the next file.
LEMMA NextName ==
    ASSUME NEW k \in Nat, k + 1 \in 1..Len(Files), NEW I, NEW D, I[ROOTINO].size = k + 2, RootNames(I, D, k)
    PROVE  NoName(I, D, ROOTINO, Files[k + 1].name)
<1>1. /\ Files[k + 1].name \notin {".", ".."}
      /\ \A j \in 1..Len(Files) : Files[j].name = Files[k + 1].name => j = k + 1
  BY FileIs
<1>2. ~NameUpto(Files[k + 1].name, k)
  <2>1. \A j \in 1..k : j \in 1..Len(Files) /\ j # k + 1
    BY FsAssumption
  <2>. QED  BY <1>1, <2>1 DEF NameUpto
<1>3. Offs(I, ROOTINO) = 0..(k + 1)
  <2>1. (k + 2) - 1 = k + 1
    OBVIOUS
  <2>. QED  BY <2>1 DEF Offs
<1>. QED  BY <1>2, <1>3 DEF NoName, RootNames

\* The root after the data of file i.
LEMMA DataTree ==
    ASSUME NEW B, NEW i, Open(B, i), B.di[i].type = "FILE", Tree(B.di, B.data, {}), NEW cells, NEW n,
           NEW C, AddedAll(B, C, i, cells, n)
    PROVE  Tree(C.di, C.data, {})
<1>1. SameContents(B.di, B.data, C.di, C.data, i)
  BY OthersKept
<1>2. i \in Inum /\ KeptIno(B.di[i], C.di[i])
  BY DEF Open, AddedAll
<1>3. \A j \in Inum : C.di[j].type = B.di[j].type /\ C.di[j].nlink = B.di[j].nlink
  BY <1>1, <1>2 DEF SameContents, KeptIno
<1>4. \A d \in DirSet(B.di) : d \in Inum /\ d # i
  BY DEF DirSet
<1>5. SameTree(B.di, B.data, C.di, C.data)
  BY <1>1, <1>3, <1>4 DEF SameTree, SameContents
<1>. QED  BY <1>3, <1>5, TreeSame

\* What AddFile() does, step by step.
Steps(M, A, B, C, i, file) ==
    /\ A = MkIalloc(M, "FILE") /\ B = iappend(A, ROOTINO, Single(Pair(file.name, i)))
    /\ C = iappend(B, i, FileCells(file.name, file.size))

\* AddFile() is ialloc(), an entry in the root, and the contents, in that order.
LEMMA AddFileIs ==
    ASSUME NEW M, M.ok, NEW i, i = M.freeinode, NEW file
    PROVE  \E A, B, C : Steps(M, A, B, C, i, file) /\ C = AddFile(M, file)
BY DEF AddFile, Steps, Single, Pair, FileCells

\* The root's entries after a new file.
LEMMA NamesMore ==
    ASSUME NEW k \in Nat, NEW I, NEW D, NEW J, NEW E, RootNames(I, D, k),
           \A x \in 0..(k + 1) : At(J, E, ROOTINO, x) = At(I, D, ROOTINO, x),
           At(J, E, ROOTINO, k + 2)[1] = Files[k + 1].name
    PROVE  RootNames(J, E, k + 1)
<1>. SUFFICES ASSUME NEW x \in 0..((k + 1) + 1) PROVE NameUpto(At(J, E, ROOTINO, x)[1], k + 1)
  BY DEF RootNames
<1>1. CASE x = k + 2
  <2>1. k + 1 \in 1..(k + 1)
    OBVIOUS
  <2>. QED  BY <1>1, <2>1 DEF NameUpto
<1>2. CASE x # k + 2
  <2>1. x \in 0..(k + 1)
    BY <1>2
  <2>2. NameUpto(At(I, D, ROOTINO, x)[1], k)
    BY <2>1 DEF RootNames
  <2>3. \A j \in 1..k : j \in 1..(k + 1)
    OBVIOUS
  <2>. QED  BY <2>1, <2>2, <2>3 DEF NameUpto
<1>. QED  BY <1>1, <1>2

\* One more file.
LEMMA FileAdded ==
    ASSUME NEW k \in Nat, k + 1 \in 1..Len(Files), NEW M, Filled(M, k),
           NEW N, N = AddFile(M, Files[k + 1])
    PROVE  N \in Im /\ (N.ok => Filled(N, k + 1))
<1>. PICK i : i = k + 2
  OBVIOUS
<1>. PICK name : name = Files[k + 1].name
  OBVIOUS
<1>. PICK n : n = Files[k + 1].size
  OBVIOUS
<1>. PICK c : c = Pair(name, i)
  OBVIOUS
<1>1. /\ Img(M) /\ Whole(M.di, M.data) /\ M.freeinode = i
      /\ \A j \in Inum : j >= i => M.di[j].type = "0"
      /\ Tree(M.di, M.data, {}) /\ M.di[ROOTINO].size = i /\ RootNames(M.di, M.data, k)
      /\ Blank(M.di, M.data, ROOTINO)
  BY DEF Filled
<1>2. i \in Inum /\ i # ROOTINO /\ ROOTINO \in Inum /\ i \in Nat /\ ~(ROOTINO >= i)
  <2>1. Len(Files) \in Nat /\ Len(Files) + 2 <= NINODES /\ NINODES \in Nat
    BY FsAssumption, FilesAssumption, Layout
  <2>. QED  BY <2>1 DEF Inum, ROOTINO
<1>3. name \in Name /\ n \in Nat /\ FileCells(name, n) \in Seq(Cell)
  BY FileIs
<1>4. c \in Cell /\ Single(c) \in Seq(Cell) /\ Len(Single(c)) = 1 /\ Single(c)[1] = c
  BY <1>2, <1>3, PairCell, SingleIs
<1>5. PICK A, B, C : Steps(M, A, B, C, i, Files[k + 1]) /\ C = N
  <2>1. M.ok
    BY <1>1 DEF Img
  <2>. QED  BY <1>1, <2>1, AddFileIs
<1>6. A = MkIalloc(M, "FILE") /\ B = iappend(A, ROOTINO, Single(c)) /\ N = iappend(B, i, FileCells(name, n))
  BY <1>5 DEF Steps
<1>7. Ialloced(M, A, i, "FILE")
  <2>1. M.di[i].type = "0"
    BY <1>1, <1>2
  <2>. QED  BY <1>1, <1>2, <1>6, <2>1, MkIallocIs
<1>8. M.di[ROOTINO].type = "DIR" /\ Open(M, ROOTINO)
  BY <1>1, <1>2 DEF Open, Tree, Unlinked
<1>9. A.di[ROOTINO] = M.di[ROOTINO] /\ Open(A, ROOTINO) /\ A \in Im
  BY <1>2, <1>7, <1>8 DEF Ialloced, Born, Open, Img
<1>10. B \in Im /\ (B.ok => AddedAll(A, B, ROOTINO, Single(c), 1))
  <2>. PICK z : z = Single(c)
    OBVIOUS
  <2>1. z \in Seq(Cell) /\ Len(z) = 1 /\ B = iappend(A, ROOTINO, z)
    BY <1>4, <1>6
  <2>2. B \in Im /\ (B.ok => A.ok /\ AddedAll(A, B, ROOTINO, z, Len(z)))
    BY <1>9, <2>1, IappendIs, Zenon
  <2>. QED  BY <2>1, <2>2
<1>11. ASSUME B.ok
       PROVE  Open(B, i) /\ B.di[i].type = "FILE"
  <2>1. AddedAll(A, B, ROOTINO, Single(c), 1)
    BY <1>10, <1>11
  <2>2. B.di[i] = A.di[i] /\ A.di[i].type = "FILE"
    BY <1>2, <1>7, <2>1 DEF AddedAll, Ialloced
  <2>. QED  BY <1>2, <2>1, <2>2 DEF AddedAll, Open
<1>12. N \in Im /\ (N.ok => B.ok /\ AddedAll(B, N, i, FileCells(name, n), Len(FileCells(name, n))))
  <2>. PICK z : z = FileCells(name, n)
    OBVIOUS
  <2>1. z \in Seq(Cell) /\ N = iappend(B, i, z) /\ B \in Im /\ (B.ok => Open(B, i))
    BY <1>3, <1>6, <1>10, <1>11
  <2>2. N \in Im /\ (N.ok => B.ok /\ AddedAll(B, N, i, z, Len(z)))
    BY <2>1, IappendIs, Zenon
  <2>. QED  BY <2>2
<1>13. ASSUME N.ok
       PROVE  Filled(N, k + 1)
  <2>0. PICK m : m = Len(FileCells(name, n))
    OBVIOUS
  <2>1. /\ AddedAll(A, B, ROOTINO, Single(c), 1) /\ Open(B, i) /\ B.di[i].type = "FILE"
        /\ AddedAll(B, N, i, FileCells(name, n), m)
    BY <1>10, <1>11, <1>12, <1>13, <2>0
  <2>2. Tree(B.di, B.data, {})
    <3>1. NoName(M.di, M.data, ROOTINO, name)
      BY <1>1, NextName
    <3>. QED  BY <1>1, <1>2, <1>4, <1>7, <1>8, <2>1, <3>1, RootEntry
  <2>3. Tree(N.di, N.data, {})
    BY <2>1, <2>2, DataTree
  <2>4. Img(N) /\ Whole(N.di, N.data) /\ N.freeinode = (k + 1) + 2
    <3>1. A.freeinode = i + 1 /\ B.freeinode = A.freeinode /\ N.freeinode = B.freeinode
      BY <1>7, <2>1 DEF Ialloced, AddedAll
    <3>2. i + 1 = (k + 1) + 2
      OBVIOUS
    <3>. QED  BY <2>1, <3>1, <3>2 DEF AddedAll
  <2>5. N.di[ROOTINO] = B.di[ROOTINO] /\ N.di[ROOTINO].size = (k + 1) + 2
    <3>1. N.di[ROOTINO] = B.di[ROOTINO] /\ B.di[ROOTINO].size = A.di[ROOTINO].size + 1
      BY <1>2, <2>1 DEF AddedAll
    <3>2. A.di[ROOTINO].size = i
      BY <1>1, <1>9
    <3>3. i + 1 = (k + 1) + 2
      OBVIOUS
    <3>. QED  BY <3>1, <3>2, <3>3
  <2>6. ASSUME NEW j \in Inum, j >= (k + 1) + 2
        PROVE  N.di[j].type = "0"
    <3>1. j # i /\ j # ROOTINO /\ j >= i
      BY <2>6 DEF Inum, ROOTINO
    <3>2. N.di[j] = B.di[j] /\ B.di[j] = A.di[j] /\ A.di[j] = M.di[j]
      BY <1>7, <2>1, <3>1 DEF AddedAll, Ialloced, Born
    <3>. QED  BY <1>1, <3>1, <3>2
  <2>7. RootNames(N.di, N.data, k + 1)
    <3>1. \A x : At(A.di, A.data, ROOTINO, x) = At(M.di, M.data, ROOTINO, x)
      BY <1>2, <1>7, Zenon DEF Ialloced, Alike
    <3>2. Whole(A.di, A.data) /\ SizesOf(A.di) /\ A.di[ROOTINO].size = i
      BY <1>1, <1>9, ImSizes DEF Open
    <3>3. ASSUME NEW x \in 0..(k + 1)
          PROVE  At(B.di, B.data, ROOTINO, x) = At(A.di, A.data, ROOTINO, x)
      <4>1. x \in Offs(A.di, ROOTINO)
        BY <3>2 DEF Offs
      <4>2. x \in Nat /\ x \div BSIZE < MAXFILE /\ Blk(A.di, A.data, ROOTINO, x \div BSIZE) # 0
        BY <1>2, <3>2, <4>1, OffBlock
      <4>3. x \notin i..(i + 1 - 1)
        OBVIOUS
      <4>4. Beyond(A.di, A.data, B.di, B.data, ROOTINO, i..(i + 1 - 1))
        BY <2>1, <3>2 DEF AddedAll
      <4>. QED  BY <1>2, <4>2, <4>3, <4>4 DEF Beyond
    <3>4. At(B.di, B.data, ROOTINO, i) = c
      <4>1. \A x \in 1..1 : At(B.di, B.data, ROOTINO, i + x - 1) = Single(c)[x]
        BY <2>1, <3>2 DEF AddedAll
      <4>2. 1 \in 1..1 /\ i + 1 - 1 = i
        BY <1>2
      <4>. QED  BY <1>4, <4>1, <4>2
    <3>5. \A x \in Offs(B.di, ROOTINO) : At(N.di, N.data, ROOTINO, x) = At(B.di, B.data, ROOTINO, x)
      <4>1. SameContents(B.di, B.data, N.di, N.data, i)
        BY <2>1, OthersKept
      <4>. QED  BY <1>2, <4>1 DEF SameContents
    <3>6. Offs(B.di, ROOTINO) = 0..(k + 2)
      <4>1. B.di[ROOTINO].size = (k + 1) + 2
        BY <2>5
      <4>2. ((k + 1) + 2) - 1 = k + 2
        OBVIOUS
      <4>. QED  BY <4>1, <4>2 DEF Offs
    <3>7. \A x \in 0..(k + 1) : At(N.di, N.data, ROOTINO, x) = At(M.di, M.data, ROOTINO, x)
      <4>1. \A x \in 0..(k + 1) : x \in 0..(k + 2)
        OBVIOUS
      <4>. QED  BY <3>1, <3>3, <3>5, <3>6, <4>1
    <3>8. At(N.di, N.data, ROOTINO, k + 2)[1] = Files[k + 1].name
      <4>1. k + 2 \in 0..(k + 2)
        OBVIOUS
      <4>2. c[1] = name
        BY PairIs
      <4>. QED  BY <3>4, <3>5, <3>6, <4>1, <4>2
    <3>. QED  BY <1>1, <3>7, <3>8, NamesMore
  <2>8. Blank(N.di, N.data, ROOTINO)
    <3>1. Blank(A.di, A.data, ROOTINO)
      <4>1. A.data = M.data /\ Alike(M.di, A.di, M.data)
        BY <1>7 DEF Ialloced
      <4>2. /\ \A x : At(A.di, A.data, ROOTINO, x) = At(M.di, M.data, ROOTINO, x)
            /\ \A x : Blk(A.di, A.data, ROOTINO, x) = Blk(M.di, M.data, ROOTINO, x)
        BY <1>2, <4>1, Zenon DEF Alike
      <4>. QED  BY <1>1, <1>9, <4>2 DEF Blank
    <3>. QED  BY <1>2, <2>1, <3>1 DEF AddedAll
  <2>. QED  BY <2>3, <2>4, <2>5, <2>6, <2>7, <2>8 DEF Filled
<1>. QED  BY <1>12, <1>13

\* All files: W[n] is the image after n of them, from R on.
Adding(W, R) == W = [n \in 0..Len(Files) |-> IF n = 0 THEN R ELSE AddFile(W[n - 1], Files[n])]
AllFiles(R) == (CHOOSE W : Adding(W, R))[Len(Files)]

\* One step: a file more, or mkfs gave up.
LEMMA AddOne ==
    ASSUME NEW n \in 1..Len(Files), NEW M \in Im, M.ok => Filled(M, n - 1),
           NEW N, N = AddFile(M, Files[n])
    PROVE  N \in Im /\ (N.ok => Filled(N, n))
<1>1. CASE ~M.ok
  BY <1>1 DEF AddFile
<1>2. CASE M.ok
  <2>. PICK k : k = n - 1
    OBVIOUS
  <2>1. k \in Nat /\ k + 1 = n
    BY FsAssumption
  <2>2. k + 1 \in 1..Len(Files) /\ Filled(M, k) /\ N = AddFile(M, Files[k + 1])
    BY <1>2, <2>1
  <2>3. N \in Im /\ (N.ok => Filled(N, k + 1))
    BY <2>1, <2>2, FileAdded
  <2>. QED  BY <2>1, <2>3
<1>. QED  BY <1>1, <1>2

\* All files are in the image, or mkfs gave up.
LEMMA AllAdded ==
    ASSUME NEW R \in Im, R.ok => Filled(R, 0)
    PROVE  AllFiles(R) \in Im /\ (AllFiles(R).ok => Filled(AllFiles(R), Len(Files)))
<1>. DEFINE N == Len(Files)
            T == [n \in 0..N |-> {G \in Im : G.ok => Filled(G, n)}]
            h == [z \in Im \X (1..N) |-> AddFile(z[1], Files[z[2]])]
<1>0. N \in Nat
  BY FsAssumption
<1>1. R \in T[0]
  BY <1>0
<1>2. ASSUME NEW n \in 1..N, NEW H \in T[n - 1]
      PROVE  AddFile(H, Files[n]) \in T[n] /\ H \in Im /\ h[<<H, n>>] = AddFile(H, Files[n])
  <2>1. n - 1 \in 0..N /\ n \in 0..N
    BY <1>0
  <2>2. H \in Im /\ (H.ok => Filled(H, n - 1))
    BY <2>1
  <2>3. AddFile(H, Files[n]) \in Im /\ (AddFile(H, Files[n]).ok => Filled(AddFile(H, Files[n]), n))
    BY <2>2, AddOne
  <2>4. h[<<H, n>>] = AddFile(H, Files[n])
    BY <2>2
  <2>. QED  BY <2>1, <2>2, <2>3, <2>4
<1>. HIDE DEF T, h
<1>3. \E f : Adding(f, R)
  <2>1. PICK f : Iterates(f, R, h, N)
    BY <1>0, Iteration
  <2>2. \A n \in 0..N : f[n] = IF n = 0 THEN R ELSE h[<<f[n - 1], n>>]
    BY <2>1, Zenon DEF Iterates
  <2>3. f[0] \in T[0]
    <3>1. 0 \in 0..N
      BY <1>0
    <3>2. f[0] = R
      BY <2>2, <3>1, Zenon
    <3>. QED  BY <1>1, <3>2
  <2>4. ASSUME NEW n \in 1..N, f[n - 1] \in T[n - 1]
        PROVE  f[n] \in T[n] /\ f[n] = AddFile(f[n - 1], Files[n])
    <3>1. n \in 0..N /\ n # 0
      BY <1>0
    <3>2. f[n] = h[<<f[n - 1], n>>]
      BY <2>2, <3>1
    <3>. QED  BY <1>2, <2>4, <3>2
  <2>5. \A n \in 0..N : f[n] \in T[n]
    BY <1>0, <2>3, <2>4, Stays
  <2>6. \A n \in 0..N : n # 0 => n \in 1..N /\ n - 1 \in 0..N
    BY <1>0
  <2>7. \A n \in 0..N : f[n] = IF n = 0 THEN R ELSE AddFile(f[n - 1], Files[n])
    BY <2>2, <2>4, <2>5, <2>6
  <2>8. f = [n \in 0..N |-> f[n]]
    BY <2>1 DEF Iterates
  <2>. QED  BY <2>7, <2>8 DEF Adding
<1>. DEFINE W == CHOOSE f : Adding(f, R)
<1>4. Adding(W, R)
  BY <1>3, Zenon
<1>5. AllFiles(R) = W[N]
  BY DEF AllFiles
<1>. HIDE DEF W
<1>6. \A n \in 0..N : W[n] = IF n = 0 THEN R ELSE AddFile(W[n - 1], Files[n])
  BY <1>4, Zenon DEF Adding
<1>7. W[0] \in T[0]
  BY <1>0, <1>1, <1>6
<1>8. ASSUME NEW n \in 1..N, W[n - 1] \in T[n - 1]
      PROVE  W[n] \in T[n]
  <2>1. n \in 0..N /\ n # 0
    BY <1>0
  <2>2. W[n] = AddFile(W[n - 1], Files[n])
    BY <1>6, <2>1
  <2>. QED  BY <1>2, <1>8, <2>2
<1>9. \A n \in 0..N : W[n] \in T[n]
  BY <1>0, <1>7, <1>8, Stays
<1>10. N \in 0..N
  BY <1>0
<1>11. W[N] \in {G \in Im : G.ok => Filled(G, N)}
  BY <1>9, <1>10 DEF T
<1>. QED  BY <1>5, <1>11

\* The image of mkfs.
LEMMA ImageIs ==
    Image(Files) = RoundRoot(AllFiles(iappend(MkIalloc(NoImage, "DIR"), ROOTINO, DotCells)))
BY DEF Image, AllFiles, Adding, DotCells, Pair

\* The root is longer, by empty entries.
Longer(I, J, D) ==
    /\ \A i \in Inum : i # ROOTINO => J[i] = I[i]
    /\ J[ROOTINO].type = I[ROOTINO].type /\ J[ROOTINO].nlink = I[ROOTINO].nlink
    /\ \A i \in Inum : \A x : At(J, D, i, x) = At(I, D, i, x)
    /\ \A x \in Offs(I, ROOTINO) : x \in Offs(J, ROOTINO)
    /\ \A x \in Offs(J, ROOTINO) : x \in Offs(I, ROOTINO) \/ At(I, D, ROOTINO, x)[2] = 0

\* Entries that are not empty were there before.
LEMMA LongerEntries ==
    ASSUME NEW I, NEW J, NEW D, Longer(I, J, D)
    PROVE  /\ DirSet(J) = DirSet(I) /\ \A i \in Inum : J[i].type = I[i].type /\ J[i].nlink = I[i].nlink
           /\ \A d \in DirSet(I) : \A x \in Offs(I, d) : x \in Offs(J, d)
           /\ \A d \in DirSet(I) : \A x \in Offs(J, d) : x \in Offs(I, d) \/ At(J, D, d, x)[2] = 0
           /\ \A d \in DirSet(I) : \A x : At(J, D, d, x) = At(I, D, d, x)
<1>1. \A i \in Inum : J[i].type = I[i].type /\ J[i].nlink = I[i].nlink
  BY DEF Longer
<1>2. DirSet(J) = DirSet(I) /\ DirSet(I) \subseteq Inum
  BY <1>1 DEF DirSet
<1>3. \A d \in DirSet(I) : \A x : At(J, D, d, x) = At(I, D, d, x)
  BY <1>2 DEF Longer
<1>4. ASSUME NEW d \in DirSet(I)
      PROVE  /\ \A x \in Offs(I, d) : x \in Offs(J, d)
             /\ \A x \in Offs(J, d) : x \in Offs(I, d) \/ At(J, D, d, x)[2] = 0
  <2>1. CASE d = ROOTINO
    BY <1>3, <2>1 DEF Longer
  <2>2. CASE d # ROOTINO
    <3>1. Offs(J, d) = Offs(I, d)
      BY <1>2, <2>2 DEF Longer, Offs
    <3>. QED  BY <3>1
  <2>. QED  BY <2>1, <2>2
<1>. QED  BY <1>1, <1>2, <1>3, <1>4

\* It is the same tree.
LEMMA TreeLonger ==
    ASSUME NEW I, NEW J, NEW D, Tree(I, D, {}), Longer(I, J, D)
    PROVE  Tree(J, D, {})
<1>1. /\ DirSet(J) = DirSet(I) /\ \A i \in Inum : J[i].type = I[i].type /\ J[i].nlink = I[i].nlink
      /\ \A d \in DirSet(I) : \A x \in Offs(I, d) : x \in Offs(J, d)
      /\ \A d \in DirSet(I) : \A x \in Offs(J, d) : x \in Offs(I, d) \/ At(J, D, d, x)[2] = 0
      /\ \A d \in DirSet(I) : \A x : At(J, D, d, x) = At(I, D, d, x)
  BY LongerEntries
<1>2. Leads(J, D)
  BY <1>1 DEF Tree, Leads
<1>3. Settled(J, D, {})
  BY DEF Settled
<1>4. Distinct(J, D)
  BY <1>1 DEF Tree, Distinct
<1>5. Dotted(J, D, {})
  BY <1>1 DEF Tree, Dotted
<1>6. Parented(J, D)
  <2>. SUFFICES ASSUME NEW i \in Inum, NEW d \in DirSet(J), NEW e \in DirSet(J),
                       NEW x \in Offs(J, d), NEW y \in Offs(J, e), UpAt(J, D, d, x, i), UpAt(J, D, e, y, i)
       PROVE  d = e /\ x = y
    BY DEF Parented
  <2>1. i # 0
    BY DEF Inum
  <2>2. x \in Offs(I, d) /\ y \in Offs(I, e) /\ UpAt(I, D, d, x, i) /\ UpAt(I, D, e, y, i)
    BY <1>1, <2>1 DEF UpAt
  <2>. QED  BY <1>1, <2>2 DEF Tree, Parented
<1>7. Reached(J, D, {})
  <2>. SUFFICES ASSUME NEW i \in Inum \ ({} \cup {ROOTINO}), J[i].type # "0"
       PROVE  \E d \in DirSet(J) : \E x \in Offs(J, d) : UpAt(J, D, d, x, i)
    BY DEF Reached
  <2>1. PICK d \in DirSet(I) : \E x \in Offs(I, d) : UpAt(I, D, d, x, i)
    BY <1>1 DEF Tree, Reached
  <2>2. PICK x \in Offs(I, d) : UpAt(I, D, d, x, i)
    BY <2>1
  <2>3. UpAt(J, D, d, x, i) /\ x \in Offs(J, d)
    BY <1>1, <2>2 DEF UpAt
  <2>. QED  BY <1>1, <2>3
<1>8. Counted(J, D)
  <2>1. ASSUME NEW i PROVE Below(J, D, i) = Below(I, D, i)
    <3>1. \A d \in DirSet(I) \ {ROOTINO} : Offs(J, d) = Offs(I, d)
      BY DEF Longer, Offs, DirSet
    <3>. QED  BY <1>1, <3>1 DEF Below
  <2>. QED  BY <1>1, <2>1 DEF Tree, Counted
<1>9. Unlinked(J, {})
  <2>1. ROOTINO \in Inum
    BY Layout
  <2>. QED  BY <1>1, <2>1 DEF Tree, Unlinked
<1>. QED  BY <1>2, <1>3, <1>4, <1>5, <1>6, <1>7, <1>8, <1>9 DEF Tree

\* The end of the block that a file ends in.
EndOf(s) == (s \div BSIZE + 1) * BSIZE

\* Rounding up stays within the largest file and opens no new block.
LEMMA EndIs ==
    ASSUME NEW s \in Nat, s % BSIZE # 0, s <= MAXFILE * BSIZE
    PROVE  /\ EndOf(s) \in Nat /\ EndOf(s) > s /\ EndOf(s) <= MAXFILE * BSIZE
           /\ s \div BSIZE \in 0..(MAXFILE - 1) /\ (s \div BSIZE) * BSIZE < s
           /\ \A n \in Nat : n * BSIZE < EndOf(s) => n * BSIZE < s
           /\ \A x \in Nat : s <= x /\ x < EndOf(s) => x \div BSIZE = s \div BSIZE
<1>. PICK q, r : q = s \div BSIZE /\ r = s % BSIZE
  OBVIOUS
<1>1. q \in Nat /\ r \in 0..(BSIZE - 1) /\ s = BSIZE * q + r /\ q * BSIZE <= s /\ s < (q + 1) * BSIZE
  BY CellOf
<1>2. BSIZE \in Nat /\ BSIZE > 1 /\ MAXFILE \in Nat
  BY Layout
<1>3. \A n \in Nat : n * BSIZE # s
  <2>. SUFFICES ASSUME NEW n \in Nat, n * BSIZE = s PROVE FALSE
    OBVIOUS
  <2>1. s \div BSIZE = n
    BY FirstCell
  <2>2. s = BSIZE * n + r
    BY <1>1, <2>1
  <2>3. BSIZE * n = n * BSIZE /\ n * BSIZE \in Nat
    BY <1>2
  <2>4. r = 0
    BY <1>1, <2>2, <2>3
  <2>. QED  BY <2>4
<1>4. s < MAXFILE * BSIZE
  BY <1>2, <1>3, MaxCells
<1>5. q < MAXFILE
  BY <1>2, <1>4, CellBelow
<1>6. q \in 0..(MAXFILE - 1) /\ q + 1 \in Nat /\ q + 1 <= MAXFILE
  BY <1>1, <1>2, <1>5
<1>7. EndOf(s) = (q + 1) * BSIZE
  BY DEF EndOf
<1>8. (q + 1) * BSIZE <= MAXFILE * BSIZE /\ (q + 1) * BSIZE \in Nat
  BY <1>2, <1>6, MoreCells
<1>9. q * BSIZE < s
  <2>1. q * BSIZE \in Nat
    BY <1>1, FirstCell
  <2>. QED  BY <1>1, <1>3, <2>1
<1>10. ASSUME NEW n \in Nat, n * BSIZE < (q + 1) * BSIZE PROVE n * BSIZE < s
  <2>1. n * BSIZE \in Nat /\ (n * BSIZE) \div BSIZE = n
    BY FirstCell
  <2>2. n < q + 1
    BY <1>6, <1>10, <2>1, CellBelow
  <2>3. n <= q
    BY <1>1, <2>2
  <2>4. n * BSIZE <= q * BSIZE /\ q * BSIZE \in Nat
    BY <1>1, <2>3, MoreCells
  <2>. QED  BY <1>9, <2>1, <2>4
<1>11. ASSUME NEW x \in Nat, s <= x, x < (q + 1) * BSIZE PROVE x \div BSIZE = q
  <2>1. x \div BSIZE < q + 1 /\ x \div BSIZE \in Nat
    BY <1>6, <1>11, CellBelow, CellOf
  <2>2. ~(x < q * BSIZE)
    <3>1. q * BSIZE \in Nat
      BY <1>1, FirstCell
    <3>. QED  BY <1>1, <1>11, <3>1
  <2>3. ~(x \div BSIZE < q)
    BY <1>1, <2>2, CellBelow
  <2>. QED  BY <1>1, <2>1, <2>3
<1>. QED  BY <1>1, <1>6, <1>7, <1>8, <1>9, <1>10, <1>11

\* The image with the root's size rounded up.
LEMMA RoundRootIs ==
    ASSUME NEW M, Filled(M, Len(Files)), NEW N, N = RoundRoot(M)
    PROVE  Img(N) /\ Whole(N.di, N.data) /\ Tree(N.di, N.data, {})
<1>. PICK s, I, D : s = Len(Files) + 2 /\ I = M.di /\ D = M.data
  OBVIOUS
<1>0. s \in Nat /\ s % BSIZE # 0 /\ ROOTINO \in Inum
  BY FsAssumption, FilesAssumption, Layout
<1>1. /\ Img(M) /\ Whole(I, D) /\ Tree(I, D, {}) /\ I[ROOTINO].size = s /\ Blank(I, D, ROOTINO)
      /\ M \in Im /\ M.ok /\ I \in Inodes /\ D \in Datas
  BY ImSizes DEF Filled
<1>. PICK z : z = EndOf(s)
  OBVIOUS
<1>. PICK J : J = SizeTo(I, ROOTINO, z)
  OBVIOUS
<1>2. s <= MAXFILE * BSIZE
  BY <1>0, <1>1 DEF Whole
<1>. PICK q : q = s \div BSIZE
  OBVIOUS
<1>3. /\ z \in Nat /\ z > s /\ z <= MAXFILE * BSIZE
      /\ q \in 0..(MAXFILE - 1) /\ q * BSIZE < s
      /\ \A n \in Nat : n * BSIZE < z => n * BSIZE < s
      /\ \A x \in Nat : s <= x /\ x < z => x \div BSIZE = q
  BY <1>0, <1>2, EndIs
<1>4. N = [M EXCEPT !.di = J]
  BY <1>1 DEF RoundRoot, SizeTo, EndOf
<1>5. /\ J \in Inodes /\ \A j \in Inum : j # ROOTINO => J[j] = I[j]
      /\ J[ROOTINO].size = z /\ KeptIno(I[ROOTINO], J[ROOTINO])
      /\ \A j \in Inum : J[j].addrs = I[j].addrs
  <2>1. HasSizeTo(I, J, ROOTINO, z)
    BY <1>0, <1>1, <1>3, SizeToIs
  <2>. QED  BY <2>1 DEF HasSizeTo
<1>6. /\ \A j \in Inum : \A n : Blk(J, D, j, n) = Blk(I, D, j, n)
      /\ \A j \in Inum : \A o : At(J, D, j, o) = At(I, D, j, o)
      /\ \A U : Blocks(I, D, U) => Blocks(J, D, U)
  <2>1. Alike(I, J, D)
    BY <1>5, SameAddrs
  <2>. QED  BY <2>1, Zenon DEF Alike
<1>7. HasInodes(M, N, J, M.freeinode)
  <2>1. M.freeinode \in Nat
    BY <1>1, ImTypes
  <2>. QED  BY <1>1, <1>4, <1>5, <2>1 DEF HasInodes, Im
<1>8. Img(N)
  BY <1>1, <1>6, <1>7 DEF Img, HasInodes
<1>9. Whole(J, D)
  <2>1. ASSUME NEW j \in Inum, j # ROOTINO
        PROVE  /\ \A n \in 0..(MAXFILE - 1) : n * BSIZE < J[j].size => Blk(J, D, j, n) # 0
               /\ J[j].size <= MAXFILE * BSIZE
               /\ J[j].type = "0" => J[j].addrs = NoAddrs /\ J[j].size = 0
    <3>1. J[j] = I[j] /\ Whole(I, D)
      BY <1>1, <1>5, <2>1
    <3>2. \A n : Blk(J, D, j, n) = Blk(I, D, j, n)
      BY <1>6
    <3>. QED  BY <3>1, <3>2, Zenon DEF Whole
  <2>2. ASSUME NEW n \in 0..(MAXFILE - 1), n * BSIZE < z
        PROVE  Blk(J, D, ROOTINO, n) # 0
    <3>1. n \in Nat
      OBVIOUS
    <3>2. n * BSIZE < s
      BY <1>3, <2>2, <3>1
    <3>3. Blk(I, D, ROOTINO, n) # 0
      BY <1>0, <1>1, <3>2 DEF Whole
    <3>. QED  BY <1>0, <1>6, <3>3
  <2>3. J[ROOTINO].type # "0"
    BY <1>1, <1>5 DEF KeptIno, Tree, Unlinked
  <2>. QED  BY <1>3, <1>5, <2>1, <2>2, <2>3, Zenon DEF Whole
<1>10. Longer(I, J, D)
  <2>1. \A x \in Offs(I, ROOTINO) : x \in Offs(J, ROOTINO)
    BY <1>0, <1>1, <1>3, <1>5 DEF Offs
  <2>2. ASSUME NEW x \in Offs(J, ROOTINO), x \notin Offs(I, ROOTINO)
        PROVE  At(I, D, ROOTINO, x)[2] = 0
    <3>1. x \in Nat /\ s <= x /\ x < z
      BY <1>0, <1>1, <1>3, <1>5, <2>2 DEF Offs
    <3>2. x \div BSIZE = q
      BY <1>3, <3>1
    <3>3. Blk(I, D, ROOTINO, q) # 0
      BY <1>0, <1>1, <1>3 DEF Whole
    <3>4. q < MAXFILE
      BY <1>3, BelowMax, Zenon
    <3>5. At(I, D, ROOTINO, x) = Zero
      BY <1>1, <3>1, <3>2, <3>3, <3>4 DEF Blank
    <3>. QED  BY <3>5, Types
  <2>. QED  BY <1>0, <1>5, <1>6, <2>1, <2>2 DEF Longer, KeptIno
<1>11. Tree(J, D, {})
  BY <1>1, <1>10, TreeLonger
<1>. QED  BY <1>7, <1>8, <1>9, <1>11 DEF HasInodes

\* RoundRoot() does not let mkfs go on.
LEMMA RoundOk ==
    ASSUME NEW M \in Im, NEW N, N = RoundRoot(M)
    PROVE  N.ok = M.ok
BY DEF RoundRoot, Im

\* The image that mkfs builds (main() and iappend()) is sound: every block has
\* one owner and is marked, files have no holes, directories and links are right.
THEOREM ImageSound ==
    /\ Img(Image(Files)) /\ Whole(Image(Files).di, Image(Files).data)
    /\ Tree(Image(Files).di, Image(Files).data, {})
<1>. PICK A, R, M, N : A = MkIalloc(NoImage, "DIR") /\ R = iappend(A, ROOTINO, DotCells)
                       /\ M = AllFiles(R) /\ N = RoundRoot(M)
  OBVIOUS
<1>1. N = Image(Files)
  BY ImageIs
<1>2. R \in Im
  <2>1. ROOTINO \in Inum
    BY Layout
  <2>2. Ialloced(NoImage, A, ROOTINO, "DIR")
    BY <2>1, NoImageIs, MkIallocIs
  <2>3. A \in Im /\ Open(A, ROOTINO)
    BY <2>1, <2>2 DEF Ialloced, Open, Img
  <2>. QED  BY <2>3, DotCellsAre, IappendIs
<1>3. R.ok => Filled(R, 0)
  BY RootImage
<1>4. M \in Im /\ (M.ok => Filled(M, Len(Files)))
  BY <1>2, <1>3, AllAdded
<1>5. N.ok
  BY <1>1, FilesAssumption
<1>6. M.ok
  BY <1>4, <1>5, RoundOk
<1>7. Img(N) /\ Whole(N.di, N.data) /\ Tree(N.di, N.data, {})
  BY <1>4, <1>6, RoundRootIs
<1>. QED  BY <1>1, <1>7
=============================================================================
