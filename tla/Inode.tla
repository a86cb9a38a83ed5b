-------------------------------- MODULE Inode --------------------------------
(***************************************************************************)
(* The file system proper (kern/fs.c): blocks, inodes, the inode cache and *)
(* directories, and the image that user/src/mkfs builds.  Every operator   *)
(* maps a file system state F to the next one:                             *)
(*   di     disk inodes                data   contents of the data blocks  *)
(*   used   blocks marked in the bitmap                                    *)
(*   ic     icache.inode               log    blocks given to log_write()  *)
(*   panic  the call of panic() that stopped the kernel, or "no"           *)
(* The unit of a file is a cell <<name, num>>: a directory entry, a block  *)
(* number of an indirect block, or user data; all zero bytes are Zero.     *)
(* Device number, timestamps and superblock reads are left out: there is   *)
(* one device.                                                             *)
(***************************************************************************)
EXTENDS Naturals, Sequences, FiniteSets, SequencesExt

CONSTANTS BSIZE,        \* cells of a block
          NDIRECT,      \* direct blocks of an inode
          NINODES,      \* disk inodes, number 0 is never used
          NINODE,       \* entries of the inode cache
          FSSIZE,       \* blocks of the file system
          nlog,         \* blocks of the log
          CONSOLE,      \* the major number with an entry in devsw
          NoProc        \* holder of a free sleep lock

ASSUME InodeAssumption ==
    /\ {BSIZE, NDIRECT, NINODE, FSSIZE} \subseteq Nat \ {0}
    /\ NINODES \in Nat /\ NINODES >= 2 /\ nlog \in Nat /\ CONSOLE \in Nat

ROOTINO == 1
NINDIRECT == BSIZE
MAXFILE == NDIRECT + NINDIRECT
IPB == 1                       \* inodes per block: the least possible
BPB == FSSIZE + 1              \* bits per bitmap block: one block is enough

nbitmap == FSSIZE \div BPB + 1
ninodeblocks == NINODES \div IPB + 1
nmeta == 2 + nlog + ninodeblocks + nbitmap
inodestart == 2 + nlog
bmapstart == 2 + nlog + ninodeblocks
IBLOCK(i) == i \div IPB + inodestart
BBLOCK(b) == b \div BPB + bmapstart

Inum == 1..(NINODES - 1)
Slot == 1..NINODE              \* entries of icache.inode; 0 is a null pointer
Zero == <<"", 0>>
ZeroBlock == [i \in 0..(BSIZE - 1) |-> Zero]
NoAddrs == [i \in 0..NDIRECT |-> 0]

\* memset(dip, 0, sizeof(*dip))
NoInode == [type |-> "0", major |-> 0, nlink |-> 0, size |-> 0, addrs |-> NoAddrs]

Ok(F) == F.panic = "no"
Panic(F, why) == IF Ok(F) THEN [F EXCEPT !.panic = why] ELSE F

-----------------------------------------------------------------------------
(* mkfs: M is the image being written, M.freeblock and M.freeinode its     *)
(* counters; M.ok is FALSE once mkfs gave up.                              *)

NoImage == [di |-> [i \in Inum |-> NoInode],
            data |-> [b \in nmeta..(FSSIZE - 1) |-> ZeroBlock],
            freeblock |-> nmeta, freeinode |-> ROOTINO, ok |-> TRUE]

MkIalloc(M, type) ==
    [M EXCEPT !.di[M.freeinode] = [NoInode EXCEPT !.type = type, !.nlink = 1],
              !.freeinode = @ + 1]

GiveUp(M) == [im |-> [M EXCEPT !.ok = FALSE], b |-> 0]

\* freeblock++; rsect() of a block past the end of the image makes mkfs exit.
TakeBlock(M) ==
    IF M.freeblock >= FSSIZE THEN GiveUp(M)
    ELSE [im |-> [M EXCEPT !.freeblock = @ + 1], b |-> M.freeblock]

SetDirect(r, inum, i) ==
    IF r.im.ok THEN [r EXCEPT !.im.di[inum].addrs[i] = r.b] ELSE r
SetIndirect(r, ind, j) ==
    IF r.im.ok THEN [r EXCEPT !.im.data[ind][j] = <<"", r.b>>] ELSE r

MkDirect(M, inum, i) ==
    IF M.di[inum].addrs[i] # 0 THEN [im |-> M, b |-> M.di[inum].addrs[i]]
    ELSE SetDirect(TakeBlock(M), inum, i)

MkIndirect(r, j) ==
    IF ~r.im.ok THEN r
    ELSE IF r.im.data[r.b][j] # Zero THEN [im |-> r.im, b |-> r.im.data[r.b][j][2]]
    ELSE SetIndirect(TakeBlock(r.im), r.b, j)

MkBlock(M, inum, fbn) ==
    IF fbn < NDIRECT THEN MkDirect(M, inum, fbn)
    ELSE IF fbn < MAXFILE THEN MkIndirect(MkDirect(M, inum, NDIRECT), fbn - NDIRECT)
    ELSE GiveUp(M)                                   \* assert(fbn < MAXFILE)

PutCell(r, inum, off, c) ==
    IF r.im.ok THEN [r.im EXCEPT !.data[r.b][off % BSIZE] = c, !.di[inum].size = off + 1]
    ELSE r.im

\* iappend() of one cell: the block, and the indirect block, on first use.
AppendCell(M, inum, c) ==
    IF ~M.ok THEN M
    ELSE PutCell(MkBlock(M, inum, M.di[inum].size \div BSIZE), inum, M.di[inum].size, c)

iappend(M, inum, cells) ==
    LET A[n \in 0..Len(cells)] == IF n = 0 THEN M ELSE AppendCell(A[n - 1], inum, cells[n])
    IN  A[Len(cells)]

\* One file of the command line: inode, entry in the root, contents.
AddFile(M, file) ==
    IF ~M.ok THEN M
    ELSE iappend(iappend(MkIalloc(M, "FILE"), ROOTINO, <<<<file.name, M.freeinode>>>>),
                 M.freeinode, [i \in 1..file.size |-> <<file.name, 0>>])

\* The root's size ends up a multiple of the block size, one more block when
\* it was one already.
RoundRoot(M) == [M EXCEPT !.di[ROOTINO].size = (@ \div BSIZE + 1) * BSIZE]

Image(files) ==
    LET root == iappend(MkIalloc(NoImage, "DIR"), ROOTINO,
                        <<<<".", ROOTINO>>, <<"..", ROOTINO>>>>)
        A[n \in 0..Len(files)] == IF n = 0 THEN root ELSE AddFile(A[n - 1], files[n])
    IN  RoundRoot(A[Len(files)])

\* The state after iinit() and user_init(): the image, whose bitmap marks the
\* blocks below freeblock, and the root in the cache for the first process.
Mounted(M) ==
    [ di |-> M.di, data |-> M.data, used |-> 0..(M.freeblock - 1),
      ic |-> [s \in Slot |-> [inum |-> IF s = 1 THEN ROOTINO ELSE 0,
                              ref |-> IF s = 1 THEN 1 ELSE 0, valid |-> FALSE,
                              lock |-> NoProc, ino |-> NoInode]],
      log |-> {}, panic |-> "no" ]

Booted(files) == Mounted(Image(files))

-----------------------------------------------------------------------------
(* Blocks *)

\* Mutant: the block is not marked in the bitmap.
ballocUnmarked(F) ==
    LET b == Min((0..(FSSIZE - 1)) \ F.used) IN
    [fs |-> [F EXCEPT !.data[b] = ZeroBlock], b |-> b]

\* Mark a block in use, and bzero() it.
Mark(F, b) ==
    [fs |-> [F EXCEPT !.used = @ \cup {b}, !.data[b] = ZeroBlock,
                      !.log = @ \cup {BBLOCK(b), b}],
     b |-> b]

\* balloc(): the first free block, zeroed.
balloc(F) ==
    IF (0..(FSSIZE - 1)) \subseteq F.used THEN [fs |-> Panic(F, "balloc"), b |-> 0]
    ELSE Mark(F, Min((0..(FSSIZE - 1)) \ F.used))

bfree(F, b) ==
    IF b \notin F.used THEN Panic(F, "bfree")
    ELSE [F EXCEPT !.used = @ \ {b}, !.log = @ \cup {BBLOCK(b)}]

-----------------------------------------------------------------------------
(* Inodes *)

ino(F, s) == F.ic[s].ino

\* Mutant: the copy is not written back.
iupdateNot(F, s) == [F EXCEPT !.log = @ \cup {IBLOCK(F.ic[s].inum)}]

iupdate(F, s) ==
    [F EXCEPT !.di[F.ic[s].inum] = ino(F, s), !.log = @ \cup {IBLOCK(F.ic[s].inum)}]

Entry(F, inum) == {s \in Slot : F.ic[s].ref > 0 /\ F.ic[s].inum = inum}
Empty(F) == {s \in Slot : F.ic[s].ref = 0}

Recycle(F, s, inum) ==
    [fs |-> [F EXCEPT !.ic[s] = [@ EXCEPT !.inum = inum, !.ref = 1, !.valid = FALSE]],
     s |-> s]

\* iget(): the entry that holds inum, else the first empty one.
iget(F, inum) ==
    IF Entry(F, inum) # {}
    THEN [fs |-> [F EXCEPT !.ic[Min(Entry(F, inum))].ref = @ + 1], s |-> Min(Entry(F, inum))]
    ELSE IF Empty(F) = {} THEN [fs |-> Panic(F, "iget"), s |-> 0]
    ELSE Recycle(F, Min(Empty(F)), inum)

idup(F, s) == [F EXCEPT !.ic[s].ref = @ + 1]

FreeInodes(F) == {i \in Inum : F.di[i].type = "0"}

Claim(F, i, type) ==
    iget([F EXCEPT !.di[i] = [NoInode EXCEPT !.type = type], !.log = @ \cup {IBLOCK(i)}], i)

\* ialloc(): the first inode of type 0, referenced.
ialloc(F, type) ==
    IF FreeInodes(F) = {} THEN [fs |-> Panic(F, "ialloc"), s |-> 0]
    ELSE Claim(F, Min(FreeInodes(F)), type)

\* acquiresleep(&ip->lock) does not wait.
Unlocked(F, s) == F.ic[s].lock = NoProc

\* ilock() once the lock is free.
ilock(F, s, p) ==
    LET d == F.di[F.ic[s].inum]
        L == [F EXCEPT !.ic[s].lock = p]
    IN  IF F.ic[s].ref < 1 THEN Panic(F, "ilock: invalid inode")
        ELSE IF F.ic[s].valid THEN L
        ELSE IF d.type = "0" THEN Panic(L, "ilock: no type")
        ELSE [L EXCEPT !.ic[s].valid = TRUE, !.ic[s].ino = d]

iunlock(F, s, p) ==
    IF ~Ok(F) THEN F
    ELSE IF F.ic[s].lock # p \/ F.ic[s].ref < 1 THEN Panic(F, "iunlock")
    ELSE [F EXCEPT !.ic[s].lock = NoProc]

\* itrunc(): every block of the inode, those of the indirect block too.
itrunc(F, s) ==
    LET a    == ino(F, s).addrs
        far  == IF a[NDIRECT] = 0 THEN {}
                ELSE {F.data[a[NDIRECT]][j][2] : j \in 0..(NINDIRECT - 1)}
        gone == ({a[i] : i \in 0..NDIRECT} \cup far) \ {0}
        G    == FoldLeft(bfree, F, SetToSeq(gone))
    IN  iupdate([G EXCEPT !.ic[s].ino.addrs = NoAddrs, !.ic[s].ino.size = 0], s)

\* iput(): the last reference to an inode without links frees it on disk.
iput(F, s) ==
    LET last == F.ic[s].ref = 1 /\ F.ic[s].valid /\ ino(F, s).nlink = 0
        T    == itrunc(F, s)
        D    == iupdate([T EXCEPT !.ic[s].ino.type = "0"], s)
        G    == IF last THEN [D EXCEPT !.ic[s].valid = FALSE] ELSE F
    IN  IF Ok(F) THEN [G EXCEPT !.ic[s].ref = @ - 1] ELSE F

iunlockput(F, s, p) == iput(iunlock(F, s, p), s)

-----------------------------------------------------------------------------
(* Inode content *)

SetAddr(r, s, i) ==
    IF Ok(r.fs) THEN [r EXCEPT !.fs.ic[s].ino.addrs[i] = r.b] ELSE r
SetEntry(r, ind, j) ==
    IF Ok(r.fs) THEN [r EXCEPT !.fs.data[ind][j] = <<"", r.b>>, !.fs.log = @ \cup {ind}] ELSE r

Direct(F, s, i) ==
    IF ino(F, s).addrs[i] # 0 THEN [fs |-> F, b |-> ino(F, s).addrs[i]]
    ELSE SetAddr(balloc(F), s, i)

Indirect(r, j) ==
    IF ~Ok(r.fs) THEN r
    ELSE IF r.fs.data[r.b][j] # Zero THEN [r EXCEPT !.b = r.fs.data[r.b][j][2]]
    ELSE SetEntry(balloc(r.fs), r.b, j)

\* bmap(): the block of the inode's bn'th block, allocated if there is none.
bmap(F, s, bn) ==
    IF bn < NDIRECT THEN Direct(F, s, bn)
    ELSE IF bn < MAXFILE THEN Indirect(Direct(F, s, NDIRECT), bn - NDIRECT)
    ELSE [fs |-> Panic(F, "bmap"), b |-> 0]

Taken(m, off, out) ==
    [fs |-> m.fs,
     out |-> IF Ok(m.fs) THEN Append(out, m.fs.data[m.b][off % BSIZE]) ELSE out]

ReadCell(r, s, off) == Taken(bmap(r.fs, s, off \div BSIZE), off, r.out)

ReadCells(F, s, off, n) ==
    LET R[i \in 0..n] == IF i = 0 THEN [fs |-> F, out |-> <<>>]
                         ELSE ReadCell(R[i - 1], s, off + i - 1)
    IN  R[n]

\* readi(), clipped at the end of the file; an error gives nothing.  A device
\* with a read function gives all that is asked for; console_read() unlocks the
\* inode while it waits and locks it again, which changes nothing of it: here
\* that is one step, as if the input were there (module Console has the wait).
readi(F, s, off, n) ==
    IF ino(F, s).type = "DEV"
    THEN [fs |-> F, out |-> IF ino(F, s).major = CONSOLE THEN [i \in 1..n |-> Zero] ELSE <<>>]
    ELSE IF off > ino(F, s).size THEN [fs |-> F, out |-> <<>>]
    ELSE ReadCells(F, s, off, IF off + n > ino(F, s).size THEN ino(F, s).size - off ELSE n)

Stored(m, off, c) ==
    IF ~Ok(m.fs) THEN m.fs
    ELSE [m.fs EXCEPT !.data[m.b][off % BSIZE] = c, !.log = @ \cup {m.b}]

WriteCell(F, s, off, c) == Stored(bmap(F, s, off \div BSIZE), off, c)

WriteCells(F, s, off, cells) ==
    LET W[i \in 0..Len(cells)] == IF i = 0 THEN F
                                  ELSE WriteCell(W[i - 1], s, off + i - 1, cells[i])
    IN  W[Len(cells)]

Grown(F, s, end) ==
    IF Ok(F) /\ end > ino(F, s).size THEN iupdate([F EXCEPT !.ic[s].ino.size = end], s) ELSE F

\* Mutant: the limit of a file is not checked.
writeiUnlimited(F, s, off, cells) ==
    [fs |-> Grown(WriteCells(F, s, off, cells), s, off + Len(cells)), ok |-> TRUE]

\* writei(): all of it or nothing; the size follows the end of the data.
\* console_write() unlocks the inode and locks it again, as console_read() does.
writei(F, s, off, cells) ==
    IF ino(F, s).type = "DEV" THEN [fs |-> F, ok |-> ino(F, s).major = CONSOLE]
    ELSE IF off > ino(F, s).size \/ off + Len(cells) > MAXFILE * BSIZE
         THEN [fs |-> F, ok |-> FALSE]
    ELSE [fs |-> IF cells = <<>> THEN F
                 ELSE Grown(WriteCells(F, s, off, cells), s, off + Len(cells)),
          ok |-> TRUE]

-----------------------------------------------------------------------------
(* Directories *)

Matches(out, name) == {i \in DOMAIN out : out[i][1] = name /\ out[i][2] # 0}

Matched(F, s, all, name) ==
    IF ~Ok(all.fs) \/ Matches(all.out, name) = {} THEN [fs |-> all.fs, s |-> 0]
    ELSE iget(readi(F, s, 0, Min(Matches(all.out, name))).fs,
              all.out[Min(Matches(all.out, name))][2])

\* dirlookup(): the inode of an entry, referenced, or 0.  The entries up to
\* the match are read, all of them if there is none.
dirlookup(F, s, name) ==
    IF ino(F, s).type # "DIR" THEN [fs |-> Panic(F, "dirlookup"), s |-> 0]
    ELSE Matched(F, s, readi(F, s, 0, ino(F, s).size), name)

\* The offset of the first empty entry, else the end.
EmptyOff(out) ==
    IF \A i \in DOMAIN out : out[i][2] # 0 THEN Len(out)
    ELSE Min({i \in DOMAIN out : out[i][2] = 0}) - 1

Written(w) == [fs |-> IF w.ok THEN w.fs ELSE Panic(w.fs, "dirlink"), ok |-> TRUE]

AddEntry(all, s, name, inum) ==
    IF ~Ok(all.fs) THEN [fs |-> all.fs, ok |-> FALSE]
    ELSE Written(writei(all.fs, s, EmptyOff(all.out), <<<<name, inum>>>>))

LinkUnless(found, s, name, inum) ==
    IF found.s # 0 THEN [fs |-> iput(found.fs, found.s), ok |-> FALSE]
    ELSE AddEntry(readi(found.fs, s, 0, ino(found.fs, s).size), s, name, inum)

\* dirlink(): an entry for a name that is not there yet.
dirlink(F, s, name, inum) == LinkUnless(dirlookup(F, s, name), s, name, inum)
=============================================================================
