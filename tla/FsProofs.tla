------------------------------- MODULE FsProofs ------------------------------
(***************************************************************************)
(* Open files, paths and the inode cache under any number of processes     *)
(* (Fs): the inductive invariant IInv, that every step of every process    *)
(* keeps it, and the safety properties that follow from it.                *)
(***************************************************************************)
EXTENDS InodeProofs

-----------------------------------------------------------------------------
(* Counting *)

In(c, A) == IF c \in A THEN 1 ELSE 0

\* Two sets that differ in one element at most.
LEMMA DifferInOne ==
    ASSUME NEW S, IsFiniteSet(S), NEW A, NEW B, A \subseteq S, B \subseteq S, NEW c,
           \A q \in S : q # c => (q \in A <=> q \in B)
    PROVE  /\ Cardinality(A) \in Nat /\ Cardinality(B) \in Nat
           /\ Cardinality(B) = Cardinality(A) + In(c, B) - In(c, A)
<1>1. IsFiniteSet(A) /\ IsFiniteSet(B)
  BY FS_Subset, Zenon
<1>2. Cardinality(A) \in Nat /\ Cardinality(B) \in Nat
  BY <1>1, FS_CardinalityType, Zenon
<1>3. A \ {c} = B \ {c}
  OBVIOUS
<1>4. Cardinality(A \ {c}) = Cardinality(A) - In(c, A)
  <2>1. Cardinality(A \ {c}) = IF c \in A THEN Cardinality(A) - 1 ELSE Cardinality(A)
    BY <1>1, FS_RemoveElement, Zenon
  <2>. QED  BY <1>2, <2>1 DEF In
<1>5. Cardinality(B \ {c}) = Cardinality(B) - In(c, B)
  <2>1. Cardinality(B \ {c}) = IF c \in B THEN Cardinality(B) - 1 ELSE Cardinality(B)
    BY <1>1, FS_RemoveElement, Zenon
  <2>. QED  BY <1>2, <2>1 DEF In
<1>6. In(c, A) \in {0, 1} /\ In(c, B) \in {0, 1}
  BY DEF In
<1>7. Cardinality(A \ {c}) = Cardinality(B \ {c})
  BY <1>3
<1>8. Cardinality(A) - In(c, A) = Cardinality(B) - In(c, B)
  BY <1>4, <1>5, <1>7, Zenon
<1>. QED  BY <1>2, <1>6, <1>8

\* A set with an element is counted.
LEMMA Positive ==
    ASSUME NEW S, IsFiniteSet(S), NEW A, A \subseteq S
    PROVE  Cardinality(A) \in Nat /\ \A c \in A : Cardinality(A) > 0
<1>1. IsFiniteSet(A)
  BY FS_Subset, Zenon
<1>2. Cardinality(A) \in Nat /\ (Cardinality(A) = 0 <=> A = {})
  BY <1>1, FS_CardinalityType, FS_EmptySet, Zenon
<1>. QED  BY <1>2

\* The tables are finite.
LEMMA Finite == IsFiniteSet(Process) /\ IsFiniteSet(File) /\ IsFiniteSet(Fd) /\ IsFiniteSet(Process \X Fd)
<1>1. IsFiniteSet(Process) /\ NFILE \in Nat /\ NOFILE \in Nat
  BY FsAssumption
<1>2. 1 \in Int /\ NFILE \in Int /\ 0 \in Int /\ NOFILE - 1 \in Int
  BY <1>1
<1>3. IsFiniteSet(File) /\ IsFiniteSet(Fd)
  BY <1>2, FS_Interval, Zenon DEF File, Fd
<1>. QED  BY <1>1, <1>3, FS_Product, Zenon

\* The pointers in each table to an entry of the inode cache.
FileIp(x) == IF x.type = "INODE" THEN x.ip ELSE 0
CwdCount(c, s) == Cardinality({q \in Process : c[q] = s})
FileCount(t, s) == Cardinality({f \in File : FileIp(t[f]) = s})
IpCount(l, s) == Cardinality({q \in Process : l[q].ip = s})
DpCount(l, s) == Cardinality({q \in Process : l[q].dp = s})

\* One of them changes.
LEMMA CwdChange ==
    ASSUME NEW c, NEW d, NEW s, NEW p \in Process, \A q \in Process : q # p => d[q] = c[q]
    PROVE  /\ CwdCount(c, s) \in Nat /\ CwdCount(d, s) \in Nat
           /\ CwdCount(d, s) = CwdCount(c, s) + One(d[p], s) - One(c[p], s)
<1>. DEFINE A == {q \in Process : c[q] = s}
            B == {q \in Process : d[q] = s}
<1>1. In(p, A) = One(c[p], s) /\ In(p, B) = One(d[p], s)
  BY DEF In, One
<1>2. A \subseteq Process /\ B \subseteq Process /\ \A q \in Process : q # p => (q \in A <=> q \in B)
  OBVIOUS
<1>3. CwdCount(c, s) = Cardinality(A) /\ CwdCount(d, s) = Cardinality(B)
  BY DEF CwdCount
<1>. HIDE DEF A, B
<1>. QED  BY <1>1, <1>2, <1>3, Finite, DifferInOne

\* A step of p changes the pointers loc[p].ip only.
LEMMA IpChange ==
    ASSUME NEW c, NEW d, NEW s, NEW p \in Process, \A q \in Process : q # p => d[q] = c[q]
    PROVE  /\ IpCount(c, s) \in Nat /\ IpCount(d, s) \in Nat
           /\ IpCount(d, s) = IpCount(c, s) + One(d[p].ip, s) - One(c[p].ip, s)
<1>. DEFINE A == {q \in Process : c[q].ip = s}
            B == {q \in Process : d[q].ip = s}
<1>1. In(p, A) = One(c[p].ip, s) /\ In(p, B) = One(d[p].ip, s)
  BY DEF In, One
<1>2. A \subseteq Process /\ B \subseteq Process /\ \A q \in Process : q # p => (q \in A <=> q \in B)
  OBVIOUS
<1>3. IpCount(c, s) = Cardinality(A) /\ IpCount(d, s) = Cardinality(B)
  BY DEF IpCount
<1>. HIDE DEF A, B
<1>. QED  BY <1>1, <1>2, <1>3, Finite, DifferInOne

\* A step of p changes the pointers loc[p].dp only.
LEMMA DpChange ==
    ASSUME NEW c, NEW d, NEW s, NEW p \in Process, \A q \in Process : q # p => d[q] = c[q]
    PROVE  /\ DpCount(c, s) \in Nat /\ DpCount(d, s) \in Nat
           /\ DpCount(d, s) = DpCount(c, s) + One(d[p].dp, s) - One(c[p].dp, s)
<1>. DEFINE A == {q \in Process : c[q].dp = s}
            B == {q \in Process : d[q].dp = s}
<1>1. In(p, A) = One(c[p].dp, s) /\ In(p, B) = One(d[p].dp, s)
  BY DEF In, One
<1>2. A \subseteq Process /\ B \subseteq Process /\ \A q \in Process : q # p => (q \in A <=> q \in B)
  OBVIOUS
<1>3. DpCount(c, s) = Cardinality(A) /\ DpCount(d, s) = Cardinality(B)
  BY DEF DpCount
<1>. HIDE DEF A, B
<1>. QED  BY <1>1, <1>2, <1>3, Finite, DifferInOne

\* A step that changes one entry of ftable changes the pointer in that entry only.
LEMMA FileChange ==
    ASSUME NEW c, NEW d, NEW s, NEW f \in File, \A g \in File : g # f => FileIp(d[g]) = FileIp(c[g])
    PROVE  /\ FileCount(c, s) \in Nat /\ FileCount(d, s) \in Nat
           /\ FileCount(d, s) = FileCount(c, s) + One(FileIp(d[f]), s) - One(FileIp(c[f]), s)
<1>. DEFINE A == {g \in File : FileIp(c[g]) = s}
            B == {g \in File : FileIp(d[g]) = s}
<1>1. In(f, A) = One(FileIp(c[f]), s) /\ In(f, B) = One(FileIp(d[f]), s)
  BY DEF In, One
<1>2. A \subseteq File /\ B \subseteq File /\ \A g \in File : g # f => (g \in A <=> g \in B)
  OBVIOUS
<1>3. FileCount(c, s) = Cardinality(A) /\ FileCount(d, s) = Cardinality(B)
  BY DEF FileCount
<1>. HIDE DEF A, B
<1>. QED  BY <1>1, <1>2, <1>3, Finite, DifferInOne

\* The descriptors that count as references to a file.
Closing(pcs, lcs, q, fd) == pcs[q] = "put" /\ lcs[q].call = "exit" /\ lcs[q].fd = fd
Desc(of, pcs, lcs, q, fd) == IF Closing(pcs, lcs, q, fd) THEN 0 ELSE of[q][fd]
Descs(of, pcs, lcs, f) == {e \in Process \X Fd : Desc(of, pcs, lcs, e[1], e[2]) = f}
FileRefs(of, pcs, lcs, f) == Cardinality(Descs(of, pcs, lcs, f))

\* Descriptors that all stay.
LEMMA DescSame ==
    ASSUME NEW of, NEW pcs, NEW lcs, NEW og, NEW pct, NEW lct, NEW f,
           \A q \in Process, fd \in Fd : Desc(og, pct, lct, q, fd) = Desc(of, pcs, lcs, q, fd)
    PROVE  FileRefs(og, pct, lct, f) = FileRefs(of, pcs, lcs, f)
<1>1. Descs(og, pct, lct, f) = Descs(of, pcs, lcs, f)
  BY DEF Descs
<1>. QED  BY <1>1 DEF FileRefs

\* One of them changes.
LEMMA DescChange ==
    ASSUME NEW of, NEW pcs, NEW lcs, NEW og, NEW pct, NEW lct, NEW f, NEW p \in Process, NEW u \in Fd,
           \A q \in Process, fd \in Fd : ~(q = p /\ fd = u) =>
                Desc(og, pct, lct, q, fd) = Desc(of, pcs, lcs, q, fd)
    PROVE  /\ FileRefs(of, pcs, lcs, f) \in Nat /\ FileRefs(og, pct, lct, f) \in Nat
           /\ FileRefs(og, pct, lct, f) = FileRefs(of, pcs, lcs, f)
                + One(Desc(og, pct, lct, p, u), f) - One(Desc(of, pcs, lcs, p, u), f)
<1>. DEFINE A == Descs(of, pcs, lcs, f)
            B == Descs(og, pct, lct, f)
            c == <<p, u>>
            S == Process \X Fd
<1>1. c[1] = p /\ c[2] = u /\ c \in S
  OBVIOUS
<1>2. \A e \in S : e[1] \in Process /\ e[2] \in Fd /\ (e # c => ~(e[1] = p /\ e[2] = u))
  OBVIOUS
<1>. HIDE DEF c, S
<1>3. A \subseteq S /\ B \subseteq S
  BY DEF Descs, S
<1>4. \A e \in S : e # c => (e \in A <=> e \in B)
  BY <1>2 DEF Descs, S
<1>5. In(c, A) = One(Desc(of, pcs, lcs, p, u), f) /\ In(c, B) = One(Desc(og, pct, lct, p, u), f)
  BY <1>1 DEF In, One, Descs, S
<1>6. IsFiniteSet(S)
  BY Finite DEF S
<1>7. FileRefs(of, pcs, lcs, f) = Cardinality(A) /\ FileRefs(og, pct, lct, f) = Cardinality(B)
  BY DEF FileRefs
<1>. HIDE DEF A, B
<1>. QED  BY <1>3, <1>4, <1>5, <1>6, <1>7, DifferInOne

\* A descriptor is counted.
LEMMA DescCounted ==
    ASSUME NEW of, NEW pcs, NEW lcs, NEW p \in Process, NEW u \in Fd, NEW f, f = Desc(of, pcs, lcs, p, u)
    PROVE  FileRefs(of, pcs, lcs, f) \in Nat /\ FileRefs(of, pcs, lcs, f) > 0
<1>. DEFINE A == Descs(of, pcs, lcs, f)
            c == <<p, u>>
            S == Process \X Fd
<1>1. c[1] = p /\ c[2] = u /\ c \in S
  OBVIOUS
<1>. HIDE DEF c, S
<1>2. c \in A /\ A \subseteq S
  BY <1>1 DEF Descs, S
<1>3. IsFiniteSet(S)
  BY Finite DEF S
<1>4. FileRefs(of, pcs, lcs, f) = Cardinality(A)
  BY DEF FileRefs
<1>. HIDE DEF A
<1>. QED  BY <1>2, <1>3, <1>4, Positive

-----------------------------------------------------------------------------
(* The invariant *)

Calls == PathCalls \cup {"-", "close", "exit", "write"}
LocRec == [call : Calls, path : Seq(Name), ip : Slot \cup {0}, dp : Slot \cup {0},
           f : File \cup {0}, fd : Nat, iov : Seq(Nat)]
FileRec == [ref : Nat, type : {"NONE", "INODE"}, ip : Slot \cup {0}, off : Nat,
            r : BOOLEAN, w : BOOLEAN]
Pc == {"none", "user", "walk", "parent", "new", "exists", "link", "found", "opened", "put",
       "write", "exit", "zombie"}

\* The types of the tables and of the calls under way.
Tables ==
    /\ lg \in [Process -> SUBSET Nat] /\ ftable \in [File -> FileRec]
    /\ ofile \in [Process -> [Fd -> File \cup {0}]]
    /\ cwd \in [Process -> Slot \cup {0}]
    /\ pc \in [Process -> Pc] /\ loc \in [Process -> LocRec] /\ calls \in 0..MaxCalls

Shape == Tables /\ fs \in FsState /\ fs.log = {} /\ OneEntry(fs.ic)

DirAt(F, s) == F.di[F.ic[s].inum].type = "DIR"
Absent(F, s, name) == NoName(F.di, F.data, F.ic[s].inum, name)

\* Where p is in its call, and what it holds there.
Doing(p) ==
    LET l == loc[p] IN
    /\ pc[p] \in {"none", "zombie"} => cwd[p] = 0 /\ l = Idle /\ \A fd \in Fd : ofile[p][fd] = 0
    /\ pc[p] \notin {"none", "zombie"} => cwd[p] \in Slot
    /\ pc[p] \in {"user", "exit"} => l = Idle
    /\ pc[p] = "walk" => l.call \in PathCalls /\ l.ip \in Slot /\ l.dp = 0
    /\ pc[p] \in {"parent", "new"} =>
          l.call \in Creates /\ l.ip = 0 /\ l.dp \in Slot /\ Len(l.path) = 1 /\ DirAt(fs, l.dp)
    /\ pc[p] = "new" => fs.ic[l.dp].lock = p /\ Absent(fs, l.dp, Last(l.path))
    /\ pc[p] = "exists" => l.call \in Creates /\ l.ip \in Slot /\ l.dp = 0
    /\ pc[p] = "link" => /\ l.call \in Creates /\ l.ip \in Slot /\ l.dp \in Slot /\ l.ip # l.dp
                         /\ fs.ic[l.ip].lock = p /\ fs.ic[l.dp].lock = p /\ Len(l.path) = 1
                         /\ DirAt(fs, l.dp) /\ Absent(fs, l.dp, Last(l.path))
                         /\ fs.di[fs.ic[l.ip].inum].type = TypeOf(l.call)
    /\ pc[p] = "found" => l.call \in PathCalls \ Creates /\ l.ip \in Slot /\ l.dp = 0
    /\ pc[p] = "opened" => /\ l.call \in {"creat", "open_r", "open_rw"} /\ l.ip \in Slot /\ l.dp = 0
                           /\ fs.ic[l.ip].lock = p /\ (l.call # "open_r" => ~DirAt(fs, l.ip))
    /\ pc[p] = "put" => /\ l.call \in {"close", "exit"} /\ l.ip \in Slot /\ l.dp = 0
                        /\ l.call = "exit" => l.fd \in Fd /\ ofile[p][l.fd] # 0
    /\ pc[p] = "write" => /\ l.ip = 0 /\ l.dp = 0 /\ l.f \in File /\ l.iov # <<>>
                          /\ \E fd \in Fd : ofile[p][fd] = l.f
                          /\ ftable[l.f].w

\* Process q may hold the lock of entry s.
MayHold(pcs, lcs, q, s) ==
    \/ pcs[q] = "new" /\ s = lcs[q].dp
    \/ pcs[q] = "link" /\ s \in {lcs[q].ip, lcs[q].dp}
    \/ pcs[q] = "opened" /\ s = lcs[q].ip
Held(s) == fs.ic[s].lock # NoProc => MayHold(pc, loc, fs.ic[s].lock, s)

\* An open file has an inode, a file open for writing none of a directory.
FileOK(f) ==
    /\ ftable[f].type = "INODE" <=> ftable[f].ref > 0
    /\ ftable[f].type = "INODE" => ftable[f].ip \in Slot
                                   /\ (ftable[f].w => ~DirAt(fs, ftable[f].ip))

\* The inodes that create() has allocated and not yet linked.
Orphans == {fs.ic[loc[p].ip].inum : p \in {q \in Process : pc[q] = "link"}}

\* What p's transaction has logged so far.
Logged(p) ==
    /\ pc[p] \in {"walk", "parent", "new", "exists", "found"} => lg[p] = {}
    /\ pc[p] = "link" => lg[p] \subseteq {IBLOCK(fs.ic[loc[p].ip].inum)}

Live ==
    /\ CacheOK(fs.di, fs.ic)
    /\ RefsCounted
    /\ \A p \in Process : Doing(p)
    /\ \A s \in Slot : Held(s)
    /\ \A f \in File : FileOK(f)
    /\ Blocks(fs.di, fs.data, fs.used) /\ Whole(fs.di, fs.data)
    /\ Tree(fs.di, fs.data, Orphans)
    /\ \A p \in Process : Logged(p)

IInv == Shape /\ (Ok(fs) => Live) /\ OnlyFullTablesPanic /\ OpFits

-----------------------------------------------------------------------------
(* Pointers and counts *)

\* The counts of RefsCounted.
LEMMA CountsAre ==
    /\ \A s \in Slot : Pointers(s) = CwdCount(cwd, s) + FileCount(ftable, s)
                                     + IpCount(loc, s) + DpCount(loc, s)
    /\ \A f \in File : Cardinality({e \in Process \X Fd :
                           /\ ofile[e[1]][e[2]] = f
                           /\ ~(pc[e[1]] = "put" /\ loc[e[1]].call = "exit"
                                /\ loc[e[1]].fd = e[2])}) = FileRefs(ofile, pc, loc, f)
<1>1. ASSUME NEW s \in Slot
      PROVE  Pointers(s) = CwdCount(cwd, s) + FileCount(ftable, s) + IpCount(loc, s) + DpCount(loc, s)
  <2>1. s # 0
    BY DEF Slot
  <2>2. {f \in File : ftable[f].type = "INODE" /\ ftable[f].ip = s} = {f \in File : FileIp(ftable[f]) = s}
    BY <2>1 DEF FileIp
  <2>. QED  BY <2>2 DEF Pointers, CwdCount, FileCount, IpCount, DpCount
<1>2. ASSUME NEW f \in File
      PROVE  {e \in Process \X Fd : /\ ofile[e[1]][e[2]] = f
                                    /\ ~(pc[e[1]] = "put" /\ loc[e[1]].call = "exit"
                                         /\ loc[e[1]].fd = e[2])} = Descs(ofile, pc, loc, f)
  <2>1. f # 0
    BY DEF File
  <2>. QED  BY <2>1 DEF Descs, Desc, Closing
<1>. QED  BY <1>1, <1>2 DEF FileRefs

\* All reference counts are right.
IRefs == \A s \in Slot : fs.ic[s].ref = CwdCount(cwd, s) + FileCount(ftable, s)
                                        + IpCount(loc, s) + DpCount(loc, s)
FRefs == \A f \in File : ftable[f].ref = FileRefs(ofile, pc, loc, f)

\* RefsCounted, with the counts written as sums of pointers.
LEMMA RefsAre == RefsCounted <=> (Ok(fs) => IRefs /\ FRefs)
BY CountsAre DEF RefsCounted, IRefs, FRefs

\* The same in the next state.
LEMMA RefsAreNext == RefsCounted' <=> (Ok(fs') => IRefs' /\ FRefs')
<1>1. (RefsCounted <=> (Ok(fs) => IRefs /\ FRefs))'
  BY RefsAre, PTL
<1>. QED  BY <1>1 DEF Ok

\* The counts are numbers.
LEMMA CountTypes ==
    ASSUME NEW c, NEW t, NEW l, NEW s
    PROVE  CwdCount(c, s) \in Nat /\ FileCount(t, s) \in Nat /\ IpCount(l, s) \in Nat /\ DpCount(l, s) \in Nat
<1>1. Cardinality({q \in Process : c[q] = s}) \in Nat
  <2>. DEFINE A == {q \in Process : c[q] = s}
  <2>1. A \subseteq Process
    OBVIOUS
  <2>. HIDE DEF A
  <2>2. Cardinality(A) \in Nat
    BY <2>1, Finite, Positive
  <2>. QED  BY <2>2 DEF A
<1>2. Cardinality({f \in File : FileIp(t[f]) = s}) \in Nat
  <2>. DEFINE A == {f \in File : FileIp(t[f]) = s}
  <2>1. A \subseteq File
    OBVIOUS
  <2>. HIDE DEF A
  <2>2. Cardinality(A) \in Nat
    BY <2>1, Finite, Positive
  <2>. QED  BY <2>2 DEF A
<1>3. Cardinality({q \in Process : l[q].ip = s}) \in Nat
  <2>. DEFINE A == {q \in Process : l[q].ip = s}
  <2>1. A \subseteq Process
    OBVIOUS
  <2>. HIDE DEF A
  <2>2. Cardinality(A) \in Nat
    BY <2>1, Finite, Positive
  <2>. QED  BY <2>2 DEF A
<1>4. Cardinality({q \in Process : l[q].dp = s}) \in Nat
  <2>. DEFINE A == {q \in Process : l[q].dp = s}
  <2>1. A \subseteq Process
    OBVIOUS
  <2>. HIDE DEF A
  <2>2. Cardinality(A) \in Nat
    BY <2>1, Finite, Positive
  <2>. QED  BY <2>2 DEF A
<1>. QED  BY <1>1, <1>2, <1>3, <1>4 DEF CwdCount, FileCount, IpCount, DpCount

\* A pointer counts.
LEMMA PointerCount ==
    ASSUME NEW c, NEW t, NEW l, NEW s, NEW p \in Process
    PROVE  /\ c[p] = s => CwdCount(c, s) > 0
           /\ l[p].ip = s => IpCount(l, s) > 0
           /\ l[p].dp = s => DpCount(l, s) > 0
           /\ \A f \in File : FileIp(t[f]) = s => FileCount(t, s) > 0
<1>1. ASSUME c[p] = s PROVE Cardinality({q \in Process : c[q] = s}) > 0
  <2>. DEFINE A == {q \in Process : c[q] = s}
  <2>1. A \subseteq Process /\ p \in A
    BY <1>1
  <2>. HIDE DEF A
  <2>2. Cardinality(A) > 0
    BY <2>1, Finite, Positive
  <2>. QED  BY <2>2 DEF A
<1>2. ASSUME NEW f \in File, FileIp(t[f]) = s PROVE Cardinality({g \in File : FileIp(t[g]) = s}) > 0
  <2>. DEFINE A == {g \in File : FileIp(t[g]) = s}
  <2>1. A \subseteq File /\ f \in A
    BY <1>2
  <2>. HIDE DEF A
  <2>2. Cardinality(A) > 0
    BY <2>1, Finite, Positive
  <2>. QED  BY <2>2 DEF A
<1>3. ASSUME l[p].ip = s PROVE Cardinality({q \in Process : l[q].ip = s}) > 0
  <2>. DEFINE A == {q \in Process : l[q].ip = s}
  <2>1. A \subseteq Process /\ p \in A
    BY <1>3
  <2>. HIDE DEF A
  <2>2. Cardinality(A) > 0
    BY <2>1, Finite, Positive
  <2>. QED  BY <2>2 DEF A
<1>4. ASSUME l[p].dp = s PROVE Cardinality({q \in Process : l[q].dp = s}) > 0
  <2>. DEFINE A == {q \in Process : l[q].dp = s}
  <2>1. A \subseteq Process /\ p \in A
    BY <1>4
  <2>. HIDE DEF A
  <2>2. Cardinality(A) > 0
    BY <2>1, Finite, Positive
  <2>. QED  BY <2>2 DEF A
<1>. QED  BY <1>1, <1>2, <1>3, <1>4 DEF CwdCount, FileCount, IpCount, DpCount

\* Two processes with a pointer.
LEMMA IpTwice ==
    ASSUME NEW l, NEW s, NEW p \in Process, NEW q \in Process, p # q, l[p].ip = s, l[q].ip = s
    PROVE  IpCount(l, s) > 1
<1>. DEFINE A == {r \in Process : l[r].ip = s}
<1>1. A \subseteq Process /\ p \in A /\ q \in A /\ ~(\E x : A = {x})
  OBVIOUS
<1>2. IpCount(l, s) = Cardinality(A)
  BY DEF IpCount
<1>. HIDE DEF A
<1>3. Cardinality(A) \in Nat /\ Cardinality(A) > 0
  BY <1>1, Finite, Positive
<1>4. Cardinality(A) # 1
  <2>1. IsFiniteSet(A)
    BY <1>1, Finite, FS_Subset, Zenon
  <2>. QED  BY <1>1, <2>1, FS_Singleton, Zenon
<1>. QED  BY <1>2, <1>3, <1>4

\* What is pointed to is in use.
LEMMA InUse ==
    ASSUME Shape, Ok(fs), RefsCounted, NEW p \in Process
    PROVE  /\ cwd[p] \in Slot => fs.ic[cwd[p]].ref > 0
           /\ loc[p].ip \in Slot => fs.ic[loc[p].ip].ref > 0
           /\ loc[p].dp \in Slot => fs.ic[loc[p].dp].ref > 0
           /\ \A f \in File : ftable[f].type = "INODE" /\ ftable[f].ip \in Slot => fs.ic[ftable[f].ip].ref > 0
           /\ \A fd \in Fd : ofile[p][fd] # 0 /\ ~Closing(pc, loc, p, fd) =>
                 ofile[p][fd] \in File /\ ftable[ofile[p][fd]].ref > 0
<1>1. IRefs /\ FRefs
  BY RefsAre
<1>2. ASSUME NEW s \in Slot, \/ cwd[p] = s \/ loc[p].ip = s \/ loc[p].dp = s
                             \/ \E f \in File : FileIp(ftable[f]) = s
      PROVE  fs.ic[s].ref > 0
  <2>1. fs.ic[s].ref = CwdCount(cwd, s) + FileCount(ftable, s) + IpCount(loc, s) + DpCount(loc, s)
    BY <1>1 DEF IRefs
  <2>2. CwdCount(cwd, s) \in Nat /\ FileCount(ftable, s) \in Nat /\ IpCount(loc, s) \in Nat /\ DpCount(loc, s) \in Nat
    BY CountTypes
  <2>3. CwdCount(cwd, s) > 0 \/ FileCount(ftable, s) > 0 \/ IpCount(loc, s) > 0 \/ DpCount(loc, s) > 0
    BY <1>2, PointerCount
  <2>. QED  BY <2>1, <2>2, <2>3
<1>3. ASSUME NEW fd \in Fd, ofile[p][fd] # 0, ~Closing(pc, loc, p, fd)
      PROVE  ofile[p][fd] \in File /\ ftable[ofile[p][fd]].ref > 0
  <2>1. ofile[p][fd] \in File
    BY <1>3 DEF Shape, Tables
  <2>2. ofile[p][fd] = Desc(ofile, pc, loc, p, fd)
    BY <1>3 DEF Desc
  <2>3. FileRefs(ofile, pc, loc, ofile[p][fd]) > 0
    BY <2>2, DescCounted
  <2>. QED  BY <1>1, <2>1, <2>3 DEF FRefs
<1>. QED  BY <1>2, <1>3 DEF FileIp

\* A lock held by another process is held through a pointer of its own.
LEMMA Shared ==
    ASSUME Shape, Ok(fs), RefsCounted, NEW p \in Process, NEW s \in Slot, Held(s),
           fs.ic[s].lock \notin {p, NoProc}, cwd[p] = s \/ loc[p].ip = s
    PROVE  fs.ic[s].ref > 1
<1>. DEFINE q == fs.ic[s].lock
<1>1. q \in Process /\ q # p /\ (loc[q].ip = s \/ loc[q].dp = s)
  BY EntryIs DEF Held, MayHold, Shape
<1>. HIDE DEF q
<1>2. fs.ic[s].ref = CwdCount(cwd, s) + FileCount(ftable, s) + IpCount(loc, s) + DpCount(loc, s)
  BY RefsAre DEF IRefs
<1>3. CwdCount(cwd, s) \in Nat /\ FileCount(ftable, s) \in Nat /\ IpCount(loc, s) \in Nat /\ DpCount(loc, s) \in Nat
  BY CountTypes
<1>4. (cwd[p] = s => CwdCount(cwd, s) > 0) /\ (loc[p].ip = s => IpCount(loc, s) > 0)
  BY PointerCount
<1>5. (loc[q].ip = s => IpCount(loc, s) > 0) /\ (loc[q].dp = s => DpCount(loc, s) > 0)
  BY <1>1, PointerCount
<1>6. loc[p].ip = s /\ loc[q].ip = s => IpCount(loc, s) > 1
  BY <1>1, IpTwice
<1>. QED  BY <1>1, <1>2, <1>3, <1>4, <1>5, <1>6

-----------------------------------------------------------------------------
(* What a step of p leaves to the others *)

\* Entries in use keep their inode, inodes in use their type; the locks of the
\* other processes stay, and so do the names in the directories they hold.
Frame(F, G, p) ==
    /\ \A t \in Slot : F.ic[t].ref > 0 => G.ic[t].inum = F.ic[t].inum
    /\ \A i \in Inum : F.di[i].type # "0" => G.di[i].type = F.di[i].type
    /\ \A t \in Slot : G.ic[t].lock # F.ic[t].lock =>
          F.ic[t].lock \in {p, NoProc} /\ G.ic[t].lock \in {p, NoProc}
    /\ \A t \in Slot : \A name :
          F.ic[t].lock \notin {p, NoProc} /\ DirAt(F, t) /\ Absent(F, t, name) => Absent(G, t, name)

\* Only p has moved.
Alone(p) ==
    \A q \in Process : q # p => /\ pc'[q] = pc[q] /\ loc'[q] = loc[q] /\ cwd'[q] = cwd[q]
                                /\ ofile'[q] = ofile[q] /\ lg'[q] = lg[q]

\* Files in use stay open for writing.
FilesStay == \A f \in File : ftable[f].ref > 0 => ftable'[f].w = ftable[f].w

\* The kernel runs, in a state that satisfies the invariant.
Runs == Shape /\ Ok(fs) /\ Live

\* In a tree every inode in use has a link.
LEMMA TreeLinked ==
    ASSUME NEW I, NEW D, NEW O, Tree(I, D, O)
    PROVE  Linked(I)
<1>1. SUFFICES ASSUME NEW i \in Inum, I[i].type # "0" PROVE I[i].nlink # 0
    BY DEF Linked
<1>2. I[i].nlink = 1 + Cardinality(Below(I, D, i))
    BY <1>1 DEF Tree, Counted
<1>3. Below(I, D, i) \subseteq Inum
    BY DEF Below, DirSet
<1>4. IsFiniteSet(Inum)
  <2>1. 1 \in Int /\ NINODES - 1 \in Int
      BY Layout
  <2>. QED  BY <2>1, FS_Interval, Zenon DEF Inum
<1>5. Cardinality(Below(I, D, i)) \in Nat
    BY <1>3, <1>4, Positive
<1>. QED  BY <1>2, <1>5

\* What holds when the kernel runs.
LEMMA RunsIs ==
    ASSUME Runs
    PROVE  /\ Cached(fs) /\ Blocks(fs.di, fs.data, fs.used) /\ Whole(fs.di, fs.data)
           /\ Tree(fs.di, fs.data, Orphans) /\ Linked(fs.di) /\ fs \in FsState /\ fs.log = {}
           /\ RefsCounted /\ (\A p \in Process : Doing(p)) /\ (\A s \in Slot : Held(s)) /\ Tables
           /\ Leads(fs.di, fs.data)
<1>1. Cached(fs) /\ Blocks(fs.di, fs.data, fs.used) /\ Whole(fs.di, fs.data)
      /\ Tree(fs.di, fs.data, Orphans) /\ fs \in FsState /\ fs.log = {}
      /\ RefsCounted /\ (\A p \in Process : Doing(p)) /\ (\A s \in Slot : Held(s)) /\ Tables
  BY DEF Runs, Live, Shape, Cached
<1>2. Linked(fs.di)
  BY <1>1, TreeLinked
<1>. QED  BY <1>1, <1>2 DEF Tree

\* A process that is not in the step.
LEMMA OthersDoing ==
    ASSUME Runs, NEW p \in Process, Frame(fs, fs', p), Alone(p), FilesStay, NEW q \in Process, q # p
    PROVE  Doing(q)'
<1>1. /\ pc'[q] = pc[q] /\ loc'[q] = loc[q] /\ cwd'[q] = cwd[q] /\ ofile'[q] = ofile[q]
      /\ Doing(q) /\ pc[q] \in Pc /\ q # NoProc
  BY RunsIs, FsAssumption DEF Alone, Tables
<1>2. ASSUME NEW s \in Slot, s \in {loc[q].ip, loc[q].dp}
      PROVE  /\ fs.ic[s].ref > 0 /\ fs'.ic[s].inum = fs.ic[s].inum /\ fs.ic[s].inum \in Inum
             /\ fs'.di[fs'.ic[s].inum].type = fs.di[fs.ic[s].inum].type
  <2>1. fs.ic[s].ref > 0
    BY <1>2, RunsIs, InUse DEF Runs
  <2>2. fs.ic[s].inum \in Inum /\ fs.di[fs.ic[s].inum].type # "0"
    BY <2>1, RunsIs DEF Cached, CacheOK
  <2>. QED  BY <2>1, <2>2 DEF Frame
<1>3. ASSUME NEW s \in Slot, fs.ic[s].lock = q PROVE fs'.ic[s].lock = q
  BY <1>1, <1>3 DEF Frame
<1>4. ASSUME NEW s \in Slot, fs.ic[s].lock = q, DirAt(fs, s), NEW name, Absent(fs, s, name)
      PROVE  Absent(fs', s, name)
  BY <1>1, <1>4 DEF Frame
<1>5. CASE pc[q] \in {"none", "zombie", "user", "exit", "walk", "exists", "found", "put"}
  BY <1>1, <1>5 DEF Doing
<1>6. CASE pc[q] \in {"parent", "new"}
  <2>1. /\ loc[q].call \in Creates /\ loc[q].ip = 0 /\ loc[q].dp \in Slot /\ Len(loc[q].path) = 1
        /\ DirAt(fs, loc[q].dp)
        /\ pc[q] = "new" => fs.ic[loc[q].dp].lock = q /\ Absent(fs, loc[q].dp, Last(loc[q].path))
        /\ cwd[q] \in Slot
    BY <1>1, <1>6 DEF Doing
  <2>2. DirAt(fs', loc[q].dp)
    BY <1>2, <2>1 DEF DirAt
  <2>3. pc[q] = "new" => fs'.ic[loc[q].dp].lock = q /\ Absent(fs', loc[q].dp, Last(loc[q].path))
    BY <1>3, <1>4, <2>1
  <2>. QED  BY <1>1, <1>6, <2>1, <2>2, <2>3 DEF Doing
<1>7. CASE pc[q] = "link"
  <2>1. /\ loc[q].call \in Creates /\ loc[q].ip \in Slot /\ loc[q].dp \in Slot /\ loc[q].ip # loc[q].dp
        /\ fs.ic[loc[q].ip].lock = q /\ fs.ic[loc[q].dp].lock = q /\ Len(loc[q].path) = 1
        /\ DirAt(fs, loc[q].dp) /\ Absent(fs, loc[q].dp, Last(loc[q].path))
        /\ fs.di[fs.ic[loc[q].ip].inum].type = TypeOf(loc[q].call) /\ cwd[q] \in Slot
    BY <1>1, <1>7 DEF Doing
  <2>2. DirAt(fs', loc[q].dp) /\ fs'.di[fs'.ic[loc[q].ip].inum].type = TypeOf(loc[q].call)
    BY <1>2, <2>1 DEF DirAt
  <2>3. fs'.ic[loc[q].ip].lock = q /\ fs'.ic[loc[q].dp].lock = q /\ Absent(fs', loc[q].dp, Last(loc[q].path))
    BY <1>3, <1>4, <2>1
  <2>. QED  BY <1>1, <1>7, <2>1, <2>2, <2>3 DEF Doing
<1>8. CASE pc[q] = "opened"
  <2>1. /\ loc[q].call \in {"creat", "open_r", "open_rw"} /\ loc[q].ip \in Slot /\ loc[q].dp = 0
        /\ fs.ic[loc[q].ip].lock = q /\ (loc[q].call # "open_r" => ~DirAt(fs, loc[q].ip)) /\ cwd[q] \in Slot
    BY <1>1, <1>8 DEF Doing
  <2>2. fs'.ic[loc[q].ip].lock = q /\ (loc[q].call # "open_r" => ~DirAt(fs', loc[q].ip))
    BY <1>2, <1>3, <2>1 DEF DirAt
  <2>. QED  BY <1>1, <1>8, <2>1, <2>2 DEF Doing
<1>9. CASE pc[q] = "write"
  <2>1. /\ loc[q].ip = 0 /\ loc[q].dp = 0 /\ loc[q].f \in File /\ loc[q].iov # <<>>
        /\ (\E fd \in Fd : ofile[q][fd] = loc[q].f) /\ ftable[loc[q].f].w /\ cwd[q] \in Slot
    BY <1>1, <1>9 DEF Doing
  <2>2. PICK fd \in Fd : ofile[q][fd] = loc[q].f
    BY <2>1
  <2>3. ~Closing(pc, loc, q, fd) /\ loc[q].f # 0
    BY <1>9, <2>1 DEF Closing, File
  <2>4. ftable[loc[q].f].ref > 0
    BY <2>2, <2>3, RunsIs, InUse DEF Runs
  <2>5. ftable'[loc[q].f].w
    BY <2>1, <2>4 DEF FilesStay
  <2>. QED  BY <1>1, <1>9, <2>1, <2>5 DEF Doing
<1>. QED  BY <1>1, <1>5, <1>6, <1>7, <1>8, <1>9 DEF Pc

\* Its transaction.
LEMMA OthersLogged ==
    ASSUME Runs, NEW p \in Process, Frame(fs, fs', p), Alone(p), NEW q \in Process, q # p
    PROVE  Logged(q)'
<1>1. /\ pc'[q] = pc[q] /\ loc'[q] = loc[q] /\ lg'[q] = lg[q] /\ Logged(q) /\ Doing(q)
  BY DEF Alone, Runs, Live
<1>2. CASE pc[q] = "link"
  <2>1. loc[q].ip \in Slot
    BY <1>1, <1>2 DEF Doing
  <2>2. fs'.ic[loc[q].ip].inum = fs.ic[loc[q].ip].inum
    BY <2>1, RunsIs, InUse DEF Runs, Frame
  <2>. QED  BY <1>1, <1>2, <2>2 DEF Logged
<1>3. CASE pc[q] # "link"
  BY <1>1, <1>3 DEF Logged
<1>. QED  BY <1>2, <1>3

\* The locks, when p holds none but those its place in the call allows.
LEMMA OthersHeld ==
    ASSUME Runs, NEW p \in Process, Frame(fs, fs', p), Alone(p), fs' \in FsState,
           \A s \in Slot : fs'.ic[s].lock = p => MayHold(pc', loc', p, s)
    PROVE  \A s \in Slot : Held(s)'
<1>1. SUFFICES ASSUME NEW s \in Slot, fs'.ic[s].lock # NoProc, fs'.ic[s].lock # p
               PROVE  MayHold(pc', loc', fs'.ic[s].lock, s)
  BY DEF Held
<1>2. fs'.ic[s].lock \in Process
  BY <1>1, EntryIs
<1>3. fs'.ic[s].lock = fs.ic[s].lock
  BY <1>1 DEF Frame
<1>4. MayHold(pc, loc, fs.ic[s].lock, s)
  BY <1>1, <1>3, RunsIs DEF Held
<1>. DEFINE q == fs.ic[s].lock
<1>5. q \in Process /\ q # p /\ pc'[q] = pc[q] /\ loc'[q] = loc[q] /\ MayHold(pc, loc, q, s)
  BY <1>1, <1>2, <1>3, <1>4 DEF Alone
<1>. HIDE DEF q
<1>6. MayHold(pc', loc', q, s)
  BY <1>5 DEF MayHold
<1>7. q = fs'.ic[s].lock
  BY <1>3 DEF q
<1>. QED  BY <1>6, <1>7

\* The files that stay as they are.
LEMMA OthersFile ==
    ASSUME Runs, NEW p \in Process, Frame(fs, fs', p), NEW f \in File,
           ftable'[f].type = ftable[f].type, ftable'[f].ip = ftable[f].ip, ftable'[f].w = ftable[f].w,
           ftable'[f].ref > 0 <=> ftable[f].ref > 0
    PROVE  FileOK(f)'
<1>1. FileOK(f)
  BY DEF Runs, Live
<1>2. ASSUME ftable[f].type = "INODE"
      PROVE  DirAt(fs', ftable[f].ip) <=> DirAt(fs, ftable[f].ip)
  <2>1. ftable[f].ip \in Slot
    BY <1>1, <1>2 DEF FileOK
  <2>2. fs.ic[ftable[f].ip].ref > 0
    BY <1>2, <2>1, RunsIs, InUse DEF Runs
  <2>3. fs.ic[ftable[f].ip].inum \in Inum /\ fs.di[fs.ic[ftable[f].ip].inum].type # "0"
    BY <2>1, <2>2, RunsIs DEF Cached, CacheOK
  <2>. QED  BY <2>1, <2>2, <2>3 DEF Frame, DirAt
<1>. QED  BY <1>1, <1>2 DEF FileOK

\* The new inodes, when p has none.
LEMMA OthersOrphans ==
    ASSUME Runs, NEW p \in Process, Frame(fs, fs', p), Alone(p), pc[p] # "link", pc'[p] # "link"
    PROVE  Orphans' = Orphans
<1>. DEFINE A == {q \in Process : pc[q] = "link"}
<1>1. {q \in Process : pc'[q] = "link"} = A
  BY DEF Alone
<1>2. ASSUME NEW q \in A
      PROVE  fs'.ic[loc'[q].ip].inum = fs.ic[loc[q].ip].inum
  <2>1. q \in Process /\ q # p /\ pc[q] = "link" /\ loc'[q] = loc[q]
    BY DEF Alone
  <2>2. loc[q].ip \in Slot
    BY <2>1, RunsIs DEF Doing
  <2>3. fs.ic[loc[q].ip].ref > 0
    BY <2>1, <2>2, RunsIs, InUse DEF Runs
  <2>. QED  BY <2>1, <2>2, <2>3 DEF Frame
<1>3. {fs'.ic[loc'[q].ip].inum : q \in {r \in Process : pc'[r] = "link"}} = {fs'.ic[loc'[q].ip].inum : q \in A}
  BY <1>1
<1>. HIDE DEF A
<1>4. {fs'.ic[loc'[q].ip].inum : q \in A} = {fs.ic[loc[q].ip].inum : q \in A}
  BY <1>2
<1>. QED  BY <1>3, <1>4 DEF Orphans, A

\* All that a step has to establish for the invariant.
LEMMA StepLive ==
    ASSUME Runs, NEW p \in Process, Frame(fs, fs', p), Alone(p), FilesStay,
           Tables', Cached(fs'), fs'.log = {}, IRefs', FRefs', Doing(p)', Logged(p)',
           \A s \in Slot : fs'.ic[s].lock = p => MayHold(pc', loc', p, s),
           \A f \in File : FileOK(f)',
           Blocks(fs'.di, fs'.data, fs'.used), Whole(fs'.di, fs'.data),
           Tree(fs'.di, fs'.data, Orphans')
    PROVE  Runs'
<1>1. fs' \in FsState /\ Ok(fs') /\ OneEntry(fs'.ic) /\ CacheOK(fs'.di, fs'.ic)
  BY DEF Cached
<1>2. RefsCounted'
  BY RefsAreNext
<1>3. \A q \in Process : Doing(q)' /\ Logged(q)'
  BY OthersDoing, OthersLogged
<1>4. \A s \in Slot : Held(s)'
  BY <1>1, OthersHeld
<1>5. Shape'
  BY <1>1 DEF Shape
<1>6. Live'
  BY <1>1, <1>2, <1>3, <1>4 DEF Live
<1>. QED  BY <1>1, <1>5, <1>6 DEF Runs, Ok

\* The counts are right.
LEMMA RunsRefs ==
    ASSUME Runs
    PROVE  IRefs /\ FRefs
<1>1. RefsCounted /\ Ok(fs)
  BY RunsIs DEF Runs
<1>. QED  BY <1>1, RefsAre, Zenon

\* Pointers of p change by as much as the reference counts.
Gain(a, b, t) == One(b, t) - One(a, t)

\* If each reference count changes by what p gains and loses in pointers,
\* every inode is still counted.
LEMMA RefsMove ==
    ASSUME Runs, NEW p \in Process, Alone(p), NEW f \in File,
           \A g \in File : g # f => FileIp(ftable'[g]) = FileIp(ftable[g]),
           \A t \in Slot : fs'.ic[t].ref = fs.ic[t].ref + Gain(cwd[p], cwd'[p], t)
                + Gain(loc[p].ip, loc'[p].ip, t) + Gain(loc[p].dp, loc'[p].dp, t)
                + Gain(FileIp(ftable[f]), FileIp(ftable'[f]), t)
    PROVE  IRefs'
<1>0. \A q \in Process : q # p => cwd'[q] = cwd[q] /\ loc'[q] = loc[q]
  BY DEF Alone
<1>1. SUFFICES ASSUME NEW t \in Slot
               PROVE  fs'.ic[t].ref = CwdCount(cwd', t) + FileCount(ftable', t)
                                      + IpCount(loc', t) + DpCount(loc', t)
  BY DEF IRefs
<1>2. fs.ic[t].ref = CwdCount(cwd, t) + FileCount(ftable, t) + IpCount(loc, t) + DpCount(loc, t)
  BY RunsRefs DEF IRefs
<1>3. /\ CwdCount(cwd, t) \in Nat /\ CwdCount(cwd', t) \in Nat
      /\ CwdCount(cwd', t) = CwdCount(cwd, t) + One(cwd'[p], t) - One(cwd[p], t)
  <2>1. \A q \in Process : q # p => cwd'[q] = cwd[q]
    BY <1>0
  <2>. QED  BY <2>1, CwdChange, ZenonT(30)
<1>4. /\ IpCount(loc, t) \in Nat /\ IpCount(loc', t) \in Nat
      /\ IpCount(loc', t) = IpCount(loc, t) + One(loc'[p].ip, t) - One(loc[p].ip, t)
  BY <1>0, IpChange
<1>5. /\ DpCount(loc, t) \in Nat /\ DpCount(loc', t) \in Nat
      /\ DpCount(loc', t) = DpCount(loc, t) + One(loc'[p].dp, t) - One(loc[p].dp, t)
  BY <1>0, DpChange
<1>6. /\ FileCount(ftable, t) \in Nat /\ FileCount(ftable', t) \in Nat
      /\ FileCount(ftable', t) = FileCount(ftable, t) + One(FileIp(ftable'[f]), t) - One(FileIp(ftable[f]), t)
  BY FileChange
<1>7. /\ One(cwd'[p], t) \in Nat /\ One(cwd[p], t) \in Nat /\ One(loc'[p].ip, t) \in Nat /\ One(loc[p].ip, t) \in Nat
      /\ One(loc'[p].dp, t) \in Nat /\ One(loc[p].dp, t) \in Nat
      /\ One(FileIp(ftable'[f]), t) \in Nat /\ One(FileIp(ftable[f]), t) \in Nat
  BY DEF One
<1>. QED  BY <1>2, <1>3, <1>4, <1>5, <1>6, <1>7 DEF Gain

\* The same, when no file changes.
LEMMA RefsMove0 ==
    ASSUME Runs, NEW p \in Process, Alone(p),
           \A g \in File : FileIp(ftable'[g]) = FileIp(ftable[g]),
           \A t \in Slot : fs'.ic[t].ref = fs.ic[t].ref + Gain(cwd[p], cwd'[p], t)
                + Gain(loc[p].ip, loc'[p].ip, t) + Gain(loc[p].dp, loc'[p].dp, t)
    PROVE  IRefs'
<1>0. \A q \in Process : q # p => cwd'[q] = cwd[q] /\ loc'[q] = loc[q]
  BY DEF Alone
<1>1. SUFFICES ASSUME NEW t \in Slot
               PROVE  fs'.ic[t].ref = CwdCount(cwd', t) + FileCount(ftable', t)
                                      + IpCount(loc', t) + DpCount(loc', t)
  BY DEF IRefs
<1>2. fs.ic[t].ref = CwdCount(cwd, t) + FileCount(ftable, t) + IpCount(loc, t) + DpCount(loc, t)
  BY RunsRefs DEF IRefs
<1>3. /\ CwdCount(cwd, t) \in Nat /\ CwdCount(cwd', t) \in Nat
      /\ CwdCount(cwd', t) = CwdCount(cwd, t) + One(cwd'[p], t) - One(cwd[p], t)
  <2>1. \A q \in Process : q # p => cwd'[q] = cwd[q]
    BY <1>0
  <2>. QED  BY <2>1, CwdChange, ZenonT(30)
<1>4. /\ IpCount(loc, t) \in Nat /\ IpCount(loc', t) \in Nat
      /\ IpCount(loc', t) = IpCount(loc, t) + One(loc'[p].ip, t) - One(loc[p].ip, t)
  BY <1>0, IpChange
<1>5. /\ DpCount(loc, t) \in Nat /\ DpCount(loc', t) \in Nat
      /\ DpCount(loc', t) = DpCount(loc, t) + One(loc'[p].dp, t) - One(loc[p].dp, t)
  BY <1>0, DpChange
<1>6. FileCount(ftable, t) \in Nat /\ FileCount(ftable', t) = FileCount(ftable, t)
  <2>1. {g \in File : FileIp(ftable'[g]) = t} = {g \in File : FileIp(ftable[g]) = t}
    OBVIOUS
  <2>. QED  BY <2>1, CountTypes, ZenonT(30) DEF FileCount
<1>7. /\ One(cwd'[p], t) \in Nat /\ One(cwd[p], t) \in Nat /\ One(loc'[p].ip, t) \in Nat /\ One(loc[p].ip, t) \in Nat
      /\ One(loc'[p].dp, t) \in Nat /\ One(loc[p].dp, t) \in Nat
  BY DEF One
<1>. QED  BY <1>2, <1>3, <1>4, <1>5, <1>6, <1>7 DEF Gain

\* Descriptors and their counts stay.
LEMMA FRefsSame ==
    ASSUME Runs, NEW p \in Process, Alone(p), ofile' = ofile, pc[p] # "put", pc'[p] # "put",
           \A f \in File : ftable'[f].ref = ftable[f].ref
    PROVE  FRefs'
<1>1. ASSUME NEW q \in Process, NEW fd \in Fd
      PROVE  Desc(ofile', pc', loc', q, fd) = Desc(ofile, pc, loc, q, fd)
  BY DEF Alone, Desc, Closing
<1>2. \A f \in File : ftable[f].ref = FileRefs(ofile, pc, loc, f)
  BY RunsRefs DEF FRefs
<1>3. ASSUME NEW f \in File PROVE ftable'[f].ref = FileRefs(ofile', pc', loc', f)
  <2>1. FileRefs(ofile', pc', loc', f) = FileRefs(ofile, pc, loc, f)
    BY <1>1, DescSame
  <2>. QED  BY <1>2, <2>1
<1>. QED  BY <1>3 DEF FRefs

\* A step on the inode cache whose locks are those of p.
LEMMA MovesFrame ==
    ASSUME Runs, NEW p \in Process, NEW a, NEW b, NEW s, NEW x, Moves(fs, fs', a, b, s, x),
           s \in Slot => fs.ic[s].lock \in {p, NoProc} /\ x \in {p, NoProc}
    PROVE  Frame(fs, fs', p)
<1>1. fs'.di = fs.di /\ fs'.data = fs.data
  BY DEF Moves, SameDisk
<1>2. \A t \in Slot : /\ fs'.ic[t].lock = IF t = s THEN x ELSE fs.ic[t].lock
                      /\ fs.ic[t].ref > 0 => fs'.ic[t].inum = fs.ic[t].inum
  BY DEF Moves
<1>3. ASSUME NEW t \in Slot, NEW name, fs.ic[t].lock \notin {p, NoProc}, Absent(fs, t, name)
      PROVE  Absent(fs', t, name)
  <2>1. fs.ic[t].ref > 0
    BY <1>3, RunsIs DEF Cached, CacheOK
  <2>. QED  BY <1>1, <1>2, <1>3, <2>1 DEF Absent
<1>. QED  BY <1>1, <1>2, <1>3 DEF Frame

\* A step on the inode cache, with all files as they are.
LEMMA CacheMove ==
    ASSUME Runs, NEW p \in Process, NEW a, NEW b, NEW s, NEW x, Moves(fs, fs', a, b, s, x),
           s \in Slot => fs.ic[s].lock \in {p, NoProc} /\ x \in {p, NoProc},
           Alone(p), Tables', ftable' = ftable, FRefs', pc[p] # "link", pc'[p] # "link",
           \A t \in Slot : Gain(a, b, t) = Gain(cwd[p], cwd'[p], t)
                + Gain(loc[p].ip, loc'[p].ip, t) + Gain(loc[p].dp, loc'[p].dp, t),
           \A t \in Slot : fs'.ic[t].lock = p => MayHold(pc', loc', p, t),
           Doing(p)', Logged(p)'
    PROVE  Runs'
<1>1. Frame(fs, fs', p)
  BY MovesFrame
<1>2. FilesStay
  BY DEF FilesStay
<1>3. Cached(fs') /\ fs'.di = fs.di /\ fs'.data = fs.data /\ fs'.used = fs.used /\ fs'.log = {}
  BY RunsIs DEF Moves, SameDisk
<1>4. \A f \in File : FileOK(f)'
  BY <1>1, OthersFile
<1>5. Orphans' = Orphans
  BY <1>1, OthersOrphans
<1>7. IRefs'
  <2>1. ASSUME NEW t \in Slot
        PROVE  fs'.ic[t].ref = fs.ic[t].ref + Gain(cwd[p], cwd'[p], t)
                + Gain(loc[p].ip, loc'[p].ip, t) + Gain(loc[p].dp, loc'[p].dp, t)
    <3>1. fs'.ic[t].ref = fs.ic[t].ref + One(b, t) - One(a, t)
      BY DEF Moves
    <3>2. fs.ic[t].ref \in Nat
      BY RunsIs, EntryIs
    <3>3. /\ One(cwd'[p], t) \in Nat /\ One(cwd[p], t) \in Nat /\ One(loc'[p].ip, t) \in Nat /\ One(loc[p].ip, t) \in Nat
          /\ One(loc'[p].dp, t) \in Nat /\ One(loc[p].dp, t) \in Nat /\ One(a, t) \in Nat /\ One(b, t) \in Nat
      BY DEF One
    <3>. QED  BY <3>1, <3>2, <3>3 DEF Gain
  <2>. QED  BY <2>1, RefsMove0
<1>8. Blocks(fs'.di, fs'.data, fs'.used) /\ Whole(fs'.di, fs'.data) /\ Tree(fs'.di, fs'.data, Orphans')
  BY <1>3, <1>5, RunsIs
<1>. QED  BY <1>1, <1>2, <1>3, <1>4, <1>7, <1>8, StepLive

\* A step on the inode cache, with all files and descriptors as they are.
LEMMA CacheStep ==
    ASSUME Runs, NEW p \in Process, NEW a, NEW b, NEW s, NEW x, Moves(fs, fs', a, b, s, x),
           s \in Slot => fs.ic[s].lock \in {p, NoProc} /\ x \in {p, NoProc},
           Alone(p), Tables', ftable' = ftable, ofile' = ofile,
           pc[p] \notin {"put", "link"}, pc'[p] \notin {"put", "link"},
           \A t \in Slot : Gain(a, b, t) = Gain(cwd[p], cwd'[p], t)
                + Gain(loc[p].ip, loc'[p].ip, t) + Gain(loc[p].dp, loc'[p].dp, t),
           \A t \in Slot : fs'.ic[t].lock = p => MayHold(pc', loc', p, t),
           Doing(p)', Logged(p)'
    PROVE  Runs'
<1>1. FRefs'
  BY FRefsSame
<1>. QED  BY <1>1, CacheMove

\* A panic ends all steps.
LEMMA PanicStep ==
    ASSUME fs' \in FsState, fs'.log = {}, OneEntry(fs'.ic), ~Ok(fs'), Tables', OpFits', OnlyFullTablesPanic'
    PROVE  IInv'
BY DEF IInv, Shape, Ok

\* A step that does not panic.
LEMMA RunsStep ==
    ASSUME Runs', OpFits'
    PROVE  IInv'
<1>1. fs'.panic = "no" /\ Ok(fs')
  BY DEF Runs, Ok
<1>2. OnlyFullTablesPanic'
  BY <1>1 DEF OnlyFullTablesPanic
<1>. QED  BY <1>2 DEF IInv, Runs

\* What the operations log at most lies within what begin_op() reserves, and
\* below it from MAXOPBLOCKS = 7 on.
LEMMA LoggedBound ==
    /\ MaxLogged \in Nat /\ 6 <= MaxLogged /\ MaxLogged <= MAXOPBLOCKS
    /\ MAXOPBLOCKS > 6 => MaxLogged < MAXOPBLOCKS
BY FsAssumption DEF MaxLogged

\* A step that logs nothing.
LEMMA SetIs ==
    ASSUME Runs, OpFits, NEW p \in Process, NEW G \in FsState, G.log = {}, Set(p, G)
    PROVE  fs' = G /\ lg' = lg /\ OpFits'
<1>1. fs' = G
  BY DEF Set, FsState
<1>2. lg' = lg
  BY RunsIs DEF Set, Tables
<1>. QED  BY <1>1, <1>2 DEF OpFits

\* A transaction that logs nothing.
LEMMA SetOpIs ==
    ASSUME Runs, OpFits, NEW p \in Process, NEW G \in FsState, G.log = {}, SetOp(p, G)
    PROVE  /\ fs' = G /\ lg' \in [Process -> SUBSET Nat] /\ lg'[p] = {} /\ OpFits'
           /\ \A q \in Process : q # p => lg'[q] = lg[q]
<1>1. fs' = G
  BY DEF SetOp, FsState
<1>2. /\ lg' \in [Process -> SUBSET Nat] /\ lg'[p] = {}
      /\ \A q \in Process : q # p => lg'[q] = lg[q]
  BY RunsIs DEF SetOp, Tables
<1>3. Cardinality({}) <= MaxLogged
  <2>1. Cardinality({}) = 0
    BY FS_EmptySet, Zenon
  <2>. QED  BY <2>1, LoggedBound
<1>4. OpFits'
  <2>1. ASSUME NEW q \in Process PROVE Cardinality(lg'[q]) <= MaxLogged
    <3>1. CASE q = p
      BY <1>2, <1>3, <3>1
    <3>2. CASE q # p
      BY <1>2, <3>2 DEF OpFits
    <3>. QED  BY <3>1, <3>2
  <2>. QED  BY <2>1 DEF OpFits
<1>. QED  BY <1>1, <1>2, <1>4

\* The state of a process outside its calls.
LEMMA IdleIs ==
    /\ Idle \in LocRec /\ Idle.ip = 0 /\ Idle.dp = 0 /\ Idle.f = 0 /\ Idle.fd = 0 /\ Idle.call = "-"
    /\ Idle.path = <<>> /\ Idle.iov = <<>>
<1>1. <<>> \in Seq(Name) /\ <<>> \in Seq(Nat)
  OBVIOUS
<1>. QED  BY <1>1 DEF Idle, LocRec, Calls

\* Where p goes.
LEMMA GotoIs ==
    ASSUME Runs, NEW p \in Process, NEW at \in Pc, NEW l \in LocRec, Goto(p, at, l)
    PROVE  /\ pc' \in [Process -> Pc] /\ loc' \in [Process -> LocRec] /\ pc'[p] = at /\ loc'[p] = l
           /\ \A q \in Process : q # p => pc'[q] = pc[q] /\ loc'[q] = loc[q]
BY RunsIs DEF Goto, Tables

\* The locks of p.
LEMMA OwnLocks ==
    ASSUME Runs, NEW p \in Process, NEW t \in Slot, fs.ic[t].lock = p
    PROVE  MayHold(pc, loc, p, t)
<1>1. Held(t) /\ p # NoProc
  BY RunsIs, FsAssumption
<1>. QED  BY <1>1 DEF Held

\* A pointer that was dropped, and the lock with it.
LEMMA FailStep ==
    ASSUME Runs, OpFits, NEW p \in Process, pc[p] \in {"walk", "exists", "found", "opened"},
           NEW G, NEW s, s \in {0, loc[p].ip}, Moves(fs, G, loc[p].ip, 0, s, NoProc),
           s \in Slot => fs.ic[s].lock \in {p, NoProc}, pc[p] = "opened" => s = loc[p].ip,
           Fail(p, G), UNCHANGED <<tables, calls>>
    PROVE  IInv'
<1>1. /\ Doing(p) /\ fs \in FsState /\ fs.log = {} /\ Tables /\ NoProc # p
  BY RunsIs, FsAssumption
<1>2. loc[p].ip \in Slot /\ loc[p].dp = 0 /\ cwd[p] \in Slot
  BY <1>1 DEF Doing
<1>3. G \in FsState /\ G.log = {}
  BY <1>1 DEF Moves, Cached, SameDisk
<1>4. fs' = G /\ lg' = lg /\ OpFits'
  BY <1>3, SetIs DEF Fail
<1>5. /\ pc' \in [Process -> Pc] /\ loc' \in [Process -> LocRec] /\ pc'[p] = "user" /\ loc'[p] = Idle
      /\ \A q \in Process : q # p => pc'[q] = pc[q] /\ loc'[q] = loc[q]
  BY IdleIs, GotoIs DEF Fail, Return, Pc
<1>6. ftable' = ftable /\ ofile' = ofile /\ cwd' = cwd /\ calls' = calls
  BY DEF tables
<1>7. Alone(p)
  BY <1>4, <1>5, <1>6 DEF Alone
<1>8. Tables'
  BY <1>1, <1>4, <1>5, <1>6 DEF Tables
<1>9. Doing(p)'
  BY <1>2, <1>5, <1>6 DEF Doing
<1>10. Logged(p)'
  BY <1>5 DEF Logged
<1>11. ASSUME NEW t \in Slot
       PROVE  Gain(loc[p].ip, 0, t) = Gain(cwd[p], cwd'[p], t) + Gain(loc[p].ip, loc'[p].ip, t)
                                      + Gain(loc[p].dp, loc'[p].dp, t)
  BY <1>2, <1>5, <1>6, IdleIs DEF Gain, One
<1>12. ASSUME NEW t \in Slot, fs'.ic[t].lock = p PROVE FALSE
  <2>1. fs'.ic[t].lock = IF t = s THEN NoProc ELSE fs.ic[t].lock
    BY <1>4 DEF Moves
  <2>2. t # s /\ fs.ic[t].lock = p
    BY <1>1, <1>12, <2>1
  <2>3. MayHold(pc, loc, p, t)
    BY <2>2, OwnLocks
  <2>. QED  BY <2>2, <2>3 DEF MayHold
<1>13. Runs'
  BY <1>4, <1>5, <1>6, <1>7, <1>8, <1>9, <1>10, <1>11, <1>12, CacheStep
<1>. QED  BY <1>4, <1>13, RunsStep

\* Entry s, locked by p.
LockedBy(F, L, s, p) ==
    /\ Moves(F, L, 0, 0, s, p) /\ Holder(L, s) /\ Cached(L) /\ L.ic[s].inum = F.ic[s].inum
    /\ L.ic[s].ino = F.di[F.ic[s].inum] /\ L.di = F.di /\ L.data = F.data /\ L.log = F.log
    /\ L.ic[s].lock = p /\ Leads(L.di, L.data) /\ Linked(L.di)

\* ilock() by p of an inode that is referenced: p holds it with the copy of the disk.
LEMMA LockIs ==
    ASSUME Runs, NEW p \in Process, NEW s \in Slot, fs.ic[s].ref > 0, NEW L, L = ilock(fs, s, p)
    PROVE  LockedBy(fs, L, s, p)
<1>1. /\ Cached(fs) /\ Blocks(fs.di, fs.data, fs.used) /\ Whole(fs.di, fs.data) /\ Linked(fs.di)
      /\ Leads(fs.di, fs.data) /\ p # NoProc
  BY RunsIs, FsAssumption
<1>2. Moves(fs, L, 0, 0, s, p) /\ L.ic[s].inum = fs.ic[s].inum /\ L.ic[s].ino = fs.di[fs.ic[s].inum]
  BY <1>1, IlockIs
<1>3. Cached(L) /\ L.di = fs.di /\ L.data = fs.data /\ L.used = fs.used /\ L.log = fs.log /\ L.ic[s].lock = p
  BY <1>2 DEF Moves, SameDisk
<1>4. Holder(L, s)
  BY <1>1, <1>3, LockedHolder
<1>. QED  BY <1>1, <1>2, <1>3, <1>4 DEF LockedBy

\* Locked and dropped again.
LEMMA LockDrop ==
    ASSUME Runs, NEW p \in Process, NEW s \in Slot, NEW L, LockedBy(fs, L, s, p),
           NEW G, G = iunlockput(L, s, p)
    PROVE  Moves(fs, G, s, 0, s, NoProc)
<1>1. p # NoProc /\ fs \in FsState
  BY RunsIs, FsAssumption
<1>2. Moves(L, G, s, 0, s, NoProc)
  BY <1>1, IunlockputIs DEF LockedBy
<1>. QED  BY <1>1, <1>2, MovesThen DEF LockedBy

\* Locked and unlocked again.
LEMMA LockUnlock ==
    ASSUME Runs, NEW p \in Process, NEW s \in Slot, NEW L, LockedBy(fs, L, s, p),
           NEW G, G = iunlock(L, s, p)
    PROVE  Moves(fs, G, 0, 0, s, NoProc)
<1>1. p # NoProc /\ fs \in FsState
  BY RunsIs, FsAssumption
<1>2. Moves(L, G, 0, 0, s, NoProc)
  BY <1>1, IunlockIs DEF LockedBy
<1>. QED  BY <1>1, <1>2, MovesThen DEF LockedBy

\* Locked, another entry got, and dropped again.
LEMMA LockGetDrop ==
    ASSUME Runs, NEW p \in Process, NEW s \in Slot, NEW L, LockedBy(fs, L, s, p),
           NEW r, NEW n, GotEntry(L, r, n), NEW G, G = iunlockput(r.fs, s, p)
    PROVE  Moves(fs, G, s, r.s, s, NoProc)
<1>1. p # NoProc /\ fs \in FsState /\ 0 \notin Slot
  BY RunsIs, FsAssumption DEF Slot
<1>2. Moves(L, r.fs, 0, r.s, 0, NoProc) /\ L \in FsState
  BY DEF GotEntry, LockedBy, Cached
<1>3. Cached(r.fs) /\ r.fs.di = L.di /\ r.fs.ic[s].lock = p
  BY <1>1, <1>2 DEF Moves, SameDisk, LockedBy
<1>4. Moves(r.fs, G, s, 0, s, NoProc)
  BY <1>1, <1>3, IunlockputIs DEF LockedBy
<1>5. Moves(fs, r.fs, 0, r.s, s, p)
  BY <1>1, <1>2, MovesThen DEF LockedBy
<1>. QED  BY <1>1, <1>4, <1>5, MovesThen

\* iget() found no entry after p locked s.
LEMMA LockFull ==
    ASSUME Runs, NEW p \in Process, NEW s \in Slot, NEW L, LockedBy(fs, L, s, p), NEW r, NoEntry(L, r)
    PROVE  /\ r.fs \in FsState /\ r.fs.log = {} /\ OneEntry(r.fs.ic) /\ r.fs.panic = "iget" /\ ~Ok(r.fs)
           /\ \A t \in Slot : r.fs.ic[t].ref > 0
<1>1. Fields(r.fs, L.di, L.data, L.used, L.ic, L.log, "iget") /\ \A t \in Slot : L.ic[t].ref > 0
  BY DEF NoEntry
<1>2. L.log = {} /\ OneEntry(L.ic)
  BY RunsIs DEF LockedBy, Cached
<1>. QED  BY <1>1, <1>2 DEF Fields, Ok

\* The inode cache is full.
FullCache(G) ==
    /\ G \in FsState /\ G.log = {} /\ OneEntry(G.ic) /\ G.panic = "iget" /\ ~Ok(G)
    /\ \A t \in Slot : G.ic[t].ref > 0

\* A step that ends in the panic of iget() keeps the invariant.
LEMMA FullCacheStep ==
    ASSUME FullCache(fs'), Tables', OpFits'
    PROVE  IInv'
<1>1. OnlyFullTablesPanic'
  BY DEF FullCache, OnlyFullTablesPanic
<1>. QED  BY <1>1, PanicStep DEF FullCache

\* The step is taken in a running kernel.
LEMMA RunsNow ==
    ASSUME IInv, Ok(fs)
    PROVE  Runs /\ OpFits
BY DEF IInv, Runs

\* The elements of a path are names.
LEMMA PathNames ==
    ASSUME NEW path \in Path
    PROVE  path.elems \in Seq(Name) /\ path.abs \in BOOLEAN
<1>1. path \in [abs : BOOLEAN, elems : Seq(STRING)]
  BY FsAssumption
<1>2. path.elems \in Seq(STRING) /\ path.abs \in BOOLEAN
  BY <1>1
<1>3. Range(path.elems) \subseteq Name
  BY DEF Name
<1>4. \A i \in 1..Len(path.elems) : path.elems[i] \in Name
  BY <1>2, <1>3 DEF Range
<1>. QED  BY <1>2, <1>4

\* begin_op() and the start of namex().
LEMMA BeginStep ==
    ASSUME IInv, NEW p \in Process, NEW call \in PathCalls, NEW path \in Path, Begin(p, call, path)
    PROVE  IInv'
<1>. DEFINE r == IF path.abs THEN iget(fs, ROOTINO) ELSE [fs |-> idup(fs, cwd[p]), s |-> cwd[p]]
            l == [Idle EXCEPT !.call = call, !.path = path.elems, !.ip = r.s]
<1>0. Ok(fs) /\ pc[p] = "user" /\ calls < MaxCalls /\ calls' = calls + 1
  BY DEF Begin, Call, Running
<1>1. Runs /\ OpFits /\ fs \in FsState /\ fs.log = {} /\ Tables /\ Doing(p) /\ Cached(fs) /\ p # NoProc
  BY <1>0, RunsNow, RunsIs, FsAssumption
<1>2. cwd[p] \in Slot /\ loc[p] = Idle
  BY <1>0, <1>1 DEF Doing
<1>3. fs.ic[cwd[p]].ref > 0
  BY <1>1, <1>2, RunsIs, InUse DEF Runs
<1>4. NoEntry(fs, r) \/ (r.s \in Slot /\ Moves(fs, r.fs, 0, r.s, 0, NoProc))
  <2>1. CASE path.abs
    <3>1. fs.di[ROOTINO].type # "0"
      BY <1>1, RunsIs DEF Tree, Unlinked
    <3>2. r = iget(fs, ROOTINO)
      BY <2>1
    <3>. QED  BY <1>1, <3>1, <3>2, IgetIs, Layout DEF GotEntry
  <2>2. CASE ~path.abs
    <3>1. r.fs = idup(fs, cwd[p]) /\ r.s = cwd[p]
      BY <2>2
    <3>. QED  BY <1>1, <1>2, <1>3, <3>1, IdupIs
  <2>. QED  BY <2>1, <2>2
<1>5. SetOp(p, r.fs) /\ Goto(p, "walk", l) /\ UNCHANGED <<ftable, ofile, cwd>>
  BY DEF Begin, tables
<1>. HIDE DEF r
<1>6. r.fs \in FsState /\ r.fs.log = {} /\ r.s \in Slot \cup {0}
  BY <1>1, <1>4 DEF NoEntry, Fields, Moves, Cached, SameDisk
<1>7. /\ fs' = r.fs /\ lg' \in [Process -> SUBSET Nat] /\ lg'[p] = {} /\ OpFits'
      /\ \A q \in Process : q # p => lg'[q] = lg[q]
  BY <1>1, <1>5, <1>6, SetOpIs
<1>8. l \in LocRec /\ l.call = call /\ l.ip = r.s /\ l.dp = 0
  <2>1. path.elems \in Seq(Name)
    BY PathNames
  <2>. QED  BY <1>6, <2>1, IdleIs DEF LocRec, Calls
<1>. HIDE DEF l
<1>9. /\ pc' \in [Process -> Pc] /\ loc' \in [Process -> LocRec] /\ pc'[p] = "walk" /\ loc'[p] = l
      /\ \A q \in Process : q # p => pc'[q] = pc[q] /\ loc'[q] = loc[q]
  BY <1>1, <1>5, <1>8, GotoIs DEF Pc
<1>10. Tables'
  <2>1. calls' \in 0..MaxCalls
    BY <1>0, <1>1, FsAssumption DEF Tables
  <2>. QED  BY <1>1, <1>5, <1>7, <1>9, <2>1 DEF Tables
<1>11. CASE NoEntry(fs, r)
  <2>1. FullCache(fs')
    BY <1>1, <1>6, <1>7, <1>11 DEF NoEntry, Fields, FullCache, Cached, Ok
  <2>. QED  BY <1>7, <1>10, <2>1, FullCacheStep
<1>12. CASE r.s \in Slot /\ Moves(fs, r.fs, 0, r.s, 0, NoProc)
  <2>1. Alone(p)
    BY <1>5, <1>7, <1>9 DEF Alone
  <2>2. Doing(p)'
    BY <1>2, <1>5, <1>8, <1>9, <1>12 DEF Doing
  <2>3. Logged(p)'
    BY <1>7, <1>9 DEF Logged
  <2>4. 0 \notin Slot
    BY DEF Slot
  <2>5. \A t \in Slot : Gain(0, r.s, t) = Gain(cwd[p], cwd'[p], t) + Gain(loc[p].ip, loc'[p].ip, t)
                                          + Gain(loc[p].dp, loc'[p].dp, t)
    BY <1>2, <1>5, <1>8, <1>9, IdleIs DEF Gain, One
  <2>6. ASSUME NEW t \in Slot, fs'.ic[t].lock = p PROVE FALSE
    <3>1. fs.ic[t].lock = p
      BY <1>7, <1>12, <2>4, <2>6 DEF Moves
    <3>. QED  BY <1>0, <1>1, <3>1, OwnLocks DEF MayHold
  <2>7. Moves(fs, fs', 0, r.s, 0, NoProc)
    BY <1>7, <1>12
  <2>8. Runs'
    BY <1>0, <1>1, <1>5, <1>9, <1>10, <2>1, <2>2, <2>3, <2>4, <2>5, <2>6, <2>7, CacheStep
  <2>. QED  BY <1>7, <2>8, RunsStep
<1>. QED  BY <1>4, <1>11, <1>12

\* A step inside a transaction that logs nothing.
LEMMA SetGoto ==
    ASSUME Runs, OpFits, NEW p \in Process, NEW at \in Pc, NEW l \in LocRec, NEW G \in FsState,
           G.log = {}, Set(p, G), Goto(p, at, l), ftable' = ftable, ofile' = ofile, calls' = calls,
           cwd' \in [Process -> Slot \cup {0}], \A q \in Process : q # p => cwd'[q] = cwd[q]
    PROVE  /\ fs' = G /\ lg' = lg /\ OpFits' /\ Alone(p) /\ Tables' /\ pc'[p] = at /\ loc'[p] = l
<1>1. fs' = G /\ lg' = lg /\ OpFits'
  BY SetIs
<1>2. /\ pc' \in [Process -> Pc] /\ loc' \in [Process -> LocRec] /\ pc'[p] = at /\ loc'[p] = l
      /\ \A q \in Process : q # p => pc'[q] = pc[q] /\ loc'[q] = loc[q]
  BY GotoIs
<1>3. Alone(p)
  BY <1>1, <1>2 DEF Alone
<1>4. Tables'
  BY RunsIs, <1>1, <1>2 DEF Tables
<1>. QED  BY <1>1, <1>2, <1>3, <1>4

\* The same, with all tables as they are.
LEMMA SetGoto0 ==
    ASSUME Runs, OpFits, NEW p \in Process, NEW at \in Pc, NEW l \in LocRec, NEW G \in FsState,
           G.log = {}, Set(p, G), Goto(p, at, l), UNCHANGED <<tables, calls>>
    PROVE  /\ fs' = G /\ lg' = lg /\ OpFits' /\ Alone(p) /\ Tables' /\ pc'[p] = at /\ loc'[p] = l
           /\ cwd' = cwd /\ ftable' = ftable /\ ofile' = ofile
<1>1. ftable' = ftable /\ ofile' = ofile /\ cwd' = cwd /\ calls' = calls
  BY DEF tables
<1>2. cwd' \in [Process -> Slot \cup {0}] /\ \A q \in Process : q # p => cwd'[q] = cwd[q]
  BY <1>1, RunsIs DEF Tables
<1>. QED  BY <1>1, <1>2, SetGoto

\* A step of the calls with a path: p's pointers move from entry a to b.
LEMMA PathStep ==
    ASSUME Runs, OpFits, NEW p \in Process, NEW at \in Pc, NEW l \in LocRec, NEW G,
           Set(p, G), Goto(p, at, l), UNCHANGED <<tables, calls>>,
           NEW a, NEW b, NEW s \in Slot, NEW x, x \in {p, NoProc}, Moves(fs, G, a, b, s, x), fs.ic[s].lock = NoProc,
           pc[p] \in {"walk", "parent", "exists", "found"}, at \notin {"put", "link"},
           \A t \in Slot : Gain(a, b, t) = Gain(loc[p].ip, l.ip, t) + Gain(loc[p].dp, l.dp, t),
           x = p => (at = "new" /\ s = l.dp) \/ (at = "opened" /\ s = l.ip),
           fs' = G /\ pc'[p] = at /\ loc'[p] = l /\ cwd' = cwd /\ ftable' = ftable /\ ofile' = ofile
              /\ cwd[p] \in Slot => Doing(p)'
    PROVE  IInv'
<1>1. /\ fs \in FsState /\ fs.log = {} /\ Doing(p) /\ p # NoProc /\ Logged(p)
  BY RunsIs, FsAssumption DEF Runs, Live
<1>2. G \in FsState /\ G.log = {}
  BY <1>1 DEF Moves, Cached, SameDisk
<1>3. /\ fs' = G /\ lg' = lg /\ OpFits' /\ Alone(p) /\ Tables' /\ pc'[p] = at /\ loc'[p] = l
      /\ cwd' = cwd /\ ftable' = ftable /\ ofile' = ofile
  BY <1>2, SetGoto0
<1>4. cwd[p] \in Slot /\ lg[p] = {}
  BY <1>1 DEF Doing, Logged
<1>5. Doing(p)'
  BY <1>3, <1>4
<1>6. Logged(p)'
  BY <1>3, <1>4 DEF Logged
<1>7. ASSUME NEW t \in Slot
      PROVE  Gain(a, b, t) = Gain(cwd[p], cwd'[p], t) + Gain(loc[p].ip, loc'[p].ip, t)
                             + Gain(loc[p].dp, loc'[p].dp, t)
  <2>1. Gain(cwd[p], cwd'[p], t) = 0
    BY <1>3 DEF Gain, One
  <2>2. Gain(loc[p].ip, l.ip, t) \in Int /\ Gain(loc[p].dp, l.dp, t) \in Int
    BY DEF Gain, One
  <2>. QED  BY <1>3, <2>1, <2>2
<1>8. ASSUME NEW t \in Slot, fs'.ic[t].lock = p PROVE MayHold(pc', loc', p, t)
  <2>1. fs'.ic[t].lock = IF t = s THEN x ELSE fs.ic[t].lock
    BY <1>3 DEF Moves
  <2>2. CASE t = s
    BY <1>1, <1>3, <1>8, <2>1, <2>2 DEF MayHold
  <2>3. CASE t # s
    <3>1. fs.ic[t].lock = p
      BY <1>8, <2>1, <2>3
    <3>. QED  BY <3>1, OwnLocks DEF MayHold
  <2>. QED  BY <2>2, <2>3
<1>9. Runs'
  BY <1>3, <1>5, <1>6, <1>7, <1>8, CacheStep
<1>. QED  BY <1>3, <1>9, RunsStep

\* A panic of iget() under the lock of s.
LEMMA PathFull ==
    ASSUME Runs, OpFits, NEW p \in Process, NEW at \in Pc, NEW l \in LocRec, NEW s \in Slot,
           NEW L, LockedBy(fs, L, s, p), NEW r, NoEntry(L, r), NEW G, G = r.fs,
           Set(p, G), Goto(p, at, l), UNCHANGED <<tables, calls>>
    PROVE  IInv'
<1>1. FullCache(r.fs)
  BY LockFull DEF FullCache
<1>2. fs' = G /\ Tables' /\ OpFits'
  BY <1>1, SetGoto0 DEF FullCache
<1>. QED  BY <1>1, <1>2, FullCacheStep

\* One element of a path.
LEMMA WalkStep ==
    ASSUME IInv, NEW p \in Process, Walk(p)
    PROVE  IInv'
<1>. DEFINE l == loc[p]
            s == l.ip
            L == ilock(fs, s, p)
            r == dirlookup(L, s, Head(l.path))
            lp == [l EXCEPT !.dp = s, !.ip = 0]
            ln == [l EXCEPT !.ip = r.s, !.path = Tail(@)]
<1>0. Ok(fs) /\ pc[p] = "walk" /\ l.path # <<>> /\ fs.ic[s].lock = NoProc /\ UNCHANGED <<tables, calls>>
  BY DEF Walk, Running, Unlocked
<1>1. Runs /\ OpFits /\ Doing(p) /\ l \in LocRec /\ p # NoProc
  BY <1>0, RunsNow, RunsIs, FsAssumption DEF Tables
<1>2. s \in Slot /\ l.dp = 0 /\ l.call \in PathCalls /\ 0 \notin Slot
  BY <1>0, <1>1 DEF Doing, Slot
<1>3. fs.ic[s].ref > 0
  BY <1>1, <1>2, RunsIs, InUse DEF Runs
<1>4. LockedBy(fs, L, s, p)
  BY <1>1, <1>2, <1>3, LockIs
<1>5. ino(L, s) = L.ic[s].ino /\ L.ic[s].ino = fs.di[fs.ic[s].inum]
  BY <1>4 DEF ino, LockedBy
<1>6. \/ Fail(p, iunlockput(L, s, p))
      \/ /\ ino(L, s).type = "DIR" /\ l.call \in Creates /\ Len(l.path) = 1
         /\ Set(p, iunlock(L, s, p)) /\ Goto(p, "parent", lp)
      \/ /\ ino(L, s).type = "DIR" /\ r.s = 0 /\ Fail(p, iunlockput(r.fs, s, p))
      \/ /\ ino(L, s).type = "DIR" /\ r.s # 0 /\ Set(p, iunlockput(r.fs, s, p)) /\ Goto(p, "walk", ln)
  BY DEF Walk
<1>7. l.path \in Seq(Name) /\ Tail(l.path) \in Seq(Name)
  BY <1>0, <1>1 DEF LocRec
<1>. HIDE DEF L
<1>8. CASE Fail(p, iunlockput(L, s, p))
  <2>1. Moves(fs, iunlockput(L, s, p), s, 0, s, NoProc)
    BY <1>1, <1>2, <1>4, LockDrop
  <2>. QED  BY <1>0, <1>1, <1>8, <2>1, FailStep
<1>9. CASE /\ ino(L, s).type = "DIR" /\ l.call \in Creates /\ Len(l.path) = 1
           /\ Set(p, iunlock(L, s, p)) /\ Goto(p, "parent", lp)
  <2>. DEFINE G == iunlock(L, s, p)
  <2>1. Moves(fs, G, 0, 0, s, NoProc)
    BY <1>1, <1>2, <1>4, LockUnlock
  <2>. HIDE DEF G
  <2>2. lp \in LocRec /\ lp.ip = 0 /\ lp.dp = s /\ lp.call = l.call /\ lp.path = l.path
    BY <1>1, <1>2 DEF LocRec
  <2>. HIDE DEF lp
  <2>3. ASSUME fs' = G, pc'[p] = "parent", loc'[p] = lp, cwd' = cwd, cwd[p] \in Slot
        PROVE  Doing(p)'
    <3>1. fs'.di = fs.di /\ fs'.ic[s].inum = fs.ic[s].inum
      BY <1>2, <1>3, <2>1, <2>3 DEF Moves, SameDisk
    <3>2. DirAt(fs', lp.dp)
      BY <1>5, <1>9, <2>2, <3>1 DEF DirAt
    <3>. QED  BY <1>2, <1>9, <2>2, <2>3, <3>2 DEF Doing
  <2>4. \A t \in Slot : Gain(0, 0, t) = Gain(loc[p].ip, lp.ip, t) + Gain(loc[p].dp, lp.dp, t)
    BY <1>2, <2>2 DEF Gain, One
  <2>5. Set(p, G) /\ Goto(p, "parent", lp)
    BY <1>9 DEF G
  <2>. QED  BY <1>0, <1>1, <1>2, <2>1, <2>2, <2>3, <2>4, <2>5, PathStep DEF Pc
<1>10. ASSUME ino(L, s).type = "DIR"
       PROVE  NotThere(L, s, Head(l.path), r) \/ There(L, s, Head(l.path), r)
  BY <1>4, <1>5, <1>10, DirlookupIs DEF LockedBy
<1>. HIDE DEF r
<1>11. CASE ino(L, s).type = "DIR" /\ r.s = 0 /\ Fail(p, iunlockput(r.fs, s, p))
  <2>1. CASE r.fs = L
    <3>1. Moves(fs, iunlockput(r.fs, s, p), s, 0, s, NoProc)
      BY <1>1, <1>2, <1>4, <2>1, LockDrop
    <3>. QED  BY <1>0, <1>1, <1>11, <3>1, FailStep
  <2>2. CASE NoEntry(L, r)
    <3>1. ~Ok(r.fs)
      BY <1>1, <1>2, <1>4, <2>2, LockFull
    <3>2. iunlockput(r.fs, s, p) = r.fs
      BY <3>1, Stopped
    <3>3. Set(p, r.fs) /\ Goto(p, "user", Idle)
      BY <1>11, <3>2 DEF Fail, Return
    <3>. QED  BY <1>0, <1>1, <1>2, <1>4, <2>2, <3>3, IdleIs, PathFull DEF Pc
  <2>3. r.fs = L \/ NoEntry(L, r)
    BY <1>2, <1>10, <1>11 DEF NotThere, There, GotEntry
  <2>. QED  BY <2>1, <2>2, <2>3
<1>12. CASE /\ ino(L, s).type = "DIR" /\ r.s # 0 /\ Set(p, iunlockput(r.fs, s, p)) /\ Goto(p, "walk", ln)
  <2>. DEFINE G == iunlockput(r.fs, s, p)
  <2>1. PICK n : GotEntry(L, r, n)
    BY <1>10, <1>12 DEF NotThere, There, NoEntry
  <2>2. r.s \in Slot
    BY <2>1 DEF GotEntry
  <2>3. Moves(fs, G, s, r.s, s, NoProc)
    BY <1>1, <1>2, <1>4, <2>1, LockGetDrop
  <2>. HIDE DEF G
  <2>4. ln \in LocRec /\ ln.ip = r.s /\ ln.dp = 0 /\ ln.call = l.call
    BY <1>1, <1>2, <1>7, <2>2 DEF LocRec
  <2>. HIDE DEF ln
  <2>5. fs' = G /\ pc'[p] = "walk" /\ loc'[p] = ln /\ cwd' = cwd /\ cwd[p] \in Slot => Doing(p)'
    BY <1>2, <2>2, <2>4 DEF Doing
  <2>6. \A t \in Slot : Gain(s, r.s, t) = Gain(loc[p].ip, ln.ip, t) + Gain(loc[p].dp, ln.dp, t)
    BY <1>2, <2>4 DEF Gain, One
  <2>7. Set(p, G) /\ Goto(p, "walk", ln)
    BY <1>12 DEF G
  <2>. QED  BY <1>0, <1>1, <1>2, <2>3, <2>4, <2>5, <2>6, <2>7, PathStep DEF Pc
<1>. QED  BY <1>6, <1>8, <1>9, <1>11, <1>12

\* iput() of a pointer of p that p has not locked.
LEMMA PutIs ==
    ASSUME Runs, NEW p \in Process, NEW s \in Slot, s \in {cwd[p], loc[p].ip}, fs.ic[s].lock # p,
           NEW G, G = iput(fs, s)
    PROVE  Moves(fs, G, s, 0, 0, NoProc)
<1>1. Cached(fs) /\ Linked(fs.di) /\ Held(s) /\ fs \in FsState /\ RefsCounted /\ Shape /\ Ok(fs)
  BY RunsIs DEF Runs
<1>2. fs.ic[s].ref > 0
  BY <1>1, InUse
<1>3. fs.ic[s].lock = NoProc \/ fs.ic[s].ref > 1
  BY <1>1, Shared
<1>. QED  BY <1>1, <1>2, <1>3, IputIs

\* Nothing happens to the file system.
LEMMA StayMoves ==
    ASSUME Runs, fs' = fs
    PROVE  Moves(fs, fs', 0, 0, 0, NoProc)
<1>1. Cached(fs) /\ fs \in FsState /\ 0 \notin Slot
  BY RunsIs DEF Slot
<1>2. \A t \in Slot : One(0, t) = 0 /\ fs.ic[t].ref \in Nat
  BY <1>1, EntryIs DEF One
<1>. QED  BY <1>1, <1>2 DEF Moves, SameDisk

\* The path is used up.
LEMMA WalkEndStep ==
    ASSUME IInv, NEW p \in Process, WalkEnd(p)
    PROVE  IInv'
<1>. DEFINE l == loc[p]
            s == l.ip
<1>0. Ok(fs) /\ pc[p] = "walk" /\ UNCHANGED <<tables, calls>>
  BY DEF WalkEnd, Running
<1>1. Runs /\ OpFits /\ Doing(p) /\ l \in LocRec /\ p # NoProc /\ Tables
  BY <1>0, RunsNow, RunsIs, FsAssumption DEF Tables
<1>2. s \in Slot /\ l.dp = 0 /\ l.call \in PathCalls /\ 0 \notin Slot /\ cwd[p] \in Slot
  BY <1>0, <1>1 DEF Doing, Slot
<1>3. \A t \in Slot : fs.ic[t].lock # p
  BY <1>0, <1>1, OwnLocks DEF MayHold
<1>4. CASE l.call \in Creates
  <2>1. Moves(fs, iput(fs, s), s, 0, 0, NoProc)
    BY <1>1, <1>2, <1>3, PutIs
  <2>2. Fail(p, iput(fs, s))
    BY <1>4 DEF WalkEnd
  <2>. QED  BY <1>0, <1>1, <1>2, <2>1, <2>2, FailStep
<1>5. CASE l.call \notin Creates
  <2>1. Goto(p, "found", l) /\ fs' = fs /\ lg' = lg /\ ftable' = ftable /\ ofile' = ofile /\ cwd' = cwd
        /\ calls' = calls
    BY <1>0, <1>5 DEF WalkEnd, tables
  <2>2. /\ pc' \in [Process -> Pc] /\ loc' \in [Process -> LocRec] /\ pc'[p] = "found" /\ loc'[p] = l
        /\ \A q \in Process : q # p => pc'[q] = pc[q] /\ loc'[q] = loc[q]
    BY <1>1, <2>1, GotoIs DEF Pc
  <2>3. Alone(p)
    BY <2>1, <2>2 DEF Alone
  <2>4. Tables'
    BY <1>1, <2>1, <2>2 DEF Tables
  <2>5. Doing(p)'
    BY <1>2, <1>5, <2>1, <2>2 DEF Doing
  <2>6. Logged(p)'
    BY <1>0, <1>1, <2>1, <2>2 DEF Logged, Runs, Live
  <2>7. Moves(fs, fs', 0, 0, 0, NoProc)
    BY <1>1, <2>1, StayMoves
  <2>8. \A t \in Slot : Gain(0, 0, t) = Gain(cwd[p], cwd'[p], t) + Gain(loc[p].ip, loc'[p].ip, t)
                                        + Gain(loc[p].dp, loc'[p].dp, t)
    BY <2>1, <2>2 DEF Gain, One
  <2>9. Runs'
    BY <1>0, <1>1, <1>2, <1>3, <2>1, <2>2, <2>3, <2>4, <2>5, <2>6, <2>7, <2>8, CacheStep
  <2>10. OpFits'
    BY <1>1, <2>1 DEF OpFits
  <2>. QED  BY <2>9, <2>10, RunsStep
<1>. QED  BY <1>4, <1>5

\* The last element of a path.
LEMMA LastName ==
    ASSUME NEW path \in Seq(Name), Len(path) = 1
    PROVE  Last(path) \in Name
BY DEF Last

\* create() looks for the name.
LEMMA CreateLookupStep ==
    ASSUME IInv, NEW p \in Process, CreateLookup(p)
    PROVE  IInv'
<1>. DEFINE l == loc[p]
            s == l.dp
            name == Last(l.path)
            L == ilock(fs, s, p)
            r == dirlookup(L, s, name)
            lx == [l EXCEPT !.ip = r.s, !.dp = 0]
<1>0. Ok(fs) /\ pc[p] = "parent" /\ fs.ic[s].lock = NoProc /\ UNCHANGED <<tables, calls>>
  BY DEF CreateLookup, Running, Unlocked
<1>1. Runs /\ OpFits /\ Doing(p) /\ l \in LocRec /\ p # NoProc
  BY <1>0, RunsNow, RunsIs, FsAssumption DEF Tables
<1>2. s \in Slot /\ l.ip = 0 /\ l.call \in Creates /\ 0 \notin Slot /\ DirAt(fs, s) /\ Len(l.path) = 1
  BY <1>0, <1>1 DEF Doing, Slot
<1>3. fs.ic[s].ref > 0
  BY <1>1, <1>2, RunsIs, InUse DEF Runs
<1>4. LockedBy(fs, L, s, p)
  BY <1>1, <1>2, <1>3, LockIs
<1>6. \/ r.s = 0 /\ Set(p, r.fs) /\ Goto(p, "new", l)
      \/ r.s # 0 /\ Set(p, iunlockput(r.fs, s, p)) /\ Goto(p, "exists", lx)
  BY DEF CreateLookup
<1>. HIDE DEF L
<1>10. NotThere(L, s, name, r) \/ There(L, s, name, r)
  <2>1. L.ic[s].ino.type = "DIR"
    BY <1>2, <1>4 DEF LockedBy, DirAt
  <2>. HIDE DEF name
  <2>. QED  BY <1>4, <2>1, DirlookupIs DEF LockedBy
<1>. HIDE DEF r, name
<1>11. CASE r.s = 0 /\ Set(p, r.fs) /\ Goto(p, "new", l)
  <2>1. CASE NotThere(L, s, name, r)
    <3>1. r.fs = L /\ NoName(L.di, L.data, L.ic[s].inum, name)
      BY <2>1 DEF NotThere
    <3>2. Moves(fs, r.fs, 0, 0, s, p) /\ r.fs.ic[s].lock = p /\ r.fs.di = fs.di /\ r.fs.ic[s].inum = fs.ic[s].inum
      BY <1>4, <3>1 DEF LockedBy
    <3>3. Absent(r.fs, s, name) /\ DirAt(r.fs, s)
      BY <1>2, <3>1, <3>2 DEF Absent, DirAt
    <3>4. fs' = r.fs /\ pc'[p] = "new" /\ loc'[p] = l /\ cwd' = cwd /\ cwd[p] \in Slot => Doing(p)'
      BY <1>2, <3>2, <3>3 DEF Doing, name
    <3>5. \A t \in Slot : Gain(0, 0, t) = Gain(loc[p].ip, l.ip, t) + Gain(loc[p].dp, l.dp, t)
      BY DEF Gain, One
    <3>. QED  BY <1>0, <1>1, <1>2, <1>11, <3>2, <3>4, <3>5, PathStep DEF Pc
  <2>2. CASE NoEntry(L, r)
    BY <1>0, <1>1, <1>2, <1>4, <1>11, <2>2, PathFull DEF Pc
  <2>3. NotThere(L, s, name, r) \/ NoEntry(L, r)
    BY <1>2, <1>10, <1>11 DEF There, GotEntry
  <2>. QED  BY <2>1, <2>2, <2>3
<1>12. CASE r.s # 0 /\ Set(p, iunlockput(r.fs, s, p)) /\ Goto(p, "exists", lx)
  <2>. DEFINE G == iunlockput(r.fs, s, p)
  <2>1. PICK n : GotEntry(L, r, n)
    BY <1>10, <1>12 DEF NotThere, There, NoEntry
  <2>2. r.s \in Slot
    BY <2>1 DEF GotEntry
  <2>3. Moves(fs, G, s, r.s, s, NoProc)
    BY <1>1, <1>2, <1>4, <2>1, LockGetDrop
  <2>. HIDE DEF G
  <2>4. lx \in LocRec /\ lx.ip = r.s /\ lx.dp = 0 /\ lx.call = l.call
    BY <1>1, <1>2, <2>2 DEF LocRec
  <2>. HIDE DEF lx
  <2>5. fs' = G /\ pc'[p] = "exists" /\ loc'[p] = lx /\ cwd' = cwd /\ cwd[p] \in Slot => Doing(p)'
    BY <1>2, <2>2, <2>4 DEF Doing
  <2>6. \A t \in Slot : Gain(s, r.s, t) = Gain(loc[p].ip, lx.ip, t) + Gain(loc[p].dp, lx.dp, t)
    BY <1>2, <2>4 DEF Gain, One
  <2>7. Set(p, G) /\ Goto(p, "exists", lx)
    BY <1>12 DEF G
  <2>. QED  BY <1>0, <1>1, <1>2, <2>3, <2>4, <2>5, <2>6, <2>7, PathStep DEF Pc
<1>. QED  BY <1>6, <1>11, <1>12

\* What a call holds in entry s, before it locks it.
LEMMA PathLock ==
    ASSUME Runs, NEW p \in Process, pc[p] \in {"exists", "found"}, NEW L, L = ilock(fs, loc[p].ip, p)
    PROVE  /\ loc[p].ip \in Slot /\ loc[p].dp = 0 /\ loc[p] \in LocRec /\ cwd[p] \in Slot
           /\ LockedBy(fs, L, loc[p].ip, p)
           /\ Moves(fs, iunlockput(L, loc[p].ip, p), loc[p].ip, 0, loc[p].ip, NoProc)
           /\ ino(L, loc[p].ip) = fs.di[fs.ic[loc[p].ip].inum]
<1>1. Doing(p) /\ loc[p] \in LocRec
  BY RunsIs DEF Tables
<1>2. loc[p].ip \in Slot /\ loc[p].dp = 0 /\ cwd[p] \in Slot
  BY <1>1 DEF Doing
<1>3. fs.ic[loc[p].ip].ref > 0
  BY <1>2, RunsIs, InUse DEF Runs
<1>4. LockedBy(fs, L, loc[p].ip, p)
  BY <1>2, <1>3, LockIs
<1>5. Moves(fs, iunlockput(L, loc[p].ip, p), loc[p].ip, 0, loc[p].ip, NoProc)
  BY <1>2, <1>4, LockDrop
<1>. QED  BY <1>1, <1>2, <1>4, <1>5 DEF LockedBy, ino

\* The inode is locked, to be opened.
LEMMA ToOpen ==
    ASSUME Runs, OpFits, NEW p \in Process, pc[p] \in {"exists", "found"}, NEW L, L = ilock(fs, loc[p].ip, p),
           fs.ic[loc[p].ip].lock = NoProc, loc[p].call \in {"creat", "open_r", "open_rw"},
           loc[p].call # "open_r" => ino(L, loc[p].ip).type # "DIR",
           Set(p, L), Goto(p, "opened", loc[p]), UNCHANGED <<tables, calls>>
    PROVE  IInv'
<1>1. /\ loc[p].ip \in Slot /\ loc[p].dp = 0 /\ loc[p] \in LocRec
      /\ LockedBy(fs, L, loc[p].ip, p) /\ ino(L, loc[p].ip) = fs.di[fs.ic[loc[p].ip].inum]
  BY PathLock
<1>2. /\ Moves(fs, L, 0, 0, loc[p].ip, p) /\ L.ic[loc[p].ip].lock = p /\ L.di = fs.di
      /\ L.ic[loc[p].ip].inum = fs.ic[loc[p].ip].inum
  BY <1>1 DEF LockedBy
<1>3. loc[p].call # "open_r" => ~DirAt(L, loc[p].ip)
  BY <1>1, <1>2 DEF DirAt
<1>4. fs' = L /\ pc'[p] = "opened" /\ loc'[p] = loc[p] /\ cwd' = cwd /\ cwd[p] \in Slot => Doing(p)'
  BY <1>1, <1>2, <1>3 DEF Doing
<1>5. \A t \in Slot : Gain(0, 0, t) = Gain(loc[p].ip, loc[p].ip, t) + Gain(loc[p].dp, loc[p].dp, t)
  BY DEF Gain, One
<1>6. "opened" \in Pc /\ "opened" \notin {"put", "link"} /\ p \in {p, NoProc}
  BY DEF Pc
<1>7. pc[p] \in {"walk", "parent", "exists", "found"}
  BY Zenon
<1>8. p = p => ("opened" = "new" /\ loc[p].ip = loc[p].dp) \/ ("opened" = "opened" /\ loc[p].ip = loc[p].ip)
  BY Zenon
<1>9. fs' = L /\ pc'[p] = "opened" /\ loc'[p] = loc[p] /\ cwd' = cwd /\ ftable' = ftable /\ ofile' = ofile
         /\ cwd[p] \in Slot => Doing(p)'
  BY <1>4, Zenon
<1>. QED  BY <1>1, <1>2, <1>5, <1>6, <1>7, <1>8, <1>9, PathStep

\* The name exists.
LEMMA ExistsStep ==
    ASSUME IInv, NEW p \in Process, Exists(p)
    PROVE  IInv'
<1>. DEFINE l == loc[p]
            L == ilock(fs, l.ip, p)
<1>0. Ok(fs) /\ pc[p] = "exists" /\ fs.ic[l.ip].lock = NoProc /\ UNCHANGED <<tables, calls>>
  BY DEF Exists, Running, Unlocked
<1>1. Runs /\ OpFits
  BY <1>0, RunsNow
<1>2. Moves(fs, iunlockput(L, l.ip, p), l.ip, 0, l.ip, NoProc) /\ l.ip \in Slot
  BY <1>0, <1>1, PathLock
<1>3. \/ l.call = "creat" /\ ino(L, l.ip).type = "FILE" /\ Set(p, L) /\ Goto(p, "opened", l)
      \/ Fail(p, iunlockput(L, l.ip, p))
  BY DEF Exists
<1>4. CASE l.call = "creat" /\ ino(L, l.ip).type = "FILE" /\ Set(p, L) /\ Goto(p, "opened", l)
  <2>1. ino(L, l.ip).type # "DIR"
    BY <1>4
  <2>. HIDE DEF L
  <2>2. L = ilock(fs, loc[p].ip, p)
    BY DEF L
  <2>. QED  BY <1>0, <1>1, <1>4, <2>1, <2>2, ToOpen
<1>5. CASE Fail(p, iunlockput(L, l.ip, p))
  BY <1>0, <1>1, <1>2, <1>5, FailStep
<1>. QED  BY <1>3, <1>4, <1>5

\* open() of what was found.
LEMMA FoundOpenStep ==
    ASSUME IInv, NEW p \in Process, FoundOpen(p)
    PROVE  IInv'
<1>. DEFINE l == loc[p]
            L == ilock(fs, l.ip, p)
<1>0. Ok(fs) /\ pc[p] = "found" /\ fs.ic[l.ip].lock = NoProc /\ UNCHANGED <<tables, calls>>
      /\ l.call \in {"open_r", "open_rw"}
  BY DEF FoundOpen, Running, Unlocked
<1>1. Runs /\ OpFits
  BY <1>0, RunsNow
<1>2. Moves(fs, iunlockput(L, l.ip, p), l.ip, 0, l.ip, NoProc) /\ l.ip \in Slot
  BY <1>0, <1>1, PathLock
<1>3. \/ (l.call # "open_r" => ino(L, l.ip).type # "DIR") /\ Set(p, L) /\ Goto(p, "opened", l)
      \/ Fail(p, iunlockput(L, l.ip, p))
  BY DEF FoundOpen
<1>4. CASE (l.call # "open_r" => ino(L, l.ip).type # "DIR") /\ Set(p, L) /\ Goto(p, "opened", l)
  <2>. HIDE DEF L
  <2>2. L = ilock(fs, loc[p].ip, p)
    BY DEF L
  <2>. QED  BY <1>0, <1>1, <1>4, <2>2, ToOpen
<1>5. CASE Fail(p, iunlockput(L, l.ip, p))
  BY <1>0, <1>1, <1>2, <1>5, FailStep
<1>. QED  BY <1>3, <1>4, <1>5

\* stat() of what was found.
LEMMA FoundStatStep ==
    ASSUME IInv, NEW p \in Process, FoundStat(p)
    PROVE  IInv'
<1>. DEFINE l == loc[p]
            L == ilock(fs, l.ip, p)
<1>0. Ok(fs) /\ pc[p] = "found" /\ fs.ic[l.ip].lock = NoProc /\ UNCHANGED <<tables, calls>>
      /\ Fail(p, iunlockput(L, l.ip, p))
  BY DEF FoundStat, Running, Unlocked, Fail
<1>1. Runs /\ OpFits
  BY <1>0, RunsNow
<1>2. Moves(fs, iunlockput(L, l.ip, p), l.ip, 0, l.ip, NoProc) /\ l.ip \in Slot
  BY <1>0, <1>1, PathLock
<1>. QED  BY <1>0, <1>1, <1>2, FailStep

\* chdir() to what was found.
LEMMA FoundChdirStep ==
    ASSUME IInv, NEW p \in Process, FoundChdir(p)
    PROVE  IInv'
<1>. DEFINE l == loc[p]
            s == l.ip
            L == ilock(fs, s, p)
            U == iunlock(L, s, p)
            G == iput(U, cwd[p])
<1>0. Ok(fs) /\ pc[p] = "found" /\ fs.ic[s].lock = NoProc /\ ftable' = ftable /\ ofile' = ofile /\ calls' = calls
  BY DEF FoundChdir, Running, Unlocked
<1>1. Runs /\ OpFits /\ fs \in FsState /\ fs.log = {} /\ Linked(fs.di) /\ Tables
  BY <1>0, RunsNow, RunsIs
<1>2. /\ s \in Slot /\ l.dp = 0 /\ l \in LocRec /\ cwd[p] \in Slot /\ LockedBy(fs, L, s, p)
      /\ Moves(fs, iunlockput(L, s, p), s, 0, s, NoProc)
  BY <1>0, <1>1, PathLock
<1>3. \/ Fail(p, iunlockput(L, s, p)) /\ cwd' = cwd
      \/ Set(p, G) /\ Return(p) /\ cwd' = [cwd EXCEPT ![p] = s]
  BY DEF FoundChdir
<1>. HIDE DEF L
<1>4. CASE Fail(p, iunlockput(L, s, p)) /\ cwd' = cwd
  <2>1. UNCHANGED <<tables, calls>>
    BY <1>0, <1>4 DEF tables
  <2>. QED  BY <1>0, <1>1, <1>2, <1>4, <2>1, FailStep
<1>5. CASE Set(p, G) /\ Return(p) /\ cwd' = [cwd EXCEPT ![p] = s]
  <2>0. 0 \notin Slot /\ p # NoProc
    BY FsAssumption DEF Slot
  <2>1. Moves(fs, U, 0, 0, s, NoProc)
    BY <1>1, <1>2, LockUnlock
  <2>. HIDE DEF U
  <2>2. Cached(U) /\ Linked(U.di)
    BY <1>1, <2>1 DEF Moves, SameDisk
  <2>3. U.ic[cwd[p]].ref > 0 /\ (U.ic[cwd[p]].lock = NoProc \/ U.ic[cwd[p]].ref > 1)
    <3>1. /\ U.ic[cwd[p]].ref = fs.ic[cwd[p]].ref + One(0, cwd[p]) - One(0, cwd[p])
          /\ U.ic[cwd[p]].lock = IF cwd[p] = s THEN NoProc ELSE fs.ic[cwd[p]].lock
      BY <1>2, <2>1 DEF Moves
    <3>2. fs.ic[cwd[p]].ref \in Nat /\ One(0, cwd[p]) = 0
      BY <1>1, <1>2, <2>0, EntryIs DEF One
    <3>3. fs.ic[cwd[p]].ref > 0 /\ Held(cwd[p]) /\ RefsCounted /\ Shape
      BY <1>1, <1>2, RunsIs, InUse DEF Runs
    <3>4. fs.ic[cwd[p]].lock # p
      BY <1>0, <1>1, <1>2, OwnLocks DEF MayHold
    <3>5. fs.ic[cwd[p]].lock = NoProc \/ fs.ic[cwd[p]].ref > 1
      BY <1>0, <1>2, <3>3, <3>4, Shared
    <3>. QED  BY <3>1, <3>2, <3>3, <3>5
  <2>4. Moves(U, G, cwd[p], 0, 0, NoProc)
    BY <1>2, <2>2, <2>3, IputIs
  <2>. HIDE DEF G
  <2>5. Moves(fs, G, cwd[p], 0, s, NoProc)
    BY <1>1, <2>1, <2>4, MovesThen
  <2>6. G \in FsState /\ G.log = {}
    BY <1>1, <2>5 DEF Moves, Cached, SameDisk
  <2>7. cwd' \in [Process -> Slot \cup {0}] /\ cwd'[p] = s /\ \A q \in Process : q # p => cwd'[q] = cwd[q]
    BY <1>1, <1>2, <1>5 DEF Tables
  <2>8. /\ fs' = G /\ lg' = lg /\ OpFits' /\ Alone(p) /\ Tables' /\ pc'[p] = "user" /\ loc'[p] = Idle
    BY <1>0, <1>1, <1>5, <2>6, <2>7, IdleIs, SetGoto DEF Return, Pc
  <2>9. Doing(p)' /\ Logged(p)'
    BY <1>2, <2>7, <2>8 DEF Doing, Logged
  <2>10. \A t \in Slot : Gain(cwd[p], 0, t) = Gain(cwd[p], cwd'[p], t) + Gain(loc[p].ip, loc'[p].ip, t)
                                              + Gain(loc[p].dp, loc'[p].dp, t)
    BY <1>2, <2>0, <2>7, <2>8, IdleIs DEF Gain, One
  <2>11. ASSUME NEW t \in Slot, fs'.ic[t].lock = p PROVE FALSE
    <3>1. fs.ic[t].lock = p
      BY <2>0, <2>5, <2>8, <2>11 DEF Moves
    <3>. QED  BY <1>0, <1>1, <3>1, OwnLocks DEF MayHold
  <2>12. Runs'
    BY <1>0, <1>1, <2>0, <2>5, <2>8, <2>9, <2>10, <2>11, CacheStep
  <2>. QED  BY <2>8, <2>12, RunsStep
<1>. QED  BY <1>3, <1>4, <1>5

\* The tables of a step that starts or ends a call and is no transaction.
LEMMA CallTables ==
    ASSUME Runs, OpFits, NEW p \in Process, NEW at \in Pc, NEW l \in LocRec, Goto(p, at, l),
           fs' = fs, lg' = lg, ftable' = ftable, ofile' = ofile, cwd' = cwd, calls' \in 0..MaxCalls
    PROVE  OpFits' /\ Alone(p) /\ Tables' /\ pc'[p] = at /\ loc'[p] = l /\ Moves(fs, fs', 0, 0, 0, NoProc)
<1>1. /\ pc' \in [Process -> Pc] /\ loc' \in [Process -> LocRec] /\ pc'[p] = at /\ loc'[p] = l
      /\ \A q \in Process : q # p => pc'[q] = pc[q] /\ loc'[q] = loc[q]
  BY GotoIs
<1>2. Tables' /\ Alone(p)
  BY <1>1, RunsIs DEF Tables, Alone
<1>3. OpFits'
  BY DEF OpFits
<1>. QED  BY <1>1, <1>2, <1>3, StayMoves

\* A new call.
LEMMA CallIs ==
    ASSUME IInv, NEW p \in Process, Call(p)
    PROVE  /\ Runs /\ OpFits /\ pc[p] = "user" /\ loc[p] = Idle /\ cwd[p] \in Slot /\ Tables
           /\ calls' \in 0..MaxCalls /\ p # NoProc /\ (\A t \in Slot : fs.ic[t].lock # p)
           /\ fs \in FsState /\ fs.log = {}
<1>0. Ok(fs) /\ pc[p] = "user" /\ calls < MaxCalls /\ calls' = calls + 1
  BY DEF Call, Running
<1>1. Runs /\ OpFits /\ Doing(p) /\ Tables /\ p # NoProc /\ fs \in FsState /\ fs.log = {}
  BY <1>0, RunsNow, RunsIs, FsAssumption
<1>2. loc[p] = Idle /\ cwd[p] \in Slot
  BY <1>0, <1>1 DEF Doing
<1>3. calls' \in 0..MaxCalls
  BY <1>0, <1>1, FsAssumption DEF Tables
<1>4. \A t \in Slot : fs.ic[t].lock # p
  BY <1>0, <1>1, OwnLocks DEF MayHold
<1>. QED  BY <1>0, <1>1, <1>2, <1>3, <1>4

\* exit().
LEMMA ExitStep ==
    ASSUME IInv, NEW p \in Process, Exit(p)
    PROVE  IInv'
<1>1. /\ Runs /\ OpFits /\ pc[p] = "user" /\ loc[p] = Idle /\ cwd[p] \in Slot
      /\ calls' \in 0..MaxCalls /\ (\A t \in Slot : fs.ic[t].lock # p)
  BY CallIs DEF Exit
<1>2. Goto(p, "exit", Idle) /\ fs' = fs /\ lg' = lg /\ ftable' = ftable /\ ofile' = ofile /\ cwd' = cwd
  BY DEF Exit, tables
<1>3. OpFits' /\ Alone(p) /\ Tables' /\ pc'[p] = "exit" /\ loc'[p] = Idle /\ Moves(fs, fs', 0, 0, 0, NoProc)
  BY <1>1, <1>2, IdleIs, CallTables DEF Pc
<1>4. Doing(p)' /\ Logged(p)'
  BY <1>1, <1>2, <1>3 DEF Doing, Logged
<1>5. \A t \in Slot : Gain(0, 0, t) = Gain(cwd[p], cwd'[p], t) + Gain(loc[p].ip, loc'[p].ip, t)
                                      + Gain(loc[p].dp, loc'[p].dp, t)
  BY <1>1, <1>2, <1>3 DEF Gain, One
<1>6. 0 \notin Slot
  BY DEF Slot
<1>7. Runs'
  BY <1>1, <1>2, <1>3, <1>4, <1>5, <1>6, CacheStep
<1>. QED  BY <1>3, <1>7, RunsStep

\* write() starts.
LEMMA WriteStep ==
    ASSUME IInv, NEW p \in Process, NEW fd \in Fd, NEW iov \in Seq(Nat), iov # <<>>, Write(p, fd, iov)
    PROVE  IInv'
<1>. DEFINE l == [Idle EXCEPT !.call = "write", !.f = ofile[p][fd], !.iov = iov]
<1>1. /\ Runs /\ OpFits /\ pc[p] = "user" /\ loc[p] = Idle /\ cwd[p] \in Slot /\ Tables
      /\ calls' \in 0..MaxCalls /\ (\A t \in Slot : fs.ic[t].lock # p)
  BY CallIs DEF Write
<1>2. /\ Goto(p, "write", l) /\ fs' = fs /\ lg' = lg /\ ftable' = ftable /\ ofile' = ofile /\ cwd' = cwd
      /\ ofile[p][fd] # 0 /\ ftable[ofile[p][fd]].w
  BY DEF Write, tables
<1>3. ofile[p][fd] \in File
  BY <1>1, <1>2 DEF Tables
<1>4. l \in LocRec /\ l.ip = 0 /\ l.dp = 0 /\ l.f = ofile[p][fd] /\ l.iov = iov
  BY <1>3, IdleIs DEF LocRec, Calls
<1>. HIDE DEF l
<1>5. OpFits' /\ Alone(p) /\ Tables' /\ pc'[p] = "write" /\ loc'[p] = l /\ Moves(fs, fs', 0, 0, 0, NoProc)
  BY <1>1, <1>2, <1>4, CallTables DEF Pc
<1>6. Doing(p)' /\ Logged(p)'
  BY <1>1, <1>2, <1>3, <1>4, <1>5 DEF Doing, Logged
<1>7. \A t \in Slot : Gain(0, 0, t) = Gain(cwd[p], cwd'[p], t) + Gain(loc[p].ip, loc'[p].ip, t)
                                      + Gain(loc[p].dp, loc'[p].dp, t)
  BY <1>1, <1>2, <1>4, <1>5, IdleIs DEF Gain, One
<1>8. 0 \notin Slot
  BY DEF Slot
<1>9. Runs'
  BY <1>1, <1>2, <1>5, <1>6, <1>7, <1>8, CacheStep
<1>. QED  BY <1>5, <1>9, RunsStep

\* exit() drops the directory.
LEMMA ExitCwdStep ==
    ASSUME IInv, NEW p \in Process, ExitCwd(p)
    PROVE  IInv'
<1>. DEFINE G == iput(fs, cwd[p])
<1>0. /\ Ok(fs) /\ pc[p] = "exit" /\ (\A fd \in Fd : ofile[p][fd] = 0) /\ SetOp(p, G)
      /\ cwd' = [cwd EXCEPT ![p] = 0] /\ Goto(p, "zombie", Idle) /\ ftable' = ftable /\ ofile' = ofile
      /\ calls' = calls
  BY DEF ExitCwd, Running
<1>1. Runs /\ OpFits /\ Doing(p) /\ Tables /\ p # NoProc /\ fs \in FsState /\ fs.log = {}
  BY <1>0, RunsNow, RunsIs, FsAssumption
<1>2. loc[p] = Idle /\ cwd[p] \in Slot /\ 0 \notin Slot
  BY <1>0, <1>1 DEF Doing, Slot
<1>3. \A t \in Slot : fs.ic[t].lock # p
  BY <1>0, <1>1, OwnLocks DEF MayHold
<1>4. Moves(fs, G, cwd[p], 0, 0, NoProc)
  BY <1>1, <1>2, <1>3, PutIs
<1>. HIDE DEF G
<1>5. G \in FsState /\ G.log = {}
  BY <1>1, <1>4 DEF Moves, Cached, SameDisk
<1>6. /\ fs' = G /\ lg' \in [Process -> SUBSET Nat] /\ OpFits'
      /\ \A q \in Process : q # p => lg'[q] = lg[q]
  BY <1>0, <1>1, <1>5, SetOpIs
<1>7. /\ pc' \in [Process -> Pc] /\ loc' \in [Process -> LocRec] /\ pc'[p] = "zombie" /\ loc'[p] = Idle
      /\ \A q \in Process : q # p => pc'[q] = pc[q] /\ loc'[q] = loc[q]
  BY <1>0, <1>1, IdleIs, GotoIs DEF Pc
<1>8. cwd' \in [Process -> Slot \cup {0}] /\ cwd'[p] = 0 /\ \A q \in Process : q # p => cwd'[q] = cwd[q]
  BY <1>0, <1>1 DEF Tables
<1>9. Alone(p) /\ Tables'
  BY <1>0, <1>1, <1>6, <1>7, <1>8 DEF Alone, Tables
<1>10. Doing(p)' /\ Logged(p)'
  BY <1>0, <1>7, <1>8 DEF Doing, Logged
<1>11. \A t \in Slot : Gain(cwd[p], 0, t) = Gain(cwd[p], cwd'[p], t) + Gain(loc[p].ip, loc'[p].ip, t)
                                            + Gain(loc[p].dp, loc'[p].dp, t)
  BY <1>2, <1>7, <1>8 DEF Gain, One
<1>12. ASSUME NEW t \in Slot, fs'.ic[t].lock = p PROVE FALSE
  BY <1>2, <1>3, <1>4, <1>6, <1>12 DEF Moves
<1>13. Runs'
  BY <1>0, <1>1, <1>2, <1>4, <1>6, <1>7, <1>9, <1>10, <1>11, <1>12, CacheStep
<1>. QED  BY <1>6, <1>13, RunsStep

\* The file of a descriptor.
LEMMA OpenFile ==
    ASSUME Runs, NEW p \in Process, NEW fd \in Fd, NEW f, f = ofile[p][fd], f # 0, pc[p] # "put"
    PROVE  /\ f \in File /\ ftable[f].ref > 0 /\ ftable[f].type = "INODE" /\ ftable[f].ip \in Slot
           /\ fs.ic[ftable[f].ip].ref > 0 /\ (ftable[f].w => ~DirAt(fs, ftable[f].ip)) /\ ftable[f] \in FileRec
<1>1. f \in File /\ ftable[f].ref > 0
  BY RunsIs, InUse DEF Runs, Closing
<1>2. FileOK(f) /\ ftable[f] \in FileRec
  BY <1>1, RunsIs DEF Runs, Live, Tables
<1>3. ftable[f].type = "INODE" /\ ftable[f].ip \in Slot /\ (ftable[f].w => ~DirAt(fs, ftable[f].ip))
  BY <1>1, <1>2 DEF FileOK
<1>4. fs.ic[ftable[f].ip].ref > 0
  BY <1>1, <1>3, RunsIs, InUse DEF Runs
<1>. QED  BY <1>1, <1>2, <1>3, <1>4

\* A step that changes file f.
LEMMA FileStep ==
    ASSUME Runs, NEW p \in Process, NEW a, NEW b, NEW s, NEW x, Moves(fs, fs', a, b, s, x),
           s \in Slot => fs.ic[s].lock \in {p, NoProc} /\ x \in {p, NoProc},
           Alone(p), Tables', pc[p] # "link", pc'[p] # "link",
           NEW f \in File, \A g \in File : g # f => ftable'[g] = ftable[g], FileOK(f)',
           ftable[f].ref > 0 => ftable'[f].w = ftable[f].w, FRefs',
           \A t \in Slot : Gain(a, b, t) = Gain(cwd[p], cwd'[p], t)
                + Gain(loc[p].ip, loc'[p].ip, t) + Gain(loc[p].dp, loc'[p].dp, t)
                + Gain(FileIp(ftable[f]), FileIp(ftable'[f]), t),
           \A t \in Slot : fs'.ic[t].lock = p => MayHold(pc', loc', p, t),
           Doing(p)', Logged(p)'
    PROVE  Runs'
<1>1. Frame(fs, fs', p)
  BY MovesFrame
<1>2. FilesStay
  BY DEF FilesStay
<1>3. Cached(fs') /\ fs'.di = fs.di /\ fs'.data = fs.data /\ fs'.used = fs.used /\ fs'.log = {}
  BY RunsIs DEF Moves, SameDisk
<1>4. \A g \in File : FileOK(g)'
  <2>1. ASSUME NEW g \in File, g # f PROVE FileOK(g)'
    BY <1>1, <2>1, OthersFile
  <2>. QED  BY <2>1
<1>5. Orphans' = Orphans
  BY <1>1, OthersOrphans
<1>7. IRefs'
  <2>1. ASSUME NEW t \in Slot
        PROVE  fs'.ic[t].ref = fs.ic[t].ref + Gain(cwd[p], cwd'[p], t)
                + Gain(loc[p].ip, loc'[p].ip, t) + Gain(loc[p].dp, loc'[p].dp, t)
                + Gain(FileIp(ftable[f]), FileIp(ftable'[f]), t)
    <3>1. fs'.ic[t].ref = fs.ic[t].ref + One(b, t) - One(a, t)
      BY DEF Moves
    <3>2. fs.ic[t].ref \in Nat
      BY RunsIs, EntryIs
    <3>3. /\ One(cwd'[p], t) \in Nat /\ One(cwd[p], t) \in Nat /\ One(loc'[p].ip, t) \in Nat /\ One(loc[p].ip, t) \in Nat
          /\ One(loc'[p].dp, t) \in Nat /\ One(loc[p].dp, t) \in Nat /\ One(a, t) \in Nat /\ One(b, t) \in Nat
          /\ One(FileIp(ftable[f]), t) \in Nat /\ One(FileIp(ftable'[f]), t) \in Nat
      BY DEF One
    <3>. QED  BY <3>1, <3>2, <3>3 DEF Gain
  <2>2. \A g \in File : g # f => FileIp(ftable'[g]) = FileIp(ftable[g])
    OBVIOUS
  <2>. QED  BY <2>1, <2>2, RefsMove
<1>8. Blocks(fs'.di, fs'.data, fs'.used) /\ Whole(fs'.di, fs'.data) /\ Tree(fs'.di, fs'.data, Orphans')
  BY <1>3, <1>5, RunsIs
<1>. QED  BY <1>1, <1>2, <1>3, <1>4, <1>7, <1>8, StepLive

\* A step outside transactions that logs nothing.
LEMMA OutsideIs ==
    ASSUME Runs, OpFits, NEW G \in FsState, G.log = {}, SetOutside(G)
    PROVE  fs' = G /\ lg' = lg /\ OpFits'
BY DEF SetOutside, OpFits

\* fstat().
LEMMA FstatStep ==
    ASSUME IInv, NEW p \in Process, NEW fd \in Fd, Fstat(p, fd)
    PROVE  IInv'
<1>. DEFINE s == ftable[ofile[p][fd]].ip
            L == ilock(fs, s, p)
            G == iunlock(L, s, p)
<1>1. /\ Runs /\ OpFits /\ pc[p] = "user" /\ loc[p] = Idle /\ cwd[p] \in Slot /\ Tables
      /\ calls' \in 0..MaxCalls /\ (\A t \in Slot : fs.ic[t].lock # p) /\ p # NoProc
      /\ fs \in FsState /\ fs.log = {}
  BY CallIs DEF Fstat
<1>2. /\ SetOutside(G) /\ ftable' = ftable /\ ofile' = ofile /\ cwd' = cwd /\ pc' = pc /\ loc' = loc
      /\ ofile[p][fd] # 0 /\ fs.ic[s].lock = NoProc
  BY DEF Fstat, tables, Unlocked
<1>3. s \in Slot /\ fs.ic[s].ref > 0 /\ 0 \notin Slot
  BY <1>1, <1>2, OpenFile DEF Slot
<1>4. LockedBy(fs, L, s, p)
  BY <1>1, <1>3, LockIs
<1>. HIDE DEF L, s
<1>5. Moves(fs, G, 0, 0, s, NoProc)
  BY <1>1, <1>3, <1>4, LockUnlock
<1>. HIDE DEF G
<1>6. G \in FsState /\ G.log = {}
  BY <1>1, <1>5 DEF Moves, Cached, SameDisk
<1>7. fs' = G /\ lg' = lg /\ OpFits'
  BY <1>1, <1>2, <1>6, OutsideIs
<1>8. Alone(p) /\ Tables'
  BY <1>1, <1>2, <1>7 DEF Alone, Tables
<1>9. Doing(p)' /\ Logged(p)'
  BY <1>1, <1>2 DEF Doing, Logged
<1>10. \A t \in Slot : Gain(0, 0, t) = Gain(cwd[p], cwd'[p], t) + Gain(loc[p].ip, loc'[p].ip, t)
                                      + Gain(loc[p].dp, loc'[p].dp, t)
  BY <1>2 DEF Gain, One
<1>11. ASSUME NEW t \in Slot, fs'.ic[t].lock = p PROVE FALSE
  BY <1>1, <1>5, <1>7, <1>11 DEF Moves
<1>12. Runs'
  BY <1>1, <1>2, <1>3, <1>5, <1>7, <1>8, <1>9, <1>10, <1>11, CacheStep
<1>. QED  BY <1>7, <1>12, RunsStep

\* A file whose offset moves, and a file whose count changes.
OffSet(t, f, n) == [t EXCEPT ![f].off = n]
RefSet(t, f, n) == [t EXCEPT ![f].ref = n]
\* What stays when the offset moves.
LEMMA OffIs ==
    ASSUME NEW t \in [File -> FileRec], NEW f \in File, NEW n \in Nat, NEW u, u = OffSet(t, f, n)
    PROVE  /\ u \in [File -> FileRec] /\ \A g \in File : g # f => u[g] = t[g]
           /\ u[f].type = t[f].type /\ u[f].ip = t[f].ip /\ u[f].w = t[f].w /\ u[f].ref = t[f].ref
<1>. DEFINE e == [t[f] EXCEPT !.off = n]
<1>1. t[f] \in FileRec /\ t[f] \in [ref : Nat, type : {"NONE", "INODE"}, ip : Slot \cup {0}, off : Nat,
            r : BOOLEAN, w : BOOLEAN]
  BY DEF FileRec
<1>2. e \in FileRec /\ e.type = t[f].type /\ e.ip = t[f].ip /\ e.w = t[f].w /\ e.ref = t[f].ref
  BY <1>1 DEF FileRec
<1>3. u = [t EXCEPT ![f] = e]
  BY DEF OffSet
<1>. HIDE DEF e
<1>. QED  BY <1>2, <1>3
\* A file whose count changes.
LEMMA RefIs ==
    ASSUME NEW t \in [File -> FileRec], NEW f \in File, NEW n \in Nat, NEW u, u = RefSet(t, f, n)
    PROVE  /\ u \in [File -> FileRec] /\ \A g \in File : g # f => u[g] = t[g]
           /\ u[f].type = t[f].type /\ u[f].ip = t[f].ip /\ u[f].w = t[f].w /\ u[f].ref = n
<1>. DEFINE e == [t[f] EXCEPT !.ref = n]
<1>1. t[f] \in FileRec /\ t[f] \in [ref : Nat, type : {"NONE", "INODE"}, ip : Slot \cup {0}, off : Nat,
            r : BOOLEAN, w : BOOLEAN]
  BY DEF FileRec
<1>2. e \in FileRec /\ e.type = t[f].type /\ e.ip = t[f].ip /\ e.w = t[f].w /\ e.ref = n
  BY <1>1 DEF FileRec
<1>3. u = [t EXCEPT ![f] = e]
  BY DEF RefSet
<1>. HIDE DEF e
<1>. QED  BY <1>2, <1>3

\* read().
LEMMA ReadStep ==
    ASSUME IInv, NEW p \in Process, NEW fd \in Fd, NEW n \in Nat, Read(p, fd, n)
    PROVE  IInv'
<1>f. PICK f : f = ofile[p][fd]
  OBVIOUS
<1>s. PICK s : s = ftable[f].ip
  OBVIOUS
<1>. DEFINE L == ilock(fs, s, p)
            r == readi(L, s, ftable[f].off, n)
            G == iunlock(r.fs, s, p)
<1>1. /\ Runs /\ OpFits /\ pc[p] = "user" /\ loc[p] = Idle /\ cwd[p] \in Slot /\ Tables
      /\ calls' \in 0..MaxCalls /\ (\A t \in Slot : fs.ic[t].lock # p) /\ p # NoProc
      /\ fs \in FsState /\ fs.log = {}
  BY CallIs DEF Read
<1>. DEFINE k == ftable[f].off + Len(r.out)
<1>2. /\ SetOutside(G) /\ ftable' = OffSet(ftable, f, k)
      /\ ofile' = ofile /\ cwd' = cwd /\ pc' = pc /\ loc' = loc
      /\ f # 0 /\ fs.ic[s].lock = NoProc
  BY <1>f, <1>s DEF Read, Unlocked, OffSet
<1>. HIDE DEF k
<1>3. s \in Slot /\ fs.ic[s].ref > 0 /\ 0 \notin Slot /\ f \in File /\ ftable[f].ref > 0 /\ ftable[f] \in FileRec
  <2>1. Runs /\ f # 0 /\ pc[p] # "put" /\ 0 \notin Slot
    BY <1>1, <1>2 DEF Slot
  <2>2. f \in File /\ ftable[f].ref > 0 /\ ftable[f].ip \in Slot /\ fs.ic[ftable[f].ip].ref > 0 /\ ftable[f] \in FileRec
    BY <1>f, <2>1, OpenFile, Zenon
  <2>. QED  BY <1>s, <2>1, <2>2, Zenon
<1>4. LockedBy(fs, L, s, p)
  BY <1>1, <1>3, LockIs
<1>a. ftable[f].off \in Nat
  BY <1>3 DEF FileRec
<1>. HIDE DEF L
<1>b. r.fs = L /\ Len(r.out) \in Nat
  BY <1>4, <1>a, ReadiIs DEF LockedBy
<1>d. k \in Nat
  BY <1>a, <1>b DEF k
<1>. HIDE DEF r
<1>5. Moves(fs, G, 0, 0, s, NoProc)
  BY <1>1, <1>3, <1>4, <1>b, LockUnlock
<1>. HIDE DEF G
<1>6. G \in FsState /\ G.log = {}
  BY <1>1, <1>5 DEF Moves, Cached, SameDisk
<1>7. fs' = G /\ lg' = lg /\ OpFits'
  BY <1>1, <1>2, <1>6, OutsideIs
<1>c. /\ ftable' \in [File -> FileRec] /\ \A g \in File : g # f => ftable'[g] = ftable[g]
      /\ ftable'[f].type = ftable[f].type /\ ftable'[f].ip = ftable[f].ip /\ ftable'[f].w = ftable[f].w
      /\ ftable'[f].ref = ftable[f].ref
  BY <1>1, <1>2, <1>3, <1>d, OffIs DEF Tables
<1>8. Alone(p) /\ Tables'
  BY <1>1, <1>2, <1>7, <1>c DEF Alone, Tables
<1>9. Doing(p)' /\ Logged(p)'
  BY <1>1, <1>2 DEF Doing, Logged
<1>10. \A t \in Slot : Gain(0, 0, t) = Gain(cwd[p], cwd'[p], t) + Gain(loc[p].ip, loc'[p].ip, t)
           + Gain(loc[p].dp, loc'[p].dp, t) + Gain(FileIp(ftable[f]), FileIp(ftable'[f]), t)
  BY <1>2, <1>c DEF Gain, One, FileIp
<1>11. ASSUME NEW t \in Slot, fs'.ic[t].lock = p PROVE FALSE
  BY <1>1, <1>5, <1>7, <1>11 DEF Moves
<1>12. FRefs'
  <2>1. \A g \in File : ftable'[g].ref = ftable[g].ref
    BY <1>c
  <2>. QED  BY <1>1, <1>2, <1>8, <2>1, FRefsSame
<1>13. Moves(fs, fs', 0, 0, s, NoProc) /\ fs.ic[s].lock = NoProc
  BY <1>2, <1>5, <1>7
<1>14. FileOK(f)'
  <2>1. Frame(fs, fs', p)
    BY <1>1, <1>13, MovesFrame
  <2>. QED  BY <1>1, <1>3, <1>c, <2>1, OthersFile
<1>15. pc[p] # "link" /\ pc'[p] # "link" /\ (ftable[f].ref > 0 => ftable'[f].w = ftable[f].w)
  BY <1>1, <1>2, <1>c
<1>16. Runs'
  BY <1>1, <1>3, <1>c, <1>8, <1>9, <1>10, <1>11, <1>12, <1>13, <1>14, <1>15, FileStep
<1>. QED  BY <1>7, <1>16, RunsStep

\* One descriptor of p changes, with the counts.
LEMMA FRefsMove ==
    ASSUME Runs, NEW p \in Process, Alone(p), NEW u \in Fd, NEW a, NEW b,
           a = Desc(ofile, pc, loc, p, u), b = Desc(ofile', pc', loc', p, u),
           \A fd \in Fd : fd # u => Desc(ofile', pc', loc', p, fd) = Desc(ofile, pc, loc, p, fd),
           \A g \in File : ftable'[g].ref = ftable[g].ref + Gain(a, b, g)
    PROVE  FRefs'
<1>1. ASSUME NEW q \in Process, NEW fd \in Fd, ~(q = p /\ fd = u)
      PROVE  Desc(ofile', pc', loc', q, fd) = Desc(ofile, pc, loc, q, fd)
  <2>1. CASE q = p
    BY <1>1, <2>1
  <2>2. CASE q # p
    BY <2>2 DEF Alone, Desc, Closing
  <2>. QED  BY <2>1, <2>2
<1>2. \A f \in File : ftable[f].ref = FileRefs(ofile, pc, loc, f)
  BY RunsRefs DEF FRefs
<1>3. ASSUME NEW f \in File PROVE ftable'[f].ref = FileRefs(ofile', pc', loc', f)
  <2>1. /\ FileRefs(ofile, pc, loc, f) \in Nat
        /\ FileRefs(ofile', pc', loc', f) = FileRefs(ofile, pc, loc, f) + One(b, f) - One(a, f)
    BY <1>1, DescChange
  <2>2. One(a, f) \in Nat /\ One(b, f) \in Nat
    BY DEF One
  <2>3. ftable'[f].ref = ftable[f].ref + (One(b, f) - One(a, f))
    BY DEF Gain
  <2>. QED  BY <1>2, <2>1, <2>2, <2>3
<1>. QED  BY <1>3 DEF FRefs

\* A descriptor set to x.
FdSet(o, p, u, x) == [o EXCEPT ![p][u] = x]

\* Setting a descriptor changes that descriptor and no other.
LEMMA FdSetIs ==
    ASSUME NEW o \in [Process -> [Fd -> File \cup {0}]], NEW p \in Process, NEW u \in Fd, NEW x \in File \cup {0},
           NEW n, n = FdSet(o, p, u, x)
    PROVE  /\ n \in [Process -> [Fd -> File \cup {0}]] /\ n[p][u] = x
           /\ \A fd \in Fd : fd # u => n[p][fd] = o[p][fd]
           /\ \A q \in Process : q # p => n[q] = o[q]
BY DEF FdSet

\* A free descriptor.
LEMMA FreeFd ==
    ASSUME NEW p \in Process, FreeFds(p) # {}
    PROVE  Min(FreeFds(p)) \in Fd /\ ofile[p][Min(FreeFds(p))] = 0
<1>1. FreeFds(p) \subseteq Nat
  BY FsAssumption DEF FreeFds, Fd
<1>. DEFINE u == Min(FreeFds(p))
<1>2. u \in FreeFds(p)
  BY <1>1, LeastNumber
<1>. HIDE DEF u
<1>3. u \in Fd /\ ofile[p][u] = 0
  BY <1>2 DEF FreeFds
<1>. QED  BY <1>3 DEF u

\* dup().
LEMMA DupStep ==
    ASSUME IInv, NEW p \in Process, NEW fd \in Fd, Dup(p, fd)
    PROVE  IInv'
<1>f. PICK f : f = ofile[p][fd]
  OBVIOUS
<1>u. PICK u : u = Min(FreeFds(p))
  OBVIOUS
<1>. DEFINE k == ftable[f].ref + 1
<1>1. /\ Runs /\ OpFits /\ pc[p] = "user" /\ loc[p] = Idle /\ cwd[p] \in Slot /\ Tables
      /\ calls' \in 0..MaxCalls /\ (\A t \in Slot : fs.ic[t].lock # p) /\ p # NoProc
      /\ fs \in FsState /\ fs.log = {}
  BY CallIs DEF Dup
<1>2. /\ ofile' = FdSet(ofile, p, u, f) /\ ftable' = RefSet(ftable, f, k)
      /\ fs' = fs /\ lg' = lg /\ cwd' = cwd /\ pc' = pc /\ loc' = loc
      /\ f # 0 /\ FreeFds(p) # {}
  BY <1>f, <1>u DEF Dup, FdSet, RefSet
<1>. HIDE DEF k
<1>3. f \in File /\ ftable[f].ref > 0 /\ ftable[f] \in FileRec /\ 0 \notin Slot /\ 0 \notin File
  BY <1>1, <1>2, <1>f, OpenFile DEF Slot, File
<1>4. u \in Fd /\ ofile[p][u] = 0
  BY <1>2, <1>u, FreeFd
<1>5. k \in Nat /\ k = ftable[f].ref + 1 /\ k > 0
  BY <1>3 DEF k, FileRec
<1>6. /\ ftable' \in [File -> FileRec] /\ \A g \in File : g # f => ftable'[g] = ftable[g]
      /\ ftable'[f].type = ftable[f].type /\ ftable'[f].ip = ftable[f].ip /\ ftable'[f].w = ftable[f].w
      /\ ftable'[f].ref = k
  BY <1>1, <1>2, <1>3, <1>5, RefIs DEF Tables
<1>7. /\ ofile' \in [Process -> [Fd -> File \cup {0}]] /\ ofile'[p][u] = f
      /\ \A d \in Fd : d # u => ofile'[p][d] = ofile[p][d]
      /\ \A q \in Process : q # p => ofile'[q] = ofile[q]
  BY <1>1, <1>2, <1>3, <1>4, FdSetIs DEF Tables
<1>8. Alone(p) /\ Tables' /\ OpFits'
  BY <1>1, <1>2, <1>6, <1>7 DEF Alone, Tables, OpFits
<1>9. Doing(p)' /\ Logged(p)'
  BY <1>1, <1>2 DEF Doing, Logged
<1>10. \A t \in Slot : Gain(0, 0, t) = Gain(cwd[p], cwd'[p], t) + Gain(loc[p].ip, loc'[p].ip, t)
           + Gain(loc[p].dp, loc'[p].dp, t) + Gain(FileIp(ftable[f]), FileIp(ftable'[f]), t)
  BY <1>2, <1>6 DEF Gain, One, FileIp
<1>11. ASSUME NEW t \in Slot, fs'.ic[t].lock = p PROVE FALSE
  BY <1>1, <1>2, <1>11
<1>12. FRefs'
  <2>1. /\ 0 = Desc(ofile, pc, loc, p, u) /\ f = Desc(ofile', pc', loc', p, u)
        /\ \A d \in Fd : d # u => Desc(ofile', pc', loc', p, d) = Desc(ofile, pc, loc, p, d)
    BY <1>1, <1>2, <1>4, <1>7 DEF Desc, Closing
  <2>2. ASSUME NEW g \in File PROVE ftable'[g].ref = ftable[g].ref + Gain(0, f, g)
    <3>1. ftable[g].ref \in Nat
      BY <1>1 DEF Tables, FileRec
    <3>. QED  BY <1>3, <1>5, <1>6, <3>1 DEF Gain, One
  <2>. QED  BY <1>1, <1>4, <1>8, <2>1, <2>2, FRefsMove
<1>13. Moves(fs, fs', 0, 0, 0, NoProc)
  BY <1>1, <1>2, StayMoves
<1>14. FileOK(f)'
  <2>1. Frame(fs, fs', p)
    BY <1>1, <1>3, <1>13, MovesFrame
  <2>2. ftable'[f].ref > 0
    BY <1>5, <1>6
  <2>. QED  BY <1>1, <1>3, <1>6, <2>1, <2>2, OthersFile
<1>15. pc[p] # "link" /\ pc'[p] # "link" /\ (ftable[f].ref > 0 => ftable'[f].w = ftable[f].w)
  BY <1>1, <1>2, <1>6
<1>16. Runs'
  BY <1>1, <1>3, <1>6, <1>8, <1>9, <1>10, <1>11, <1>12, <1>13, <1>14, <1>15, FileStep
<1>. QED  BY <1>8, <1>16, RunsStep

\* What open() holds at its end.
LEMMA OpenedIs ==
    ASSUME IInv, NEW p \in Process, Running(p, "opened")
    PROVE  /\ Runs /\ OpFits /\ Tables /\ p # NoProc /\ fs \in FsState /\ fs.log = {} /\ Cached(fs)
           /\ loc[p] \in LocRec /\ loc[p].ip \in Slot /\ loc[p].dp = 0 /\ cwd[p] \in Slot /\ 0 \notin Slot
           /\ fs.ic[loc[p].ip].lock = p /\ (loc[p].call # "open_r" => ~DirAt(fs, loc[p].ip))
           /\ fs.ic[loc[p].ip].ref > 0 /\ Linked(fs.di) /\ pc[p] = "opened" /\ Ok(fs)
<1>1. Ok(fs) /\ pc[p] = "opened"
  BY DEF Running
<1>2. /\ Runs /\ OpFits /\ Tables /\ p # NoProc /\ fs \in FsState /\ fs.log = {} /\ Cached(fs)
      /\ Doing(p) /\ Linked(fs.di)
  BY <1>1, RunsNow, RunsIs, FsAssumption
<1>3. /\ loc[p].ip \in Slot /\ loc[p].dp = 0 /\ cwd[p] \in Slot
      /\ fs.ic[loc[p].ip].lock = p /\ (loc[p].call # "open_r" => ~DirAt(fs, loc[p].ip))
  BY <1>1, <1>2 DEF Doing
<1>4. fs.ic[loc[p].ip].ref > 0
  BY <1>2, <1>3 DEF Cached, CacheOK
<1>. QED  BY <1>1, <1>2, <1>3, <1>4 DEF Tables, Slot

\* No file is free.
LEMMA OpenedNoFile ==
    ASSUME IInv, NEW p \in Process, Running(p, "opened"), Fail(p, iunlockput(fs, loc[p].ip, p)),
           UNCHANGED tables, UNCHANGED calls
    PROVE  IInv'
<1>. DEFINE G == iunlockput(fs, loc[p].ip, p)
<1>1. /\ Runs /\ OpFits /\ p # NoProc /\ Cached(fs) /\ Linked(fs.di) /\ loc[p].ip \in Slot
      /\ fs.ic[loc[p].ip].lock = p /\ pc[p] = "opened"
  BY OpenedIs
<1>2. Moves(fs, G, loc[p].ip, 0, loc[p].ip, NoProc)
  BY <1>1, IunlockputIs
<1>. HIDE DEF G
<1>3. UNCHANGED <<tables, calls>> /\ Fail(p, G)
  BY DEF G
<1>. QED  BY <1>1, <1>2, <1>3, FailStep

\* No descriptor is free.
LEMMA OpenedNoFd ==
    ASSUME IInv, NEW p \in Process, Running(p, "opened"), FreeFds(p) = {},
           Set(p, Panic(fs, "file_close: no type")), UNCHANGED <<tables, pc, loc>>, UNCHANGED calls
    PROVE  IInv'
<1>. DEFINE G == Panic(fs, "file_close: no type")
<1>1. /\ Runs /\ OpFits /\ Tables /\ Cached(fs) /\ fs \in FsState /\ fs.log = {} /\ pc[p] = "opened" /\ Ok(fs)
  BY OpenedIs
<1>2. Fields(G, fs.di, fs.data, fs.used, fs.ic, fs.log, "file_close: no type")
  BY <1>1, PanicIs DEF Reason
<1>. HIDE DEF G
<1>3. G \in FsState /\ G.log = {} /\ G.panic = "file_close: no type" /\ G.ic = fs.ic
  BY <1>1, <1>2 DEF Fields
<1>4. fs' = G /\ lg' = lg /\ OpFits'
  BY <1>1, <1>3, SetIs DEF G
<1>5. ftable' = ftable /\ ofile' = ofile /\ cwd' = cwd /\ pc' = pc /\ loc' = loc /\ calls' = calls
  BY DEF tables
<1>6. Tables'
  BY <1>1, <1>4, <1>5 DEF Tables
<1>7. ~Ok(fs') /\ OneEntry(fs'.ic)
  BY <1>1, <1>3, <1>4 DEF Ok, Cached
<1>8. FreeFds(p)' = {} /\ pc'[p] = "opened"
  BY <1>1, <1>5 DEF FreeFds
<1>9. OnlyFullTablesPanic'
  BY <1>3, <1>4, <1>8 DEF OnlyFullTablesPanic
<1>. QED  BY <1>3, <1>4, <1>6, <1>7, <1>9, PanicStep

\* A new open file.
NewFile(l) == [ref |-> 1, type |-> "INODE", ip |-> l.ip, off |-> 0,
               r |-> l.call # "creat", w |-> l.call # "open_r"]
FtSet(t, f, e) == [t EXCEPT ![f] = e]
\* Its fields.
LEMMA NewFileIs ==
    ASSUME NEW l, l.ip \in Slot, NEW e, e = NewFile(l)
    PROVE  /\ e \in FileRec /\ e.ref = 1 /\ e.type = "INODE" /\ e.ip = l.ip /\ (e.w <=> l.call # "open_r")
BY DEF NewFile, FileRec
\* The table with the file.
LEMMA FtSetIs ==
    ASSUME NEW t \in [File -> FileRec], NEW f \in File, NEW e \in FileRec, NEW u, u = FtSet(t, f, e)
    PROVE  u \in [File -> FileRec] /\ u[f] = e /\ \A g \in File : g # f => u[g] = t[g]
BY DEF FtSet
\* A free file.
LEMMA FreeFile ==
    ASSUME Runs, NEW free, free = {f \in File : ftable[f].ref = 0}, free # {}, NEW f, f = Min(free)
    PROVE  f \in File /\ ftable[f].ref = 0 /\ FileIp(ftable[f]) = 0
<1>1. free \in SUBSET Nat
  BY FsAssumption DEF File
<1>2. f \in free
  BY <1>1, LeastNumber
<1>3. f \in File /\ ftable[f].ref = 0
  BY <1>2
<1>4. FileOK(f)
  BY <1>3 DEF Runs, Live
<1>. QED  BY <1>3, <1>4 DEF FileOK, FileIp

\* The file is open.
LEMMA OpenedFile ==
    ASSUME IInv, NEW p \in Process, Running(p, "opened"), FreeFds(p) # {}, Set(p, iunlock(fs, loc[p].ip, p)),
           NEW f, f \in File /\ ftable[f].ref = 0 /\ FileIp(ftable[f]) = 0,
           ftable' = FtSet(ftable, f, NewFile(loc[p])), ofile' = FdSet(ofile, p, Min(FreeFds(p)), f),
           Return(p), cwd' = cwd, calls' = calls
    PROVE  IInv'
<1>u. PICK u : u = Min(FreeFds(p))
  OBVIOUS
<1>l. PICK l : l = loc[p]
  OBVIOUS
<1>s. PICK s : s = l.ip
  OBVIOUS
<1>. DEFINE G == iunlock(fs, s, p)
            e == NewFile(l)
<1>1. /\ Runs /\ OpFits /\ Tables /\ p # NoProc /\ fs \in FsState /\ fs.log = {} /\ Cached(fs) /\ pc[p] = "opened"
      /\ l \in LocRec /\ s \in Slot /\ l.dp = 0 /\ cwd[p] \in Slot /\ 0 \notin Slot /\ Linked(fs.di)
      /\ fs.ic[s].lock = p /\ (l.call # "open_r" => ~DirAt(fs, s)) /\ fs.ic[s].ref > 0
  BY OpenedIs, <1>l, <1>s
<1>2. Moves(fs, G, 0, 0, s, NoProc)
  BY <1>1, IunlockIs
<1>3. e \in FileRec /\ e.ref = 1 /\ e.type = "INODE" /\ e.ip = s /\ (e.w <=> l.call # "open_r")
  BY <1>1, <1>s, NewFileIs
<1>4. Set(p, G) /\ ofile' = FdSet(ofile, p, u, f) /\ ftable' = FtSet(ftable, f, e)
  BY <1>u, <1>l, <1>s
<1>. HIDE DEF G, e
<1>5. G \in FsState /\ G.log = {}
  BY <1>1, <1>2 DEF Moves, Cached, SameDisk
<1>6. fs' = G /\ lg' = lg /\ OpFits'
  BY <1>1, <1>4, <1>5, SetIs
<1>7. /\ pc' \in [Process -> Pc] /\ loc' \in [Process -> LocRec] /\ pc'[p] = "user" /\ loc'[p] = Idle
      /\ \A q \in Process : q # p => pc'[q] = pc[q] /\ loc'[q] = loc[q]
  BY <1>1, IdleIs, GotoIs DEF Return, Pc
<1>8. u \in Fd /\ ofile[p][u] = 0 /\ 0 \notin File
  BY <1>u, FreeFd DEF File
<1>9. /\ ftable' \in [File -> FileRec] /\ ftable'[f] = e /\ \A g \in File : g # f => ftable'[g] = ftable[g]
  BY <1>1, <1>3, <1>4, FtSetIs DEF Tables
<1>b. f \in File \cup {0} /\ ofile \in [Process -> [Fd -> File \cup {0}]]
  BY <1>1 DEF Tables
<1>10. /\ ofile' \in [Process -> [Fd -> File \cup {0}]] /\ ofile'[p][u] = f
       /\ \A d \in Fd : d # u => ofile'[p][d] = ofile[p][d]
       /\ \A q \in Process : q # p => ofile'[q] = ofile[q]
  BY <1>4, <1>8, <1>b, FdSetIs
<1>11. Alone(p) /\ Tables'
  <2>1. Alone(p)
    BY <1>6, <1>7, <1>10 DEF Alone
  <2>2. lg \in [Process -> SUBSET Nat] /\ cwd \in [Process -> Slot \cup {0}] /\ calls \in 0..MaxCalls
    BY <1>1 DEF Tables
  <2>3. Tables'
    BY <1>6, <1>7, <1>9, <1>10, <2>2 DEF Tables
  <2>. QED  BY <2>1, <2>3
<1>a. cwd'[p] \in Slot
  BY <1>1
<1>12. Doing(p)' /\ Logged(p)'
  BY <1>7, <1>a DEF Doing, Logged
<1>13. ASSUME NEW t \in Slot
       PROVE  Gain(0, 0, t) = Gain(cwd[p], cwd'[p], t) + Gain(loc[p].ip, loc'[p].ip, t)
               + Gain(loc[p].dp, loc'[p].dp, t) + Gain(FileIp(ftable[f]), FileIp(ftable'[f]), t)
  <2>1. FileIp(ftable'[f]) = s
    BY <1>3, <1>9 DEF FileIp
  <2>2. loc[p].ip = s /\ loc[p].dp = 0 /\ loc'[p].ip = 0 /\ loc'[p].dp = 0
    BY <1>l, <1>s, <1>1, <1>7, IdleIs
  <2>. QED  BY <2>1, <2>2 DEF Gain, One
<1>14. ASSUME NEW t \in Slot, fs'.ic[t].lock = p PROVE FALSE
  <2>1. fs'.ic[t].lock = IF t = s THEN NoProc ELSE fs.ic[t].lock
    BY <1>2, <1>6 DEF Moves
  <2>2. t # s /\ fs.ic[t].lock = p
    BY <1>1, <1>14, <2>1
  <2>3. MayHold(pc, loc, p, t)
    BY <1>1, <2>2, OwnLocks
  <2>. QED  BY <1>1, <1>l, <1>s, <2>2, <2>3 DEF MayHold
<1>15. FRefs'
  <2>1. /\ 0 = Desc(ofile, pc, loc, p, u) /\ f = Desc(ofile', pc', loc', p, u)
        /\ \A d \in Fd : d # u => Desc(ofile', pc', loc', p, d) = Desc(ofile, pc, loc, p, d)
    BY <1>1, <1>7, <1>8, <1>10 DEF Desc, Closing
  <2>2. ASSUME NEW g \in File PROVE ftable'[g].ref = ftable[g].ref + Gain(0, f, g)
    <3>1. ftable[g].ref \in Nat
      BY <1>1 DEF Tables, FileRec
    <3>. QED  BY <1>3, <1>8, <1>9, <3>1 DEF Gain, One
  <2>. QED  BY <1>1, <1>8, <1>11, <2>1, <2>2, FRefsMove
<1>16. Moves(fs, fs', 0, 0, s, NoProc) /\ fs.ic[s].lock \in {p, NoProc}
  BY <1>1, <1>2, <1>6
<1>17. FileOK(f)'
  <2>1. DirAt(fs', s) <=> DirAt(fs, s)
    BY <1>1, <1>16 DEF Moves, SameDisk, DirAt
  <2>2. /\ ftable'[f].type = "INODE" /\ ftable'[f].ref > 0 /\ ftable'[f].ip = s /\ s \in Slot
        /\ ftable'[f].w => ~DirAt(fs', s)
    BY <1>1, <1>3, <1>9, <2>1
  <2>. QED  BY <2>2 DEF FileOK
<1>18. pc[p] # "link" /\ pc'[p] # "link" /\ (ftable[f].ref > 0 => ftable'[f].w = ftable[f].w)
  BY <1>1, <1>7
<1>19. Runs'
  BY <1>1, <1>9, <1>11, <1>12, <1>13, <1>14, <1>15, <1>16, <1>17, <1>18, FileStep
<1>. QED  BY <1>6, <1>19, RunsStep

\* The end of open().
LEMMA OpenedStep ==
    ASSUME IInv, NEW p \in Process, Opened(p)
    PROVE  IInv'
<1>. DEFINE free == {f \in File : ftable[f].ref = 0}
<1>1. /\ Running(p, "opened") /\ calls' = calls
      /\ \/ Fail(p, iunlockput(fs, loc[p].ip, p)) /\ UNCHANGED tables
         \/ FreeFds(p) = {} /\ Set(p, Panic(fs, "file_close: no type")) /\ UNCHANGED <<tables, pc, loc>>
         \/ /\ free # {} /\ FreeFds(p) # {} /\ Set(p, iunlock(fs, loc[p].ip, p))
            /\ ftable' = FtSet(ftable, Min(free), NewFile(loc[p]))
            /\ ofile' = FdSet(ofile, p, Min(FreeFds(p)), Min(free)) /\ Return(p) /\ cwd' = cwd
  BY DEF Opened, FtSet, FdSet, NewFile
<1>2. CASE Fail(p, iunlockput(fs, loc[p].ip, p)) /\ UNCHANGED tables
  BY <1>1, <1>2, OpenedNoFile
<1>3. CASE FreeFds(p) = {} /\ Set(p, Panic(fs, "file_close: no type")) /\ UNCHANGED <<tables, pc, loc>>
  BY <1>1, <1>3, OpenedNoFd
<1>4. CASE /\ free # {} /\ FreeFds(p) # {} /\ Set(p, iunlock(fs, loc[p].ip, p))
           /\ ftable' = FtSet(ftable, Min(free), NewFile(loc[p]))
           /\ ofile' = FdSet(ofile, p, Min(FreeFds(p)), Min(free)) /\ Return(p) /\ cwd' = cwd
  <2>f. PICK f : f = Min(free)
    OBVIOUS
  <2>1. Runs
    BY <1>1, OpenedIs
  <2>2. f \in File /\ ftable[f].ref = 0 /\ FileIp(ftable[f]) = 0
    BY <1>4, <2>f, <2>1, FreeFile
  <2>. QED  BY <1>1, <1>4, <2>f, <2>2, OpenedFile
<1>. QED  BY <1>1, <1>2, <1>3, <1>4

\* The local variables with another inode.
LocIp(l, s) == [l EXCEPT !.ip = s]

\* The rest of the local variables is as before.
LEMMA LocIpIs ==
    ASSUME NEW l \in LocRec, NEW s \in Slot, NEW m, m = LocIp(l, s)
    PROVE  m \in LocRec /\ m.ip = s /\ m.dp = l.dp /\ m.call = l.call /\ m.fd = l.fd /\ m.path = l.path
BY DEF LocIp, LocRec

\* A file with its last reference gone.
Shut(e) == [e EXCEPT !.ref = 0, !.type = "NONE"]

\* It is a free entry of ftable.
LEMMA ShutIs ==
    ASSUME NEW e \in FileRec, NEW g, g = Shut(e)
    PROVE  g \in FileRec /\ g.ref = 0 /\ g.type = "NONE" /\ g.w = e.w
BY DEF Shut, FileRec

\* What file_close() makes of the file and of the caller.
Closed(p, f, l, back) ==
    \/ /\ ftable[f].ref > 1 /\ Goto(p, back, Idle) /\ fs' = fs /\ lg' = lg
       /\ ftable' = RefSet(ftable, f, ftable[f].ref - 1)
    \/ /\ ftable[f].ref = 1 /\ Goto(p, "put", LocIp(l, ftable[f].ip)) /\ fs' = fs /\ lg' = lg
       /\ ftable' = FtSet(ftable, f, Shut(ftable[f]))

\* fileclose() drops one reference, or empties the entry and goes on to put its inode.
LEMMA ClosedIs ==
    ASSUME NEW p, NEW f, ftable[f].ref \in Nat, ftable[f].ref > 0, ftable[f].type = "INODE", NEW l, NEW back,
           FileClose(p, f, l, back)
    PROVE  Closed(p, f, l, back)
<1>1. CASE ftable[f].ref > 1
  <2>1. Goto(p, back, Idle) /\ fs' = fs /\ lg' = lg /\ ftable' = [ftable EXCEPT ![f].ref = @ - 1]
    BY <1>1 DEF FileClose
  <2>. QED  BY <1>1, <2>1 DEF Closed, RefSet
<1>2. CASE ~(ftable[f].ref > 1)
  <2>1. ftable[f].ref = 1
    BY <1>2
  <2>2. /\ Goto(p, "put", [l EXCEPT !.ip = ftable[f].ip]) /\ fs' = fs /\ lg' = lg
        /\ ftable' = [ftable EXCEPT ![f] = [@ EXCEPT !.ref = 0, !.type = "NONE"]]
    BY <1>2, <2>1 DEF FileClose
  <2>. QED  BY <2>1, <2>2 DEF Closed, FtSet, Shut, LocIp
<1>. QED  BY <1>1, <1>2

\* What p was doing.
LEMMA CloserIs ==
    ASSUME Runs, NEW p \in Process, pc[p] \in {"user", "exit"}
    PROVE  /\ loc[p] = Idle /\ cwd[p] \in Slot /\ Tables /\ p # NoProc /\ fs \in FsState /\ fs.log = {}
           /\ \A t \in Slot : fs.ic[t].lock # p
<1>1. Doing(p) /\ Tables /\ p # NoProc /\ fs \in FsState /\ fs.log = {}
  BY RunsIs, FsAssumption
<1>2. loc[p] = Idle /\ cwd[p] \in Slot
  BY <1>1 DEF Doing
<1>3. \A t \in Slot : fs.ic[t].lock # p
  BY OwnLocks DEF MayHold
<1>. QED  BY <1>1, <1>2, <1>3

\* The change to the file and to the caller's pointers.
Drops(p, f, s, e, at, m) ==
    /\ Goto(p, at, m) /\ m \in LocRec /\ m.dp = 0
    /\ ftable' \in [File -> FileRec] /\ ftable'[f] = e /\ \A g \in File : g # f => ftable'[g] = ftable[g]
    /\ e.ref = ftable[f].ref - 1 /\ e.w = ftable[f].w
    /\ \/ m.ip = 0 /\ FileIp(e) = s /\ e.type = "INODE" /\ e.ref > 0 /\ e.ip = s
       \/ m.ip = s /\ FileIp(e) = 0 /\ e.type = "NONE" /\ e.ref = 0
\* One of p's descriptors is closed.
LEMMA DropStep ==
    ASSUME Runs, OpFits, NEW p \in Process, pc[p] \in {"user", "exit"}, NEW u \in Fd, NEW f, f = ofile[p][u], f # 0,
           NEW s, s = ftable[f].ip, NEW e, NEW at, at \in {"user", "exit", "put"}, NEW m, Drops(p, f, s, e, at, m),
           fs' = fs, lg' = lg, cwd' = cwd, calls' \in 0..MaxCalls,
           ofile' \in [Process -> [Fd -> File \cup {0}]], \A q \in Process : q # p => ofile'[q] = ofile[q],
           pc'[p] = at /\ loc'[p] = m => /\ Desc(ofile', pc', loc', p, u) = 0
              /\ \A d \in Fd : d # u => Desc(ofile', pc', loc', p, d) = Desc(ofile, pc, loc, p, d),
           pc'[p] = at /\ loc'[p] = m /\ cwd'[p] \in Slot => Doing(p)'
    PROVE  IInv'
<1>1. /\ loc[p] = Idle /\ cwd[p] \in Slot /\ Tables /\ p # NoProc /\ fs \in FsState /\ fs.log = {}
      /\ \A t \in Slot : fs.ic[t].lock # p
  BY CloserIs
<1>2. /\ f \in File /\ ftable[f].ref > 0 /\ ftable[f].type = "INODE" /\ s \in Slot
      /\ (ftable[f].w => ~DirAt(fs, s)) /\ ftable[f] \in FileRec
  BY OpenFile
<1>3. /\ pc' \in [Process -> Pc] /\ loc' \in [Process -> LocRec] /\ pc'[p] = at /\ loc'[p] = m
      /\ \A q \in Process : q # p => pc'[q] = pc[q] /\ loc'[q] = loc[q]
  BY GotoIs DEF Drops, Pc
<1>4. /\ ftable' \in [File -> FileRec] /\ ftable'[f] = e /\ (\A g \in File : g # f => ftable'[g] = ftable[g])
      /\ e.ref = ftable[f].ref - 1 /\ e.w = ftable[f].w /\ m.dp = 0
  BY DEF Drops
<1>5. Alone(p) /\ Tables' /\ OpFits'
  <2>1. Alone(p)
    BY <1>3 DEF Alone
  <2>2. lg \in [Process -> SUBSET Nat] /\ cwd \in [Process -> Slot \cup {0}]
    BY <1>1 DEF Tables
  <2>3. Tables'
    BY <1>3, <1>4, <2>2 DEF Tables
  <2>. QED  BY <2>1, <2>3 DEF OpFits
<1>6. cwd'[p] \in Slot
  BY <1>1
<1>7. Doing(p)'
  BY <1>3, <1>6
<1>8. Moves(fs, fs', 0, 0, 0, NoProc) /\ 0 \notin Slot
  BY StayMoves DEF Slot
<1>9. FRefs'
  <2>1. /\ f = Desc(ofile, pc, loc, p, u) /\ 0 = Desc(ofile', pc', loc', p, u)
        /\ \A d \in Fd : d # u => Desc(ofile', pc', loc', p, d) = Desc(ofile, pc, loc, p, d)
    <3>1. f = Desc(ofile, pc, loc, p, u)
      BY DEF Desc, Closing
    <3>. QED  BY <1>3, <3>1
  <2>2. ASSUME NEW g \in File PROVE ftable'[g].ref = ftable[g].ref + Gain(f, 0, g)
    <3>1. ftable[g].ref \in Nat /\ g # 0
      BY <1>1 DEF Tables, FileRec, File
    <3>. QED  BY <1>2, <1>4, <3>1 DEF Gain, One
  <2>. QED  BY <1>5, <2>1, <2>2, FRefsMove
<1>10. ASSUME NEW t \in Slot
       PROVE  Gain(0, 0, t) = Gain(cwd[p], cwd'[p], t) + Gain(loc[p].ip, loc'[p].ip, t)
               + Gain(loc[p].dp, loc'[p].dp, t) + Gain(FileIp(ftable[f]), FileIp(ftable'[f]), t)
  <2>1. FileIp(ftable[f]) = s /\ FileIp(ftable'[f]) = FileIp(e)
    BY <1>2, <1>4 DEF FileIp
  <2>2. loc[p].ip = 0 /\ loc[p].dp = 0 /\ loc'[p].ip = m.ip /\ loc'[p].dp = 0
    BY <1>1, <1>3, <1>4, IdleIs
  <2>3. (m.ip = 0 /\ FileIp(e) = s) \/ (m.ip = s /\ FileIp(e) = 0)
    BY DEF Drops
  <2>. QED  BY <2>1, <2>2, <2>3 DEF Gain, One
<1>11. ASSUME NEW t \in Slot, fs'.ic[t].lock = p PROVE FALSE
  BY <1>1, <1>11
<1>12. FileOK(f)'
  <2>1. DirAt(fs', s) <=> DirAt(fs, s)
    BY DEF DirAt
  <2>2. (e.type = "INODE" /\ e.ref > 0 /\ e.ip = s) \/ (e.type = "NONE" /\ e.ref = 0)
    BY DEF Drops
  <2>3. (e.type = "INODE" <=> e.ref > 0) /\ (e.type = "INODE" => e.ip \in Slot /\ (e.w => ~DirAt(fs', e.ip)))
    BY <1>2, <1>4, <2>1, <2>2
  <2>. QED  BY <1>4, <2>3 DEF FileOK
<1>13. Logged(p)'
  BY <1>3 DEF Logged
<1>14. pc[p] # "link" /\ pc'[p] # "link" /\ (ftable[f].ref > 0 => ftable'[f].w = ftable[f].w)
  BY <1>3, <1>4
<1>15. Runs'
  BY <1>2, <1>4, <1>5, <1>7, <1>8, <1>9, <1>10, <1>11, <1>12, <1>13, <1>14, FileStep
<1>. QED  BY <1>5, <1>15, RunsStep

\* The change file_close() makes.
LEMMA ClosedDrops ==
    ASSUME Runs, NEW p \in Process, NEW f \in File, ftable[f] \in FileRec, ftable[f].type = "INODE",
           NEW s \in Slot, s = ftable[f].ip, NEW l \in LocRec, l.dp = 0, NEW back, Closed(p, f, l, back)
    PROVE  \/ ftable[f].ref > 1 /\ \E e : Drops(p, f, s, e, back, Idle)
           \/ ftable[f].ref = 1 /\ \E e : Drops(p, f, s, e, "put", LocIp(l, s))
<1>1. ftable \in [File -> FileRec] /\ ftable[f].ref \in Nat /\ 0 \notin Slot
  BY RunsIs DEF Tables, FileRec, Slot
<1>2. CASE ftable[f].ref > 1 /\ Goto(p, back, Idle) /\ ftable' = RefSet(ftable, f, ftable[f].ref - 1)
  <2>. DEFINE k == ftable[f].ref - 1
  <2>1. k \in Nat /\ k > 0 /\ k = ftable[f].ref - 1
    BY <1>1, <1>2
  <2>2. ftable' = RefSet(ftable, f, k)
    BY <1>2
  <2>. HIDE DEF k
  <2>3. /\ ftable' \in [File -> FileRec] /\ \A g \in File : g # f => ftable'[g] = ftable[g]
        /\ ftable'[f].type = ftable[f].type /\ ftable'[f].ip = ftable[f].ip /\ ftable'[f].w = ftable[f].w
        /\ ftable'[f].ref = k
    BY <1>1, <2>1, <2>2, RefIs
  <2>4. FileIp(ftable'[f]) = s
    BY <2>3 DEF FileIp
  <2>5. Drops(p, f, s, ftable'[f], back, Idle)
    BY <1>2, <2>1, <2>3, <2>4, IdleIs DEF Drops
  <2>. QED  BY <1>2, <2>5
<1>3. CASE /\ ftable[f].ref = 1 /\ Goto(p, "put", LocIp(l, ftable[f].ip))
           /\ ftable' = FtSet(ftable, f, Shut(ftable[f]))
  <2>e. PICK e : e = Shut(ftable[f])
    OBVIOUS
  <2>m. PICK m : m = LocIp(l, s)
    OBVIOUS
  <2>1. e \in FileRec /\ e.ref = 0 /\ e.type = "NONE" /\ e.w = ftable[f].w
    BY <2>e, ShutIs
  <2>2. m \in LocRec /\ m.ip = s /\ m.dp = 0
    BY <2>m, LocIpIs
  <2>3. Goto(p, "put", m) /\ ftable' = FtSet(ftable, f, e)
    BY <1>3, <2>e, <2>m
  <2>4. ftable' \in [File -> FileRec] /\ ftable'[f] = e /\ \A g \in File : g # f => ftable'[g] = ftable[g]
    BY <1>1, <2>1, <2>3, FtSetIs
  <2>5. FileIp(e) = 0
    BY <2>1 DEF FileIp
  <2>6. Drops(p, f, s, e, "put", m)
    BY <1>3, <2>1, <2>2, <2>3, <2>4, <2>5 DEF Drops
  <2>. QED  BY <1>3, <2>6, <2>m
<1>. QED  BY <1>2, <1>3 DEF Closed

\* close().
LEMMA CloseStep ==
    ASSUME IInv, NEW p \in Process, NEW fd \in Fd, Close(p, fd)
    PROVE  IInv'
<1>f. PICK f : f = ofile[p][fd]
  OBVIOUS
<1>s. PICK s : s = ftable[f].ip
  OBVIOUS
<1>l. PICK l : l = [Idle EXCEPT !.call = "close"]
  OBVIOUS
<1>1. /\ Runs /\ OpFits /\ pc[p] = "user" /\ loc[p] = Idle /\ Tables /\ calls' \in 0..MaxCalls
  BY CallIs DEF Close
<1>2. f # 0 /\ ofile' = FdSet(ofile, p, fd, 0) /\ FileClose(p, f, l, "user") /\ cwd' = cwd
  BY <1>f, <1>l DEF Close, FdSet
<1>3. /\ f \in File /\ ftable[f].ref > 0 /\ ftable[f].type = "INODE" /\ s \in Slot /\ ftable[f] \in FileRec
  BY <1>1, <1>2, <1>f, <1>s, OpenFile
<1>4. l \in LocRec /\ l.call = "close" /\ l.dp = 0
  BY <1>l, IdleIs DEF Idle, LocRec, Calls
<1>5. Closed(p, f, l, "user")
  <2>1. ftable[f].ref \in Nat
    BY <1>3 DEF FileRec
  <2>. QED  BY <1>2, <1>3, <2>1, ClosedIs
<1>6. fs' = fs /\ lg' = lg
  BY <1>5 DEF Closed
<1>7. /\ ofile' \in [Process -> [Fd -> File \cup {0}]] /\ ofile'[p][fd] = 0
      /\ \A d \in Fd : d # fd => ofile'[p][d] = ofile[p][d]
      /\ \A q \in Process : q # p => ofile'[q] = ofile[q]
  <2>1. ofile \in [Process -> [Fd -> File \cup {0}]]
    BY <1>1 DEF Tables
  <2>. QED  BY <1>2, <2>1, FdSetIs
<1>8. ASSUME NEW at, NEW m, pc'[p] = at /\ loc'[p] = m, m.call # "exit"
      PROVE  /\ Desc(ofile', pc', loc', p, fd) = 0
             /\ \A d \in Fd : d # fd => Desc(ofile', pc', loc', p, d) = Desc(ofile, pc, loc, p, d)
  BY <1>1, <1>7, <1>8 DEF Desc, Closing
<1>9. CASE \E e : Drops(p, f, s, e, "user", Idle)
  <2>1. PICK e : Drops(p, f, s, e, "user", Idle)
    BY <1>9
  <2>2. Idle.call # "exit"
    BY IdleIs
  <2>3. pc'[p] = "user" /\ loc'[p] = Idle /\ cwd'[p] \in Slot => Doing(p)'
    BY DEF Doing
  <2>. QED  BY <1>1, <1>2, <1>f, <1>s, <1>6, <1>7, <1>8, <2>1, <2>2, <2>3, DropStep
<1>10. CASE \E e : Drops(p, f, s, e, "put", LocIp(l, s))
  <2>m. PICK m : m = LocIp(l, s)
    OBVIOUS
  <2>1. PICK e : Drops(p, f, s, e, "put", m)
    BY <1>10, <2>m
  <2>2. m.call = "close" /\ m.ip \in Slot /\ m.dp = 0
    BY <1>3, <1>4, <2>m, LocIpIs
  <2>3. pc'[p] = "put" /\ loc'[p] = m /\ cwd'[p] \in Slot => Doing(p)'
    BY <2>2 DEF Doing
  <2>4. m.call # "exit"
    BY <2>2
  <2>. QED  BY <1>1, <1>2, <1>f, <1>s, <1>6, <1>7, <1>8, <2>1, <2>3, <2>4, DropStep
<1>. QED  BY <1>1, <1>3, <1>4, <1>5, <1>9, <1>10, <1>s, ClosedDrops

\* exit() closes a descriptor.
LEMMA ExitCloseStep ==
    ASSUME IInv, NEW p \in Process, ExitClose(p)
    PROVE  IInv'
<1>. DEFINE open == {fd \in Fd : ofile[p][fd] # 0}
<1>u. PICK u : u = Min(open)
  OBVIOUS
<1>f. PICK f : f = ofile[p][u]
  OBVIOUS
<1>s. PICK s : s = ftable[f].ip
  OBVIOUS
<1>l. PICK l : l = [Idle EXCEPT !.call = "exit", !.fd = u]
  OBVIOUS
<1>2. /\ Ok(fs) /\ pc[p] = "exit" /\ open # {} /\ FileClose(p, f, l, "exit") /\ cwd' = cwd /\ calls' = calls
      /\ ofile' = IF ftable[f].ref > 1 THEN FdSet(ofile, p, u, 0) ELSE ofile
  BY <1>u, <1>f, <1>l DEF ExitClose, FdSet, Running
<1>0. u \in Fd /\ f # 0
  <2>1. open \in SUBSET Nat
    BY FsAssumption DEF Fd
  <2>2. u \in open
    BY <1>u, <1>2, <2>1, LeastNumber
  <2>. QED  BY <2>2, <1>f
<1>. HIDE DEF open
<1>1. /\ Runs /\ OpFits /\ loc[p] = Idle /\ Tables /\ calls' \in 0..MaxCalls
  <2>1. Runs /\ OpFits
    BY <1>2, RunsNow
  <2>. QED  BY <1>2, <2>1, CloserIs DEF Tables
<1>3. /\ f \in File /\ ftable[f].ref > 0 /\ ftable[f].type = "INODE" /\ s \in Slot /\ ftable[f] \in FileRec
  BY <1>0, <1>1, <1>2, <1>f, <1>s, OpenFile
<1>4. l \in LocRec /\ l.call = "exit" /\ l.dp = 0 /\ l.fd = u
  <2>1. u \in Nat
    BY <1>0, FsAssumption DEF Fd
  <2>2. Idle \in LocRec /\ Idle.dp = 0 /\ "exit" \in Calls
    BY IdleIs DEF Calls
  <2>. QED  BY <1>l, <2>1, <2>2 DEF LocRec
<1>5. Closed(p, f, l, "exit")
  <2>1. ftable[f].ref \in Nat
    BY <1>3 DEF FileRec
  <2>. QED  BY <1>2, <1>3, <2>1, ClosedIs
<1>6. fs' = fs /\ lg' = lg
  BY <1>5 DEF Closed
<1>7. ofile \in [Process -> [Fd -> File \cup {0}]]
  BY <1>1 DEF Tables
<1>9. CASE ftable[f].ref > 1 /\ \E e : Drops(p, f, s, e, "exit", Idle)
  <2>1. PICK e : Drops(p, f, s, e, "exit", Idle)
    BY <1>9
  <2>2. Idle.call # "exit"
    BY IdleIs
  <2>3. pc'[p] = "exit" /\ loc'[p] = Idle /\ cwd'[p] \in Slot => Doing(p)'
    BY DEF Doing
  <2>4. /\ ofile' \in [Process -> [Fd -> File \cup {0}]] /\ ofile'[p][u] = 0
        /\ \A d \in Fd : d # u => ofile'[p][d] = ofile[p][d]
        /\ \A q \in Process : q # p => ofile'[q] = ofile[q]
    BY <1>0, <1>2, <1>7, <1>9, FdSetIs
  <2>5. pc'[p] = "exit" /\ loc'[p] = Idle =>
             /\ Desc(ofile', pc', loc', p, u) = 0
             /\ \A d \in Fd : d # u => Desc(ofile', pc', loc', p, d) = Desc(ofile, pc, loc, p, d)
    BY <1>2, <2>4 DEF Desc, Closing
  <2>. QED  BY <1>0, <1>1, <1>2, <1>f, <1>s, <1>6, <2>1, <2>3, <2>4, <2>5, DropStep
<1>10. CASE ftable[f].ref = 1 /\ \E e : Drops(p, f, s, e, "put", LocIp(l, s))
  <2>m. PICK m : m = LocIp(l, s)
    OBVIOUS
  <2>1. PICK e : Drops(p, f, s, e, "put", m)
    BY <1>10, <2>m
  <2>2. m.call = "exit" /\ m.ip \in Slot /\ m.dp = 0 /\ m.fd = u
    BY <1>3, <1>4, <2>m, LocIpIs
  <2>4. ofile' = ofile
    BY <1>2, <1>10
  <2>3. pc'[p] = "put" /\ loc'[p] = m /\ cwd'[p] \in Slot => Doing(p)'
    BY <1>0, <1>f, <2>2, <2>4 DEF Doing
  <2>5. pc'[p] = "put" /\ loc'[p] = m =>
             /\ Desc(ofile', pc', loc', p, u) = 0
             /\ \A d \in Fd : d # u => Desc(ofile', pc', loc', p, d) = Desc(ofile, pc, loc, p, d)
    BY <1>2, <2>2, <2>4 DEF Desc, Closing
  <2>. QED  BY <1>0, <1>1, <1>2, <1>f, <1>s, <1>6, <1>7, <2>1, <2>3, <2>4, <2>5, DropStep
<1>. QED  BY <1>1, <1>3, <1>4, <1>5, <1>9, <1>10, <1>s, ClosedDrops

\* file_close() has released the inode.
LEMMA ClosePutStep ==
    ASSUME IInv, NEW p \in Process, ClosePut(p)
    PROVE  IInv'
<1>l. PICK l : l = loc[p]
  OBVIOUS
<1>a. PICK at : at = IF l.call = "close" THEN "user" ELSE "exit"
  OBVIOUS
<1>. DEFINE G == iput(fs, l.ip)
<1>0. /\ Ok(fs) /\ pc[p] = "put" /\ SetOp(p, G) /\ Goto(p, at, Idle)
      /\ ofile' = (IF l.call = "close" THEN ofile ELSE FdSet(ofile, p, l.fd, 0))
      /\ cwd' = cwd /\ ftable' = ftable /\ calls' = calls
  BY <1>l, <1>a DEF ClosePut, Running, Return, FdSet
<1>1. Runs /\ OpFits /\ Doing(p) /\ Tables /\ p # NoProc /\ fs \in FsState /\ fs.log = {}
  BY <1>0, RunsNow, RunsIs, FsAssumption
<1>2. /\ l.ip \in Slot /\ l.dp = 0 /\ cwd[p] \in Slot /\ 0 \notin Slot /\ l.call \in {"close", "exit"}
      /\ l.call = "exit" => l.fd \in Fd
  BY <1>0, <1>1, <1>l DEF Doing, Slot
<1>3. \A t \in Slot : fs.ic[t].lock # p
  BY <1>0, <1>1, OwnLocks DEF MayHold
<1>4. Moves(fs, G, l.ip, 0, 0, NoProc)
  BY <1>1, <1>2, <1>3, <1>l, PutIs
<1>. HIDE DEF G
<1>5. G \in FsState /\ G.log = {}
  BY <1>1, <1>4 DEF Moves, Cached, SameDisk
<1>6. /\ fs' = G /\ lg' \in [Process -> SUBSET Nat] /\ OpFits'
      /\ \A q \in Process : q # p => lg'[q] = lg[q]
  BY <1>0, <1>1, <1>5, SetOpIs
<1>7. /\ pc' \in [Process -> Pc] /\ loc' \in [Process -> LocRec] /\ pc'[p] = at /\ loc'[p] = Idle
      /\ \A q \in Process : q # p => pc'[q] = pc[q] /\ loc'[q] = loc[q]
  BY <1>0, <1>1, <1>a, IdleIs, GotoIs DEF Pc
<1>8. ofile \in [Process -> [Fd -> File \cup {0}]] /\ cwd'[p] \in Slot
  BY <1>0, <1>1, <1>2 DEF Tables
<1>9. /\ ofile' \in [Process -> [Fd -> File \cup {0}]]
      /\ \A q \in Process : q # p => ofile'[q] = ofile[q]
      /\ \A d \in Fd : ~Closing(pc, loc, p, d) => ofile'[p][d] = ofile[p][d]
      /\ \A d \in Fd : Closing(pc, loc, p, d) => ofile'[p][d] = 0
  <2>1. CASE l.call = "close"
    BY <1>0, <1>8, <1>l, <2>1 DEF Closing
  <2>2. CASE l.call = "exit"
    <3>1. /\ ofile' \in [Process -> [Fd -> File \cup {0}]] /\ ofile'[p][l.fd] = 0
          /\ \A d \in Fd : d # l.fd => ofile'[p][d] = ofile[p][d]
          /\ \A q \in Process : q # p => ofile'[q] = ofile[q]
      BY <1>0, <1>2, <1>8, <2>2, FdSetIs
    <3>2. \A d \in Fd : Closing(pc, loc, p, d) <=> d = l.fd
      BY <1>0, <1>l, <2>2 DEF Closing
    <3>. QED  BY <3>1, <3>2
  <2>. QED  BY <1>2, <2>1, <2>2
<1>10. Alone(p) /\ Tables'
  <2>1. Alone(p)
    BY <1>0, <1>6, <1>7, <1>9 DEF Alone
  <2>. QED  BY <1>0, <1>1, <1>6, <1>7, <1>9, <2>1 DEF Tables
<1>11. Doing(p)' /\ Logged(p)'
  BY <1>7, <1>8, <1>a DEF Doing, Logged
<1>12. \A t \in Slot : Gain(l.ip, 0, t) = Gain(cwd[p], cwd'[p], t) + Gain(loc[p].ip, loc'[p].ip, t)
                                            + Gain(loc[p].dp, loc'[p].dp, t)
  BY <1>0, <1>2, <1>7, <1>l, IdleIs DEF Gain, One
<1>13. ASSUME NEW t \in Slot, fs'.ic[t].lock = p PROVE FALSE
  BY <1>2, <1>3, <1>4, <1>6, <1>13 DEF Moves
<1>14. FRefs'
  <2>1. ASSUME NEW q \in Process, NEW d \in Fd
        PROVE  Desc(ofile', pc', loc', q, d) = Desc(ofile, pc, loc, q, d)
    <3>1. CASE q # p
      BY <1>10, <3>1 DEF Alone, Desc, Closing
    <3>2. CASE q = p
      <4>1. ~Closing(pc', loc', p, d)
        BY <1>7, <1>a DEF Closing
      <4>. QED  BY <1>9, <3>2, <4>1 DEF Desc
    <3>. QED  BY <3>1, <3>2
  <2>2. \A f \in File : ftable[f].ref = FileRefs(ofile, pc, loc, f)
    BY <1>1, RunsRefs DEF FRefs
  <2>3. ASSUME NEW f \in File PROVE ftable'[f].ref = FileRefs(ofile', pc', loc', f)
    <3>1. FileRefs(ofile', pc', loc', f) = FileRefs(ofile, pc, loc, f)
      BY <2>1, DescSame
    <3>. QED  BY <1>0, <2>2, <3>1
  <2>. QED  BY <2>3 DEF FRefs
<1>15. pc[p] # "link" /\ pc'[p] # "link"
  BY <1>0, <1>7, <1>a
<1>16. Runs'
  BY <1>0, <1>1, <1>2, <1>4, <1>6, <1>10, <1>11, <1>12, <1>13, <1>14, <1>15, CacheMove
<1>. QED  BY <1>6, <1>16, RunsStep

\* The descriptors of p for file f.
FdsOf(o, p, f) == {fd \in Fd : o[p][fd] = f}
\* All descriptors of a new process are counted.
LEMMA DescRow ==
    ASSUME NEW of, NEW pcs, NEW lcs, NEW og, NEW pct, NEW lct, NEW f, NEW q \in Process,
           \A r \in Process, fd \in Fd : r # q => Desc(og, pct, lct, r, fd) = Desc(of, pcs, lcs, r, fd),
           \A fd \in Fd : Desc(of, pcs, lcs, q, fd) # f, NEW A \in SUBSET Fd,
           \A fd \in Fd : Desc(og, pct, lct, q, fd) = f <=> fd \in A
    PROVE  FileRefs(og, pct, lct, f) = FileRefs(of, pcs, lcs, f) + Cardinality(A) /\ Cardinality(A) \in Nat
<1>. DEFINE X == Descs(of, pcs, lcs, f)
            Y == Descs(og, pct, lct, f)
            Z == {q} \X A
            S == Process \X Fd
<1>1. /\ X \subseteq S /\ Y \subseteq S
  BY DEF Descs
<1>2. Y = X \cup Z
  <2>1. ASSUME NEW e \in S PROVE e \in Y <=> e \in X \cup Z
    <3>1. e[1] \in Process /\ e[2] \in Fd /\ e = <<e[1], e[2]>>
      OBVIOUS
    <3>2. CASE e[1] = q
      BY <3>1, <3>2 DEF Descs
    <3>3. CASE e[1] # q
      BY <3>1, <3>3 DEF Descs
    <3>. QED  BY <3>2, <3>3
  <2>2. Z \subseteq S
    OBVIOUS
  <2>. QED  BY <1>1, <2>1, <2>2
<1>3. X \cap Z = {}
  <2>1. ASSUME NEW e, e \in X, e \in Z PROVE FALSE
    <3>1. e[1] = q /\ e[2] \in Fd
      BY <2>1
    <3>. QED  BY <2>1, <3>1 DEF Descs
  <2>. QED  BY <2>1
<1>4. IsFiniteSet(S) /\ IsFiniteSet(Fd) /\ IsFiniteSet(A)
  BY Finite, FS_Subset, Zenon
<1>5. FileRefs(of, pcs, lcs, f) = Cardinality(X) /\ FileRefs(og, pct, lct, f) = Cardinality(Y)
  BY DEF FileRefs
<1>6. IsFiniteSet({q}) /\ Cardinality({q}) = 1
  BY FS_Singleton, Zenon
<1>7. Cardinality(Z) = Cardinality({q}) * Cardinality(A) /\ IsFiniteSet(Z)
  BY <1>4, <1>6, FS_Product, Zenon
<1>8. Cardinality(A) \in Nat
  BY <1>4, FS_CardinalityType, Zenon
<1>9. Cardinality(Z) = Cardinality(A)
  BY <1>6, <1>7, <1>8
<1>. HIDE DEF X, Y, Z, S
<1>10. IsFiniteSet(X)
  BY <1>1, <1>4, FS_Subset, Zenon
<1>11. Cardinality(X) \in Nat
  BY <1>10, FS_CardinalityType, Zenon
<1>12. Cardinality(X \cup Z) = Cardinality(X) + Cardinality(Z) - Cardinality(X \cap Z)
  BY <1>7, <1>10, FS_Union, Zenon
<1>13. Cardinality(X \cap Z) = 0
  BY <1>3, FS_EmptySet, Zenon
<1>. QED  BY <1>2, <1>5, <1>8, <1>9, <1>11, <1>12, <1>13

\* The files after fork().
Forked(t, o, p) == [f \in File |-> [t[f] EXCEPT !.ref = @ + Cardinality({fd \in Fd : o[p][fd] = f})]]
ForkOK(t, o, p, u) ==
    /\ u \in [File -> FileRec]
    /\ \A f \in File : /\ u[f].type = t[f].type /\ u[f].ip = t[f].ip /\ u[f].w = t[f].w
                       /\ u[f].ref = t[f].ref + Cardinality(FdsOf(o, p, f))
                       /\ Cardinality(FdsOf(o, p, f)) \in Nat
                       /\ Cardinality(FdsOf(o, p, f)) > 0 => \E fd \in Fd : o[p][fd] = f
\* Only the counts change.
LEMMA ForkedIs ==
    ASSUME NEW t \in [File -> FileRec], NEW o, NEW p
    PROVE  ForkOK(t, o, p, Forked(t, o, p))
<1>u. PICK u : u = Forked(t, o, p)
  OBVIOUS
<1>1. ASSUME NEW f \in File
      PROVE  /\ Cardinality(FdsOf(o, p, f)) \in Nat
             /\ Cardinality(FdsOf(o, p, f)) > 0 => \E fd \in Fd : o[p][fd] = f
  <2>1. FdsOf(o, p, f) \in SUBSET Fd
    BY DEF FdsOf
  <2>2. IsFiniteSet(FdsOf(o, p, f))
    BY <2>1, Finite, FS_Subset, Zenon
  <2>3. Cardinality(FdsOf(o, p, f)) \in Nat
    BY <2>2, FS_CardinalityType, Zenon
  <2>4. FdsOf(o, p, f) = {} => Cardinality(FdsOf(o, p, f)) = 0
    BY FS_EmptySet
  <2>5. FdsOf(o, p, f) # {} => \E fd \in Fd : o[p][fd] = f
    BY DEF FdsOf
  <2>. QED  BY <2>3, <2>4, <2>5
<1>2. ASSUME NEW f \in File, NEW n \in Nat, NEW e, e = [t[f] EXCEPT !.ref = @ + n]
      PROVE  /\ e \in FileRec /\ e.type = t[f].type /\ e.ip = t[f].ip /\ e.w = t[f].w /\ e.ref = t[f].ref + n
  <2>1. t[f] \in [ref : Nat, type : {"NONE", "INODE"}, ip : Slot \cup {0}, off : Nat, r : BOOLEAN, w : BOOLEAN]
    BY DEF FileRec
  <2>. QED  BY <1>2, <2>1 DEF FileRec
<1>3. \A f \in File : u[f] = [t[f] EXCEPT !.ref = @ + Cardinality(FdsOf(o, p, f))]
  BY <1>u DEF Forked, FdsOf
<1>4. ASSUME NEW f \in File
      PROVE  /\ u[f] \in FileRec /\ u[f].type = t[f].type /\ u[f].ip = t[f].ip /\ u[f].w = t[f].w
             /\ u[f].ref = t[f].ref + Cardinality(FdsOf(o, p, f))
  BY <1>1, <1>2, <1>3, ZenonT(30)
<1>5. u = [f \in File |-> u[f]]
  BY <1>u DEF Forked
<1>6. u \in [File -> FileRec]
  BY <1>4, <1>5
<1>. QED  BY <1>1, <1>4, <1>6, <1>u DEF ForkOK

\* fork().
LEMMA ForkStep ==
    ASSUME IInv, NEW p \in Process, NEW q \in Process, Fork(p, q)
    PROVE  IInv'
<1>s. PICK s : s = cwd[p]
  OBVIOUS
<1>0. /\ Ok(fs) /\ pc[p] = "user" /\ pc[q] = "none" /\ ftable' = Forked(ftable, ofile, p)
      /\ ofile' = [ofile EXCEPT ![q] = ofile[p]] /\ cwd' = [cwd EXCEPT ![q] = s]
      /\ fs' = idup(fs, s) /\ pc' = [pc EXCEPT ![q] = "user"] /\ lg' = lg /\ loc' = loc /\ calls' = calls
      /\ p # q
  BY <1>s DEF Fork, Running, Forked
<1>1. /\ Runs /\ OpFits /\ Doing(p) /\ Doing(q) /\ Tables /\ q # NoProc /\ Cached(fs)
  BY <1>0, RunsNow, RunsIs, FsAssumption
<1>2. /\ s \in Slot /\ cwd[q] = 0 /\ loc[q] = Idle /\ (\A fd \in Fd : ofile[q][fd] = 0) /\ 0 \notin Slot
      /\ loc[p] = Idle
  BY <1>0, <1>1, <1>s DEF Doing, Slot
<1>3. fs.ic[s].ref > 0
  BY <1>1, <1>2, <1>s, RunsIs, InUse DEF Runs
<1>4. Moves(fs, fs', 0, s, 0, NoProc)
  BY <1>0, <1>1, <1>2, <1>3, IdupIs
<1>5. /\ ftable \in [File -> FileRec] /\ ofile \in [Process -> [Fd -> File \cup {0}]]
      /\ cwd \in [Process -> Slot \cup {0}] /\ pc \in [Process -> Pc]
  BY <1>1 DEF Tables
<1>6. /\ ftable' \in [File -> FileRec]
      /\ \A f \in File : /\ ftable'[f].type = ftable[f].type /\ ftable'[f].ip = ftable[f].ip
                         /\ ftable'[f].w = ftable[f].w
                         /\ ftable'[f].ref = ftable[f].ref + Cardinality(FdsOf(ofile, p, f))
                         /\ Cardinality(FdsOf(ofile, p, f)) \in Nat
                         /\ Cardinality(FdsOf(ofile, p, f)) > 0 => \E fd \in Fd : ofile[p][fd] = f
  <2>1. ForkOK(ftable, ofile, p, Forked(ftable, ofile, p))
    BY <1>5, ForkedIs
  <2>2. ForkOK(ftable, ofile, p, ftable')
    BY <1>0, <2>1
  <2>. QED  BY <2>2 DEF ForkOK
<1>7. /\ ofile' \in [Process -> [Fd -> File \cup {0}]] /\ ofile'[q] = ofile[p]
      /\ \A r \in Process : r # q => ofile'[r] = ofile[r]
  BY <1>0, <1>5
<1>8. /\ cwd' \in [Process -> Slot \cup {0}] /\ cwd'[q] = s /\ \A r \in Process : r # q => cwd'[r] = cwd[r]
  BY <1>0, <1>2, <1>5
<1>9. /\ pc' \in [Process -> Pc] /\ pc'[q] = "user" /\ \A r \in Process : r # q => pc'[r] = pc[r]
  BY <1>0, <1>5 DEF Pc
<1>10. Alone(q) /\ Tables' /\ OpFits'
  <2>1. Alone(q)
    BY <1>0, <1>7, <1>8, <1>9 DEF Alone
  <2>2. Tables'
    BY <1>0, <1>1, <1>6, <1>7, <1>8, <1>9 DEF Tables
  <2>. QED  BY <1>0, <1>1, <2>1, <2>2 DEF OpFits
<1>11. Frame(fs, fs', q)
  BY <1>1, <1>2, <1>4, MovesFrame
<1>12. Doing(q)' /\ Logged(q)'
  BY <1>0, <1>2, <1>8, <1>9 DEF Doing, Logged
<1>13. FilesStay
  BY <1>6 DEF FilesStay
<1>14. ASSUME NEW f \in File PROVE FileOK(f)'
  <2>1. ftable[f].ref \in Nat
    BY <1>5 DEF FileRec
  <2>2. ASSUME NEW fd \in Fd, ofile[p][fd] = f PROVE ftable[f].ref > 0
    <3>1. f # 0
      BY DEF File
    <3>. QED  BY <1>0, <1>1, <2>2, <3>1, OpenFile
  <2>3. ftable'[f].ref > 0 <=> ftable[f].ref > 0
    BY <1>6, <2>1, <2>2
  <2>. QED  BY <1>1, <1>6, <1>11, <2>3, OthersFile
<1>15. FRefs'
  <2>1. ASSUME NEW f \in File PROVE ftable'[f].ref = FileRefs(ofile', pc', loc', f)
    <3>1. ASSUME NEW r \in Process, NEW fd \in Fd, r # q
          PROVE  Desc(ofile', pc', loc', r, fd) = Desc(ofile, pc, loc, r, fd)
      BY <1>0, <1>7, <1>9, <3>1 DEF Desc, Closing
    <3>2. f # 0
      BY DEF File
    <3>3. \A fd \in Fd : Desc(ofile, pc, loc, q, fd) # f
      BY <1>0, <1>2, <3>2 DEF Desc, Closing
    <3>4. FdsOf(ofile, p, f) \in SUBSET Fd
      BY DEF FdsOf
    <3>5. \A fd \in Fd : Desc(ofile', pc', loc', q, fd) = f <=> fd \in FdsOf(ofile, p, f)
      BY <1>7, <1>9 DEF Desc, Closing, FdsOf
    <3>6. FileRefs(ofile', pc', loc', f) = FileRefs(ofile, pc, loc, f) + Cardinality(FdsOf(ofile, p, f))
      BY <3>1, <3>3, <3>4, <3>5, DescRow
    <3>7. ftable[f].ref = FileRefs(ofile, pc, loc, f)
      BY <1>1, RunsRefs DEF FRefs
    <3>. QED  BY <1>6, <3>6, <3>7
  <2>. QED  BY <2>1 DEF FRefs
<1>16. IRefs'
  <2>1. ASSUME NEW t \in Slot
        PROVE  fs'.ic[t].ref = fs.ic[t].ref + Gain(cwd[q], cwd'[q], t)
                + Gain(loc[q].ip, loc'[q].ip, t) + Gain(loc[q].dp, loc'[q].dp, t)
    <3>1. fs'.ic[t].ref = fs.ic[t].ref + One(s, t) - One(0, t)
      BY <1>4 DEF Moves
    <3>2. fs.ic[t].ref \in Nat /\ t # 0
      BY <1>1, <1>2, RunsIs, EntryIs
    <3>. QED  BY <1>0, <1>2, <1>8, <3>1, <3>2 DEF Gain, One
  <2>2. \A g \in File : FileIp(ftable'[g]) = FileIp(ftable[g])
    BY <1>6 DEF FileIp
  <2>. QED  BY <1>1, <1>10, <2>1, <2>2, RefsMove0
<1>17. Cached(fs') /\ fs'.di = fs.di /\ fs'.data = fs.data /\ fs'.used = fs.used /\ fs'.log = {}
  BY <1>1, <1>4, RunsIs DEF Moves, SameDisk
<1>18. Orphans' = Orphans
  BY <1>0, <1>1, <1>9, <1>10, <1>11, OthersOrphans
<1>19. Blocks(fs'.di, fs'.data, fs'.used) /\ Whole(fs'.di, fs'.data) /\ Tree(fs'.di, fs'.data, Orphans')
  BY <1>1, <1>17, <1>18, RunsIs
<1>20. ASSUME NEW t \in Slot, fs'.ic[t].lock = q PROVE FALSE
  <2>1. fs.ic[t].lock = q
    BY <1>2, <1>4, <1>20 DEF Moves
  <2>2. MayHold(pc, loc, q, t)
    BY <1>1, <2>1, OwnLocks
  <2>. QED  BY <1>0, <2>2 DEF MayHold
<1>21. Runs'
  BY <1>1, <1>10, <1>11, <1>12, <1>13, <1>14, <1>15, <1>16, <1>17, <1>19, <1>20, StepLive
<1>. QED  BY <1>10, <1>21, RunsStep

-----------------------------------------------------------------------------
(* Steps that write to the disk *)

\* The end of a step: what was logged goes to the transaction.
Cleared(G) == [G EXCEPT !.log = {}]

\* Nothing but the log is emptied.
LEMMA ClearedIs ==
    ASSUME NEW G \in FsState
    PROVE  Fields(Cleared(G), G.di, G.data, G.used, G.ic, {}, G.panic)
<1>1. G \in [di : Inodes, data : Datas, used : SUBSET (0..(FSSIZE - 1)), ic : [Slot -> InodeRec],
             log : SUBSET Nat, panic : Reason]
  BY DEF FsState
<1>. QED  BY <1>1 DEF Cleared, Fields, FsState

\* A whole transaction.
LEMMA SetOpLog ==
    ASSUME Runs, OpFits, NEW p \in Process, NEW G \in FsState, AtMost(G.log, MaxLogged), SetOp(p, G)
    PROVE  /\ fs' = Cleared(G) /\ lg' \in [Process -> SUBSET Nat] /\ lg'[p] = G.log /\ OpFits'
           /\ \A q \in Process : q # p => lg'[q] = lg[q]
<1>1. fs' = Cleared(G) /\ lg' = [lg EXCEPT ![p] = G.log]
  BY DEF SetOp, Cleared
<1>2. G.log \in SUBSET Nat /\ lg \in [Process -> SUBSET Nat]
  BY RunsIs DEF FsState, Tables
<1>3. /\ lg' \in [Process -> SUBSET Nat] /\ lg'[p] = G.log
      /\ \A q \in Process : q # p => lg'[q] = lg[q]
  BY <1>1, <1>2
<1>4. ASSUME NEW q \in Process PROVE Cardinality(lg'[q]) <= MaxLogged
  <2>1. CASE q = p
    BY <1>3, <2>1 DEF AtMost
  <2>2. CASE q # p
    BY <1>3, <2>2 DEF OpFits
  <2>. QED  BY <2>1, <2>2
<1>. QED  BY <1>1, <1>3, <1>4 DEF OpFits

\* A part of a transaction.
LEMMA SetLog ==
    ASSUME Runs, OpFits, NEW p \in Process, NEW G \in FsState, AtMost(lg[p] \cup G.log, MaxLogged), Set(p, G)
    PROVE  /\ fs' = Cleared(G) /\ lg' \in [Process -> SUBSET Nat] /\ lg'[p] = lg[p] \cup G.log /\ OpFits'
           /\ \A q \in Process : q # p => lg'[q] = lg[q]
<1>1. fs' = Cleared(G) /\ lg' = [lg EXCEPT ![p] = lg[p] \cup G.log]
  BY DEF Set, Cleared
<1>2. G.log \in SUBSET Nat /\ lg \in [Process -> SUBSET Nat]
  BY RunsIs DEF FsState, Tables
<1>3. /\ lg' \in [Process -> SUBSET Nat] /\ lg'[p] = lg[p] \cup G.log
      /\ \A q \in Process : q # p => lg'[q] = lg[q]
  BY <1>1, <1>2
<1>4. ASSUME NEW q \in Process PROVE Cardinality(lg'[q]) <= MaxLogged
  <2>1. CASE q = p
    BY <1>3, <2>1 DEF AtMost
  <2>2. CASE q # p
    BY <1>3, <2>2 DEF OpFits
  <2>. QED  BY <2>1, <2>2
<1>. QED  BY <1>1, <1>3, <1>4 DEF OpFits

\* The disk is full.
LEMMA DiskFullStep ==
    ASSUME NEW G \in FsState, DiskFull(G), OneEntry(G.ic), fs' = Cleared(G), Tables', OpFits'
    PROVE  IInv'
<1>1. Fields(fs', G.di, G.data, G.used, G.ic, {}, G.panic)
  BY ClearedIs
<1>2. fs' \in FsState /\ fs'.log = {} /\ OneEntry(fs'.ic) /\ fs'.panic = "balloc" /\ fs'.used = 0..(FSSIZE - 1)
  BY <1>1 DEF Fields, DiskFull
<1>3. ~Ok(fs')
  BY <1>2 DEF Ok
<1>4. OnlyFullTablesPanic'
  BY <1>2 DEF OnlyFullTablesPanic
<1>. QED  BY <1>2, <1>3, <1>4, PanicStep

\* An inode that nobody has locked has its entry.
LEMMA NotOrphan ==
    ASSUME Runs, NEW s \in Slot, fs.ic[s].ref > 0,
           \A q \in Process : pc[q] = "link" => s # loc[q].ip
    PROVE  fs.ic[s].inum \notin Orphans
<1>. SUFFICES ASSUME fs.ic[s].inum \in Orphans PROVE FALSE
  OBVIOUS
<1>1. PICK q \in Process : pc[q] = "link" /\ fs.ic[s].inum = fs.ic[loc[q].ip].inum
  BY DEF Orphans
<1>2. loc[q].ip \in Slot /\ fs.ic[loc[q].ip].lock = q
  BY <1>1, RunsIs DEF Doing
<1>3. fs.ic[loc[q].ip].ref > 0
  BY <1>2, RunsIs, FsAssumption DEF Cached, CacheOK
<1>4. s = loc[q].ip
  BY <1>1, <1>2, <1>3, RunsIs DEF Cached, OneEntry
<1>. QED  BY <1>1, <1>4

\* iunlock() after a panic changes nothing.
LEMMA StoppedUnlock ==
    ASSUME NEW F, ~Ok(F), NEW s, NEW p
    PROVE  iunlock(F, s, p) = F
BY Stopped

\* From F to G a file was written, all else is the same.
ChunkDone(F, G, O) ==
    /\ Cached(G) /\ Blocks(G.di, G.data, G.used) /\ Whole(G.di, G.data)
    /\ SameTree(F.di, F.data, G.di, G.data) /\ Tree(G.di, G.data, O)
    /\ \A t \in Slot : /\ G.ic[t].ref = F.ic[t].ref /\ G.ic[t].lock = F.ic[t].lock
                       /\ F.ic[t].ref > 0 => G.ic[t].inum = F.ic[t].inum

\* filewrite() of one chunk: with the disk full it panics, and otherwise the
\* file system is consistent again, within the blocks that the chunk may log.
LEMMA ChunkIs ==
    ASSUME Runs, NEW p \in Process, NEW s \in Slot, fs.ic[s].ref > 0, fs.ic[s].lock = NoProc, ~DirAt(fs, s),
           NEW off \in Nat, NEW cells \in Seq(Cell), NEW k \in Nat, Len(cells) <= k * BSIZE,
           NEW L, L = ilock(fs, s, p), NEW w, w = writei(L, s, off, cells), NEW G, G = iunlock(w.fs, s, p)
    PROVE  /\ G \in FsState /\ AtMost(G.log, k + 4) /\ OneEntry(G.ic)
           /\ DiskFull(G) \/ ChunkDone(fs, G, Orphans)
<1>i. PICK i : i = fs.ic[s].inum
  OBVIOUS
<1>O. PICK O : O = Orphans
  OBVIOUS
<1>1. LockedBy(fs, L, s, p)
  BY LockIs
<1>2. /\ Cached(L) /\ Holder(L, s) /\ L.ic[s].inum = i /\ L.ic[s].ino = fs.di[i] /\ L.di = fs.di /\ L.data = fs.data
      /\ L.log = {} /\ L.ic[s].lock = p /\ Moves(fs, L, 0, 0, s, p)
  BY <1>1, <1>i, RunsIs DEF LockedBy
<1>3. i \in Inum /\ fs.di[i].type # "0" /\ fs.di[i].type # "DIR" /\ p # NoProc /\ fs \in FsState
  BY <1>i, RunsIs, FsAssumption DEF Cached, CacheOK, DirAt
<1>4. Tree(L.di, L.data, O) /\ i \notin O
  <2>1. \A q \in Process : pc[q] = "link" => s # loc[q].ip
    <3>1. ASSUME NEW q \in Process, pc[q] = "link" PROVE s # loc[q].ip
      <4>1. Doing(q) /\ q # NoProc
        BY RunsIs, FsAssumption
      <4>2. fs.ic[loc[q].ip].lock = q
        BY <3>1, <4>1 DEF Doing
      <4>. QED  BY <4>1, <4>2
    <3>. QED  BY <3>1
  <2>. QED  BY <1>2, <1>i, <1>O, <2>1, RunsIs, NotOrphan
<1>5. CASE Fits(L, s, off, cells)
  <2>1. Wrote(L, w.fs, s, i, off, cells)
    BY <1>2, <1>3, <1>5, WriteiIs
  <2>2. w.fs \in FsState /\ AtMost(w.fs.log, k + 4) /\ Kept(L.ic, w.fs.ic, s)
    <3>1. AtMost(w.fs.log, k + 4)
      BY <1>2, <2>1, WriteLog
    <3>. QED  BY <2>1, <3>1 DEF Wrote
  <2>3. \A t \in Slot : /\ w.fs.ic[t].inum = L.ic[t].inum /\ w.fs.ic[t].ref = L.ic[t].ref
                        /\ w.fs.ic[t].lock = L.ic[t].lock
    BY <2>2 DEF Kept
  <2>4. OneEntry(w.fs.ic)
    BY <1>2, <2>3 DEF Cached, OneEntry
  <2>5. CASE DiskFull(w.fs)
    <3>1. ~Ok(w.fs)
      BY <2>5 DEF DiskFull, Ok
    <3>2. G = w.fs
      BY ONLY <3>1, StoppedUnlock, G = iunlock(w.fs, s, p)
    <3>. QED  BY <2>2, <2>4, <2>5, <3>2
  <2>6. CASE ~DiskFull(w.fs)
    <3>1. Cached(w.fs)
      BY <1>2, <2>1, <2>6, WroteCached
    <3>2. WroteAll(L, w.fs, i, off, cells)
      BY <2>1, <2>6 DEF Wrote
    <3>3. Blocks(w.fs.di, w.fs.data, w.fs.used) /\ Whole(w.fs.di, w.fs.data)
      BY <3>2 DEF WroteAll
    <3>4. SameTree(L.di, L.data, w.fs.di, w.fs.data) /\ Tree(w.fs.di, w.fs.data, O)
      BY <1>2, <1>3, <1>4, <2>1, <2>6, WriteTree
    <3>5. w.fs.ic[s].lock = p /\ p # NoProc
      BY <1>2, <1>3, <2>3
    <3>6. Moves(w.fs, G, 0, 0, s, NoProc)
      BY <3>1, <3>5, IunlockIs
    <3>7. /\ Cached(G) /\ G.di = w.fs.di /\ G.data = w.fs.data /\ G.used = w.fs.used /\ G.log = w.fs.log
      BY <3>6 DEF Moves, SameDisk
    <3>8. ASSUME NEW t \in Slot
          PROVE  /\ G.ic[t].ref = fs.ic[t].ref /\ G.ic[t].lock = fs.ic[t].lock
                 /\ fs.ic[t].ref > 0 => G.ic[t].inum = fs.ic[t].inum
      <4>1. /\ L.ic[t].ref = fs.ic[t].ref + One(0, t) - One(0, t)
            /\ L.ic[t].lock = (IF t = s THEN p ELSE fs.ic[t].lock)
            /\ fs.ic[t].ref > 0 => L.ic[t].inum = fs.ic[t].inum
        BY <1>2 DEF Moves
      <4>2. /\ G.ic[t].ref = w.fs.ic[t].ref + One(0, t) - One(0, t)
            /\ G.ic[t].lock = (IF t = s THEN NoProc ELSE w.fs.ic[t].lock)
            /\ w.fs.ic[t].ref > 0 => G.ic[t].inum = w.fs.ic[t].inum
        BY <3>6 DEF Moves
      <4>3. fs.ic[t].ref \in Nat /\ One(0, t) \in Nat
        BY <1>3, EntryIs DEF One
      <4>4. L.ic[t].ref = fs.ic[t].ref /\ w.fs.ic[t].ref = fs.ic[t].ref /\ G.ic[t].ref = fs.ic[t].ref
        BY <2>3, <4>1, <4>2, <4>3
      <4>. QED  BY <2>3, <4>1, <4>2, <4>4
    <3>9. ChunkDone(fs, G, O)
      BY <1>2, <3>3, <3>4, <3>7, <3>8 DEF ChunkDone
    <3>. QED  BY <1>O, <2>2, <3>7, <3>9 DEF Cached
  <2>. QED  BY <2>5, <2>6
<1>6. CASE ~Fits(L, s, off, cells)
  <2>1. w.fs = L
    BY <1>2, <1>3, <1>6, WriteiIs
  <2>2. Moves(fs, G, 0, 0, s, NoProc)
    BY <1>1, <2>1, LockUnlock
  <2>3. /\ Cached(G) /\ G.di = fs.di /\ G.data = fs.data /\ G.used = fs.used /\ G.log = {}
    BY <2>2, RunsIs DEF Moves, SameDisk
  <2>4. ASSUME NEW t \in Slot
        PROVE  /\ G.ic[t].ref = fs.ic[t].ref /\ G.ic[t].lock = fs.ic[t].lock
               /\ fs.ic[t].ref > 0 => G.ic[t].inum = fs.ic[t].inum
    <3>1. fs.ic[t].ref \in Nat /\ One(0, t) \in Nat
      BY <1>3, EntryIs DEF One
    <3>. QED  BY <2>2, <3>1 DEF Moves
  <2>5. SameTree(fs.di, fs.data, G.di, G.data)
    BY <2>3 DEF SameTree
  <2>6. ChunkDone(fs, G, O)
    BY <1>O, <2>3, <2>4, <2>5, RunsIs DEF ChunkDone
  <2>7. AtMost(G.log, k + 4)
    <3>1. IsFiniteSet({}) /\ Cardinality({}) = 0
      BY FS_EmptySet
    <3>. QED  BY <2>3, <3>1 DEF AtMost
  <2>. QED  BY <1>O, <2>3, <2>6, <2>7 DEF Cached
<1>. QED  BY <1>5, <1>6

\* The cache is sound without the log.
LEMMA ClearedCached ==
    ASSUME NEW G, Cached(G)
    PROVE  /\ Cached(Cleared(G)) /\ Cleared(G).di = G.di /\ Cleared(G).data = G.data /\ Cleared(G).used = G.used
           /\ Cleared(G).ic = G.ic /\ Cleared(G).log = {}
<1>1. Fields(Cleared(G), G.di, G.data, G.used, G.ic, {}, G.panic)
  BY ClearedIs DEF Cached
<1>. QED  BY <1>1 DEF Cached, Fields, Ok

\* The others do not notice a write to a file.
LEMMA ChunkFrame ==
    ASSUME Runs, NEW p \in Process, NEW O, ChunkDone(fs, fs', O)
    PROVE  Frame(fs, fs', p)
<1>1. SameTree(fs.di, fs.data, fs'.di, fs'.data)
  BY DEF ChunkDone
<1>2. \A t \in Slot : /\ fs'.ic[t].ref = fs.ic[t].ref /\ fs'.ic[t].lock = fs.ic[t].lock
                      /\ fs.ic[t].ref > 0 => fs'.ic[t].inum = fs.ic[t].inum
  BY DEF ChunkDone
<1>3. \A i \in Inum : fs'.di[i].type = fs.di[i].type
  BY <1>1 DEF SameTree
<1>4. ASSUME NEW t \in Slot, NEW name, fs.ic[t].lock \notin {p, NoProc}, DirAt(fs, t), Absent(fs, t, name)
      PROVE  Absent(fs', t, name)
  <2>d. PICK d : d = fs.ic[t].inum
    OBVIOUS
  <2>1. fs.ic[t].ref > 0
    BY <1>4, RunsIs DEF Cached, CacheOK
  <2>2. d \in Inum /\ fs'.ic[t].inum = d
    BY <1>2, <2>1, <2>d, RunsIs DEF Cached, CacheOK
  <2>3. d \in DirSet(fs.di)
    BY <1>4, <2>2, <2>d DEF DirAt, DirSet
  <2>4. /\ Offs(fs'.di, d) = Offs(fs.di, d)
        /\ \A x \in Offs(fs.di, d) : At(fs'.di, fs'.data, d, x) = At(fs.di, fs.data, d, x)
    BY <1>1, <2>3 DEF SameTree, Offs
  <2>5. NoName(fs.di, fs.data, d, name)
    BY <1>4, <2>d DEF Absent
  <2>6. NoName(fs'.di, fs'.data, d, name)
    BY <2>4, <2>5 DEF NoName
  <2>. QED  BY <2>2, <2>6 DEF Absent
<1>. QED  BY <1>2, <1>3, <1>4 DEF Frame

\* The length of a chunk.
LEMMA ChunkLen ==
    ASSUME NEW n \in Nat, NEW n1, n1 = IF n > MaxChunk THEN MaxChunk ELSE n
    PROVE  \E k \in Nat : n1 \in Nat /\ n1 <= n /\ n1 <= k * BSIZE /\ k + 4 <= MaxLogged
<1>k. PICK k : k = (MAXOPBLOCKS - 4) \div 2
  OBVIOUS
<1>1. k \in Nat /\ k + 4 <= MaxLogged
  BY <1>k, FsAssumption DEF MaxLogged
<1>2. MaxChunk = k * BSIZE /\ k * BSIZE \in Nat
  BY <1>k, <1>1, Layout DEF MaxChunk
<1>3. n1 \in Nat /\ n1 <= n /\ n1 <= k * BSIZE
  BY <1>2
<1>. QED  BY <1>1, <1>3

\* The data of a chunk.
LEMMA ChunkCells ==
    ASSUME NEW n \in Nat, NEW cells, cells = [i \in 1..n |-> Pair("x", 0)]
    PROVE  cells \in Seq(Cell) /\ Len(cells) = n
<1>1. Pair("x", 0) \in Cell
  <2>1. "x" \in Name
    BY DEF Name
  <2>2. 0 \in 0..(FSSIZE - 1)
    BY Layout
  <2>. QED  BY <2>1, <2>2 DEF Pair, Cell
<1>. QED  BY <1>1

\* What is left to write.
IovSet(l, v) == [l EXCEPT !.iov = v]

\* The rest of the local variables is as before.
LEMMA IovSetIs ==
    ASSUME NEW l \in LocRec, NEW v \in Seq(Nat), NEW m, m = IovSet(l, v)
    PROVE  m \in LocRec /\ m.ip = l.ip /\ m.dp = l.dp /\ m.f = l.f /\ m.iov = v
BY DEF IovSet, LocRec

\* What is left after a chunk is again a list of lengths.
LEMMA MoreIs ==
    ASSUME NEW v \in Seq(Nat), v # <<>>, NEW n1 \in Nat, NEW ok, NEW m,
           m = (IF ok /\ n1 < Head(v) THEN [v EXCEPT ![1] = Head(v) - n1] ELSE Tail(v))
    PROVE  m \in Seq(Nat)
<1>1. Head(v) \in Nat /\ Tail(v) \in Seq(Nat)
  OBVIOUS
<1>2. CASE ok /\ n1 < Head(v)
  <2>1. Head(v) - n1 \in Nat
    BY <1>1, <1>2
  <2>. QED  BY <1>2, <2>1
<1>3. CASE ~(ok /\ n1 < Head(v))
  BY <1>1, <1>3
<1>. QED  BY <1>2, <1>3

\* One round of file_write().
LEMMA WriteChunkStep ==
    ASSUME IInv, NEW p \in Process, WriteChunk(p)
    PROVE  IInv'
<1>l. PICK l : l = loc[p]
  OBVIOUS
<1>f. PICK f : f = l.f
  OBVIOUS
<1>s. PICK s : s = ftable[f].ip
  OBVIOUS
<1>n. PICK n1 : n1 = IF Head(l.iov) > MaxChunk THEN MaxChunk ELSE Head(l.iov)
  OBVIOUS
<1>c. PICK cells : cells = [i \in 1..n1 |-> Pair("x", 0)]
  OBVIOUS
<1>L. PICK L : L = ilock(fs, s, p)
  OBVIOUS
<1>w. PICK w : w = writei(L, s, ftable[f].off, cells)
  OBVIOUS
<1>G. PICK G : G = iunlock(w.fs, s, p)
  OBVIOUS
<1>v. PICK more : more = IF w.ok /\ n1 < Head(l.iov) THEN [l.iov EXCEPT ![1] = Head(l.iov) - n1] ELSE Tail(l.iov)
  OBVIOUS
<1>k. PICK off : off = IF w.ok THEN ftable[f].off + n1 ELSE ftable[f].off
  OBVIOUS
<1>0. /\ Ok(fs) /\ pc[p] = "write" /\ fs.ic[s].lock = NoProc /\ SetOp(p, G)
      /\ ftable' = OffSet(ftable, f, off)
      /\ IF more = <<>> THEN Goto(p, "user", Idle) ELSE Goto(p, "write", IovSet(l, more))
      /\ ofile' = ofile /\ cwd' = cwd /\ calls' = calls
  BY <1>l, <1>f, <1>s, <1>n, <1>c, <1>L, <1>w, <1>G, <1>v, <1>k, ZenonT(30) DEF WriteChunk, Running, Unlocked, Return, OffSet, IovSet, Pair
<1>1. Runs /\ OpFits /\ Doing(p) /\ Tables /\ p # NoProc /\ fs \in FsState /\ fs.log = {}
  BY <1>0, RunsNow, RunsIs, FsAssumption
<1>2. /\ l \in LocRec /\ l.ip = 0 /\ l.dp = 0 /\ f \in File /\ l.iov # <<>> /\ cwd[p] \in Slot
      /\ ftable[f].w /\ \E fd \in Fd : ofile[p][fd] = f
  BY <1>0, <1>1, <1>l, <1>f DEF Doing, Tables
<1>3. l.iov \in Seq(Nat)
  BY <1>2 DEF LocRec
<1>4. /\ ftable[f].ref > 0 /\ s \in Slot /\ fs.ic[s].ref > 0 /\ ~DirAt(fs, s) /\ ftable[f] \in FileRec /\ f # 0
  <2>1. PICK fd \in Fd : ofile[p][fd] = f
    BY <1>2
  <2>2. f # 0 /\ pc[p] # "put"
    BY <1>0, <1>2 DEF File
  <2>. QED  BY <1>1, <1>2, <1>s, <2>1, <2>2, OpenFile
<1>5. Head(l.iov) \in Nat
  BY <1>2, <1>3
<1>6. PICK k \in Nat : n1 \in Nat /\ n1 <= k * BSIZE /\ k + 4 <= MaxLogged
  BY <1>5, <1>n, ChunkLen
<1>7. cells \in Seq(Cell) /\ Len(cells) = n1
  BY <1>6, <1>c, ChunkCells
<1>8. ftable[f].off \in Nat /\ off \in Nat
  BY <1>4, <1>6, <1>k DEF FileRec
<1>9. /\ G \in FsState /\ AtMost(G.log, k + 4) /\ OneEntry(G.ic)
      /\ DiskFull(G) \/ ChunkDone(fs, G, Orphans)
  BY <1>0, <1>1, <1>4, <1>6, <1>7, <1>8, <1>L, <1>w, <1>G, ChunkIs
<1>10. AtMost(G.log, MaxLogged)
  BY <1>6, <1>9, LoggedBound DEF AtMost
<1>11. /\ fs' = Cleared(G) /\ lg' \in [Process -> SUBSET Nat] /\ OpFits'
       /\ \A q \in Process : q # p => lg'[q] = lg[q]
  BY <1>0, <1>1, <1>9, <1>10, SetOpLog
<1>12. /\ ftable' \in [File -> FileRec] /\ \A g \in File : g # f => ftable'[g] = ftable[g]
       /\ ftable'[f].type = ftable[f].type /\ ftable'[f].ip = ftable[f].ip /\ ftable'[f].w = ftable[f].w
       /\ ftable'[f].ref = ftable[f].ref
  <2>1. ftable \in [File -> FileRec] /\ ftable' = OffSet(ftable, f, off)
    BY <1>0, <1>1 DEF Tables
  <2>2. f \in File /\ off \in Nat
    BY <1>2, <1>8
  <2>. QED  BY <2>1, <2>2, OffIs
<1>13. more \in Seq(Nat)
  BY <1>2, <1>3, <1>6, <1>v, MoreIs
<1>14. PICK at, m : /\ Goto(p, at, m) /\ m \in LocRec /\ m.ip = 0 /\ m.dp = 0
                    /\ \/ at = "user" /\ m = Idle
                       \/ at = "write" /\ m.f = f /\ m.iov # <<>>
  <2>1. CASE more = <<>>
    BY <1>0, <2>1, IdleIs
  <2>2. CASE more # <<>>
    BY <1>0, <1>2, <1>13, <1>f, <2>2, IovSetIs
  <2>. QED  BY <2>1, <2>2
<1>15. /\ pc' \in [Process -> Pc] /\ loc' \in [Process -> LocRec] /\ pc'[p] = at /\ loc'[p] = m
       /\ \A q \in Process : q # p => pc'[q] = pc[q] /\ loc'[q] = loc[q]
  <2>1. at \in Pc
    BY <1>14 DEF Pc
  <2>. QED  BY <1>1, <1>14, <2>1, GotoIs
<1>16. Alone(p) /\ Tables'
  <2>1. Alone(p)
    BY <1>0, <1>11, <1>15 DEF Alone
  <2>2. ofile \in [Process -> [Fd -> File \cup {0}]] /\ cwd \in [Process -> Slot \cup {0}] /\ calls \in 0..MaxCalls
    BY <1>1 DEF Tables
  <2>3. Tables'
    BY <1>0, <1>11, <1>12, <1>15, <2>2 DEF Tables
  <2>. QED  BY <2>1, <2>3
<1>17. CASE DiskFull(G)
  BY <1>9, <1>11, <1>16, <1>17, DiskFullStep
<1>18. CASE ChunkDone(fs, G, Orphans)
  <2>1. /\ Cached(fs') /\ fs'.di = G.di /\ fs'.data = G.data /\ fs'.used = G.used /\ fs'.ic = G.ic /\ fs'.log = {}
    BY <1>11, <1>18, ClearedCached DEF ChunkDone
  <2>2. ChunkDone(fs, fs', Orphans)
    BY <1>18, <2>1 DEF ChunkDone
  <2>3. Frame(fs, fs', p)
    BY <1>1, <2>2, ChunkFrame
  <2>4. FilesStay
    BY <1>12 DEF FilesStay
  <2>5. Orphans' = Orphans
    BY <1>0, <1>1, <1>14, <1>15, <1>16, <2>3, OthersOrphans
  <2>6. ASSUME NEW g \in File PROVE FileOK(g)'
    BY <1>1, <1>12, <2>3, OthersFile
  <2>7. FRefs'
    <3>1. \A g \in File : ftable'[g].ref = ftable[g].ref
      BY <1>12
    <3>. QED  BY <1>0, <1>1, <1>14, <1>15, <1>16, <3>1, FRefsSame
  <2>8. IRefs'
    <3>1. ASSUME NEW t \in Slot
          PROVE  fs'.ic[t].ref = fs.ic[t].ref + Gain(cwd[p], cwd'[p], t)
                  + Gain(loc[p].ip, loc'[p].ip, t) + Gain(loc[p].dp, loc'[p].dp, t)
      <4>1. fs'.ic[t].ref = fs.ic[t].ref /\ fs.ic[t].ref \in Nat
        BY <1>1, <2>2, EntryIs DEF ChunkDone
      <4>2. cwd'[p] = cwd[p] /\ loc'[p].ip = loc[p].ip /\ loc'[p].dp = loc[p].dp
        BY <1>0, <1>2, <1>14, <1>15, <1>l
      <4>. QED  BY <4>1, <4>2 DEF Gain, One
    <3>2. \A g \in File : FileIp(ftable'[g]) = FileIp(ftable[g])
      BY <1>12 DEF FileIp
    <3>. QED  BY <1>1, <1>16, <3>1, <3>2, RefsMove0
  <2>9. Blocks(fs'.di, fs'.data, fs'.used) /\ Whole(fs'.di, fs'.data) /\ Tree(fs'.di, fs'.data, Orphans')
    BY <2>2, <2>5 DEF ChunkDone
  <2>10. Doing(p)' /\ Logged(p)'
    <3>1. cwd'[p] \in Slot /\ \E fd \in Fd : ofile'[p][fd] = f
      BY <1>0, <1>2
    <3>2. ftable'[f].w
      BY <1>2, <1>12
    <3>. QED  BY <1>2, <1>14, <1>15, <3>1, <3>2 DEF Doing, Logged
  <2>11. ASSUME NEW t \in Slot, fs'.ic[t].lock = p PROVE FALSE
    <3>1. fs.ic[t].lock = p
      BY <2>2, <2>11 DEF ChunkDone
    <3>2. MayHold(pc, loc, p, t)
      BY <1>1, <3>1, OwnLocks
    <3>. QED  BY <1>0, <3>2 DEF MayHold
  <2>12. Runs'
    BY <1>1, <1>16, <2>1, <2>3, <2>4, <2>6, <2>7, <2>8, <2>9, <2>10, <2>11, StepLive
  <2>. QED  BY <1>11, <2>12, RunsStep
<1>. QED  BY <1>9, <1>17, <1>18

\* The types create() makes.
LEMMA TypeOfIs ==
    ASSUME NEW call \in Creates
    PROVE  TypeOf(call) \in Types3 /\ (TypeOf(call) = "DIR" <=> call = "mkdir") /\ (call = "creat" => TypeOf(call) = "FILE")
BY DEF TypeOf, Creates, Types3

\* What create() holds before it allocates the inode.
LEMMA NewIs ==
    ASSUME IInv, NEW p \in Process, Running(p, "new")
    PROVE  /\ Runs /\ OpFits /\ Tables /\ p # NoProc /\ fs \in FsState /\ fs.log = {} /\ Cached(fs) /\ Ok(fs)
           /\ loc[p] \in LocRec /\ loc[p].call \in Creates /\ loc[p].ip = 0 /\ loc[p].dp \in Slot
           /\ Len(loc[p].path) = 1 /\ DirAt(fs, loc[p].dp) /\ fs.ic[loc[p].dp].lock = p
           /\ Absent(fs, loc[p].dp, Last(loc[p].path)) /\ cwd[p] \in Slot /\ pc[p] = "new" /\ lg[p] = {}
           /\ fs.ic[loc[p].dp].ref > 0
<1>1. Ok(fs) /\ pc[p] = "new"
  BY DEF Running
<1>2. /\ Runs /\ OpFits /\ Tables /\ p # NoProc /\ fs \in FsState /\ fs.log = {} /\ Cached(fs)
      /\ Doing(p)
  BY <1>1, RunsNow, RunsIs, FsAssumption
<1>3. /\ loc[p].call \in Creates /\ loc[p].ip = 0 /\ loc[p].dp \in Slot /\ cwd[p] \in Slot
      /\ Len(loc[p].path) = 1 /\ DirAt(fs, loc[p].dp) /\ fs.ic[loc[p].dp].lock = p
      /\ Absent(fs, loc[p].dp, Last(loc[p].path))
  BY <1>1, <1>2 DEF Doing
<1>4. Logged(p)
  BY <1>2 DEF Runs, Live
<1>5. lg[p] = {}
  BY <1>1, <1>4 DEF Logged
<1>6. fs.ic[loc[p].dp].ref > 0
  BY <1>2, <1>3 DEF Cached, CacheOK
<1>. QED  BY <1>1, <1>2, <1>3, <1>5, <1>6 DEF Tables

\* One block at most.
LEMMA OneAtMost ==
    ASSUME NEW x
    PROVE  AtMost({}, MaxLogged) /\ AtMost({x}, MaxLogged)
<1>1. IsFiniteSet({}) /\ Cardinality({}) = 0 /\ IsFiniteSet({x}) /\ Cardinality({x}) = 1
  BY FS_EmptySet, FS_Singleton
<1>. QED  BY <1>1, LoggedBound DEF AtMost

\* ialloc() panics: no inode is free, or no entry of the cache.
LEMMA AllocFails ==
    ASSUME IInv, NEW p \in Process, Running(p, "new"), NEW type \in Types3, NEW r, IallocIs(fs, r, type), r.s = 0,
           Set(p, r.fs), UNCHANGED <<pc, loc>>, UNCHANGED <<tables, calls>>
    PROVE  IInv'
<1>1. /\ Runs /\ OpFits /\ Tables /\ Cached(fs) /\ fs \in FsState /\ fs.log = {} /\ lg[p] = {} /\ 0 \notin Slot
  BY NewIs DEF Slot
<1>2. ftable' = ftable /\ ofile' = ofile /\ cwd' = cwd /\ calls' = calls /\ pc' = pc /\ loc' = loc
  BY DEF tables
<1>3. ASSUME lg' \in [Process -> SUBSET Nat] PROVE Tables'
  BY <1>1, <1>2, <1>3 DEF Tables
<1>G. PICK G : G = r.fs
  OBVIOUS
<1>4. CASE NoneFree(fs, r)
  <2>1. /\ G \in FsState /\ G.log = {} /\ G.ic = fs.ic /\ G.di = fs.di /\ G.panic = "ialloc"
        /\ \A i \in Inum : fs.di[i].type # "0"
    BY <1>1, <1>4, <1>G DEF NoneFree, Fields
  <2>2. fs' = G /\ lg' = lg /\ OpFits'
    BY <1>1, <1>G, <2>1, SetIs
  <2>3. Tables'
    BY <1>1, <1>3, <2>2 DEF Tables
  <2>4. OnlyFullTablesPanic'
    BY <2>1, <2>2 DEF OnlyFullTablesPanic
  <2>5. OneEntry(fs'.ic) /\ ~Ok(fs')
    BY <1>1, <2>1, <2>2 DEF Cached, Ok
  <2>. QED  BY <2>1, <2>2, <2>3, <2>4, <2>5, PanicStep
<1>5. ASSUME NEW i \in Inum, fs.di[i].type = "0", NoEntry(Claimed(fs, i, type), r) PROVE IInv'
  <2>F. PICK F : F = Claimed(fs, i, type)
    OBVIOUS
  <2>1. Cached(F) /\ ClaimIs(fs, F, i, type)
    BY <1>1, <1>5, <2>F, ClaimSound
  <2>2. F.ic = fs.ic /\ F.log = {IBLOCK(i)}
    BY <1>1, <2>1 DEF ClaimIs, Fields
  <2>3. /\ G \in FsState /\ G.log = {IBLOCK(i)} /\ G.ic = fs.ic /\ G.panic = "iget"
        /\ \A t \in Slot : fs.ic[t].ref > 0
    BY <1>5, <1>G, <2>F, <2>2 DEF NoEntry, Fields
  <2>4. AtMost(lg[p] \cup G.log, MaxLogged)
    BY <1>1, <2>3, OneAtMost
  <2>5. fs' = Cleared(G) /\ lg' \in [Process -> SUBSET Nat] /\ OpFits'
    BY <1>1, <1>G, <2>3, <2>4, SetLog
  <2>6. Fields(fs', G.di, G.data, G.used, G.ic, {}, G.panic)
    BY <2>3, <2>5, ClearedIs
  <2>7. FullCache(fs')
    BY <1>1, <2>3, <2>6 DEF FullCache, Fields, Ok, Cached
  <2>. QED  BY <1>3, <2>5, <2>7, FullCacheStep
<1>6. ASSUME NEW i \in Inum, GotEntry(Claimed(fs, i, type), r, i) PROVE FALSE
  BY <1>1, <1>6 DEF GotEntry
<1>. QED  BY <1>4, <1>5, <1>6 DEF IallocIs

\* The new inodes of the others.
Others(p) == {fs.ic[loc[q].ip].inum : q \in {r \in Process : r # p /\ pc[r] = "link"}}

\* They stay.
LEMMA OthersStay ==
    ASSUME Runs, NEW p \in Process, Frame(fs, fs', p), Alone(p)
    PROVE  Others(p)' = Others(p)
<1>. DEFINE A == {r \in Process : r # p /\ pc[r] = "link"}
<1>1. {r \in Process : r # p /\ pc'[r] = "link"} = A
  BY DEF Alone
<1>2. ASSUME NEW q \in A
      PROVE  fs'.ic[loc'[q].ip].inum = fs.ic[loc[q].ip].inum
  <2>1. q \in Process /\ q # p /\ pc[q] = "link" /\ loc'[q] = loc[q]
    BY DEF Alone
  <2>2. loc[q].ip \in Slot
    BY <2>1, RunsIs DEF Doing
  <2>3. fs.ic[loc[q].ip].ref > 0
    BY <2>1, <2>2, RunsIs, InUse DEF Runs
  <2>. QED  BY <2>1, <2>2, <2>3 DEF Frame
<1>3. {fs'.ic[loc'[q].ip].inum : q \in {r \in Process : r # p /\ pc'[r] = "link"}} = {fs'.ic[loc'[q].ip].inum : q \in A}
  BY <1>1
<1>. HIDE DEF A
<1>4. {fs'.ic[loc'[q].ip].inum : q \in A} = {fs.ic[loc[q].ip].inum : q \in A}
  BY <1>2
<1>. QED  BY <1>3, <1>4 DEF Others, A

\* The new inodes and that of p.
LEMMA OwnOrphan ==
    ASSUME NEW p \in Process
    PROVE  /\ pc[p] = "link" => Orphans = Others(p) \cup {fs.ic[loc[p].ip].inum}
           /\ pc[p] # "link" => Orphans = Others(p)
BY DEF Orphans, Others

\* The same after the step.
LEMMA OwnOrphanNext ==
    ASSUME NEW p \in Process
    PROVE  /\ pc'[p] = "link" => Orphans' = Others(p)' \cup {fs'.ic[loc'[p].ip].inum}
           /\ pc'[p] # "link" => Orphans' = Others(p)'
BY DEF Orphans, Others

\* The others do not notice a new inode.
LEMMA BornFrame ==
    ASSUME Runs, NEW p \in Process, NEW s \in Slot, NEW i \in Inum, Born(fs.di, fs'.di, i),
           fs'.data = fs.data, fs.ic[s].ref = 0, Gained(fs, fs', s, p)
    PROVE  Frame(fs, fs', p)
<1>1. /\ s \in Slot /\ i \in Inum /\ Born(fs.di, fs'.di, i) /\ fs'.data = fs.data /\ fs.ic[s].ref = 0
      /\ Gained(fs, fs', s, p)
  OBVIOUS
<1>2. \A t \in Slot : /\ fs'.ic[t].lock = IF t = s THEN p ELSE fs.ic[t].lock
                      /\ fs.ic[t].ref > 0 => fs'.ic[t].inum = fs.ic[t].inum
  BY <1>1 DEF Gained
<1>3. \A j \in Inum : fs.di[j].type # "0" => fs'.di[j] = fs.di[j]
  BY <1>1 DEF Born
<1>4. fs.ic[s].lock = NoProc
  BY <1>1, RunsIs DEF Cached, CacheOK
<1>5. ASSUME NEW t \in Slot, NEW name, fs.ic[t].lock \notin {p, NoProc}, DirAt(fs, t), Absent(fs, t, name)
      PROVE  Absent(fs', t, name)
  <2>d. PICK d : d = fs.ic[t].inum
    OBVIOUS
  <2>1. fs.ic[t].ref > 0
    BY <1>5, RunsIs DEF Cached, CacheOK
  <2>2. d \in Inum /\ fs'.ic[t].inum = d
    BY <1>2, <2>1, <2>d, RunsIs DEF Cached, CacheOK
  <2>3. fs'.di[d] = fs.di[d]
    BY <1>3, <1>5, <2>2, <2>d DEF DirAt
  <2>4. /\ Offs(fs'.di, d) = Offs(fs.di, d)
        /\ \A x \in Offs(fs.di, d) : At(fs'.di, fs'.data, d, x) = At(fs.di, fs.data, d, x)
    BY <1>1, <2>3 DEF Offs, At, Blk
  <2>5. NoName(fs.di, fs.data, d, name)
    BY <1>5, <2>d DEF Absent
  <2>6. NoName(fs'.di, fs'.data, d, name)
    BY <2>4, <2>5 DEF NoName
  <2>. QED  BY <2>2, <2>6 DEF Absent
<1>. QED  BY <1>2, <1>3, <1>4, <1>5 DEF Frame

\* What clears the log keeps.
LEMMA CreatedCleared ==
    ASSUME Runs, NEW p \in Process, NEW G, NEW s, NEW i, NEW type, Created(fs, G, s, p, i, type),
           NEW H, H = Cleared(G)
    PROVE  /\ Cached(H) /\ H.log = {} /\ Created(fs, G, s, p, i, type) /\ H.di = G.di /\ H.data = G.data
           /\ H.used = G.used /\ H.ic = G.ic /\ G.log = {IBLOCK(i)} /\ G \in FsState
<1>1. Cached(G) /\ G.log = {IBLOCK(i)}
  BY RunsIs DEF Created
<1>2. G \in FsState
  BY <1>1 DEF Cached
<1>. QED  BY <1>1, <1>2, ClearedCached

\* The frame and the disk after the allocation.
LEMMA AllocDisk ==
    ASSUME Runs, NEW p \in Process, NEW G, NEW s, NEW i, NEW type, Created(fs, G, s, p, i, type),
           fs' = Cleared(G)
    PROVE  /\ Frame(fs, fs', p) /\ Cached(fs') /\ fs'.log = {}
           /\ Blocks(fs'.di, fs'.data, fs'.used) /\ Whole(fs'.di, fs'.data)
           /\ Tree(fs'.di, fs'.data, Orphans \cup {i})
           /\ fs'.di[i].type = type /\ fs'.ic[s].inum = i /\ Gained(fs, fs', s, p) /\ fs.ic[s].ref = 0
           /\ s \in Slot /\ i \in Inum
<1>1. /\ Cached(fs') /\ fs'.log = {} /\ fs'.di = G.di /\ fs'.data = G.data /\ fs'.used = G.used /\ fs'.ic = G.ic
  BY CreatedCleared
<1>2. /\ s \in Slot /\ i \in Inum /\ Born(fs.di, G.di, i) /\ G.di[i].type = type /\ G.data = fs.data
      /\ G.ic[s].inum = i /\ fs.ic[s].ref = 0 /\ Gained(fs, G, s, p) /\ G.used = fs.used
  BY DEF Created
<1>3. Gained(fs, fs', s, p)
  BY <1>1, <1>2 DEF Gained
<1>4. Frame(fs, fs', p)
  <2>1. \A t \in Slot : /\ fs'.ic[t].lock = IF t = s THEN p ELSE fs.ic[t].lock
                        /\ fs.ic[t].ref > 0 => fs'.ic[t].inum = fs.ic[t].inum
    BY <1>3 DEF Gained
  <2>. QED  BY <1>1, <1>2, <1>3, BornFrame
<1>5. Blocks(G.di, G.data, G.used) /\ Whole(G.di, G.data)
  BY RunsIs, CreatedBlocks
<1>6. Tree(G.di, fs.data, Orphans \cup {i})
  BY <1>2, RunsIs, TreeAlloc
<1>. QED  BY <1>1, <1>2, <1>3, <1>4, <1>5, <1>6

\* The new inode is allocated and locked.
LEMMA AllocDone ==
    ASSUME IInv, NEW p \in Process, Running(p, "new"), NEW G, NEW s, NEW i,
           Created(fs, G, s, p, i, TypeOf(loc[p].call)),
           Set(p, G), Goto(p, "link", LocIp(loc[p], s)), UNCHANGED <<tables, calls>>
    PROVE  IInv'
<1>l. PICK l : l = loc[p]
  OBVIOUS
<1>m. PICK m : m = LocIp(l, s)
  OBVIOUS
<1>1. /\ Runs /\ OpFits /\ Tables /\ p # NoProc /\ l \in LocRec /\ l.call \in Creates /\ l.ip = 0 /\ l.dp \in Slot
      /\ Len(l.path) = 1 /\ DirAt(fs, l.dp) /\ fs.ic[l.dp].lock = p /\ fs.ic[l.dp].ref > 0
      /\ Absent(fs, l.dp, Last(l.path)) /\ cwd[p] \in Slot /\ pc[p] = "new" /\ lg[p] = {} /\ fs \in FsState
  BY <1>l, NewIs
<1>2. ftable' = ftable /\ ofile' = ofile /\ cwd' = cwd /\ calls' = calls
  BY DEF tables
<1>3. G \in FsState /\ G.log = {IBLOCK(i)}
  BY <1>1, CreatedCleared
<1>4. /\ fs' = Cleared(G) /\ lg' \in [Process -> SUBSET Nat] /\ lg'[p] = {IBLOCK(i)} /\ OpFits'
      /\ \A q \in Process : q # p => lg'[q] = lg[q]
  <2>1. AtMost(lg[p] \cup G.log, MaxLogged)
    BY <1>1, <1>3, OneAtMost
  <2>2. lg[p] \cup G.log = {IBLOCK(i)}
    BY <1>1, <1>3
  <2>. QED  BY <1>1, <1>3, <2>1, <2>2, SetLog
<1>5. /\ Frame(fs, fs', p) /\ Cached(fs') /\ fs'.log = {}
      /\ Blocks(fs'.di, fs'.data, fs'.used) /\ Whole(fs'.di, fs'.data)
      /\ Tree(fs'.di, fs'.data, Orphans \cup {i})
      /\ fs'.di[i].type = TypeOf(l.call) /\ fs'.ic[s].inum = i /\ Gained(fs, fs', s, p) /\ fs.ic[s].ref = 0
      /\ s \in Slot /\ i \in Inum
  <2>T. PICK type : type = TypeOf(l.call)
    OBVIOUS
  <2>1. Runs /\ fs' = Cleared(G) /\ Created(fs, G, s, p, i, type)
    BY <1>1, <1>4, <1>l, <2>T
  <2>. QED  BY <2>1, <2>T, AllocDisk
<1>6. m \in LocRec /\ m.ip = s /\ m.dp = l.dp /\ m.call = l.call /\ m.path = l.path
  <2>1. l \in LocRec /\ s \in Slot
    BY <1>1, <1>5, Zenon
  <2>. QED  BY <1>m, <2>1, LocIpIs
<1>7. /\ pc' \in [Process -> Pc] /\ loc' \in [Process -> LocRec] /\ pc'[p] = "link" /\ loc'[p] = m
      /\ \A q \in Process : q # p => pc'[q] = pc[q] /\ loc'[q] = loc[q]
  <2>1. "link" \in Pc /\ Goto(p, "link", m)
    BY <1>l, <1>m DEF Pc
  <2>. QED  BY <1>1, <1>6, <2>1, GotoIs
<1>8. Alone(p)
  BY <1>2, <1>4, <1>7 DEF Alone
<1>9. Tables'
  <2>1. /\ ftable \in [File -> FileRec] /\ ofile \in [Process -> [Fd -> File \cup {0}]]
        /\ cwd \in [Process -> Slot \cup {0}] /\ calls \in 0..MaxCalls
    BY <1>1 DEF Tables
  <2>. QED  BY <1>2, <1>4, <1>7, <2>1 DEF Tables
<1>10. FilesStay
  BY <1>2 DEF FilesStay
<1>11. Orphans' = Orphans \cup {i}
  <2>1. Orphans = Others(p)
    BY <1>1, OwnOrphan
  <2>2. Orphans' = Others(p)' \cup {fs'.ic[loc'[p].ip].inum}
    BY <1>7, OwnOrphanNext
  <2>3. Others(p)' = Others(p)
    BY <1>1, <1>5, <1>8, OthersStay
  <2>4. fs'.ic[loc'[p].ip].inum = i
    BY <1>5, <1>6, <1>7
  <2>. QED  BY <2>1, <2>2, <2>3, <2>4
<1>12. ASSUME NEW g \in File PROVE FileOK(g)'
  BY <1>1, <1>2, <1>5, OthersFile
<1>13. FRefs'
  <2>1. \A g \in File : ftable'[g].ref = ftable[g].ref
    BY <1>2
  <2>. QED  BY <1>1, <1>2, <1>7, <1>8, <2>1, FRefsSame
<1>14. IRefs'
  <2>1. ASSUME NEW t \in Slot
        PROVE  fs'.ic[t].ref = fs.ic[t].ref + Gain(cwd[p], cwd'[p], t)
                + Gain(loc[p].ip, loc'[p].ip, t) + Gain(loc[p].dp, loc'[p].dp, t)
    <3>1. fs'.ic[t].ref = fs.ic[t].ref + One(s, t) - One(0, t) /\ fs.ic[t].ref \in Nat
      BY <1>1, <1>5, EntryIs DEF Gained
    <3>2. cwd'[p] = cwd[p] /\ loc'[p].ip = s /\ loc[p].ip = 0 /\ loc'[p].dp = loc[p].dp
      BY <1>1, <1>2, <1>6, <1>7, <1>l
    <3>. QED  BY <3>1, <3>2 DEF Gain, One
  <2>2. \A g \in File : FileIp(ftable'[g]) = FileIp(ftable[g])
    BY <1>2
  <2>. QED  BY <1>1, <1>8, <2>1, <2>2, RefsMove0
<1>15. \A t \in Slot : fs'.ic[t].lock = IF t = s THEN p ELSE fs.ic[t].lock
  BY <1>5 DEF Gained
<1>16. s # l.dp
  BY <1>1, <1>5
<1>17. fs'.ic[l.dp].lock = p /\ fs'.ic[s].lock = p
  BY <1>1, <1>5, <1>15
<1>d. PICK d : d = fs.ic[l.dp].inum
  OBVIOUS
<1>18. d \in Inum /\ fs'.ic[l.dp].inum = d /\ fs.di[d].type = "DIR" /\ d # i /\ fs'.di[d] = fs.di[d] /\ fs'.data = fs.data
  <2>1. Born(fs.di, G.di, i) /\ G.data = fs.data
    BY DEF Created
  <2>2. fs'.di = G.di /\ fs'.data = G.data
    BY <1>1, <1>4, CreatedCleared
  <2>3. d \in Inum /\ fs.di[d].type = "DIR"
    BY <1>1, <1>d, RunsIs DEF Cached, CacheOK, DirAt
  <2>4. fs'.ic[l.dp].inum = d
    BY <1>1, <1>5, <1>d DEF Frame
  <2>. QED  BY <2>1, <2>2, <2>3, <2>4 DEF Born
<1>19. DirAt(fs', l.dp) /\ Absent(fs', l.dp, Last(l.path))
  <2>1. NoName(fs.di, fs.data, d, Last(l.path))
    BY <1>1, <1>d DEF Absent
  <2>2. /\ Offs(fs'.di, d) = Offs(fs.di, d)
        /\ \A x \in Offs(fs.di, d) : At(fs'.di, fs'.data, d, x) = At(fs.di, fs.data, d, x)
    BY <1>18 DEF Offs, At, Blk
  <2>3. NoName(fs'.di, fs'.data, d, Last(l.path))
    BY <2>1, <2>2 DEF NoName
  <2>. QED  BY <1>18, <2>3 DEF DirAt, Absent
<1>20. Doing(p)'
  <2>1. cwd'[p] \in Slot
    BY <1>1, <1>2
  <2>. QED  BY <1>1, <1>5, <1>6, <1>7, <1>16, <1>17, <1>19, <2>1 DEF Doing
<1>21. Logged(p)'
  BY <1>4, <1>5, <1>6, <1>7 DEF Logged
<1>22. ASSUME NEW t \in Slot, fs'.ic[t].lock = p PROVE MayHold(pc', loc', p, t)
  <2>1. CASE t = s
    BY <1>6, <1>7, <2>1 DEF MayHold
  <2>2. CASE t # s
    <3>1. fs.ic[t].lock = p
      BY <1>15, <1>22, <2>2
    <3>2. MayHold(pc, loc, p, t)
      BY <1>1, <3>1, OwnLocks
    <3>3. t = l.dp
      BY <1>1, <1>l, <3>2 DEF MayHold
    <3>. QED  BY <1>6, <1>7, <3>3 DEF MayHold
  <2>. QED  BY <2>1, <2>2
<1>23. Tree(fs'.di, fs'.data, Orphans')
  BY <1>5, <1>11
<1>24. Runs'
  BY <1>1, <1>5, <1>8, <1>9, <1>10, <1>12, <1>13, <1>14, <1>20, <1>21, <1>22, <1>23, StepLive
<1>. QED  BY <1>4, <1>24, RunsStep

\* ialloc() and the fields of the new inode.
LEMMA CreateAllocStep ==
    ASSUME IInv, NEW p \in Process, CreateAlloc(p)
    PROVE  IInv'
<1>r. PICK r : r = ialloc(fs, TypeOf(loc[p].call))
  OBVIOUS
<1>T. PICK type : type = TypeOf(loc[p].call)
  OBVIOUS
<1>1. /\ Running(p, "new") /\ UNCHANGED <<tables, calls>>
      /\ \/ r.s = 0 /\ Set(p, r.fs) /\ UNCHANGED <<pc, loc>>
         \/ /\ r.s # 0 /\ Set(p, Fresh(ilock(r.fs, r.s, p), r.s, loc[p].call))
            /\ Goto(p, "link", LocIp(loc[p], r.s))
  BY <1>r DEF CreateAlloc, LocIp
<1>2. /\ Runs /\ Cached(fs) /\ loc[p].call \in Creates
  BY <1>1, NewIs
<1>3. type \in Types3
  BY <1>2, <1>T, TypeOfIs
<1>4. IallocIs(fs, r, type)
  BY <1>2, <1>3, <1>r, <1>T, IallocDoes
<1>5. CASE r.s = 0 /\ Set(p, r.fs) /\ UNCHANGED <<pc, loc>>
  BY <1>1, <1>3, <1>4, <1>5, AllocFails
<1>6. CASE /\ r.s # 0 /\ Set(p, Fresh(ilock(r.fs, r.s, p), r.s, loc[p].call))
           /\ Goto(p, "link", LocIp(loc[p], r.s))
  <2>1. PICK i \in Inum : fs.di[i].type = "0" /\ GotEntry(Claimed(fs, i, type), r, i)
    BY <1>4, <1>6 DEF IallocIs, NoneFree, NoEntry
  <2>G. PICK G : G = Fresh(ilock(r.fs, r.s, p), r.s, loc[p].call)
    OBVIOUS
  <2>2. Created(fs, G, r.s, p, i, type)
    BY <1>2, <1>3, <2>1, <2>G, FreshIs
  <2>. QED  BY <1>1, <1>6, <1>T, <2>2, <2>G, AllocDone
<1>. QED  BY <1>1, <1>5, <1>6

\* What create() holds before it links the inode.
LinkHas(p, l, i, d) ==
    /\ l \in LocRec /\ l.call \in Creates /\ l.ip \in Slot /\ l.dp \in Slot /\ l.ip # l.dp
    /\ i = fs.ic[l.ip].inum /\ d = fs.ic[l.dp].inum /\ i \in Inum /\ d \in Inum /\ i # d
    /\ fs.ic[l.ip].lock = p /\ fs.ic[l.dp].lock = p /\ fs.ic[l.ip].ref > 0 /\ fs.ic[l.dp].ref > 0
    /\ fs.di[d].type = "DIR" /\ fs.di[i].type = TypeOf(l.call) /\ Len(l.path) = 1
    /\ NoName(fs.di, fs.data, d, Last(l.path)) /\ lg[p] \subseteq {IBLOCK(i)} /\ cwd[p] \in Slot

\* What create() has established when it comes to dirlink().
LEMMA ToLink ==
    ASSUME IInv, NEW p \in Process, Running(p, "link"), NEW l, l = loc[p],
           NEW i, i = fs.ic[l.ip].inum, NEW d, d = fs.ic[l.dp].inum
    PROVE  Runs /\ OpFits /\ Tables /\ p # NoProc /\ fs \in FsState /\ pc[p] = "link" /\ LinkHas(p, l, i, d)
<1>1. Ok(fs) /\ pc[p] = "link"
  BY DEF Running
<1>2. /\ Runs /\ OpFits /\ Tables /\ p # NoProc /\ fs \in FsState /\ Cached(fs) /\ Doing(p)
  BY <1>1, RunsNow, RunsIs, FsAssumption
<1>3. /\ l.call \in Creates /\ l.ip \in Slot /\ l.dp \in Slot /\ l.ip # l.dp
      /\ fs.ic[l.ip].lock = p /\ fs.ic[l.dp].lock = p /\ Len(l.path) = 1 /\ cwd[p] \in Slot
      /\ DirAt(fs, l.dp) /\ Absent(fs, l.dp, Last(l.path)) /\ fs.di[i].type = TypeOf(l.call)
  BY <1>1, <1>2 DEF Doing
<1>4. Logged(p)
  BY <1>2 DEF Runs, Live
<1>5. lg[p] \subseteq {IBLOCK(i)}
  BY <1>1, <1>4 DEF Logged
<1>6. fs.ic[l.dp].ref > 0 /\ fs.ic[l.ip].ref > 0 /\ i \in Inum /\ d \in Inum
  BY <1>2, <1>3 DEF Cached, CacheOK
<1>7. i # d
  BY <1>2, <1>3, <1>6 DEF Cached, OneEntry
<1>8. l \in LocRec
  BY <1>2 DEF Tables
<1>9. fs.di[d].type = "DIR" /\ NoName(fs.di, fs.data, d, Last(l.path))
  BY <1>3 DEF DirAt, Absent
<1>. QED  BY <1>1, <1>2, <1>3, <1>5, <1>6, <1>7, <1>8, <1>9 DEF LinkHas

\* From F to G inode i got its entry in d, and the entries a and b were unlocked and dropped.
Hooked(F, G, i, d, O, a, b) ==
    /\ Cached(G) /\ Blocks(G.di, G.data, G.used) /\ Whole(G.di, G.data) /\ Tree(G.di, G.data, O \ {i})
    /\ \A j \in Inum : G.di[j].type = F.di[j].type
    /\ \A j \in Inum \ {i, d} : G.di[j].size = F.di[j].size
    /\ \A j \in Inum \ {i, d} : \A y \in Offs(F.di, j) : At(G.di, G.data, j, y) = At(F.di, F.data, j, y)
    /\ \A t \in Slot : /\ G.ic[t].ref = F.ic[t].ref - One(a, t) - One(b, t)
                       /\ G.ic[t].lock = IF t \in {a, b} THEN NoProc ELSE F.ic[t].lock
                       /\ F.ic[t].ref > 0 => G.ic[t].inum = F.ic[t].inum

\* iunlockput() of the parent.
LEMMA HookParent ==
    ASSUME NEW F \in FsState, NEW E, SameRefs(F, E), NEW i, NEW d, NEW name, NEW O, LinkMade(F, E, i, d, name, O),
           NEW dp \in Slot, NEW p, p # NoProc, F.ic[dp].lock = p, NEW G, G = iunlockput(E, dp, p)
    PROVE  Hooked(F, G, i, d, O, dp, 0) /\ G.log = E.log
<1>1. Cached(E) /\ Blocks(E.di, E.data, E.used) /\ Whole(E.di, E.data) /\ Tree(E.di, E.data, O \ {i})
  BY DEF LinkMade
<1>2. PICK x : Hung(F.di, F.data, E.di, E.data, i, d, name, x)
  BY DEF LinkMade
<1>3. /\ \A j \in Inum : E.di[j].type = F.di[j].type
      /\ \A j \in Inum \ {i, d} : E.di[j].size = F.di[j].size
      /\ \A j \in Inum \ {i, d} : \A y \in Offs(F.di, j) : At(E.di, E.data, j, y) = At(F.di, F.data, j, y)
  BY <1>2 DEF Hung
<1>4. Linked(E.di)
  BY <1>1, TreeLinked
<1>5. E.ic[dp].lock = p
  BY DEF SameRefs
<1>6. Moves(E, G, dp, 0, dp, NoProc)
  BY <1>1, <1>4, <1>5, IunlockputIs
<1>7. Cached(G) /\ G.di = E.di /\ G.data = E.data /\ G.used = E.used /\ G.log = E.log
  BY <1>6 DEF Moves, SameDisk
<1>8. ASSUME NEW t \in Slot
      PROVE  /\ G.ic[t].ref = F.ic[t].ref - One(dp, t) - One(0, t)
             /\ G.ic[t].lock = IF t \in {dp, 0} THEN NoProc ELSE F.ic[t].lock
             /\ F.ic[t].ref > 0 => G.ic[t].inum = F.ic[t].inum
  <2>1. E.ic[t].ref = F.ic[t].ref /\ E.ic[t].inum = F.ic[t].inum /\ E.ic[t].lock = F.ic[t].lock
    BY DEF SameRefs
  <2>2. F.ic[t].ref \in Nat /\ t # 0 /\ One(dp, t) \in Nat /\ One(0, t) = 0
    BY EntryIs DEF Slot, One
  <2>. QED  BY <1>6, <2>1, <2>2 DEF Moves
<1>. QED  BY <1>1, <1>3, <1>7, <1>8 DEF Hooked

\* iunlockput() changes one entry of the cache.
LEMMA PutKeeps ==
    ASSUME NEW F, Cached(F), Linked(F.di), NEW s \in Slot, NEW p, p # NoProc, F.ic[s].lock = p,
           NEW G, G = iunlockput(F, s, p), NEW t \in Slot, t # s
    PROVE  G.ic[t] = F.ic[t]
<1>U. PICK U : U = iunlock(F, s, p)
  OBVIOUS
<1>1. Moves(F, U, 0, 0, s, NoProc)
  BY <1>U, IunlockIs
<1>2. F.ic[s].ref > 0 /\ F.ic[s].ref \in Nat /\ F \in FsState /\ F.ic \in [Slot -> InodeRec] /\ Ok(F) /\ 0 \notin Slot
  BY EntryIs DEF Cached, CacheOK, FsState, Slot
<1>3. U = [F EXCEPT !.ic[s].lock = NoProc]
  BY <1>2, <1>U DEF iunlock
<1>4. U.ic[t] = F.ic[t]
  BY <1>2, <1>3 DEF FsState
<1>5. Cached(U) /\ U.di = F.di
  BY <1>1 DEF Moves, SameDisk
<1>6. U.ic[s].ref = F.ic[s].ref
  <2>1. U.ic[s].ref = F.ic[s].ref + One(0, s) - One(0, s)
    BY <1>1 DEF Moves
  <2>2. One(0, s) = 0
    BY <1>2 DEF One
  <2>. QED  BY <1>2, <2>1, <2>2
<1>7. ~(U.ic[s].ref = 1 /\ U.ic[s].valid /\ ino(U, s).nlink = 0) /\ Ok(U) /\ U \in FsState
  BY <1>2, <1>5, <1>6 DEF Cached, CacheOK, Linked, ino
<1>8. G = [U EXCEPT !.ic[s].ref = @ - 1]
  BY <1>7, <1>U DEF iput, iunlockput
<1>9. U.ic \in [Slot -> InodeRec]
  BY <1>7 DEF FsState
<1>10. G.ic[t] = U.ic[t]
  BY <1>7, <1>8, <1>9 DEF FsState
<1>. QED  BY <1>4, <1>10

\* iunlockput() of the new inode.
LEMMA HookBoth ==
    ASSUME NEW F \in FsState, NEW E, NEW i, NEW d, NEW O, NEW dp \in Slot, Hooked(F, E, i, d, O, dp, 0),
           NEW ip \in Slot, ip # dp, NEW p, p # NoProc, F.ic[ip].lock = p, NEW G, G = iunlockput(E, ip, p)
    PROVE  Hooked(F, G, i, d, O, dp, ip) /\ G.log = E.log
<1>1. Cached(E) /\ Blocks(E.di, E.data, E.used) /\ Whole(E.di, E.data) /\ Tree(E.di, E.data, O \ {i})
  BY DEF Hooked
<1>2. \A t \in Slot : /\ E.ic[t].ref = F.ic[t].ref - One(dp, t) - One(0, t)
                      /\ E.ic[t].lock = IF t \in {dp, 0} THEN NoProc ELSE F.ic[t].lock
                      /\ F.ic[t].ref > 0 => E.ic[t].inum = F.ic[t].inum
  BY DEF Hooked
<1>3. Linked(E.di)
  BY <1>1, TreeLinked
<1>4. E.ic[ip].lock = p
  BY <1>2 DEF Slot
<1>5. Moves(E, G, ip, 0, ip, NoProc)
  BY <1>1, <1>3, <1>4, IunlockputIs
<1>6. Cached(G) /\ G.di = E.di /\ G.data = E.data /\ G.used = E.used /\ G.log = E.log
  BY <1>5 DEF Moves, SameDisk
<1>7. ASSUME NEW t \in Slot
      PROVE  /\ G.ic[t].ref = F.ic[t].ref - One(dp, t) - One(ip, t)
             /\ G.ic[t].lock = IF t \in {dp, ip} THEN NoProc ELSE F.ic[t].lock
             /\ F.ic[t].ref > 0 => G.ic[t].inum = F.ic[t].inum
  <2>1. F.ic[t].ref \in Nat /\ t # 0 /\ One(dp, t) \in Nat /\ One(ip, t) \in Nat /\ One(0, t) = 0
    BY EntryIs DEF Slot, One
  <2>2. /\ G.ic[t].ref = E.ic[t].ref + One(0, t) - One(ip, t)
        /\ G.ic[t].lock = IF t = ip THEN NoProc ELSE E.ic[t].lock
        /\ E.ic[t].ref > 0 => G.ic[t].inum = E.ic[t].inum
    BY <1>5 DEF Moves
  <2>3. G.ic[t].ref = F.ic[t].ref - One(dp, t) - One(ip, t)
    BY <1>2, <2>1, <2>2
  <2>4. G.ic[t].lock = IF t \in {dp, ip} THEN NoProc ELSE F.ic[t].lock
    BY <1>2, <2>1, <2>2
  <2>5. F.ic[t].ref > 0 => G.ic[t].inum = F.ic[t].inum
    <3>1. CASE t = ip
      <4>1. E.ic[t].ref > 0
        BY <1>1, <1>4, <3>1 DEF Cached, CacheOK
      <4>. QED  BY <1>2, <2>2, <4>1
    <3>2. CASE t # ip
      <4>1. G.ic[t] = E.ic[t]
        BY <1>1, <1>3, <1>4, <3>2, PutKeeps
      <4>. QED  BY <1>2, <4>1
    <3>. QED  BY <3>1, <3>2
  <2>. QED  BY <2>3, <2>4, <2>5
<1>8. /\ \A j \in Inum : E.di[j].type = F.di[j].type
      /\ \A j \in Inum \ {i, d} : E.di[j].size = F.di[j].size
      /\ \A j \in Inum \ {i, d} : \A y \in Offs(F.di, j) : At(E.di, E.data, j, y) = At(F.di, F.data, j, y)
  BY DEF Hooked
<1>. QED  BY <1>1, <1>6, <1>7, <1>8 DEF Hooked

\* The others do not notice a new entry.
LEMMA HookedFrame ==
    ASSUME Runs, NEW p \in Process, p # NoProc, NEW i, NEW d, NEW O, NEW a \in Slot, NEW b, b \in Slot \cup {0},
           NEW ip \in Slot, fs.ic[a].lock = p, fs.ic[ip].lock = p, b \in {0, ip},
           i = fs.ic[ip].inum, d = fs.ic[a].inum, Hooked(fs, fs', i, d, O, a, b)
    PROVE  Frame(fs, fs', p)
<1>1. \A t \in Slot : /\ fs'.ic[t].lock = IF t \in {a, b} THEN NoProc ELSE fs.ic[t].lock
                      /\ fs.ic[t].ref > 0 => fs'.ic[t].inum = fs.ic[t].inum
  BY DEF Hooked
<1>2. \A j \in Inum : fs'.di[j].type = fs.di[j].type
  BY DEF Hooked
<1>3. fs.ic[a].ref > 0 /\ fs.ic[ip].ref > 0
  BY RunsIs DEF Cached, CacheOK
<1>4. ASSUME NEW t \in Slot, NEW name, fs.ic[t].lock \notin {p, NoProc}, DirAt(fs, t), Absent(fs, t, name)
      PROVE  Absent(fs', t, name)
  <2>e. PICK e : e = fs.ic[t].inum
    OBVIOUS
  <2>1. fs.ic[t].ref > 0
    BY <1>4, RunsIs DEF Cached, CacheOK
  <2>2. e \in Inum /\ fs'.ic[t].inum = e
    BY <1>1, <2>1, <2>e, RunsIs DEF Cached, CacheOK
  <2>3. e # i /\ e # d
    BY <1>3, <1>4, <2>1, <2>e, RunsIs DEF Cached, OneEntry
  <2>4. /\ Offs(fs'.di, e) = Offs(fs.di, e)
        /\ \A x \in Offs(fs.di, e) : At(fs'.di, fs'.data, e, x) = At(fs.di, fs.data, e, x)
    BY <2>2, <2>3 DEF Hooked, Offs
  <2>5. NoName(fs.di, fs.data, e, name)
    BY <1>4, <2>e DEF Absent
  <2>6. NoName(fs'.di, fs'.data, e, name)
    BY <2>4, <2>5 DEF NoName
  <2>. QED  BY <2>2, <2>6 DEF Absent
<1>5. ASSUME NEW t \in Slot, fs'.ic[t].lock # fs.ic[t].lock
      PROVE  fs.ic[t].lock \in {p, NoProc} /\ fs'.ic[t].lock \in {p, NoProc}
  <2>1. t \in {a, b} /\ t # 0
    BY <1>1, <1>5 DEF Slot
  <2>. QED  BY <1>1, <2>1
<1>. QED  BY <1>1, <1>2, <1>4, <1>5 DEF Frame

\* Who links an inode has it locked.
LEMMA LinkLocked ==
    ASSUME Runs, NEW q \in Process, pc[q] = "link"
    PROVE  loc[q].ip \in Slot /\ fs.ic[loc[q].ip].lock = q /\ q # NoProc
<1>1. Doing(q)
  BY RunsIs
<1>. QED  BY <1>1, FsAssumption DEF Doing

\* The new inode of p is none of the others'.
LEMMA OthersDiffer ==
    ASSUME Runs, NEW p \in Process, pc[p] = "link"
    PROVE  fs.ic[loc[p].ip].inum \notin Others(p)
<1>. SUFFICES ASSUME fs.ic[loc[p].ip].inum \in Others(p) PROVE FALSE
  OBVIOUS
<1>1. PICK q \in Process : q # p /\ pc[q] = "link" /\ fs.ic[loc[p].ip].inum = fs.ic[loc[q].ip].inum
  BY DEF Others
<1>2. loc[q].ip \in Slot /\ fs.ic[loc[q].ip].lock = q /\ q # NoProc
  BY <1>1, LinkLocked
<1>3. loc[p].ip \in Slot /\ fs.ic[loc[p].ip].lock = p /\ p # NoProc
  BY LinkLocked
<1>4. fs.ic[loc[q].ip].ref > 0 /\ fs.ic[loc[p].ip].ref > 0
  BY <1>2, <1>3, RunsIs DEF Cached, CacheOK
<1>5. loc[p].ip = loc[q].ip
  BY <1>1, <1>2, <1>3, <1>4, RunsIs DEF Cached, OneEntry
<1>. QED  BY <1>1, <1>2, <1>3, <1>5

\* The parent has its entry.
LEMMA ParentSettled ==
    ASSUME Runs, NEW p \in Process, pc[p] = "link"
    PROVE  fs.ic[loc[p].dp].inum \notin Orphans /\ fs.ic[loc[p].ip].inum \in Orphans
<1>1. /\ loc[p].ip \in Slot /\ loc[p].dp \in Slot /\ loc[p].ip # loc[p].dp /\ fs.ic[loc[p].dp].lock = p /\ p # NoProc
  BY RunsIs, FsAssumption DEF Doing
<1>2. fs.ic[loc[p].dp].ref > 0
  BY <1>1, RunsIs DEF Cached, CacheOK
<1>3. ASSUME NEW q \in Process, pc[q] = "link" PROVE loc[p].dp # loc[q].ip
  <2>1. fs.ic[loc[q].ip].lock = q
    BY <1>3, RunsIs DEF Doing
  <2>. QED  BY <1>1, <2>1
<1>4. fs.ic[loc[p].dp].inum \notin Orphans
  <2>s. PICK s : s = loc[p].dp
    OBVIOUS
  <2>1. s \in Slot /\ fs.ic[s].ref > 0 /\ \A q \in Process : pc[q] = "link" => s # loc[q].ip
    BY <1>1, <1>2, <1>3, <2>s
  <2>. QED  BY <2>1, <2>s, NotOrphan
<1>5. fs.ic[loc[p].ip].inum \in Orphans
  BY DEF Orphans
<1>. QED  BY <1>4, <1>5

\* The new inode after the entry was made.
LEMMA HookedOwn ==
    ASSUME NEW p \in Process, NEW l, NEW i, NEW d, LinkHas(p, l, i, d), NEW O, NEW G, Hooked(fs, G, i, d, O, l.dp, 0),
           fs' = Cleared(G)
    PROVE  fs'.di[i].type = TypeOf(l.call) /\ fs'.ic[l.ip].lock = p /\ fs'.ic[l.ip].inum = i
<1>0. /\ l.ip \in Slot /\ l.dp \in Slot /\ l.ip # l.dp /\ i = fs.ic[l.ip].inum
      /\ fs.ic[l.ip].lock = p /\ i \in Inum /\ fs.di[i].type = TypeOf(l.call) /\ fs.ic[l.ip].ref > 0
  BY DEF LinkHas
<1>1. fs'.di = G.di /\ fs'.ic = G.ic /\ l.ip # 0
  BY <1>0, ClearedCached DEF Hooked, Slot
<1>. QED  BY <1>0, <1>1 DEF Hooked

\* The step after the entry was made.
LEMMA HookStep ==
    ASSUME Runs, OpFits', NEW p \in Process, p # NoProc, pc[p] = "link", NEW l, l = loc[p], NEW i, NEW d,
           LinkHas(p, l, i, d), NEW b, b \in {0, l.ip}, NEW G, Hooked(fs, G, i, d, Orphans, l.dp, b),
           fs' = Cleared(G), Alone(p), Tables', ftable' = ftable, ofile' = ofile, cwd' = cwd,
           NEW at, pc'[p] = at, at \in {"opened", "user"}, NEW m, loc'[p] = m, m.dp = 0,
           m.ip = (IF b = 0 THEN l.ip ELSE 0), b = 0 => at = "opened", Doing(p)'
    PROVE  IInv'
<1>0. /\ l.ip \in Slot /\ l.dp \in Slot /\ l.ip # l.dp /\ i = fs.ic[l.ip].inum /\ d = fs.ic[l.dp].inum
      /\ fs.ic[l.ip].lock = p /\ fs.ic[l.dp].lock = p /\ i \in Inum /\ fs.di[i].type = TypeOf(l.call)
      /\ fs.ic[l.ip].ref > 0 /\ 0 \notin Slot
  <2>1. 0 \notin Slot
    BY DEF Slot
  <2>. QED  BY <2>1 DEF LinkHas
<1>1. /\ Cached(fs') /\ fs'.di = G.di /\ fs'.data = G.data /\ fs'.used = G.used /\ fs'.ic = G.ic /\ fs'.log = {}
  BY ClearedCached DEF Hooked
<1>2. Hooked(fs, fs', i, d, Orphans, l.dp, b)
  BY <1>1 DEF Hooked
<1>3. Frame(fs, fs', p)
  <2>1. b \in Slot \cup {0}
    BY <1>0
  <2>. QED  BY <1>0, <1>2, <2>1, HookedFrame
<1>4. FilesStay
  BY DEF FilesStay
<1>5. Orphans' = Orphans \ {i}
  <2>1. Orphans = Others(p) \cup {i} /\ i \notin Others(p)
    BY <1>0, OwnOrphan, OthersDiffer
  <2>2. Orphans' = Others(p)'
    BY OwnOrphanNext
  <2>3. Others(p)' = Others(p)
    BY <1>3, OthersStay
  <2>. QED  BY <2>1, <2>2, <2>3
<1>6. ASSUME NEW g \in File PROVE FileOK(g)'
  BY <1>3, OthersFile
<1>7. FRefs'
  <2>1. \A g \in File : ftable'[g].ref = ftable[g].ref
    OBVIOUS
  <2>. QED  BY <2>1, FRefsSame
<1>8. \A t \in Slot : /\ fs'.ic[t].ref = fs.ic[t].ref - One(l.dp, t) - One(b, t)
                      /\ fs'.ic[t].lock = IF t \in {l.dp, b} THEN NoProc ELSE fs.ic[t].lock
                      /\ fs.ic[t].ref > 0 => fs'.ic[t].inum = fs.ic[t].inum
  BY <1>2 DEF Hooked
<1>9. IRefs'
  <2>1. ASSUME NEW t \in Slot
        PROVE  fs'.ic[t].ref = fs.ic[t].ref + Gain(cwd[p], cwd'[p], t)
                + Gain(loc[p].ip, loc'[p].ip, t) + Gain(loc[p].dp, loc'[p].dp, t)
    <3>1. fs'.ic[t].ref = fs.ic[t].ref - One(l.dp, t) - One(b, t) /\ fs.ic[t].ref \in Nat /\ t # 0
      BY <1>0, <1>8, RunsIs, EntryIs
    <3>2. cwd'[p] = cwd[p] /\ loc'[p].ip = m.ip /\ loc[p].ip = l.ip /\ loc'[p].dp = 0 /\ loc[p].dp = l.dp
      OBVIOUS
    <3>3. Gain(cwd[p], cwd'[p], t) = 0
      BY <3>2 DEF Gain, One
    <3>4. Gain(loc[p].dp, loc'[p].dp, t) = 0 - One(l.dp, t) /\ One(l.dp, t) \in Nat
      BY <3>1, <3>2 DEF Gain, One
    <3>5. Gain(loc[p].ip, loc'[p].ip, t) = 0 - One(b, t) /\ One(b, t) \in Nat
      <4>1. CASE b = 0
        <5>1. loc'[p].ip = loc[p].ip
          BY <3>2, <4>1
        <5>2. One(b, t) = 0
          BY <3>1, <4>1 DEF One
        <5>3. One(loc[p].ip, t) \in {0, 1}
          BY DEF One
        <5>4. Gain(loc[p].ip, loc'[p].ip, t) = 0
          BY <5>1, <5>3 DEF Gain
        <5>. QED  BY <5>2, <5>4
      <4>2. CASE b = l.ip
        BY <1>0, <3>1, <3>2, <4>2 DEF Gain, One
      <4>. QED  BY <4>1, <4>2
    <3>. QED  BY <3>1, <3>3, <3>4, <3>5
  <2>2. \A g \in File : FileIp(ftable'[g]) = FileIp(ftable[g])
    OBVIOUS
  <2>. QED  BY <2>1, <2>2, RefsMove0
<1>10. Blocks(fs'.di, fs'.data, fs'.used) /\ Whole(fs'.di, fs'.data) /\ Tree(fs'.di, fs'.data, Orphans')
  BY <1>2, <1>5 DEF Hooked
<1>11. Doing(p)'
  OBVIOUS
<1>12. Logged(p)'
  <2>1. at \notin {"walk", "parent", "new", "exists", "found", "link"}
    OBVIOUS
  <2>. QED  BY <2>1 DEF Logged
<1>13. ASSUME NEW t \in Slot, fs'.ic[t].lock = p PROVE MayHold(pc', loc', p, t)
  <2>1. t \notin {l.dp, b} /\ fs.ic[t].lock = p
    BY <1>8, <1>13
  <2>2. MayHold(pc, loc, p, t)
    BY <2>1, OwnLocks
  <2>3. t = l.ip /\ b = 0
    BY <2>1, <2>2 DEF MayHold
  <2>. QED  BY <2>3 DEF MayHold
<1>14. Runs'
  BY <1>1, <1>3, <1>4, <1>6, <1>7, <1>9, <1>10, <1>11, <1>12, <1>13, StepLive
<1>. QED  BY <1>14, RunsStep

\* The place of the parent is given up.
NoDp(l) == [l EXCEPT !.dp = 0]

\* The rest of the local variables is as before.
LEMMA NoDpIs ==
    ASSUME NEW l \in LocRec, NEW m, m = NoDp(l)
    PROVE  m \in LocRec /\ m.ip = l.ip /\ m.dp = 0 /\ m.call = l.call
<1>1. 0 \in Slot \cup {0}
  OBVIOUS
<1>. QED  BY <1>1 DEF NoDp, LocRec

\* The blocks of a create() are within the limit.
LEMMA SixFit ==
    ASSUME NEW p, NEW i, NEW d, lg[p] \subseteq {IBLOCK(i)}, NEW E, fs.log = {}, SixLog(fs, E, i, d)
    PROVE  AtMost(lg[p] \cup E.log, MaxLogged)
<1>1. PICK a, b, c : E.log \subseteq fs.log \cup {IBLOCK(i), IBLOCK(d), bmapstart, a, b, c}
  BY DEF SixLog
<1>2. lg[p] \cup E.log \subseteq {IBLOCK(i), IBLOCK(d), bmapstart, a, b, c}
  BY <1>1
<1>3. AtMost(lg[p] \cup E.log, 6)
  BY <1>2, SixAtMost
<1>. QED  BY <1>3, LoggedBound DEF AtMost

\* What the entries of create() are.
LEMMA EntryMade ==
    ASSUME Runs, NEW p \in Process, p # NoProc, pc[p] = "link", NEW l, l = loc[p], NEW i, NEW d,
           LinkHas(p, l, i, d), NEW D, D = (IF l.call = "mkdir" THEN Dots(fs, l.ip, l.dp) ELSE fs),
           NEW E, E = Link(D, l.dp, Last(l.path), i)
    PROVE  /\ SameRefs(fs, E) /\ E \in FsState /\ AtMost(lg[p] \cup E.log, MaxLogged)
           /\ DiskFull(E) \/ LinkMade(fs, E, i, d, Last(l.path), Orphans)
<1>n. PICK name : name = Last(l.path)
  OBVIOUS
<1>O. PICK O : O = Orphans
  OBVIOUS
<1>1. /\ l \in LocRec /\ l.call \in Creates /\ l.ip \in Slot /\ l.dp \in Slot
      /\ i = fs.ic[l.ip].inum /\ d = fs.ic[l.dp].inum /\ i # d
      /\ fs.ic[l.ip].lock = p /\ fs.ic[l.dp].lock = p
      /\ fs.di[d].type = "DIR" /\ fs.di[i].type = TypeOf(l.call) /\ Len(l.path) = 1
      /\ NoName(fs.di, fs.data, d, name) /\ lg[p] \subseteq {IBLOCK(i)}
  BY <1>n DEF LinkHas
<1>2. Ready(fs, l.ip, l.dp, i, d)
  BY <1>1, RunsIs DEF Ready
<1>3. Tree(fs.di, fs.data, O) /\ i \in O /\ d \notin O /\ fs.log = {}
  BY <1>1, <1>O, RunsIs, ParentSettled
<1>4. name \in Name
  <2>1. l.path \in Seq(Name)
    BY <1>1 DEF LocRec
  <2>. QED  BY <1>1, <1>n, <2>1, LastName
<1>5. D = IF fs.di[i].type = "DIR" THEN Dots(fs, l.ip, l.dp) ELSE fs
  <2>1. fs.di[i].type = "DIR" <=> l.call = "mkdir"
    <3>1. TypeOf(l.call) = "DIR" <=> l.call = "mkdir"
      BY <1>1, TypeOfIs, Zenon
    <3>. QED  BY <1>1, <3>1, Zenon
  <2>. QED  BY <2>1, Zenon
<1>6. E = Link(D, l.dp, name, i)
  BY <1>n
<1>s. PICK ip, dp : ip = l.ip /\ dp = l.dp
  OBVIOUS
<1>7. /\ SameRefs(fs, E) /\ E \in FsState /\ SixLog(fs, E, i, d)
      /\ DiskFull(E) \/ LinkMade(fs, E, i, d, name, O)
  <2>1. Ready(fs, ip, dp, i, d) /\ E = Link(D, dp, name, i) /\ NoName(fs.di, fs.data, d, name)
    BY <1>1, <1>2, <1>6, <1>s
  <2>2. D = IF fs.di[i].type = "DIR" THEN Dots(fs, ip, dp) ELSE fs
    BY <1>5, <1>s
  <2>. QED  BY <1>3, <1>4, <2>1, <2>2, CreateLinked
<1>8. AtMost(lg[p] \cup E.log, MaxLogged)
  BY <1>1, <1>3, <1>7, SixFit
<1>. QED  BY <1>7, <1>8, <1>n, <1>O

\* The tables of a step inside a transaction.
LEMMA SetTables ==
    ASSUME Runs, OpFits, NEW p \in Process, NEW at \in Pc, NEW m \in LocRec, NEW G \in FsState,
           AtMost(lg[p] \cup G.log, MaxLogged), Set(p, G), Goto(p, at, m), UNCHANGED <<tables, calls>>
    PROVE  /\ fs' = Cleared(G) /\ OpFits' /\ Alone(p) /\ Tables' /\ pc'[p] = at /\ loc'[p] = m
           /\ cwd' = cwd /\ ftable' = ftable /\ ofile' = ofile
<1>1. /\ fs' = Cleared(G) /\ lg' \in [Process -> SUBSET Nat] /\ OpFits'
      /\ \A q \in Process : q # p => lg'[q] = lg[q]
  BY SetLog
<1>2. ftable' = ftable /\ ofile' = ofile /\ cwd' = cwd /\ calls' = calls
  BY DEF tables
<1>3. /\ pc' \in [Process -> Pc] /\ loc' \in [Process -> LocRec] /\ pc'[p] = at /\ loc'[p] = m
      /\ \A q \in Process : q # p => pc'[q] = pc[q] /\ loc'[q] = loc[q]
  BY GotoIs
<1>4. Alone(p)
  BY <1>1, <1>2, <1>3 DEF Alone
<1>5. /\ ftable \in [File -> FileRec] /\ ofile \in [Process -> [Fd -> File \cup {0}]]
      /\ cwd \in [Process -> Slot \cup {0}] /\ calls \in 0..MaxCalls
  BY RunsIs DEF Tables
<1>6. Tables'
  BY <1>1, <1>2, <1>3, <1>5 DEF Tables
<1>. QED  BY <1>1, <1>2, <1>3, <1>4, <1>6

\* The disk has no room for the entry.
LEMMA LinkFails ==
    ASSUME Runs, OpFits, NEW p \in Process, NEW E \in FsState, SameRefs(fs, E), DiskFull(E),
           AtMost(lg[p] \cup E.log, MaxLogged), Set(p, E), UNCHANGED <<pc, loc>>, UNCHANGED <<tables, calls>>
    PROVE  IInv'
<1>1. fs' = Cleared(E) /\ lg' \in [Process -> SUBSET Nat] /\ OpFits'
  BY SetLog
<1>2. ftable' = ftable /\ ofile' = ofile /\ cwd' = cwd /\ calls' = calls /\ pc' = pc /\ loc' = loc
  BY DEF tables
<1>3. Tables
  BY RunsIs
<1>4. Tables'
  BY <1>1, <1>2, <1>3 DEF Tables
<1>5. OneEntry(E.ic)
  BY RunsIs DEF SameRefs, OneEntry, Cached
<1>. QED  BY <1>1, <1>4, <1>5, DiskFullStep

\* The entries of create().
LEMMA CreateLinkStep ==
    ASSUME IInv, NEW p \in Process, CreateLink(p)
    PROVE  IInv'
<1>l. PICK l : l = loc[p]
  OBVIOUS
<1>i. PICK i : i = fs.ic[l.ip].inum
  OBVIOUS
<1>d. PICK d : d = fs.ic[l.dp].inum
  OBVIOUS
<1>D. PICK D : D = IF l.call = "mkdir" THEN Dots(fs, l.ip, l.dp) ELSE fs
  OBVIOUS
<1>E. PICK E : E = Link(D, l.dp, Last(l.path), i)
  OBVIOUS
<1>0. /\ Running(p, "link") /\ UNCHANGED <<tables, calls>>
      /\ \/ ~Ok(E) /\ Set(p, E) /\ UNCHANGED <<pc, loc>>
         \/ Ok(E) /\ l.call = "creat" /\ Set(p, iunlockput(E, l.dp, p)) /\ Goto(p, "opened", NoDp(l))
         \/ Ok(E) /\ l.call # "creat" /\ Set(p, iunlockput(iunlockput(E, l.dp, p), l.ip, p)) /\ Goto(p, "user", Idle)
  BY <1>l, <1>i, <1>D, <1>E DEF CreateLink, Return, NoDp
<1>1. Runs /\ OpFits /\ Tables /\ p # NoProc /\ fs \in FsState /\ pc[p] = "link" /\ LinkHas(p, l, i, d)
  BY <1>0, <1>l, <1>i, <1>d, ToLink
<1>2. /\ SameRefs(fs, E) /\ E \in FsState /\ AtMost(lg[p] \cup E.log, MaxLogged)
      /\ DiskFull(E) \/ LinkMade(fs, E, i, d, Last(l.path), Orphans)
  BY <1>1, <1>l, <1>D, <1>E, EntryMade
<1>3. DiskFull(E) <=> ~Ok(E)
  BY <1>2 DEF DiskFull, Ok, LinkMade, Cached
<1>4. /\ l \in LocRec /\ l.call \in Creates /\ l.ip \in Slot /\ l.dp \in Slot /\ l.ip # l.dp
      /\ fs.ic[l.ip].lock = p /\ fs.ic[l.dp].lock = p /\ p # NoProc /\ cwd[p] \in Slot
  BY <1>1 DEF LinkHas
<1>5. CASE ~Ok(E) /\ Set(p, E) /\ UNCHANGED <<pc, loc>>
  BY <1>0, <1>1, <1>2, <1>3, <1>5, LinkFails
<1>6. ASSUME Ok(E), NEW G, G = iunlockput(E, l.dp, p)
      PROVE  Hooked(fs, G, i, d, Orphans, l.dp, 0) /\ G.log = E.log /\ G \in FsState
  <2>O. PICK O, name, dp : O = Orphans /\ name = Last(l.path) /\ dp = l.dp
    OBVIOUS
  <2>1. LinkMade(fs, E, i, d, name, O) /\ dp \in Slot /\ fs.ic[dp].lock = p /\ G = iunlockput(E, dp, p)
    BY <1>2, <1>3, <1>4, <1>6, <2>O
  <2>2. Hooked(fs, G, i, d, O, dp, 0) /\ G.log = E.log
    BY <1>1, <1>2, <2>1, HookParent
  <2>. QED  BY <2>2, <2>O DEF Hooked, Cached
<1>7. CASE Ok(E) /\ l.call = "creat" /\ Set(p, iunlockput(E, l.dp, p)) /\ Goto(p, "opened", NoDp(l))
  <2>G. PICK G : G = iunlockput(E, l.dp, p)
    OBVIOUS
  <2>m. PICK m : m = NoDp(l)
    OBVIOUS
  <2>1. Hooked(fs, G, i, d, Orphans, l.dp, 0) /\ G.log = E.log /\ G \in FsState
    BY <1>6, <1>7, <2>G
  <2>2. m \in LocRec /\ m.ip = l.ip /\ m.dp = 0 /\ m.call = l.call
    BY <1>4, <2>m, NoDpIs
  <2>3. /\ fs' = Cleared(G) /\ OpFits' /\ Alone(p) /\ Tables' /\ pc'[p] = "opened" /\ loc'[p] = m
        /\ cwd' = cwd /\ ftable' = ftable /\ ofile' = ofile
    <3>1. "opened" \in Pc /\ AtMost(lg[p] \cup G.log, MaxLogged) /\ Set(p, G) /\ Goto(p, "opened", m)
      BY <1>2, <1>7, <2>1, <2>G, <2>m DEF Pc
    <3>. QED  BY <1>0, <1>1, <2>1, <2>2, <3>1, SetTables
  <2>4. Doing(p)'
    <3>0. fs'.di[i].type = TypeOf(l.call) /\ fs'.ic[l.ip].lock = p /\ fs'.ic[l.ip].inum = i
      BY <1>1, <2>1, <2>3, HookedOwn
    <3>1. TypeOf(l.call) # "DIR"
      BY <1>4, <1>7, TypeOfIs
    <3>2. ~DirAt(fs', l.ip)
      BY <3>0, <3>1 DEF DirAt
    <3>3. cwd'[p] \in Slot
      BY <1>4, <2>3
    <3>. QED  BY <1>4, <1>7, <2>2, <2>3, <3>0, <3>2, <3>3 DEF Doing
  <2>b. PICK b, at : b = 0 /\ at = "opened"
    OBVIOUS
  <2>5. /\ b \in {0, l.ip} /\ m.ip = (IF b = 0 THEN l.ip ELSE 0) /\ at \in {"opened", "user"} /\ (b = 0 => at = "opened")
        /\ Hooked(fs, G, i, d, Orphans, l.dp, b) /\ pc'[p] = at
    BY <2>1, <2>2, <2>3, <2>b
  <2>7. /\ OpFits' /\ fs' = Cleared(G) /\ Alone(p) /\ Tables' /\ ftable' = ftable /\ ofile' = ofile /\ cwd' = cwd
        /\ loc'[p] = m /\ m.dp = 0
    BY <2>2, <2>3
  <2>8. Runs /\ p # NoProc /\ pc[p] = "link" /\ l = loc[p] /\ LinkHas(p, l, i, d)
    BY <1>1, <1>l
  <2>. QED  BY <2>4, <2>5, <2>7, <2>8, HookStep
<1>8. CASE Ok(E) /\ l.call # "creat" /\ Set(p, iunlockput(iunlockput(E, l.dp, p), l.ip, p)) /\ Goto(p, "user", Idle)
  <2>H. PICK H : H = iunlockput(E, l.dp, p)
    OBVIOUS
  <2>G. PICK G : G = iunlockput(H, l.ip, p)
    OBVIOUS
  <2>1. Hooked(fs, H, i, d, Orphans, l.dp, 0) /\ H.log = E.log /\ H \in FsState
    BY <1>6, <1>8, <2>H
  <2>2. Hooked(fs, G, i, d, Orphans, l.dp, l.ip) /\ G.log = E.log /\ G \in FsState
    <3>O. PICK O, ip, dp : O = Orphans /\ ip = l.ip /\ dp = l.dp
      OBVIOUS
    <3>1. /\ Hooked(fs, H, i, d, O, dp, 0) /\ ip \in Slot /\ dp \in Slot /\ ip # dp /\ fs.ic[ip].lock = p
          /\ G = iunlockput(H, ip, p)
      BY <1>4, <2>1, <2>G, <3>O
    <3>2. Hooked(fs, G, i, d, O, dp, ip) /\ G.log = H.log
      BY <1>1, <3>1, HookBoth
    <3>. QED  BY <2>1, <3>2, <3>O DEF Hooked, Cached
  <2>3. /\ fs' = Cleared(G) /\ OpFits' /\ Alone(p) /\ Tables' /\ pc'[p] = "user" /\ loc'[p] = Idle
        /\ cwd' = cwd /\ ftable' = ftable /\ ofile' = ofile
    <3>1. "user" \in Pc /\ AtMost(lg[p] \cup G.log, MaxLogged) /\ Set(p, G) /\ Goto(p, "user", Idle)
      BY <1>2, <1>8, <2>2, <2>G, <2>H DEF Pc
    <3>. QED  BY <1>0, <1>1, <2>2, <3>1, IdleIs, SetTables
  <2>4. Doing(p)'
    <3>1. cwd'[p] \in Slot
      BY <1>4, <2>3
    <3>. QED  BY <2>3, <3>1 DEF Doing
  <2>5. l.ip # 0
    BY <1>4 DEF Slot
  <2>m. PICK m : m = Idle
    OBVIOUS
  <2>6. m.dp = 0 /\ loc'[p] = m /\ m.ip = (IF l.ip = 0 THEN l.ip ELSE 0) /\ "user" \in {"opened", "user"}
    BY <2>3, <2>5, <2>m, IdleIs
  <2>. QED  BY <1>1, <1>l, <2>2, <2>3, <2>4, <2>5, <2>6, HookStep
<1>. QED  BY <1>0, <1>5, <1>7, <1>8

\* The longest buffer.
LEMMA MaxLen == Max(Lens) \in Nat
<1>1. Lens \subseteq Nat
  BY FsAssumption
<1>2. PICK m \in Lens : \A n \in Lens : n <= m
  BY FsAssumption
<1>3. \A x, y \in Nat : x <= y /\ y <= x => x = y
  OBVIOUS
<1>4. Max(Lens) = CHOOSE x \in Lens : \A y \in Lens : x >= y
  BY DEF Max
<1>5. Max(Lens) \in Lens
  <2>1. \E x \in Lens : \A y \in Lens : x >= y
    BY <1>1, <1>2
  <2>. QED  BY <1>4, <2>1
<1>. QED  BY <1>1, <1>5

\* A step of a process in a call.
LEMMA StepStep ==
    ASSUME IInv, NEW p \in Process, Step(p)
    PROVE  IInv'
BY WalkStep, WalkEndStep, CreateLookupStep, ExistsStep, CreateAllocStep, CreateLinkStep, FoundOpenStep,
   FoundStatStep, FoundChdirStep, OpenedStep, ClosePutStep, WriteChunkStep, ExitCloseStep, ExitCwdStep
   DEF Step

\* The buffers of a write.
LEMMA Iovs ==
    ASSUME NEW n \in Nat
    PROVE  <<n>> \in Seq(Nat) /\ <<n>> # <<>> /\ <<n, 1>> \in Seq(Nat) /\ <<n, 1>> # <<>>
OBVIOUS

\* A new call.
LEMMA StartStep ==
    ASSUME IInv, NEW p \in Process, Start(p)
    PROVE  IInv'
<1>1. ASSUME NEW call \in PathCalls, NEW path \in Path, Begin(p, call, path) PROVE IInv'
  BY <1>1, BeginStep
<1>2. ASSUME NEW fd \in Fd, Dup(p, fd) \/ Close(p, fd) \/ Fstat(p, fd) PROVE IInv'
  BY <1>2, DupStep, CloseStep, FstatStep
<1>3. ASSUME NEW fd \in Fd, NEW n \in Lens, Read(p, fd, n) PROVE IInv'
  BY <1>3, ReadStep, FsAssumption
<1>4. ASSUME NEW fd \in Fd, NEW n \in Lens, Write(p, fd, <<n>>) PROVE IInv'
  <2>1. n \in Nat
    BY FsAssumption
  <2>2. PICK iov : iov = <<n>>
    OBVIOUS
  <2>3. iov \in Seq(Nat) /\ iov # <<>> /\ Write(p, fd, iov)
    BY <1>4, <2>1, <2>2, Iovs
  <2>. QED  BY <2>3, WriteStep
<1>5. ASSUME NEW fd \in Fd, Write(p, fd, <<Max(Lens), 1>>) PROVE IInv'
  <2>1. PICK n : n = Max(Lens)
    OBVIOUS
  <2>2. PICK iov : iov = <<n, 1>>
    OBVIOUS
  <2>3. iov \in Seq(Nat) /\ iov # <<>> /\ Write(p, fd, iov)
    BY <1>5, <2>1, <2>2, Iovs, MaxLen
  <2>. QED  BY <2>3, WriteStep
<1>6. ASSUME NEW q \in Process, Fork(p, q) PROVE IInv'
  BY <1>6, ForkStep
<1>7. CASE Exit(p)
  BY <1>7, ExitStep
<1>. QED  BY <1>1, <1>2, <1>3, <1>4, <1>5, <1>6, <1>7 DEF Start

\* Nothing changes.
LEMMA StutterStep ==
    ASSUME IInv, UNCHANGED vars
    PROVE  IInv'
<1>1. /\ fs' = fs /\ lg' = lg /\ ftable' = ftable /\ ofile' = ofile /\ cwd' = cwd /\ pc' = pc /\ loc' = loc
      /\ calls' = calls
  BY DEF vars
<1>2. Tables' <=> Tables
  BY <1>1 DEF Tables
<1>3. Shape' <=> Shape
  BY <1>1, <1>2 DEF Shape
<1>4. \A p \in Process : (Doing(p)' <=> Doing(p)) /\ (Logged(p)' <=> Logged(p))
  BY <1>1 DEF Doing, Logged
<1>5. \A s \in Slot : Held(s)' <=> Held(s)
  BY <1>1 DEF Held
<1>6. \A f \in File : FileOK(f)' <=> FileOK(f)
  BY <1>1 DEF FileOK
<1>7. Orphans' = Orphans /\ (RefsCounted' <=> RefsCounted)
  BY <1>1 DEF Orphans, RefsCounted, Pointers
<1>8. Live' <=> Live
  BY <1>1, <1>4, <1>5, <1>6, <1>7 DEF Live
<1>9. OnlyFullTablesPanic' <=> OnlyFullTablesPanic
  BY <1>1 DEF OnlyFullTablesPanic, FreeFds
<1>10. OpFits' <=> OpFits
  BY <1>1 DEF OpFits
<1>. QED  BY <1>1, <1>3, <1>8, <1>9, <1>10 DEF IInv

\* Every step keeps the invariant.
LEMMA IInvKept ==
    ASSUME IInv, [Next]_vars
    PROVE  IInv'
<1>1. ASSUME NEW p \in Process, Step(p) \/ Start(p) PROVE IInv'
  BY <1>1, StepStep, StartStep
<1>2. CASE Rest
  BY <1>2, StutterStep DEF Rest
<1>3. CASE UNCHANGED vars
  BY <1>3, StutterStep
<1>. QED  BY <1>1, <1>2, <1>3 DEF Next

-----------------------------------------------------------------------------
(* What the invariant says *)

\* What the kernel sees of an inode is what the disk holds.
LEMMA ViewIs ==
    ASSUME Shape, Ok(fs), Live, NEW i \in Inum
    PROVE  View(i) = fs.di[i]
<1>. PICK S : S = {t \in Slot : fs.ic[t].ref > 0 /\ fs.ic[t].inum = i /\ fs.ic[t].valid}
  OBVIOUS
<1>1. View(i) = IF S = {} THEN fs.di[i] ELSE fs.ic[Min(S)].ino
  BY DEF View
<1>2. ASSUME S # {} PROVE fs.ic[Min(S)].ino = fs.di[i]
  <2>1. S \in SUBSET Nat
    BY DEF Slot
  <2>2. Min(S) \in S
    BY <1>2, <2>1, LeastNumber
  <2>. QED  BY <2>2 DEF Live, CacheOK
<1>. QED  BY <1>1, <1>2

\* So are the blocks.
LEMMA BlockOfIs ==
    ASSUME Shape, Ok(fs), Live, NEW i \in Inum, NEW n \in 0..(MAXFILE - 1)
    PROVE  BlockOf(i, n) = Blk(fs.di, fs.data, i, n)
<1>1. View(i) = fs.di[i]
  BY ViewIs
<1>2. n # MAXFILE
  BY Layout
<1>. QED  BY <1>1, <1>2 DEF BlockOf, Blk

\* The inode cache.
LEMMA CacheFollows == IInv => ICacheOK
<1>. SUFFICES ASSUME IInv PROVE ICacheOK
  OBVIOUS
<1>1. TypeOK
  <2>1. Tables /\ fs \in FsState
    BY DEF IInv, Shape
  <2>2. fs.di \in [Inum -> Dinode] /\ fs.used \subseteq 0..(FSSIZE - 1) /\ fs.data \in Datas
    BY <2>1 DEF FsState, Inodes
  <2>3. \A s \in Slot : /\ fs.ic[s].ref \in Nat /\ fs.ic[s].valid \in BOOLEAN
                        /\ fs.ic[s].ino \in Dinode /\ fs.ic[s].inum \in Inum \cup {0}
                        /\ fs.ic[s].lock \in Process \cup {NoProc}
    BY <2>1, EntryIs
  <2>4. \A b \in DOMAIN fs.data : Range(fs.data[b]) \subseteq Cell
    <3>. TAKE b \in DOMAIN fs.data
    <3>1. b \in Data
      BY <2>2 DEF Datas
    <3>. PICK g : g = fs.data[b]
      OBVIOUS
    <3>2. g \in [0..(BSIZE - 1) -> Cell]
      BY <2>2, <3>1 DEF Datas
    <3>3. \A x \in DOMAIN g : g[x] \in Cell
      BY <3>2
    <3>4. Range(g) \subseteq Cell
      BY <3>3, Zenon DEF Range
    <3>. QED  BY <3>4
  <2>5. \A f \in File : ftable[f].ref \in Nat /\ ftable[f].ip \in Slot \cup {0}
    BY <2>1 DEF Tables, FileRec
  <2>6. /\ ofile \in [Process -> [Fd -> File \cup {0}]] /\ cwd \in [Process -> Slot \cup {0}]
        /\ calls \in 0..MaxCalls
    BY <2>1 DEF Tables
  <2>. QED  BY <2>2, <2>3, <2>4, <2>5, <2>6 DEF TypeOK
<1>2. OneEntryPerInode
  BY DEF IInv, Shape, OneEntry, OneEntryPerInode
<1>3. CacheCoherent
  BY DEF IInv, Live, CacheOK, CacheCoherent
<1>. QED  BY <1>1, <1>2, <1>3 DEF ICacheOK

\* The holders of locks.
LEMMA HoldersFollow == IInv => HoldersRun
<1>. SUFFICES ASSUME IInv, Ok(fs), NEW s \in Slot, NEW q, q = fs.ic[s].lock, q # NoProc
     PROVE  /\ pc[q] \notin {"user", "none", "zombie"}
            /\ Wants(q) = 0 /\ s \in {loc[q].ip, loc[q].dp}
  BY DEF HoldersRun
<1>1. Held(s)
  BY DEF IInv, Live
<1>2. MayHold(pc, loc, q, s)
  BY <1>1 DEF Held
<1>. QED  BY <1>2 DEF MayHold, Wants

\* A block with its owner and place.
Triple(i, n, b) == <<i, n, b>>

\* Its parts.
LEMMA TripleIs ==
    ASSUME NEW i, NEW n, NEW b
    PROVE  Triple(i, n, b)[1] = i /\ Triple(i, n, b)[2] = n /\ Triple(i, n, b)[3] = b
BY DEF Triple

\* The blocks that inode i owns.
LEMMA OwnedIs ==
    ASSUME Shape, Ok(fs), Live, NEW i \in Inum, NEW o
    PROVE  o \in Owned(i) <=> \E n \in Place : /\ Blk(fs.di, fs.data, i, n) # 0
                                               /\ o = Triple(i, n, Blk(fs.di, fs.data, i, n))
<1>1. View(i) = fs.di[i] /\ Blk(fs.di, fs.data, i, MAXFILE) = fs.di[i].addrs[NDIRECT]
  BY ViewIs, BlkIndirect
<1>2. \A n \in 0..(MAXFILE - 1) : BlockOf(i, n) = Blk(fs.di, fs.data, i, n)
  BY BlockOfIs
<1>3. \A n \in Place : n \in 0..(MAXFILE - 1) \/ n = MAXFILE
  BY Layout DEF Place
<1>4. MAXFILE \in Place /\ \A n \in 0..(MAXFILE - 1) : n \in Place
  BY Layout DEF Place
<1>5. o \in Owned(i) <=>
        /\ \/ \E n \in 0..(MAXFILE - 1) : o = Triple(i, n, BlockOf(i, n))
           \/ o = Triple(i, MAXFILE, View(i).addrs[NDIRECT])
        /\ o[3] # 0
  BY Zenon DEF Owned, Triple
<1>6. o \in Owned(i) <=> (\E n \in Place : o = Triple(i, n, Blk(fs.di, fs.data, i, n))) /\ o[3] # 0
  BY <1>1, <1>2, <1>3, <1>4, <1>5
<1>7. \A n \in Place : Triple(i, n, Blk(fs.di, fs.data, i, n))[3] = Blk(fs.di, fs.data, i, n)
  BY TripleIs
<1>. QED  BY <1>6, <1>7

\* Every block has one owner and is marked; no file has a hole.
LEMMA BlocksFollow == IInv => BlocksConsistent
<1>. SUFFICES ASSUME IInv, Ok(fs) PROVE BlocksConsistent
  BY DEF BlocksConsistent
<1>. PICK all : all = UNION {Owned(i) : i \in Inum}
  OBVIOUS
<1>. PICK T : T = {o[3] : o \in all}
  OBVIOUS
<1>. PICK f : f = [o \in all |-> o[3]]
  OBVIOUS
<1>0. Shape /\ Live /\ fs \in FsState
  BY DEF IInv, Shape
<1>1. /\ Placed(fs.di, fs.data) /\ OneOwner(fs.di, fs.data) /\ Marked(fs.di, fs.data, fs.used)
      /\ Whole(fs.di, fs.data)
  BY <1>0 DEF Live, Blocks
<1>2. \A o \in all : \E i \in Inum, n \in Place :
        Blk(fs.di, fs.data, i, n) # 0 /\ o = Triple(i, n, Blk(fs.di, fs.data, i, n))
  BY <1>0, OwnedIs
<1>3. \A i \in Inum, n \in Place : Blk(fs.di, fs.data, i, n) # 0 => Triple(i, n, Blk(fs.di, fs.data, i, n)) \in all
  BY <1>0, OwnedIs
<1>4. \A b : b \in T <=> b # 0 /\ \E i \in Inum, n \in Place : Blk(fs.di, fs.data, i, n) = b
  <2>1. ASSUME NEW b \in T PROVE b # 0 /\ \E i \in Inum, n \in Place : Blk(fs.di, fs.data, i, n) = b
    <3>1. PICK o \in all : b = o[3]
      OBVIOUS
    <3>. QED  BY <1>2, <3>1, TripleIs
  <2>2. ASSUME NEW i \in Inum, NEW n \in Place, Blk(fs.di, fs.data, i, n) # 0
        PROVE  Blk(fs.di, fs.data, i, n) \in T
    <3>. PICK b : b = Blk(fs.di, fs.data, i, n)
      OBVIOUS
    <3>1. Triple(i, n, b) \in all /\ Triple(i, n, b)[3] = b
      BY <1>3, <2>2, TripleIs
    <3>. QED  BY <3>1
  <2>. QED  BY <2>1, <2>2
<1>5. T \subseteq 0..(FSSIZE - 1)
  <2>1. \A b \in T : b \in Data
    BY <1>1, <1>4 DEF Placed
  <2>. QED  BY <2>1, Layout DEF Data
<1>6. IsFiniteSet(T)
  <2>1. IsFiniteSet(0..(FSSIZE - 1))
    BY Layout, FS_Interval
  <2>. QED  BY <1>5, <2>1, FS_Subset
<1>7. f \in Injection(all, T)
  <2>1. f \in [all -> T] /\ DOMAIN f = all
    OBVIOUS
  <2>2. ASSUME NEW a \in all, NEW o \in all, f[a] = f[o] PROVE a = o
    <3>1. PICK i \in Inum, n \in Place :
            Blk(fs.di, fs.data, i, n) # 0 /\ a = Triple(i, n, Blk(fs.di, fs.data, i, n))
      BY <1>2
    <3>2. PICK j \in Inum, m \in Place :
            Blk(fs.di, fs.data, j, m) # 0 /\ o = Triple(j, m, Blk(fs.di, fs.data, j, m))
      BY <1>2
    <3>3. f[a] = Blk(fs.di, fs.data, i, n) /\ f[o] = Blk(fs.di, fs.data, j, m)
      BY <3>1, <3>2, TripleIs
    <3>4. i = j /\ n = m
      BY <1>1, <2>2, <3>1, <3>3 DEF OneOwner
    <3>. QED  BY <3>1, <3>2, <3>4
  <2>. QED  BY <2>1, <2>2, Zenon DEF Injection, IsInjective
<1>8. f \in Surjection(all, T)
  <2>1. f \in [all -> T] /\ \A b \in T : \E o \in all : f[o] = b
    OBVIOUS
  <2>. QED  BY <2>1, Zenon DEF Surjection
<1>9. Cardinality(T) = Cardinality(all)
  BY <1>6, <1>7, <1>8, FS_Injection
<1>10. fs.used = (0..(nmeta - 1)) \cup T
  <2>1. fs.used \subseteq 0..(FSSIZE - 1) /\ nmeta < FSSIZE /\ nmeta \in Nat /\ nmeta > 0 /\ FSSIZE \in Nat
    BY <1>0, Layout, FsAssumption DEF FsState
  <2>2. \A b \in 0..(FSSIZE - 1) : b \in fs.used <=> b < nmeta \/ b \in T
    <3>1. ASSUME NEW b \in 0..(FSSIZE - 1), \E i \in Inum, n \in Place : Blk(fs.di, fs.data, i, n) = b
          PROVE  b < nmeta \/ b \in T
      BY <1>4, <2>1, <3>1
    <3>. QED  BY <1>1, <1>4, <3>1 DEF Marked
  <2>3. \A b : b \in 0..(nmeta - 1) <=> b \in 0..(FSSIZE - 1) /\ b < nmeta
    BY <2>1
  <2>. QED  BY <1>5, <2>1, <2>2, <2>3
<1>11. \A i \in Inum : \A n \in 0..(MAXFILE - 1) : n * BSIZE < View(i).size => BlockOf(i, n) # 0
  <2>1. \A i \in Inum : View(i) = fs.di[i] /\ \A n \in 0..(MAXFILE - 1) : BlockOf(i, n) = Blk(fs.di, fs.data, i, n)
    BY <1>0, ViewIs, BlockOfIs
  <2>. QED  BY <1>1, <2>1 DEF Whole
<1>. QED  BY <1>9, <1>10, <1>11 DEF BlocksConsistent

\* A cell of inode i.
LEMMA CellAt ==
    ASSUME Shape, Ok(fs), Live, NEW i \in Inum, NEW x \in Offs(fs.di, i)
    PROVE  fs.data[BlockOf(i, x \div BSIZE)][x % BSIZE] = At(fs.di, fs.data, i, x)
<1>1. SizesOf(fs.di) /\ Whole(fs.di, fs.data)
  BY SizesAre DEF Shape, Live
<1>2. x \in Nat /\ x \div BSIZE < MAXFILE
  BY <1>1, OffBlock
<1>3. x \div BSIZE \in 0..(MAXFILE - 1)
  BY <1>2, CellOf, Layout
<1>4. BlockOf(i, x \div BSIZE) = Blk(fs.di, fs.data, i, x \div BSIZE)
  BY <1>3, BlockOfIs
<1>. QED  BY <1>4 DEF At

\* The entries, and the places of a name, in directory d.
LEMMA EntriesAre ==
    ASSUME Shape, Ok(fs), Live, NEW d \in Inum
    PROVE  /\ \A e : e \in Entries(d) <=> e[2] # 0 /\ \E x \in Offs(fs.di, d) : e = At(fs.di, fs.data, d, x)
           /\ \A name, x : x \in Slots(d, name) <=>
                 x \in Offs(fs.di, d) /\ At(fs.di, fs.data, d, x)[1] = name /\ At(fs.di, fs.data, d, x)[2] # 0
<1>1. Offs(fs.di, d) = 0..(View(d).size - 1)
  BY ViewIs DEF Offs
<1>2. \A x \in Offs(fs.di, d) : fs.data[BlockOf(d, x \div BSIZE)][x % BSIZE] = At(fs.di, fs.data, d, x)
  BY CellAt
<1>3. \A e : e \in Entries(d) <=>
         e[2] # 0 /\ \E x \in Offs(fs.di, d) : e = fs.data[BlockOf(d, x \div BSIZE)][x % BSIZE]
  BY <1>1, Zenon DEF Entries
<1>4. \A name, x : x \in Slots(d, name) <=>
         /\ x \in Offs(fs.di, d)
         /\ fs.data[BlockOf(d, x \div BSIZE)][x % BSIZE][1] = name
         /\ fs.data[BlockOf(d, x \div BSIZE)][x % BSIZE][2] # 0
  BY <1>1, Zenon DEF Slots
<1>5. \A e : e \in Entries(d) <=> e[2] # 0 /\ \E x \in Offs(fs.di, d) : e = At(fs.di, fs.data, d, x)
  <2>. TAKE e
  <2>1. ASSUME NEW x \in Offs(fs.di, d)
        PROVE  e = fs.data[BlockOf(d, x \div BSIZE)][x % BSIZE] <=> e = At(fs.di, fs.data, d, x)
    BY <1>2
  <2>. QED  BY <1>3, <2>1
<1>. QED  BY <1>2, <1>4, <1>5

\* A set with one element.
LEMMA OnlyOne ==
    ASSUME NEW S, NEW x \in S, \A y \in S : y = x
    PROVE  Cardinality(S) = 1
<1>1. S = {x}
  OBVIOUS
<1>. QED  BY <1>1, FS_Singleton

\* The directories are sound when no create() is under way.
LEMMA LinksFollow == IInv => LinksCounted
<1>. SUFFICES ASSUME IInv, Ok(fs), \A p \in Process : pc[p] # "link" PROVE LinksCounted
  BY DEF LinksCounted
<1>0. Shape /\ Live /\ fs \in FsState
  BY DEF IInv, Shape
<1>. PICK I : I = fs.di
  OBVIOUS
<1>. PICK D : D = fs.data
  OBVIOUS
<1>1. Tree(I, D, {})
  <2>1. Orphans = {}
    BY DEF Orphans
  <2>. QED  BY <1>0, <2>1 DEF Live
<1>2. \A i \in Inum : View(i) = I[i]
  BY <1>0, ViewIs
<1>3. Dirs = DirSet(I) /\ DirSet(I) \subseteq Inum
  BY <1>2 DEF Dirs, DirSet
<1>4. \A d \in DirSet(I) : \A e : e \in Entries(d) <=> e[2] # 0 /\ \E x \in Offs(I, d) : e = At(I, D, d, x)
  BY <1>0, <1>3, EntriesAre
<1>5. \A d \in DirSet(I) : \A name, x : x \in Slots(d, name) <=>
                 x \in Offs(I, d) /\ At(I, D, d, x)[1] = name /\ At(I, D, d, x)[2] # 0
  BY <1>0, <1>3, EntriesAre
<1>6. \A i \in Inum : i # 0
  BY DEF Inum
<1>7. ASSUME NEW d \in DirSet(I) PROVE Pair(".", d) \in Entries(d)
  <2>1. PICK x \in Offs(I, d) : At(I, D, d, x) = Pair(".", d)
    BY <1>1 DEF Tree, Dotted
  <2>2. Pair(".", d)[2] # 0
    BY <1>3, <1>6, PairIs
  <2>. QED  BY <1>4, <2>1, <2>2
<1>8. ASSUME NEW d \in DirSet(I), NEW e \in Entries(d)
      PROVE  View(e[2]).type # "0" /\ Cardinality(Slots(d, e[1])) = 1
  <2>1. PICK x \in Offs(I, d) : e = At(I, D, d, x) /\ e[2] # 0
    BY <1>4, <1>8
  <2>2. e[2] \in Inum /\ I[e[2]].type # "0"
    BY <1>1, <2>1 DEF Tree, Leads
  <2>3. x \in Slots(d, e[1])
    BY <1>5, <2>1
  <2>4. ASSUME NEW y \in Slots(d, e[1]) PROVE y = x
    <3>1. y \in Offs(I, d) /\ At(I, D, d, y)[1] = e[1] /\ At(I, D, d, y)[2] # 0
      BY <1>5, <2>4
    <3>. QED  BY <1>1, <2>1, <3>1 DEF Tree, Distinct
  <2>5. Cardinality(Slots(d, e[1])) = 1
    BY <2>3, <2>4, OnlyOne
  <2>. QED  BY <1>2, <2>2, <2>5
<1>9. ASSUME NEW i \in Inum, View(i).type # "0"
      PROVE  View(i).nlink = 1 + Cardinality({d \in Dirs \ {ROOTINO} : Pair("..", i) \in Entries(d)})
  <2>1. {d \in Dirs \ {ROOTINO} : Pair("..", i) \in Entries(d)} = Below(I, D, i)
    <3>1. Pair("..", i)[2] # 0
      BY <1>6, PairIs
    <3>2. \A d \in DirSet(I) : Pair("..", i) \in Entries(d) <=> \E x \in Offs(I, d) : Pair("..", i) = At(I, D, d, x)
      BY <1>4, <3>1
    <3>. QED  BY <1>3, <3>2 DEF Below
  <2>. QED  BY <1>1, <1>2, <1>9, <2>1 DEF Tree, Counted
<1>10. ASSUME NEW i \in Inum, View(i).type # "0", i # ROOTINO
       PROVE  Cardinality({e \in Dirs \X {i} : \E x \in Entries(e[1]) : x[2] = i /\ x[1] \notin {".", ".."}}) = 1
  <2>. PICK S : S = {e \in Dirs \X {i} : \E x \in Entries(e[1]) : x[2] = i /\ x[1] \notin {".", ".."}}
    OBVIOUS
  <2>0. PICK d \in DirSet(I) : \E x \in Offs(I, d) : UpAt(I, D, d, x, i)
    BY <1>1, <1>2, <1>10 DEF Tree, Reached
  <2>1. PICK x \in Offs(I, d) : UpAt(I, D, d, x, i)
    BY <2>0
  <2>2. At(I, D, d, x) \in Entries(d) /\ At(I, D, d, x)[2] = i /\ At(I, D, d, x)[1] \notin {".", ".."}
    BY <1>4, <1>6, <2>1 DEF UpAt
  <2>3. Pair(d, i) \in S
    <3>1. Pair(d, i) \in Dirs \X {i} /\ Pair(d, i)[1] = d
      BY <1>3 DEF Pair
    <3>. QED  BY <2>2, <3>1
  <2>4. ASSUME NEW e \in S PROVE e = Pair(d, i)
    <3>1. e = Pair(e[1], i) /\ e[1] \in DirSet(I)
      BY <1>3 DEF Pair
    <3>2. PICK c \in Entries(e[1]) : c[2] = i /\ c[1] \notin {".", ".."}
      BY <2>4
    <3>3. PICK y \in Offs(I, e[1]) : c = At(I, D, e[1], y)
      BY <1>4, <3>1, <3>2
    <3>4. UpAt(I, D, e[1], y, i)
      BY <3>2, <3>3 DEF UpAt
    <3>5. e[1] = d
      BY <1>1, <2>1, <3>1, <3>4 DEF Tree, Parented
    <3>. QED  BY <3>1, <3>5
  <2>. QED  BY <2>3, <2>4, OnlyOne
<1>11. ASSUME NEW d \in Dirs PROVE /\ <<".", d>> \in Entries(d)
                                   /\ \A e \in Entries(d) : /\ View(e[2]).type # "0"
                                                            /\ Cardinality(Slots(d, e[1])) = 1
  BY <1>3, <1>7, <1>8, <1>11, Zenon DEF Pair
<1>12. ASSUME NEW i \in Inum, View(i).type # "0"
       PROVE  View(i).nlink = 1 + Cardinality({d \in Dirs \ {ROOTINO} : <<"..", i>> \in Entries(d)})
  BY <1>9, <1>12, Zenon DEF Pair
<1>. QED  BY <1>10, <1>11, <1>12, Zenon DEF LinksCounted

-----------------------------------------------------------------------------
(* The initial state *)

BootEntry(s) == [inum |-> IF s = 1 THEN ROOTINO ELSE 0, ref |-> IF s = 1 THEN 1 ELSE 0,
                 valid |-> FALSE, lock |-> NoProc, ino |-> NoInode]
\* An entry of the inode cache of a new kernel.
LEMMA BootEntryIs ==
    ASSUME NEW s \in Slot, NEW e, e = BootEntry(s)
    PROVE  /\ e \in InodeRec /\ e.inum = (IF s = 1 THEN ROOTINO ELSE 0) /\ e.ref = (IF s = 1 THEN 1 ELSE 0)
           /\ ~e.valid /\ e.lock = NoProc
<1>1. NoInode \in Dinode
  <2>1. NoAddrs \in [0..NDIRECT -> 0..(FSSIZE - 1)]
    BY Types
  <2>. QED  BY <2>1 DEF NoInode, Dinode
<1>2. ROOTINO \in Inum
  BY Layout
<1>. QED  BY <1>1, <1>2 DEF BootEntry, InodeRec

\* The file system of a new kernel.
BootFs(F) ==
    /\ F \in FsState /\ F.log = {} /\ Ok(F) /\ F.ic = [s \in Slot |-> BootEntry(s)]
    /\ Blocks(F.di, F.data, F.used) /\ Whole(F.di, F.data) /\ Tree(F.di, F.data, {})

\* The image of mkfs, with the root in the inode cache and nothing else, is consistent.
LEMMA BootIs ==
    ASSUME NEW F, F = Booted(Files)
    PROVE  BootFs(F)
<1>. PICK M : M = Image(Files)
  OBVIOUS
<1>1. Img(M) /\ Whole(M.di, M.data) /\ Tree(M.di, M.data, {})
  BY ImageSound
<1>2. M \in Im /\ M.di \in Inodes /\ M.data \in Datas /\ Blocks(M.di, M.data, 0..(M.freeblock - 1))
  BY <1>1, ImTypes DEF Img
<1>3. F = [ di |-> M.di, data |-> M.data, used |-> 0..(M.freeblock - 1),
            ic |-> [s \in Slot |-> BootEntry(s)], log |-> {}, panic |-> "no" ]
  BY DEF Booted, Mounted, BootEntry
<1>4. [s \in Slot |-> BootEntry(s)] \in [Slot -> InodeRec]
  BY BootEntryIs
<1>5. 0..(M.freeblock - 1) \subseteq 0..(FSSIZE - 1)
  <2>1. M.freeblock \in Nat /\ M.freeblock <= FSSIZE /\ FSSIZE \in Nat
    BY <1>2, ImTypes, Layout
  <2>. QED  BY <2>1
<1>. PICK X, Y, U, C : X = M.di /\ Y = M.data /\ U = 0..(M.freeblock - 1) /\ C = [s \in Slot |-> BootEntry(s)]
  OBVIOUS
<1>6. F = [di |-> X, data |-> Y, used |-> U, ic |-> C, log |-> {}, panic |-> "no"]
  BY <1>3
<1>7. [di |-> X, data |-> Y, used |-> U, ic |-> C, log |-> {}, panic |-> "no"] \in FsState
  BY <1>2, <1>4, <1>5 DEF FsState, Reason
<1>8. F.di = X /\ F.data = Y /\ F.used = U /\ F.ic = C /\ F.log = {} /\ F.panic = "no" /\ F \in FsState
  BY <1>6, <1>7
<1>. QED  BY <1>1, <1>2, <1>8 DEF BootFs, Ok

\* The counts of an initial state.
LEMMA InitRefs ==
    ASSUME Init
    PROVE  IRefs /\ FRefs
<1>1. BootFs(fs)
  BY BootIs DEF Init
<1>2. Cardinality({}) = 0 /\ Cardinality({initproc}) = 1
  BY FS_EmptySet, FS_Singleton
<1>3. initproc \in Process
  BY FsAssumption
<1>4. ASSUME NEW s \in Slot
      PROVE  fs.ic[s].ref = CwdCount(cwd, s) + FileCount(ftable, s) + IpCount(loc, s) + DpCount(loc, s)
  <2>0. s # 0 /\ fs.ic[s] = BootEntry(s)
    BY <1>1 DEF BootFs, Slot
  <2>1. FileCount(ftable, s) = 0
    <3>1. {f \in File : FileIp(ftable[f]) = s} = {}
      BY <2>0 DEF Init, FileIp, NoFile
    <3>. QED  BY <1>2, <3>1 DEF FileCount
  <2>2. IpCount(loc, s) = 0 /\ DpCount(loc, s) = 0
    <3>1. {q \in Process : loc[q].ip = s} = {} /\ {q \in Process : loc[q].dp = s} = {}
      BY <2>0 DEF Init, Idle
    <3>. QED  BY <1>2, <3>1 DEF IpCount, DpCount
  <2>3. CwdCount(cwd, s) = IF s = 1 THEN 1 ELSE 0
    <3>1. \A q \in Process : cwd[q] = IF q = initproc THEN 1 ELSE 0
      BY DEF Init
    <3>2. CASE s = 1
      <4>1. {q \in Process : cwd[q] = s} = {initproc}
        BY <1>3, <3>1, <3>2
      <4>. QED  BY <1>2, <3>2, <4>1 DEF CwdCount
    <3>3. CASE s # 1
      <4>1. {q \in Process : cwd[q] = s} = {}
        BY <2>0, <3>1, <3>3
      <4>. QED  BY <1>2, <3>3, <4>1 DEF CwdCount
    <3>. QED  BY <3>2, <3>3
  <2>4. fs.ic[s].ref = IF s = 1 THEN 1 ELSE 0
    BY <2>0, BootEntryIs
  <2>. QED  BY <2>1, <2>2, <2>3, <2>4
<1>5. ASSUME NEW f \in File
      PROVE  ftable[f].ref = FileRefs(ofile, pc, loc, f)
  <2>1. f # 0
    BY DEF File
  <2>2. \A q \in Process : \A fd \in Fd : Desc(ofile, pc, loc, q, fd) = 0
    BY DEF Init, Desc
  <2>3. Descs(ofile, pc, loc, f) = {}
    BY <2>1, <2>2 DEF Descs
  <2>4. ftable[f].ref = 0
    BY DEF Init, NoFile
  <2>. QED  BY <1>2, <2>3, <2>4 DEF FileRefs
<1>. QED  BY <1>4, <1>5 DEF IRefs, FRefs

\* The types of an initial state.
LEMMA InitShape == Init => Shape
<1>. SUFFICES ASSUME Init PROVE Shape
  OBVIOUS
<1>1. BootFs(fs)
  BY BootIs DEF Init
<1>2. Idle \in LocRec
  <2>1. <<>> \in Seq(Name) /\ <<>> \in Seq(Nat)
    OBVIOUS
  <2>. QED  BY <2>1 DEF Idle, LocRec, Calls
<1>3. NoFile \in FileRec
  BY DEF NoFile, FileRec
<1>4. 1 \in Slot
  BY Layout DEF Slot
<1>5. Tables
  <2>1. lg \in [Process -> SUBSET Nat] /\ ftable \in [File -> FileRec]
    BY <1>3 DEF Init
  <2>2. ofile \in [Process -> [Fd -> File \cup {0}]] /\ cwd \in [Process -> Slot \cup {0}]
    BY <1>4 DEF Init
  <2>3. pc \in [Process -> Pc] /\ loc \in [Process -> LocRec]
    BY <1>2 DEF Init, Pc
  <2>4. calls \in 0..MaxCalls
    BY FsAssumption DEF Init
  <2>. QED  BY <2>1, <2>2, <2>3, <2>4 DEF Tables
<1>6. OneEntry(fs.ic)
  <2>1. \A s \in Slot : fs.ic[s].ref > 0 => s = 1
    <3>1. ASSUME NEW s \in Slot, fs.ic[s].ref > 0 PROVE s = 1
      <4>1. fs.ic[s] = BootEntry(s)
        BY <1>1 DEF BootFs
      <4>2. fs.ic[s].ref = IF s = 1 THEN 1 ELSE 0
        BY <4>1, BootEntryIs
      <4>. QED  BY <3>1, <4>2
    <3>. QED  BY <3>1
  <2>. QED  BY <2>1 DEF OneEntry
<1>. QED  BY <1>1, <1>5, <1>6 DEF Shape, BootFs

\* The invariant holds at first.
LEMMA IInvInit == Init => IInv
<1>. SUFFICES ASSUME Init PROVE IInv
  OBVIOUS
<1>1. BootFs(fs)
  BY BootIs DEF Init
<1>2. Shape
  BY InitShape
<1>3. \A p \in Process : pc[p] = (IF p = initproc THEN "user" ELSE "none") /\ loc[p] = Idle /\ lg[p] = {}
                         /\ cwd[p] = IF p = initproc THEN 1 ELSE 0
  BY DEF Init
<1>4. ROOTINO \in Inum /\ fs.di[ROOTINO].type = "DIR" /\ 1 \in Slot
  BY <1>1, Layout DEF BootFs, Tree, Unlinked, Slot
<1>5. CacheOK(fs.di, fs.ic)
  <2>1. ASSUME NEW s \in Slot
        PROVE  /\ fs.ic[s].ref > 0 => fs.ic[s].inum = ROOTINO
               /\ ~fs.ic[s].valid /\ fs.ic[s].lock = NoProc
    <3>1. fs.ic[s] = BootEntry(s)
      BY <1>1 DEF BootFs
    <3>2. /\ fs.ic[s].inum = (IF s = 1 THEN ROOTINO ELSE 0) /\ fs.ic[s].ref = (IF s = 1 THEN 1 ELSE 0)
          /\ ~fs.ic[s].valid /\ fs.ic[s].lock = NoProc
      BY <3>1, BootEntryIs
    <3>. QED  BY <3>2
  <2>2. \A s \in Slot : fs.ic[s].ref > 0 => fs.ic[s].inum \in Inum /\ fs.di[fs.ic[s].inum].type # "0"
    BY <1>4, <2>1
  <2>. QED  BY <2>1, <2>2 DEF CacheOK
<1>6. \A s \in Slot : Held(s)
  <2>1. ASSUME NEW s \in Slot PROVE fs.ic[s].lock = NoProc
    <3>1. fs.ic[s] = BootEntry(s)
      BY <1>1 DEF BootFs
    <3>. QED  BY <3>1, BootEntryIs
  <2>. QED  BY <2>1 DEF Held
<1>7. RefsCounted
  BY InitRefs, RefsAre
<1>8. \A p \in Process : Doing(p)
  <2>1. \A p \in Process : \A fd \in Fd : ofile[p][fd] = 0
    BY DEF Init
  <2>. QED  BY <1>3, <1>4, <2>1 DEF Doing
<1>9. \A f \in File : FileOK(f)
  <2>1. \A f \in File : ftable[f].type = "NONE" /\ ftable[f].ref = 0
    BY DEF Init, NoFile
  <2>. QED  BY <2>1 DEF FileOK
<1>10. Orphans = {}
  BY <1>3 DEF Orphans
<1>11. \A p \in Process : Logged(p)
  BY <1>3 DEF Logged
<1>12. Live
  BY <1>1, <1>5, <1>6, <1>7, <1>8, <1>9, <1>10, <1>11 DEF Live, BootFs
<1>13. OnlyFullTablesPanic
  BY <1>1 DEF OnlyFullTablesPanic, BootFs, Ok
<1>14. OpFits
  <2>1. Cardinality({}) = 0 /\ 0 <= MaxLogged
    BY FS_EmptySet, LoggedBound
  <2>. QED  BY <1>3, <2>1 DEF OpFits
<1>. QED  BY <1>2, <1>12, <1>13, <1>14 DEF IInv

-----------------------------------------------------------------------------
(* Theorems *)

\* The inductive invariant of the file system calls: as long as nothing has
\* panicked the inode cache, the tables, the calls under way, the blocks and the
\* directories agree (Live), and a panic is one of OnlyFullTablesPanic.
THEOREM Inductive == Spec => []IInv
<1>1. Init => IInv
  BY IInvInit
<1>2. IInv /\ [Next]_vars => IInv'
  BY IInvKept
<1>. QED  BY <1>1, <1>2, PTL DEF Spec

\* Reference counts: an entry of the inode cache counts the current
\* directories, open files and calls that point to it (iget(), idup(), iput()),
\* an open file the descriptors that name it (file_dup(), file_close()).
THEOREM RefsAlwaysCounted == Spec => []RefsCounted
<1>1. IInv => RefsCounted
  BY DEF IInv, Live, RefsCounted
<1>. QED  BY <1>1, Inductive, PTL

\* The inode cache: the types of all tables, one entry for each inode in use,
\* and an unlocked valid copy is what the disk holds.
THEOREM CacheAlwaysOK == Spec => []ICacheOK
BY CacheFollows, Inductive, PTL

\* Blocks: balloc() and bmap() never give a block to two owners, the bitmap
\* marks the blocks with an owner and the metadata and no other, files have no
\* holes.
THEOREM BlocksAlwaysConsistent == Spec => []BlocksConsistent
BY BlocksFollow, Inductive, PTL

\* When no create() is between ialloc() and its dirlink(): "." is the directory
\* itself, names are unique, entries lead to inodes in use, every inode in use
\* but the root has exactly one entry, and nlink counts it and the ".." below.
THEOREM LinksAlwaysCounted == Spec => []LinksCounted
BY LinksFollow, Inductive, PTL

\* The only panics are those of a full table: no free entry of the inode cache
\* (iget()), no free inode (ialloc()), no free block (balloc()), and the file that
\* open() closes when the process has no descriptor left.
THEOREM OnlyFullTables == Spec => []OnlyFullTablesPanic
<1>1. IInv => OnlyFullTablesPanic
  BY DEF IInv
<1>. QED  BY <1>1, Inductive, PTL

\* A call logs at most MaxLogged of the MAXOPBLOCKS blocks reserved for it,
\* whatever filewrite(), bmap() and create() do in it.
THEOREM OpAlwaysFits == Spec => []OpFits
<1>1. IInv => OpFits
  BY DEF IInv
<1>. QED  BY <1>1, Inductive, PTL

\* A process that holds the lock of an inode never waits for another: sleeping
\* on ip->lock cannot deadlock.
THEOREM HoldersAlwaysRun == Spec => []HoldersRun
BY HoldersFollow, Inductive, PTL
=============================================================================
