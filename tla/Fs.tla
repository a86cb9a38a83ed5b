--------------------------------- MODULE Fs ----------------------------------
(***************************************************************************)
(* Open files and the file system calls of kern/file.c and                 *)
(* kern/sysfile.c, run by several processes over the file system of module *)
(* Inode, with the parts of fork() and exit() that handle files.           *)
(*                                                                         *)
(* A step lies between two points where a process may wait for the sleep   *)
(* lock of an inode or leaves a transaction; what it does to the bitmap,   *)
(* to a free disk inode or to the tables is done under a buffer's lock or  *)
(* a spin lock in the code.  A wait in begin_op() is a step not yet taken  *)
(* (module Log shows that it ends).  A panic stops the kernel.             *)
(***************************************************************************)
EXTENDS Inode

CONSTANTS Process, initproc,
          Path,          \* [abs, elems]: what skipelem() makes of a path
          Files,         \* the files mkfs puts into the image
          NFILE,         \* open files of the system
          NOFILE,        \* open files of a process
          MAXOPBLOCKS,   \* blocks one operation may log
          MaxCalls,      \* bound: calls other than fork, over all processes
          Lens           \* lengths of a read or a write, in cells

ASSUME FsAssumption ==
    /\ IsFiniteSet(Process) /\ initproc \in Process /\ NoProc \notin Process
    /\ {NFILE, NOFILE, MAXOPBLOCKS, MaxCalls} \subseteq Nat /\ MAXOPBLOCKS > 5
    /\ \A q \in Path : q \in [abs : BOOLEAN, elems : Seq(STRING)]
    /\ Files \in Seq([name : STRING, size : Nat])
    /\ Lens \subseteq Nat \ {0} /\ \E m \in Lens : \A n \in Lens : n <= m
    /\ BSIZE > 1                       \* "." and ".." share a block
    /\ NINODES < MAXFILE * BSIZE       \* a directory holds an entry for every inode
    /\ nmeta < FSSIZE                  \* there are data blocks

\* mkfs ran to its end.  The root does not end with a block: RoundRoot() would
\* add one more that is not there.
ASSUME FilesAssumption ==
    /\ Image(Files).ok /\ Len(Files) + 2 <= NINODES /\ (Len(Files) + 2) % BSIZE # 0
    /\ \A k \in DOMAIN Files : Files[k].name \notin {".", ".."}
    /\ \A k, l \in DOMAIN Files : Files[k].name = Files[l].name => k = l

File == 1..NFILE               \* entries of ftable; 0 is a null pointer
Fd == 0..(NOFILE - 1)
NoFile == [ref |-> 0, type |-> "NONE", ip |-> 0, off |-> 0, r |-> FALSE, w |-> FALSE]
Idle == [call |-> "-", path |-> <<>>, ip |-> 0, dp |-> 0, f |-> 0, fd |-> 0, iov |-> <<>>]
Creates == {"creat", "mkdir", "mknod"}
PathCalls == Creates \cup {"open_r", "open_rw", "stat", "chdir"}

VARIABLES
    fs,       \* the file system, see Inode
    lg,       \* [Process -> blocks logged by its last transaction]
    ftable,   \* ftable.file
    ofile,    \* [Process -> [Fd -> entry of ftable]]
    cwd,      \* [Process -> entry of the inode cache]
    pc, loc,  \* [Process -> place in a call, its local variables]
    calls     \* calls made so far

vars == <<fs, lg, ftable, ofile, cwd, pc, loc, calls>>
tables == <<ftable, ofile, cwd>>

Init ==
    /\ fs = Booted(Files)
    /\ lg = [p \in Process |-> {}]
    /\ ftable = [f \in File |-> NoFile]
    /\ ofile = [p \in Process |-> [fd \in Fd |-> 0]]
    /\ cwd = [p \in Process |-> IF p = initproc THEN 1 ELSE 0]
    /\ pc = [p \in Process |-> IF p = initproc THEN "user" ELSE "none"]
    /\ loc = [p \in Process |-> Idle]
    /\ calls = 0

-----------------------------------------------------------------------------
(* Steps *)

\* The step leaves the file system as G, inside the transaction of p.
Set(p, G) ==
    /\ fs' = [G EXCEPT !.log = {}]
    /\ lg' = [lg EXCEPT ![p] = @ \cup G.log]

\* The step is a whole transaction, begin_op() to end_op(), or its beginning.
SetOp(p, G) ==
    /\ fs' = [G EXCEPT !.log = {}]
    /\ lg' = [lg EXCEPT ![p] = G.log]

\* The step is outside any transaction: log_write() panics.
SetOutside(G) ==
    /\ fs' = IF G.log = {} THEN G ELSE Panic([G EXCEPT !.log = {}], "log_write")
    /\ UNCHANGED lg

Running(p, at) == Ok(fs) /\ pc[p] = at
Goto(p, at, l) == pc' = [pc EXCEPT ![p] = at] /\ loc' = [loc EXCEPT ![p] = l]
Return(p) == Goto(p, "user", Idle)
Call(p) == Running(p, "user") /\ calls < MaxCalls /\ calls' = calls + 1

-----------------------------------------------------------------------------
(* Path names: namex() *)

\* begin_op() and the start of namex(), in every call with a path.
Begin(p, call, path) ==
    /\ Call(p)
    /\ LET r == IF path.abs THEN iget(fs, ROOTINO)
                ELSE [fs |-> idup(fs, cwd[p]), s |-> cwd[p]]
       IN  /\ SetOp(p, r.fs)
           /\ Goto(p, "walk", [Idle EXCEPT !.call = call, !.path = path.elems, !.ip = r.s])
    /\ UNCHANGED tables

\* The call fails with the file system as G: end_op() and -1.
Fail(p, G) == Set(p, G) /\ Return(p)

\* One element of the path, looked up under the directory's lock.
Walk(p) ==
    LET l    == loc[p]
        last == l.call \in Creates /\ Len(l.path) = 1
    IN  /\ Running(p, "walk") /\ l.path # <<>> /\ Unlocked(fs, l.ip)
        /\ \E L \in {ilock(fs, l.ip, p)} :
             \/ /\ ino(L, l.ip).type # "DIR"
                /\ Fail(p, iunlockput(L, l.ip, p))
             \/ /\ ino(L, l.ip).type = "DIR" /\ last
                /\ Set(p, iunlock(L, l.ip, p))
                /\ Goto(p, "parent", [l EXCEPT !.dp = l.ip, !.ip = 0])
             \/ /\ ino(L, l.ip).type = "DIR" /\ ~last
                /\ \E r \in {dirlookup(L, l.ip, Head(l.path))} :
                     \/ /\ r.s = 0
                        /\ Fail(p, iunlockput(r.fs, l.ip, p))
                     \/ /\ r.s # 0
                        /\ Set(p, iunlockput(r.fs, l.ip, p))
                        /\ Goto(p, "walk", [l EXCEPT !.ip = r.s, !.path = Tail(@)])
        /\ UNCHANGED <<tables, calls>>

\* The path is used up: the inode is found; a path without a last element has
\* no parent.
WalkEnd(p) ==
    LET l == loc[p] IN
    /\ Running(p, "walk") /\ l.path = <<>>
    /\ IF l.call \in Creates THEN Fail(p, iput(fs, l.ip))
       ELSE Goto(p, "found", l) /\ UNCHANGED <<fs, lg>>
    /\ UNCHANGED <<tables, calls>>

-----------------------------------------------------------------------------
(* create(), for open(O_CREAT), mkdir and mknod *)

\* Lock the parent and look for the name; if it is new the lock stays.
CreateLookup(p) ==
    LET l == loc[p] IN
    /\ Running(p, "parent") /\ Unlocked(fs, l.dp)
    /\ \E r \in {dirlookup(ilock(fs, l.dp, p), l.dp, Last(l.path))} :
         \/ /\ r.s = 0
            /\ Set(p, r.fs) /\ Goto(p, "new", l)
         \/ /\ r.s # 0
            /\ Set(p, iunlockput(r.fs, l.dp, p))
            /\ Goto(p, "exists", [l EXCEPT !.ip = r.s, !.dp = 0])
    /\ UNCHANGED <<tables, calls>>

\* The name exists: good enough only for open() of a file.
Exists(p) ==
    LET l == loc[p] IN
    /\ Running(p, "exists") /\ Unlocked(fs, l.ip)
    /\ \E L \in {ilock(fs, l.ip, p)} :
         IF l.call = "creat" /\ ino(L, l.ip).type = "FILE"
         THEN Set(p, L) /\ Goto(p, "opened", l)
         ELSE Fail(p, iunlockput(L, l.ip, p))
    /\ UNCHANGED <<tables, calls>>

TypeOf(call) == CASE call = "creat" -> "FILE" [] call = "mkdir" -> "DIR"
                  [] call = "mknod" -> "DEV"

\* The fields of a new inode, written back.
Fresh(L, s, call) ==
    iupdate([L EXCEPT !.ic[s].ino.nlink = 1,
                      !.ic[s].ino.major = IF call = "mknod" THEN CONSOLE ELSE 0], s)

\* ialloc(), ilock() and the fields of the new inode.
CreateAlloc(p) ==
    LET l == loc[p] IN
    /\ Running(p, "new")
    /\ \E r \in {ialloc(fs, TypeOf(l.call))} :
         \/ /\ r.s = 0
            /\ Set(p, r.fs) /\ UNCHANGED <<pc, loc>>
         \/ /\ r.s # 0 /\ Unlocked(r.fs, r.s)
            /\ Set(p, Fresh(ilock(r.fs, r.s, p), r.s, l.call))
            /\ Goto(p, "link", [l EXCEPT !.ip = r.s])
    /\ UNCHANGED <<tables, calls>>

\* A link that create() relies on.
MustLink(F, s, name, inum) ==
    IF ~Ok(F) THEN [fs |-> F, ok |-> FALSE] ELSE dirlink(F, s, name, inum)
Checked(e) == IF e.ok THEN e.fs ELSE Panic(e.fs, "create: link")
Link(F, s, name, inum) == Checked(MustLink(F, s, name, inum))

\* Mutant: the parent does not count the new directory's "..".
DotsUncounted(F, ip, dp) ==
    Link(Link(F, ip, ".", F.ic[ip].inum), ip, "..", F.ic[dp].inum)

\* "." and ".." of a new directory, whose ".." is a link to the parent.
Dots(F, ip, dp) ==
    Link(Link(iupdate([F EXCEPT !.ic[dp].ino.nlink = @ + 1], dp),
              ip, ".", F.ic[ip].inum), ip, "..", F.ic[dp].inum)

\* The entries, then create() returns; mkdir and mknod are done with it.
CreateLink(p) ==
    LET l == loc[p] IN
    /\ Running(p, "link")
    /\ \E D \in {IF l.call = "mkdir" THEN Dots(fs, l.ip, l.dp) ELSE fs} :
       \E E \in {Link(D, l.dp, Last(l.path), fs.ic[l.ip].inum)} :
         \/ /\ ~Ok(E)
            /\ Set(p, E) /\ UNCHANGED <<pc, loc>>
         \/ /\ Ok(E) /\ l.call = "creat"
            /\ Set(p, iunlockput(E, l.dp, p)) /\ Goto(p, "opened", [l EXCEPT !.dp = 0])
         \/ /\ Ok(E) /\ l.call # "creat"
            /\ Set(p, iunlockput(iunlockput(E, l.dp, p), l.ip, p)) /\ Return(p)
    /\ UNCHANGED <<tables, calls>>

-----------------------------------------------------------------------------
(* open(), stat() and chdir() of what namei() found *)

FoundOpen(p) ==
    LET l == loc[p]
        L == ilock(fs, l.ip, p)
    IN  /\ Running(p, "found") /\ l.call \in {"open_r", "open_rw"} /\ Unlocked(fs, l.ip)
        /\ IF ino(L, l.ip).type = "DIR" /\ l.call # "open_r"
           THEN Fail(p, iunlockput(L, l.ip, p))
           ELSE Set(p, L) /\ Goto(p, "opened", l)
        /\ UNCHANGED <<tables, calls>>

\* Mutant: sys_fstatat() drops the inode without unlocking it.
StatKeepsLock(p) ==
    LET l == loc[p]
        L == ilock(fs, l.ip, p)
    IN  /\ Running(p, "found") /\ l.call = "stat" /\ Unlocked(fs, l.ip)
        /\ Set(p, iput(L, l.ip)) /\ Return(p)
        /\ UNCHANGED <<tables, calls>>

\* stati() panics on an inode without a type, which ilock() has ruled out.
FoundStat(p) ==
    LET l == loc[p]
        L == ilock(fs, l.ip, p)
    IN  /\ Running(p, "found") /\ l.call = "stat" /\ Unlocked(fs, l.ip)
        /\ Set(p, iunlockput(L, l.ip, p)) /\ Return(p)
        /\ UNCHANGED <<tables, calls>>

FoundChdir(p) ==
    LET l == loc[p]
        L == ilock(fs, l.ip, p)
    IN  /\ Running(p, "found") /\ l.call = "chdir" /\ Unlocked(fs, l.ip)
        /\ IF ino(L, l.ip).type # "DIR"
           THEN Fail(p, iunlockput(L, l.ip, p)) /\ UNCHANGED cwd
           ELSE /\ Set(p, iput(iunlock(L, l.ip, p), cwd[p])) /\ Return(p)
                /\ cwd' = [cwd EXCEPT ![p] = l.ip]
        /\ UNCHANGED <<ftable, ofile, calls>>

FreeFds(p) == {fd \in Fd : ofile[p][fd] = 0}

\* The rest of sys_openat(): file_alloc(), fdalloc(), the file's fields.  With
\* a full descriptor table file_close() meets a file without a type.
Opened(p) ==
    LET l    == loc[p]
        free == {f \in File : ftable[f].ref = 0}
        f    == Min(free)
    IN  /\ Running(p, "opened")
        /\ \/ /\ free = {}
              /\ Fail(p, iunlockput(fs, l.ip, p)) /\ UNCHANGED tables
           \/ /\ free # {} /\ FreeFds(p) = {}
              /\ Set(p, Panic(fs, "file_close: no type"))
              /\ UNCHANGED <<tables, pc, loc>>
           \/ /\ free # {} /\ FreeFds(p) # {}
              /\ Set(p, iunlock(fs, l.ip, p))
              /\ ftable' = [ftable EXCEPT ![f] =
                    [ref |-> 1, type |-> "INODE", ip |-> l.ip, off |-> 0,
                     r |-> l.call # "creat", w |-> l.call # "open_r"]]
              /\ ofile' = [ofile EXCEPT ![p][Min(FreeFds(p))] = f]
              /\ Return(p) /\ UNCHANGED cwd
        /\ UNCHANGED calls

-----------------------------------------------------------------------------
(* Descriptors: dup(), close(), read(), fstat(), write() and writev() *)

\* sys_dup(): the descriptor first, then the count.
Dup(p, fd) ==
    /\ Call(p) /\ ofile[p][fd] # 0 /\ FreeFds(p) # {}
    /\ ofile' = [ofile EXCEPT ![p][Min(FreeFds(p))] = ofile[p][fd]]
    /\ ftable' = [ftable EXCEPT ![ofile[p][fd]].ref = @ + 1]
    /\ UNCHANGED <<fs, lg, cwd, pc, loc>>

\* file_close(): the last reference frees the entry, then releases the inode
\* in a transaction of its own.
FileClose(p, f, l, back) ==
    IF ftable[f].ref > 1
    THEN /\ ftable' = [ftable EXCEPT ![f].ref = @ - 1]
         /\ Goto(p, back, Idle)
         /\ UNCHANGED <<fs, lg>>
    ELSE IF ftable[f].ref = 1 /\ ftable[f].type = "INODE"
    THEN /\ ftable' = [ftable EXCEPT ![f] = [@ EXCEPT !.ref = 0, !.type = "NONE"]]
         /\ Goto(p, "put", [l EXCEPT !.ip = ftable[f].ip])
         /\ UNCHANGED <<fs, lg>>
    ELSE /\ Set(p, Panic(fs, "file_close"))
         /\ UNCHANGED <<ftable, pc, loc>>

\* sys_close(): the descriptor is cleared first.
Close(p, fd) ==
    /\ Call(p) /\ ofile[p][fd] # 0
    /\ ofile' = [ofile EXCEPT ![p][fd] = 0]
    /\ FileClose(p, ofile[p][fd], [Idle EXCEPT !.call = "close"], "user")
    /\ UNCHANGED cwd

\* begin_op(), iput() and end_op() of file_close(); exit() then clears the
\* descriptor it was closing.
ClosePut(p) ==
    LET l == loc[p] IN
    /\ Running(p, "put")
    /\ SetOp(p, iput(fs, l.ip))
    /\ IF l.call = "close" THEN Return(p) /\ UNCHANGED ofile
       ELSE /\ Goto(p, "exit", Idle)
            /\ ofile' = [ofile EXCEPT ![p][l.fd] = 0]
    /\ UNCHANGED <<ftable, cwd, calls>>

\* sys_read() and file_read(): no transaction.
Read(p, fd, n) ==
    LET f == ofile[p][fd]
        s == ftable[f].ip
    IN  /\ Call(p) /\ f # 0 /\ ftable[f].r /\ Unlocked(fs, s)
        /\ \E r \in {readi(ilock(fs, s, p), s, ftable[f].off, n)} :
             /\ SetOutside(iunlock(r.fs, s, p))
             /\ ftable' = [ftable EXCEPT ![f].off = @ + Len(r.out)]
        /\ UNCHANGED <<ofile, cwd, pc, loc>>

\* sys_fstat() and file_stat().
Fstat(p, fd) ==
    LET s == ftable[ofile[p][fd]].ip IN
    /\ Call(p) /\ ofile[p][fd] # 0 /\ Unlocked(fs, s)
    /\ SetOutside(iunlock(ilock(fs, s, p), s, p))
    /\ UNCHANGED <<tables, pc, loc>>

\* sys_write() and sys_writev(): file_write() of each buffer in turn.
Write(p, fd, iov) ==
    /\ Call(p) /\ ofile[p][fd] # 0 /\ ftable[ofile[p][fd]].w
    /\ Goto(p, "write", [Idle EXCEPT !.call = "write", !.f = ofile[p][fd], !.iov = iov])
    /\ UNCHANGED <<fs, lg, tables>>

\* Mutant: a write is one transaction, however long it is.
MaxChunkAll == MAXFILE * BSIZE

\* What one transaction of file_write() may write: room for the inode, the
\* indirect block, the bitmap and a block for data that is not aligned.
MaxChunk == ((MAXOPBLOCKS - 4) \div 2) * BSIZE

\* One round of the loop of file_write().  An error ends this buffer only:
\* sys_writev() goes on with the next.
WriteChunk(p) ==
    LET l  == loc[p]
        s  == ftable[l.f].ip
        n  == Head(l.iov)
        n1 == IF n > MaxChunk THEN MaxChunk ELSE n
    IN  /\ Running(p, "write") /\ Unlocked(fs, s)
        /\ \E w \in {writei(ilock(fs, s, p), s, ftable[l.f].off,
                            [i \in 1..n1 |-> <<"x", 0>>])} :
           \E more \in {IF w.ok /\ n1 < n THEN [l.iov EXCEPT ![1] = n - n1]
                        ELSE Tail(l.iov)} :
             /\ SetOp(p, iunlock(w.fs, s, p))
             /\ ftable' = [ftable EXCEPT ![l.f].off = IF w.ok THEN @ + n1 ELSE @]
             /\ IF more = <<>> THEN Return(p) ELSE Goto(p, "write", [l EXCEPT !.iov = more])
        /\ UNCHANGED <<ofile, cwd, calls>>

-----------------------------------------------------------------------------
(* fork() and exit() *)

\* Mutant: the child's descriptors are not counted.
ForkUncounted(p, q) ==
    /\ Running(p, "user") /\ pc[q] = "none"
    /\ ofile' = [ofile EXCEPT ![q] = ofile[p]]
    /\ cwd' = [cwd EXCEPT ![q] = cwd[p]]
    /\ fs' = idup(fs, cwd[p])
    /\ pc' = [pc EXCEPT ![q] = "user"]
    /\ UNCHANGED <<lg, ftable, loc, calls>>

\* file_dup() of every open file, idup() of the directory.
Fork(p, q) ==
    /\ Running(p, "user") /\ pc[q] = "none"
    /\ ftable' = [f \in File |-> [ftable[f] EXCEPT
                    !.ref = @ + Cardinality({fd \in Fd : ofile[p][fd] = f})]]
    /\ ofile' = [ofile EXCEPT ![q] = ofile[p]]
    /\ cwd' = [cwd EXCEPT ![q] = cwd[p]]
    /\ fs' = idup(fs, cwd[p])
    /\ pc' = [pc EXCEPT ![q] = "user"]
    /\ UNCHANGED <<lg, loc, calls>>

\* exit() by any process but initproc, for which it panics at once: the system
\* stops before anything is changed.
Exit(p) ==
    /\ Call(p) /\ p # initproc
    /\ Goto(p, "exit", Idle)
    /\ UNCHANGED <<fs, lg, tables>>

\* The next open descriptor; it is cleared once file_close() returns.
ExitClose(p) ==
    LET open == {fd \in Fd : ofile[p][fd] # 0}
        fd   == Min(open)
        f    == ofile[p][fd]
    IN  /\ Running(p, "exit") /\ open # {}
        /\ FileClose(p, f, [Idle EXCEPT !.call = "exit", !.fd = fd], "exit")
        /\ ofile' = IF ftable[f].ref > 1 THEN [ofile EXCEPT ![p][fd] = 0] ELSE ofile
        /\ UNCHANGED <<cwd, calls>>

ExitCwd(p) ==
    /\ Running(p, "exit") /\ \A fd \in Fd : ofile[p][fd] = 0
    /\ SetOp(p, iput(fs, cwd[p]))
    /\ cwd' = [cwd EXCEPT ![p] = 0]
    /\ Goto(p, "zombie", Idle)
    /\ UNCHANGED <<ftable, ofile, calls>>

-----------------------------------------------------------------------------
\* What a process in a call does next.
Step(p) ==
    \/ Walk(p) \/ WalkEnd(p)
    \/ CreateLookup(p) \/ Exists(p) \/ CreateAlloc(p) \/ CreateLink(p)
    \/ FoundOpen(p) \/ FoundStat(p) \/ FoundChdir(p) \/ Opened(p)
    \/ ClosePut(p) \/ WriteChunk(p) \/ ExitClose(p) \/ ExitCwd(p)

\* A new call.
Start(p) ==
    \/ \E call \in PathCalls, path \in Path : Begin(p, call, path)
    \/ \E fd \in Fd : Dup(p, fd) \/ Close(p, fd) \/ Fstat(p, fd)
    \/ \E fd \in Fd, n \in Lens : Read(p, fd, n) \/ Write(p, fd, <<n>>)
    \/ \E fd \in Fd : Write(p, fd, <<Max(Lens), 1>>)
    \/ \E q \in Process : Fork(p, q)
    \/ Exit(p)

\* Every process is back in user mode or gone, or the kernel panicked.
Rest ==
    /\ ~Ok(fs) \/ \A p \in Process : pc[p] \in {"user", "none", "zombie"}
    /\ UNCHANGED vars

Next == (\E p \in Process : Step(p) \/ Start(p)) \/ Rest

Spec == Init /\ [][Next]_vars

-----------------------------------------------------------------------------
(* Properties *)

Name == {"", ".", "..", "x"} \cup {f.name : f \in Range(Files)}
        \cup UNION {Range(q.elems) : q \in Path}
Cell == Name \X (0..(FSSIZE - 1))
Dinode == [type : {"0", "FILE", "DIR", "DEV"}, major : {0, CONSOLE}, nlink : Nat,
           size : Nat, addrs : [0..NDIRECT -> 0..(FSSIZE - 1)]]

\* Type correctness.
TypeOK ==
    /\ fs.di \in [Inum -> Dinode]
    /\ \A b \in DOMAIN fs.data : Range(fs.data[b]) \subseteq Cell
    /\ fs.used \subseteq 0..(FSSIZE - 1)
    /\ \A s \in Slot : /\ fs.ic[s].ref \in Nat /\ fs.ic[s].valid \in BOOLEAN
                       /\ fs.ic[s].ino \in Dinode /\ fs.ic[s].inum \in Inum \cup {0}
                       /\ fs.ic[s].lock \in Process \cup {NoProc}
    /\ \A f \in File : ftable[f].ref \in Nat /\ ftable[f].ip \in Slot \cup {0}
    /\ ofile \in [Process -> [Fd -> File \cup {0}]]
    /\ cwd \in [Process -> Slot \cup {0}]
    /\ calls \in 0..MaxCalls

\* The pointers to an entry of the inode cache: directories, open files, and
\* what calls under way hold.
Pointers(s) ==
    Cardinality({p \in Process : cwd[p] = s})
    + Cardinality({f \in File : ftable[f].type = "INODE" /\ ftable[f].ip = s})
    + Cardinality({p \in Process : loc[p].ip = s})
    + Cardinality({p \in Process : loc[p].dp = s})

\* iget(), idup() and iput(), file_alloc(), file_dup() and file_close() keep
\* every count equal to the pointers there are, over all calls, fork and exit:
\* an entry is never recycled under a user and never kept for ever.  A file
\* being closed by exit() is no longer counted.
RefsCounted ==
    Ok(fs) =>
    /\ \A s \in Slot : fs.ic[s].ref = Pointers(s)
    /\ \A f \in File : ftable[f].ref =
          Cardinality({e \in Process \X Fd :
                        /\ ofile[e[1]][e[2]] = f
                        /\ ~(pc[e[1]] = "put" /\ loc[e[1]].call = "exit"
                             /\ loc[e[1]].fd = e[2])})

\* Two processes that use one inode use one entry, and so one lock.
OneEntryPerInode ==
    \A s, t \in Slot : fs.ic[s].ref > 0 /\ fs.ic[t].ref > 0
                       /\ fs.ic[s].inum = fs.ic[t].inum => s = t

\* The cache is write-through: the valid copy of an entry in use that nobody
\* has locked is what the disk holds.
CacheCoherent ==
    Ok(fs) => \A s \in Slot :
        fs.ic[s].ref > 0 /\ fs.ic[s].valid /\ Unlocked(fs, s)
        => fs.ic[s].ino = fs.di[fs.ic[s].inum]

\* The inode cache is what iget(), ilock() and iupdate() make it: one entry
\* for each inode in use, which agrees with the disk whenever it is unlocked.
ICacheOK == TypeOK /\ OneEntryPerInode /\ CacheCoherent

\* The inode as the kernel sees it.
View(i) ==
    LET s == {t \in Slot : fs.ic[t].ref > 0 /\ fs.ic[t].inum = i /\ fs.ic[t].valid}
    IN  IF s = {} THEN fs.di[i] ELSE fs.ic[Min(s)].ino

\* The block of the n'th block of inode i, 0 if there is none.
BlockOf(i, n) ==
    LET a == View(i).addrs IN
    IF n < NDIRECT THEN a[n]
    ELSE IF a[NDIRECT] = 0 THEN 0 ELSE fs.data[a[NDIRECT]][n - NDIRECT][2]

\* The blocks of inode i, as <<owner, place, block>>; place MAXFILE is the
\* indirect block.
Owned(i) ==
    {o \in ({<<i, n, BlockOf(i, n)>> : n \in 0..(MAXFILE - 1)}
            \cup {<<i, MAXFILE, View(i).addrs[NDIRECT]>>}) : o[3] # 0}

\* Every block has one owner at most and is marked in the bitmap; all blocks
\* marked beyond the metadata have an owner; a file has no hole.
BlocksConsistent ==
    LET all == UNION {Owned(i) : i \in Inum} IN
    Ok(fs) =>
    /\ Cardinality({o[3] : o \in all}) = Cardinality(all)
    /\ fs.used = (0..(nmeta - 1)) \cup {o[3] : o \in all}
    /\ \A i \in Inum : \A n \in 0..(MAXFILE - 1) :
          n * BSIZE < View(i).size => BlockOf(i, n) # 0

\* The entries of directory i.
Entries(i) ==
    {e \in {fs.data[BlockOf(i, off \div BSIZE)][off % BSIZE]
              : off \in 0..(View(i).size - 1)} : e[2] # 0}
Dirs == {i \in Inum : View(i).type = "DIR"}
Slots(i, name) ==
    {off \in 0..(View(i).size - 1) :
       LET e == fs.data[BlockOf(i, off \div BSIZE)][off % BSIZE]
       IN  e[1] = name /\ e[2] # 0}

\* Outside a create() the directories are sound: names are unique, entries
\* lead to inodes in use, an inode in use has exactly one entry other than
\* "." and "..", "." is the directory itself, and nlink is that entry plus the
\* ".." of the directories below.
LinksCounted ==
    Ok(fs) /\ (\A p \in Process : pc[p] # "link") =>
    LET up(i) == {e \in Dirs \X {i} : \E x \in Entries(e[1]) : x[2] = i /\ x[1] \notin {".", ".."}}
        below(i) == {d \in Dirs \ {ROOTINO} : <<"..", i>> \in Entries(d)}
    IN  /\ \A d \in Dirs : /\ <<".", d>> \in Entries(d)
                           /\ \A e \in Entries(d) : /\ View(e[2]).type # "0"
                                                    /\ Cardinality(Slots(d, e[1])) = 1
        /\ \A i \in Inum : View(i).type # "0" =>
              /\ View(i).nlink = 1 + Cardinality(below(i))
              /\ i # ROOTINO => Cardinality(up(i)) = 1

\* The only panics are those of a full table, and of open() with no descriptor
\* left: never a count below one, an inode without a type, a write past the
\* largest file, a name linked twice, or a block logged outside a transaction.
OnlyFullTablesPanic ==
    /\ fs.panic \in {"no", "balloc", "iget", "ialloc", "file_close: no type"}
    /\ fs.panic = "balloc" => fs.used = 0..(FSSIZE - 1)
    /\ fs.panic = "ialloc" => \A i \in Inum : fs.di[i].type # "0"
    /\ fs.panic = "iget" => \A s \in Slot : fs.ic[s].ref > 0
    /\ fs.panic = "file_close: no type" =>
          \E p \in Process : pc[p] = "opened" /\ FreeFds(p) = {}

\* What the longest operations log: mkdir() six blocks, a chunk of a write its
\* data, one block more when it is not aligned, bitmap, indirect block and inode.
MaxLogged == IF MAXOPBLOCKS < 8 THEN 6 ELSE MAXOPBLOCKS \div 2 + 2

\* No operation logs more blocks than that, and begin_op() reserved as many for
\* it or, from MAXOPBLOCKS = 7 on, more (which Log!LogWithinBounds relies on).
OpFits == \A p \in Process : Cardinality(lg[p]) <= MaxLogged

\* The entry whose sleep lock p needs for its next step, 0 if none.
Wants(p) ==
    CASE pc[p] \in {"found", "exists"}                -> loc[p].ip
      [] pc[p] = "walk" /\ loc[p].path # <<>>          -> loc[p].ip
      [] pc[p] = "parent"                             -> loc[p].dp
      [] pc[p] = "write"                              -> ftable[loc[p].f].ip
      [] OTHER                                        -> 0

\* A lock that someone waits for is held by another process that is inside a
\* call and waits for no lock itself: no circle of waiting processes, and no
\* lock left behind by a call that returned or by an exit.
HoldersRun ==
    Ok(fs) => \A s \in Slot : LET q == fs.ic[s].lock IN
        q # NoProc => /\ pc[q] \notin {"user", "none", "zombie"}
                      /\ Wants(q) = 0 /\ s \in {loc[q].ip, loc[q].dp}
=============================================================================
