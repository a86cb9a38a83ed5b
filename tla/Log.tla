-------------------------------- MODULE Log ---------------------------------
(***************************************************************************)
(* The write-ahead log of kern/log.c over the block cache of kern/bio.c,   *)
(* with crashes at any step and recovery at boot.                          *)
(*                                                                         *)
(* A block number b is what the file system passes to bread(); the sector  *)
(* it is cached under and read from is b + LBA (bio.c:106).  Blocks of the *)
(* log area are written through by the committer alone, so only their      *)
(* contents on disk are kept (dhead, dlog).  One sector is written         *)
(* atomically by sd_rw().  Of the cache this module keeps the contents and *)
(* B_DIRTY; which clean buffer is recycled, and when, is left open.        *)
(***************************************************************************)
EXTENDS Naturals, Sequences, FiniteSets

CONSTANTS Process,      \* processes that make file system calls
          Block,        \* block numbers of the file system outside its log
          Val,          \* contents of a block
          NoBuf,        \* no buffer holds the sector
          LBA,          \* first sector of the partition
          MAXOPBLOCKS,  \* blocks begin_op() reserves for one operation
          MaxWrite,     \* blocks an operation really writes at most (Fs!MaxLogged)
          LOGSIZE,      \* entries of struct logheader
          nlog          \* sb.nlog, blocks of the log area, header included

\* Block 0 of the partition is not part of the file system.
ASSUME BlockAssumption == Block \subseteq Nat \ {0} /\ LBA \in Nat
ASSUME NoBufAssumption == NoBuf \notin Val /\ Val # {} /\ IsFiniteSet(Process)
ASSUME SizeAssumption == /\ MAXOPBLOCKS \in Nat \ {0} /\ LOGSIZE \in Nat /\ nlog \in Nat
                         /\ MAXOPBLOCKS <= LOGSIZE
                         /\ MaxWrite \in Nat /\ MaxWrite <= MAXOPBLOCKS

VARIABLES
    dhead,        \* on disk: log header, the logged block numbers
    dlog,         \* on disk: [1..LOGSIZE -> Val] blocks of the log
    home,         \* on disk: [Sector -> Val] blocks outside the log
    cache,        \* [Sector -> Val or NoBuf]
    dirty,        \* sectors whose buffer has B_DIRTY
    lh,           \* log.lh in memory
    outstanding,  \* log.outstanding
    committing,   \* log.committing
    ppc,          \* [Process -> control point]
    blk,          \* [Process -> sector of the buffer held in log_write(), 0 if none]
    wrote,        \* [Process -> sectors written by the operation]
    boot,         \* "read_head", "install", "clear": recover_from_log();
                  \* "up": running; "panic": stopped
    i             \* loop variable of write_log() and install_trans()

diskVars == <<dhead, dlog, home>>
cacheVars == <<cache, dirty>>
logVars == <<lh, outstanding, committing>>
procVars == <<ppc, blk, wrote>>
vars == <<diskVars, cacheVars, logVars, procVars, boot, i>>

\* bread() of a logged block number translates it a second time.
Sector == {b + k * LBA : b \in Block, k \in 1..2}
Home(b) == b + LBA

\* The contents of bread()'s buffer for sector s.
Content(s) == IF cache[s] = NoBuf THEN home[s] ELSE cache[s]

\* wakeup(&log): the sleepers of begin_op() test their condition again.
Woken(f) == [p \in Process |-> IF f[p] = "wait" THEN "begin" ELSE f[p]]

Up == boot = "up"

Init ==
    /\ dhead = <<>>
    /\ dlog \in [1..LOGSIZE -> {CHOOSE v \in Val : TRUE}]
    /\ \E f \in [Block -> Val] :
         home = [s \in Sector |-> IF \E b \in Block : s = Home(b)
                                  THEN f[CHOOSE b \in Block : s = Home(b)]
                                  ELSE CHOOSE v \in Val : TRUE]
    /\ cache = [s \in Sector |-> NoBuf]
    /\ dirty = {}
    /\ lh = <<>>
    /\ outstanding = 0
    /\ committing = FALSE
    /\ ppc = [p \in Process |-> "out"]
    /\ blk = [p \in Process |-> 0]
    /\ wrote = [p \in Process |-> {}]
    /\ boot = "read_head"
    /\ i = 1

-----------------------------------------------------------------------------
(* begin_op() and end_op() *)

CallBegin(p) ==
    /\ Up /\ ppc[p] = "out"
    /\ ppc' = [ppc EXCEPT ![p] = "begin"]
    /\ UNCHANGED <<diskVars, cacheVars, logVars, blk, wrote, boot, i>>

\* Mutant: begin_op() does not wait for a commit to finish.
MustWaitNoCommit == Len(lh) + (outstanding + 1) * MAXOPBLOCKS > LOGSIZE

\* Mutant: begin_op() does not count the operation that wants to begin.
MustWaitOneLess == committing \/ Len(lh) + outstanding * MAXOPBLOCKS > LOGSIZE

MustWait == committing \/ Len(lh) + (outstanding + 1) * MAXOPBLOCKS > LOGSIZE

\* sleep(&log, &log.lock)
BeginWait(p) ==
    /\ Up /\ ppc[p] = "begin"
    /\ MustWait
    /\ ppc' = [ppc EXCEPT ![p] = "wait"]
    /\ UNCHANGED <<diskVars, cacheVars, logVars, blk, wrote, boot, i>>

BeginOp(p) ==
    /\ Up /\ ppc[p] = "begin"
    /\ ~MustWait
    /\ outstanding' = outstanding + 1
    /\ ppc' = [ppc EXCEPT ![p] = "op"]
    /\ wrote' = [wrote EXCEPT ![p] = {}]
    /\ UNCHANGED <<diskVars, cacheVars, lh, committing, blk, boot, i>>

\* The last operation out commits; the others wake whoever waits for space.
EndOp(p) ==
    /\ Up /\ ppc[p] = "op"
    /\ outstanding' = outstanding - 1
    /\ IF committing
       THEN /\ boot' = "panic"                  \* end_op: log is committing
            /\ UNCHANGED <<ppc, committing, i>>
       ELSE /\ IF outstanding' = 0
               THEN /\ committing' = TRUE
                    /\ i' = 1
                    /\ ppc' = [ppc EXCEPT ![p] = IF lh = <<>> THEN "done" ELSE "write_log"]
               ELSE /\ ppc' = Woken([ppc EXCEPT ![p] = "out"])
                    /\ UNCHANGED <<committing, i>>
            /\ UNCHANGED boot
    /\ UNCHANGED <<diskVars, cacheVars, lh, blk, wrote>>

-----------------------------------------------------------------------------
(* log_write(), called with the buffer locked and already modified *)

\* bread(b), the change, and the two tests made before log.lock is taken.
Modify(p, b, v) ==
    LET s == Home(b) IN
    /\ Up /\ ppc[p] = "op"
    /\ \A q \in Process : blk[q] # s
    /\ Cardinality(wrote[p] \cup {s}) <= MaxWrite
    /\ cache' = [cache EXCEPT ![s] = v]
    /\ IF Len(lh) >= LOGSIZE \/ Len(lh) >= nlog - 1 \/ outstanding < 1
       THEN /\ boot' = "panic"                  \* transaction is too big, outside of transaction
            /\ UNCHANGED procVars
       ELSE /\ ppc' = [ppc EXCEPT ![p] = "append"]
            /\ blk' = [blk EXCEPT ![p] = s]
            /\ wrote' = [wrote EXCEPT ![p] = @ \cup {s}]
            /\ UNCHANGED boot
    /\ UNCHANGED <<diskVars, dirty, logVars, i>>

\* Mutant: log_write() does not pin the buffer with B_DIRTY.
LogWriteUnpinned(p) ==
    /\ Up /\ ppc[p] = "append"
    /\ lh' = IF \E k \in DOMAIN lh : lh[k] = blk[p] THEN lh ELSE Append(lh, blk[p])
    /\ ppc' = [ppc EXCEPT ![p] = "op"]
    /\ blk' = [blk EXCEPT ![p] = 0]
    /\ UNCHANGED <<diskVars, cacheVars, outstanding, committing, wrote, boot, i>>

\* Under log.lock: absorb or append b->blockno, set B_DIRTY; then brelse().
LogWrite(p) ==
    /\ Up /\ ppc[p] = "append"
    /\ lh' = IF \E k \in DOMAIN lh : lh[k] = blk[p] THEN lh ELSE Append(lh, blk[p])
    /\ dirty' = dirty \cup {blk[p]}
    /\ ppc' = [ppc EXCEPT ![p] = "op"]
    /\ blk' = [blk EXCEPT ![p] = 0]
    /\ UNCHANGED <<diskVars, cache, outstanding, committing, wrote, boot, i>>

-----------------------------------------------------------------------------
(* commit() *)

\* One round of write_log(): copy a block from the cache to the log area.
WriteLog(p) ==
    LET s == lh[i] + LBA IN
    /\ Up /\ ppc[p] = "write_log"
    /\ dlog' = [dlog EXCEPT ![i] = Content(s)]
    /\ cache' = [cache EXCEPT ![s] = Content(s)]
    /\ IF i = Len(lh)
       THEN ppc' = [ppc EXCEPT ![p] = "write_head"] /\ UNCHANGED i
       ELSE i' = i + 1 /\ UNCHANGED ppc
    /\ UNCHANGED <<dhead, home, dirty, logVars, blk, wrote, boot>>

\* write_head(): the true point of commit.
WriteHead(p) ==
    /\ Up /\ ppc[p] = "write_head"
    /\ dhead' = lh
    /\ i' = 1
    /\ ppc' = [ppc EXCEPT ![p] = "install"]
    /\ UNCHANGED <<dlog, home, cacheVars, logVars, blk, wrote, boot>>

\* One round of install_trans(): bwrite() sets B_DIRTY, sd_rw() clears it.
InstallRound ==
    LET s == lh[i] + LBA IN
    /\ home' = [home EXCEPT ![s] = dlog[i]]
    /\ cache' = [cache EXCEPT ![s] = dlog[i]]
    /\ dirty' = dirty \ {s}
    /\ UNCHANGED <<dhead, dlog>>

Install(p) ==
    /\ Up /\ ppc[p] = "install"
    /\ InstallRound
    /\ IF i = Len(lh)
       THEN ppc' = [ppc EXCEPT ![p] = "clear"] /\ UNCHANGED i
       ELSE i' = i + 1 /\ UNCHANGED ppc
    /\ UNCHANGED <<logVars, blk, wrote, boot>>

\* log.lh.n = 0; write_head().
Clear(p) ==
    /\ Up /\ ppc[p] = "clear"
    /\ lh' = <<>>
    /\ dhead' = <<>>
    /\ ppc' = [ppc EXCEPT ![p] = "done"]
    /\ UNCHANGED <<dlog, home, cacheVars, outstanding, committing, blk, wrote, boot, i>>

\* Mutant: end_op() does not wake the sleepers after a commit.
CommitDoneNoWakeup(p) ==
    /\ Up /\ ppc[p] = "done"
    /\ committing' = FALSE
    /\ ppc' = [ppc EXCEPT ![p] = "out"]
    /\ UNCHANGED <<diskVars, cacheVars, lh, outstanding, blk, wrote, boot, i>>

\* Back in end_op(): log.committing = 0; wakeup(&log).
CommitDone(p) ==
    /\ Up /\ ppc[p] = "done"
    /\ committing' = FALSE
    /\ ppc' = Woken([ppc EXCEPT ![p] = "out"])
    /\ UNCHANGED <<diskVars, cacheVars, lh, outstanding, blk, wrote, boot, i>>

CommitStep(p) == WriteLog(p) \/ WriteHead(p) \/ Install(p) \/ Clear(p) \/ CommitDone(p)

-----------------------------------------------------------------------------
(* The cache: bread() of a reader, and bget() recycling a clean, unused buffer *)

Bread(b) ==
    /\ Up
    /\ cache[Home(b)] = NoBuf
    /\ cache' = [cache EXCEPT ![Home(b)] = home[Home(b)]]
    /\ UNCHANGED <<diskVars, dirty, logVars, procVars, boot, i>>

Recycle(s) ==
    /\ Up
    /\ cache[s] # NoBuf
    /\ s \notin dirty
    /\ \A p \in Process : blk[p] # s
    /\ cache' = [cache EXCEPT ![s] = NoBuf]
    /\ UNCHANGED <<diskVars, dirty, logVars, procVars, boot, i>>

-----------------------------------------------------------------------------
(* Power failure or panic, and recover_from_log() in initlog() *)

Crash ==
    /\ cache' = [s \in Sector |-> NoBuf]
    /\ dirty' = {}
    /\ lh' = <<>>
    /\ outstanding' = 0
    /\ committing' = FALSE
    /\ ppc' = [p \in Process |-> "out"]
    /\ blk' = [p \in Process |-> 0]
    /\ wrote' = [p \in Process |-> {}]
    /\ boot' = "read_head"
    /\ i' = 1
    /\ UNCHANGED diskVars

ReadHead ==
    /\ boot = "read_head"
    /\ lh' = dhead
    /\ i' = 1
    /\ boot' = IF dhead = <<>> THEN "clear" ELSE "install"
    /\ UNCHANGED <<diskVars, cacheVars, outstanding, committing, procVars>>

RecoverInstall ==
    /\ boot = "install"
    /\ InstallRound
    /\ IF i = Len(lh)
       THEN boot' = "clear" /\ UNCHANGED i
       ELSE i' = i + 1 /\ UNCHANGED boot
    /\ UNCHANGED <<logVars, procVars>>

RecoverClear ==
    /\ boot = "clear"
    /\ lh' = <<>>
    /\ dhead' = <<>>
    /\ boot' = "up"
    /\ UNCHANGED <<dlog, home, cacheVars, outstanding, committing, procVars, i>>

Recovery == ReadHead \/ RecoverInstall \/ RecoverClear

-----------------------------------------------------------------------------
Next ==
    \/ \E p \in Process :
         \/ CallBegin(p) \/ BeginWait(p) \/ BeginOp(p) \/ EndOp(p)
         \/ LogWrite(p) \/ CommitStep(p)
         \/ \E b \in Block, v \in Val : Modify(p, b, v)
    \/ \E b \in Block : Bread(b)
    \/ \E s \in Sector : Recycle(s)
    \/ Crash
    \/ Recovery

Spec == Init /\ [][Next]_vars

\* A process in begin_op(), log_write() or commit() keeps running, and an
\* operation ends: it makes finitely many log_write() calls (SF, because each
\* of them disables EndOp for a while).  Crashes may happen, but need not.
Fairness ==
    /\ WF_vars(Recovery)
    /\ \A p \in Process :
         /\ WF_vars(BeginWait(p) \/ BeginOp(p) \/ LogWrite(p) \/ CommitStep(p))
         /\ SF_vars(EndOp(p))

FairSpec == Spec /\ Fairness

-----------------------------------------------------------------------------
(* Properties *)

\* Type invariant of the disk, the cache and the log: log.outstanding, which is
\* decremented before anything is tested, never goes below zero.
TypeOK ==
    /\ lh \in Seq(Sector) /\ dhead \in Seq(Sector)
    /\ dlog \in [1..LOGSIZE -> Val]
    /\ home \in [Sector -> Val]
    /\ cache \in [Sector -> Val \cup {NoBuf}]
    /\ dirty \subseteq Sector
    /\ outstanding \in Nat
    /\ committing \in BOOLEAN
    /\ ppc \in [Process -> {"out", "begin", "wait", "op", "append", "write_log",
                            "write_head", "install", "clear", "done"}]
    /\ blk \in [Process -> {0} \cup Sector]
    /\ wrote \in [Process -> SUBSET Sector]
    /\ boot \in {"read_head", "install", "clear", "up", "panic"}
    /\ i \in 1..LOGSIZE

\* The contents of the file system after a crash now: the home sectors, with
\* a committed transaction replayed over them.
Recovered(s) ==
    LET k == {j \in DOMAIN dhead : dhead[j] + LBA = s} IN
    IF k = {} THEN home[s] ELSE dlog[CHOOSE j \in k : TRUE]

\* The log makes the file system an atomic disk: concurrent operations reach
\* the disk all together when write_head() returns, and a crash at any point,
\* in recovery too, leaves either all of their writes or none.
AD == INSTANCE AtomicDisk WITH
        mem <- [b \in Block |-> IF boot \in {"up", "panic"}
                                THEN Content(Home(b)) ELSE Recovered(Home(b))],
        stable <- [b \in Block |-> Recovered(Home(b))],
        active <- {p \in Process : ppc[p] \in {"op", "append"}}
CrashAtomic == AD!Spec

\* The log area is never overrun: a transaction fits between its header and
\* the inode blocks that follow it on disk (mkfs: inodestart = 2 + nlog),
\* although log_write() reads log.lh.n without log.lock.
LogFitsOnDisk == Len(lh) <= nlog - 1

\* No index runs over, of the log area on disk or of the counter that end_op()
\* decrements, and no test of end_op() or log_write() stops the kernel, although
\* mkfs makes the log area one block too short for LOGSIZE logged blocks.
LogWithinBounds == TypeOK /\ LogFitsOnDisk /\ boot # "panic"

\* A sleeper in begin_op() always has someone who will call wakeup(&log): an
\* operation that has yet to end, or a commit that has yet to finish.
SleeperHasWaker ==
    \A p \in Process : ppc[p] = "wait" =>
        \E q \in Process : ppc[q] \notin {"out", "begin", "wait"}

\* A commit runs alone: no operation is inside while the log is written,
\* so no half-done system call reaches the disk.
CommitAlone ==
    \A p \in Process : ppc[p] \in {"write_log", "write_head", "install", "clear", "done"} =>
        /\ committing
        /\ \A q \in Process : q # p => ppc[q] \in {"out", "begin", "wait"}

\* "commit() / write_log() will do the disk write": between transactions no
\* buffer is left dirty and the disk has what the cache has.
CommitWritesHome ==
    Up /\ lh = <<>> /\ (\A p \in Process : ppc[p] # "append") =>
        /\ dirty = {}
        /\ \A b \in Block : Content(Home(b)) = home[Home(b)]

\* Every process that sleeps in begin_op() is woken, if the machine stays up.
BeginWoken ==
    \A p \in Process : ppc[p] = "wait" ~> (ppc[p] # "wait" \/ boot = "panic")
=============================================================================
