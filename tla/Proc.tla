-------------------------------- MODULE Proc --------------------------------
(***************************************************************************)
(* Processes and CPUs: kern/proc.c with the spin locks of kern/spinlock.c, *)
(* the sleep locks of kern/sleeplock.c and the timer interrupt of          *)
(* kern/trap.c.                                                            *)
(*                                                                         *)
(* A CPU is either in scheduler(), at the table entry sidx[c], or runs the *)
(* process c->proc, which stands at its own control point kpc[p]; swtch()  *)
(* moves the CPU between the two and leaves kpc[p] behind as the saved     *)
(* context.  The kernel runs with interrupts masked, so a CPU leaves a     *)
(* process only where the process calls sched().                           *)
(*                                                                         *)
(* An action runs from one acquire() of a spin lock to the next; it is     *)
(* cut further wherever another CPU can see the state in between.          *)
(***************************************************************************)
EXTENDS Naturals, FiniteSets

CONSTANTS CPU,        \* the processors
          NoCPU,      \* a spin lock that nobody holds
          NPROC,      \* size of the process table
          SleepLock,  \* the sleep locks of buffers and inodes
          MaxPid      \* bound: no fork() starts once the next pid is above it

ASSUME CpuAssumption == NoCPU \notin CPU
ASSUME NprocAssumption == NPROC \in Nat \ {0}
ASSUME SleepLockAssumption == SleepLock \cap (0..NPROC) = {}
ASSUME MaxPidAssumption == MaxPid \in Nat \ {0}

\* Entries of ptable.proc; 0 stands for a NULL struct proc*.
Slot == 1..NPROC
\* user_init() is the first caller of proc_alloc(), which scans from the start.
initproc == 1

VARIABLES
    state,      \* [Slot -> procstate]
    chan,       \* [Slot -> channel slept on, 0 for NULL]
    pid,        \* [Slot -> pid, 0 when free]
    parent,     \* [Slot -> Slot or 0]
    kstack,     \* [Slot -> whether the entry owns a kernel stack page]
    nextpid,    \* the next pid
    plock,      \* [Slot -> CPU holding p->lock]
    wait_lock,  \* CPU holding wait_lock
    slk,        \* [SleepLock -> CPU holding lk->lk]
    sllocked,   \* [SleepLock -> lk->locked]
    slpid,      \* [SleepLock -> lk->pid]
    cpuproc,    \* [CPU -> c->proc, 0 for NULL]
    spc,        \* [CPU -> "scan": in the loop of scheduler(),
                \*         "run": switched to a process,
                \*         "back": just returned from swtch()]
    sidx,       \* [CPU -> loop variable p of scheduler()]
    kpc,        \* [Slot -> control point of the process]
    arg,        \* [Slot -> channel passed to sleep() or wakeup(), 0 if none]
    idx         \* [Slot -> loop variable of proc_alloc() and wakeup(), np of fork()]

tableVars == <<state, chan, pid, parent, kstack, nextpid>>
sleepVars == <<slk, sllocked, slpid>>
cpuVars == <<cpuproc, spc, sidx>>
ctlVars == <<kpc, arg, idx>>
vars == <<tableVars, plock, wait_lock, sleepVars, cpuVars, ctlVars>>

procstate == {"UNUSED", "EMBRYO", "SLEEPING", "RUNNABLE", "RUNNING", "ZOMBIE"}

ControlPoint == {"none",                                      \* no context
                 "forkret", "user", "yield_ret",
                 "alloc", "fork_copy", "fork_parent", "fork_run",
                 "exit_lock", "exit_unlock", "exit_sched", "dead",
                 "wait_scan",
                 "sleep", "sleep_switch", "sleep_ret", "sleep_reacquire",
                 "acquiresleep", "critical", "wakeup"}

-----------------------------------------------------------------------------
(* Helpers *)

\* Process p executes on CPU c.
Runs(c, p) == spc[c] = "run" /\ cpuproc[c] = p
At(c, p, point) == Runs(c, p) /\ kpc[p] = point

Goto(p, point) == kpc' = [kpc EXCEPT ![p] = point]

\* A call returns: its parameter and its loop variable are gone.
Forget(p) == /\ arg' = [arg EXCEPT ![p] = 0]
             /\ idx' = [idx EXCEPT ![p] = 1]

\* Mutant: the scan does not start again after the last entry.
NextSlotNoWrap(p) == IF p = NPROC THEN p ELSE p + 1

\* for (p = ptable.proc; ...; ++p) restarting at the end.
NextSlot(p) == IF p = NPROC THEN 1 ELSE p + 1

\* The spin lock that sleep(chan, lk) is called with, and its update.
LkOf(p) == IF arg[p] \in SleepLock THEN slk[arg[p]] ELSE wait_lock
SetLk(p, v) ==
    IF arg[p] \in SleepLock
    THEN /\ slk' = [slk EXCEPT ![arg[p]] = v]
         /\ UNCHANGED wait_lock
    ELSE /\ wait_lock' = v
         /\ UNCHANGED slk

\* proc_free(p): every field of the entry back to its free value.
proc_free(p) ==
    /\ state' = [state EXCEPT ![p] = "UNUSED"]
    /\ chan' = [chan EXCEPT ![p] = 0]
    /\ pid' = [pid EXCEPT ![p] = 0]
    /\ parent' = [parent EXCEPT ![p] = 0]
    /\ kstack' = [kstack EXCEPT ![p] = FALSE]

\* reparent(p)
Reparented(p) == [q \in Slot |-> IF parent[q] = p THEN initproc ELSE parent[q]]

\* sched() after p->state was set: swtch(&p->context, c->scheduler).
Swtch(c) == /\ spc' = [spc EXCEPT ![c] = "back"]
            /\ UNCHANGED <<cpuproc, sidx>>

-----------------------------------------------------------------------------
(* proc_init() and user_init(): one RUNNABLE process, no lock held, every  *)
(* CPU at the top of scheduler().                                          *)

Init ==
    /\ state = [p \in Slot |-> IF p = initproc THEN "RUNNABLE" ELSE "UNUSED"]
    /\ chan = [p \in Slot |-> 0]
    /\ pid = [p \in Slot |-> IF p = initproc THEN 1 ELSE 0]
    /\ parent = [p \in Slot |-> 0]
    /\ kstack = [p \in Slot |-> p = initproc]
    /\ nextpid = 2
    /\ plock = [p \in Slot |-> NoCPU]
    /\ wait_lock = NoCPU
    /\ slk = [s \in SleepLock |-> NoCPU]
    /\ sllocked = [s \in SleepLock |-> FALSE]
    /\ slpid = [s \in SleepLock |-> 0]
    /\ cpuproc = [c \in CPU |-> 0]
    /\ spc = [c \in CPU |-> "scan"]
    /\ sidx = [c \in CPU |-> 1]
    /\ kpc = [p \in Slot |-> IF p = initproc THEN "forkret" ELSE "none"]
    /\ arg = [p \in Slot |-> 0]
    /\ idx = [p \in Slot |-> 1]

-----------------------------------------------------------------------------
(* scheduler() *)

\* acquire, p->state != RUNNABLE, release, continue.
SchedSkip(c) ==
    /\ spc[c] = "scan"
    /\ plock[sidx[c]] = NoCPU
    /\ state[sidx[c]] # "RUNNABLE"
    /\ sidx' = [sidx EXCEPT ![c] = NextSlot(@)]
    /\ UNCHANGED <<tableVars, plock, wait_lock, sleepVars, cpuproc, spc, ctlVars>>

\* The chosen process starts or resumes with its own lock held.
SchedRun(c) ==
    LET p == sidx[c] IN
    /\ spc[c] = "scan"
    /\ plock[p] = NoCPU
    /\ state[p] = "RUNNABLE"
    /\ plock' = [plock EXCEPT ![p] = c]
    /\ cpuproc' = [cpuproc EXCEPT ![c] = p]
    /\ state' = [state EXCEPT ![p] = "RUNNING"]
    /\ spc' = [spc EXCEPT ![c] = "run"]
    /\ UNCHANGED <<chan, pid, parent, kstack, nextpid, wait_lock, sleepVars,
                   sidx, ctlVars>>

\* Back from swtch(): c->proc = NULL; release(&p->lock).
SchedBack(c) ==
    /\ spc[c] = "back"
    /\ cpuproc' = [cpuproc EXCEPT ![c] = 0]
    /\ plock' = [plock EXCEPT ![sidx[c]] = NoCPU]
    /\ spc' = [spc EXCEPT ![c] = "scan"]
    /\ sidx' = [sidx EXCEPT ![c] = NextSlot(@)]
    /\ UNCHANGED <<tableVars, wait_lock, sleepVars, ctlVars>>

-----------------------------------------------------------------------------
(* forkret() and yield() *)

\* Mutant: forkret() forgets the lock that scheduler() took.
ForkretLocked(c, p) ==
    /\ At(c, p, "forkret")
    /\ Goto(p, "user")
    /\ UNCHANGED <<tableVars, plock, wait_lock, sleepVars, cpuVars, arg, idx>>

\* Release the lock the scheduler acquired and "return" to user space.
Forkret(c, p) ==
    /\ At(c, p, "forkret")
    /\ plock' = [plock EXCEPT ![p] = NoCPU]
    /\ Goto(p, "user")
    /\ UNCHANGED <<tableVars, wait_lock, sleepVars, cpuVars, arg, idx>>

\* Mutant: yield() sets RUNNABLE without p->lock.
YieldUnlocked(c, p) ==
    /\ At(c, p, "user")
    /\ state' = [state EXCEPT ![p] = "RUNNABLE"]
    /\ Swtch(c)
    /\ Goto(p, "yield_ret")
    /\ UNCHANGED <<chan, pid, parent, kstack, nextpid, plock, wait_lock,
                   sleepVars, arg, idx>>

\* Timer interrupt or sys_yield: acquire(&p->lock); RUNNABLE; sched().
Yield(c, p) ==
    /\ At(c, p, "user")
    /\ plock[p] = NoCPU
    /\ plock' = [plock EXCEPT ![p] = c]
    /\ state' = [state EXCEPT ![p] = "RUNNABLE"]
    /\ Swtch(c)
    /\ Goto(p, "yield_ret")
    /\ UNCHANGED <<chan, pid, parent, kstack, nextpid, wait_lock, sleepVars,
                   arg, idx>>

YieldReturn(c, p) ==
    /\ At(c, p, "yield_ret")
    /\ plock' = [plock EXCEPT ![p] = NoCPU]
    /\ Goto(p, "user")
    /\ UNCHANGED <<tableVars, wait_lock, sleepVars, cpuVars, arg, idx>>

-----------------------------------------------------------------------------
(* fork().  kalloc() and uvm_copy() may succeed or fail. *)

SysFork(c, p) ==
    /\ At(c, p, "user")
    /\ nextpid <= MaxPid
    /\ Goto(p, "alloc")
    /\ idx' = [idx EXCEPT ![p] = 1]
    /\ UNCHANGED <<tableVars, plock, wait_lock, sleepVars, cpuVars, arg>>

\* Mutant: proc_alloc() scans past the last entry.
AllocSkipPastEnd(c, p) ==
    LET np == idx[p] IN
    /\ At(c, p, "alloc")
    /\ plock[np] = NoCPU
    /\ state[np] # "UNUSED"
    /\ idx' = [idx EXCEPT ![p] = np + 1]
    /\ UNCHANGED <<tableVars, plock, wait_lock, sleepVars, cpuVars, kpc, arg>>

\* proc_alloc(): entry np is in use; after the last one return NULL.
AllocSkip(c, p) ==
    LET np == idx[p] IN
    /\ At(c, p, "alloc")
    /\ plock[np] = NoCPU
    /\ state[np] # "UNUSED"
    /\ IF np = NPROC
       THEN /\ Goto(p, "user")
            /\ Forget(p)
       ELSE /\ idx' = [idx EXCEPT ![p] = np + 1]
            /\ UNCHANGED <<kpc, arg>>
    /\ UNCHANGED <<tableVars, plock, wait_lock, sleepVars, cpuVars>>

\* Mutant: pid_next() does not advance.
AllocTakeSamePid(c, p) ==
    LET np == idx[p] IN
    /\ At(c, p, "alloc")
    /\ plock[np] = NoCPU
    /\ state[np] = "UNUSED"
    /\ pid' = [pid EXCEPT ![np] = nextpid]
    /\ state' = [state EXCEPT ![np] = "EMBRYO"]
    /\ kstack' = [kstack EXCEPT ![np] = TRUE]
    /\ plock' = [plock EXCEPT ![np] = c]
    /\ kpc' = [kpc EXCEPT ![np] = "forkret", ![p] = "fork_copy"]
    /\ UNCHANGED <<chan, parent, nextpid, wait_lock, sleepVars, cpuVars, arg, idx>>

\* Mutant: proc_alloc() takes a zombie's entry before wait() has freed it.
AllocTakeZombie(c, p) ==
    LET np == idx[p] IN
    /\ At(c, p, "alloc")
    /\ plock[np] = NoCPU
    /\ state[np] \in {"UNUSED", "ZOMBIE"}
    /\ nextpid' = nextpid + 1
    /\ pid' = [pid EXCEPT ![np] = nextpid]
    /\ state' = [state EXCEPT ![np] = "EMBRYO"]
    /\ kstack' = [kstack EXCEPT ![np] = TRUE]
    /\ plock' = [plock EXCEPT ![np] = c]
    /\ kpc' = [kpc EXCEPT ![np] = "forkret", ![p] = "fork_copy"]
    /\ UNCHANGED <<chan, parent, wait_lock, sleepVars, cpuVars, arg, idx>>

\* proc_alloc(): entry np is UNUSED; pid_next() and the kernel stack.
AllocTake(c, p) ==
    LET np == idx[p] IN
    /\ At(c, p, "alloc")
    /\ plock[np] = NoCPU
    /\ state[np] = "UNUSED"
    /\ nextpid' = nextpid + 1
    /\ pid' = [pid EXCEPT ![np] = nextpid]
    /\ state' = [state EXCEPT ![np] = "EMBRYO"]
    /\ kstack' = [kstack EXCEPT ![np] = TRUE]
    /\ plock' = [plock EXCEPT ![np] = c]
    /\ kpc' = [kpc EXCEPT ![np] = "forkret", ![p] = "fork_copy"]
    /\ UNCHANGED <<chan, parent, wait_lock, sleepVars, cpuVars, arg, idx>>

\* proc_alloc(): kalloc() failed; the pid is spent, the entry stays free.
AllocFail(c, p) ==
    LET np == idx[p] IN
    /\ At(c, p, "alloc")
    /\ plock[np] = NoCPU
    /\ state[np] = "UNUSED"
    /\ nextpid' = nextpid + 1
    /\ proc_free(np)
    /\ Goto(p, "user")
    /\ Forget(p)
    /\ UNCHANGED <<plock, wait_lock, sleepVars, cpuVars>>

\* uvm_copy() and the copies of trapframe, files and directory; release np.
ForkCopy(c, p) ==
    /\ At(c, p, "fork_copy")
    /\ plock' = [plock EXCEPT ![idx[p]] = NoCPU]
    /\ Goto(p, "fork_parent")
    /\ UNCHANGED <<tableVars, wait_lock, sleepVars, cpuVars, arg, idx>>

\* uvm_copy() < 0: proc_free(np); release(&np->lock); return -1.
ForkFail(c, p) ==
    LET np == idx[p] IN
    /\ At(c, p, "fork_copy")
    /\ proc_free(np)
    /\ plock' = [plock EXCEPT ![np] = NoCPU]
    /\ kpc' = [kpc EXCEPT ![np] = "none", ![p] = "user"]
    /\ Forget(p)
    /\ UNCHANGED <<nextpid, wait_lock, sleepVars, cpuVars>>

\* acquire(&wait_lock); np->parent = p; release(&wait_lock).
ForkParent(c, p) ==
    /\ At(c, p, "fork_parent")
    /\ wait_lock = NoCPU
    /\ parent' = [parent EXCEPT ![idx[p]] = p]
    /\ Goto(p, "fork_run")
    /\ UNCHANGED <<state, chan, pid, kstack, nextpid, plock, wait_lock,
                   sleepVars, cpuVars, arg, idx>>

\* acquire(&np->lock); np->state = RUNNABLE; release(&np->lock).
ForkRun(c, p) ==
    LET np == idx[p] IN
    /\ At(c, p, "fork_run")
    /\ plock[np] = NoCPU
    /\ state' = [state EXCEPT ![np] = "RUNNABLE"]
    /\ Goto(p, "user")
    /\ Forget(p)
    /\ UNCHANGED <<chan, pid, parent, kstack, nextpid, plock, wait_lock,
                   sleepVars, cpuVars>>

-----------------------------------------------------------------------------
(* exit().  Files and the working directory are closed before wait_lock is *)
(* taken, through sleep locks the process has released again by then.      *)

\* Mutant: exit() does not call reparent().
ExitOrphans(c, p) ==
    /\ At(c, p, "user")
    /\ p # initproc
    /\ wait_lock = NoCPU
    /\ wait_lock' = c
    /\ Goto(p, "exit_lock")
    /\ UNCHANGED <<tableVars, plock, sleepVars, cpuVars, arg, idx>>

\* initproc would panic; the others hand their children to initproc.
ExitReparent(c, p) ==
    /\ At(c, p, "user")
    /\ p # initproc
    /\ wait_lock = NoCPU
    /\ wait_lock' = c
    /\ parent' = Reparented(p)
    /\ Goto(p, "exit_lock")
    /\ UNCHANGED <<state, chan, pid, kstack, nextpid, plock, sleepVars,
                   cpuVars, arg, idx>>

\* acquire(&p->lock); p->state = ZOMBIE.
ExitZombie(c, p) ==
    /\ At(c, p, "exit_lock")
    /\ plock[p] = NoCPU
    /\ plock' = [plock EXCEPT ![p] = c]
    /\ state' = [state EXCEPT ![p] = "ZOMBIE"]
    /\ Goto(p, "exit_unlock")
    /\ UNCHANGED <<chan, pid, parent, kstack, nextpid, wait_lock, sleepVars,
                   cpuVars, arg, idx>>

\* release(&wait_lock): from here on wait() can see the zombie.
ExitRelease(c, p) ==
    /\ At(c, p, "exit_unlock")
    /\ wait_lock' = NoCPU
    /\ Goto(p, "exit_sched")
    /\ UNCHANGED <<tableVars, plock, sleepVars, cpuVars, arg, idx>>

\* sched(): the last instructions on the process's own kernel stack.
ExitSched(c, p) ==
    /\ At(c, p, "exit_sched")
    /\ Swtch(c)
    /\ Goto(p, "dead")
    /\ UNCHANGED <<tableVars, plock, wait_lock, sleepVars, arg, idx>>

-----------------------------------------------------------------------------
(* wait() *)

Children(p) == {q \in Slot : parent[q] = p}
ExitedChildren(p) == {q \in Children(p) : state[q] = "ZOMBIE"}

SysWait(c, p) ==
    /\ At(c, p, "user")
    /\ wait_lock = NoCPU
    /\ wait_lock' = c
    /\ Goto(p, "wait_scan")
    /\ UNCHANGED <<tableVars, plock, sleepVars, cpuVars, arg, idx>>

\* The first exited child is freed, without its lock, and its pid returned.
\* A context still on its way to swtch() keeps running: only one that has
\* arrived there is forgotten.
WaitReap(c, p) ==
    /\ At(c, p, "wait_scan")
    /\ \E np \in ExitedChildren(p) :
         /\ \A q \in ExitedChildren(p) : np <= q
         /\ proc_free(np)
         /\ kpc' = [kpc EXCEPT ![np] = IF @ = "dead" THEN "none" ELSE @,
                               ![p] = "user"]
    /\ wait_lock' = NoCPU
    /\ Forget(p)
    /\ UNCHANGED <<nextpid, plock, sleepVars, cpuVars>>

\* !havekids: return -1.
WaitNone(c, p) ==
    /\ At(c, p, "wait_scan")
    /\ Children(p) = {}
    /\ wait_lock' = NoCPU
    /\ Goto(p, "user")
    /\ Forget(p)
    /\ UNCHANGED <<tableVars, plock, sleepVars, cpuVars>>

\* sleep(p, &wait_lock)
WaitSleep(c, p) ==
    /\ At(c, p, "wait_scan")
    /\ Children(p) # {}
    /\ ExitedChildren(p) = {}
    /\ arg' = [arg EXCEPT ![p] = p]
    /\ Goto(p, "sleep")
    /\ UNCHANGED <<tableVars, plock, wait_lock, sleepVars, cpuVars, idx>>

-----------------------------------------------------------------------------
(* sleep(chan, lk) with chan = arg[p], entered with lk held, and wakeup() *)

\* Mutant: sleep() releases lk before it holds p->lock.
SleepAcquireLate(c, p) ==
    /\ At(c, p, "sleep")
    /\ SetLk(p, NoCPU)
    /\ Goto(p, "sleep_switch")
    /\ UNCHANGED <<tableVars, plock, sllocked, slpid, cpuVars, arg, idx>>

SleepAcquire(c, p) ==
    /\ At(c, p, "sleep")
    /\ plock[p] = NoCPU
    /\ plock' = [plock EXCEPT ![p] = c]
    /\ Goto(p, "sleep_switch")
    /\ UNCHANGED <<tableVars, wait_lock, sleepVars, cpuVars, arg, idx>>

\* release(lk); p->chan = chan; p->state = SLEEPING; sched().
SleepSwitch(c, p) ==
    /\ At(c, p, "sleep_switch")
    /\ SetLk(p, NoCPU)
    /\ chan' = [chan EXCEPT ![p] = arg[p]]
    /\ state' = [state EXCEPT ![p] = "SLEEPING"]
    /\ Swtch(c)
    /\ Goto(p, "sleep_ret")
    /\ UNCHANGED <<pid, parent, kstack, nextpid, plock, sllocked, slpid, arg, idx>>

\* p->chan = 0; release(&p->lock).
SleepReturn(c, p) ==
    /\ At(c, p, "sleep_ret")
    /\ chan' = [chan EXCEPT ![p] = 0]
    /\ plock' = [plock EXCEPT ![p] = NoCPU]
    /\ Goto(p, "sleep_reacquire")
    /\ UNCHANGED <<state, pid, parent, kstack, nextpid, wait_lock, sleepVars,
                   cpuVars, arg, idx>>

\* acquire(lk) and back to the caller's loop.
SleepReacquire(c, p) ==
    /\ At(c, p, "sleep_reacquire")
    /\ LkOf(p) = NoCPU
    /\ SetLk(p, c)
    /\ Goto(p, IF arg[p] \in SleepLock THEN "acquiresleep" ELSE "wait_scan")
    /\ UNCHANGED <<tableVars, plock, sllocked, slpid, cpuVars, arg, idx>>

\* One round of wakeup(arg[p]), which skips thisproc(); after the last round
\* releasesleep() releases lk->lk.
WakeupRound(c, p) ==
    LET q == idx[p] IN
    /\ At(c, p, "wakeup")
    /\ q = p \/ plock[q] = NoCPU
    /\ state' = IF q # p /\ state[q] = "SLEEPING" /\ chan[q] = arg[p]
                THEN [state EXCEPT ![q] = "RUNNABLE"]
                ELSE state
    /\ IF q = NPROC
       THEN /\ slk' = [slk EXCEPT ![arg[p]] = NoCPU]
            /\ Goto(p, "user")
            /\ Forget(p)
       ELSE /\ idx' = [idx EXCEPT ![p] = q + 1]
            /\ UNCHANGED <<slk, kpc, arg>>
    /\ UNCHANGED <<chan, pid, parent, kstack, nextpid, plock, wait_lock,
                   sllocked, slpid, cpuVars>>

-----------------------------------------------------------------------------
(* Sleep locks, as the file system takes them during a system call *)

\* acquiresleep(): acquire(&lk->lk).
AcquireSleep(c, p, s) ==
    /\ At(c, p, "user")
    /\ slk[s] = NoCPU
    /\ slk' = [slk EXCEPT ![s] = c]
    /\ arg' = [arg EXCEPT ![p] = s]
    /\ Goto(p, "acquiresleep")
    /\ UNCHANGED <<tableVars, plock, wait_lock, sllocked, slpid, cpuVars, idx>>

\* while (lk->locked) sleep(lk, &lk->lk).
AcquireSleepWait(c, p) ==
    /\ At(c, p, "acquiresleep")
    /\ sllocked[arg[p]]
    /\ Goto(p, "sleep")
    /\ UNCHANGED <<tableVars, plock, wait_lock, sleepVars, cpuVars, arg, idx>>

\* Mutant: acquiresleep() does not test lk->locked again after sleep().
AcquireSleepNoTest(c, p) ==
    LET s == arg[p] IN
    /\ At(c, p, "acquiresleep")
    /\ sllocked' = [sllocked EXCEPT ![s] = TRUE]
    /\ slpid' = [slpid EXCEPT ![s] = pid[p]]
    /\ slk' = [slk EXCEPT ![s] = NoCPU]
    /\ Goto(p, "critical")
    /\ UNCHANGED <<tableVars, plock, wait_lock, cpuVars, arg, idx>>

\* Mutant: acquiresleep() does not record the owner.
AcquireSleepNoPid(c, p) ==
    LET s == arg[p] IN
    /\ At(c, p, "acquiresleep")
    /\ ~sllocked[s]
    /\ sllocked' = [sllocked EXCEPT ![s] = TRUE]
    /\ slk' = [slk EXCEPT ![s] = NoCPU]
    /\ Goto(p, "critical")
    /\ UNCHANGED <<tableVars, plock, wait_lock, slpid, cpuVars, arg, idx>>

\* lk->locked = 1; lk->pid = thisproc()->pid; release(&lk->lk).
AcquireSleepTake(c, p) ==
    LET s == arg[p] IN
    /\ At(c, p, "acquiresleep")
    /\ ~sllocked[s]
    /\ sllocked' = [sllocked EXCEPT ![s] = TRUE]
    /\ slpid' = [slpid EXCEPT ![s] = pid[p]]
    /\ slk' = [slk EXCEPT ![s] = NoCPU]
    /\ Goto(p, "critical")
    /\ UNCHANGED <<tableVars, plock, wait_lock, cpuVars, arg, idx>>

\* releasesleep(): acquire(&lk->lk); locked = 0; pid = 0; wakeup(lk).
ReleaseSleep(c, p) ==
    LET s == arg[p] IN
    /\ At(c, p, "critical")
    /\ slk[s] = NoCPU
    /\ slk' = [slk EXCEPT ![s] = c]
    /\ sllocked' = [sllocked EXCEPT ![s] = FALSE]
    /\ slpid' = [slpid EXCEPT ![s] = 0]
    /\ idx' = [idx EXCEPT ![p] = 1]
    /\ Goto(p, "wakeup")
    /\ UNCHANGED <<tableVars, plock, wait_lock, cpuVars, arg>>

-----------------------------------------------------------------------------
Scheduler(c) == SchedSkip(c) \/ SchedRun(c) \/ SchedBack(c)

\* Steps a process takes on its own once it is in the kernel.
KernelStep(c, p) ==
    \/ Forkret(c, p) \/ YieldReturn(c, p)
    \/ AllocSkip(c, p) \/ AllocTake(c, p) \/ AllocFail(c, p)
    \/ ForkCopy(c, p) \/ ForkFail(c, p) \/ ForkParent(c, p) \/ ForkRun(c, p)
    \/ ExitZombie(c, p) \/ ExitRelease(c, p) \/ ExitSched(c, p)
    \/ WaitReap(c, p) \/ WaitNone(c, p) \/ WaitSleep(c, p)
    \/ SleepAcquire(c, p) \/ SleepSwitch(c, p)
    \/ SleepReturn(c, p) \/ SleepReacquire(c, p) \/ WakeupRound(c, p)
    \/ AcquireSleepWait(c, p) \/ AcquireSleepTake(c, p) \/ ReleaseSleep(c, p)

\* System calls a user program chooses to make.
SystemCall(c, p) ==
    \/ SysFork(c, p) \/ ExitReparent(c, p) \/ SysWait(c, p)
    \/ \E s \in SleepLock : AcquireSleep(c, p, s)

Next == \E c \in CPU :
            \/ Scheduler(c)
            \/ \E p \in Slot : KernelStep(c, p) \/ Yield(c, p) \/ SystemCall(c, p)

Spec == Init /\ [][Next]_vars

\* Every CPU keeps executing instructions: a spin lock that is free again and
\* again is got in the end, and the timer interrupt, pending until the process
\* is back in user mode, makes it yield however many calls it makes.  No
\* fairness on the system calls.
Fairness == \A c \in CPU :
               /\ SF_vars(Scheduler(c) \/ \E p \in Slot : KernelStep(c, p))
               /\ SF_vars(\E p \in Slot : Yield(c, p))

FairSpec == Spec /\ Fairness
-----------------------------------------------------------------------------
(* Properties *)

Channel == {0} \cup Slot \cup SleepLock
Holder == CPU \cup {NoCPU}

\* Type invariant of the process table, the locks and the CPUs.
TypeOK ==
    /\ state \in [Slot -> procstate]
    /\ chan \in [Slot -> Channel]
    /\ pid \in [Slot -> Nat]
    /\ parent \in [Slot -> {0} \cup Slot]
    /\ kstack \in [Slot -> BOOLEAN]
    /\ nextpid \in Nat
    /\ plock \in [Slot -> Holder]
    /\ wait_lock \in Holder
    /\ slk \in [SleepLock -> Holder]
    /\ sllocked \in [SleepLock -> BOOLEAN]
    /\ slpid \in [SleepLock -> Nat]
    /\ cpuproc \in [CPU -> {0} \cup Slot]
    /\ spc \in [CPU -> {"scan", "run", "back"}]
    /\ sidx \in [CPU -> Slot]
    /\ kpc \in [Slot -> ControlPoint]
    /\ arg \in [Slot -> Channel]
    /\ idx \in [Slot -> Slot]

\* Control points reached with p->lock held, to be released by the process or
\* handed to the scheduler through sched().
HoldsOwnLock == {"forkret", "yield_ret", "sleep_switch", "sleep_ret",
                 "exit_unlock", "exit_sched"}

HoldsWaitLock(p) == \/ kpc[p] \in {"exit_lock", "exit_unlock", "wait_scan"}
                    \/ kpc[p] \in {"sleep", "sleep_switch"} /\ arg[p] \notin SleepLock

HoldsSleepSpin(p, s) == /\ kpc[p] \in {"acquiresleep", "sleep", "sleep_switch", "wakeup"}
                        /\ arg[p] = s

\* A running process holds exactly the spin locks its control point says, on
\* the CPU it runs on, so that neither acquire() ("already held"), release()
\* ("not held"), sched() ("process not locked", "process running") nor
\* exit() ("zombie returned") reaches its panic.  p->lock crosses two
\* swtch() calls: one side acquires it and the other releases it.
NoPanic ==
    \A c \in CPU :
      /\ spc[c] = "scan" => \A q \in Slot : plock[q] # c
      /\ spc[c] = "back" => /\ plock[sidx[c]] = c
                            /\ state[sidx[c]] # "RUNNING"
      /\ spc[c] = "run" =>
           LET p == cpuproc[c] IN
           /\ \A q \in Slot :
                 plock[q] = c <=>
                   \/ q = p /\ kpc[p] \in HoldsOwnLock
                   \/ q = idx[p] /\ kpc[p] = "fork_copy"
           /\ wait_lock = c <=> HoldsWaitLock(p)
           /\ \A s \in SleepLock : slk[s] = c <=> HoldsSleepSpin(p, s)
           /\ kpc[p] \notin {"dead", "none"}
           /\ kpc[p] = "exit_sched" => state[p] # "RUNNING"

\* A process runs on at most one CPU, and its entry says RUNNING unless that
\* CPU holds p->lock: scheduler() never resumes a context that another CPU
\* has not finished saving.
RunsOnOneCpu ==
    \A p \in Slot :
      LET on == {c \in CPU : cpuproc[c] = p} IN
      /\ \A c, d \in on : c = d
      /\ state[p] = "RUNNING" => on # {}
      /\ \A c \in on : state[p] # "RUNNING" => plock[p] = c

\* No wakeup is lost: a process asleep on a sleep lock has either a holder to
\* wait for or a wakeup() on its way that has not passed its entry yet.
NoLostWakeup ==
    \A p \in Slot : \A s \in SleepLock :
      state[p] = "SLEEPING" /\ chan[p] = s =>
        \/ sllocked[s]
        \/ \E q \in Slot : kpc[q] = "wakeup" /\ arg[q] = s /\ idx[q] <= p

\* The processes between acquiresleep() and releasesleep().
Inside(s) == {p \in Slot : kpc[p] = "critical" /\ arg[p] = s}

\* holdingsleep() is true for the process inside a sleep lock and for no
\* other live process, so that bwrite(), brelse() and iunlock() never panic.
HoldingSleep ==
    \A s \in SleepLock, p \in Slot :
      pid[p] # 0 => (sllocked[s] /\ slpid[s] = pid[p] <=> p \in Inside(s))

\* A sleep lock implements mutual exclusion, through the interleavings of
\* sleep(), wakeup() and the retest of lk->locked.
Excl == INSTANCE Mutex WITH Lock <- SleepLock, Process <- Slot,
                            inside <- [s \in SleepLock |-> Inside(s)]
SleepLockIsMutex == Excl!Spec

\* Every process but initproc has a parent that can still wait() for it:
\* fork() publishes the parent before the child runs, and exit() hands its
\* children over before it becomes a zombie.
ParentCanWait ==
    \A q \in Slot \ {initproc} :
      state[q] \notin {"UNUSED", "EMBRYO"} =>
        /\ parent[q] # 0
        /\ state[parent[q]] \notin {"UNUSED", "EMBRYO", "ZOMBIE"}

\* Two live entries never share a pid, also when fork() fails half-way.
PidsDistinct ==
    \A p, q \in Slot : p # q /\ pid[p] # 0 => pid[p] # pid[q]

\* The transitions of p->state.
LegalTransition ==
    \A p \in Slot :
      <<state[p], state'[p]>> \in
        {<<"UNUSED", "EMBRYO">>, <<"EMBRYO", "UNUSED">>, <<"EMBRYO", "RUNNABLE">>,
         <<"RUNNABLE", "RUNNING">>, <<"RUNNING", "RUNNABLE">>,
         <<"RUNNING", "SLEEPING">>, <<"SLEEPING", "RUNNABLE">>,
         <<"RUNNING", "ZOMBIE">>, <<"ZOMBIE", "UNUSED">>}
        \cup {<<st, st>> : st \in procstate}

\* The life of a table entry: a zombie is never woken or scheduled, an entry
\* is never reused before proc_free(), and an embryo never runs before fork()
\* makes it RUNNABLE.
LifeCycle == [][LegalTransition]_state

\* p waits for a CPU, or for a sleep lock.
Waits(p) ==
    state[p] = "RUNNABLE" \/ (state[p] = "SLEEPING" /\ chan[p] \in SleepLock)

\* Nobody is starved: with more processes than CPUs every runnable process
\* gets one, whatever the order in which scheduler() scans the table on each
\* of them, and a process asleep in acquiresleep() runs again.
WaiterRuns == \A p \in Slot : Waits(p) ~> state[p] = "RUNNING"

\* What wait() promises, "Wait for a child process to exit and return its
\* pid": a parent with an exited child comes back from its sleep.
WaitReturns ==
    \A p \in Slot :
      (kpc[p] = "sleep_ret" /\ arg[p] = p /\ ExitedChildren(p) # {})
         ~> kpc[p] = "user"

\* What "p->lock must be held" at proc_free() is for: the kernel stack of a
\* process is not freed while a CPU still executes on it.
RunsOnItsStack == \A c \in CPU : spc[c] = "run" => kstack[cpuproc[c]]
=============================================================================
