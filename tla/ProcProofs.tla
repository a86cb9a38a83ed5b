----------------------------- MODULE ProcProofs -----------------------------
(***************************************************************************)
(* Proofs about Proc for every number of CPUs, processes, sleep locks and  *)
(* pids: the locks a CPU holds, the contexts it runs, the life of a table  *)
(* entry, pids, sleep locks as mutexes, no lost wakeup, and parents that   *)
(* can wait() for their children.                                          *)
(***************************************************************************)
EXTENDS Proc, TLAPS

\* c->proc is NULL in the scheduler's loop and its loop variable elsewhere.
CpuOK ==
    \A c \in CPU : cpuproc[c] = IF spc[c] = "scan" THEN 0 ELSE sidx[c]

OneCpu ==
    \A c, d \in CPU : cpuproc[c] = cpuproc[d] /\ cpuproc[c] # 0 => c = d

\* Who holds q->lock: the scheduler q was switched back to, q itself, or a
\* parent that is creating q.
OwnsLock(c, q) ==
    \/ spc[c] = "back" /\ cpuproc[c] = q
    \/ spc[c] = "run" /\ cpuproc[c] = q /\ kpc[q] \in HoldsOwnLock
    \/ spc[c] = "run" /\ kpc[cpuproc[c]] = "fork_copy" /\ idx[cpuproc[c]] = q

LockOK == \A c \in CPU, q \in Slot : plock[q] = c <=> OwnsLock(c, q)

\* State and control point of a process on a CPU, of one whose CPU has just
\* switched back, and of one that is on no CPU.
RunOK ==
    \A c \in CPU : spc[c] = "run" =>
        LET p == cpuproc[c] IN
        /\ kpc[p] \notin {"none", "dead"}
        /\ IF kpc[p] \in {"exit_unlock", "exit_sched"}
           THEN state[p] \in {"ZOMBIE", "UNUSED"}
           ELSE state[p] = "RUNNING"

BackOK ==
    \A c \in CPU : spc[c] = "back" =>
        LET p == cpuproc[c] IN
        \/ kpc[p] = "yield_ret" /\ state[p] = "RUNNABLE"
        \/ kpc[p] = "sleep_ret" /\ state[p] = "SLEEPING"
        \/ kpc[p] = "dead" /\ state[p] \in {"ZOMBIE", "UNUSED"}
        \/ kpc[p] = "none" /\ state[p] = "UNUSED"

OffOK ==
    \A p \in Slot : (\A c \in CPU : cpuproc[c] # p) =>
        \/ kpc[p] \in {"forkret", "yield_ret", "sleep_ret"} /\ state[p] = "RUNNABLE"
        \/ kpc[p] = "sleep_ret" /\ state[p] = "SLEEPING"
        \/ kpc[p] = "forkret" /\ state[p] = "EMBRYO"
        \/ kpc[p] = "dead" /\ state[p] \in {"ZOMBIE", "UNUSED"}
        \/ kpc[p] = "none" /\ state[p] = "UNUSED"

\* The entry a fork() works on is an embryo that no other fork() works on.
Forking == {"fork_copy", "fork_parent", "fork_run"}
ForkOK ==
    \A p \in Slot : kpc[p] \in Forking =>
        /\ state[idx[p]] = "EMBRYO"
        /\ \A q \in Slot : kpc[q] \in Forking /\ idx[q] = idx[p] => q = p

ArgOK ==
    \A p \in Slot :
        /\ kpc[p] \in {"acquiresleep", "critical", "wakeup"} => arg[p] \in SleepLock
        /\ kpc[p] \in {"sleep", "sleep_switch", "sleep_ret", "sleep_reacquire"} =>
             arg[p] \in SleepLock \cup {p}

WaitLockOK == \A c \in CPU : wait_lock = c <=> spc[c] = "run" /\ HoldsWaitLock(cpuproc[c])

SpinOK == \A c \in CPU, s \in SleepLock :
             slk[s] = c <=> spc[c] = "run" /\ HoldsSleepSpin(cpuproc[c], s)

IInv == /\ TypeOK /\ CpuOK /\ OneCpu /\ LockOK /\ RunOK /\ BackOK /\ OffOK
        /\ ForkOK /\ ArgOK /\ WaitLockOK /\ SpinOK

-----------------------------------------------------------------------------
\* Arithmetic of the table index: entry 0 is NULL, the scan of scheduler()
\* wraps, and a channel that is a process is no sleep lock.
LEMMA SlotFacts ==
    /\ initproc \in Slot /\ 1 \in Slot
    /\ \A p \in Slot : p # 0
    /\ \A p \in Slot : p \notin SleepLock
    /\ \A p \in Slot : NextSlot(p) \in Slot
    /\ \A p \in Slot : p # NPROC => p + 1 \in Slot
BY NprocAssumption, SleepLockAssumption DEF Slot, initproc, NextSlot

\* Every action of scheduler(), fork(), exit(), wait(), sleep(), wakeup() and
\* the sleep locks keeps the variables in their types.
LEMMA TypeStep == TypeOK /\ [Next]_vars => TypeOK'
<1> SUFFICES ASSUME TypeOK, [Next]_vars PROVE TypeOK'
    OBVIOUS
<1> USE SlotFacts DEF TypeOK, tableVars, sleepVars, cpuVars, ctlVars, Holder, Channel,
        ControlPoint, procstate
<1>1. ASSUME NEW c \in CPU, SchedSkip(c) PROVE TypeOK'
    BY <1>1 DEF SchedSkip
<1>2. ASSUME NEW c \in CPU, SchedRun(c) PROVE TypeOK'
    BY <1>2 DEF SchedRun
<1>3. ASSUME NEW c \in CPU, SchedBack(c) PROVE TypeOK'
    BY <1>3 DEF SchedBack
<1>4. ASSUME NEW c \in CPU, NEW p \in Slot, Forkret(c, p) PROVE TypeOK'
    BY <1>4 DEF Forkret, At, Runs, Goto
<1>5. ASSUME NEW c \in CPU, NEW p \in Slot, YieldReturn(c, p) PROVE TypeOK'
    BY <1>5 DEF YieldReturn, At, Runs, Goto
<1>6. ASSUME NEW c \in CPU, NEW p \in Slot, AllocSkip(c, p) PROVE TypeOK'
    BY <1>6 DEF AllocSkip, At, Runs, Goto, Forget
<1>7. ASSUME NEW c \in CPU, NEW p \in Slot, AllocTake(c, p) PROVE TypeOK'
    BY <1>7 DEF AllocTake, At, Runs, Goto
<1>8. ASSUME NEW c \in CPU, NEW p \in Slot, AllocFail(c, p) PROVE TypeOK'
    BY <1>8 DEF AllocFail, At, Runs, Goto, Forget, proc_free
<1>9. ASSUME NEW c \in CPU, NEW p \in Slot, ForkCopy(c, p) PROVE TypeOK'
    BY <1>9 DEF ForkCopy, At, Runs, Goto
<1>10. ASSUME NEW c \in CPU, NEW p \in Slot, ForkFail(c, p) PROVE TypeOK'
    BY <1>10 DEF ForkFail, At, Runs, Goto, Forget, proc_free
<1>11. ASSUME NEW c \in CPU, NEW p \in Slot, ForkParent(c, p) PROVE TypeOK'
    BY <1>11 DEF ForkParent, At, Runs, Goto
<1>12. ASSUME NEW c \in CPU, NEW p \in Slot, ForkRun(c, p) PROVE TypeOK'
    BY <1>12 DEF ForkRun, At, Runs, Goto, Forget
<1>13. ASSUME NEW c \in CPU, NEW p \in Slot, ExitZombie(c, p) PROVE TypeOK'
    BY <1>13 DEF ExitZombie, At, Runs, Goto
<1>14. ASSUME NEW c \in CPU, NEW p \in Slot, ExitRelease(c, p) PROVE TypeOK'
    BY <1>14 DEF ExitRelease, At, Runs, Goto
<1>15. ASSUME NEW c \in CPU, NEW p \in Slot, ExitSched(c, p) PROVE TypeOK'
    BY <1>15 DEF ExitSched, At, Runs, Goto, Swtch
<1>16. ASSUME NEW c \in CPU, NEW p \in Slot, WaitReap(c, p) PROVE TypeOK'
    BY <1>16 DEF WaitReap, At, Runs, Goto, Forget, proc_free, ExitedChildren, Children
<1>17. ASSUME NEW c \in CPU, NEW p \in Slot, WaitNone(c, p) PROVE TypeOK'
    BY <1>17 DEF WaitNone, At, Runs, Goto, Forget, Children
<1>18. ASSUME NEW c \in CPU, NEW p \in Slot, WaitSleep(c, p) PROVE TypeOK'
    BY <1>18 DEF WaitSleep, At, Runs, Goto, ExitedChildren, Children
<1>19. ASSUME NEW c \in CPU, NEW p \in Slot, SleepAcquire(c, p) PROVE TypeOK'
    BY <1>19 DEF SleepAcquire, At, Runs, Goto
<1>20. ASSUME NEW c \in CPU, NEW p \in Slot, SleepSwitch(c, p) PROVE TypeOK'
    BY <1>20 DEF SleepSwitch, At, Runs, Goto, Swtch, SetLk
<1>21. ASSUME NEW c \in CPU, NEW p \in Slot, SleepReturn(c, p) PROVE TypeOK'
    BY <1>21 DEF SleepReturn, At, Runs, Goto
<1>22. ASSUME NEW c \in CPU, NEW p \in Slot, SleepReacquire(c, p) PROVE TypeOK'
    BY <1>22 DEF SleepReacquire, At, Runs, Goto, SetLk, LkOf
<1>23. ASSUME NEW c \in CPU, NEW p \in Slot, WakeupRound(c, p) PROVE TypeOK'
    BY <1>23 DEF WakeupRound, At, Runs, Goto, Forget
<1>24. ASSUME NEW c \in CPU, NEW p \in Slot, AcquireSleepWait(c, p) PROVE TypeOK'
    BY <1>24 DEF AcquireSleepWait, At, Runs, Goto
<1>25. ASSUME NEW c \in CPU, NEW p \in Slot, AcquireSleepTake(c, p) PROVE TypeOK'
    BY <1>25 DEF AcquireSleepTake, At, Runs, Goto
<1>26. ASSUME NEW c \in CPU, NEW p \in Slot, ReleaseSleep(c, p) PROVE TypeOK'
    BY <1>26 DEF ReleaseSleep, At, Runs, Goto
<1>27. ASSUME NEW c \in CPU, NEW p \in Slot, Yield(c, p) PROVE TypeOK'
    BY <1>27 DEF Yield, At, Runs, Goto, Swtch
<1>28. ASSUME NEW c \in CPU, NEW p \in Slot, SysFork(c, p) PROVE TypeOK'
    BY <1>28 DEF SysFork, At, Runs, Goto
<1>29. ASSUME NEW c \in CPU, NEW p \in Slot, ExitReparent(c, p) PROVE TypeOK'
    BY <1>29 DEF ExitReparent, At, Runs, Goto, Reparented
<1>30. ASSUME NEW c \in CPU, NEW p \in Slot, SysWait(c, p) PROVE TypeOK'
    BY <1>30 DEF SysWait, At, Runs, Goto
<1>31. ASSUME NEW c \in CPU, NEW p \in Slot, NEW s \in SleepLock, AcquireSleep(c, p, s)
      PROVE TypeOK'
    BY <1>31 DEF AcquireSleep, At, Runs, Goto
<1>32. CASE UNCHANGED vars
    BY <1>32, SMTT(90) DEF vars
<1> HIDE SlotFacts DEF TypeOK
<1>33. QED
    BY <1>1, <1>2, <1>3, <1>4, <1>5, <1>6, <1>7, <1>8, <1>9, <1>10, <1>11, <1>12, <1>13,
       <1>14, <1>15, <1>16, <1>17, <1>18, <1>19, <1>20, <1>21, <1>22, <1>23, <1>24,
       <1>25, <1>26, <1>27, <1>28, <1>29, <1>30, <1>31, <1>32
       DEF Next, Scheduler, KernelStep, SystemCall


\* The same actions preserve the ownership of the spin locks and the relation
\* between p->state, the saved context and the CPU.
LEMMA IInvStep == IInv /\ [Next]_vars => IInv'
<1> SUFFICES ASSUME IInv, [Next]_vars PROVE IInv'
    OBVIOUS
<1>t. TypeOK /\ TypeOK'
    BY TypeStep DEF IInv
<1> USE SlotFacts, CpuAssumption, <1>t
        DEF tableVars, sleepVars, cpuVars, ctlVars, TypeOK, Holder, Channel, procstate,
            ControlPoint, IInv, CpuOK, OneCpu, LockOK, OwnsLock, HoldsOwnLock, RunOK,
            BackOK, OffOK, ForkOK, Forking, ArgOK, WaitLockOK, HoldsWaitLock, SpinOK,
            HoldsSleepSpin

<1>a. ASSUME NEW c \in CPU, NEW d \in CPU, NEW p \in Slot, Runs(c, p), d # c
      PROVE  cpuproc[d] # p
    BY <1>a DEF Runs
<1>1. ASSUME NEW c \in CPU, SchedSkip(c) PROVE IInv'
    BY <1>1, SMTT(90) DEF SchedSkip
<1>2. ASSUME NEW c \in CPU, SchedRun(c) PROVE IInv'
  <2> DEFINE p == sidx[c]
  <2>1. p \in Slot /\ \A d \in CPU : cpuproc[d] # p
    BY <1>2, SMTT(90) DEF SchedRun
  <2>2. kpc[p] \in {"forkret", "yield_ret", "sleep_ret"}
    BY <1>2, <2>1 DEF SchedRun
  <2>3. CpuOK' /\ OneCpu'
    BY <1>2, <2>1 DEF SchedRun
  <2>4. LockOK'
    BY <1>2, <2>1, <2>2 DEF SchedRun
  <2>5. RunOK'
    BY <1>2, <2>1, <2>2 DEF SchedRun
  <2>6. BackOK' /\ OffOK'
    BY <1>2, <2>1, <2>2 DEF SchedRun
  <2>7. ForkOK' /\ ArgOK'
    BY <1>2, <2>1, <2>2 DEF SchedRun
  <2>8. WaitLockOK'
    BY <1>2, <2>1, <2>2 DEF SchedRun
  <2>9. SpinOK'
    BY <1>2, <2>1, <2>2 DEF SchedRun
  <2> QED
    BY <2>3, <2>4, <2>5, <2>6, <2>7, <2>8, <2>9
<1>3. ASSUME NEW c \in CPU, SchedBack(c) PROVE IInv'
    BY <1>3, SMTT(90) DEF SchedBack
<1>4. ASSUME NEW c \in CPU, NEW p \in Slot, Forkret(c, p) PROVE IInv'
    BY <1>4, SMTT(90) DEF Forkret, At, Runs, Goto
<1>5. ASSUME NEW c \in CPU, NEW p \in Slot, YieldReturn(c, p) PROVE IInv'
    BY <1>5, SMTT(90) DEF YieldReturn, At, Runs, Goto
<1>6. ASSUME NEW c \in CPU, NEW p \in Slot, AllocSkip(c, p) PROVE IInv'
    BY <1>6, SMTT(90) DEF AllocSkip, At, Runs, Goto, Forget
<1>7. ASSUME NEW c \in CPU, NEW p \in Slot, AllocTake(c, p) PROVE IInv'
  <2>1. \A d \in CPU : d # c => cpuproc[d] # p
    BY <1>a, <1>7 DEF AllocTake, At, Runs, Goto
  <2>2. CpuOK' /\ OneCpu'
    BY <1>7, <2>1 DEF AllocTake, At, Runs, Goto
  <2>3. LockOK'
    BY <1>7, <2>1 DEF AllocTake, At, Runs, Goto
  <2>4. RunOK'
    BY <1>7, <2>1 DEF AllocTake, At, Runs, Goto
  <2>5. BackOK' /\ OffOK'
    BY <1>7, <2>1, SMTT(30) DEF AllocTake, At, Runs, Goto
  <2>6. ForkOK'
    BY <1>7, <2>1 DEF AllocTake, At, Runs, Goto
  <2>7. ArgOK'
    BY <1>7, <2>1 DEF AllocTake, At, Runs, Goto
  <2>8. WaitLockOK'
    BY <1>7, <2>1 DEF AllocTake, At, Runs, Goto
  <2>9. SpinOK'
    BY <1>7, <2>1 DEF AllocTake, At, Runs, Goto
  <2> QED
    BY <2>2, <2>3, <2>4, <2>5, <2>6, <2>7, <2>8, <2>9
<1>8. ASSUME NEW c \in CPU, NEW p \in Slot, AllocFail(c, p) PROVE IInv'
    BY <1>8, SMTT(90) DEF AllocFail, At, Runs, Goto, Forget, proc_free
<1>9. ASSUME NEW c \in CPU, NEW p \in Slot, ForkCopy(c, p) PROVE IInv'
    BY <1>9, SMTT(90) DEF ForkCopy, At, Runs, Goto
<1>10. ASSUME NEW c \in CPU, NEW p \in Slot, ForkFail(c, p) PROVE IInv'
    BY <1>10, SMTT(90) DEF ForkFail, At, Runs, Goto, Forget, proc_free
<1>11. ASSUME NEW c \in CPU, NEW p \in Slot, ForkParent(c, p) PROVE IInv'
    BY <1>11, SMTT(90) DEF ForkParent, At, Runs, Goto
<1>12. ASSUME NEW c \in CPU, NEW p \in Slot, ForkRun(c, p) PROVE IInv'
    BY <1>12, SMTT(90) DEF ForkRun, At, Runs, Goto, Forget
<1>13. ASSUME NEW c \in CPU, NEW p \in Slot, ExitZombie(c, p) PROVE IInv'
    BY <1>13, SMTT(90) DEF ExitZombie, At, Runs, Goto
<1>14. ASSUME NEW c \in CPU, NEW p \in Slot, ExitRelease(c, p) PROVE IInv'
    BY <1>14, SMTT(90) DEF ExitRelease, At, Runs, Goto
<1>15. ASSUME NEW c \in CPU, NEW p \in Slot, ExitSched(c, p) PROVE IInv'
    BY <1>15, SMTT(90) DEF ExitSched, At, Runs, Goto, Swtch
<1>16. ASSUME NEW c \in CPU, NEW p \in Slot, WaitReap(c, p) PROVE IInv'
  <2>1. \A d \in CPU : d # c => cpuproc[d] # p
    BY <1>a, <1>16 DEF WaitReap, At, Runs
  <2>2. CpuOK' /\ OneCpu'
    BY <1>16, <2>1, SMTT(30) DEF WaitReap, At, Runs, Forget, proc_free, ExitedChildren, Children
  <2>3. LockOK'
    BY <1>16, <2>1, SMTT(30) DEF WaitReap, At, Runs, Forget, proc_free, ExitedChildren, Children
  <2>4. RunOK'
    BY <1>16, <2>1, SMTT(30) DEF WaitReap, At, Runs, Forget, proc_free, ExitedChildren, Children
  <2>5. BackOK'
    BY <1>16, <2>1, SMTT(30) DEF WaitReap, At, Runs, Forget, proc_free, ExitedChildren, Children
  <2>6. OffOK'
    BY <1>16, <2>1, SMTT(30) DEF WaitReap, At, Runs, Forget, proc_free, ExitedChildren, Children
  <2>7. ForkOK' /\ ArgOK'
    BY <1>16, <2>1, SMTT(30) DEF WaitReap, At, Runs, Forget, proc_free, ExitedChildren, Children
  <2>8. WaitLockOK'
    BY <1>16, <2>1, SMTT(30) DEF WaitReap, At, Runs, Forget, proc_free, ExitedChildren, Children
  <2>9. SpinOK'
    BY <1>16, <2>1, SMTT(30) DEF WaitReap, At, Runs, Forget, proc_free, ExitedChildren, Children
  <2> QED
    BY <1>16, <2>2, <2>3, <2>4, <2>5, <2>6, <2>7, <2>8, <2>9
<1>17. ASSUME NEW c \in CPU, NEW p \in Slot, WaitNone(c, p) PROVE IInv'
    BY <1>17, SMTT(90) DEF WaitNone, At, Runs, Goto, Forget, Children
<1>18. ASSUME NEW c \in CPU, NEW p \in Slot, WaitSleep(c, p) PROVE IInv'
    BY <1>18, SMTT(90) DEF WaitSleep, At, Runs, Goto, ExitedChildren, Children
<1>19. ASSUME NEW c \in CPU, NEW p \in Slot, SleepAcquire(c, p) PROVE IInv'
    BY <1>19, SMTT(90) DEF SleepAcquire, At, Runs, Goto
<1>20. ASSUME NEW c \in CPU, NEW p \in Slot, SleepSwitch(c, p) PROVE IInv'
    BY <1>20, SMTT(90) DEF SleepSwitch, At, Runs, Goto, Swtch, SetLk
<1>21. ASSUME NEW c \in CPU, NEW p \in Slot, SleepReturn(c, p) PROVE IInv'
    BY <1>21, SMTT(90) DEF SleepReturn, At, Runs, Goto
<1>22. ASSUME NEW c \in CPU, NEW p \in Slot, SleepReacquire(c, p) PROVE IInv'
    BY <1>22, SMTT(90) DEF SleepReacquire, At, Runs, Goto, SetLk, LkOf
<1>23. ASSUME NEW c \in CPU, NEW p \in Slot, WakeupRound(c, p) PROVE IInv'
    BY <1>23, SMTT(90) DEF WakeupRound, At, Runs, Goto, Forget
<1>24. ASSUME NEW c \in CPU, NEW p \in Slot, AcquireSleepWait(c, p) PROVE IInv'
    BY <1>24, SMTT(90) DEF AcquireSleepWait, At, Runs, Goto
<1>25. ASSUME NEW c \in CPU, NEW p \in Slot, AcquireSleepTake(c, p) PROVE IInv'
    BY <1>25, SMTT(90) DEF AcquireSleepTake, At, Runs, Goto
<1>26. ASSUME NEW c \in CPU, NEW p \in Slot, ReleaseSleep(c, p) PROVE IInv'
  <2>1. \A d \in CPU : d # c => cpuproc[d] # p
    BY <1>a, <1>26 DEF ReleaseSleep, At, Runs, Goto
  <2>2. CpuOK' /\ OneCpu'
    BY <1>26, <2>1 DEF ReleaseSleep, At, Runs, Goto
  <2>3. LockOK'
    BY <1>26, <2>1 DEF ReleaseSleep, At, Runs, Goto
  <2>4. RunOK'
    BY <1>26, <2>1 DEF ReleaseSleep, At, Runs, Goto
  <2>5. BackOK' /\ OffOK'
    BY <1>26, <2>1 DEF ReleaseSleep, At, Runs, Goto
  <2>6. ForkOK'
    BY <1>26, <2>1 DEF ReleaseSleep, At, Runs, Goto
  <2>7. ArgOK'
    BY <1>26, <2>1 DEF ReleaseSleep, At, Runs, Goto
  <2>8. WaitLockOK'
    BY <1>26, <2>1 DEF ReleaseSleep, At, Runs, Goto
  <2>9. SpinOK'
    BY <1>26, <2>1 DEF ReleaseSleep, At, Runs, Goto
  <2> QED
    BY <2>2, <2>3, <2>4, <2>5, <2>6, <2>7, <2>8, <2>9
<1>27. ASSUME NEW c \in CPU, NEW p \in Slot, Yield(c, p) PROVE IInv'
  <2>1. \A d \in CPU : d # c => cpuproc[d] # p
    BY <1>a, <1>27 DEF Yield, At, Runs, Goto, Swtch
  <2>2. CpuOK' /\ OneCpu'
    BY <1>27, <2>1 DEF Yield, At, Runs, Goto, Swtch
  <2>3. LockOK'
    BY <1>27, <2>1 DEF Yield, At, Runs, Goto, Swtch
  <2>4. RunOK'
    BY <1>27, <2>1 DEF Yield, At, Runs, Goto, Swtch
  <2>5. BackOK' /\ OffOK'
    BY <1>27, <2>1 DEF Yield, At, Runs, Goto, Swtch
  <2>6. ForkOK'
    BY <1>27, <2>1 DEF Yield, At, Runs, Goto, Swtch
  <2>7. ArgOK'
    BY <1>27, <2>1 DEF Yield, At, Runs, Goto, Swtch
  <2>8. WaitLockOK'
    BY <1>27, <2>1 DEF Yield, At, Runs, Goto, Swtch
  <2>9. SpinOK'
    BY <1>27, <2>1 DEF Yield, At, Runs, Goto, Swtch
  <2> QED
    BY <2>2, <2>3, <2>4, <2>5, <2>6, <2>7, <2>8, <2>9
<1>28. ASSUME NEW c \in CPU, NEW p \in Slot, SysFork(c, p) PROVE IInv'
    BY <1>28, SMTT(90) DEF SysFork, At, Runs, Goto
<1>29. ASSUME NEW c \in CPU, NEW p \in Slot, ExitReparent(c, p) PROVE IInv'
    BY <1>29, SMTT(90) DEF ExitReparent, At, Runs, Goto, Reparented
<1>30. ASSUME NEW c \in CPU, NEW p \in Slot, SysWait(c, p) PROVE IInv'
  <2>1. \A d \in CPU : d # c => cpuproc[d] # p
    BY <1>a, <1>30 DEF SysWait, At, Runs, Goto
  <2>2. CpuOK' /\ OneCpu'
    BY <1>30, <2>1 DEF SysWait, At, Runs, Goto
  <2>3. LockOK'
    BY <1>30, <2>1 DEF SysWait, At, Runs, Goto
  <2>4. RunOK'
    BY <1>30, <2>1 DEF SysWait, At, Runs, Goto
  <2>5. BackOK' /\ OffOK'
    BY <1>30, <2>1 DEF SysWait, At, Runs, Goto
  <2>6. ForkOK'
    BY <1>30, <2>1 DEF SysWait, At, Runs, Goto
  <2>7. ArgOK'
    BY <1>30, <2>1 DEF SysWait, At, Runs, Goto
  <2>8. WaitLockOK'
    BY <1>30, <2>1 DEF SysWait, At, Runs, Goto
  <2>9. SpinOK'
    BY <1>30, <2>1 DEF SysWait, At, Runs, Goto
  <2> QED
    BY <2>2, <2>3, <2>4, <2>5, <2>6, <2>7, <2>8, <2>9
<1>31. ASSUME NEW c \in CPU, NEW p \in Slot, NEW s \in SleepLock, AcquireSleep(c, p, s)
      PROVE IInv'
  <2>1. \A d \in CPU : d # c => cpuproc[d] # p
    BY <1>a, <1>31 DEF AcquireSleep, At, Runs, Goto
  <2>2. CpuOK' /\ OneCpu'
    BY <1>31, <2>1 DEF AcquireSleep, At, Runs, Goto
  <2>3. LockOK'
    BY <1>31, <2>1 DEF AcquireSleep, At, Runs, Goto
  <2>4. RunOK'
    BY <1>31, <2>1 DEF AcquireSleep, At, Runs, Goto
  <2>5. BackOK' /\ OffOK'
    BY <1>31, <2>1 DEF AcquireSleep, At, Runs, Goto
  <2>6. ForkOK'
    BY <1>31, <2>1 DEF AcquireSleep, At, Runs, Goto
  <2>7. ArgOK'
    BY <1>31, <2>1 DEF AcquireSleep, At, Runs, Goto
  <2>8. WaitLockOK'
    BY <1>31, <2>1 DEF AcquireSleep, At, Runs, Goto
  <2>9. SpinOK'
    BY <1>31, <2>1 DEF AcquireSleep, At, Runs, Goto
  <2> QED
    BY <2>2, <2>3, <2>4, <2>5, <2>6, <2>7, <2>8, <2>9
<1>32. CASE UNCHANGED vars
    BY <1>32, SMTT(90) DEF vars
<1> HIDE SlotFacts, CpuAssumption, <1>t
        DEF IInv, TypeOK, CpuOK, OneCpu, LockOK, RunOK, BackOK, OffOK, ForkOK, ArgOK,
            WaitLockOK, SpinOK
<1>33. QED
    BY <1>1, <1>2, <1>3, <1>4, <1>5, <1>6, <1>7, <1>8, <1>9, <1>10, <1>11, <1>12, <1>13,
       <1>14, <1>15, <1>16, <1>17, <1>18, <1>19, <1>20, <1>21, <1>22, <1>23, <1>24,
       <1>25, <1>26, <1>27, <1>28, <1>29, <1>30, <1>31, <1>32
       DEF Next, Scheduler, KernelStep, SystemCall

-----------------------------------------------------------------------------
\* Where the context of process q stands, from its state alone.
LEMMA ContextOf ==
    ASSUME IInv, NEW q \in Slot
    PROVE  /\ state[q] = "UNUSED" /\ plock[q] = NoCPU => kpc[q] \in {"none", "dead"}
           /\ state[q] = "EMBRYO" => kpc[q] = "forkret"
           /\ state[q] = "ZOMBIE" => kpc[q] \in {"exit_unlock", "exit_sched", "dead"}
           /\ state[q] = "SLEEPING" => kpc[q] = "sleep_ret"
           /\ kpc[q] \notin {"none", "dead", "forkret", "yield_ret", "sleep_ret"} =>
                \E c \in CPU : Runs(c, q)
<1> USE SlotFacts, CpuAssumption DEF IInv, TypeOK, Holder, CpuOK, RunOK, BackOK, OffOK
<1>1. CASE \A c \in CPU : cpuproc[c] # q
    BY <1>1
<1>2. ASSUME NEW c \in CPU, cpuproc[c] = q, spc[c] = "run"
      PROVE  /\ state[q] = "UNUSED" => plock[q] = c
             /\ state[q] \notin {"EMBRYO", "SLEEPING"}
             /\ state[q] = "ZOMBIE" => kpc[q] \in {"exit_unlock", "exit_sched"}
             /\ Runs(c, q)
    BY <1>2 DEF LockOK, OwnsLock, HoldsOwnLock, Runs
<1>3. ASSUME NEW c \in CPU, cpuproc[c] = q, spc[c] = "back"
      PROVE  /\ plock[q] = c
             /\ kpc[q] \in {"yield_ret", "sleep_ret", "dead", "none"}
             /\ state[q] # "EMBRYO"
             /\ state[q] = "ZOMBIE" => kpc[q] = "dead"
             /\ state[q] = "SLEEPING" => kpc[q] = "sleep_ret"
    BY <1>3 DEF LockOK, OwnsLock
<1>4. ASSUME NEW c \in CPU, cpuproc[c] = q PROVE spc[c] \in {"run", "back"}
    BY <1>4
<1> QED
    BY <1>1, <1>2, <1>3, <1>4

\* The state proc_init() and user_init() leave satisfies the invariant.
LEMMA IInvInit == Init => IInv
BY SlotFacts, CpuAssumption, NprocAssumption
   DEF Init, IInv, TypeOK, Holder, Channel, procstate, ControlPoint, CpuOK, OneCpu,
       LockOK, OwnsLock, HoldsOwnLock, RunOK, BackOK, OffOK, ForkOK, Forking, ArgOK,
       WaitLockOK, HoldsWaitLock, SpinOK, HoldsSleepSpin

\* The inductive invariant holds in every reachable state of the kernel.
THEOREM ProcInvariant == Spec => []IInv
<1>1. Init => IInv
    BY IInvInit
<1>2. IInv /\ [Next]_vars => IInv'
    BY IInvStep
<1> QED
    BY <1>1, <1>2, PTL DEF Spec

\* Type correctness of the process table, the locks and the CPUs.
THEOREM TypeCorrect == Spec => []TypeOK
BY ProcInvariant, PTL DEF IInv

\* No CPU ever reaches the panic of acquire(), release(), sched() or exit():
\* p->lock is handed across swtch() to a side that releases it.
THEOREM LocksNeverPanic == Spec => []NoPanic
<1>1. IInv => NoPanic
    BY SlotFacts DEF IInv, NoPanic, TypeOK, CpuOK, LockOK, OwnsLock, RunOK, BackOK,
                     WaitLockOK, SpinOK, HoldsOwnLock
<1> QED
    BY <1>1, ProcInvariant, PTL

\* No process ever runs on two CPUs, and scheduler() never resumes a context
\* that is still being saved.
THEOREM OneCpuPerProcess == Spec => []RunsOnOneCpu
<1>1. IInv => RunsOnOneCpu
    BY SlotFacts, SMTT(60) DEF IInv, RunsOnOneCpu, TypeOK, CpuOK, OneCpu, LockOK, OwnsLock,
                     HoldsOwnLock, RunOK, BackOK, OffOK
<1> QED
    BY <1>1, ProcInvariant, PTL

-----------------------------------------------------------------------------
(* Sleep locks, wakeups and parents, on top of the invariant above *)

PidOK ==
    /\ nextpid > 0
    /\ \A p \in Slot : pid[p] < nextpid
    /\ \A p \in Slot : state[p] = "UNUSED" <=> pid[p] = 0

IsInside(p, s) == kpc[p] = "critical" /\ arg[p] = s

MutexOK ==
    \A s \in SleepLock :
        /\ sllocked[s] <=> \E p \in Slot : IsInside(p, s)
        /\ \A p \in Slot : IsInside(p, s) => slpid[s] = pid[p]
        /\ \A p, q \in Slot : IsInside(p, s) /\ IsInside(q, s) => p = q

\* The steps that take or release a sleep lock, and what all others leave alone.
SleepLockStep == \E c \in CPU, p \in Slot : AcquireSleepTake(c, p) \/ ReleaseSleep(c, p)

MutexUntouched ==
    /\ UNCHANGED <<sllocked, slpid>>
    /\ \A q \in Slot, s \in SleepLock : IsInside(q, s)' <=> IsInside(q, s)
    /\ \A q \in Slot : kpc[q] = "critical" => pid'[q] = pid[q]

\* A process that has decided to sleep holds lk->lk, so the lock is not
\* released under its feet.
SleepingOK ==
    \A p \in Slot, s \in SleepLock :
        kpc[p] \in {"sleep", "sleep_switch"} /\ arg[p] = s => sllocked[s]

\* An entry without children: one that is being created, and one that has
\* reparented its children and not been reused since.
Childless(p) ==
    \/ kpc[p] \in {"exit_lock", "exit_unlock", "exit_sched", "dead", "none"}
    \/ state[p] = "EMBRYO"

FamilyOK ==
    /\ ~Childless(initproc)
    /\ state[initproc] \notin {"UNUSED", "ZOMBIE"}
    /\ \A p, q \in Slot : Childless(p) => parent[q] # p
    /\ \A p \in Slot : kpc[p] = "fork_run" => parent[idx[p]] = p

IInv2 == /\ PidOK /\ PidsDistinct /\ MutexOK /\ SleepingOK /\ NoLostWakeup
         /\ FamilyOK /\ ParentCanWait

-----------------------------------------------------------------------------
\* One entry further in a scan of the process table.
LEMMA SlotOrder ==
    \A i, j \in Slot : i <= j /\ i # j => i # NPROC /\ i + 1 <= j
BY NprocAssumption DEF Slot

\* fork() never gives out a pid in use, and an entry has a pid unless it is free.
LEMMA PidStep ==
    IInv /\ PidOK /\ PidsDistinct /\ [Next]_vars => PidOK' /\ PidsDistinct'
<1> SUFFICES ASSUME IInv, PidOK, PidsDistinct, [Next]_vars PROVE PidOK' /\ PidsDistinct'
    OBVIOUS
<1>t. TypeOK /\ TypeOK'
    BY TypeStep DEF IInv
<1> USE SlotFacts, CpuAssumption, <1>t DEF tableVars, sleepVars, cpuVars, ctlVars,
        TypeOK, Holder, Channel, procstate, ControlPoint, IInv, RunOK, ForkOK, Forking,
        PidOK, PidsDistinct
<1>1. ASSUME NEW c \in CPU, SchedSkip(c) \/ SchedBack(c) PROVE PidOK' /\ PidsDistinct'
    BY <1>1, SMTT(30) DEF SchedSkip, SchedBack
<1>2. ASSUME NEW c \in CPU, SchedRun(c) PROVE PidOK' /\ PidsDistinct'
    BY <1>2, SMTT(30) DEF SchedRun
<1>3. ASSUME NEW c \in CPU, NEW p \in Slot,
             \/ Forkret(c, p) \/ YieldReturn(c, p) \/ AllocSkip(c, p) \/ ForkCopy(c, p)
             \/ ForkParent(c, p) \/ ExitRelease(c, p) \/ ExitSched(c, p)
             \/ WaitNone(c, p) \/ WaitSleep(c, p) \/ SleepAcquire(c, p)
             \/ SleepReturn(c, p) \/ SleepReacquire(c, p) \/ AcquireSleepWait(c, p)
             \/ AcquireSleepTake(c, p) \/ ReleaseSleep(c, p) \/ SysFork(c, p)
             \/ ExitReparent(c, p) \/ SysWait(c, p)
             \/ \E s \in SleepLock : AcquireSleep(c, p, s)
      PROVE  PidOK' /\ PidsDistinct'
    BY <1>3, SMTT(60) DEF Forkret, YieldReturn, AllocSkip, ForkCopy, ForkParent,
       ExitRelease, ExitSched, WaitNone, WaitSleep, SleepAcquire, SleepReturn,
       SleepReacquire, AcquireSleepWait, AcquireSleepTake, ReleaseSleep, SysFork,
       ExitReparent, SysWait, AcquireSleep, At, Runs, Goto, Forget, Swtch, Children,
       ExitedChildren, SetLk, LkOf, Reparented
<1>4. ASSUME NEW c \in CPU, NEW p \in Slot, AllocTake(c, p)
      PROVE  PidOK' /\ PidsDistinct'
    BY <1>4, SMTT(30) DEF AllocTake, At, Runs, Goto
<1>5. ASSUME NEW c \in CPU, NEW p \in Slot, AllocFail(c, p)
      PROVE  PidOK' /\ PidsDistinct'
    BY <1>5, SMTT(30) DEF AllocFail, At, Runs, Goto, Forget, proc_free
<1>6. ASSUME NEW c \in CPU, NEW p \in Slot, ForkFail(c, p) PROVE PidOK' /\ PidsDistinct'
    BY <1>6, SMTT(30) DEF ForkFail, At, Runs, Goto, Forget, proc_free
<1>7. ASSUME NEW c \in CPU, NEW p \in Slot, ForkRun(c, p) PROVE PidOK' /\ PidsDistinct'
    BY <1>7, SMTT(30) DEF ForkRun, At, Runs, Goto, Forget
<1>8. ASSUME NEW c \in CPU, NEW p \in Slot, ExitZombie(c, p)
      PROVE  PidOK' /\ PidsDistinct'
    BY <1>8, SMTT(30) DEF ExitZombie, At, Runs, Goto
<1>9. ASSUME NEW c \in CPU, NEW p \in Slot, WaitReap(c, p) PROVE PidOK' /\ PidsDistinct'
    BY <1>9, SMTT(30) DEF WaitReap, At, Runs, Goto, Forget, proc_free, ExitedChildren, Children
<1>10. ASSUME NEW c \in CPU, NEW p \in Slot, SleepSwitch(c, p)
      PROVE  PidOK' /\ PidsDistinct'
    BY <1>10, SMTT(30) DEF SleepSwitch, At, Runs, Goto, Swtch, SetLk
<1>11. ASSUME NEW c \in CPU, NEW p \in Slot, WakeupRound(c, p)
      PROVE  PidOK' /\ PidsDistinct'
    BY <1>11, SMTT(30) DEF WakeupRound, At, Runs, Goto, Forget
<1>12. ASSUME NEW c \in CPU, NEW p \in Slot, Yield(c, p) PROVE PidOK' /\ PidsDistinct'
    BY <1>12, SMTT(30) DEF Yield, At, Runs, Goto, Swtch
<1>13. CASE UNCHANGED vars
    BY <1>13 DEF vars
<1> HIDE DEF TypeOK, IInv, PidOK, PidsDistinct
<1> QED
    BY <1>1, <1>2, <1>3, <1>4, <1>5, <1>6, <1>7, <1>8, <1>9, <1>10, <1>11, <1>12, <1>13
       DEF Next, Scheduler, KernelStep, SystemCall

\* Only acquiresleep() and releasesleep() touch a sleep lock or who is inside.
LEMMA UntouchedStep ==
    IInv /\ [Next]_vars => SleepLockStep \/ MutexUntouched
<1> SUFFICES ASSUME IInv, [Next]_vars PROVE SleepLockStep \/ MutexUntouched
    OBVIOUS
<1>t. TypeOK /\ TypeOK'
    BY TypeStep DEF IInv
<1> USE SlotFacts, CpuAssumption, <1>t DEF tableVars, sleepVars, cpuVars, ctlVars,
        TypeOK, Holder, Channel, procstate, ControlPoint, IInv, ArgOK, MutexUntouched,
        IsInside
<1>1. ASSUME NEW c \in CPU, SchedSkip(c) \/ SchedRun(c) \/ SchedBack(c)
      PROVE  SleepLockStep \/ MutexUntouched
    BY <1>1, SMTT(30) DEF SchedSkip, SchedRun, SchedBack
<1>2. ASSUME NEW c \in CPU, NEW p \in Slot,
             \/ Forkret(c, p) \/ YieldReturn(c, p) \/ AllocSkip(c, p) \/ ForkCopy(c, p)
             \/ ForkParent(c, p) \/ ForkRun(c, p) \/ ExitZombie(c, p)
             \/ ExitRelease(c, p) \/ ExitSched(c, p) \/ WaitNone(c, p)
             \/ WaitSleep(c, p) \/ SleepAcquire(c, p) \/ SleepSwitch(c, p)
             \/ SleepReturn(c, p) \/ SleepReacquire(c, p) \/ WakeupRound(c, p)
             \/ AcquireSleepWait(c, p) \/ Yield(c, p) \/ SysFork(c, p)
             \/ ExitReparent(c, p) \/ SysWait(c, p)
             \/ \E s \in SleepLock : AcquireSleep(c, p, s)
      PROVE  SleepLockStep \/ MutexUntouched
    BY <1>2, SMTT(60) DEF Forkret, YieldReturn, AllocSkip, ForkCopy, ForkParent,
       ForkRun, ExitZombie, ExitRelease, ExitSched, WaitNone, WaitSleep, SleepAcquire,
       SleepSwitch, SleepReturn, SleepReacquire, WakeupRound, AcquireSleepWait, Yield,
       SysFork, ExitReparent, SysWait, AcquireSleep, At, Runs, Goto, Forget, Swtch, Children,
       ExitedChildren, SetLk, LkOf, Reparented
<1>3. ASSUME NEW c \in CPU, NEW p \in Slot, AllocTake(c, p)
      PROVE  SleepLockStep \/ MutexUntouched
  <2>1. kpc[idx[p]] \in {"none", "dead"} /\ idx[p] # p
    BY <1>3, ContextOf DEF AllocTake, At
  <2> QED
    BY <1>3, <2>1 DEF AllocTake, At, Runs, Goto
<1>4. ASSUME NEW c \in CPU, NEW p \in Slot, AllocFail(c, p)
      PROVE  SleepLockStep \/ MutexUntouched
  <2>1. kpc[idx[p]] \in {"none", "dead"} /\ idx[p] # p
    BY <1>4, ContextOf DEF AllocFail, At
  <2> QED
    BY <1>4, <2>1 DEF AllocFail, At, Runs, Goto, Forget, proc_free
<1>5. ASSUME NEW c \in CPU, NEW p \in Slot, ForkFail(c, p)
      PROVE  SleepLockStep \/ MutexUntouched
  <2>1. kpc[idx[p]] = "forkret" /\ idx[p] # p
    BY <1>5, ContextOf DEF ForkFail, At, ForkOK, Forking
  <2> QED
    BY <1>5, <2>1 DEF ForkFail, At, Runs, Goto, Forget, proc_free
<1>6. ASSUME NEW c \in CPU, NEW p \in Slot, WaitReap(c, p)
      PROVE  SleepLockStep \/ MutexUntouched
  <2>1. \A np \in ExitedChildren(p) : kpc[np] \in {"exit_unlock", "exit_sched", "dead"}
    BY ContextOf DEF ExitedChildren, Children
  <2> QED
    BY <1>6, <2>1 DEF WaitReap, At, Runs, Goto, Forget, proc_free, ExitedChildren, Children
<1>7. ASSUME NEW c \in CPU, NEW p \in Slot, AcquireSleepTake(c, p)
      PROVE  SleepLockStep \/ MutexUntouched
    BY <1>7 DEF SleepLockStep
<1>8. ASSUME NEW c \in CPU, NEW p \in Slot, ReleaseSleep(c, p)
      PROVE  SleepLockStep \/ MutexUntouched
    BY <1>8 DEF SleepLockStep
<1>9. CASE UNCHANGED vars
    BY <1>9 DEF vars
<1> HIDE DEF TypeOK, IInv, MutexUntouched, IsInside
<1> QED
    BY <1>1, <1>2, <1>3, <1>4, <1>5, <1>6, <1>7, <1>8, <1>9
       DEF Next, Scheduler, KernelStep, SystemCall

\* acquiresleep() and releasesleep() keep lk->locked, lk->pid and the process
\* inside in step.
LEMMA MutexStep == IInv /\ MutexOK /\ [Next]_vars => MutexOK'
<1> SUFFICES ASSUME IInv, MutexOK, [Next]_vars PROVE MutexOK'
    OBVIOUS
<1>t. TypeOK /\ TypeOK'
    BY TypeStep DEF IInv
<1>1. CASE MutexUntouched
    <2>1. \A q \in Slot, s \in SleepLock : IsInside(q, s) => pid'[q] = pid[q]
        BY <1>1 DEF MutexUntouched, IsInside
    <2> QED
        BY <1>1, <2>1 DEF MutexUntouched, MutexOK
<1>2. ASSUME NEW c \in CPU, NEW p \in Slot, AcquireSleepTake(c, p) PROVE MutexOK'
    BY <1>2, <1>t, SlotFacts
       DEF IInv, TypeOK, ArgOK, MutexOK, IsInside, AcquireSleepTake, At, Runs, Goto, tableVars
<1>3. ASSUME NEW c \in CPU, NEW p \in Slot, ReleaseSleep(c, p) PROVE MutexOK'
    BY <1>3, <1>t, SlotFacts
       DEF IInv, TypeOK, ArgOK, MutexOK, IsInside, ReleaseSleep, At, Runs, Goto, tableVars
<1> QED
    BY <1>1, <1>2, <1>3, UntouchedStep DEF SleepLockStep

\* A process on its way into sleep() holds lk->lk, which releasesleep() needs.
LEMMA SleepingStep ==
    IInv /\ MutexOK /\ SleepingOK /\ [Next]_vars => SleepingOK'
<1> SUFFICES ASSUME IInv, MutexOK, SleepingOK, [Next]_vars PROVE SleepingOK'
    OBVIOUS
<1>t. TypeOK /\ TypeOK'
    BY TypeStep DEF IInv
<1> USE SlotFacts, CpuAssumption, <1>t DEF tableVars, sleepVars, cpuVars, ctlVars,
        TypeOK, Holder, Channel, procstate, ControlPoint, IInv, ArgOK, SleepingOK,
        MutexOK, IsInside
<1>1. ASSUME NEW c \in CPU, SchedSkip(c) \/ SchedRun(c) \/ SchedBack(c)
      PROVE  SleepingOK'
    BY <1>1, SMTT(30) DEF SchedSkip, SchedRun, SchedBack
<1>2. ASSUME NEW c \in CPU, NEW p \in Slot,
             \/ Forkret(c, p) \/ YieldReturn(c, p) \/ AllocSkip(c, p) \/ AllocTake(c, p)
             \/ AllocFail(c, p) \/ ForkCopy(c, p) \/ ForkFail(c, p) \/ ForkParent(c, p)
             \/ ForkRun(c, p) \/ ExitZombie(c, p) \/ ExitRelease(c, p)
             \/ ExitSched(c, p) \/ WaitReap(c, p) \/ WaitNone(c, p) \/ WaitSleep(c, p)
             \/ SleepAcquire(c, p) \/ SleepSwitch(c, p) \/ SleepReturn(c, p)
             \/ SleepReacquire(c, p) \/ WakeupRound(c, p) \/ AcquireSleepWait(c, p)
             \/ AcquireSleepTake(c, p) \/ Yield(c, p) \/ SysFork(c, p)
             \/ ExitReparent(c, p) \/ SysWait(c, p)
             \/ \E s \in SleepLock : AcquireSleep(c, p, s)
      PROVE  SleepingOK'
    BY <1>2, SMTT(60) DEF Forkret, YieldReturn, AllocSkip, AllocTake, AllocFail,
       ForkCopy, ForkFail, ForkParent, ForkRun, ExitZombie, ExitRelease, ExitSched,
       WaitReap, WaitNone, WaitSleep, SleepAcquire, SleepSwitch, SleepReturn,
       SleepReacquire, WakeupRound, AcquireSleepWait, AcquireSleepTake, Yield, SysFork,
       ExitReparent, SysWait, AcquireSleep, At, Runs, Goto, Forget, proc_free, Swtch,
       ExitedChildren, Children, SetLk, LkOf, Reparented
<1>3. ASSUME NEW c \in CPU, NEW p \in Slot, ReleaseSleep(c, p) PROVE SleepingOK'
  <2>1. \A q \in Slot : kpc[q] \in {"sleep", "sleep_switch"} => arg[q] # arg[p]
    <3> SUFFICES ASSUME NEW q \in Slot, kpc[q] \in {"sleep", "sleep_switch"}, arg[q] = arg[p]
                 PROVE  FALSE
        OBVIOUS
    <3>1. PICK d \in CPU : spc[d] = "run" /\ cpuproc[d] = q
        BY ContextOf DEF Runs
    <3>2. slk[arg[p]] = d
        BY <1>3, <3>1 DEF ReleaseSleep, At, SpinOK, HoldsSleepSpin
    <3> QED
        BY <1>3, <3>2 DEF ReleaseSleep
  <2> QED
    BY <1>3, <2>1 DEF ReleaseSleep, At, Runs, Goto
<1>4. CASE UNCHANGED vars
    BY <1>4 DEF vars
<1> HIDE DEF TypeOK, IInv, SleepingOK, MutexOK
<1> QED
    BY <1>1, <1>2, <1>3, <1>4
       DEF Next, Scheduler, KernelStep, SystemCall

\* No action loses a wakeup: sleep() falls asleep under a held sleep lock,
\* and wakeup() passes no sleeper of its channel.
LEMMA WakeupStep ==
    IInv /\ SleepingOK /\ NoLostWakeup /\ [Next]_vars => NoLostWakeup'
<1> SUFFICES ASSUME IInv, SleepingOK, NoLostWakeup, [Next]_vars PROVE NoLostWakeup'
    OBVIOUS
<1>t. TypeOK /\ TypeOK'
    BY TypeStep DEF IInv
<1> USE SlotFacts, CpuAssumption, <1>t DEF tableVars, sleepVars, cpuVars, ctlVars,
        TypeOK, Holder, Channel, procstate, ControlPoint, IInv, RunOK, SleepingOK,
        NoLostWakeup
<1>1. ASSUME NEW c \in CPU, SchedSkip(c) \/ SchedRun(c) \/ SchedBack(c)
      PROVE  NoLostWakeup'
    BY <1>1, SMTT(30) DEF SchedSkip, SchedRun, SchedBack
<1>2. ASSUME NEW c \in CPU, NEW p \in Slot,
             \/ Forkret(c, p) \/ YieldReturn(c, p) \/ AllocSkip(c, p) \/ AllocFail(c, p)
             \/ ForkCopy(c, p) \/ ForkParent(c, p) \/ ForkRun(c, p) \/ ExitZombie(c, p)
             \/ ExitRelease(c, p) \/ ExitSched(c, p) \/ WaitNone(c, p)
             \/ WaitSleep(c, p) \/ SleepAcquire(c, p) \/ SleepReacquire(c, p)
             \/ AcquireSleepWait(c, p) \/ AcquireSleepTake(c, p) \/ Yield(c, p)
             \/ SysFork(c, p) \/ ExitReparent(c, p) \/ SysWait(c, p)
             \/ \E s \in SleepLock : AcquireSleep(c, p, s)
      PROVE  NoLostWakeup'
    BY <1>2, SMTT(60) DEF Forkret, YieldReturn, AllocSkip, AllocFail, ForkCopy,
       ForkParent, ForkRun, ExitZombie, ExitRelease, ExitSched, WaitNone, WaitSleep,
       SleepAcquire, SleepReacquire, AcquireSleepWait, AcquireSleepTake, Yield, SysFork,
       ExitReparent, SysWait, AcquireSleep, At, Runs, Goto, Forget, proc_free, Swtch, Children,
       ExitedChildren, SetLk, LkOf, Reparented
<1>3. ASSUME NEW c \in CPU, NEW p \in Slot, AllocTake(c, p) PROVE NoLostWakeup'
  <2>1. kpc[idx[p]] \in {"none", "dead"} /\ idx[p] # p
    BY <1>3, ContextOf DEF AllocTake, At
  <2> QED
    BY <1>3, <2>1 DEF AllocTake, At, Runs, Goto
<1>4. ASSUME NEW c \in CPU, NEW p \in Slot, ForkFail(c, p) PROVE NoLostWakeup'
  <2>1. kpc[idx[p]] = "forkret" /\ idx[p] # p
    BY <1>4, ContextOf DEF ForkFail, At, ForkOK, Forking
  <2> QED
    BY <1>4, <2>1 DEF ForkFail, At, Runs, Goto, Forget, proc_free
<1>5. ASSUME NEW c \in CPU, NEW p \in Slot, WaitReap(c, p) PROVE NoLostWakeup'
  <2>1. \A np \in ExitedChildren(p) : kpc[np] \in {"exit_unlock", "exit_sched", "dead"}
    BY ContextOf DEF ExitedChildren, Children
  <2>2. \A q \in Slot : kpc[q] = "wakeup" => kpc'[q] = "wakeup"
    BY <1>5, <2>1 DEF WaitReap, At, Runs, ExitedChildren, Children
  <2> QED
    BY <1>5, <2>2 DEF WaitReap, At, Runs, Goto, Forget, proc_free, ExitedChildren, Children
<1>6. ASSUME NEW c \in CPU, NEW p \in Slot, SleepSwitch(c, p) PROVE NoLostWakeup'
    BY <1>6, SMTT(30) DEF SleepSwitch, At, Runs, Goto, SetLk, Swtch
<1>7. ASSUME NEW c \in CPU, NEW p \in Slot, SleepReturn(c, p) PROVE NoLostWakeup'
  <2>1. state[p] = "RUNNING"
    BY <1>7 DEF SleepReturn, At, Runs
  <2>2. \A q \in Slot : kpc[q] = "wakeup" => kpc'[q] = "wakeup"
    BY <1>7 DEF SleepReturn, At, Runs, Goto
  <2> QED
    BY <1>7, <2>1, <2>2 DEF SleepReturn
<1>8. ASSUME NEW c \in CPU, NEW p \in Slot, WakeupRound(c, p) PROVE NoLostWakeup'
  <2> SUFFICES ASSUME NEW q \in Slot, NEW s \in SleepLock,
                      state'[q] = "SLEEPING", chan'[q] = s, ~sllocked'[s]
               PROVE  \E w \in Slot : kpc'[w] = "wakeup" /\ arg'[w] = s /\ idx'[w] <= q
    OBVIOUS
  <2>1. state[q] = "SLEEPING" /\ chan[q] = s /\ ~sllocked[s] /\ q # p
    BY <1>8 DEF WakeupRound, At, Runs
  <2>2. PICK w \in Slot : kpc[w] = "wakeup" /\ arg[w] = s /\ idx[w] <= q
    BY <2>1
  <2>3. CASE w # p
    BY <1>8, <2>2, <2>3 DEF WakeupRound, Goto, Forget
  <2>4. CASE w = p
    <3>1. idx[p] # q
        BY <1>8, <2>1, <2>2, <2>4 DEF WakeupRound
    <3>2. idx[p] # NPROC /\ idx[p] + 1 <= q
        BY <2>2, <2>4, <3>1, SlotOrder
    <3> QED
        BY <1>8, <2>2, <2>4, <3>2 DEF WakeupRound
  <2> QED
    BY <2>3, <2>4
<1>9. ASSUME NEW c \in CPU, NEW p \in Slot, ReleaseSleep(c, p) PROVE NoLostWakeup'
  <2> SUFFICES ASSUME NEW q \in Slot, NEW s \in SleepLock,
                      state'[q] = "SLEEPING", chan'[q] = s, ~sllocked'[s]
               PROVE  \E w \in Slot : kpc'[w] = "wakeup" /\ arg'[w] = s /\ idx'[w] <= q
    OBVIOUS
  <2>1. CASE s = arg[p]
    BY <1>9, <2>1, NprocAssumption DEF ReleaseSleep, Goto, Slot
  <2>2. CASE s # arg[p]
    <3>1. PICK w \in Slot : kpc[w] = "wakeup" /\ arg[w] = s /\ idx[w] <= q
        BY <1>9, <2>2 DEF ReleaseSleep
    <3> QED
        BY <1>9, <3>1 DEF ReleaseSleep, At, Goto
  <2> QED
    BY <2>1, <2>2
<1>10. CASE UNCHANGED vars
    BY <1>10 DEF vars
<1> HIDE DEF TypeOK, IInv, NoLostWakeup, SleepingOK
<1> QED
    BY <1>1, <1>2, <1>3, <1>4, <1>5, <1>6, <1>7, <1>8, <1>9, <1>10
       DEF Next, Scheduler, KernelStep, SystemCall

\* The parent of a process is alive and not past its reparent().
LEMMA FamilyStep ==
    IInv /\ FamilyOK /\ ParentCanWait /\ [Next]_vars => FamilyOK' /\ ParentCanWait'
<1> SUFFICES ASSUME IInv, FamilyOK, ParentCanWait, [Next]_vars
             PROVE  FamilyOK' /\ ParentCanWait'
    OBVIOUS
<1>t. TypeOK /\ TypeOK'
    BY TypeStep DEF IInv
<1> USE SlotFacts, CpuAssumption, <1>t DEF tableVars, sleepVars, cpuVars, ctlVars,
        TypeOK, Holder, Channel, procstate, ControlPoint, IInv, RunOK, ForkOK, Forking,
        FamilyOK, Childless, ParentCanWait
<1>1. ASSUME NEW c \in CPU, SchedSkip(c) \/ SchedBack(c)
      PROVE  FamilyOK' /\ ParentCanWait'
    BY <1>1, SMTT(30) DEF SchedSkip, SchedBack
<1>2. ASSUME NEW c \in CPU, SchedRun(c) PROVE FamilyOK' /\ ParentCanWait'
    BY <1>2, SMTT(30) DEF SchedRun
<1>3. ASSUME NEW c \in CPU, NEW p \in Slot,
             \/ Forkret(c, p) \/ YieldReturn(c, p) \/ AllocSkip(c, p) \/ ForkCopy(c, p)
             \/ ExitRelease(c, p) \/ ExitSched(c, p) \/ WaitNone(c, p)
             \/ WaitSleep(c, p) \/ SleepAcquire(c, p) \/ SleepReturn(c, p)
             \/ SleepReacquire(c, p) \/ AcquireSleepWait(c, p) \/ AcquireSleepTake(c, p)
             \/ ReleaseSleep(c, p) \/ SysFork(c, p) \/ SysWait(c, p)
             \/ \E s \in SleepLock : AcquireSleep(c, p, s)
      PROVE  FamilyOK' /\ ParentCanWait'
    BY <1>3, SMTT(60) DEF Forkret, YieldReturn, AllocSkip, ForkCopy, ExitRelease,
       ExitSched, WaitNone, WaitSleep, SleepAcquire, SleepReturn, SleepReacquire,
       AcquireSleepWait, AcquireSleepTake, ReleaseSleep, SysFork, SysWait, AcquireSleep,
       At, Runs, Goto, Forget, Swtch, Children, ExitedChildren, SetLk, LkOf
<1>4. ASSUME NEW c \in CPU, NEW p \in Slot, AllocTake(c, p)
      PROVE  FamilyOK' /\ ParentCanWait'
  <2>1. kpc[idx[p]] \in {"none", "dead"} /\ idx[p] # p
    BY <1>4, ContextOf DEF AllocTake, At
  <2> QED
    BY <1>4, <2>1 DEF AllocTake, At, Runs, Goto
<1>5. ASSUME NEW c \in CPU, NEW p \in Slot, AllocFail(c, p)
      PROVE  FamilyOK' /\ ParentCanWait'
    BY <1>5, SMTT(30) DEF AllocFail, At, Runs, Goto, Forget, proc_free
<1>6. ASSUME NEW c \in CPU, NEW p \in Slot, ForkFail(c, p)
      PROVE  FamilyOK' /\ ParentCanWait'
  <2>1. kpc[idx[p]] = "forkret" /\ idx[p] # p
    BY <1>6, ContextOf DEF ForkFail, At
  <2> QED
    BY <1>6, <2>1 DEF ForkFail, At, Runs, Goto, Forget, proc_free
<1>7. ASSUME NEW c \in CPU, NEW p \in Slot, ForkParent(c, p)
      PROVE  FamilyOK' /\ ParentCanWait'
    BY <1>7, SMTT(30) DEF ForkParent, At, Runs, Goto
<1>8. ASSUME NEW c \in CPU, NEW p \in Slot, ForkRun(c, p)
      PROVE  FamilyOK' /\ ParentCanWait'
    BY <1>8, SMTT(30) DEF ForkRun, At, Runs, Goto, Forget
<1>9. ASSUME NEW c \in CPU, NEW p \in Slot, ExitZombie(c, p)
      PROVE  FamilyOK' /\ ParentCanWait'
    BY <1>9, SMTT(30) DEF ExitZombie, At, Runs, Goto
<1>10. ASSUME NEW c \in CPU, NEW p \in Slot, WaitReap(c, p)
      PROVE  FamilyOK' /\ ParentCanWait'
  <2>1. \A np \in ExitedChildren(p) : kpc[np] \in {"exit_unlock", "exit_sched", "dead"}
    BY ContextOf DEF ExitedChildren, Children
  <2> QED
    BY <1>10, <2>1 DEF WaitReap, At, Runs, Goto, Forget, proc_free, ExitedChildren, Children
<1>11. ASSUME NEW c \in CPU, NEW p \in Slot, SleepSwitch(c, p)
      PROVE  FamilyOK' /\ ParentCanWait'
    BY <1>11, SMTT(30) DEF SleepSwitch, At, Runs, Goto, Swtch, SetLk
<1>12. ASSUME NEW c \in CPU, NEW p \in Slot, WakeupRound(c, p)
      PROVE  FamilyOK' /\ ParentCanWait'
    BY <1>12, SMTT(30) DEF WakeupRound, At, Runs, Goto, Forget
<1>13. ASSUME NEW c \in CPU, NEW p \in Slot, Yield(c, p)
      PROVE  FamilyOK' /\ ParentCanWait'
    BY <1>13, SMTT(30) DEF Yield, At, Runs, Goto, Swtch
<1>14. ASSUME NEW c \in CPU, NEW p \in Slot, ExitReparent(c, p)
      PROVE  FamilyOK' /\ ParentCanWait'
    BY <1>14, SMTT(30) DEF ExitReparent, At, Runs, Goto, Reparented
<1>15. CASE UNCHANGED vars
    BY <1>15 DEF vars
<1> HIDE DEF TypeOK, IInv, FamilyOK, ParentCanWait
<1> QED
    BY <1>1, <1>2, <1>3, <1>4, <1>5, <1>6, <1>7, <1>8, <1>9, <1>10, <1>11, <1>12, <1>13,
       <1>14, <1>15
       DEF Next, Scheduler, KernelStep, SystemCall

\* Every action changes p->state along the life cycle of a process.
LEMMA TransitionStep ==
    IInv /\ [Next]_vars => LegalTransition
<1> SUFFICES ASSUME IInv, [Next]_vars PROVE LegalTransition
    OBVIOUS
<1>t. TypeOK /\ TypeOK'
    BY TypeStep DEF IInv
<1> USE SlotFacts, CpuAssumption, <1>t DEF tableVars, sleepVars, cpuVars, ctlVars,
        TypeOK, Holder, Channel, procstate, ControlPoint, IInv, RunOK, ForkOK, Forking,
        LegalTransition
<1>1. ASSUME NEW c \in CPU, SchedSkip(c) \/ SchedBack(c) PROVE LegalTransition
    BY <1>1, SMTT(30) DEF SchedSkip, SchedBack
<1>2. ASSUME NEW c \in CPU, SchedRun(c) PROVE LegalTransition
    BY <1>2, SMTT(30) DEF SchedRun
<1>3. ASSUME NEW c \in CPU, NEW p \in Slot,
             \/ Forkret(c, p) \/ YieldReturn(c, p) \/ AllocSkip(c, p) \/ ForkCopy(c, p)
             \/ ForkParent(c, p) \/ ExitRelease(c, p) \/ ExitSched(c, p)
             \/ WaitNone(c, p) \/ WaitSleep(c, p) \/ SleepAcquire(c, p)
             \/ SleepReturn(c, p) \/ SleepReacquire(c, p) \/ AcquireSleepWait(c, p)
             \/ AcquireSleepTake(c, p) \/ ReleaseSleep(c, p) \/ SysFork(c, p)
             \/ ExitReparent(c, p) \/ SysWait(c, p)
             \/ \E s \in SleepLock : AcquireSleep(c, p, s)
      PROVE  LegalTransition
    BY <1>3, SMTT(60) DEF Forkret, YieldReturn, AllocSkip, ForkCopy, ForkParent,
       ExitRelease, ExitSched, WaitNone, WaitSleep, SleepAcquire, SleepReturn,
       SleepReacquire, AcquireSleepWait, AcquireSleepTake, ReleaseSleep, SysFork,
       ExitReparent, SysWait, AcquireSleep, At, Runs, Goto, Forget, Swtch, Children,
       ExitedChildren, SetLk, LkOf, Reparented
<1>4. ASSUME NEW c \in CPU, NEW p \in Slot, AllocTake(c, p) PROVE LegalTransition
    BY <1>4, SMTT(30) DEF AllocTake, At, Runs, Goto
<1>5. ASSUME NEW c \in CPU, NEW p \in Slot, AllocFail(c, p) PROVE LegalTransition
    BY <1>5, SMTT(30) DEF AllocFail, At, Runs, Goto, Forget, proc_free
<1>6. ASSUME NEW c \in CPU, NEW p \in Slot, ForkFail(c, p) PROVE LegalTransition
    BY <1>6, SMTT(30) DEF ForkFail, At, Runs, Goto, Forget, proc_free
<1>7. ASSUME NEW c \in CPU, NEW p \in Slot, ForkRun(c, p) PROVE LegalTransition
    BY <1>7, SMTT(30) DEF ForkRun, At, Runs, Goto, Forget
<1>8. ASSUME NEW c \in CPU, NEW p \in Slot, ExitZombie(c, p) PROVE LegalTransition
    BY <1>8, SMTT(30) DEF ExitZombie, At, Runs, Goto
<1>9. ASSUME NEW c \in CPU, NEW p \in Slot, WaitReap(c, p) PROVE LegalTransition
    BY <1>9, SMTT(30) DEF WaitReap, At, Runs, Goto, Forget, proc_free, ExitedChildren, Children
<1>10. ASSUME NEW c \in CPU, NEW p \in Slot, SleepSwitch(c, p) PROVE LegalTransition
    BY <1>10, SMTT(30) DEF SleepSwitch, At, Runs, Goto, Swtch, SetLk
<1>11. ASSUME NEW c \in CPU, NEW p \in Slot, WakeupRound(c, p) PROVE LegalTransition
    BY <1>11, SMTT(30) DEF WakeupRound, At, Runs, Goto, Forget
<1>12. ASSUME NEW c \in CPU, NEW p \in Slot, Yield(c, p) PROVE LegalTransition
    BY <1>12, SMTT(30) DEF Yield, At, Runs, Goto, Swtch
<1>13. CASE UNCHANGED vars
    BY <1>13 DEF vars
<1> HIDE DEF TypeOK, IInv, LegalTransition
<1> QED
    BY <1>1, <1>2, <1>3, <1>4, <1>5, <1>6, <1>7, <1>8, <1>9, <1>10, <1>11, <1>12, <1>13
       DEF Next, Scheduler, KernelStep, SystemCall

-----------------------------------------------------------------------------
\* The second inductive invariant holds in every reachable state.
THEOREM SleepInvariant == Spec => []IInv2
<1>1. Init => IInv2
    <2>1. Init => PidOK /\ PidsDistinct
        BY DEF Init, PidOK, PidsDistinct
    <2>2. Init => MutexOK /\ SleepingOK /\ NoLostWakeup
        BY DEF Init, MutexOK, IsInside, SleepingOK, NoLostWakeup
    <2>3. Init => FamilyOK /\ ParentCanWait
        BY SlotFacts DEF Init, FamilyOK, Childless, ParentCanWait
    <2> QED
        BY <2>1, <2>2, <2>3 DEF IInv2
<1>2. IInv /\ IInv2 /\ [Next]_vars => IInv2'
    BY PidStep, MutexStep, SleepingStep, WakeupStep, FamilyStep DEF IInv2
<1> QED
    BY <1>1, <1>2, ProcInvariant, PTL DEF Spec

\* No wakeup() of a sleep lock is lost, however acquiresleep(), releasesleep()
\* and the scheduler interleave.
THEOREM WakeupsAreNotLost == Spec => []NoLostWakeup
BY SleepInvariant, PTL DEF IInv2

\* Every process but initproc always has a parent that can wait() for it.
THEOREM ParentsCanWait == Spec => []ParentCanWait
BY SleepInvariant, PTL DEF IInv2

\* No two live processes ever share a pid.
THEOREM PidsAreDistinct == Spec => []PidsDistinct
BY SleepInvariant, PTL DEF IInv2

\* holdingsleep() tells exactly the process inside the sleep lock.
THEOREM HoldingSleepIsExact == Spec => []HoldingSleep
<1>1. PidsDistinct /\ MutexOK => HoldingSleep
    BY DEF PidsDistinct, MutexOK, HoldingSleep, Inside, IsInside
<1> QED
    BY <1>1, SleepInvariant, PTL DEF IInv2

\* p->state only ever changes along the life cycle of a process.
THEOREM StatesFollowLifeCycle == Spec => LifeCycle
<1>1. IInv /\ [Next]_vars => [LegalTransition]_state
    BY TransitionStep
<1> QED
    BY <1>1, ProcInvariant, PTL DEF Spec, LifeCycle

\* The sleep locks of kern/sleeplock.c implement mutual exclusion: each step
\* of the kernel enters a free lock, leaves a held one, or does neither.
THEOREM SleepLocksAreMutexes == Spec => SleepLockIsMutex
<1> DEFINE in == [s \in SleepLock |-> Inside(s)]
<1>1. Init => Excl!Init
    BY DEF Init, Excl!Init, Inside
<1>2. ASSUME IInv, MutexOK, [Next]_vars
      PROVE  [\E l \in SleepLock, p \in Slot : Excl!Enter(l, p) \/ Excl!Leave(l, p)]_in
    <2>t. TypeOK
        BY <1>2 DEF IInv
    <2>1. CASE MutexUntouched
        BY <2>1 DEF MutexUntouched, Inside, IsInside
    <2>2. ASSUME NEW c \in CPU, NEW p \in Slot, AcquireSleepTake(c, p)
          PROVE  Excl!Enter(arg[p], p) /\ arg[p] \in SleepLock
        <3>1. arg[p] \in SleepLock /\ ~sllocked[arg[p]] /\ kpc[p] # "critical"
            BY <1>2, <2>2 DEF IInv, ArgOK, AcquireSleepTake, At
        <3>2. Inside(arg[p]) = {}
            BY <1>2, <3>1 DEF MutexOK, IsInside, Inside
        <3>3. \A s \in SleepLock : Inside(s)' = IF s = arg[p] THEN {p} ELSE Inside(s)
            BY <2>2, <2>t, <3>1, <3>2 DEF TypeOK, AcquireSleepTake, Goto, Inside
        <3> QED
            BY <3>1, <3>2, <3>3 DEF Excl!Enter
    <2>3. ASSUME NEW c \in CPU, NEW p \in Slot, ReleaseSleep(c, p)
          PROVE  Excl!Leave(arg[p], p) /\ arg[p] \in SleepLock
        <3>1. arg[p] \in SleepLock /\ kpc[p] = "critical"
            BY <1>2, <2>3 DEF IInv, ArgOK, ReleaseSleep, At
        <3>2. Inside(arg[p]) = {p}
            BY <1>2, <3>1 DEF MutexOK, IsInside, Inside
        <3>3. \A s \in SleepLock : Inside(s)' = IF s = arg[p] THEN {} ELSE Inside(s)
            BY <2>3, <2>t, <3>1, <3>2 DEF TypeOK, ReleaseSleep, Goto, Inside
        <3> QED
            BY <3>1, <3>2, <3>3 DEF Excl!Leave
    <2> QED
        BY <1>2, <2>1, <2>2, <2>3, UntouchedStep DEF SleepLockStep
<1>3. IInv2 => MutexOK
    BY DEF IInv2
<1> QED
    BY <1>1, <1>2, <1>3, ProcInvariant, SleepInvariant, PTL
       DEF Spec, SleepLockIsMutex, Excl!Spec
=============================================================================
