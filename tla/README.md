# Verification of the xv6-armv8 kernel

TLA+ models of the kernel under `src/`, TLC configurations that check them on
small instances, and TLAPS proofs for every instance. The code is the
reference; each definition is listed with its lines in `PROJECT.json`.

## The system

A small Unix kernel for a four-core Raspberry Pi 3. All CPUs run the same
scheduler over one process table. The kernel runs with interrupts masked: an
interrupt is taken in user mode only, so a CPU leaves a process only where the
process itself calls `sched()`. The timer interrupt calls `yield()`; the UART
and the SD card interrupt CPU 0.

| Component | State | Operations | What is hard about it |
|---|---|---|---|
| processes (`proc.c`) | process table, `wait_lock`, per-CPU current process | scheduler, fork, exit, wait, sleep, wakeup, yield | locks handed across `swtch()`, wakeups that come too early, zombies freed while they still run |
| spin locks, sleep locks | holder; `locked`, `pid` | acquire, release | several woken processes racing for one lock |
| log (`log.c`) | header in memory and on disk, `outstanding`, `committing` | begin_op, end_op, log_write, commit, recovery | crash at any write, concurrent operations in one transaction, space |
| buffer cache (`bio.c`) | LRU list, flags, reference counts | bread, bwrite, brelse | recycling against waiters, the two locks of `brelse()` |
| console (`console.c`) | ring buffer with three indices | interrupt, read, write | limits of the buffer, several readers |
| SD driver (`sd.c`) | registers of the controller, `sd_card` | sd_init, sd_rw, sd_intr | a card that fails at any stage, two CPUs on one controller without a lock |
| file system (`fs.c`) | inode cache, disk inodes, bitmap, directories | iget, iput, ilock, balloc, bmap, readi, writei, dirlink, namex | reference counts over all calls, write-through, tables that fill up |
| open files and calls (`file.c`, `sysfile.c`) | file table, descriptors, working directories | openat, mkdirat, mknodat, chdir, dup, read, write, writev, close, fstat, fstatat | counts under fork and exit, error paths, locks held from one lookup to the next, the size of a transaction |
| memory (`kalloc.c`, `vm.c`, `exec.c`, `syscall.c`) | free list, page tables, `ttbr0` | brk, fork, execve, argument fetching | failure half-way, sizes inside a page |
| mkfs (`user/src/mkfs`) | the image | main | rounding, the layout the kernel relies on |
| boot (`main.c`), traps (`trap.c`) | `start_lock` | init, dispatch | the other CPUs follow the first |
| UART, clocks, mailbox, user programs | | | outside these models |

They meet at few points. The file system calls `bread`/`log_write` between
`begin_op` and `end_op`; log and cache use sleep locks; sleep locks, log and
console use `sleep` and `wakeup`; exit closes files; `proc_alloc` prints on the
console and `console_intr` wakes processes.

## Modules

### Proc: processes, spin locks, sleep locks

A CPU is in `scheduler()` at entry `sidx[c]` or runs `cpuproc[c]`, which stands
at its control point `kpc[p]`. `swtch()` moves the CPU between the two and
leaves `kpc[p]` behind as the saved context. A spin lock is the CPU that holds
it. An action goes from one `acquire()` to the next, cut further where another
CPU can see the state in between: `exit()` is four actions because `wait()` can
find the zombie between `release(&wait_lock)` and `swtch()`; `wakeup()` is one
action per table entry. The panics of `acquire`, `release`, `sched` and `exit`
are not branches of the model; `NoPanic` says that their conditions never hold.
`kalloc()` and `uvm_copy()` may succeed or fail. `killed` is never set by the
kernel and is left out. What a system call does with a sleep lock is reduced to
taking one lock and giving it back. `Mutex` is the abstract specification of a
sleep lock. A call that returns forgets its parameter and its loop variable
(`Forget`). Bound: `MaxPid`; no `fork()` starts once the next pid is above it.
`initproc` never exits in the model; in the code `init` does when a `fork()`
fails, and `exit()` then panics at once.

### Log: the write-ahead log, with crashes

Keeps the contents of the disk (header, log blocks, home blocks) apart from the
cache, the log header in memory and the control points of the processes.
`Crash` may happen in every state, in recovery too, and loses all but the disk.
`log_write()` is two actions, because it tests the sizes before it takes
`log.lock`. Of the cache it keeps contents and `B_DIRTY` and lets any clean
unused buffer be recycled at any time. One block is transferred atomically. An
operation writes at most `MaxWrite` different blocks, of the `MAXOPBLOCKS` that
`begin_op()` reserves for it; in this kernel they are seven of ten (`OpFits` of
`Fs`). `AtomicDisk` is what the log promises; the refinement mapping takes as
stable contents what recovery would produce now.

### Bio: the buffer cache

The LRU list is a sequence, the flags are sets. `brelse()` is two actions: the
sleep lock is released before `bcache.lock` is taken. A path that holds two
buffers is two users. `BlockStore` is the promise: each block is one cell with
one user at a time.

### Console: input

The ring buffer with `r`, `w`, `e`; one character per step of the holder of
`conslock`. `LineDiscipline` is the promise: entered text is read once and in
order, text being typed can be erased. Output and the `panicked` flag are left
out. Bounds: `MaxRead`, and `MaxIndex` for the indices (they are `size_t` and
`INPUT_BUF` divides 2^64, so wrapping would change nothing).

### Sd: the SD card driver

`_sd_init()`, `sd_init()`, `sd_send_command_p()`, `_sd_start()` and `sd_intr()`
as they stand, one action between two accesses to the controller that the card,
another CPU or the handler can come between. `cmds[c]` holds the commands still
to send for a step (an application command is two), `pos[c]` the place inside
`sd_send_command_p()`. Card and controller are external: three kinds of card,
two versions of the host, a state per card as the driver relies on it, and a
controller that raises flags in `INTERRUPT`. `MaxFault` commands or blocks may
be answered by an error, by a time-out or by silence, and the words of the SCR
may not come. Delays and poll counts are left out: a poll gives up only when
nothing is coming. `_sd_wait_for_data()` is called once, before the first data
of the card, and finds the data line free. The check of the
voltage window in the answer to ACMD41 is not modelled; the card accepts it.
`sd_test()` is never called.

### Inode and Fs: file system, open files and calls

`Inode` is `fs.c` as operators on a state `[di, data, used, ic, log, panic]`:
each operator is one function of the code, and errors travel in `panic` as the
kernel's `panic()` would stop it. The unit of a file is a cell, which is a
directory entry, a number in an indirect block, or data. `Image` is what mkfs
writes and `Booted` what `iinit()` finds; mkfs stops when a file outgrows
`MAXFILE` or the image is full (`GiveUp`), and `FilesAssumption` says that it ran
to its end and that the root directory does not end at a block boundary, the
one case in which mkfs rounds its size wrongly.

`Fs` runs the calls of several processes over it. A step lies between two
points where a process may wait for the sleep lock of an inode or leaves a
transaction. `namex()` is a loop of `Walk` steps, so other processes come
between any two elements of a path; `create()` is three steps between which the
parent stays locked; `file_write()` is one step per chunk. The bitmap, a disk
inode that `ialloc()` tries and the tables are changed under a buffer's lock or
a spin lock, so a step that touches them is one action. `fork()` copies
descriptors and directory, `exit()` closes them one by one. A wait in
`begin_op()` is a step not taken yet (`Log` shows that it ends). A read or a
write of the console is one step: `console_read()` and `console_write()` give up
the lock of its inode and take it again, and change nothing of the inode; the
wait for input is in `Console`. `exit()` of `initproc`, which panics, is left
out. Bounds: `MaxCalls`, `Lens`, `Path`.

Some facts the model keeps as the code has them: nothing ever decrements
`nlink` (there is no unlink), so the branch of `iput()` that frees an inode and
`itrunc()` are translated but never taken; `sys_write()` exists but is not in
the table of calls, and reaches the same `file_write()` as `writev()`.

### Mem: pages, page tables, execve

An address counts units of which `PGSIZE` make a page, so that sizes can lie
inside a page. An address space is its root, its intermediate tables and the
page of every mapped address; `free`, `lost` and the kernel stack complete the
memory. `execve()` is its stages: lookup, header, room and contents of each
segment, stack, guard page, arguments, commit, the switch of `ttbr0` and the
freeing of the old tables, with every jump to `bad`; a program header is a
segment, of another type, too short to read, or wraps around. `ino` has the
variable `ip` and whether the inode is locked inside a transaction, so that a
release that is missing or made twice can be seen. `brk()` is
`growproc()` with `uvm_alloc()` and `uvm_dealloc()`. Each round of the loop of
`uvm_alloc()` is a step (`GrowPage`, with its arguments and its address in
`grow`), for `brk()` and for both calls of `execve()`; a round that fails undoes
the ones before and leaves the size 0 (`Grown`). Contents of pages are left out, except that
`wild` records a load that went to physical address 0. `ragged` is a history
variable: the space has grown from a size inside a page. `FetchArg` checks an
address and a length, the length as an `int` of `IntMod` values, and then uses
the argument up to any of its units; `SysWritev` uses an address from the vector
of the caller without a check. Addresses are those of the user's half. Bounds:
`MaxPage`, and the sets `Program`, `ArgSize`, `Brk`, `Length`.

`uvm_copy()` passes a physical address to `V2P()` and copies from it, which
faults on the first page of every `fork()`, as `SysFork` says. `Proc` and `Fs`
model the table and file side of `fork()` as it is written, for a copy that
succeeds or fails, because that code is there to be right about.

## Runs

| Run | Instance | Shows |
|---|---|---|
| `proc` | 2 CPUs, 3 entries, 1 sleep lock, `MaxPid = 3` | locking discipline, one CPU per process, no lost wakeup, sleep lock = mutex, parents, pids, life cycle; whoever waits for a CPU or a sleep lock runs |
| `proc_wait` | 2 CPUs, 2 entries | **violated**: `exit()` wakes no parent |
| `proc_stack` | 2 CPUs, 2 entries | **violated**: `wait()` frees a stack in use |
| `log` | 2 processes, 3 blocks, offset 0, `LOGSIZE = nlog = 4`, 1 of 2 reserved blocks used | no overrun, commits run alone, sleepers of `begin_op()` are woken, all or nothing across crashes |
| `log_lba` | offset 10 | **violated**: the offset is added twice |
| `bio` | 3 users, 2 buffers, 3 blocks | the cache is transparent |
| `console` | 2 readers, buffer of 3, reads up to 2 | ring buffer = line discipline, entered lines are read |
| `sd` | 1 CPU, all cards and hosts, 2 faults, 2 repeated polls | cards are addressed and clocked right, transfers sync, everything ends |
| `sd_race` | 2 CPUs, no fault | **violated**: assertions of the driver |
| `fs` | 2 processes, 3 calls, 4 inodes, 3 cache entries, 2 files, 2 descriptors | counts, one lock per inode, write-through, blocks, links, transaction size, who holds locks |
| `mem` | 16 pages, 4-level tables of radix 2, 7 pages of address space | pages are in one place, the page table in use is live, errors give everything back once |
| `mem_vm` | as `mem` | **violated**: what the comments of `vm.c` and `syscall.c` say |

Three entries are enough for `proc` to have a grandchild that is handed to
`initproc`, an entry that is reused, a `fork()` that finds the table full, a
waiter, a holder and a third process on one sleep lock, and with two CPUs a
process that competes for one. Two processes and three blocks in the log give concurrent
operations in one transaction, absorption, a process that waits for space while
the other's operation is open, one that waits for a commit, and a second
transaction over old log contents. Two buffers for three blocks and three users
give recycling, waiters and exhaustion. The console's buffer wraps within
`MaxIndex`. Two faults let the driver fail, fall back (an old card after a
silent SEND_IF_COND) and fail again. In `fs` the file table, the descriptors,
the inode cache and the disk all run full within three calls, files reach their
indirect block, a path crosses a directory that another process is making, and
two processes share an open file; the panics it reaches are `balloc`, `iget` and
`file_close` of a file without a type. In `mem` memory runs out at every
allocation of `execve()` and `brk()`; the panics it reaches are `kfree`,
`uvm_unmap` (all three: of a size inside a page, and of a hole with and without a
table) and `uvm_load`, and the fault of a bad pointer or of `fork()`.

The kernel is built with a partition offset that is not 0. With it the log does
not work: `log_lba` shows why. The run `log` sets the offset aside to ask whether
the protocol itself, its order of writes and its interlocking, is right. It is.
As built `nlog = LOGSIZE`, so that the area has room for `LOGSIZE - 1` logged
blocks. Operations that used all of their reservation could fill one more, and
two CPUs that pass the unlocked test of `log_write()` together would overrun the
area; with operations that leave a block of it, as in the run and in this kernel,
no transaction comes that far. Were the operation that begins not counted, the
run would find the panic (the mutant of `LogWithinBounds`).

Deadlock is checked in every run. A state where a panic or the bound on calls
stops the system has an explicit step that changes nothing (`Halted`, `Rest`).

Fairness. `Proc`: every CPU goes on executing, its scheduler or the kernel steps
of its process, and the timer of a CPU that is in user mode again and again
fires there; nothing forces a system call to be made. That is what masked
interrupts and a periodic timer give. Both are strong fairness: a spin lock that
is free again and again is obtained eventually, which the test-and-set of
`acquire()` gives as long as no CPU loses every race, and a process that makes
one system call after the other is in user mode only in between. `Log`: a process in `begin_op`, `log_write`
or `commit` goes on, and an operation ends after finitely many `log_write`
calls (strong fairness, as each call disables the end for a while); a crash
need not happen. `Console`: the handler leaves when the UART is empty, and a
reader that spins for `conslock` obtains it eventually (strong fairness: the
handler holds it only for the characters at hand). `Sd`: the CPU in the driver
goes on, and the controller does what it has announced; whether a command
fails is left open. `Fs` and `Mem` state no liveness: `HoldersRun` says instead
that whoever is waited for can run.

An invariant that a run names may be a conjunction of parts with names of their
own, the type invariant among them: `LogWithinBounds`, `ListOK`,
`BroughtUpRight`, `ICacheOK`, `ExecOK`, `LayoutOK`.

Mutants. Each property of a passing run has a mutated action, marked `Mutant`
in the module, under which TLC finds the property violated.

## Proofs

Everything here is proved for every value of the constants that the named
assumptions of the modules allow: any number of processes, CPUs, table entries,
buffers, blocks and characters, any size of a log or a ring buffer.

`ProcProofs`. The invariants are not inductive alone: whether `release()` is
safe depends on who holds the lock across two `swtch()` calls. `IInv` says
exactly which locks a CPU holds as a function of its place in the scheduler and
the control point of its process (`LockOK`, `WaitLockOK`, `SpinOK`), which
states go with which control points on a CPU, on the way back from one, and off
all CPUs (`RunOK`, `BackOK`, `OffOK`), and that two `fork()` calls never work on
one entry (`ForkOK`). `TypeStep` and `IInvStep` have one case per action.
Results: `TypeCorrect`, `LocksNeverPanic`, `OneCpuPerProcess`.

The second part adds, on top of `IInv`, what sleepers, pids and families need
(`IInv2`), one lemma per part, and obtains `WakeupsAreNotLost`,
`HoldingSleepIsExact`, `ParentsCanWait`, `PidsAreDistinct`,
`StatesFollowLifeCycle` and the refinement `SleepLocksAreMutexes`.

`ConsoleProofs`. The type invariant, `IndexOrder` and
`AsleepMeansEmpty` are inductive together, for every buffer size: a reader moves
`r` only when `r # w`, when nobody sleeps; `w` moves only with a wakeup. For
`EOFIsKept` a read must never want more than it was asked for (`WantOK`). For
the refinement `RingIsLineDiscipline` the line being edited must hold no
character that enters a line (`EditOK`): the kill of the code goes back to the
last newline not yet entered, the kill of `LineDiscipline` to the start of the
line, and `EditOK` makes them the same. That a stored character overwrites none
between `r` and `e` is arithmetic: two indices less than `INPUT_BUF` apart name
different places (`PlacesDiffer`).

`BioProofs`. `IInv` says that the list has every buffer exactly once
(`ListIsWhole`), that `refcnt` counts the processes that have the buffer
(`RefcntCounts`), that a process stands at a buffer with the block it asked for
(`BufferOK`, `NamedOK`), who holds which sleep lock (`LockOK`), that a block has
at most one buffer (`UniqueOK`), and what the flags mean (`FlagsOK`, `CleanOK`:
only a dirty buffer differs from the disk, and `bget()` recycles no dirty one).
Recycling is safe because of the count, and the count is exact because a buffer
keeps its block while it is counted: the parts are inductive only together. From them follow `ListStaysWhole`,
`CountsAreExact`, and `CacheImplementsStore`, in which the contents of a block
are those of its valid buffer, or of the disk if it has none.

`LogProofs`, for every partition offset and every size of the log area. `IInv`
counts the processes inside (`CountOK`: `outstanding` is their number), says
that `committing` holds exactly while one process is in `commit()` and nobody
is inside (`CommitOK`), what the header holds in each phase of a commit or of
recovery (`HeaderOK`, `PhaseOK`), which blocks an operation has logged
(`WroteOK`), and that there is room (`SpaceOK`): the header and what the
operations inside may still log fit into `LOGSIZE`. `begin_op()` reserves
`MAXOPBLOCKS` for each operation inside, so the header, which is part of the
union of what they logged and of what was there before, cannot overflow
(`UnionBound`, `TransactionFits`). Results: `CommitRunsAlone`,
`SleepersAreWoken` and `TransactionsFitHeader`. `LogNeverOverruns` says that the
log area is not overrun and no test of `log_write()` or `end_op()` panics, under
`MaxWrite < MAXOPBLOCKS` and `LOGSIZE + MaxWrite + 1 < nlog + MAXOPBLOCKS`. The
kernel meets both: 7 < 10, and 30 + 7 + 1 < 30 + 10.

The second part of `LogProofs` is about crashes. `LogIsCrashAtomic` has two
cases. With the offset of the kernel (`HomesApart`: it leads every logged number
away from every block of the file system) a commit writes to sectors that are
nobody's home, so the disk is atomic in that a crash brings back what was there
at first; `HomeNeverChanges` says so outright, for every step. The other case is
the offset 0, in which the log does what it is for. There `CrashInv` adds where
the contents of a block are: dirty are exactly the logged buffers that are not
home yet (`DirtyOK`), a buffer that is neither dirty nor in `log_write()` has
what the disk has (`CachedOK`), and the log area and the home blocks have what
was copied to them so far (`CopiedOK`). The proof is a step simulation of
`AtomicDisk`, in which the write of the header commits and a crash, in recovery
too, loses only what was not committed. `TransactionsReachHome` is the property
that `log_lba` finds violated, for the offset 0: a diagnosis, that the doubled
offset is its only cause, and no statement about the kernel as built.

`SdProofs`, for every number of blocks, words, polls and faults, under the
hypothesis `CPU = {Boot}`: one CPU calls the driver, as at boot, where the others
wait for `started`. With two CPUs the statements are false (`sd_race`), because
the lock that `_sd_start()` relies on does not exist; the theorems say that this
is the only thing missing. `RwInv` ties each step of the driver to the commands
it still has to send (`QueueOK`), the command register and the flags (`WireOK`,
`FlagsOK`), the transfer and the words moved so far (`XferOK`), the state of the
card (`CardOK`) and what holds once the kernel runs (`UpOK`). It holds whatever
fails, also when the controller stops in a command: then no step succeeds before
a reset. From it follow `DriverInvariant`, `RwSynchronises` and, with the two
dividers of the clock (`Dividers`, computed from `sd_get_clock_divider()` for both
versions of the host), `BringUpIsRight`. `NoAssertFails` needs more: as long as
nothing has failed (`Sound`), every flag that is up is one the driver is about to
take down (`Calm`). Its parts say in which state the card gets a command
(`AskOK`), which flags an answer comes with (`AnswerOK`), which are left between
two commands (`RestOK`), and that more polls are left than the card stays busy
for (`PollOK`). The transfer of the SCR leaves `DATA_DONE` up, and only the
clearing of `INTERRUPT` before the next command keeps `_sd_start()` from finding
it.

`MemProofs`, for every number of pages, page size, radix of the tables, program
and argument. `Inv` has four parts. `Shape`, which also holds after a panic, has
the types, the page table of the CPU and the inode of `execve()`. `Whole` says that
the free list, the lost pages, the kernel stack and the two address spaces have
no page in common and are all pages there are, and that inside an address space
no page is used twice (`Clean`). `Control` ties the stages of `execve()` to what
the program still has. `Layout` says what is mapped: a present page has its
tables, a space that is not ragged has no hole (`Kept`), nothing is mapped above
the page of the size (`Capped`), and during `uvm_alloc()` exactly the pages
behind the loop's address have been added (`Extended`). The last is needed for
all others: that a round replaces no page but the one the size points into, and
that the two pages of the stack are there when `uvm_clear()` closes the lower
one, follow only from where the loop started. Results: `PagesArePartitioned`,
`ExecIsOK`, `LayoutIsOK` and `StraysOnlyWhenRagged`. The last one was first
stated without the panics of a shrink that meets a hole; its proof failed there,
and the smallest program that shows it (two segments, the second in the page
after the first) is now one of the run's. It is about arguments whose length
fits an `int`; a longer one, and an address in the vector of `writev()`, meets
an unmapped page in any space.

`InodeProofs` and `FsProofs`, for every number of processes, calls, inodes,
blocks, cache entries, files and descriptors, every size of a block and of an
inode, all paths and all lengths of a write. `IInv` has these parts:

- `Shape`: the types, an empty log between two steps, and one cache entry per
  inode in use. It holds after a panic too; the rest of the list (`Live`) as
  long as nothing has panicked.
- `CacheOK`: a valid copy that nobody has locked is the inode on the disk. A
  locked copy may run ahead of it, so all that follows is about `See(F, s)`, the
  inodes with the copy of entry `s` in place.
- `RefsCounted`, with the counts written as sums, so that a step of one process
  changes each sum by what that process gains and loses (`RefsMove`).
- `Doing(p)`: what a process has at each point of a call: which inodes it points
  to and has locked, and what it has found out under the lock, such as that the
  name is not in the parent between the lookup and the `dirlink()` of `create()`.
  `Held(s)`: an inode is locked only by a process at a point of its call where
  it may be. Together they give `HoldersRun`, and they keep other processes from
  making what was found out stale.
- `FileOK(f)`: an open file has an inode, one that is open for writing no
  directory. Without it a `write()` could destroy entries.
- `Blocks`, `Whole`, `Tree`: see `InodeProofs`. `Tree` leaves out the `Orphans`,
  inodes that `create()` has allocated and not linked yet, because `LinksCounted`
  does not hold in between.
- `Logged(p)`: what a transaction has logged before its next step, which bounds
  what it logs altogether (`OpFits`).

`OnlyFullTablesPanic` and `OpFits` are themselves parts: that a panic does not
happen follows from the state before, for instance no `iput()` below one from
`RefsCounted`, no `dirlink()` of a name twice from `Doing`. One lemma per action
shows that it keeps `IInv`, on top of what `InodeProofs` says about each operator
of `Inode`: which fields it changes, what it logs, and that it preserves
`Blocks`, `Whole` and `Tree`. The loops of `readi()`, `writei()`, `iappend()` and
of mkfs over its files are recursive functions; what they compute is proved from
the fact that a set of numbers has a least element (`LeastNumber`, `Stays`),
which takes the place of an induction rule. `ImageSound` shows that the image
of mkfs satisfies the parts about the disk, for any list of files that
`FilesAssumption` allows; the initial state follows from it. Results: `Inductive`, and a theorem for each of the seven
invariants of the run `fs`.

Their assumptions (`FsAssumption`, `FilesAssumption`) are met by the kernel as
built: a block holds two directory entries or more, a directory has room for an
entry per inode, there is a data block, `MAXOPBLOCKS` is 6 or more (`file_write()`
splits by it); mkfs ran to its end with distinct file names and enough inodes,
and the entries of the root do not end exactly at the end of a block. The last one is
needed: otherwise `BlocksConsistent` is false from the start, as mkfs adds a
block to the size of the root that it has not allocated (see below).

Model-checked only:

- Liveness (`WaiterRuns`, `BeginWoken`, `LineIsRead`, `RwEnds`) is outside the
  prover's reach.
- `Sd` with several CPUs, which is where its properties fail.

## Findings

1. `exit()` never wakes its parent (`proc_wait`).
2. `wait()` frees a zombie without its lock, its kernel stack included, while it
   still runs on it (`proc_stack`).
3. The partition offset is added twice to logged blocks (`log_lba`).
4. `_sd_start()` says that its caller holds `sdlock`; there is no such lock, and
   two CPUs make its assertions fail (`sd_race`).

5. The comments of `vm.c` and `syscall.c` promise what the code does not do
   (`mem_vm`, `MemPromises`). TLC stops at the first conjunct it finds violated;
   checked alone, each of the five is:
   - `uvm_alloc()` is said to "grow process from oldsz to newsz, which need not
     be page aligned" (vm.c:186-187). From a size inside a page it maps over the
     last page, which is lost, and leaves a hole below the new size
     (`uvm_allocMaps`, `vm.c:194`).
   - It "returns new size or 0 on error" (vm.c:187). A failure after the first
     round is undone with `kfree()` of the wrong address, which panics: memory
     that runs out in `brk()` or `execve()` stops the kernel
     (`uvm_allocReturns`, `vm.c:197`).
   - Of `uvm_dealloc()`, "oldsz and newsz need not be page-aligned", and it
     "returns the new process size" (vm.c:214-216). A size inside a page panics
     in `uvm_unmap()`, and so does every shrink by a page or more
     (`uvm_deallocReturns`, `vm.c:224`).
   - `uvm_copy()` "returns 0 on success, -1 on failure" (vm.c:244-245). It copies
     from `V2P()` of a physical address and faults on the first page
     (`uvm_copyReturns`, `vm.c:261`).
   - `argptr()` fetches "a pointer to a block of memory of size n bytes" and
     checks "that the pointer lies within the process address space"
     (syscall.c:60-62), but its size is an `int`: `sys_read()` passes 64 bits, and
     a length that differs from its `int` is checked as another
     (`argptrChecks`, `syscall.c:70`).

What else the models show, without a statement of the repository against it:

- `sys_writev()` uses the addresses in the vector without a check
  (`sysfile.c:110`), so any of them faults in the kernel (`SysWritev`).
- `openat()` with no free descriptor closes a file that has no type yet, which
  `file_close()` answers with a panic (`fs`, allowed by `OnlyFullTablesPanic`).
- mkfs rounds the root directory up by a block too many when its entries fill
  the last block, so that a read of the directory allocates a block outside any
  transaction. `Image` computes this; `FilesAssumption` leaves such lists out, so
  no run and no theorem covers it.

## Not modelled

UART, GPIO, clocks and mailbox are device registers without a protocol of their
own; `entry.S`, `trap.S` and `swtch.S` are assembly; `kpgdir.c` is a constant
table; `string.h`, `proc_dump()`, `cprintf()` and the formatting in `sd.c` have
no state; the shell and the user programs run outside the kernel. An unknown
system call number spins in the kernel and has no action. Compositions that
would be needed for three hazards are not made: `Proc` with `Console` (lock
order of `p->lock` and `conslock`; input when every process sleeps), and `Log`
with `Bio` (`NBUF = LOGSIZE`).

## Plan

Done: `Proc`, `Log`, `Bio`, `Console`, `Sd`, `Inode`, `Fs` and `Mem`, each
checked; every safety property and refinement that a passing run checks proved,
those of `Sd` for one CPU. Left: the compositions named above.
