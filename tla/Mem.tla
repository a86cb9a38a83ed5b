--------------------------------- MODULE Mem ---------------------------------
(***************************************************************************)
(* Memory of a user process: the page allocator (kern/kalloc.c), page      *)
(* tables (kern/vm.c), execve() (kern/exec.c), and the memory side of      *)
(* brk(), fork() and argument fetching (kern/proc.c, kern/syscall.c).      *)
(*                                                                         *)
(* An address counts units of which PGSIZE make a page, so that sizes need *)
(* not be multiples of it.  Page tables have four levels of Radix entries. *)
(* X is a memory state [free, lost, wild, panic, as], as being the address *)
(* space worked on: its root pgdir, its tables, the page and the PTE_USER  *)
(* bit of every mapped page, and ragged, whether it ever grew from a size  *)
(* inside a page.  Contents of pages are left out.  Each round of the loop *)
(* of uvm_alloc() is a step.                                               *)
(***************************************************************************)
EXTENDS Integers, Sequences, FiniteSets

CONSTANTS Page,       \* physical pages above the kernel
          PGSIZE,     \* units of a page
          Radix,      \* entries of a page table (ENTRYSZ)
          MaxPage,    \* bound: the last page of a user address space
          Program,    \* the files: [elf, segs], segs the program headers
          ArgSize,    \* sizes of what execve() pushes, in units
          Brk,        \* arguments of brk()
          IntMod,     \* 2^32, in units
          Length      \* lengths that system calls are given, in units

ASSUME MemAssumption ==
    /\ Page \subseteq Nat \ {0} /\ IsFiniteSet(Page) /\ Cardinality(Page) >= 6
    /\ PGSIZE \in Nat \ {0} /\ Radix \in Nat /\ Radix >= 2 /\ MaxPage \in Nat \ {0}
    /\ ArgSize \subseteq Nat \ {0} /\ Brk \subseteq Int
    /\ IntMod \in Nat /\ (MaxPage + 1) * PGSIZE < IntMod \div 2 /\ Length \subseteq Nat

\* A program header: loaded, of another type, cut short by the end of the file,
\* or with addresses that wrap; avail is what the file has of the segment.
Header == [kind : {"load", "other", "short", "wraps"},
           vaddr : Nat, filesz : Nat, memsz : Nat, avail : Nat]

\* The bound is high enough for every program and its stack.
ASSUME ProgramAssumption ==
    /\ Program \subseteq [elf : BOOLEAN, segs : Seq(Header)]
    /\ \A file \in Program : \A i \in 1..Len(file.segs) :
          file.segs[i].vaddr + file.segs[i].memsz <= (MaxPage - 1) * PGSIZE

VARIABLES
    free,    \* kmem.free_list
    lost,    \* pages that nothing points to any more
    wild,    \* uvm_load() has written to physical address 0
    panic,   \* the panic that stopped the kernel, or "no"
    as, sz,  \* p->pgdir and p->sz
    ttbr,    \* the page table the CPU uses
    kstack,  \* p->kstack
    img,     \* the image execve() builds, then the one it replaces, and its size
    pc, prog,
    ino,     \* execve()'s ip is not NULL; the inode is locked, in a transaction
    grow     \* uvm_alloc() under way: va, oldsz and newsz

vars == <<free, lost, wild, panic, as, sz, ttbr, kstack, img, pc, prog, ino, grow>>
mem == <<free, lost, wild, panic>>

Vpn == 0..MaxPage
NoPage == [pa |-> 0, user |-> FALSE]
NoAs == [pgdir |-> 0, tab |-> {}, map |-> [v \in Vpn |-> NoPage], ragged |-> FALSE]
NoImg == [as |-> NoAs, sz |-> 0]
NoProg == [elf |-> FALSE, segs |-> <<>>]
NoIno == [ip |-> FALSE, locked |-> FALSE]
NoGrow == [va |-> 0, old |-> 0, new |-> 0]

Ok(X) == X.panic = "no"
Panic(X, why) == IF Ok(X) THEN [X EXCEPT !.panic = why] ELSE X

-----------------------------------------------------------------------------
(* kalloc() and kfree() *)

\* kalloc() takes the first page; which one does not matter.
AnyOf(S) == CHOOSE pg \in S : TRUE
Kalloc(X) ==
    IF X.free = {} THEN [x |-> X, pg |-> 0]
    ELSE [x |-> [X EXCEPT !.free = @ \ {AnyOf(@)}], pg |-> AnyOf(X.free)]

Kfree(X, pg) == [X EXCEPT !.free = @ \cup {pg}]

\* kfree(V2P(pa)) of a physical address is no address of the allocator.
KfreePhysical(X) == Panic(X, "kfree")

-----------------------------------------------------------------------------
(* Page tables *)

\* The table of level L on the way to page v.
Key(L, v) == <<L, v \div (Radix ^ (4 - L))>>
Tables(A) == {t.pg : t \in A.tab}
Has(A, k) == \E t \in A.tab : t.key = k
Pages(A) == {A.map[v].pa : v \in Vpn} \ {0}
All(A) == (Tables(A) \cup Pages(A) \cup {A.pgdir}) \ {0}

\* pde_validate() with alloc, given what kalloc() returned.
AddTable(r, k) ==
    IF r.pg = 0 THEN [x |-> r.x, ok |-> FALSE]
    ELSE [x |-> [r.x EXCEPT !.as.tab = @ \cup {[key |-> k, pg |-> r.pg]}], ok |-> TRUE]

Validate(w, k) ==
    IF ~w.ok \/ Has(w.x.as, k) THEN w ELSE AddTable(Kalloc(w.x), k)

\* pgdir_walk() that allocates: the tables of levels 1 to 3, in this order; the
\* ones made before a failure stay.
WalkAlloc(X, v) ==
    Validate(Validate(Validate([x |-> X, ok |-> TRUE], Key(1, v)), Key(2, v)), Key(3, v))

\* pgdir_walk() that does not: there is a PTE, present or not.
HasPte(A, v) == Has(A, Key(3, v))
Present(A, v) == v \in Vpn /\ A.map[v].pa # 0
UserPage(A, v) == Present(A, v) /\ A.map[v].user

\* map_region() of one page.
MapPage(w, v, pg) ==
    IF ~w.ok THEN w
    ELSE [w EXCEPT !.x.as.map[v] = [pa |-> pg, user |-> TRUE],
                   !.x.lost = @ \cup ({w.x.as.map[v].pa} \ {0})]

\* uvm_unmap() that frees: the page's physical address goes to kfree().
Unmap(X, va, n) ==
    IF va % PGSIZE # 0 THEN Panic(X, "uvm_unmap: not aligned")
    ELSE IF n = 0 THEN X
    ELSE IF ~HasPte(X.as, va \div PGSIZE) THEN Panic(X, "uvm_unmap: pgdir_walk")
    ELSE IF ~Present(X.as, va \div PGSIZE) THEN Panic(X, "uvm_unmap: not mapped")
    ELSE KfreePhysical(X)

\* uvm_dealloc(): r is the new size.  A size below zero is a huge unsigned one.
uvm_dealloc(X, old, new) ==
    IF new >= old \/ new < 0 THEN [x |-> X, r |-> old]
    ELSE [x |-> Unmap(X, new, (old - new) \div PGSIZE), r |-> new]

\* A page from kalloc() that finds no place in the page table goes back.
Placed(w, pg) == IF w.ok THEN w ELSE [w EXCEPT !.x = Kfree(@, pg)]

\* One round of the loop of uvm_alloc(), given what kalloc() returned.
Round(k, v) ==
    IF k.pg = 0 THEN [x |-> k.x, ok |-> FALSE]
    ELSE Placed(MapPage(WalkAlloc(k.x, v), v, k.pg), k.pg)

\* Mutant: the recursion ends one level early.
vm_freeTables(X) == [X EXCEPT !.free = @ \cup Tables(X.as) \cup {X.as.pgdir}, !.as = NoAs]

\* vm_free(pgdir, 4): every present page, the tables and the root.
vm_free(X) == [X EXCEPT !.free = @ \cup All(X.as), !.as = NoAs]

\* pgdir_init()
pgdir_init(X, k) ==
    IF k.pg = 0 THEN k.x ELSE [k.x EXCEPT !.as = [NoAs EXCEPT !.pgdir = k.pg]]

-----------------------------------------------------------------------------
(* State *)

X0 == [free |-> free, lost |-> lost, wild |-> wild, panic |-> panic, as |-> NoAs]
Using(A) == [X0 EXCEPT !.as = A]
SetMem(X) == /\ free' = X.free /\ lost' = X.lost /\ wild' = X.wild /\ panic' = X.panic
Running(at) == panic = "no" /\ pc = at

\* alloc_init() frees every page; user_init() takes the kernel stack, the root
\* and with uvm_init() one page at address 0 and its tables.
Boot0 == [free |-> Page, lost |-> {}, wild |-> FALSE, panic |-> "no", as |-> NoAs]
Boot1 == Kalloc(Boot0)
Boot2 == pgdir_init(Boot1.x, Kalloc(Boot1.x))
Booted == Round(Kalloc(Boot2), 0).x

Init ==
    /\ kstack = Boot1.pg
    /\ free = Booted.free /\ lost = {} /\ wild = FALSE /\ panic = "no"
    /\ as = Booted.as /\ sz = PGSIZE /\ ttbr = as.pgdir
    /\ img = NoImg /\ prog = NoProg /\ pc = "user" /\ ino = NoIno /\ grow = NoGrow

-----------------------------------------------------------------------------
(* uvm_alloc() *)

Growing == {"brk", "load", "stack"}

\* The address space that grows.
Space == IF pc = "brk" THEN as ELSE img.as
SetSpace(A) == IF pc = "brk" THEN as' = A /\ UNCHANGED img
               ELSE img' = [img EXCEPT !.as = A] /\ UNCHANGED as

\* The call: the loop starts at old itself.
uvm_alloc(old, new) == grow' = [va |-> old, old |-> old, new |-> new]
From(A, old, new) == [A EXCEPT !.ragged = @ \/ (old <= new /\ old % PGSIZE # 0)]

\* One round of the loop.  A failure undoes the rounds before and returns 0.
GrowPage ==
    /\ panic = "no" /\ pc \in Growing /\ grow.va < grow.new
    /\ \E w \in {Round(Kalloc(Using(Space)), grow.va \div PGSIZE)} :
         /\ \/ w.ok /\ SetMem(w.x) /\ grow' = [grow EXCEPT !.va = @ + PGSIZE]
            \/ ~w.ok /\ SetMem(uvm_dealloc(w.x, grow.va, grow.old).x) /\ grow' = NoGrow
         /\ SetSpace(w.x.as)
    /\ UNCHANGED <<sz, ttbr, kstack, pc, prog, ino>>

\* The loop is over: the new size, 0 for an error.
Done(at) == Running(at) /\ grow.va >= grow.new
Grown == IF grow.new < grow.old THEN grow.old ELSE grow.new

-----------------------------------------------------------------------------
(* System calls *)

\* A length that argptr() takes as an int.
AsInt(n) == IF n % IntMod < IntMod \div 2 THEN n % IntMod ELSE (n % IntMod) - IntMod

\* The kernel uses the memory from va to va + i: it faults at the first page
\* that is not mapped.
Touch(va, i, why) ==
    /\ panic' = IF \A a \in va..(va + i) : Present(as, a \div PGSIZE) THEN panic ELSE why
    /\ UNCHANGED <<free, lost, wild, as, sz, ttbr, kstack, img, pc, prog, ino, grow>>

\* Mutant: the end of the address space passes the check.
FetchArgPast(va, n, i) ==
    /\ Running("user") /\ va <= sz /\ va + AsInt(n) >= 0 /\ va + AsInt(n) <= sz + 1 /\ i < n
    /\ Touch(va, i, IF AsInt(n) = n THEN "fault: argument" ELSE "fault: length")

\* argptr(), fetchint() and fetchstr() check the address and the length n of an
\* argument against p->sz, n as an int; the call then uses it up to unit i.
FetchArg(va, n, i) ==
    /\ Running("user") /\ va < sz /\ va + AsInt(n) >= 0 /\ va + AsInt(n) <= sz /\ i < n
    /\ Touch(va, i, IF AsInt(n) = n THEN "fault: argument" ELSE "fault: length")

\* sys_writev() checks the vector and uses the addresses in it as they are.
SysWritev(base) ==
    /\ Running("user")
    /\ Touch(base, 0, "fault: iov_base")

\* sys_brk() and growproc().
SysBrk(n) ==
    /\ Running("user") /\ sz + n <= (MaxPage + 1) * PGSIZE
    /\ \/ /\ n > 0
          /\ uvm_alloc(sz, sz + n) /\ as' = From(as, sz, sz + n) /\ pc' = "brk"
          /\ UNCHANGED <<mem, sz, ttbr>>
       \/ /\ n <= 0
          /\ \E g \in {uvm_dealloc(Using(as), sz, sz + n)} :
               /\ SetMem(g.x)
               /\ sz' = IF g.r = 0 THEN sz ELSE g.r
               /\ ttbr' = IF g.r = 0 THEN ttbr ELSE as.pgdir
          /\ UNCHANGED <<as, pc, grow>>
    /\ UNCHANGED <<kstack, img, prog, ino>>

BrkDone ==
    /\ Done("brk")
    /\ sz' = IF Grown = 0 THEN sz ELSE Grown
    /\ ttbr' = IF Grown = 0 THEN ttbr ELSE as.pgdir
    /\ pc' = "user" /\ grow' = NoGrow
    /\ UNCHANGED <<mem, as, kstack, img, prog, ino>>

\* fork(): proc_alloc() takes a kernel stack; uvm_copy() into a child without
\* a page table reads the parent's first page at V2P() of a physical address.
\* Without a second page it gives up and proc_free() returns the stack.
SysFork ==
    /\ Running("user")
    /\ \E k \in {Kalloc(Using(as))} :
       \E m \in {Kalloc(k.x)} :
         IF k.pg = 0 THEN UNCHANGED mem
         ELSE IF ~Present(as, 0) THEN SetMem(Panic(k.x, "uvm_copy"))
         ELSE IF m.pg = 0 THEN SetMem(Kfree(k.x, k.pg))
         ELSE SetMem(Panic(m.x, "fault: uvm_copy"))
    /\ UNCHANGED <<as, sz, ttbr, kstack, img, pc, prog, ino, grow>>

-----------------------------------------------------------------------------
(* execve() *)

\* iunlockput() and end_op().
iunlockput(X) == IF ino.locked THEN X ELSE Panic(X, "iunlock")

\* bad: free the image, and release the inode and the transaction if ip is set.
Bad(X) ==
    /\ \E Y \in {IF X.as.pgdir = 0 THEN X ELSE vm_free(X)} :
         SetMem(IF ino.ip THEN iunlockput(Y) ELSE Y)
    /\ ino' = IF ino.ip THEN NoIno ELSE ino
    /\ img' = NoImg /\ prog' = NoProg /\ pc' = "user" /\ grow' = NoGrow
    /\ UNCHANGED <<as, sz, ttbr, kstack>>

Building(at, X, size) ==
    /\ SetMem(X)
    /\ img' = [as |-> X.as, sz |-> size] /\ pc' = at /\ grow' = NoGrow
    /\ UNCHANGED <<as, sz, ttbr, kstack>>

\* uvm_alloc() is called for the image.
Extending(at, X, old, new) ==
    /\ SetMem(X)
    /\ uvm_alloc(old, new) /\ img' = [img EXCEPT !.as = From(@, old, new)] /\ pc' = at
    /\ UNCHANGED <<as, sz, ttbr, kstack>>

\* begin_op(), namei() that finds the file, ilock().
Exec(file) ==
    /\ Running("user")
    /\ pc' = "header" /\ prog' = file /\ ino' = [ip |-> TRUE, locked |-> TRUE]
    /\ UNCHANGED <<mem, as, sz, ttbr, kstack, img, grow>>

\* The ELF header and pgdir_init().
ExecHeader ==
    /\ Running("header")
    /\ \E X \in {IF prog.elf THEN pgdir_init(X0, Kalloc(X0)) ELSE X0} :
         IF X.as.pgdir = 0 THEN Bad(X)
         ELSE Building("segment", X, 0) /\ UNCHANGED <<prog, ino>>

\* uvm_load(): every page it comes to has a PTE, and one that is not present is
\* read into physical page 0.  A short file ends it in the page of the file's end.
LoadPages(s, n) == {va \div PGSIZE : va \in s.vaddr..(s.vaddr + n - 1)}
Least(m, n) == IF m < n THEN m ELSE n
Loaded(X, s) ==
    IF \E v \in LoadPages(s, Least(s.filesz, s.avail + 1)) : ~HasPte(X.as, v)
    THEN Panic(X, "uvm_load")
    ELSE [X EXCEPT !.wild = @ \/ \E v \in LoadPages(s, Least(s.filesz, s.avail)) :
                                   ~Present(X.as, v)]

\* The next program header: room for the segment, then its contents.
ExecSegment ==
    LET s == Head(prog.segs) IN
    /\ Running("segment") /\ prog.segs # <<>>
    /\ \/ /\ s.kind \in {"short", "wraps"} \/ (s.kind = "load" /\ s.memsz < s.filesz)
          /\ Bad(Using(img.as))
       \/ /\ s.kind = "other"
          /\ prog' = [prog EXCEPT !.segs = Tail(@)]
          /\ UNCHANGED <<mem, as, sz, ttbr, kstack, img, pc, ino, grow>>
       \/ /\ s.kind = "load" /\ s.memsz >= s.filesz
          /\ Extending("load", X0, img.sz, s.vaddr + s.memsz) /\ UNCHANGED <<prog, ino>>

ExecLoad ==
    LET s == Head(prog.segs) IN
    /\ Done("load")
    /\ IF Grown = 0 \/ s.vaddr % PGSIZE # 0 THEN Bad(Using(img.as))
       ELSE \E X \in {Loaded(Using(img.as), s)} :
              IF Ok(X) /\ s.avail < s.filesz THEN Bad(X)
              ELSE /\ Building("segment", X, Grown)
                   /\ prog' = [prog EXCEPT !.segs = Tail(@)]
                   /\ UNCHANGED ino

RoundUp(n) == ((n + PGSIZE - 1) \div PGSIZE) * PGSIZE

\* Mutant: the guard page stays accessible.
uvm_clearNot(X, v) == X

uvm_clear(X, v) ==
    IF HasPte(X.as, v) THEN [X EXCEPT !.as.map[v].user = FALSE] ELSE Panic(X, "uvm_clear")

\* Mutant: ip keeps its value.
ReleasedKeepsIp == [ino EXCEPT !.locked = FALSE]

\* iunlockput(), end_op(), ip = NULL.
Released == NoIno

\* The file is done with; two more pages, the lower one inaccessible.
ExecStack ==
    /\ Running("segment") /\ prog.segs = <<>>
    /\ ino' = Released /\ prog' = NoProg
    /\ Extending("stack", iunlockput(X0), RoundUp(img.sz), RoundUp(img.sz) + 2 * PGSIZE)

ExecGuard ==
    /\ Done("stack")
    /\ IF Grown = 0 THEN Bad(Using(img.as))
       ELSE /\ Building("args", uvm_clear(Using(img.as), Grown \div PGSIZE - 2), Grown)
            /\ UNCHANGED <<prog, ino>>

\* Mutant: the old page table is freed while the CPU still uses it.
CommitFreesFirst ==
    /\ SetMem(vm_free(Using(as)))
    /\ as' = img.as /\ sz' = img.sz /\ img' = NoImg
    /\ pc' = "switch" /\ UNCHANGED <<ttbr, kstack, prog, ino, grow>>

\* The new image takes the place of the old one, which old_pgdir keeps.
Commit ==
    /\ as' = img.as /\ sz' = img.sz /\ img' = [as |-> as, sz |-> sz]
    /\ pc' = "switch" /\ UNCHANGED <<mem, ttbr, kstack, prog, ino, grow>>

\* copyout() of the vectors and strings, n units down from the top: every page
\* must be accessible to the user.  More than MAXARG strings are too many.
ExecArgs(n) ==
    /\ Running("args")
    /\ IF \A va \in (img.sz - n)..(img.sz - 1) : va >= 0 /\ UserPage(img.as, va \div PGSIZE)
       THEN Commit
       ELSE Bad(Using(img.as))

\* uvm_switch() to the new image.
uvm_switch ==
    /\ Running("switch")
    /\ ttbr' = as.pgdir /\ pc' = "free"
    /\ UNCHANGED <<mem, as, sz, kstack, img, prog, ino, grow>>

\* vm_free() of the old page table.
ExecFree ==
    /\ Running("free")
    /\ SetMem(vm_free(Using(img.as)))
    /\ img' = NoImg /\ pc' = "user" /\ UNCHANGED <<as, sz, ttbr, kstack, prog, ino, grow>>

-----------------------------------------------------------------------------
Halted == panic # "no" /\ UNCHANGED vars

Next ==
    \/ \E va \in 0..((MaxPage + 1) * PGSIZE) : \E n \in Length : \E i \in 0..(n - 1) :
          FetchArg(va, n, i)
    \/ \E base \in 0..((MaxPage + 1) * PGSIZE) : SysWritev(base)
    \/ \E n \in Brk : SysBrk(n)
    \/ GrowPage \/ BrkDone
    \/ SysFork
    \/ \E file \in Program : Exec(file)
    \/ ExecHeader \/ ExecSegment \/ ExecLoad \/ ExecStack \/ ExecGuard
    \/ \E n \in ArgSize : ExecArgs(n)
    \/ uvm_switch \/ ExecFree
    \/ Halted

Spec == Init /\ [][Next]_vars

-----------------------------------------------------------------------------
(* Properties *)

IsSpace(A) ==
    /\ A.pgdir \in Page \cup {0} /\ A.ragged \in BOOLEAN
    /\ \A t \in A.tab : t.pg \in Page
    /\ A.map \in [Vpn -> [pa : Page \cup {0}, user : BOOLEAN]]

\* Type correctness.
TypeOK ==
    /\ free \subseteq Page /\ lost \subseteq Page /\ wild \in BOOLEAN
    /\ IsSpace(as) /\ IsSpace(img.as)
    /\ sz \in 0..((MaxPage + 1) * PGSIZE) /\ img.sz \in Nat
    /\ pc \in {"user", "header", "segment", "args", "switch", "free"} \cup Growing
    /\ ino \in [ip : BOOLEAN, locked : BOOLEAN]

\* The pages an address space takes, each counted as often as it is used.
Uses(A) == Cardinality(A.tab) + Cardinality({v \in Vpn : A.map[v].pa # 0})
           + (IF A.pgdir = 0 THEN 0 ELSE 1)

\* Every page has exactly one place: free, the kernel stack, one entry of one
\* page table, or lost.  So no failure of execve() or brk() keeps a page or
\* frees one twice, whichever allocation it was that failed.
PagesPartition ==
    panic = "no" =>
    /\ Cardinality(All(as)) = Uses(as) /\ Cardinality(All(img.as)) = Uses(img.as)
    /\ Page = UNION {free, lost, {kstack}, All(as), All(img.as)}
    /\ Cardinality(Page) = Cardinality(free) + Cardinality(lost) + 1 + Uses(as) + Uses(img.as)

\* The CPU never translates through a page table that was freed, and a process
\* runs on its own.
TtbrLive == ttbr \notin free /\ (pc \notin {"switch", "free"} => ttbr = as.pgdir)

\* The inode and the transaction of execve() are given back once, on every way
\* out, and before memory for the stack is asked for.
ReleasedOnce == panic # "iunlock" /\ (ino.locked => pc \in {"header", "segment", "load"})

\* The invariant of execve(): the old image stays in use until the new one is
\* complete, and everything taken on the way is given back once.
ExecOK == TypeOK /\ TtbrLive /\ ReleasedOnce

\* An image that runs has its stack above a page that the user cannot touch,
\* and only that page is closed.
GuardBelowStack ==
    pc = "args" /\ panic = "no" =>
        \E top \in {img.sz \div PGSIZE} :
            /\ UserPage(img.as, top - 1)
            /\ Present(img.as, top - 2)
            /\ \A v \in Vpn : Present(img.as, v) => (img.as.map[v].user <=> v # top - 2)

\* As long as uvm_alloc() is called with whole pages, every page below the
\* size is mapped: holes come from growing a size inside a page.
HolesOnlyRagged ==
    panic = "no" =>
    /\ ~as.ragged => \A v \in 0..(RoundUp(sz) \div PGSIZE - 1) : Present(as, v)
    /\ ~img.as.ragged =>
          \A v \in 0..(RoundUp(img.sz) \div PGSIZE - 1) : Present(img.as, v)

\* The image as uvm_alloc() and uvm_clear() lay it out: no hole below its
\* size, and one guard page.
LayoutOK == GuardBelowStack /\ HolesOnlyRagged

PageAt(A, va) == {A.map[v].pa : v \in Vpn \cap {va \div PGSIZE}}

\* Growing an address space loses at most one page: the one its size points
\* into, or that a shrink of less than a page left there.  A load, a shrink or an
\* argument whose length fits an int meets a hole only in a space that grew from
\* inside a page, and the guard page always has its PTE.
StrayStep ==
    /\ wild' # wild => img.as.ragged
    /\ lost' \ lost \subseteq IF pc \in {"user", "brk"} THEN PageAt(as, sz) ELSE PageAt(img.as, img.sz)
    /\ panic' # panic =>
         /\ panic' # "uvm_clear"
         /\ panic' \in {"uvm_unmap: pgdir_walk", "uvm_unmap: not mapped", "fault: argument"}
               => as.ragged
         /\ panic' = "uvm_load" => img.as.ragged

\* No step loses a page, writes or meets a hole in another way.
StrayOnlyRagged == [][StrayStep]_vars

-----------------------------------------------------------------------------
(* What the comments of vm.c and syscall.c say *)

InUnmap == {"kfree", "uvm_unmap: not aligned", "uvm_unmap: pgdir_walk", "uvm_unmap: not mapped"}

\* "Allocate PTEs and physical memory to grow process from oldsz to newsz,
\* which need not be page aligned" (vm.c:186-187).
uvm_allocMaps ==
    pc \in Growing /\ panic = "no" /\ grow.va >= grow.new =>
        \A va \in grow.old..(grow.new - 1) : Present(Space, va \div PGSIZE)

\* "Returns new size or 0 on error" (vm.c:187).
uvm_allocReturns == pc \in Growing => panic \notin InUnmap

\* "Deallocate user pages ...  oldsz and newsz need not be page-aligned ...
\* Returns the new process size" (vm.c:213-216).
uvm_deallocReturns == pc = "user" => panic \notin InUnmap

\* "Returns 0 on success, -1 on failure" (vm.c:244-245).
uvm_copyReturns == panic \notin {"uvm_copy", "fault: uvm_copy"}

\* "a block of memory of size n bytes.  Check that the pointer lies within the
\* process address space" (syscall.c:61-62).
argptrChecks == panic # "fault: length"

\* The functions do what their comments say.
MemPromises ==
    uvm_allocMaps /\ uvm_allocReturns /\ uvm_deallocReturns /\ uvm_copyReturns /\ argptrChecks
=============================================================================
