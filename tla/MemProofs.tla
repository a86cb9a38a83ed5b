------------------------------ MODULE MemProofs ------------------------------
(***************************************************************************)
(* What Mem promises, for every number of pages, page size, page-table     *)
(* radix, program and sequence of system calls: where every page is, what  *)
(* an image looks like, and which panics and losses there can be.          *)
(***************************************************************************)
EXTENDS Mem, TLAPS, FiniteSetTheorems, FunctionTheorems

-----------------------------------------------------------------------------
(* The inductive invariant *)

\* The pages of an address space are all different.
Clean(A) ==
    /\ IsFiniteSet(A.tab)
    /\ A.pgdir = 0 => A.tab = {} /\ \A v \in Vpn : A.map[v].pa = 0
    /\ A.pgdir \notin Tables(A) /\ A.pgdir \notin Pages(A)
    /\ \A t \in A.tab : \A u \in A.tab : t.pg = u.pg => t = u
    /\ \A v \in Vpn : \A w \in Vpn : A.map[v].pa = A.map[w].pa /\ A.map[v].pa # 0 => v = w
    /\ Tables(A) \cap Pages(A) = {}

KeySet == {Key(L, v) : L \in 1..3, v \in Vpn}
AddressSpace ==
    [pgdir : Page \cup {0}, tab : SUBSET [key : KeySet, pg : Page],
     map : [Vpn -> [pa : Page \cup {0}, user : BOOLEAN]], ragged : BOOLEAN]

Reason == {"no", "kfree", "fault: argument", "fault: length", "fault: iov_base",
           "fault: uvm_copy", "uvm_copy", "uvm_load", "uvm_clear", "uvm_unmap: not aligned",
           "uvm_unmap: pgdir_walk", "uvm_unmap: not mapped"}
MemState == [free : SUBSET Page, lost : SUBSET Page, wild : BOOLEAN, panic : Reason,
             as : AddressSpace]

\* Every page is free, lost, in the address space worked on or in R.
Exact(X, R) ==
    /\ Clean(X.as)
    /\ X.free \cup X.lost \cup R \cup All(X.as) = Page
    /\ X.free \cap X.lost = {} /\ X.free \cap R = {} /\ X.lost \cap R = {}
    /\ All(X.as) \cap (X.free \cup X.lost \cup R) = {}

\* An address space of s units outside of uvm_alloc(): present pages have
\* their tables, there are no holes without growth from inside a page, and
\* address 0 is mapped.
Kept(A, s) ==
    /\ \A v \in Vpn : Present(A, v) => HasPte(A, v)
    /\ ~A.ragged => \A v \in 0..(RoundUp(s) \div PGSIZE - 1) : Present(A, v)
    /\ s > 0 => Present(A, 0)

\* Nothing is mapped above the page that the size points into.
Capped(A, s) == \A v \in Vpn : Present(A, v) => v <= s \div PGSIZE

GrowRec == [va : Nat, old : Nat, new : Nat]

\* uvm_alloc() under way from size s: it has mapped what it has passed.
Extended(A, s, g) ==
    /\ g.old <= g.va /\ (g.va = g.old \/ g.va >= g.old + PGSIZE)
    /\ g.va = g.old \/ g.va < g.new + PGSIZE
    /\ g.new <= (MaxPage + 1) * PGSIZE
    /\ ~A.ragged /\ g.old <= g.new => g.va % PGSIZE = 0
    /\ \A v \in (g.old \div PGSIZE)..(g.va \div PGSIZE - 1) : Present(A, v)
    /\ \A v \in Vpn : Present(A, v) => v <= s \div PGSIZE \/ v < g.va \div PGSIZE

\* uvm_alloc() from old on: under way, or failed with nothing changed.
GrowOK(A, s, old, g) ==
    \/ g = NoGrow /\ Capped(A, s)
    \/ g.old = old /\ Extended(A, s, g)

AllUser(A) == \A v \in Vpn : Present(A, v) => A.map[v].user

SegsOK(segs) ==
    /\ segs \in Seq(Header)
    /\ \A i \in 1..Len(segs) : segs[i].vaddr + segs[i].memsz <= (MaxPage - 1) * PGSIZE

\* execve() has ip, and holds the inode, as long as it reads the file.
HeldIno == [ip |-> TRUE, locked |-> TRUE]
InoAt(at) == IF at \in {"header", "segment", "load"} THEN HeldIno ELSE NoIno

\* The shape of the state, and what holds in a panic too.
Shape ==
    /\ free \subseteq Page /\ lost \subseteq Page /\ wild \in BOOLEAN /\ panic \in Reason
    /\ as \in AddressSpace /\ img \in [as : AddressSpace, sz : Nat]
    /\ sz \in 0..((MaxPage + 1) * PGSIZE)
    /\ pc \in {"user", "header", "segment", "args", "switch", "free"} \cup Growing
    /\ prog \in [elf : BOOLEAN, segs : Seq(Header)] /\ ino = InoAt(pc)
    /\ grow \in GrowRec
    /\ as.pgdir \in Page \ free /\ ttbr \in Page \ free
    /\ pc # "switch" => ttbr = as.pgdir

\* Where every page is: F the free ones, L the lost ones, k the kernel stack.
Spread(F, L, k, A, B) ==
    /\ Clean(A) /\ Clean(B) /\ k \in Page
    /\ F \cup L \cup {k} \cup All(A) \cup All(B) = Page
    /\ F \cap L = {} /\ k \notin F \cup L /\ k \notin All(A) \cup All(B)
    /\ All(A) \cap (F \cup L) = {} /\ All(B) \cap (F \cup L) = {} /\ All(A) \cap All(B) = {}

Whole == Spread(free, lost, kstack, as, img.as)

\* The control of execve().
Control ==
    /\ pc \in {"user", "brk", "header"} => img = NoImg
    /\ pc \notin {"user", "brk", "header"} => img.as.pgdir # 0
    /\ pc = "header" => SegsOK(prog.segs)
    /\ pc \in {"segment", "load"} => SegsOK(prog.segs) /\ img.sz <= (MaxPage - 1) * PGSIZE
    /\ pc = "stack" => img.sz <= (MaxPage - 1) * PGSIZE
    /\ pc = "args" => img.sz \in 1..((MaxPage + 1) * PGSIZE)
    /\ pc = "load" =>
         /\ prog.segs # <<>> /\ Head(prog.segs).filesz <= Head(prog.segs).memsz
         /\ grow = NoGrow \/ grow.new = Head(prog.segs).vaddr + Head(prog.segs).memsz
    /\ pc = "stack" => grow = NoGrow \/ grow.new = grow.old + 2 * PGSIZE
    /\ pc = "brk" => grow = NoGrow \/ grow.new > grow.old

\* What is mapped where.
Layout ==
    /\ sz > 0 /\ Kept(as, sz) /\ Kept(img.as, img.sz)
    /\ IF pc = "brk" THEN GrowOK(as, sz, sz, grow) ELSE Capped(as, sz)
    /\ pc = "load" => GrowOK(img.as, img.sz, img.sz, grow)
    /\ pc = "stack" => GrowOK(img.as, img.sz, RoundUp(img.sz), grow)
    /\ pc \in {"segment", "args"} => Capped(img.as, img.sz)
    /\ pc \in {"segment", "load", "stack"} => AllUser(img.as)
    /\ GuardBelowStack

Inv == Shape /\ (panic = "no" => Whole /\ Control /\ Layout)

-----------------------------------------------------------------------------
(* Addresses and pages *)

\* Division by the page size.
LEMMA PageOf ==
  ASSUME NEW a \in Nat
  PROVE  /\ a \div PGSIZE \in Nat /\ a % PGSIZE \in Nat /\ a % PGSIZE < PGSIZE
         /\ a = PGSIZE * (a \div PGSIZE) + (a % PGSIZE)
  BY MemAssumption

\* The quotient is the only number with that property.
LEMMA PageIs ==
  ASSUME NEW a \in Nat, NEW q \in Nat, NEW r \in Nat, r < PGSIZE, a = PGSIZE * q + r
  PROVE  a \div PGSIZE = q /\ a % PGSIZE = r
  BY MemAssumption

\* Later addresses are in later pages.
LEMMA PageMonotone ==
  ASSUME NEW a \in Nat, NEW b \in Nat, a <= b
  PROVE  a \div PGSIZE <= b \div PGSIZE
  BY MemAssumption

\* One page further.
LEMMA NextPage ==
  ASSUME NEW a \in Nat
  PROVE  (a + PGSIZE) \div PGSIZE = a \div PGSIZE + 1 /\ (a + PGSIZE) % PGSIZE = a % PGSIZE
  BY MemAssumption

\* Addresses below a number of pages.
LEMMA PageBelow ==
  ASSUME NEW a \in Nat, NEW m \in Nat, a < (m + 1) * PGSIZE
  PROVE  a \div PGSIZE \in 0..m
  BY PageOf, MemAssumption

\* Rounding up to whole pages.
LEMMA RoundUpIs ==
  ASSUME NEW a \in Nat
  PROVE  /\ RoundUp(a) \in Nat /\ RoundUp(a) % PGSIZE = 0 /\ a <= RoundUp(a)
         /\ RoundUp(a) \div PGSIZE = (a + PGSIZE - 1) \div PGSIZE
         /\ RoundUp(a) < a + PGSIZE
<1> DEFINE q == (a + PGSIZE - 1) \div PGSIZE
<1>1. a + PGSIZE - 1 \in Nat /\ PGSIZE \in Nat \ {0}
  BY MemAssumption
<1>2. /\ q \in Nat /\ a + PGSIZE - 1 = PGSIZE * q + ((a + PGSIZE - 1) % PGSIZE)
      /\ (a + PGSIZE - 1) % PGSIZE \in Nat /\ (a + PGSIZE - 1) % PGSIZE < PGSIZE
  BY <1>1, PageOf
<1>3. RoundUp(a) = PGSIZE * q + 0 /\ RoundUp(a) \in Nat
  BY <1>1, <1>2 DEF RoundUp
<1>4. RoundUp(a) \div PGSIZE = q /\ RoundUp(a) % PGSIZE = 0
  BY <1>1, <1>2, <1>3, PageIs
<1> HIDE DEF q
<1>5. a <= RoundUp(a) /\ RoundUp(a) < a + PGSIZE
  BY <1>1, <1>2, <1>3
<1> QED
  BY <1>3, <1>4, <1>5 DEF q

\* Every address below a size is in a page below the size rounded up, and the
\* page after the one of the size is none of them.
LEMMA RoundUpCovers ==
  ASSUME NEW s \in Nat
  PROVE  /\ \A a \in Nat : a < s => a \div PGSIZE < RoundUp(s) \div PGSIZE
         /\ s \div PGSIZE <= RoundUp(s) \div PGSIZE
         /\ RoundUp(s) \div PGSIZE <= s \div PGSIZE + 1
         /\ RoundUp(s) \div PGSIZE \in Nat
         /\ s % PGSIZE = 0 => RoundUp(s) = s
<1>1. PGSIZE \in Nat \ {0} /\ RoundUp(s) \in Nat /\ s <= RoundUp(s) /\ RoundUp(s) % PGSIZE = 0
      /\ RoundUp(s) < s + PGSIZE
  BY RoundUpIs, MemAssumption
<1>2. ASSUME NEW a \in Nat, a < s PROVE a \div PGSIZE < RoundUp(s) \div PGSIZE
  <2>1. a \div PGSIZE \in Nat /\ a % PGSIZE \in Nat /\ a = PGSIZE * (a \div PGSIZE) + (a % PGSIZE)
    BY PageOf
  <2>2. RoundUp(s) \div PGSIZE \in Nat /\ RoundUp(s) = PGSIZE * (RoundUp(s) \div PGSIZE)
    BY <1>1, PageOf
  <2> DEFINE p == a \div PGSIZE
             q == RoundUp(s) \div PGSIZE
  <2>5. p \in Nat /\ q \in Nat /\ a < RoundUp(s) /\ PGSIZE * p <= a /\ RoundUp(s) = PGSIZE * q
    BY <1>1, <1>2, <2>1, <2>2
  <2> HIDE DEF p, q
  <2>3. p \in Nat /\ q \in Nat /\ PGSIZE * p < PGSIZE * q
    BY <1>1, <2>5
  <2>4. p < q
    BY <1>1, <2>3
  <2> QED
    BY <2>4 DEF p, q
<1>3. s \div PGSIZE <= RoundUp(s) \div PGSIZE
  BY <1>1, PageMonotone
<1>4. RoundUp(s) \div PGSIZE <= s \div PGSIZE + 1 /\ RoundUp(s) \div PGSIZE \in Nat
  <2>1. s + PGSIZE \in Nat /\ RoundUp(s) <= s + PGSIZE
    BY <1>1
  <2>2. RoundUp(s) \div PGSIZE <= (s + PGSIZE) \div PGSIZE
    BY <1>1, <2>1, PageMonotone
  <2> QED
    BY <1>1, <2>2, NextPage, PageOf
<1>5. ASSUME s % PGSIZE = 0 PROVE RoundUp(s) = s
  <2>1. s \div PGSIZE \in Nat /\ s = PGSIZE * (s \div PGSIZE) + 0
    BY <1>5, PageOf
  <2>2. s + PGSIZE - 1 = PGSIZE * (s \div PGSIZE) + (PGSIZE - 1)
    BY <1>1, <2>1
  <2>3. (s + PGSIZE - 1) \div PGSIZE = s \div PGSIZE
    BY <1>1, <2>1, <2>2, PageIs
  <2> QED
    BY <1>1, <2>1, <2>3 DEF RoundUp
<1> QED
  BY <1>2, <1>3, <1>4, <1>5

\* The first multiple of the page size above a size is the size rounded up.
LEMMA RoundUpLeast ==
  ASSUME NEW s \in Nat, NEW a \in Nat, a % PGSIZE = 0, s <= a
  PROVE  RoundUp(s) <= a /\ RoundUp(s) \div PGSIZE <= a \div PGSIZE
<1>1. PGSIZE \in Nat \ {0} /\ RoundUp(s) \in Nat /\ RoundUp(s) % PGSIZE = 0
      /\ RoundUp(s) < s + PGSIZE
  BY RoundUpIs, MemAssumption
<1>2. a \div PGSIZE \in Nat /\ a = PGSIZE * (a \div PGSIZE)
  BY <1>1, PageOf
<1>3. RoundUp(s) \div PGSIZE \in Nat /\ RoundUp(s) = PGSIZE * (RoundUp(s) \div PGSIZE)
  BY <1>1, PageOf
<1> DEFINE p == a \div PGSIZE
           q == RoundUp(s) \div PGSIZE
<1>4. p \in Nat /\ q \in Nat /\ PGSIZE * q < PGSIZE * (p + 1)
  <2>1. p \in Nat /\ q \in Nat /\ RoundUp(s) < a + PGSIZE /\ a = PGSIZE * p /\ RoundUp(s) = PGSIZE * q
    BY <1>1, <1>2, <1>3
  <2> HIDE DEF p, q
  <2> QED
    BY <1>1, <2>1
<1> HIDE DEF p, q
<1>5. q < p + 1
  BY <1>1, <1>4
<1>6. q <= p /\ PGSIZE * q <= PGSIZE * p
  BY <1>1, <1>4, <1>5
<1> QED
  BY <1>2, <1>3, <1>6 DEF p, q

\* A number of pages is whole.
LEMMA WholePages == ASSUME NEW m \in Nat PROVE (m * PGSIZE) % PGSIZE = 0 /\ m * PGSIZE \in Nat
  BY PageIs, MemAssumption

-----------------------------------------------------------------------------
(* The allocator and the page tables *)

\* kalloc(): no page is left, or one has moved from the free list to nowhere.
LEMMA KallocIs ==
  ASSUME NEW X \in MemState
  PROVE  /\ X.free = {} => Kalloc(X).pg = 0 /\ Kalloc(X).x = X
         /\ X.free # {} => /\ Kalloc(X).pg \in X.free
                           /\ Kalloc(X).x = [X EXCEPT !.free = @ \ {Kalloc(X).pg}]
                           /\ Kalloc(X).x \in MemState
<1>1. ASSUME X.free # {} PROVE AnyOf(X.free) \in X.free
  BY <1>1 DEF AnyOf
<1>2. X.free \subseteq Page
  BY DEF MemState
<1> QED
  BY <1>1, <1>2 DEF Kalloc, MemState

\* So every other page is still where it was.
LEMMA KallocExact ==
  ASSUME NEW X \in MemState, NEW R, Exact(X, R), NEW pg \in X.free,
         NEW Y \in MemState, Y = [X EXCEPT !.free = @ \ {pg}]
  PROVE  Exact(Y, R \cup {pg}) /\ pg \notin R /\ pg # 0
<1>1. Y.free = X.free \ {pg} /\ Y.lost = X.lost /\ Y.as = X.as
  BY DEF MemState
<1>2. X.free \subseteq Page /\ 0 \notin Page
  BY MemAssumption DEF MemState
<1> QED
  BY <1>1, <1>2 DEF Exact

\* What pgdir_walk() may do: more tables, from the free list.
Walked(X, Y, R) ==
    /\ Y \in MemState /\ Exact(Y, R)
    /\ Y.as.pgdir = X.as.pgdir /\ Y.as.map = X.as.map /\ Y.as.ragged = X.as.ragged
    /\ X.as.tab \subseteq Y.as.tab
    /\ Y.lost = X.lost /\ Y.wild = X.wild /\ Y.panic = X.panic /\ Y.free \subseteq X.free

\* A page that is nowhere becomes a table.
WithTable(X, k, pg) == [X EXCEPT !.as.tab = @ \cup {[key |-> k, pg |-> pg]}]
\* A table more keeps every page in one place.
LEMMA TableAdded ==
  ASSUME NEW X \in MemState, NEW R, NEW pg \in Page, pg \notin R, NEW k \in KeySet,
         X.as.pgdir # 0, Exact(X, R \cup {pg})
  PROVE  Walked(X, WithTable(X, k, pg), R) /\ Has(WithTable(X, k, pg).as, k)
<1> DEFINE Y == WithTable(X, k, pg)
           t == [key |-> k, pg |-> pg]
           A == X.as
           B == [A EXCEPT !.tab = @ \cup {t}]
<1>1. t \in [key : KeySet, pg : Page] /\ t.pg = pg /\ t.key = k /\ 0 \notin Page
  BY MemAssumption
<1>2. A \in AddressSpace
  BY DEF MemState
<1>3. /\ B \in AddressSpace /\ B.tab = A.tab \cup {t} /\ B.map = A.map /\ B.pgdir = A.pgdir
      /\ B.ragged = A.ragged
  BY <1>1, <1>2 DEF AddressSpace
<1>4. /\ Y \in MemState /\ Y.as = B
      /\ Y.lost = X.lost /\ Y.wild = X.wild /\ Y.panic = X.panic /\ Y.free = X.free
  BY <1>2, <1>3 DEF MemState, WithTable
<1> HIDE DEF t, B, Y
<1>5. Tables(B) = Tables(A) \cup {pg} /\ Pages(B) = Pages(A)
  BY <1>1, <1>3 DEF Tables, Pages
<1>6. All(B) = All(A) \cup {pg}
  BY <1>1, <1>3, <1>5 DEF All
<1>7. pg \notin All(A)
  BY DEF Exact
<1>8. pg \notin Tables(A) /\ pg \notin Pages(A) /\ pg # A.pgdir
  BY <1>1, <1>7 DEF All
<1>9. Clean(B)
  <2>1. Clean(A)
    BY DEF Exact
  <2>2. IsFiniteSet(B.tab)
    BY <1>3, <2>1, FS_AddElement DEF Clean
  <2>3. \A a \in B.tab : \A b \in B.tab : a.pg = b.pg => a = b
    <3>1. \A a \in A.tab : a.pg # pg
      BY <1>8 DEF Tables
    <3> QED
      BY <1>1, <1>3, <2>1, <3>1 DEF Clean
  <2>4. B.pgdir \notin Tables(B) /\ B.pgdir \notin Pages(B) /\ Tables(B) \cap Pages(B) = {}
    BY <1>3, <1>5, <1>8, <2>1 DEF Clean
  <2> QED
    BY <1>3, <2>1, <2>2, <2>3, <2>4 DEF Clean
<1>10. Exact(Y, R)
  BY <1>4, <1>6, <1>7, <1>9 DEF Exact
<1>11. Has(B, k)
  BY <1>1, <1>3 DEF Has
<1> QED
  BY <1>3, <1>4, <1>10, <1>11 DEF Y, Walked

WalkState == [x : MemState, ok : BOOLEAN]

\* pde_validate(): on success the table is there.
LEMMA ValidateIs ==
  ASSUME NEW X \in MemState, NEW R, X.as.pgdir # 0, NEW w \in WalkState, Walked(X, w.x, R),
         NEW k \in KeySet
  PROVE  /\ Validate(w, k) \in WalkState /\ Walked(X, Validate(w, k).x, R)
         /\ w.x.as.tab \subseteq Validate(w, k).x.as.tab
         /\ Validate(w, k).ok => w.ok /\ Has(Validate(w, k).x.as, k)
<1> DEFINE r == Kalloc(w.x)
<1>0. w.x \in MemState /\ w.ok \in BOOLEAN /\ w.x.as.pgdir # 0 /\ Exact(w.x, R)
  BY DEF WalkState, Walked
<1>1. CASE ~w.ok \/ Has(w.x.as, k)
  BY <1>1 DEF Validate
<1>2. CASE w.ok /\ ~Has(w.x.as, k) /\ w.x.free = {}
  <2>1. r.pg = 0 /\ r.x = w.x
    BY <1>0, <1>2, KallocIs
  <2>2. Validate(w, k) = [x |-> r.x, ok |-> FALSE]
    BY <1>2, <2>1 DEF Validate, AddTable
  <2>3. Validate(w, k).x = w.x /\ Validate(w, k).ok = FALSE /\ Validate(w, k) \in WalkState
    BY <1>0, <2>1, <2>2 DEF WalkState
  <2> QED
    BY <2>3
<1>3. CASE w.ok /\ ~Has(w.x.as, k) /\ w.x.free # {}
  <2>1. /\ r.pg \in w.x.free /\ r.x \in MemState /\ r.x = [w.x EXCEPT !.free = @ \ {r.pg}]
    BY <1>0, <1>3, KallocIs
  <2>2. /\ r.x.free = w.x.free \ {r.pg} /\ r.x.lost = w.x.lost /\ r.x.as = w.x.as
        /\ r.x.wild = w.x.wild /\ r.x.panic = w.x.panic /\ w.x.free \subseteq Page
    BY <1>0, <2>1 DEF MemState
  <2>3. Exact(r.x, R \cup {r.pg}) /\ r.pg \notin R /\ r.pg # 0 /\ r.pg \in Page
    BY <1>0, <2>1, <2>2, KallocExact
  <2> DEFINE Y == WithTable(r.x, k, r.pg)
  <2>4. Validate(w, k) = [x |-> Y, ok |-> TRUE]
    BY <1>3, <2>3 DEF Validate, AddTable, WithTable
  <2> HIDE DEF r
  <2>5. Walked(r.x, Y, R) /\ Has(Y.as, k)
    <3>1. r.x.as.pgdir # 0
      BY <1>0, <2>2
    <3> QED
      BY <2>1, <2>3, <3>1, TableAdded
  <2> HIDE DEF Y
  <2>6. w.x.as.tab \subseteq Y.as.tab
    BY <2>2, <2>5 DEF Walked
  <2>7. Walked(X, Y, R)
    BY <2>2, <2>5 DEF Walked
  <2>8. Validate(w, k).x = Y /\ Validate(w, k).ok = TRUE /\ Validate(w, k) \in WalkState
    BY <2>4, <2>7 DEF WalkState, Walked
  <2> QED
    BY <1>3, <2>5, <2>6, <2>7, <2>8
<1> QED
  BY <1>0, <1>1, <1>2, <1>3

\* pgdir_walk() that allocates: on success there is a PTE for page v.
LEMMA WalkAllocIs ==
  ASSUME NEW X \in MemState, NEW R, X.as.pgdir # 0, Exact(X, R), NEW v \in Vpn
  PROVE  /\ WalkAlloc(X, v) \in WalkState /\ Walked(X, WalkAlloc(X, v).x, R)
         /\ WalkAlloc(X, v).ok => HasPte(WalkAlloc(X, v).x.as, v)
<1> DEFINE w0 == [x |-> X, ok |-> TRUE]
           w1 == Validate(w0, Key(1, v))
           w2 == Validate(w1, Key(2, v))
           w3 == Validate(w2, Key(3, v))
<1>0. Key(1, v) \in KeySet /\ Key(2, v) \in KeySet /\ Key(3, v) \in KeySet
  BY DEF KeySet
<1>1. w0 \in WalkState /\ Walked(X, w0.x, R)
  BY DEF WalkState, Walked
<1> HIDE DEF w0
<1>2. w1 \in WalkState /\ Walked(X, w1.x, R)
  BY <1>0, <1>1, ValidateIs
<1> HIDE DEF w1
<1>3. w2 \in WalkState /\ Walked(X, w2.x, R)
  BY <1>0, <1>2, ValidateIs
<1> HIDE DEF w2
<1>4. w3 \in WalkState /\ Walked(X, w3.x, R) /\ (w3.ok => Has(w3.x.as, Key(3, v)))
  BY <1>0, <1>3, ValidateIs
<1>5. w3 = WalkAlloc(X, v)
  BY DEF WalkAlloc, w0, w1, w2
<1> QED
  BY <1>4, <1>5 DEF HasPte

\* A page that is nowhere is mapped; the one it replaces is lost.
WithPage(X, v, pg) == [X EXCEPT !.as.map[v] = [pa |-> pg, user |-> TRUE],
                                !.lost = @ \cup ({X.as.map[v].pa} \ {0})]
Replaced(X, Y, R, v) ==
    /\ Y \in MemState /\ Exact(Y, R)
    /\ Y.as.pgdir = X.as.pgdir /\ Y.as.tab = X.as.tab /\ Y.as.ragged = X.as.ragged
    /\ Y.as.map[v].pa # 0 /\ Y.as.map[v].user
    /\ \A u \in Vpn : u # v => Y.as.map[u] = X.as.map[u]
    /\ Y.lost = X.lost \cup ({X.as.map[v].pa} \ {0})
    /\ Y.wild = X.wild /\ Y.panic = X.panic

\* A page more keeps every page in one place; the one it replaces is lost.
LEMMA PageMapped ==
  ASSUME NEW X \in MemState, NEW R, NEW pg \in Page, pg \notin R, NEW v \in Vpn,
         X.as.pgdir # 0, Exact(X, R \cup {pg})
  PROVE  Replaced(X, WithPage(X, v, pg), R, v)
<1> DEFINE Y == WithPage(X, v, pg)
           A == X.as
           e == [pa |-> pg, user |-> TRUE]
           B == [A EXCEPT !.map = [@ EXCEPT ![v] = e]]
           o == A.map[v].pa
<1>1. /\ A \in AddressSpace /\ A.map \in [Vpn -> [pa : Page \cup {0}, user : BOOLEAN]]
      /\ o \in Page \cup {0} /\ 0 \notin Page
  BY MemAssumption DEF MemState, AddressSpace
<1>2. /\ B \in AddressSpace /\ B.tab = A.tab /\ B.pgdir = A.pgdir
      /\ B.map = [A.map EXCEPT ![v] = e] /\ B.ragged = A.ragged
  BY <1>1 DEF AddressSpace
<1>3. /\ B.map[v].pa = pg /\ B.map[v].user /\ pg # 0
      /\ \A u \in Vpn : u # v => B.map[u] = A.map[u]
  BY <1>1, <1>2
<1>4. Y = [X EXCEPT !.as = B, !.lost = @ \cup ({o} \ {0})]
  BY <1>1 DEF MemState, AddressSpace, WithPage
<1> HIDE DEF B, Y
<1>5. /\ Y \in MemState /\ Y.as = B /\ Y.lost = X.lost \cup ({o} \ {0})
      /\ Y.wild = X.wild /\ Y.panic = X.panic /\ Y.free = X.free
  <2>1. X.lost \cup ({o} \ {0}) \in SUBSET Page
    BY <1>1 DEF MemState
  <2> QED
    BY <1>2, <1>4, <2>1 DEF MemState
<1>6. pg \notin All(A) /\ Clean(A)
  BY DEF Exact
<1>7. pg \notin Tables(A) /\ pg \notin Pages(A) /\ pg # A.pgdir
  BY <1>1, <1>6 DEF All
<1>8. \A u \in Vpn : A.map[u].pa # pg
  BY <1>1, <1>7 DEF Pages
<1>9. Tables(B) = Tables(A) /\ Pages(B) = (Pages(A) \ {o}) \cup {pg}
  <2>1. Tables(B) = Tables(A)
    BY <1>2 DEF Tables
  <2>2. \A u \in Vpn : u # v /\ o # 0 => A.map[u].pa # o
    BY <1>6 DEF Clean
  <2>3. ASSUME NEW a PROVE a \in Pages(B) <=> a \in (Pages(A) \ {o}) \cup {pg}
    <3>1. a \in Pages(B) <=> a # 0 /\ \E u \in Vpn : B.map[u].pa = a
      BY DEF Pages
    <3>2. a \in Pages(A) <=> a # 0 /\ \E u \in Vpn : A.map[u].pa = a
      BY DEF Pages
    <3> QED
      BY <1>1, <1>3, <1>8, <2>2, <3>1, <3>2
  <2> QED
    BY <2>1, <2>3
<1>10. o = 0 \/ (o \in Pages(A) /\ o \notin Tables(A) /\ o # A.pgdir)
  BY <1>6 DEF Pages, Clean
<1>11. All(B) = (All(A) \ {o}) \cup {pg} /\ (o = 0 \/ o \in All(A))
  <2>1. 0 \notin Tables(A)
    BY <1>1 DEF Tables, AddressSpace
  <2> QED
    BY <1>1, <1>2, <1>9, <1>10, <2>1 DEF All
<1>12. Clean(B)
  <2>1. \A a \in Vpn : \A b \in Vpn : B.map[a].pa = B.map[b].pa /\ B.map[a].pa # 0 => a = b
    BY <1>3, <1>6, <1>8 DEF Clean
  <2>2. B.pgdir \notin Tables(B) /\ B.pgdir \notin Pages(B) /\ Tables(B) \cap Pages(B) = {}
    BY <1>2, <1>6, <1>7, <1>9 DEF Clean
  <2> QED
    BY <1>2, <1>6, <2>1, <2>2 DEF Clean
<1>13. Exact(Y, R)
  <2>1. \A a : a \in All(B) <=> (a \in All(A) /\ a # o) \/ a = pg
    BY <1>11
  <2>2. \A a : a \in Y.lost <=> a \in X.lost \/ (a = o /\ o # 0)
    BY <1>5
  <2>3. Y.free \cup Y.lost \cup R \cup All(B) = Page
    BY <1>1, <1>5, <1>11, <2>1, <2>2 DEF Exact
  <2>4. Y.free \cap Y.lost = {} /\ Y.free \cap R = {} /\ Y.lost \cap R = {}
    BY <1>1, <1>5, <1>11, <2>1, <2>2 DEF Exact
  <2>5. All(B) \cap (Y.free \cup Y.lost \cup R) = {}
    BY <1>1, <1>5, <1>11, <2>1, <2>2 DEF Exact
  <2> QED
    BY <1>5, <1>12, <2>3, <2>4, <2>5 DEF Exact
<1> QED
  BY <1>2, <1>3, <1>5, <1>13 DEF Y, Replaced

\* A page that is nowhere goes back.
LEMMA PageFreed ==
  ASSUME NEW X \in MemState, NEW R, NEW pg \in Page, pg \notin R, Exact(X, R \cup {pg})
  PROVE  /\ Kfree(X, pg) \in MemState /\ Exact(Kfree(X, pg), R)
         /\ Kfree(X, pg).as = X.as /\ Kfree(X, pg).lost = X.lost
         /\ Kfree(X, pg).wild = X.wild /\ Kfree(X, pg).panic = X.panic
<1> DEFINE Y == Kfree(X, pg)
<1>1. /\ Y \in MemState /\ Y.free = X.free \cup {pg} /\ Y.lost = X.lost /\ Y.as = X.as
      /\ Y.wild = X.wild /\ Y.panic = X.panic
  BY DEF Kfree, MemState
<1> HIDE DEF Y
<1>2. Exact(Y, R)
  BY <1>1 DEF Exact
<1> QED
  BY <1>1, <1>2 DEF Y

\* One round of uvm_alloc() at page v: the page is mapped, or only tables
\* were added.
Rounded(X, w, R, v) ==
    /\ w \in WalkState /\ Exact(w.x, R)
    /\ w.x.as.pgdir = X.as.pgdir /\ w.x.as.ragged = X.as.ragged
    /\ X.as.tab \subseteq w.x.as.tab
    /\ w.x.wild = X.wild /\ w.x.panic = X.panic
    /\ w.ok => /\ HasPte(w.x.as, v) /\ w.x.as.map[v].pa # 0 /\ w.x.as.map[v].user
               /\ \A u \in Vpn : u # v => w.x.as.map[u] = X.as.map[u]
               /\ w.x.lost = X.lost \cup ({X.as.map[v].pa} \ {0})
    /\ ~w.ok => w.x.as.map = X.as.map /\ w.x.lost = X.lost

\* A round of uvm_alloc() maps a page or gives it back, tables made on the way
\* staying in the page table.
LEMMA RoundIs ==
  ASSUME NEW X \in MemState, NEW R, X.as.pgdir # 0, Exact(X, R), NEW v \in Vpn
  PROVE  Rounded(X, Round(Kalloc(X), v), R, v)
<1> DEFINE k == Kalloc(X)
           w == WalkAlloc(k.x, v)
           r == Round(k, v)
<1>0. 0 \notin Page
  BY MemAssumption
<1>1. CASE X.free = {}
  <2>1. k.pg = 0 /\ k.x = X
    BY <1>1, KallocIs
  <2>2. r = [x |-> k.x, ok |-> FALSE]
    BY <2>1 DEF Round
  <2>3. r.x = X /\ r.ok = FALSE /\ r \in WalkState
    BY <2>1, <2>2 DEF WalkState
  <2> HIDE DEF r
  <2>4. Rounded(X, r, R, v)
    BY <2>3 DEF Rounded
  <2> QED
    BY <2>4 DEF r
<1>2. CASE X.free # {}
  <2>1. k.pg \in X.free /\ k.x \in MemState /\ k.x = [X EXCEPT !.free = @ \ {k.pg}]
    BY <1>2, KallocIs
  <2>2. /\ k.x.lost = X.lost /\ k.x.as = X.as /\ k.x.wild = X.wild /\ k.x.panic = X.panic
        /\ X.free \subseteq Page
    BY <2>1 DEF MemState
  <2>3. Exact(k.x, R \cup {k.pg}) /\ k.pg \notin R /\ k.pg # 0 /\ k.pg \in Page
    BY <2>1, <2>2, KallocExact
  <2>4. r = Placed(MapPage(w, v, k.pg), k.pg)
    BY <2>3 DEF Round
  <2> HIDE DEF r, k
  <2>5. w \in WalkState /\ Walked(k.x, w.x, R \cup {k.pg}) /\ (w.ok => HasPte(w.x.as, v))
    <3>1. k.x.as.pgdir # 0
      BY <2>2
    <3> QED
      BY <2>1, <2>3, <3>1, WalkAllocIs
  <2> HIDE DEF w
  <2>6. /\ w.x \in MemState /\ Exact(w.x, R \cup {k.pg}) /\ w.x.as.pgdir = X.as.pgdir
        /\ w.x.as.map = X.as.map /\ w.x.as.ragged = X.as.ragged /\ X.as.tab \subseteq w.x.as.tab
        /\ w.x.lost = X.lost /\ w.x.wild = X.wild /\ w.x.panic = X.panic /\ w.ok \in BOOLEAN
    BY <2>2, <2>5 DEF Walked, WalkState
  <2>7. CASE w.ok
    <3> DEFINE Y == WithPage(w.x, v, k.pg)
    <3>1. Replaced(w.x, Y, R, v)
      BY <2>3, <2>6, PageMapped
    <3>2. r.x = Y /\ r.ok /\ r \in WalkState
      <4>1. Y \in MemState
        BY <3>1 DEF Replaced
      <4>2. MapPage(w, v, k.pg) = [w EXCEPT !.x = Y]
        BY <2>5, <2>6, <2>7 DEF MapPage, WithPage, WalkState, MemState, AddressSpace
      <4> HIDE DEF Y
      <4>3. MapPage(w, v, k.pg).ok /\ MapPage(w, v, k.pg).x = Y /\ MapPage(w, v, k.pg) \in WalkState
        BY <2>5, <2>7, <4>1, <4>2 DEF WalkState
      <4> QED
        BY <2>4, <4>3 DEF Placed
    <3> HIDE DEF Y
    <3>3. HasPte(Y.as, v)
      BY <2>5, <2>7, <3>1 DEF Replaced, HasPte, Has
    <3>4. Rounded(X, r, R, v)
      BY <2>6, <3>1, <3>2, <3>3 DEF Rounded, Replaced
    <3> QED
      BY <3>4 DEF r, k
  <2>8. CASE ~w.ok
    <3> DEFINE Y == Kfree(w.x, k.pg)
    <3>1. /\ Y \in MemState /\ Exact(Y, R) /\ Y.as = w.x.as /\ Y.lost = w.x.lost
          /\ Y.wild = w.x.wild /\ Y.panic = w.x.panic
      BY <2>3, <2>6, PageFreed
    <3> HIDE DEF Y
    <3>2. r = [w EXCEPT !.x = Y]
      BY <2>4, <2>8 DEF Placed, MapPage, Y
    <3>3. r.x = Y /\ ~r.ok /\ r \in WalkState
      BY <2>5, <2>8, <3>1, <3>2 DEF WalkState
    <3>4. Rounded(X, r, R, v)
      BY <2>6, <3>1, <3>3 DEF Rounded
    <3> QED
      BY <3>4 DEF r, k
  <2> QED
    BY <2>6, <2>7, <2>8
<1> QED
  BY <1>1, <1>2

\* No address space: no pages.
LEMMA NoAsIs ==
  /\ NoAs \in AddressSpace /\ Clean(NoAs) /\ All(NoAs) = {}
  /\ NoAs.pgdir = 0 /\ NoAs.tab = {} /\ ~NoAs.ragged /\ \A v \in Vpn : NoAs.map[v].pa = 0
<1>1. /\ NoAs.pgdir = 0 /\ NoAs.tab = {} /\ \A v \in Vpn : NoAs.map[v].pa = 0
      /\ NoAs \in AddressSpace /\ ~NoAs.ragged
  BY DEF NoAs, NoPage, AddressSpace
<1>2. Tables(NoAs) = {} /\ Pages(NoAs) = {}
  BY <1>1 DEF Tables, Pages
<1>3. IsFiniteSet(NoAs.tab)
  BY <1>1, FS_EmptySet
<1> QED
  BY <1>1, <1>2, <1>3 DEF Clean, All

\* vm_free(): everything the address space had is free.
LEMMA FreedIs ==
  ASSUME NEW X \in MemState, NEW R, Exact(X, R)
  PROVE  /\ vm_free(X) \in MemState /\ Exact(vm_free(X), R)
         /\ vm_free(X).as = NoAs /\ vm_free(X).free = X.free \cup All(X.as)
         /\ vm_free(X).lost = X.lost /\ vm_free(X).wild = X.wild /\ vm_free(X).panic = X.panic
<1> DEFINE Y == vm_free(X)
<1>1. NoAs \in AddressSpace /\ Clean(NoAs) /\ All(NoAs) = {}
  BY NoAsIs
<1>2. All(X.as) \subseteq Page
  BY DEF Exact
<1>3. /\ Y \in MemState /\ Y.as = NoAs /\ Y.free = X.free \cup All(X.as)
      /\ Y.lost = X.lost /\ Y.wild = X.wild /\ Y.panic = X.panic
  BY <1>1, <1>2 DEF vm_free, MemState
<1> HIDE DEF Y
<1>4. Exact(Y, R)
  BY <1>1, <1>3 DEF Exact
<1> QED
  BY <1>3, <1>4 DEF Y

\* The two views of where the pages are.
LEMMA SpreadExact ==
  ASSUME NEW F, NEW L, NEW k, NEW A, NEW B, Spread(F, L, k, A, B),
         NEW X, X.free = F, X.lost = L, X.as = A
  PROVE  Exact(X, {k} \cup All(B)) /\ Clean(B) /\ k \in Page /\ k \notin All(B)
  BY DEF Spread, Exact

\* The view of one address space, back to that of both.
LEMMA ExactSpread ==
  ASSUME NEW X, NEW k, NEW B, Exact(X, {k} \cup All(B)), Clean(B), k \in Page, k \notin All(B)
  PROVE  Spread(X.free, X.lost, k, X.as, B)
  BY DEF Spread, Exact

\* The two address spaces play the same part.
LEMMA SpreadSwap ==
  ASSUME NEW F, NEW L, NEW k, NEW A, NEW B, Spread(F, L, k, A, B)
  PROVE  Spread(F, L, k, B, A)
  BY DEF Spread

\* What the operators see of the state.
LEMMA UsingIs ==
  ASSUME Shape, NEW A \in AddressSpace
  PROVE  /\ Using(A) \in MemState /\ Using(A).as = A /\ Using(A).free = free
         /\ Using(A).lost = lost /\ Using(A).wild = wild /\ Using(A).panic = panic
  BY NoAsIs DEF Using, X0, MemState, Shape

-----------------------------------------------------------------------------
(* Boot *)

\* A list of more than n pages has more than n - 1 once one is taken.
Rich(X, n) == Cardinality(X.free) >= n

\* kalloc() succeeds as long as there are pages, and takes one.
LEMMA KallocRich ==
  ASSUME NEW X \in MemState, NEW n \in Nat, Rich(X, n + 1)
  PROVE  Kalloc(X).pg \in X.free /\ Kalloc(X).pg # 0 /\ Rich(Kalloc(X).x, n)
<1>1. IsFiniteSet(X.free) /\ X.free \subseteq Page
  BY MemAssumption, FS_Subset DEF MemState
<1>2. X.free # {}
  BY FS_EmptySet DEF Rich
<1>3. Kalloc(X).pg \in X.free /\ Kalloc(X).x = [X EXCEPT !.free = @ \ {Kalloc(X).pg}]
  BY <1>2, KallocIs
<1>4. Kalloc(X).x.free = X.free \ {Kalloc(X).pg}
  BY <1>3 DEF MemState
<1>5. Cardinality(X.free) \in Nat /\ Cardinality(X.free \ {Kalloc(X).pg}) = Cardinality(X.free) - 1
  BY <1>1, <1>3, FS_RemoveElement, FS_CardinalityType
<1> QED
  BY <1>1, <1>3, <1>4, <1>5, MemAssumption DEF Rich

\* A table costs at most one page, and is there if a page was.
LEMMA ValidateRich ==
  ASSUME NEW w \in WalkState, NEW n \in Nat, Rich(w.x, n + 1), w.ok, NEW k
  PROVE  Validate(w, k).ok /\ Rich(Validate(w, k).x, n)
<1>1. w.x \in MemState /\ Cardinality(w.x.free) \in Nat
  <2>1. w.x \in MemState /\ w.x.free \subseteq Page
    BY DEF WalkState, MemState
  <2> QED
    BY <2>1, MemAssumption, FS_Subset, FS_CardinalityType
<1>2. CASE Has(w.x.as, k)
  BY <1>1, <1>2 DEF Validate, Rich
<1>3. CASE ~Has(w.x.as, k)
  <2> DEFINE r == Kalloc(w.x)
  <2>1. r.pg # 0 /\ Rich(r.x, n) /\ r.pg \in w.x.free
    BY <1>1, KallocRich
  <2>2. Validate(w, k) = [x |-> WithTable(r.x, k, r.pg), ok |-> TRUE]
    BY <1>3, <2>1 DEF Validate, AddTable, WithTable
  <2>3. r.x \in MemState
    BY <1>1, <2>1, KallocIs
  <2> HIDE DEF r
  <2>4. WithTable(r.x, k, r.pg).free = r.x.free
    BY <2>3 DEF WithTable, MemState
  <2> QED
    BY <2>1, <2>2, <2>4 DEF Rich
<1> QED
  BY <1>2, <1>3

\* With four pages a round succeeds: one page and three tables.
LEMMA RoundRich ==
  ASSUME NEW X \in MemState, NEW R, X.as.pgdir # 0, Exact(X, R), NEW v \in Vpn, Rich(X, 4)
  PROVE  Round(Kalloc(X), v).ok
<1> DEFINE k == Kalloc(X)
           w0 == [x |-> k.x, ok |-> TRUE]
           w1 == Validate(w0, Key(1, v))
           w2 == Validate(w1, Key(2, v))
           w3 == Validate(w2, Key(3, v))
<1>1. k.pg \in X.free /\ k.pg # 0 /\ Rich(k.x, 3)
  BY KallocRich
<1>2. k.x \in MemState /\ Exact(k.x, R \cup {k.pg}) /\ k.x.as.pgdir # 0
  <2>1. k.x \in MemState /\ k.x = [X EXCEPT !.free = @ \ {k.pg}]
    BY <1>1, KallocIs
  <2>2. k.x.as = X.as
    BY <2>1 DEF MemState
  <2> QED
    BY <1>1, <2>1, <2>2, KallocExact
<1>3. Round(k, v).ok = w3.ok
  <2>1. w3 = WalkAlloc(k.x, v)
    BY DEF WalkAlloc
  <2>2. w3 \in WalkState
    BY <1>2, <2>1, WalkAllocIs
  <2> HIDE DEF w3, k
  <2>3. Round(k, v) = Placed(MapPage(w3, v, k.pg), k.pg)
    BY <1>1, <2>1 DEF Round
  <2>4. MapPage(w3, v, k.pg).ok = w3.ok
    BY <2>2 DEF MapPage, WalkState
  <2>5. CASE w3.ok
    BY <2>3, <2>4, <2>5 DEF Placed
  <2>6. CASE ~w3.ok
    BY <2>2, <2>3, <2>6 DEF Placed, MapPage, WalkState
  <2> QED
    BY <2>5, <2>6
<1> HIDE DEF k
<1>4. /\ w0 \in WalkState /\ w0.ok /\ Rich(w0.x, 3) /\ Walked(k.x, w0.x, R \cup {k.pg})
      /\ Key(1, v) \in KeySet /\ Key(2, v) \in KeySet
  BY <1>1, <1>2 DEF WalkState, Walked, KeySet
<1> HIDE DEF w0
<1>5. w1 \in WalkState /\ w1.ok /\ Rich(w1.x, 2) /\ Walked(k.x, w1.x, R \cup {k.pg})
  BY <1>2, <1>4, ValidateIs, ValidateRich
<1> HIDE DEF w1
<1>6. w2 \in WalkState /\ w2.ok /\ Rich(w2.x, 1)
  BY <1>2, <1>4, <1>5, ValidateIs, ValidateRich
<1> HIDE DEF w2
<1>7. w3.ok
  BY <1>6, ValidateRich
<1> QED
  BY <1>3, <1>7 DEF k

\* pgdir_init(): a root and nothing else.
LEMMA PgdirMade ==
  ASSUME NEW X \in MemState, X.as = NoAs, NEW R, Exact(X, R)
  PROVE  LET Y == pgdir_init(X, Kalloc(X)) IN
         /\ Y \in MemState /\ Exact(Y, R)
         /\ Y.lost = X.lost /\ Y.wild = X.wild /\ Y.panic = X.panic
         /\ Y.free \subseteq X.free /\ Y.free = Kalloc(X).x.free
         /\ Kalloc(X).pg = 0 => Y = X
         /\ Kalloc(X).pg # 0 => Y.as.pgdir = Kalloc(X).pg
         /\ Y.as.tab = {} /\ ~Y.as.ragged /\ \A v \in Vpn : Y.as.map[v].pa = 0
<1> DEFINE k == Kalloc(X)
           Y == pgdir_init(X, k)
           A == [NoAs EXCEPT !.pgdir = k.pg]
<1>1. CASE X.free = {}
  <2>1. k.pg = 0 /\ k.x = X
    BY <1>1, KallocIs
  <2>2. Y = X
    BY <2>1 DEF pgdir_init
  <2> QED
    BY <2>1, <2>2, NoAsIs
<1>2. CASE X.free # {}
  <2>1. k.pg \in X.free /\ k.x \in MemState /\ k.x = [X EXCEPT !.free = @ \ {k.pg}]
    BY <1>2, KallocIs
  <2>2. /\ k.x.lost = X.lost /\ k.x.as = X.as /\ k.x.wild = X.wild /\ k.x.panic = X.panic
        /\ X.free \subseteq Page /\ k.x.free \subseteq X.free
    BY <2>1 DEF MemState
  <2>3. Exact(k.x, R \cup {k.pg}) /\ k.pg \notin R /\ k.pg # 0 /\ k.pg \in Page
    BY <2>1, <2>2, KallocExact
  <2>4. Y = [k.x EXCEPT !.as = A]
    BY <2>3 DEF pgdir_init
  <2> HIDE DEF k
  <2>5. /\ A \in AddressSpace /\ A.pgdir = k.pg /\ A.tab = {} /\ ~A.ragged
        /\ A.map = NoAs.map /\ \A v \in Vpn : A.map[v].pa = 0
    BY <2>3, NoAsIs DEF AddressSpace
  <2> HIDE DEF A, Y
  <2>6. /\ Y \in MemState /\ Y.as = A /\ Y.free = k.x.free /\ Y.lost = k.x.lost
        /\ Y.wild = k.x.wild /\ Y.panic = k.x.panic
    BY <2>1, <2>4, <2>5 DEF MemState
  <2>7. Tables(A) = {} /\ Pages(A) = {}
    BY <2>5 DEF Tables, Pages
  <2>8. All(A) = {k.pg} /\ All(k.x.as) = {}
    BY <2>2, <2>3, <2>5, <2>7, NoAsIs DEF All
  <2>9. Clean(A)
    BY <2>3, <2>5, <2>7, FS_EmptySet DEF Clean
  <2>10. Exact(Y, R)
    BY <2>3, <2>6, <2>8, <2>9 DEF Exact
  <2> QED
    BY <2>2, <2>3, <2>5, <2>6, <2>10 DEF Y, k
<1> QED
  BY <1>1, <1>2

\* The first process: six pages.
LEMMA BootIs ==
  /\ Boot1.pg \in Page /\ Booted \in MemState /\ Exact(Booted, {Boot1.pg})
  /\ Booted.as.pgdir \in Page /\ ~Booted.as.ragged
  /\ Booted.as.map[0].pa # 0 /\ HasPte(Booted.as, 0)
  /\ \A v \in Vpn : v # 0 => Booted.as.map[v].pa = 0
  /\ Booted.lost = {} /\ 0 \in Vpn
<1>0. 0 \notin Page /\ 0 \in Vpn
  BY MemAssumption DEF Vpn
<1>1. /\ Boot0 \in MemState /\ Boot0.as = NoAs /\ Exact(Boot0, {}) /\ Rich(Boot0, 6)
      /\ Boot0.lost = {} /\ Boot0.free = Page
  BY NoAsIs, MemAssumption DEF Boot0, MemState, Reason, Exact, Rich
<1>2. Boot1.pg \in Page /\ Boot1.pg # 0 /\ Rich(Boot1.x, 5)
  BY <1>1, KallocRich DEF Boot1
<1>3. Boot1.x \in MemState /\ Exact(Boot1.x, {Boot1.pg}) /\ Boot1.x.as = NoAs /\ Boot1.x.lost = {}
  <2>1. /\ Boot1.pg \in Boot0.free /\ Boot1.x \in MemState
        /\ Boot1.x = [Boot0 EXCEPT !.free = @ \ {Boot1.pg}]
    BY <1>1, <1>2, KallocIs DEF Boot1
  <2>2. Boot1.x.as = Boot0.as /\ Boot1.x.lost = Boot0.lost
    BY <1>1, <2>1 DEF MemState
  <2>3. Exact(Boot1.x, {} \cup {Boot1.pg})
    BY <1>1, <2>1, KallocExact
  <2> QED
    BY <1>1, <2>1, <2>2, <2>3
<1> DEFINE k == Kalloc(Boot1.x)
<1>4. k.pg \in Boot1.x.free /\ k.pg # 0 /\ Rich(k.x, 4)
  BY <1>2, <1>3, KallocRich
<1>5. /\ Boot2 \in MemState /\ Exact(Boot2, {Boot1.pg}) /\ Boot2.free = k.x.free
      /\ Boot2.as.pgdir # 0 /\ Boot2.lost = {} /\ ~Boot2.as.ragged
      /\ \A v \in Vpn : Boot2.as.map[v].pa = 0
  BY <1>3, <1>4, PgdirMade DEF Boot2
<1>6. Rich(Boot2, 4)
  BY <1>4, <1>5 DEF Rich
<1> DEFINE w == Round(Kalloc(Boot2), 0)
<1>7. Rounded(Boot2, w, {Boot1.pg}, 0) /\ w.ok
  BY <1>0, <1>5, <1>6, RoundIs, RoundRich
<1>8. Booted = w.x
  BY DEF Booted
<1> HIDE DEF w
<1>9. Booted.as.pgdir \in Page
  <2>1. Booted.as \in AddressSpace /\ Booted.as.pgdir # 0
    BY <1>5, <1>7, <1>8 DEF Rounded, WalkState, MemState
  <2> QED
    BY <2>1 DEF AddressSpace
<1>10. Booted.lost = {}
  BY <1>0, <1>5, <1>7, <1>8 DEF Rounded
<1> QED
  BY <1>0, <1>2, <1>5, <1>7, <1>8, <1>9, <1>10 DEF Rounded, WalkState

\* No image.
LEMMA NoImgIs == NoImg \in [as : AddressSpace, sz : Nat] /\ NoImg.as = NoAs /\ NoImg.sz = 0
  BY NoAsIs DEF NoImg

\* No growth.
LEMMA NoGrowIs == NoGrow \in GrowRec /\ NoGrow.va = 0 /\ NoGrow.old = 0 /\ NoGrow.new = 0
  BY DEF NoGrow, GrowRec

\* The inode of execve(), held or not.
LEMMA InoIs ==
  /\ \A at \in {"header", "segment", "load"} : InoAt(at) = HeldIno
  /\ \A at \in {"user", "brk", "stack", "args", "switch", "free"} : InoAt(at) = NoIno
  /\ HeldIno.ip = TRUE /\ HeldIno.locked = TRUE /\ NoIno.ip = FALSE /\ NoIno.locked = FALSE
  /\ HeldIno \in [ip : BOOLEAN, locked : BOOLEAN] /\ NoIno \in [ip : BOOLEAN, locked : BOOLEAN]
  BY DEF InoAt, HeldIno, NoIno

\* An address space without pages has size 0.
LEMMA KeptEmpty ==
  ASSUME NEW A \in AddressSpace, \A v \in Vpn : A.map[v].pa = 0
  PROVE  Kept(A, 0) /\ Capped(A, 0) /\ AllUser(A)
<1>1. 0 % PGSIZE = 0 /\ 0 \div PGSIZE = 0
  BY PageIs, MemAssumption
<1>2. RoundUp(0) \div PGSIZE = 0
  BY <1>1, RoundUpCovers
<1> QED
  BY <1>1, <1>2 DEF Kept, Capped, Present, AllUser

\* After boot the first process has its page, its tables and its kernel stack.
LEMMA InitInv == Init => Inv
<1> SUFFICES ASSUME Init PROVE Inv
  OBVIOUS
<1>0. PGSIZE \in Nat \ {0} /\ MaxPage \in Nat \ {0} /\ PGSIZE \in 0..((MaxPage + 1) * PGSIZE)
  BY MemAssumption
<1>1. /\ free = Booted.free /\ lost = Booted.lost /\ as = Booted.as /\ kstack = Boot1.pg
      /\ panic = "no" /\ wild = FALSE /\ sz = PGSIZE /\ ttbr = as.pgdir
      /\ img = NoImg /\ prog = NoProg /\ pc = "user" /\ ino = NoIno /\ grow = NoGrow
  BY BootIs DEF Init
<1>2. /\ free \subseteq Page /\ lost \subseteq Page /\ as \in AddressSpace
      /\ as.pgdir \in Page /\ ~as.ragged /\ as.map[0].pa # 0 /\ HasPte(as, 0) /\ 0 \in Vpn
      /\ \A v \in Vpn : v # 0 => as.map[v].pa = 0
  BY <1>1, BootIs DEF MemState
<1>3. Whole
  <2>1. Exact(Booted, {kstack} \cup All(NoAs)) /\ Clean(NoAs) /\ kstack \in Page /\ kstack \notin All(NoAs)
    BY <1>1, BootIs, NoAsIs
  <2> QED
    BY <1>1, <2>1, ExactSpread, NoImgIs DEF Whole
<1>4. as.pgdir \notin free
  <2>1. as.pgdir \in All(as)
    BY <1>2, MemAssumption DEF All
  <2> QED
    BY <1>3, <2>1 DEF Whole, Spread
<1>5. Shape
  <2>1. NoProg \in [elf : BOOLEAN, segs : Seq(Header)]
    BY DEF NoProg
  <2> QED
    BY <1>0, <1>1, <1>2, <1>4, <2>1, NoImgIs, NoGrowIs, InoIs DEF Shape, Reason
<1>6. Control
  BY <1>1 DEF Control
<1>7. Kept(as, sz) /\ Capped(as, sz)
  <2>1. PGSIZE % PGSIZE = 0 /\ PGSIZE \div PGSIZE = 1
    BY <1>0, PageIs
  <2>2. RoundUp(sz) \div PGSIZE = 1
    BY <1>0, <1>1, <2>1, RoundUpCovers
  <2> QED
    BY <1>1, <1>2, <2>1, <2>2 DEF Kept, Capped, Present
<1>8. Kept(img.as, img.sz)
  BY <1>1, NoImgIs, NoAsIs, KeptEmpty
<1>9. Layout
  BY <1>0, <1>1, <1>7, <1>8 DEF Layout, GuardBelowStack
<1> QED
  BY <1>3, <1>5, <1>6, <1>9 DEF Inv

-----------------------------------------------------------------------------
(* uvm_alloc() and uvm_dealloc() *)

\* Present pages stay present, with their tables.
LEMMA KeptStays ==
  ASSUME NEW A \in AddressSpace, NEW B \in AddressSpace, NEW s \in Nat, Kept(A, s),
         A.tab \subseteq B.tab, A.ragged => B.ragged,
         \A v \in Vpn : A.map[v].pa # 0 => B.map[v].pa # 0,
         \A v \in Vpn : B.map[v].pa # 0 => A.map[v].pa # 0 \/ HasPte(B, v)
  PROVE  Kept(B, s)
<1>1. \A v : HasPte(A, v) => HasPte(B, v)
  BY DEF HasPte, Has
<1>2. \A v : Present(A, v) => Present(B, v)
  BY DEF Present
<1>3. \A v \in Vpn : Present(B, v) => HasPte(B, v)
  BY <1>1 DEF Kept, Present
<1> QED
  BY <1>2, <1>3 DEF Kept

\* A round keeps what the loop has reached, loses at most the page that the
\* size points into, and leaves nothing behind when it fails.
LEMMA RoundLayout ==
  ASSUME NEW X \in MemState, NEW R, NEW s \in Nat, NEW g \in GrowRec, g.va < g.new,
         g.old \in {s, RoundUp(s)}, Kept(X.as, s), Extended(X.as, s, g),
         NEW w, Rounded(X, w, R, g.va \div PGSIZE)
  PROVE  /\ g.va \div PGSIZE \in Vpn /\ Kept(w.x.as, s)
         /\ AllUser(X.as) => AllUser(w.x.as)
         /\ w.ok => Extended(w.x.as, s, [g EXCEPT !.va = @ + PGSIZE])
         /\ ~w.ok => Extended(w.x.as, s, g)
         /\ ~w.ok /\ g.va = g.old => Capped(w.x.as, s)
         /\ w.x.lost \ X.lost \subseteq PageAt(X.as, s)
<1> DEFINE v == g.va \div PGSIZE
           h == [g EXCEPT !.va = @ + PGSIZE]
           A == X.as
           B == w.x.as
<1>0. /\ PGSIZE \in Nat \ {0} /\ MaxPage \in Nat \ {0} /\ g.va \in Nat /\ g.old \in Nat /\ g.new \in Nat
      /\ h.va = g.va + PGSIZE /\ h.old = g.old /\ h.new = g.new
      /\ A \in AddressSpace /\ B \in AddressSpace
  BY MemAssumption DEF GrowRec, Rounded, WalkState, MemState
<1>1. v \in Vpn
  <2>1. g.va < (MaxPage + 1) * PGSIZE
    BY <1>0 DEF Extended
  <2> QED
    BY <1>0, <2>1, PageBelow DEF Vpn
<1>2. h.va \div PGSIZE = v + 1 /\ h.va % PGSIZE = g.va % PGSIZE
  BY <1>0, NextPage
<1>3. g.old \div PGSIZE \in Nat /\ g.old \div PGSIZE <= v /\ s \div PGSIZE \in Nat
      /\ s \div PGSIZE <= g.old \div PGSIZE /\ g.old \div PGSIZE <= s \div PGSIZE + 1
  <2>1. g.old \div PGSIZE <= v
    BY <1>0, PageMonotone DEF Extended
  <2>2. g.old \div PGSIZE \in Nat /\ s \div PGSIZE \in Nat
    BY <1>0, PageOf
  <2>3. s \div PGSIZE <= RoundUp(s) \div PGSIZE /\ RoundUp(s) \div PGSIZE <= s \div PGSIZE + 1
    BY RoundUpCovers
  <2>4. CASE g.old = s
    BY <2>1, <2>2, <2>4
  <2>5. CASE g.old = RoundUp(s)
    BY <2>1, <2>2, <2>3, <2>5
  <2> QED
    BY <2>4, <2>5
<1> HIDE DEF v, h, B
<1>4. /\ \A u \in Vpn : A.map[u].pa # 0 => B.map[u].pa # 0
      /\ \A u \in Vpn : B.map[u].pa # 0 => A.map[u].pa # 0 \/ (w.ok /\ u = v)
      /\ w.ok => HasPte(B, v) /\ B.map[v].pa # 0 /\ B.map[v].user
      /\ A.tab \subseteq B.tab /\ B.ragged = A.ragged
  BY DEF Rounded, v, B
<1>5. Kept(B, s)
  BY <1>0, <1>4, KeptStays
<1>6. AllUser(A) => AllUser(B)
  BY DEF AllUser, Rounded, Present, v, B
<1>7. ASSUME w.ok PROVE Extended(B, s, h)
  <2>1. \A u \in (h.old \div PGSIZE)..(h.va \div PGSIZE - 1) : Present(B, u)
    <3>1. ASSUME NEW u \in (g.old \div PGSIZE)..v PROVE Present(B, u)
      <4>1. CASE u = v
        BY <1>1, <1>4, <1>7, <4>1 DEF Present
      <4>2. CASE u # v
        <5>1. u \in (g.old \div PGSIZE)..(v - 1)
          BY <1>1, <1>3, <4>2 DEF Vpn
        <5>2. Present(A, u)
          BY <5>1 DEF Extended, v
        <5> QED
          BY <1>4, <5>2 DEF Present
      <4> QED
        BY <4>1, <4>2
    <3>2. h.va \div PGSIZE - 1 = v
      BY <1>1, <1>2, <1>0 DEF Vpn
    <3> QED
      BY <1>0, <3>1, <3>2
  <2>2. ASSUME NEW u \in Vpn, Present(B, u) PROVE u <= s \div PGSIZE \/ u < h.va \div PGSIZE
    <3>1. u \in Nat /\ v \in Nat
      BY <1>1, <1>0 DEF Vpn
    <3>2. CASE u = v
      BY <1>2, <3>1, <3>2
    <3>3. CASE u # v
      <4>1. Present(A, u)
        BY <1>4, <2>2, <3>3 DEF Present
      <4>2. u <= s \div PGSIZE \/ u < v
        BY <4>1 DEF Extended, v
      <4> QED
        BY <1>2, <3>1, <4>2
    <3> QED
      BY <3>2, <3>3
  <2>3. /\ h.old <= h.va /\ h.va >= h.old + PGSIZE /\ h.va < h.new + PGSIZE
        /\ h.new <= (MaxPage + 1) * PGSIZE
    BY <1>0 DEF Extended
  <2>4. ~B.ragged /\ h.old <= h.new => h.va % PGSIZE = 0
    BY <1>0, <1>2, <1>4 DEF Extended
  <2> QED
    BY <2>1, <2>2, <2>3, <2>4 DEF Extended
<1>8. ASSUME ~w.ok PROVE Extended(B, s, g)
  <2>1. \A u : Present(B, u) <=> Present(A, u)
    BY <1>4, <1>8 DEF Present
  <2> QED
    BY <1>4, <2>1 DEF Extended
<1>9. ASSUME ~w.ok, g.va = g.old PROVE Capped(B, s)
  <2>1. ASSUME NEW u \in Vpn, Present(B, u) PROVE u <= s \div PGSIZE
    <3>1. u <= s \div PGSIZE \/ u < g.old \div PGSIZE
      BY <1>8, <1>9, <2>1 DEF Extended
    <3> QED
      BY <1>0, <1>3, <3>1 DEF Vpn
  <2> QED
    BY <2>1 DEF Capped
<1>10. w.x.lost \ X.lost \subseteq PageAt(A, s)
  <2>1. CASE w.ok /\ A.map[v].pa # 0
    <3>1. v <= s \div PGSIZE \/ v < v
      BY <1>1, <2>1 DEF Extended, Present, v
    <3>2. v = s \div PGSIZE
      BY <1>0, <1>1, <1>3, <3>1 DEF Vpn
    <3>3. w.x.lost \ X.lost \subseteq {A.map[v].pa}
      BY <2>1 DEF Rounded, v
    <3> QED
      BY <1>1, <3>2, <3>3 DEF PageAt
  <2>2. CASE ~(w.ok /\ A.map[v].pa # 0)
    <3>1. w.x.lost = X.lost
      BY <2>2 DEF Rounded, v
    <3> QED
      BY <3>1
  <2> QED
    BY <2>1, <2>2
<1> QED
  BY <1>1, <1>5, <1>6, <1>7, <1>8, <1>9, <1>10 DEF v, h, B

\* The call of uvm_alloc(): the loop has not mapped anything yet.
Call(old, new) == [va |-> old, old |-> old, new |-> new]
Started(A, s, old, new) ==
    /\ From(A, old, new) \in AddressSpace /\ Kept(From(A, old, new), s)
    /\ Call(old, new) \in GrowRec /\ Call(old, new).old = old /\ Call(old, new).new = new
    /\ Extended(From(A, old, new), s, Call(old, new))
    /\ From(A, old, new).map = A.map /\ From(A, old, new).tab = A.tab
    /\ From(A, old, new).pgdir = A.pgdir

\* The call of uvm_alloc(): nothing is mapped yet.
LEMMA StartLayout ==
  ASSUME NEW A \in AddressSpace, NEW s \in Nat, NEW old \in Nat, NEW new \in Nat,
         Kept(A, s), Capped(A, s), new <= (MaxPage + 1) * PGSIZE
  PROVE  Started(A, s, old, new)
<1> DEFINE B == From(A, old, new)
           g == Call(old, new)
<1>1. /\ B \in AddressSpace /\ B.map = A.map /\ B.tab = A.tab /\ B.pgdir = A.pgdir
      /\ B.ragged = (A.ragged \/ (old <= new /\ old % PGSIZE # 0))
  BY DEF From, AddressSpace
<1>2. g \in GrowRec /\ g.va = old /\ g.old = old /\ g.new = new
  BY DEF GrowRec, Call
<1> HIDE DEF B, g
<1>3. Kept(B, s)
  BY <1>1, KeptStays
<1>4. \A v : Present(B, v) <=> Present(A, v)
  BY <1>1 DEF Present
<1>5. old \div PGSIZE \in Nat /\ PGSIZE \in Nat
  BY PageOf, MemAssumption
<1>6. (old \div PGSIZE)..(old \div PGSIZE - 1) = {}
  BY <1>5
<1>7. Extended(B, s, g)
  <2>1. g.old <= g.va /\ g.va = g.old /\ g.new <= (MaxPage + 1) * PGSIZE
    BY <1>2
  <2>2. ~B.ragged /\ g.old <= g.new => g.va % PGSIZE = 0
    BY <1>1, <1>2
  <2>3. \A v \in (g.old \div PGSIZE)..(g.va \div PGSIZE - 1) : Present(B, v)
    BY <1>2, <1>6
  <2>4. \A v \in Vpn : Present(B, v) => v <= s \div PGSIZE
    BY <1>4 DEF Capped
  <2> QED
    BY <2>1, <2>2, <2>3, <2>4 DEF Extended
<1> QED
  BY <1>1, <1>2, <1>3, <1>7 DEF B, g, Started

\* What the loop of uvm_alloc() returns at its end.
Size(g) == IF g.new < g.old THEN g.old ELSE g.new

\* The loop at its end has filled the address space to the new size.
LEMMA EndLayout ==
  ASSUME NEW A \in AddressSpace, NEW s \in Nat, NEW g \in GrowRec, g.va >= g.new,
         g.old \in {s, RoundUp(s)}, Kept(A, s), Extended(A, s, g)
  PROVE  Kept(A, Size(g)) /\ Capped(A, Size(g)) /\ Size(g) \in Nat
<1> DEFINE G == Size(g)
<1>0. /\ PGSIZE \in Nat \ {0} /\ g.va \in Nat /\ g.old \in Nat /\ g.new \in Nat
      /\ RoundUp(s) \in Nat /\ s <= RoundUp(s) /\ s <= g.old /\ RoundUp(s) % PGSIZE = 0
  <2>1. PGSIZE \in Nat \ {0} /\ g.va \in Nat /\ g.old \in Nat /\ g.new \in Nat
    BY MemAssumption DEF GrowRec
  <2>2. RoundUp(s) \in Nat /\ s <= RoundUp(s) /\ RoundUp(s) % PGSIZE = 0
    BY RoundUpIs
  <2> QED
    BY <2>1, <2>2
<1>1. G \in Nat /\ g.old <= G /\ g.new <= G /\ (G = g.new \/ (G = g.old /\ g.new < g.old))
  BY <1>0 DEF Size
<1> HIDE DEF G
<1>2. /\ s \div PGSIZE \in Nat /\ g.old \div PGSIZE \in Nat /\ g.va \div PGSIZE \in Nat
      /\ G \div PGSIZE \in Nat /\ g.new \div PGSIZE \in Nat
      /\ s \div PGSIZE <= G \div PGSIZE /\ g.old \div PGSIZE <= G \div PGSIZE
      /\ g.new \div PGSIZE <= G \div PGSIZE
  <2>1. s <= G
    BY <1>0, <1>1
  <2> QED
    BY <1>0, <1>1, <2>1, PageOf, PageMonotone
<1>3. g.old \div PGSIZE <= RoundUp(s) \div PGSIZE /\ RoundUp(s) \div PGSIZE \in Nat
  BY <1>0, RoundUpCovers, PageOf
<1>4. G > 0 => Present(A, 0)
  <2>1. CASE s > 0
    BY <2>1 DEF Kept
  <2>2. CASE s = 0 /\ G > 0
    <3>1. 0 % PGSIZE = 0
      BY <1>0, PageIs
    <3>2. g.old = 0
      BY <2>2, <3>1, RoundUpCovers
    <3>3. g.va >= PGSIZE
      BY <1>0, <1>1, <2>2, <3>2 DEF Extended
    <3>4. 0 \div PGSIZE = 0 /\ PGSIZE \div PGSIZE = 1
      BY <1>0, PageIs
    <3>5. g.va \div PGSIZE >= 1
      BY <1>0, <1>2, <3>3, <3>4, PageMonotone
    <3>6. 0 \in (g.old \div PGSIZE)..(g.va \div PGSIZE - 1)
      BY <1>2, <3>2, <3>4, <3>5
    <3> QED
      BY <3>6 DEF Extended
  <2> QED
    BY <1>0, <2>1, <2>2
<1>5. ASSUME ~A.ragged, NEW v \in 0..(RoundUp(G) \div PGSIZE - 1) PROVE Present(A, v)
  <2>0. RoundUp(G) \div PGSIZE \in Nat
    BY <1>1, RoundUpCovers
  <2>1. CASE v < RoundUp(s) \div PGSIZE
    <3>1. v \in 0..(RoundUp(s) \div PGSIZE - 1)
      BY <1>3, <2>0, <2>1
    <3> QED
      BY <1>5, <3>1 DEF Kept
  <2>2. CASE v >= RoundUp(s) \div PGSIZE
    <3>1. CASE g.old <= g.new
      <4>1. g.va % PGSIZE = 0 /\ G = g.new
        BY <1>0, <1>1, <1>5, <3>1 DEF Extended
      <4>2. RoundUp(G) \div PGSIZE <= g.va \div PGSIZE
        BY <1>0, <1>1, <4>1, RoundUpLeast
      <4>3. v \in (g.old \div PGSIZE)..(g.va \div PGSIZE - 1)
        BY <1>2, <1>3, <2>0, <2>2, <4>2
      <4> QED
        BY <4>3 DEF Extended
    <3>2. CASE g.new < g.old
      <4>1. G = s \/ G = RoundUp(s)
        BY <1>0, <1>1, <3>2
      <4>2. RoundUp(RoundUp(s)) = RoundUp(s)
        BY <1>0, RoundUpCovers
      <4>3. RoundUp(G) = RoundUp(s)
        BY <4>1, <4>2
      <4> QED
        BY <1>3, <2>0, <2>2, <4>3
    <3> QED
      BY <1>0, <3>1, <3>2
  <2> QED
    BY <1>3, <2>0, <2>1, <2>2
<1>6. ASSUME NEW v \in Vpn, Present(A, v) PROVE v <= G \div PGSIZE
  <2>0. v \in Nat
    BY MemAssumption DEF Vpn
  <2>1. v <= s \div PGSIZE \/ v < g.va \div PGSIZE
    BY <1>6 DEF Extended
  <2>2. CASE g.va = g.old
    BY <1>2, <2>0, <2>1, <2>2
  <2>3. CASE g.va < g.new + PGSIZE
    <3>1. g.va \div PGSIZE <= (g.new + PGSIZE) \div PGSIZE
      BY <1>0, <2>3, PageMonotone
    <3>2. (g.new + PGSIZE) \div PGSIZE = g.new \div PGSIZE + 1
      BY <1>0, NextPage
    <3> QED
      BY <1>2, <2>0, <2>1, <3>1, <3>2
  <2> QED
    BY <2>2, <2>3 DEF Extended
<1>7. Kept(A, G)
  BY <1>4, <1>5 DEF Kept
<1>8. Capped(A, G)
  BY <1>6 DEF Capped
<1> QED
  BY <1>1, <1>7, <1>8 DEF G

\* Undoing the rounds before a failure: there were none, or the panic is one
\* of two.
LEMMA UndoIs ==
  ASSUME NEW X \in MemState, X.panic = "no", NEW s \in Nat, NEW g \in GrowRec,
         Kept(X.as, s), Extended(X.as, s, g)
  PROVE  LET Y == uvm_dealloc(X, g.va, g.old).x IN
         /\ Y \in MemState /\ Y.free = X.free /\ Y.lost = X.lost /\ Y.wild = X.wild /\ Y.as = X.as
         /\ Y.panic \in {"no", "kfree", "uvm_unmap: not aligned"}
         /\ Y.panic = "no" => g.va = g.old
<1> DEFINE n == (g.va - g.old) \div PGSIZE
<1>0. /\ PGSIZE \in Nat \ {0} /\ g.va \in Nat /\ g.old \in Nat
      /\ X.as \in AddressSpace
  BY MemAssumption DEF GrowRec, MemState
<1>1. CASE g.va = g.old
  <2>1. uvm_dealloc(X, g.va, g.old) = [x |-> X, r |-> g.va]
    BY <1>0, <1>1 DEF uvm_dealloc
  <2>2. uvm_dealloc(X, g.va, g.old).x = X
    BY <2>1
  <2> QED
    BY <1>1, <2>2
<1>2. CASE g.va >= g.old + PGSIZE
  <2>1. n # 0
    <3>1. g.va - g.old \in Nat /\ g.va - g.old >= PGSIZE
      BY <1>0, <1>2
    <3>2. PGSIZE \div PGSIZE = 1
      BY <1>0, PageIs
    <3>3. n >= 1 /\ n \in Nat
      BY <1>0, <3>1, <3>2, PageMonotone, PageOf
    <3> QED
      BY <3>3
  <2> HIDE DEF n
  <2>2. uvm_dealloc(X, g.va, g.old).x = Unmap(X, g.old, n)
    BY <1>0, <1>2 DEF uvm_dealloc, n
  <2>3. Present(X.as, g.old \div PGSIZE) /\ HasPte(X.as, g.old \div PGSIZE)
    <3>1. (g.old + PGSIZE) \div PGSIZE <= g.va \div PGSIZE
      BY <1>0, <1>2, PageMonotone
    <3>2. g.old \div PGSIZE \in (g.old \div PGSIZE)..(g.va \div PGSIZE - 1)
      <4>1. /\ (g.old + PGSIZE) \div PGSIZE = g.old \div PGSIZE + 1
            /\ g.old \div PGSIZE \in Nat /\ g.va \div PGSIZE \in Nat
        BY <1>0, NextPage, PageOf
      <4> QED
        BY <3>1, <4>1
    <3>3. Present(X.as, g.old \div PGSIZE)
      BY <3>2 DEF Extended
    <3> QED
      BY <3>3 DEF Kept, Present
  <2>4. CASE g.old % PGSIZE # 0
    <3>1. Unmap(X, g.old, n) = [X EXCEPT !.panic = "uvm_unmap: not aligned"]
      BY <2>4 DEF Unmap, Panic, Ok
    <3> QED
      BY <2>2, <3>1 DEF MemState, Reason
  <2>5. CASE g.old % PGSIZE = 0
    <3>1. Unmap(X, g.old, n) = [X EXCEPT !.panic = "kfree"]
      BY <2>1, <2>3, <2>5 DEF Unmap, Panic, Ok, KfreePhysical
    <3> QED
      BY <2>2, <3>1 DEF MemState, Reason
  <2> QED
    BY <2>4, <2>5
<1> QED
  BY <1>1, <1>2 DEF Extended

\* A shrink: it panics, or it stays inside the page that the size points into.
Shrunk(X, Y, new) ==
    /\ Y \in MemState /\ Y.free = X.free /\ Y.lost = X.lost /\ Y.wild = X.wild /\ Y.as = X.as
    /\ \/ Y.panic \in {"kfree", "uvm_unmap: not aligned"}
       \/ Y.panic \in {"uvm_unmap: pgdir_walk", "uvm_unmap: not mapped"} /\ X.as.ragged
       \/ Y.panic = "no" /\ Kept(X.as, new) /\ Capped(X.as, new)

\* A shrink by less than a page changes nothing but the size; one that reaches
\* a page panics.
LEMMA ShrinkIs ==
  ASSUME NEW X \in MemState, X.panic = "no", NEW s \in Nat, NEW new \in Nat, new < s,
         Kept(X.as, s), Capped(X.as, s)
  PROVE  Shrunk(X, uvm_dealloc(X, s, new).x, new) /\ uvm_dealloc(X, s, new).r = new
<1> DEFINE n == (s - new) \div PGSIZE
           v == new \div PGSIZE
           Y == uvm_dealloc(X, s, new).x
<1>0. PGSIZE \in Nat \ {0} /\ s - new \in Nat /\ v \in Nat /\ X.as \in AddressSpace
  BY MemAssumption, PageOf DEF MemState
<1>1. uvm_dealloc(X, s, new) = [x |-> Unmap(X, new, n), r |-> new]
  BY DEF uvm_dealloc
<1>2. Y = Unmap(X, new, n) /\ uvm_dealloc(X, s, new).r = new
  BY <1>1
<1> HIDE DEF n, v, Y
<1>3. ASSUME NEW why \in Reason, Y = [X EXCEPT !.panic = why]
      PROVE  /\ Y \in MemState /\ Y.free = X.free /\ Y.lost = X.lost /\ Y.wild = X.wild
             /\ Y.as = X.as /\ Y.panic = why
  BY <1>3 DEF MemState
<1>4. v < RoundUp(s) \div PGSIZE /\ RoundUp(s) \div PGSIZE \in Nat
  BY RoundUpCovers DEF v
<1>5. ~X.as.ragged => Present(X.as, v) /\ HasPte(X.as, v)
  <2>1. v \in 0..(RoundUp(s) \div PGSIZE - 1)
    BY <1>0, <1>4
  <2> QED
    BY <2>1 DEF Kept, Present
<1>6. CASE new % PGSIZE # 0
  <2>1. Y = [X EXCEPT !.panic = "uvm_unmap: not aligned"]
    BY <1>2, <1>6 DEF Unmap, Panic, Ok
  <2>2. "uvm_unmap: not aligned" \in Reason
    BY DEF Reason
  <2> QED
    BY <1>2, <1>3, <2>1, <2>2 DEF Y, Shrunk
<1>7. CASE new % PGSIZE = 0 /\ n # 0
  <2>1. CASE ~HasPte(X.as, v)
    <3>1. Y = [X EXCEPT !.panic = "uvm_unmap: pgdir_walk"]
      BY <1>2, <1>7, <2>1 DEF Unmap, Panic, Ok, v
    <3>2. "uvm_unmap: pgdir_walk" \in Reason
      BY DEF Reason
    <3> QED
      BY <1>2, <1>3, <1>5, <2>1, <3>1, <3>2 DEF Y, Shrunk
  <2>2. CASE HasPte(X.as, v) /\ ~Present(X.as, v)
    <3>1. Y = [X EXCEPT !.panic = "uvm_unmap: not mapped"]
      BY <1>2, <1>7, <2>2 DEF Unmap, Panic, Ok, v
    <3>2. "uvm_unmap: not mapped" \in Reason
      BY DEF Reason
    <3> QED
      BY <1>2, <1>3, <1>5, <2>2, <3>1, <3>2 DEF Y, Shrunk
  <2>3. CASE HasPte(X.as, v) /\ Present(X.as, v)
    <3>1. Y = [X EXCEPT !.panic = "kfree"]
      BY <1>2, <1>7, <2>3 DEF Unmap, Panic, Ok, KfreePhysical, v
    <3>2. "kfree" \in Reason
      BY DEF Reason
    <3> QED
      BY <1>2, <1>3, <3>1, <3>2 DEF Y, Shrunk
  <2> QED
    BY <2>1, <2>2, <2>3
<1>8. CASE new % PGSIZE = 0 /\ n = 0
  <2>1. Y = X
    BY <1>2, <1>8 DEF Unmap
  <2>2. s < new + PGSIZE
    BY <1>0, <1>8, PageOf DEF n
  <2>3. s \div PGSIZE = v
    <3>1. new = PGSIZE * v
      BY <1>0, <1>8, PageOf DEF v
    <3>2. s = PGSIZE * v + (s - new)
      BY <1>0, <3>1
    <3> QED
      BY <1>0, <2>2, <3>2, PageIs
  <2>4. RoundUp(new) \div PGSIZE = v
    BY <1>8, RoundUpCovers DEF v
  <2>5. Kept(X.as, new)
    <3>1. 0..(RoundUp(new) \div PGSIZE - 1) \subseteq 0..(RoundUp(s) \div PGSIZE - 1)
      BY <1>0, <1>4, <2>4
    <3> QED
      BY <3>1 DEF Kept
  <2>6. Capped(X.as, new)
    BY <2>3 DEF Capped, v
  <2> QED
    BY <1>2, <2>1, <2>5, <2>6 DEF Y, Shrunk
<1> QED
  BY <1>6, <1>7, <1>8
-----------------------------------------------------------------------------
(* The steps *)

\* The pages of an address space depend on its tables and entries.
LEMMA SameSpace ==
  ASSUME NEW A, NEW B, B.pgdir = A.pgdir, B.tab = A.tab,
         \A v \in Vpn : B.map[v].pa = A.map[v].pa
  PROVE  All(B) = All(A) /\ (Clean(A) => Clean(B))
<1>1. Tables(B) = Tables(A) /\ Pages(B) = Pages(A)
  BY DEF Tables, Pages
<1> QED
  BY <1>1 DEF All, Clean

Faults == {"fault: argument", "fault: length", "fault: iov_base"}

\* The kernel uses an address: a page that is not mapped stops it.
LEMMA TouchStep ==
  ASSUME Inv, panic = "no", pc = "user", NEW va, NEW i, NEW why \in Faults, Touch(va, i, why),
         why = "fault: argument" /\ (\E a \in va..(va + i) : ~Present(as, a \div PGSIZE))
             => as.ragged
  PROVE  Inv' /\ StrayStep
<1>1. /\ UNCHANGED <<free, lost, wild, as, sz, ttbr, kstack, img, pc, prog, ino, grow>>
      /\ panic' = panic \/ (panic' = why /\ \E a \in va..(va + i) : ~Present(as, a \div PGSIZE))
  BY DEF Touch
<1>2. Shape'
  BY <1>1 DEF Inv, Shape, Reason, Faults
<1>3. CASE panic' = panic
  <2>1. Whole' /\ Control' /\ Layout'
    BY <1>1 DEF Inv, Whole, Control, Layout, GuardBelowStack
  <2> QED
    BY <1>1, <1>2, <1>3, <2>1 DEF Inv, StrayStep
<1>4. CASE panic' = why /\ \E a \in va..(va + i) : ~Present(as, a \div PGSIZE)
  <2>1. panic' # "no"
    BY <1>4 DEF Faults
  <2>2. StrayStep
    BY <1>1, <1>4 DEF StrayStep, Faults
  <2> QED
    BY <1>2, <2>1, <2>2 DEF Inv
<1> QED
  BY <1>1, <1>3, <1>4

\* argptr(), fetchint() and fetchstr(): what lies below the size is mapped, but
\* for holes, and a length that fits an int keeps the argument below the size.
LEMMA FetchArgStep ==
  ASSUME Inv, NEW va \in Nat, NEW n \in Nat, NEW i \in Nat, FetchArg(va, n, i)
  PROVE  Inv' /\ StrayStep
<1> DEFINE why == IF AsInt(n) = n THEN "fault: argument" ELSE "fault: length"
<1>1. /\ panic = "no" /\ pc = "user" /\ va + AsInt(n) <= sz /\ i < n
      /\ Touch(va, i, why)
  BY DEF FetchArg, Running
<1>2. why \in Faults
  BY DEF Faults
<1>3. ASSUME why = "fault: argument", NEW a \in va..(va + i), ~Present(as, a \div PGSIZE)
      PROVE  as.ragged
  <2>1. sz \in Nat
    BY MemAssumption DEF Inv, Shape
  <2>2. AsInt(n) = n
    BY <1>3
  <2>5. va + n <= sz /\ i < n
    BY <1>1, <2>2
  <2>3. a \in Nat /\ a < sz
    BY <2>1, <2>5
  <2>4. a \div PGSIZE \in 0..(RoundUp(sz) \div PGSIZE - 1)
    <3>1. /\ a \div PGSIZE \in Nat /\ RoundUp(sz) \div PGSIZE \in Nat
          /\ a \div PGSIZE < RoundUp(sz) \div PGSIZE
      BY <2>1, <2>3, RoundUpCovers, PageOf
    <3> QED
      BY <3>1
  <2> QED
    BY <1>1, <1>3, <2>4 DEF Inv, Layout, Kept
<1> HIDE DEF why
<1> QED
  BY <1>1, <1>2, <1>3, TouchStep

\* brk() starts to grow, shrinks, or panics.
LEMMA SysBrkStep ==
  ASSUME Inv, NEW n \in Int, SysBrk(n)
  PROVE  Inv' /\ StrayStep
<1> DEFINE to == sz + n
<1>a. /\ panic = "no" /\ pc = "user" /\ to <= (MaxPage + 1) * PGSIZE
      /\ UNCHANGED <<kstack, img, prog, ino>>
  BY DEF SysBrk, Running
<1>b. Shape /\ Whole /\ Control /\ Layout
  BY <1>a DEF Inv
<1>c. /\ Kept(as, sz) /\ Capped(as, sz) /\ sz > 0 /\ ttbr = as.pgdir /\ as \in AddressSpace
  BY <1>a, <1>b DEF Layout, Shape
<1>d. PGSIZE \in Nat \ {0} /\ MaxPage \in Nat /\ sz \in Nat /\ to \in Int
  BY <1>a, <1>b, MemAssumption DEF Shape
<1>0. /\ panic = "no" /\ pc = "user" /\ to <= (MaxPage + 1) * PGSIZE
      /\ UNCHANGED <<kstack, img, prog, ino>> /\ Shape /\ Whole /\ Control /\ Layout
      /\ PGSIZE \in Nat \ {0} /\ MaxPage \in Nat /\ sz \in Nat /\ to \in Int /\ as \in AddressSpace
      /\ Kept(as, sz) /\ Capped(as, sz) /\ sz > 0 /\ ttbr = as.pgdir
  BY <1>a, <1>b, <1>c, <1>d
<1>1. CASE n > 0
  <2> DEFINE B == From(as, sz, to)
             g == Call(sz, to)
  <2>1. /\ as' = B /\ grow' = g /\ pc' = "brk" /\ UNCHANGED <<free, lost, wild, panic, sz, ttbr>>
    <3>1. ~(n <= 0)
      BY <1>1
    <3>2. uvm_alloc(sz, sz + n) /\ as' = From(as, sz, sz + n) /\ pc' = "brk" /\ UNCHANGED <<mem, sz, ttbr>>
      BY <3>1, Zenon DEF SysBrk
    <3> QED
      BY <3>2 DEF uvm_alloc, mem, Call
  <2>9. to \in Nat
    BY <1>0, <1>1
  <2> HIDE DEF to
  <2>2. /\ B \in AddressSpace /\ Kept(B, sz) /\ g \in GrowRec /\ Extended(B, sz, g)
        /\ B.map = as.map /\ B.tab = as.tab /\ B.pgdir = as.pgdir /\ g.old = sz /\ g.new = to
    <3>1. Started(as, sz, sz, to)
      BY <1>0, <2>9, StartLayout
    <3> QED
      BY <3>1 DEF Started
  <2>3. g.new > g.old /\ g.old = sz
    BY <1>0, <1>1, <2>2 DEF to
  <2> HIDE DEF B, g
  <2>4. All(B) = All(as) /\ Clean(B)
    BY <1>0, <2>2, SameSpace DEF Whole, Spread
  <2>5. Shape'
    <3>1. ino' = InoAt("brk")
      BY <1>0, InoIs DEF Shape
    <3> QED
      BY <1>0, <2>1, <2>2, <3>1 DEF Shape, Growing
  <2>6. Whole'
    BY <1>0, <2>1, <2>4 DEF Whole, Spread
  <2>7. Control'
    BY <1>0, <2>1, <2>3 DEF Control
  <2>8. Layout'
    BY <1>0, <2>1, <2>2, <2>3 DEF Layout, GrowOK, GuardBelowStack
  <2> QED
    BY <1>0, <2>1, <2>5, <2>6, <2>7, <2>8 DEF Inv, StrayStep
<1>2. CASE n <= 0
  <2> DEFINE d == uvm_dealloc(Using(as), sz, to)
  <2>1. /\ free' = d.x.free /\ lost' = d.x.lost /\ wild' = d.x.wild /\ panic' = d.x.panic
        /\ sz' = IF d.r = 0 THEN sz ELSE d.r
        /\ ttbr' = IF d.r = 0 THEN ttbr ELSE as.pgdir
        /\ UNCHANGED <<as, pc, grow>>
    <3>1. ~(n > 0)
      BY <1>2
    <3>2. /\ \E g \in {uvm_dealloc(Using(as), sz, sz + n)} :
               /\ SetMem(g.x)
               /\ sz' = IF g.r = 0 THEN sz ELSE g.r
               /\ ttbr' = IF g.r = 0 THEN ttbr ELSE as.pgdir
          /\ UNCHANGED <<as, pc, grow>>
      BY <3>1, Zenon DEF SysBrk
    <3>3. SetMem(d.x) /\ sz' = (IF d.r = 0 THEN sz ELSE d.r) /\ ttbr' = (IF d.r = 0 THEN ttbr ELSE as.pgdir)
      BY <3>2, Zenon
    <3> QED
      BY <3>2, <3>3 DEF SetMem
  <2>2. /\ Using(as) \in MemState /\ Using(as).as = as /\ Using(as).free = free
        /\ Using(as).lost = lost /\ Using(as).wild = wild /\ Using(as).panic = panic
    BY <1>0, UsingIs
  <2>3. /\ d.r \in {sz, to} /\ d.r \in Nat /\ d.x.free = free /\ d.x.lost = lost /\ d.x.wild = wild
        /\ d.x.panic \in Reason
        /\ \/ d.x.panic \in {"kfree", "uvm_unmap: not aligned"}
           \/ d.x.panic \in {"uvm_unmap: pgdir_walk", "uvm_unmap: not mapped"} /\ as.ragged
           \/ d.x.panic = "no" /\ Kept(as, d.r) /\ Capped(as, d.r)
    <3>1. CASE n = 0 \/ to < 0
      <4>1. d = [x |-> Using(as), r |-> sz]
        BY <1>0, <3>1 DEF uvm_dealloc
      <4> HIDE DEF d, to
      <4>2. d.x = Using(as) /\ d.r = sz
        BY <4>1
      <4> QED
        BY <1>0, <2>2, <4>2 DEF Reason
    <3>2. CASE n < 0 /\ ~(to < 0)
      <4>1. to < sz /\ to \in Nat
        BY <1>0, <3>2
      <4> HIDE DEF to
      <4>2. /\ d.r = to /\ d.x \in MemState
            /\ d.x.free = free /\ d.x.lost = lost /\ d.x.wild = wild
            /\ \/ d.x.panic \in {"kfree", "uvm_unmap: not aligned"}
               \/ d.x.panic \in {"uvm_unmap: pgdir_walk", "uvm_unmap: not mapped"} /\ as.ragged
               \/ d.x.panic = "no" /\ Kept(as, to) /\ Capped(as, to)
        <5>1. Shrunk(Using(as), d.x, to) /\ d.r = to
          BY <1>0, <2>2, <4>1, ShrinkIs
        <5> HIDE DEF d
        <5> QED
          BY <2>2, <5>1 DEF Shrunk
      <4> HIDE DEF d
      <4>3. d.x.panic \in Reason
        BY <4>2 DEF MemState
      <4> QED
        BY <4>1, <4>2, <4>3
    <3>3. n = 0 \/ n < 0
      BY <1>2
    <3> QED
      BY <3>1, <3>2, <3>3, Zenon
  <2> HIDE DEF d
  <2>4. sz' \in 0..((MaxPage + 1) * PGSIZE) /\ sz' > 0 /\ ttbr' = ttbr
    <3>1. sz' = sz \/ (sz' = to /\ to # 0 /\ to \in Nat)
      BY <2>1, <2>3
    <3> QED
      BY <1>0, <2>1, <3>1 DEF Shape
  <2>5. Shape'
    BY <1>0, <2>1, <2>3, <2>4 DEF Shape
  <2>6. Whole'
    BY <1>0, <2>1, <2>3 DEF Whole, Spread
  <2>7. Control'
    BY <1>0, <2>1 DEF Control
  <2>8. ASSUME panic' = "no" PROVE Layout'
    <3>1. Kept(as, sz') /\ Capped(as, sz')
      BY <1>0, <2>1, <2>3, <2>8
    <3> QED
      BY <1>0, <2>1, <2>4, <3>1 DEF Layout, GuardBelowStack
  <2>9. StrayStep
    BY <1>0, <2>1, <2>3 DEF StrayStep
  <2> QED
    BY <2>5, <2>6, <2>7, <2>8, <2>9 DEF Inv
<1> QED
  BY <1>0, <1>1, <1>2

\* What grows, and how far it has come.
Room == IF pc = "brk" THEN sz ELSE img.sz
Start == IF pc = "stack" THEN RoundUp(img.sz) ELSE Room
Others == {kstack} \cup All(IF pc = "brk" THEN img.as ELSE as)

\* What the invariant says of the address space that grows.
LEMMA GrowingIs ==
  ASSUME Inv, panic = "no", pc \in Growing
  PROVE  /\ Space \in AddressSpace /\ Space.pgdir # 0 /\ Room \in Nat /\ grow \in GrowRec
         /\ Kept(Space, Room) /\ GrowOK(Space, Room, Start, grow) /\ Start \in {Room, RoundUp(Room)}
         /\ Exact(Using(Space), Others) /\ Using(Space) \in MemState
         /\ Using(Space).as = Space /\ Using(Space).free = free
         /\ Using(Space).lost = lost /\ Using(Space).wild = wild /\ Using(Space).panic = panic
         /\ pc # "brk" => AllUser(Space)
<1>1. Shape /\ Whole /\ Control /\ Layout
  BY DEF Inv
<1>2. Space \in AddressSpace /\ Room \in Nat /\ grow \in GrowRec
  <2>1. img.sz \in Nat /\ as \in AddressSpace /\ img.as \in AddressSpace
    BY <1>1 DEF Shape
  <2>2. sz \in Nat
    BY <1>1, MemAssumption DEF Shape
  <2> QED
    BY <1>1, <2>1, <2>2 DEF Shape, Space, Room
<1>3. Space.pgdir # 0
  <2>1. as.pgdir # 0
    BY <1>1, MemAssumption DEF Shape
  <2> QED
    BY <1>1, <2>1 DEF Space, Control, Growing
<1>4. Kept(Space, Room) /\ Start \in {Room, RoundUp(Room)} /\ (pc # "brk" => AllUser(Space))
  <2>1. CASE pc = "brk"
    BY <1>1, <2>1 DEF Layout, Space, Room, Start
  <2>2. CASE pc \in {"load", "stack"}
    BY <1>1, <2>2 DEF Layout, Space, Room, Start
  <2> QED
    BY <2>1, <2>2 DEF Growing
<1>5. GrowOK(Space, Room, Start, grow)
  <2>1. CASE pc = "brk"
    BY <1>1, <2>1 DEF Layout, Space, Room, Start
  <2>2. CASE pc = "load"
    BY <1>1, <2>2 DEF Layout, Space, Room, Start
  <2>3. CASE pc = "stack"
    BY <1>1, <2>3 DEF Layout, Space, Room, Start
  <2> QED
    BY <2>1, <2>2, <2>3 DEF Growing
<1>6. /\ Using(Space) \in MemState /\ Using(Space).as = Space /\ Using(Space).free = free
      /\ Using(Space).lost = lost /\ Using(Space).wild = wild /\ Using(Space).panic = panic
  BY <1>1, <1>2, UsingIs
<1>7. Exact(Using(Space), Others)
  <2>1. CASE pc = "brk"
    BY <1>1, <1>6, <2>1, SpreadExact DEF Whole, Others, Space
  <2>2. CASE pc # "brk"
    <3>1. Spread(free, lost, kstack, img.as, as)
      BY <1>1, SpreadSwap DEF Whole
    <3> QED
      BY <1>6, <2>2, <3>1, SpreadExact DEF Others, Space
  <2> QED
    BY <2>1, <2>2
<1> QED
  BY <1>2, <1>3, <1>4, <1>5, <1>6, <1>7

\* What a step leaves of the address space that grows.
Grew(B, F, L) ==
    /\ B \in AddressSpace /\ B.pgdir = Space.pgdir
    /\ Kept(B, Room) /\ (AllUser(Space) => AllUser(B))
    /\ \A X : X.free = F /\ X.lost = L /\ X.as = B => Exact(X, Others)
    /\ F \subseteq Page /\ L \subseteq Page
    /\ L \ lost \subseteq PageAt(Space, Room)

\* What a round does to the address space that grows and to the free list.
LEMMA GrowPageIs ==
  ASSUME Inv, GrowPage
  PROVE  /\ panic = "no" /\ pc \in Growing /\ grow # NoGrow
         /\ UNCHANGED <<wild, sz, ttbr, kstack, pc, prog, ino>>
         /\ \E B : SetSpace(B) /\ Grew(B, free', lost') /\ (panic' = "no" => GrowOK(B, Room, Start, grow'))
         /\ panic' \in {"no", "kfree", "uvm_unmap: not aligned"}
         /\ grow' \in GrowRec
         /\ grow' = NoGrow \/ (grow'.new = grow.new /\ grow'.old = grow.old)
<1> DEFINE v == grow.va \div PGSIZE
           w == Round(Kalloc(Using(Space)), v)
           h == [grow EXCEPT !.va = @ + PGSIZE]
           Y == uvm_dealloc(w.x, grow.va, grow.old).x
<1>1. /\ panic = "no" /\ pc \in Growing /\ grow.va < grow.new
      /\ UNCHANGED <<sz, ttbr, kstack, pc, prog, ino>>
  BY DEF GrowPage
<1>2. /\ SetSpace(w.x.as)
      /\ \/ w.ok /\ SetMem(w.x) /\ grow' = h
         \/ ~w.ok /\ SetMem(Y) /\ grow' = NoGrow
  BY DEF GrowPage
<1>3. /\ Space \in AddressSpace /\ Space.pgdir # 0 /\ Room \in Nat /\ grow \in GrowRec
      /\ Kept(Space, Room) /\ GrowOK(Space, Room, Start, grow) /\ Start \in {Room, RoundUp(Room)}
      /\ Exact(Using(Space), Others) /\ Using(Space) \in MemState
      /\ Using(Space).as = Space /\ Using(Space).free = free
      /\ Using(Space).lost = lost /\ Using(Space).wild = wild /\ Using(Space).panic = panic
      /\ pc # "brk" => AllUser(Space)
  BY <1>1, GrowingIs
<1>4. grow # NoGrow
  BY <1>1, NoGrowIs
<1>5. Extended(Space, Room, grow) /\ grow.old = Start
  BY <1>3, <1>4 DEF GrowOK
<1>6. v \in Vpn
  <2>1. grow.va \in Nat /\ grow.new \in Nat /\ MaxPage \in Nat /\ PGSIZE \in Nat
    BY <1>3, MemAssumption DEF GrowRec
  <2>2. grow.va < (MaxPage + 1) * PGSIZE
    BY <1>1, <1>5, <2>1 DEF Extended
  <2> QED
    BY <2>1, <2>2, PageBelow DEF Vpn
<1>7. Rounded(Using(Space), w, Others, v)
  BY <1>3, <1>6, RoundIs
<1> HIDE DEF w
<1>8. /\ Kept(w.x.as, Room) /\ (AllUser(Space) => AllUser(w.x.as))
      /\ w.ok => Extended(w.x.as, Room, h)
      /\ ~w.ok => Extended(w.x.as, Room, grow)
      /\ ~w.ok /\ grow.va = grow.old => Capped(w.x.as, Room)
      /\ w.x.lost \ lost \subseteq PageAt(Space, Room)
  BY <1>1, <1>3, <1>5, <1>7, RoundLayout
<1>9. h \in GrowRec /\ h.new = grow.new /\ h.old = grow.old
  BY <1>3, MemAssumption DEF GrowRec
<1> HIDE DEF h
<1>10. /\ w.x \in MemState /\ w.x.as \in AddressSpace /\ Exact(w.x, Others)
       /\ w.x.as.pgdir = Space.pgdir /\ w.x.wild = wild /\ w.x.panic = panic
       /\ w.x.free \subseteq Page /\ w.x.lost \subseteq Page
  BY <1>3, <1>7 DEF Rounded, WalkState, MemState
<1>11. Grew(w.x.as, w.x.free, w.x.lost)
  <2>1. \A X : X.free = w.x.free /\ X.lost = w.x.lost /\ X.as = w.x.as => Exact(X, Others)
    BY <1>10 DEF Exact
  <2> QED
    BY <1>8, <1>10, <2>1 DEF Grew
<1>12. CASE w.ok
  <2>1. free' = w.x.free /\ lost' = w.x.lost /\ wild' = w.x.wild /\ panic' = w.x.panic /\ grow' = h
    BY <1>2, <1>12 DEF SetMem
  <2>2. GrowOK(w.x.as, Room, Start, grow')
    BY <1>5, <1>8, <1>9, <1>12, <2>1 DEF GrowOK
  <2> QED
    BY <1>1, <1>2, <1>4, <1>9, <1>10, <1>11, <2>1, <2>2
<1>13. CASE ~w.ok
  <2>1. free' = Y.free /\ lost' = Y.lost /\ wild' = Y.wild /\ panic' = Y.panic /\ grow' = NoGrow
    BY <1>2, <1>13 DEF SetMem
  <2>2. /\ Y.free = w.x.free /\ Y.lost = w.x.lost /\ Y.wild = w.x.wild
        /\ Y.panic \in {"no", "kfree", "uvm_unmap: not aligned"}
        /\ Y.panic = "no" => grow.va = grow.old
    BY <1>1, <1>3, <1>8, <1>10, <1>13, UndoIs
  <2> HIDE DEF Y
  <2>3. panic' = "no" => GrowOK(w.x.as, Room, Start, grow')
    BY <1>8, <1>13, <2>1, <2>2 DEF GrowOK
  <2> QED
    BY <1>1, <1>2, <1>4, <1>10, <1>11, <2>1, <2>2, <2>3, NoGrowIs
<1> QED
  BY <1>12, <1>13

\* A round of uvm_alloc().
LEMMA GrowPageStep == ASSUME Inv, GrowPage PROVE Inv' /\ StrayStep
<1>1. /\ panic = "no" /\ pc \in Growing /\ grow # NoGrow
      /\ UNCHANGED <<wild, sz, ttbr, kstack, pc, prog, ino>>
      /\ panic' \in {"no", "kfree", "uvm_unmap: not aligned"}
      /\ grow' \in GrowRec
      /\ grow' = NoGrow \/ (grow'.new = grow.new /\ grow'.old = grow.old)
  BY GrowPageIs
<1>2. PICK B : SetSpace(B) /\ Grew(B, free', lost') /\ (panic' = "no" => GrowOK(B, Room, Start, grow'))
  BY GrowPageIs
<1>3. Shape /\ Whole /\ Control /\ Layout /\ panic' \in Reason
  BY <1>1 DEF Inv, Reason
<1>4. /\ B \in AddressSpace /\ B.pgdir = Space.pgdir /\ Kept(B, Room)
      /\ AllUser(Space) => AllUser(B)
      /\ free' \subseteq Page /\ lost' \subseteq Page /\ lost' \ lost \subseteq PageAt(Space, Room)
  BY <1>2 DEF Grew
<1> DEFINE X == [free |-> free', lost |-> lost', as |-> B]
<1>5. Exact(X, Others) /\ X.free = free' /\ X.lost = lost' /\ X.as = B
  BY <1>2 DEF Grew
<1> HIDE DEF X
<1>6. Control'
  <2>1. pc = "brk" => img' = img
    BY <1>2 DEF SetSpace
  <2>2. pc # "brk" => img' = [img EXCEPT !.as = B]
    BY <1>2 DEF SetSpace
  <2>3. pc # "brk" => img'.as = B /\ img'.sz = img.sz /\ B.pgdir # 0
    BY <1>1, <1>3, <1>4, <2>2 DEF Shape, Space, Control, Growing
  <2>4. pc \in {"load", "stack"} => img'.sz = img.sz /\ img'.as.pgdir # 0
    BY <2>3
  <2> QED
    BY <1>1, <1>3, <2>1, <2>4 DEF Control, Growing
<1>7. CASE pc = "brk"
  <2>1. as' = B /\ UNCHANGED img /\ Space = as /\ Room = sz /\ Start = sz
    BY <1>2, <1>7 DEF SetSpace, Space, Room, Start
  <2>2. Spread(free', lost', kstack, B, img.as)
    <3>1. Clean(img.as) /\ kstack \in Page /\ kstack \notin All(img.as)
      BY <1>3 DEF Whole, Spread
    <3>2. Exact(X, {kstack} \cup All(img.as))
      BY <1>5, <1>7 DEF Others
    <3> QED
      BY <1>5, <3>1, <3>2, ExactSpread
  <2>3. ttbr = B.pgdir /\ ttbr \in Page \ free'
    <3>1. ttbr = B.pgdir /\ ttbr \in Page /\ 0 \notin Page
      BY <1>3, <1>4, <1>7, <2>1, MemAssumption DEF Shape
    <3>2. B.pgdir \in All(B)
      BY <3>1 DEF All
    <3> QED
      BY <2>2, <3>1, <3>2 DEF Spread
  <2>4. Shape'
    BY <1>1, <1>3, <1>4, <2>1, <2>3 DEF Shape
  <2>5. Whole'
    BY <1>1, <2>1, <2>2 DEF Whole
  <2>6. ASSUME panic' = "no" PROVE Layout'
    BY <1>1, <1>2, <1>3, <1>4, <1>7, <2>1, <2>6 DEF Layout, GuardBelowStack
  <2>7. StrayStep
    BY <1>1, <1>4, <1>7, <2>1 DEF StrayStep
  <2> QED
    BY <1>6, <2>4, <2>5, <2>6, <2>7 DEF Inv
<1>8. CASE pc # "brk"
  <2>1. img' = [img EXCEPT !.as = B] /\ UNCHANGED as /\ Space = img.as /\ Room = img.sz
    BY <1>2, <1>8 DEF SetSpace, Space, Room
  <2>2. img'.as = B /\ img'.sz = img.sz /\ img' \in [as : AddressSpace, sz : Nat]
    BY <1>3, <1>4, <2>1 DEF Shape
  <2>3. Spread(free', lost', kstack, as, B)
    <3>1. Clean(as) /\ kstack \in Page /\ kstack \notin All(as)
      BY <1>3 DEF Whole, Spread
    <3>2. Exact(X, {kstack} \cup All(as))
      BY <1>5, <1>8 DEF Others
    <3> QED
      BY <1>5, <3>1, <3>2, ExactSpread, SpreadSwap
  <2>4. ttbr \notin free'
    <3>1. ttbr = as.pgdir /\ ttbr \in Page /\ 0 \notin Page
      BY <1>1, <1>3, MemAssumption DEF Shape, Growing
    <3>2. as.pgdir \in All(as)
      BY <3>1 DEF All
    <3> QED
      BY <2>3, <3>1, <3>2 DEF Spread
  <2>5. Shape'
    <3>1. ttbr = as.pgdir /\ pc # "switch"
      BY <1>1, <1>3 DEF Shape, Growing
    <3> QED
      BY <1>1, <1>3, <1>4, <2>1, <2>2, <2>4, <3>1 DEF Shape
  <2>6. Whole'
    BY <1>1, <2>1, <2>2, <2>3 DEF Whole
  <2>7. ASSUME panic' = "no" PROVE Layout'
    <3>1. Kept(img'.as, img'.sz) /\ AllUser(img'.as) /\ Kept(as', sz') /\ Capped(as', sz') /\ sz' > 0
      BY <1>1, <1>3, <1>4, <1>8, <2>1, <2>2 DEF Layout, Growing
    <3>2. CASE pc = "load"
      BY <1>1, <1>2, <2>1, <2>2, <2>7, <3>1, <3>2 DEF Layout, GuardBelowStack, Start
    <3>3. CASE pc = "stack"
      BY <1>1, <1>2, <2>1, <2>2, <2>7, <3>1, <3>3 DEF Layout, GuardBelowStack, Start
    <3> QED
      BY <1>1, <1>8, <3>2, <3>3 DEF Growing
  <2>8. StrayStep
    BY <1>1, <1>4, <1>8, <2>1 DEF StrayStep, Growing
  <2> QED
    BY <1>6, <2>5, <2>6, <2>7, <2>8 DEF Inv
<1> QED
  BY <1>7, <1>8

\* brk() has grown, or failed with the old size.
LEMMA BrkDoneStep == ASSUME Inv, BrkDone PROVE Inv' /\ StrayStep
<1>1. /\ panic = "no" /\ pc = "brk" /\ grow.va >= grow.new
      /\ sz' = (IF Grown = 0 THEN sz ELSE Grown) /\ ttbr' = (IF Grown = 0 THEN ttbr ELSE as.pgdir)
      /\ pc' = "user" /\ grow' = NoGrow
      /\ UNCHANGED <<free, lost, wild, panic, as, kstack, img, prog, ino>>
  BY DEF BrkDone, Done, Running, mem
<1>2. Shape /\ Whole /\ Control /\ Layout
  BY <1>1 DEF Inv
<1>3. /\ sz > 0 /\ Kept(as, sz) /\ GrowOK(as, sz, sz, grow) /\ Grown = Size(grow)
      /\ grow \in GrowRec /\ as \in AddressSpace
      /\ grow = NoGrow \/ grow.new > grow.old
  BY <1>1, <1>2 DEF Layout, Shape, Grown, Size, Control
<1>4. sz \in Nat /\ sz \in 0..((MaxPage + 1) * PGSIZE)
  BY <1>2, MemAssumption DEF Shape
<1>5. sz' \in 0..((MaxPage + 1) * PGSIZE) /\ sz' > 0 /\ Kept(as, sz') /\ Capped(as, sz')
  <2>1. CASE grow = NoGrow
    <3>1. Grown = 0
      BY <1>3, <2>1, NoGrowIs DEF Size
    <3>2. Capped(as, sz)
      <4>1. grow.old # sz
        BY <1>3, <1>4, <2>1, NoGrowIs
      <4> QED
        BY <1>3, <4>1 DEF GrowOK
    <3> QED
      BY <1>1, <1>3, <1>4, <3>1, <3>2
  <2>2. CASE grow # NoGrow
    <3>1. Extended(as, sz, grow) /\ grow.old = sz /\ grow.new > grow.old
      BY <1>3, <2>2 DEF GrowOK
    <3>2. grow.new \in Nat /\ grow.old \in Nat
      BY <1>3 DEF GrowRec
    <3>3. Grown = grow.new /\ Grown # 0
      BY <1>3, <1>4, <3>1, <3>2 DEF Size
    <3>4. Kept(as, Grown) /\ Capped(as, Grown)
      BY <1>1, <1>3, <1>4, <3>1, EndLayout
    <3>5. grow.new <= (MaxPage + 1) * PGSIZE
      BY <3>1 DEF Extended
    <3> QED
      <4>1. sz' = Grown
        BY <1>1, <3>3
      <4>2. Grown \in 0..((MaxPage + 1) * PGSIZE) /\ Grown > 0
        BY <3>2, <3>3, <3>5, MemAssumption
      <4> QED
        BY <3>4, <4>1, <4>2
  <2> QED
    BY <2>1, <2>2
<1>6. ttbr' = ttbr
  BY <1>1, <1>2 DEF Shape
<1>7. Shape'
  <2>1. ino' = InoAt("user")
    BY <1>1, <1>2, InoIs DEF Shape
  <2> QED
    BY <1>1, <1>2, <1>5, <1>6, <2>1, NoGrowIs DEF Shape
<1>8. Whole' /\ Control'
  BY <1>1, <1>2 DEF Whole, Control
<1>9. Layout'
  BY <1>1, <1>2, <1>5 DEF Layout, GuardBelowStack
<1>10. StrayStep
  BY <1>1 DEF StrayStep
<1> QED
  BY <1>7, <1>8, <1>9, <1>10 DEF Inv

\* fork() fails with everything given back, or stops the kernel.
LEMMA SysForkStep == ASSUME Inv, SysFork PROVE Inv' /\ StrayStep
<1> DEFINE k == Kalloc(Using(as))
           m == Kalloc(k.x)
<1>1. /\ panic = "no" /\ pc = "user" /\ UNCHANGED <<as, sz, ttbr, kstack, img, pc, prog, ino, grow>>
      /\ IF k.pg = 0 THEN UNCHANGED mem
         ELSE IF ~Present(as, 0) THEN SetMem(Panic(k.x, "uvm_copy"))
         ELSE IF m.pg = 0 THEN SetMem(Kfree(k.x, k.pg))
         ELSE SetMem(Panic(m.x, "fault: uvm_copy"))
  BY DEF SysFork, Running
<1>2. Shape /\ Whole /\ Control /\ Layout /\ as \in AddressSpace /\ Present(as, 0)
      /\ free \subseteq Page /\ ttbr \notin free
  BY <1>1 DEF Inv, Layout, Kept, Shape
<1>3. /\ Using(as) \in MemState /\ Using(as).free = free
      /\ Using(as).lost = lost /\ Using(as).wild = wild /\ Using(as).panic = panic
  BY <1>2, UsingIs
<1>4. ASSUME UNCHANGED <<free, lost, wild, panic>> PROVE Inv' /\ StrayStep
  BY <1>1, <1>2, <1>4 DEF Inv, Shape, Whole, Control, Layout, GuardBelowStack, StrayStep
<1>5. CASE free = {}
  <2>1. k.pg = 0
    BY <1>3, <1>5, KallocIs
  <2> QED
    BY <1>1, <1>4, <2>1 DEF mem
<1>6. CASE free # {}
  <2>1. k.pg \in free /\ k.x = [Using(as) EXCEPT !.free = @ \ {k.pg}] /\ k.x \in MemState
    BY <1>3, <1>6, KallocIs
  <2>2. /\ k.x.free = free \ {k.pg} /\ k.x.lost = lost /\ k.x.wild = wild /\ k.x.panic = panic
        /\ k.pg # 0
    BY <1>2, <1>3, <2>1, MemAssumption DEF MemState
  <2>3. IF m.pg = 0 THEN SetMem(Kfree(k.x, k.pg)) ELSE SetMem(Panic(m.x, "fault: uvm_copy"))
    BY <1>1, <1>2, <2>2
  <2> HIDE DEF k
  <2>4. CASE k.x.free = {}
    <3>1. m.pg = 0
      BY <2>1, <2>4, KallocIs
    <3>2. /\ free' = k.x.free \cup {k.pg} /\ lost' = k.x.lost /\ wild' = k.x.wild
          /\ panic' = k.x.panic
      BY <2>1, <2>3, <3>1 DEF SetMem, Kfree, MemState
    <3>3. free' = free
      BY <2>1, <2>2, <3>2
    <3> QED
      BY <1>4, <2>2, <3>2, <3>3
  <2>5. CASE k.x.free # {}
    <3>1. m.pg \in k.x.free /\ m.x = [k.x EXCEPT !.free = @ \ {m.pg}] /\ m.x \in MemState
      BY <2>1, <2>5, KallocIs
    <3>2. /\ m.x.free = free \ {k.pg, m.pg} /\ m.x.lost = lost /\ m.x.wild = wild /\ m.x.panic = panic
          /\ m.pg # 0 /\ m.pg \in free \ {k.pg}
      BY <1>2, <2>1, <2>2, <3>1, MemAssumption DEF MemState
    <3>3. SetMem(Panic(m.x, "fault: uvm_copy"))
      BY <2>3, <3>2
    <3> HIDE DEF m
    <3>4. free' = free \ {k.pg, m.pg} /\ lost' = lost /\ wild' = wild /\ panic' = "fault: uvm_copy"
      BY <1>1, <3>1, <3>2, <3>3 DEF SetMem, Panic, Ok, MemState
    <3>6. Shape'
      BY <1>1, <1>2, <3>4 DEF Shape, Reason
    <3> QED
      BY <1>1, <3>4, <3>6 DEF Inv, StrayStep
  <2> QED
    BY <2>4, <2>5
<1> QED
  BY <1>5, <1>6

-----------------------------------------------------------------------------
(* execve() *)

\* What execve() has of the memory while it builds the image.
LEMMA ImageIs ==
  ASSUME Shape, Whole
  PROVE  /\ Using(img.as) \in MemState /\ Using(img.as).as = img.as /\ Using(img.as).free = free
         /\ Using(img.as).lost = lost /\ Using(img.as).wild = wild /\ Using(img.as).panic = panic
         /\ Exact(Using(img.as), {kstack} \cup All(as))
<1>1. img.as \in AddressSpace
  BY DEF Shape
<1>2. Spread(free, lost, kstack, img.as, as)
  BY SpreadSwap DEF Whole
<1> QED
  BY <1>1, <1>2, UsingIs, SpreadExact

\* bad: the image is given back, and the old one was never touched.
LEMMA BadWith ==
  ASSUME Inv, panic = "no", pc \notin {"brk", "switch"}, NEW X \in MemState, Bad(X), X.as = img.as,
         X.free = free, X.lost = lost, X.panic = "no", X.wild # wild => img.as.ragged
  PROVE  Inv' /\ StrayStep
<1> DEFINE Y == IF X.as.pgdir = 0 THEN X ELSE vm_free(X)
<1>1. /\ free' = Y.free /\ lost' = Y.lost /\ wild' = Y.wild /\ panic' = Y.panic
      /\ img' = NoImg /\ prog' = NoProg /\ pc' = "user" /\ ino' = InoAt("user") /\ grow' = NoGrow
      /\ UNCHANGED <<as, sz, ttbr, kstack>>
  <2>1. ino = InoAt(pc)
    BY DEF Inv, Shape
  <2>2. (ino.ip /\ ino.locked) \/ (~ino.ip /\ ino = NoIno)
    BY <2>1, InoIs DEF InoAt
  <2>3. PICK Z \in {Y} : SetMem(IF ino.ip THEN iunlockput(Z) ELSE Z)
    BY DEF Bad
  <2> HIDE DEF Y
  <2>4. SetMem(Y)
    BY <2>2, <2>3 DEF iunlockput
  <2>5. ino' = InoAt("user")
    BY <2>2, InoIs DEF Bad
  <2> QED
    BY <2>4, <2>5 DEF Bad, SetMem
<1>2. Shape /\ Whole /\ Control /\ Layout
  BY DEF Inv
<1>3. X.wild \in BOOLEAN
  BY DEF MemState
<1>4. Exact(X, {kstack} \cup All(as)) /\ Clean(as) /\ kstack \in Page /\ kstack \notin All(as)
  <2>1. Spread(free, lost, kstack, img.as, as)
    BY <1>2, SpreadSwap DEF Whole
  <2> QED
    BY <2>1, SpreadExact
<1>5. /\ Exact(Y, {kstack} \cup All(as)) /\ All(Y.as) = {} /\ Clean(Y.as) /\ Y \in MemState
      /\ Y.lost = lost /\ Y.wild = X.wild /\ Y.panic = "no"
  <2>1. CASE X.as.pgdir = 0
    <3>1. Clean(X.as)
      BY <1>4 DEF Exact
    <3>2. Tables(X.as) = {} /\ Pages(X.as) = {}
      BY <2>1, <3>1 DEF Clean, Tables, Pages
    <3> QED
      BY <1>3, <1>4, <2>1, <3>1, <3>2 DEF All
  <2>2. CASE X.as.pgdir # 0
    BY <1>3, <1>4, <2>2, FreedIs, NoAsIs
  <2> QED
    BY <2>1, <2>2
<1> HIDE DEF Y
<1>6. Spread(free', lost', kstack, as, NoAs)
  <2>1. Spread(Y.free, Y.lost, kstack, as, Y.as)
    BY <1>4, <1>5, ExactSpread, SpreadSwap
  <2> QED
    BY <1>1, <1>5, <2>1, NoAsIs DEF Spread
<1>7. free' \subseteq Page /\ lost' \subseteq Page /\ ttbr \notin free'
  <2>1. free' \subseteq Page /\ lost' \subseteq Page
    BY <1>1, <1>5 DEF MemState
  <2>2. ttbr = as.pgdir /\ ttbr \in Page /\ 0 \notin Page
    BY <1>2, MemAssumption DEF Shape
  <2>3. as.pgdir \in All(as)
    BY <2>2 DEF All
  <2> QED
    BY <1>6, <2>1, <2>2, <2>3 DEF Spread
<1>8. Shape'
  <2>1. NoProg \in [elf : BOOLEAN, segs : Seq(Header)]
    BY DEF NoProg
  <2> QED
    BY <1>1, <1>2, <1>3, <1>5, <1>7, <2>1, NoImgIs, NoGrowIs DEF Shape, Reason
<1>9. Whole' /\ Control'
  BY <1>1, <1>6, NoImgIs DEF Whole, Control
<1>10. Layout'
  <2>1. Kept(NoImg.as, NoImg.sz)
    BY NoImgIs, NoAsIs, KeptEmpty
  <2>2. sz > 0 /\ Kept(as, sz) /\ Capped(as, sz)
    BY <1>2 DEF Layout
  <2> QED
    BY <1>1, <2>1, <2>2 DEF Layout, GuardBelowStack
<1> QED
  BY <1>1, <1>5, <1>8, <1>9, <1>10 DEF Inv, StrayStep

\* The same when nothing was loaded.
LEMMA BadStep ==
  ASSUME Inv, panic = "no", pc \notin {"brk", "switch"}, Bad(Using(img.as))
  PROVE  Inv' /\ StrayStep
<1>1. Shape /\ Whole
  BY DEF Inv
<1> QED
  BY <1>1, ImageIs, BadWith

\* A new state of the image, with every page in its place.
LEMMA BuildingStep ==
  ASSUME Inv, panic = "no", pc \notin {"brk", "switch"}, NEW X \in MemState, NEW at \in {"segment", "args"},
         NEW size \in Nat, Building(at, X, size), Exact(X, {kstack} \cup All(as)),
         prog' \in [elf : BOOLEAN, segs : Seq(Header)], ino' = InoAt(at)
  PROVE  /\ Shape' /\ Whole' /\ pc' = at /\ img'.as = X.as /\ img'.sz = size
         /\ sz' > 0 /\ Kept(as', sz') /\ Capped(as', sz')
         /\ lost' = X.lost /\ wild' = X.wild /\ panic' = X.panic
<1>1. /\ free' = X.free /\ lost' = X.lost /\ wild' = X.wild /\ panic' = X.panic
      /\ img' = [as |-> X.as, sz |-> size] /\ pc' = at /\ grow' = NoGrow
      /\ UNCHANGED <<as, sz, ttbr, kstack>>
  BY DEF Building, SetMem
<1>2. Shape /\ Whole /\ Layout
  BY DEF Inv
<1>3. /\ X.as \in AddressSpace /\ X.free \subseteq Page /\ X.lost \subseteq Page
      /\ X.wild \in BOOLEAN /\ X.panic \in Reason
  BY DEF MemState
<1>4. img' \in [as : AddressSpace, sz : Nat] /\ img'.as = X.as /\ img'.sz = size
  BY <1>1, <1>3
<1>5. Spread(X.free, X.lost, kstack, as, X.as)
  <2>1. Clean(as) /\ kstack \in Page /\ kstack \notin All(as)
    BY <1>2 DEF Whole, Spread
  <2> QED
    BY <2>1, ExactSpread, SpreadSwap
<1>6. ttbr \notin free'
  <2>1. ttbr = as.pgdir /\ ttbr \in Page /\ 0 \notin Page
    BY <1>2, MemAssumption DEF Shape
  <2>2. as.pgdir \in All(as)
    BY <2>1 DEF All
  <2> QED
    BY <1>1, <1>5, <2>1, <2>2 DEF Spread
<1>7. Shape'
  BY <1>1, <1>2, <1>3, <1>4, <1>6, NoGrowIs DEF Shape
<1>8. Whole'
  BY <1>1, <1>4, <1>5 DEF Whole
<1>9. sz' > 0 /\ Kept(as', sz') /\ Capped(as', sz')
  BY <1>1, <1>2 DEF Layout
<1> QED
  BY <1>1, <1>4, <1>7, <1>8, <1>9

\* execve() opens a program.
LEMMA ExecStep == ASSUME Inv, NEW file \in Program, Exec(file) PROVE Inv' /\ StrayStep
<1>1. /\ panic = "no" /\ pc = "user" /\ pc' = "header" /\ prog' = file
      /\ ino' = InoAt("header")
      /\ UNCHANGED <<free, lost, wild, panic, as, sz, ttbr, kstack, img, grow>>
  BY InoIs DEF Exec, Running, mem, HeldIno
<1>2. Shape /\ Whole /\ Control /\ Layout
  BY <1>1 DEF Inv
<1>3. file \in [elf : BOOLEAN, segs : Seq(Header)] /\ SegsOK(file.segs)
  BY ProgramAssumption DEF SegsOK
<1>4. Shape'
  BY <1>1, <1>2, <1>3 DEF Shape
<1>5. Whole' /\ Control'
  BY <1>1, <1>2, <1>3 DEF Whole, Control
<1>6. Layout'
  BY <1>1, <1>2 DEF Layout, GuardBelowStack
<1> QED
  BY <1>1, <1>4, <1>5, <1>6 DEF Inv, StrayStep

\* execve() makes a root table.
LEMMA ExecHeaderStep == ASSUME Inv, ExecHeader PROVE Inv' /\ StrayStep
<1> DEFINE X == IF prog.elf THEN pgdir_init(X0, Kalloc(X0)) ELSE X0
<1>1. /\ panic = "no" /\ pc = "header"
      /\ IF X.as.pgdir = 0 THEN Bad(X)
         ELSE Building("segment", X, 0) /\ UNCHANGED <<prog, ino>>
  BY DEF ExecHeader, Running
<1>2. /\ Shape /\ Whole /\ Control /\ Layout /\ img = NoImg /\ SegsOK(prog.segs)
      /\ ino = InoAt("header") /\ prog \in [elf : BOOLEAN, segs : Seq(Header)]
  BY <1>1 DEF Inv, Control, Shape
<1>3. /\ X0 \in MemState /\ X0.as = NoAs /\ X0.lost = lost /\ X0.wild = wild /\ X0.panic = panic
      /\ X0 = Using(img.as)
  <2>1. X0 \in MemState /\ X0.as = NoAs
    BY <1>2, NoAsIs DEF X0, MemState, Shape
  <2>2. X0 = [X0 EXCEPT !.as = NoAs]
    BY <2>1 DEF MemState
  <2> QED
    BY <1>2, <2>1, <2>2, NoImgIs DEF Using, X0
<1>4. Exact(X0, {kstack} \cup All(as))
  <2>1. Spread(free, lost, kstack, NoAs, as)
    BY <1>2, SpreadSwap, NoImgIs DEF Whole
  <2>2. X0.free = free /\ X0.lost = lost /\ X0.as = NoAs
    BY DEF X0
  <2> QED
    BY <2>1, <2>2, SpreadExact
<1> DEFINE Y == pgdir_init(X0, Kalloc(X0))
<1>5. /\ Y \in MemState /\ Exact(Y, {kstack} \cup All(as))
      /\ Y.lost = lost /\ Y.wild = wild /\ Y.panic = panic
      /\ Y.as.pgdir = 0 => Y = X0
      /\ \A v \in Vpn : Y.as.map[v].pa = 0
  BY <1>3, <1>4, PgdirMade
<1> HIDE DEF Y
<1>6. CASE X.as.pgdir = 0
  <2>1. X = X0
    BY <1>5, <1>6 DEF Y
  <2>2. Bad(Using(img.as))
    BY <1>1, <1>3, <1>6, <2>1
  <2> QED
    BY <1>1, <2>2, BadStep
<1>7. CASE X.as.pgdir # 0
  <2>1. X = Y
    BY <1>3, <1>7, NoAsIs DEF Y
  <2> HIDE DEF X
  <2>2. Building("segment", Y, 0) /\ prog' = prog /\ ino' = ino
    BY <1>1, <1>7, <2>1
  <2>3. ino' = InoAt("segment")
    BY <1>2, <2>2, InoIs
  <2>4. /\ Shape' /\ Whole' /\ pc' = "segment" /\ img'.as = Y.as /\ img'.sz = 0
        /\ sz' > 0 /\ Kept(as', sz') /\ Capped(as', sz')
        /\ lost' = Y.lost /\ wild' = Y.wild /\ panic' = Y.panic
    BY <1>1, <1>2, <1>5, <2>2, <2>3, BuildingStep
  <2>5. Y.as \in AddressSpace
    BY <1>5 DEF MemState
  <2>6. Kept(Y.as, 0) /\ Capped(Y.as, 0) /\ AllUser(Y.as)
    BY <1>5, <2>5, KeptEmpty
  <2>7. Control'
    <3>1. 0 <= (MaxPage - 1) * PGSIZE
      BY MemAssumption
    <3> QED
      BY <1>2, <1>7, <2>1, <2>2, <2>4, <3>1 DEF Control
  <2>8. Layout'
    BY <2>4, <2>6 DEF Layout, GuardBelowStack
  <2> QED
    BY <1>5, <2>4, <2>7, <2>8 DEF Inv, StrayStep
<1> QED
  BY <1>6, <1>7

\* uvm_alloc() is called for the image.
LEMMA ExtendingStep ==
  ASSUME Inv, panic = "no", pc = "segment", NEW at \in {"load", "stack"}, NEW old \in Nat,
         NEW to \in Nat, Extending(at, X0, old, to), to <= (MaxPage + 1) * PGSIZE,
         prog' \in [elf : BOOLEAN, segs : Seq(Header)], ino' = InoAt(at)
  PROVE  /\ Shape' /\ Whole' /\ pc' = at /\ img'.sz = img.sz /\ grow' = Call(old, to)
         /\ grow'.old = old /\ grow'.new = to /\ img'.as.pgdir # 0
         /\ Kept(img'.as, img.sz) /\ Extended(img'.as, img.sz, grow') /\ AllUser(img'.as)
         /\ sz' > 0 /\ Kept(as', sz') /\ Capped(as', sz') /\ StrayStep
         /\ panic' = panic
<1> DEFINE A == img.as
           B == From(A, old, to)
<1>1. /\ grow' = Call(old, to) /\ img' = [img EXCEPT !.as = B] /\ pc' = at
      /\ UNCHANGED <<free, lost, wild, panic, as, sz, ttbr, kstack>>
  BY DEF Extending, uvm_alloc, Call, SetMem, X0
<1>2. Shape /\ Whole /\ Control /\ Layout /\ A \in AddressSpace /\ img.sz \in Nat
  BY DEF Inv, Shape
<1>3. Kept(A, img.sz) /\ Capped(A, img.sz) /\ AllUser(A) /\ A.pgdir # 0
  BY <1>2 DEF Layout, Control
<1>4. Started(A, img.sz, old, to)
  BY <1>2, <1>3, StartLayout
<1>5. /\ B \in AddressSpace /\ Kept(B, img.sz) /\ Extended(B, img.sz, Call(old, to))
      /\ Call(old, to) \in GrowRec /\ Call(old, to).old = old /\ Call(old, to).new = to
      /\ B.map = A.map /\ B.tab = A.tab /\ B.pgdir = A.pgdir
  BY <1>4 DEF Started
<1> HIDE DEF B
<1>6. img' \in [as : AddressSpace, sz : Nat] /\ img'.as = B /\ img'.sz = img.sz
  BY <1>1, <1>2, <1>5 DEF Shape
<1>7. All(B) = All(A) /\ Clean(B)
  BY <1>2, <1>5, SameSpace DEF Whole, Spread
<1>8. Whole'
  BY <1>1, <1>2, <1>6, <1>7 DEF Whole, Spread
<1>9. Shape'
  BY <1>1, <1>2, <1>5, <1>6 DEF Shape, Growing
<1>10. AllUser(B)
  BY <1>3, <1>5 DEF AllUser, Present
<1>11. sz > 0 /\ Kept(as, sz) /\ Capped(as, sz)
  BY <1>2 DEF Layout
<1>12. StrayStep
  BY <1>1 DEF StrayStep
<1> QED
  BY <1>1, <1>3, <1>5, <1>6, <1>8, <1>9, <1>10, <1>11, <1>12

\* The first segment ends below the bound.
LEMMA FirstSegment ==
  ASSUME NEW segs, SegsOK(segs), segs # <<>>
  PROVE  /\ Head(segs) \in Header /\ Head(segs).vaddr + Head(segs).memsz <= (MaxPage - 1) * PGSIZE
         /\ SegsOK(Tail(segs))
<1>1. segs \in Seq(Header) /\ Len(segs) \in Nat /\ Len(segs) >= 1
  BY DEF SegsOK
<1>2. Head(segs) = segs[1] /\ 1 \in 1..Len(segs) /\ segs[1] \in Header
  BY <1>1
<1>3. Tail(segs) \in Seq(Header) /\ Len(Tail(segs)) = Len(segs) - 1
      /\ \A i \in 1..Len(Tail(segs)) : Tail(segs)[i] = segs[i + 1]
  BY <1>1
<1>4. ASSUME NEW i \in 1..Len(Tail(segs))
      PROVE  Tail(segs)[i].vaddr + Tail(segs)[i].memsz <= (MaxPage - 1) * PGSIZE
  <2>1. i + 1 \in 1..Len(segs) /\ Tail(segs)[i] = segs[i + 1]
    BY <1>1, <1>3
  <2> QED
    BY <2>1 DEF SegsOK
<1> QED
  BY <1>2, <1>3, <1>4 DEF SegsOK

\* execve() asks for the room of a segment, or finds it malformed.
LEMMA ExecSegmentStep == ASSUME Inv, ExecSegment PROVE Inv' /\ StrayStep
<1> DEFINE s == Head(prog.segs)
           to == s.vaddr + s.memsz
<1>1. /\ panic = "no" /\ pc = "segment" /\ prog.segs # <<>>
      /\ \/ Bad(Using(img.as))
         \/ /\ prog' = [prog EXCEPT !.segs = Tail(@)]
            /\ UNCHANGED <<mem, as, sz, ttbr, kstack, img, pc, ino, grow>>
         \/ /\ s.memsz >= s.filesz
            /\ Extending("load", X0, img.sz, to) /\ UNCHANGED <<prog, ino>>
  BY DEF ExecSegment, Running
<1>2. Shape /\ Whole /\ Control /\ Layout /\ SegsOK(prog.segs) /\ img.sz \in Nat /\ img.sz <= (MaxPage - 1) * PGSIZE
  BY <1>1 DEF Inv, Shape, Control
<1>3. s \in Header /\ to <= (MaxPage - 1) * PGSIZE /\ SegsOK(Tail(prog.segs))
  BY <1>1, <1>2, FirstSegment
<1>4. s.vaddr \in Nat /\ s.memsz \in Nat /\ s.filesz \in Nat
  BY <1>3 DEF Header
<1> HIDE DEF s
<1>5. CASE Bad(Using(img.as))
  BY <1>1, <1>5, BadStep
<1>7. CASE /\ prog' = [prog EXCEPT !.segs = Tail(@)]
           /\ UNCHANGED <<mem, as, sz, ttbr, kstack, img, pc, ino, grow>>
  <2>1. UNCHANGED <<free, lost, wild, panic, as, sz, ttbr, kstack, img, pc, ino, grow>>
    BY <1>7 DEF mem
  <2>2. prog' \in [elf : BOOLEAN, segs : Seq(Header)] /\ prog'.segs = Tail(prog.segs)
    <3>1. prog \in [elf : BOOLEAN, segs : Seq(Header)] /\ Tail(prog.segs) \in Seq(Header)
      BY <1>2, <1>3 DEF Shape, SegsOK
    <3> QED
      BY <1>7, <3>1
  <2>3. Shape'
    BY <1>2, <2>1, <2>2 DEF Shape
  <2>4. Whole' /\ Control'
    BY <1>1, <1>2, <1>3, <2>1, <2>2 DEF Whole, Control
  <2>5. Layout'
    BY <1>2, <2>1 DEF Layout, GuardBelowStack
  <2> QED
    BY <2>1, <2>3, <2>4, <2>5 DEF Inv, StrayStep
<1>6. CASE s.memsz >= s.filesz /\ Extending("load", X0, img.sz, to) /\ UNCHANGED <<prog, ino>>
  <2>1. Extending("load", X0, img.sz, to) /\ UNCHANGED <<prog, ino>>
    BY <1>6
  <2>2. to \in Nat /\ to <= (MaxPage + 1) * PGSIZE /\ s.filesz <= s.memsz
    BY <1>3, <1>4, <1>6, MemAssumption
  <2> HIDE DEF to
  <2>3. /\ Shape' /\ Whole' /\ pc' = "load" /\ img'.sz = img.sz
        /\ grow'.old = img.sz /\ grow'.new = to /\ img'.as.pgdir # 0
        /\ Kept(img'.as, img.sz) /\ Extended(img'.as, img.sz, grow') /\ AllUser(img'.as)
        /\ sz' > 0 /\ Kept(as', sz') /\ Capped(as', sz') /\ StrayStep
        /\ panic' = panic
    <3>1. prog' \in [elf : BOOLEAN, segs : Seq(Header)] /\ ino' = InoAt("load")
      BY <1>1, <1>2, <2>1, InoIs DEF Shape
    <3> QED
      BY <1>1, <1>2, <2>1, <2>2, <3>1, ExtendingStep
  <2>4. Control'
    BY <1>1, <1>2, <2>1, <2>2, <2>3 DEF Control, s, to
  <2>5. Layout'
    BY <2>3 DEF Layout, GrowOK, GuardBelowStack
  <2> QED
    BY <2>3, <2>4, <2>5 DEF Inv
<1> QED
  BY <1>1, <1>5, <1>6, <1>7

\* execve() gives back the inode and asks for the stack.
LEMMA ExecStackStep == ASSUME Inv, ExecStack PROVE Inv' /\ StrayStep
<1> DEFINE old == RoundUp(img.sz)
           to == RoundUp(img.sz) + 2 * PGSIZE
<1>1. /\ panic = "no" /\ pc = "segment" /\ ino' = InoAt("stack") /\ prog' = NoProg
      /\ Extending("stack", X0, old, to)
  <2>1. ino.locked /\ panic = "no" /\ pc = "segment"
    BY InoIs DEF ExecStack, Running, Inv, Shape
  <2>2. iunlockput(X0) = X0
    BY <2>1 DEF iunlockput
  <2>3. ino' = InoAt("stack")
    BY InoIs DEF ExecStack, Released
  <2> QED
    BY <2>1, <2>2, <2>3 DEF ExecStack
<1>2. Shape /\ Control /\ img.sz \in Nat /\ img.sz <= (MaxPage - 1) * PGSIZE
  BY <1>1 DEF Inv, Shape, Control
<1>3. old \in Nat /\ to \in Nat /\ to = old + 2 * PGSIZE /\ to <= (MaxPage + 1) * PGSIZE
  <2>1. PGSIZE \in Nat /\ MaxPage - 1 \in Nat /\ MaxPage \in Nat
    BY MemAssumption
  <2> DEFINE top == (MaxPage - 1) * PGSIZE
  <2>2. top \in Nat /\ top % PGSIZE = 0
    BY <2>1, WholePages
  <2>3. old \in Nat /\ old <= top
    BY <1>2, <2>2, RoundUpIs, RoundUpLeast
  <2>4. top + 2 * PGSIZE = (MaxPage + 1) * PGSIZE
    BY <2>1
  <2> HIDE DEF top
  <2> QED
    BY <2>1, <2>2, <2>3, <2>4, MemAssumption
<1> HIDE DEF old, to
<1>4. /\ Shape' /\ Whole' /\ pc' = "stack" /\ img'.sz = img.sz
      /\ grow'.old = old /\ grow'.new = to /\ img'.as.pgdir # 0
      /\ Kept(img'.as, img.sz) /\ Extended(img'.as, img.sz, grow') /\ AllUser(img'.as)
      /\ sz' > 0 /\ Kept(as', sz') /\ Capped(as', sz') /\ StrayStep
      /\ panic' = panic
  <2>1. NoProg \in [elf : BOOLEAN, segs : Seq(Header)]
    <3>1. <<>> \in Seq(Header)
      OBVIOUS
    <3> QED
      BY <3>1 DEF NoProg
  <2>2. prog' \in [elf : BOOLEAN, segs : Seq(Header)]
    BY <1>1, <2>1, Zenon
  <2> QED
    BY <1>1, <1>3, <2>2, ExtendingStep
<1>5. Control'
  BY <1>2, <1>3, <1>4 DEF Control
<1>6. Layout'
  BY <1>4 DEF Layout, GrowOK, GuardBelowStack, old
<1> QED
  BY <1>4, <1>5, <1>6 DEF Inv

\* The end of uvm_alloc() for the image.
LEMMA ImageGrown ==
  ASSUME Inv, panic = "no", pc \in {"load", "stack"}, grow.va >= grow.new, Grown # 0
  PROVE  /\ Kept(img.as, Grown) /\ Capped(img.as, Grown) /\ Grown \in Nat
         /\ Extended(img.as, img.sz, grow) /\ grow # NoGrow /\ grow \in GrowRec
         /\ grow.old = IF pc = "stack" THEN RoundUp(img.sz) ELSE img.sz
<1>1. /\ Space = img.as /\ Room = img.sz
      /\ Start = IF pc = "stack" THEN RoundUp(img.sz) ELSE img.sz
  BY DEF Space, Room, Start
<1>2. /\ img.as \in AddressSpace /\ img.sz \in Nat /\ grow \in GrowRec /\ Kept(img.as, img.sz)
      /\ GrowOK(img.as, img.sz, Start, grow) /\ Start \in {img.sz, RoundUp(img.sz)}
  BY <1>1, GrowingIs DEF Growing
<1>3. Grown = Size(grow)
  BY DEF Grown, Size
<1>4. grow # NoGrow
  BY <1>3, NoGrowIs DEF Size
<1>5. Extended(img.as, img.sz, grow) /\ grow.old = Start
  BY <1>2, <1>4 DEF GrowOK
<1> QED
  BY <1>1, <1>2, <1>3, <1>4, <1>5, EndLayout

\* Y is X after uvm_load(): it went astray only in a space with holes.
Read(X, Y) ==
    /\ Y \in MemState /\ Y.free = X.free /\ Y.lost = X.lost /\ Y.as = X.as
    /\ Y.wild # X.wild => X.as.ragged
    /\ Y.panic = "no" \/ (Y.panic = "uvm_load" /\ X.as.ragged)

\* uvm_load() of a segment below the size: every page it comes to is there, but
\* for holes.
LEMMA LoadedIs ==
  ASSUME NEW X \in MemState, X.panic = "no", NEW s \in Header, NEW size \in Nat,
         Kept(X.as, size), s.vaddr + s.filesz <= size
  PROVE  Read(X, Loaded(X, s))
<1> DEFINE Y == Loaded(X, s)
           far == Least(s.filesz, s.avail + 1)
           near == Least(s.filesz, s.avail)
<1>1. /\ s.vaddr \in Nat /\ s.filesz \in Nat /\ s.avail \in Nat
      /\ far \in Nat /\ far <= s.filesz /\ near \in Nat /\ near <= s.filesz
  BY DEF Header, Least
<1>2. ASSUME ~X.as.ragged, NEW n \in Nat, n <= s.filesz, NEW v \in LoadPages(s, n)
      PROVE  Present(X.as, v) /\ HasPte(X.as, v)
  <2>1. PICK a \in s.vaddr..(s.vaddr + n - 1) : v = a \div PGSIZE
    BY DEF LoadPages
  <2>2. a \in Nat /\ a < size
    BY <1>1, <1>2
  <2>3. v \in 0..(RoundUp(size) \div PGSIZE - 1)
    BY <2>1, <2>2, RoundUpCovers, PageOf
  <2> QED
    BY <1>2, <2>3 DEF Kept, Present
<1> HIDE DEF far, near
<1>3. CASE \E v \in LoadPages(s, far) : ~HasPte(X.as, v)
  <2>1. Y = [X EXCEPT !.panic = "uvm_load"]
    BY <1>3 DEF Loaded, Panic, Ok, far
  <2>2. X.as.ragged
    BY <1>1, <1>2, <1>3
  <2> HIDE DEF Y
  <2>3. Read(X, Y)
    BY <2>1, <2>2 DEF Read, MemState, Reason
  <2> QED
    BY <2>3 DEF Y
<1>4. CASE ~(\E v \in LoadPages(s, far) : ~HasPte(X.as, v))
  <2> DEFINE hole == \E v \in LoadPages(s, near) : ~Present(X.as, v)
  <2>1. Y = [X EXCEPT !.wild = @ \/ hole]
    BY <1>4 DEF Loaded, far, near
  <2>2. hole => X.as.ragged
    BY <1>1, <1>2
  <2> HIDE DEF hole
  <2>3. X.wild \in BOOLEAN /\ hole \in BOOLEAN
    BY DEF MemState, hole
  <2> HIDE DEF Y
  <2>4. /\ Y \in MemState /\ Y.free = X.free /\ Y.lost = X.lost /\ Y.as = X.as
        /\ Y.wild = (X.wild \/ hole) /\ Y.panic = X.panic
    BY <2>1, <2>3 DEF MemState
  <2>5. Read(X, Y)
    BY <2>2, <2>3, <2>4 DEF Read
  <2> QED
    BY <2>5 DEF Y
<1> QED
  BY <1>3, <1>4

\* execve() reads a segment, or finds it misplaced or short.
LEMMA ExecLoadStep == ASSUME Inv, ExecLoad PROVE Inv' /\ StrayStep
<1> DEFINE s == Head(prog.segs)
           X == Using(img.as)
           Y == Loaded(X, s)
<1>1. /\ panic = "no" /\ pc = "load" /\ grow.va >= grow.new
      /\ IF Grown = 0 \/ s.vaddr % PGSIZE # 0 THEN Bad(X)
         ELSE IF Ok(Y) /\ s.avail < s.filesz THEN Bad(Y)
              ELSE /\ Building("segment", Y, Grown)
                   /\ prog' = [prog EXCEPT !.segs = Tail(@)]
                   /\ UNCHANGED ino
  BY DEF ExecLoad, Done, Running
<1>2. /\ Shape /\ Whole /\ Control /\ Layout /\ SegsOK(prog.segs) /\ prog.segs # <<>>
      /\ img.sz <= (MaxPage - 1) * PGSIZE /\ img.sz \in Nat
      /\ prog \in [elf : BOOLEAN, segs : Seq(Header)] /\ ino = InoAt("load")
      /\ s.filesz <= s.memsz /\ (grow = NoGrow \/ grow.new = s.vaddr + s.memsz)
      /\ img.as.pgdir # 0 /\ AllUser(img.as)
  BY <1>1 DEF Inv, Shape, Control, Layout
<1>3. /\ s \in Header /\ s.vaddr + s.memsz <= (MaxPage - 1) * PGSIZE /\ SegsOK(Tail(prog.segs))
      /\ s.vaddr \in Nat /\ s.memsz \in Nat /\ s.filesz \in Nat
  BY <1>2, FirstSegment DEF Header
<1>4. CASE Grown = 0 \/ s.vaddr % PGSIZE # 0
  BY <1>1, <1>4, BadStep
<1>5. CASE ~(Grown = 0 \/ s.vaddr % PGSIZE # 0)
  <2>1. IF Ok(Y) /\ s.avail < s.filesz THEN Bad(Y)
        ELSE Building("segment", Y, Grown) /\ prog' = [prog EXCEPT !.segs = Tail(@)] /\ UNCHANGED ino
    BY <1>1, <1>5
  <2>2. /\ Kept(img.as, Grown) /\ Capped(img.as, Grown) /\ Grown \in Nat
        /\ grow # NoGrow /\ grow \in GrowRec /\ grow.old = img.sz
    BY <1>1, <1>5, ImageGrown
  <2>3. Grown <= (MaxPage - 1) * PGSIZE /\ s.vaddr + s.filesz <= Grown
    <3>1. grow.new = s.vaddr + s.memsz /\ grow.new \in Nat
      BY <1>2, <2>2 DEF GrowRec
    <3>2. Grown = grow.new \/ Grown = img.sz
      BY <2>2 DEF Grown
    <3>3. grow.new <= Grown
      BY <1>2, <2>2, <3>1 DEF Grown
    <3>4. Grown <= (MaxPage - 1) * PGSIZE
      BY <1>2, <1>3, <3>1, <3>2
    <3> QED
      BY <1>2, <1>3, <2>2, <3>1, <3>3, <3>4
  <2>4. /\ X \in MemState /\ X.as = img.as /\ X.free = free /\ X.lost = lost
        /\ X.wild = wild /\ X.panic = panic /\ Exact(X, {kstack} \cup All(as))
    BY <1>2, ImageIs
  <2> HIDE DEF X, s
  <2>5. Read(X, Y)
    BY <1>1, <1>3, <2>2, <2>3, <2>4, LoadedIs
  <2> HIDE DEF Y
  <2>6. /\ Y \in MemState /\ Y.free = free /\ Y.lost = lost /\ Y.as = img.as
        /\ Y.wild # wild => img.as.ragged
        /\ Y.panic = "no" \/ (Y.panic = "uvm_load" /\ img.as.ragged)
    BY <2>4, <2>5 DEF Read
  <2>7. CASE Ok(Y) /\ s.avail < s.filesz
    <3>1. Bad(Y) /\ Y.panic = "no"
      BY <2>1, <2>7 DEF Ok
    <3> QED
      BY <1>1, <2>6, <3>1, BadWith
  <2>8. CASE ~(Ok(Y) /\ s.avail < s.filesz)
    <3>1. Building("segment", Y, Grown) /\ prog' = [prog EXCEPT !.segs = Tail(@)] /\ UNCHANGED ino
      BY <2>1, <2>8
    <3>2. Exact(Y, {kstack} \cup All(as))
      BY <2>4, <2>6 DEF Exact
    <3>3. /\ prog' \in [elf : BOOLEAN, segs : Seq(Header)] /\ prog'.segs = Tail(prog.segs)
          /\ ino' = InoAt("segment")
      <4>1. ino' = InoAt("segment")
        BY <1>2, <3>1, InoIs
      <4> QED
        BY <1>2, <1>3, <3>1, <4>1 DEF SegsOK
    <3>4. /\ Shape' /\ Whole' /\ pc' = "segment" /\ img'.as = Y.as /\ img'.sz = Grown
          /\ sz' > 0 /\ Kept(as', sz') /\ Capped(as', sz')
          /\ lost' = Y.lost /\ wild' = Y.wild /\ panic' = Y.panic
      BY <1>1, <2>2, <2>6, <3>1, <3>2, <3>3, BuildingStep
    <3>5. Control'
      BY <1>2, <1>3, <2>3, <2>6, <3>3, <3>4 DEF Control
    <3>6. Layout'
      BY <1>2, <2>2, <2>6, <3>4 DEF Layout, GuardBelowStack
    <3>7. StrayStep
      BY <1>1, <2>6, <3>4 DEF StrayStep
    <3> QED
      BY <3>4, <3>5, <3>6, <3>7 DEF Inv
  <2> QED
    BY <2>7, <2>8
<1> QED
  BY <1>4, <1>5

\* Y is X with page v closed.
Closed(X, Y, v) ==
    /\ Y \in MemState /\ Y.free = X.free /\ Y.lost = X.lost
    /\ Y.wild = X.wild /\ Y.panic = X.panic
    /\ Y.as.pgdir = X.as.pgdir /\ Y.as.tab = X.as.tab /\ Y.as.ragged = X.as.ragged
    /\ \A u \in Vpn : /\ Y.as.map[u].pa = X.as.map[u].pa
                      /\ Y.as.map[u].user = (IF u = v THEN FALSE ELSE X.as.map[u].user)

\* uvm_clear() of a page with an entry closes it and moves nothing.
LEMMA ClearIs ==
  ASSUME NEW X \in MemState, NEW v \in Vpn, HasPte(X.as, v)
  PROVE  Closed(X, uvm_clear(X, v), v)
<1> DEFINE Y == uvm_clear(X, v)
           B == [X.as EXCEPT !.map[v].user = FALSE]
<1>1. Y = [X EXCEPT !.as = B]
  BY DEF uvm_clear, MemState, AddressSpace
<1>2. X.as \in AddressSpace
  BY DEF MemState
<1>3. /\ B \in AddressSpace /\ B.pgdir = X.as.pgdir /\ B.tab = X.as.tab /\ B.ragged = X.as.ragged
      /\ \A u \in Vpn : /\ B.map[u].pa = X.as.map[u].pa
                        /\ B.map[u].user = (IF u = v THEN FALSE ELSE X.as.map[u].user)
  BY <1>2 DEF AddressSpace
<1> HIDE DEF B
<1>4. /\ Y \in MemState /\ Y.as = B /\ Y.free = X.free /\ Y.lost = X.lost
      /\ Y.wild = X.wild /\ Y.panic = X.panic
  BY <1>1, <1>3 DEF MemState
<1> HIDE DEF Y
<1>5. Closed(X, Y, v)
  BY <1>3, <1>4 DEF Closed
<1> QED
  BY <1>5 DEF Y

\* Two pages further.
LEMMA TwoPages == ASSUME NEW a \in Nat PROVE (a + 2 * PGSIZE) \div PGSIZE = (a \div PGSIZE) + 2
<1>1. PGSIZE \in Nat /\ a + PGSIZE \in Nat /\ a + 2 * PGSIZE = (a + PGSIZE) + PGSIZE
  BY MemAssumption
<1>2. /\ (a + PGSIZE) \div PGSIZE = (a \div PGSIZE) + 1 /\ a \div PGSIZE \in Nat
      /\ ((a + PGSIZE) + PGSIZE) \div PGSIZE = ((a + PGSIZE) \div PGSIZE) + 1
  BY <1>1, NextPage, PageOf
<1> QED
  BY <1>1, <1>2

\* The stack is complete: two present pages, and the lower one is closed.
LEMMA ExecGuardStep == ASSUME Inv, ExecGuard PROVE Inv' /\ StrayStep
<1> DEFINE X == Using(img.as)
           g == Grown \div PGSIZE - 2
           Y == uvm_clear(X, g)
<1>1. /\ panic = "no" /\ pc = "stack" /\ grow.va >= grow.new
      /\ IF Grown = 0 THEN Bad(X)
         ELSE Building("args", Y, Grown) /\ UNCHANGED <<prog, ino>>
  BY DEF ExecGuard, Done, Running
<1>2. /\ Shape /\ Whole /\ Control /\ Layout /\ img.as \in AddressSpace /\ img.sz \in Nat
      /\ img.sz <= (MaxPage - 1) * PGSIZE /\ (grow = NoGrow \/ grow.new = grow.old + 2 * PGSIZE)
      /\ prog \in [elf : BOOLEAN, segs : Seq(Header)] /\ ino = InoAt("stack")
      /\ img.as.pgdir # 0 /\ AllUser(img.as)
  BY <1>1 DEF Inv, Shape, Control, Layout
<1>3. CASE Grown = 0
  BY <1>1, <1>3, BadStep
<1>4. CASE Grown # 0
  <2>1. Building("args", Y, Grown) /\ UNCHANGED <<prog, ino>>
    BY <1>1, <1>4
  <2>2. /\ Kept(img.as, Grown) /\ Capped(img.as, Grown) /\ Grown \in Nat
        /\ Extended(img.as, img.sz, grow) /\ grow # NoGrow /\ grow \in GrowRec
        /\ grow.old = RoundUp(img.sz)
    BY <1>1, <1>4, ImageGrown
  <2>3. /\ grow.old \in Nat /\ grow.va \in Nat /\ grow.new = grow.old + 2 * PGSIZE
        /\ Grown = grow.old + 2 * PGSIZE
    <3>1. grow.old \in Nat /\ grow.va \in Nat /\ PGSIZE \in Nat
      BY <2>2, MemAssumption DEF GrowRec
    <3>2. grow.new = grow.old + 2 * PGSIZE
      BY <1>2, <2>2
    <3> QED
      BY <3>1, <3>2 DEF Grown
  <2> DEFINE o == grow.old \div PGSIZE
  <2>4. Grown \div PGSIZE = o + 2 /\ o \in Nat /\ g = o
    <3>1. Grown \div PGSIZE = o + 2 /\ o \in Nat
      BY <2>3, TwoPages, PageOf
    <3> QED
      BY <3>1
  <2>5. Present(img.as, g) /\ Present(img.as, g + 1) /\ HasPte(img.as, g) /\ g \in Vpn
    <3>1. grow.new \in Nat /\ grow.new \div PGSIZE <= grow.va \div PGSIZE
      BY <1>1, <2>2, <2>3, PageMonotone DEF GrowRec
    <3>2. grow.new \div PGSIZE = o + 2 /\ grow.va \div PGSIZE \in Nat
      BY <2>3, <2>4, PageOf
    <3> HIDE DEF g
    <3>3. g \in o..(grow.va \div PGSIZE - 1) /\ g + 1 \in o..(grow.va \div PGSIZE - 1)
      BY <2>4, <3>1, <3>2
    <3>4. Present(img.as, g) /\ Present(img.as, g + 1)
      BY <2>2, <3>3 DEF Extended
    <3> QED
      BY <2>2, <3>4 DEF Kept, Present
  <2>6. /\ X \in MemState /\ X.as = img.as /\ X.free = free
        /\ X.lost = lost /\ X.wild = wild /\ X.panic = panic
    BY <1>2, ImageIs
  <2>7. Exact(X, {kstack} \cup All(as))
    BY <1>2, ImageIs
  <2> HIDE DEF X, g, o
  <2>8. /\ Y \in MemState /\ Y.free = free /\ Y.lost = lost /\ Y.wild = wild /\ Y.panic = "no"
        /\ Y.as.pgdir = img.as.pgdir /\ Y.as.tab = img.as.tab /\ Y.as.ragged = img.as.ragged
        /\ \A u \in Vpn : /\ Y.as.map[u].pa = img.as.map[u].pa
                          /\ Y.as.map[u].user = (IF u = g THEN FALSE ELSE img.as.map[u].user)
    <3>1. HasPte(X.as, g)
      BY <2>5, <2>6
    <3>2. Closed(X, Y, g)
      BY <2>5, <2>6, <3>1, ClearIs
    <3> HIDE DEF Y
    <3> QED
      BY <1>1, <2>6, <3>2 DEF Closed
  <2> HIDE DEF Y
  <2>9. Exact(Y, {kstack} \cup All(as))
    <3>1. All(Y.as) = All(img.as) /\ (Clean(img.as) => Clean(Y.as))
      BY <2>8, SameSpace
    <3> QED
      BY <2>6, <2>7, <2>8, <3>1 DEF Exact
  <2>10. prog' \in [elf : BOOLEAN, segs : Seq(Header)] /\ ino' = InoAt("args")
    BY <1>2, <2>1, InoIs
  <2>11. /\ Shape' /\ Whole' /\ pc' = "args" /\ img'.as = Y.as /\ img'.sz = Grown
         /\ sz' > 0 /\ Kept(as', sz') /\ Capped(as', sz')
         /\ lost' = Y.lost /\ wild' = Y.wild /\ panic' = Y.panic
    BY <1>1, <2>1, <2>2, <2>8, <2>9, <2>10, BuildingStep
  <2>12. Control'
    <3>1. grow.new <= (MaxPage + 1) * PGSIZE /\ (MaxPage + 1) * PGSIZE \in Nat
      BY <2>2, MemAssumption DEF Extended
    <3>2. Grown \in 1..((MaxPage + 1) * PGSIZE)
      BY <1>4, <2>2, <2>3, <3>1
    <3> QED
      BY <1>2, <2>8, <2>11, <3>2 DEF Control
  <2>13. Kept(Y.as, Grown) /\ Capped(Y.as, Grown)
    <3>1. Y.as \in AddressSpace
      BY <2>8 DEF MemState
    <3>2. \A u : Present(Y.as, u) <=> Present(img.as, u)
      BY <2>8 DEF Present
    <3>3. Kept(Y.as, Grown)
      BY <1>2, <2>2, <2>8, <3>1, KeptStays
    <3> QED
      BY <2>2, <3>2, <3>3 DEF Capped
  <2>14. GuardBelowStack'
    <3>1. img'.sz \div PGSIZE = g + 2 /\ g \in Nat
      BY <2>4, <2>11
    <3>2. (g + 2) - 1 = g + 1 /\ (g + 2) - 2 = g /\ g + 1 # g
      BY <3>1
    <3>3. UserPage(img'.as, g + 1) /\ Present(img'.as, g)
      BY <1>2, <2>5, <2>8, <2>11, <3>2 DEF AllUser, UserPage, Present
    <3>4. \A v \in Vpn : Present(img'.as, v) => (img'.as.map[v].user <=> v # g)
      <4> SUFFICES ASSUME NEW v \in Vpn, Present(img'.as, v)
                   PROVE  img'.as.map[v].user <=> v # g
        OBVIOUS
      <4>1. Present(img.as, v)
        BY <2>8, <2>11 DEF Present
      <4>2. img.as.map[v].user
        BY <1>2, <4>1 DEF AllUser
      <4> QED
        BY <2>8, <2>11, <4>2
    <3> QED
      BY <3>1, <3>2, <3>3, <3>4 DEF GuardBelowStack
  <2>15. Layout'
    BY <2>11, <2>13, <2>14 DEF Layout
  <2>16. StrayStep
    BY <1>1, <2>8, <2>11 DEF StrayStep
  <2> QED
    BY <2>11, <2>12, <2>15, <2>16 DEF Inv
<1> QED
  BY <1>3, <1>4

\* The new image replaces the old one, which is kept.
LEMMA ExecArgsStep == ASSUME Inv, NEW n \in ArgSize, ExecArgs(n) PROVE Inv' /\ StrayStep
<1>1. panic = "no" /\ pc = "args" /\ (Commit \/ Bad(Using(img.as)))
  BY DEF ExecArgs, Running
<1>2. /\ Shape /\ Whole /\ Control /\ Layout /\ as \in AddressSpace /\ sz \in Nat
      /\ img \in [as : AddressSpace, sz : Nat] /\ img.sz \in 1..((MaxPage + 1) * PGSIZE)
      /\ img.as.pgdir # 0 /\ Kept(img.as, img.sz) /\ Capped(img.as, img.sz)
      /\ sz > 0 /\ Kept(as, sz) /\ ttbr = as.pgdir /\ ttbr \in Page \ free
  <2>1. Shape /\ Whole /\ Control /\ Layout
    BY <1>1 DEF Inv
  <2>2. /\ as \in AddressSpace /\ img \in [as : AddressSpace, sz : Nat]
        /\ ttbr = as.pgdir /\ ttbr \in Page \ free
    BY <1>1, <2>1 DEF Shape
  <2>3. sz \in Nat
    BY <2>1, MemAssumption DEF Shape
  <2>4. img.sz \in 1..((MaxPage + 1) * PGSIZE) /\ img.as.pgdir # 0
    BY <1>1, <2>1 DEF Control
  <2>5. Kept(img.as, img.sz) /\ Capped(img.as, img.sz) /\ sz > 0 /\ Kept(as, sz)
    BY <1>1, <2>1 DEF Layout
  <2> QED
    BY <2>1, <2>2, <2>3, <2>4, <2>5
<1>3. CASE Bad(Using(img.as))
  BY <1>1, <1>3, BadStep
<1>4. CASE Commit
  <2>1. /\ UNCHANGED <<free, lost, wild, panic, ttbr, kstack, prog, ino, grow>>
        /\ as' = img.as /\ sz' = img.sz /\ img' = [as |-> as, sz |-> sz] /\ pc' = "switch"
    BY <1>4 DEF Commit, mem
  <2>2. img' \in [as : AddressSpace, sz : Nat] /\ img'.as = as /\ img'.sz = sz
    BY <1>2, <2>1
  <2>3. Whole'
    BY <1>2, <2>1, <2>2, SpreadSwap DEF Whole
  <2>4. as'.pgdir \in Page \ free'
    <3>1. img.as \in AddressSpace /\ img.as.pgdir \in Page
      BY <1>2 DEF AddressSpace
    <3>2. img.as.pgdir \in All(img.as)
      BY <1>2 DEF All
    <3> QED
      BY <1>2, <2>1, <3>1, <3>2 DEF Whole, Spread
  <2>5. Shape'
    <3>1. img.as \in AddressSpace /\ img.sz \in 0..((MaxPage + 1) * PGSIZE)
      BY <1>2
    <3>2. ino' = InoAt("switch")
      BY <1>1, <1>2, <2>1, InoIs DEF Shape
    <3> QED
      BY <1>2, <2>1, <2>2, <2>4, <3>1, <3>2 DEF Shape
  <2>6. Control'
    <3>1. as.pgdir # 0
      BY <1>2, MemAssumption
    <3> QED
      BY <2>1, <2>2, <3>1 DEF Control
  <2>7. Layout'
    <3>1. img.sz > 0
      BY <1>2
    <3> QED
      BY <1>2, <2>1, <2>2, <3>1 DEF Layout, GuardBelowStack
  <2> QED
    BY <1>1, <2>1, <2>3, <2>5, <2>6, <2>7 DEF Inv, StrayStep
<1> QED
  BY <1>1, <1>3, <1>4

\* The CPU switches to the new image.
LEMMA SwitchStep == ASSUME Inv, uvm_switch PROVE Inv' /\ StrayStep
<1>1. /\ panic = "no" /\ pc = "switch" /\ pc' = "free" /\ ttbr' = as.pgdir
      /\ UNCHANGED <<free, lost, wild, panic, as, sz, kstack, img, prog, ino, grow>>
  BY DEF uvm_switch, Running, mem
<1>2. Shape /\ Whole /\ Control /\ Layout
  BY <1>1 DEF Inv
<1>3. ino' = InoAt("free")
  BY <1>1, <1>2, InoIs DEF Shape
<1>4. Shape'
  BY <1>1, <1>2, <1>3 DEF Shape
<1>5. Whole' /\ Control'
  BY <1>1, <1>2 DEF Whole, Control
<1>6. Layout'
  BY <1>1, <1>2 DEF Layout, GuardBelowStack
<1> QED
  BY <1>1, <1>4, <1>5, <1>6 DEF Inv, StrayStep

\* The pages of the old image are free: the CPU has switched by then.
LEMMA ExecFreeStep == ASSUME Inv, ExecFree PROVE Inv' /\ StrayStep
<1> DEFINE X == Using(img.as)
           Y == vm_free(X)
<1>1. /\ panic = "no" /\ pc = "free" /\ img' = NoImg /\ pc' = "user"
      /\ free' = Y.free /\ lost' = Y.lost /\ wild' = Y.wild /\ panic' = Y.panic
      /\ UNCHANGED <<as, sz, ttbr, kstack, prog, ino, grow>>
  BY DEF ExecFree, Running, SetMem
<1>2. /\ Shape /\ Whole /\ Control /\ Layout /\ as \in AddressSpace
      /\ sz > 0 /\ Kept(as, sz) /\ Capped(as, sz) /\ ttbr = as.pgdir /\ ttbr \in Page
  BY <1>1 DEF Inv, Shape, Layout
<1>3. /\ X \in MemState /\ X.lost = lost /\ X.wild = wild /\ X.panic = panic
      /\ Exact(X, {kstack} \cup All(as))
  BY <1>2, ImageIs
<1> HIDE DEF X
<1>4. /\ Y \in MemState /\ Exact(Y, {kstack} \cup All(as)) /\ Y.as = NoAs
      /\ Y.lost = lost /\ Y.wild = wild /\ Y.panic = "no"
  BY <1>1, <1>3, FreedIs
<1> HIDE DEF Y
<1>5. Spread(free', lost', kstack, as, NoAs)
  <2>1. Clean(as) /\ kstack \in Page /\ kstack \notin All(as)
    BY <1>2 DEF Whole, Spread
  <2> QED
    BY <1>1, <1>4, <2>1, ExactSpread, SpreadSwap
<1>6. free' \subseteq Page /\ lost' \subseteq Page /\ wild' \in BOOLEAN /\ panic' = "no"
  BY <1>1, <1>4 DEF MemState
<1>7. ttbr \notin free'
  <2>1. as.pgdir \in All(as)
    BY <1>2, MemAssumption DEF All
  <2> QED
    BY <1>2, <1>5, <2>1 DEF Spread
<1>8. Shape'
  <2>1. ino' = InoAt("user")
    BY <1>1, <1>2, InoIs DEF Shape
  <2>2. "no" \in Reason
    BY DEF Reason
  <2> QED
    BY <1>1, <1>2, <1>6, <1>7, <2>1, <2>2, NoImgIs DEF Shape
<1>9. Whole' /\ Control'
  BY <1>1, <1>5, NoImgIs DEF Whole, Control
<1>10. Layout'
  <2>1. Kept(NoImg.as, NoImg.sz)
    BY NoImgIs, NoAsIs, KeptEmpty
  <2> QED
    BY <1>1, <1>2, <2>1 DEF Layout, GuardBelowStack
<1> QED
  BY <1>1, <1>4, <1>8, <1>9, <1>10 DEF Inv, StrayStep

-----------------------------------------------------------------------------
(* The theorems *)

\* Every step keeps the invariant and strays as little as it may.
LEMMA NextInv == ASSUME Inv, [Next]_vars PROVE Inv' /\ StrayStep
<1>1. ASSUME NEW va \in 0..((MaxPage + 1) * PGSIZE), NEW n \in Length, NEW i \in 0..(n - 1),
             FetchArg(va, n, i)
      PROVE  Inv' /\ StrayStep
  <2>1. va \in Nat /\ n \in Nat
    BY MemAssumption
  <2>2. i \in Nat
    BY <2>1
  <2> QED
    BY <1>1, <2>1, <2>2, FetchArgStep
<1>14. ASSUME NEW base \in 0..((MaxPage + 1) * PGSIZE), SysWritev(base) PROVE Inv' /\ StrayStep
  <2>1. Running("user") /\ Touch(base, 0, "fault: iov_base") /\ "fault: iov_base" \in Faults
    BY <1>14 DEF SysWritev, Faults
  <2> QED
    BY <2>1, TouchStep DEF Running
<1>2. ASSUME NEW n \in Brk, SysBrk(n) PROVE Inv' /\ StrayStep
  <2>1. n \in Int
    BY MemAssumption
  <2> QED
    BY <1>2, <2>1, SysBrkStep
<1>3. CASE UNCHANGED vars
  <2>1. /\ free' = free /\ lost' = lost /\ wild' = wild /\ panic' = panic /\ as' = as /\ sz' = sz
        /\ ttbr' = ttbr /\ kstack' = kstack /\ img' = img /\ pc' = pc /\ prog' = prog
        /\ ino' = ino /\ grow' = grow
    BY <1>3 DEF vars
  <2>2. (Shape => Shape') /\ (Whole => Whole') /\ (Control => Control')
    BY <2>1 DEF Shape, Whole, Control
  <2>3. Layout => Layout'
    BY <2>1 DEF Layout, GuardBelowStack
  <2> QED
    BY <2>1, <2>2, <2>3 DEF Inv, StrayStep
<1>4. CASE GrowPage
  BY <1>4, GrowPageStep
<1>5. CASE BrkDone
  BY <1>5, BrkDoneStep
<1>6. CASE SysFork
  BY <1>6, SysForkStep
<1>7. ASSUME NEW file \in Program, Exec(file) PROVE Inv' /\ StrayStep
  BY <1>7, ExecStep
<1>15. CASE ExecHeader
  BY <1>15, ExecHeaderStep
<1>16. CASE uvm_switch
  BY <1>16, SwitchStep
<1>17. CASE ExecFree
  BY <1>17, ExecFreeStep
<1>8. CASE ExecSegment
  BY <1>8, ExecSegmentStep
<1>9. CASE ExecLoad
  BY <1>9, ExecLoadStep
<1>10. CASE ExecStack
  BY <1>10, ExecStackStep
<1>11. CASE ExecGuard
  BY <1>11, ExecGuardStep
<1>12. ASSUME NEW n \in ArgSize, ExecArgs(n) PROVE Inv' /\ StrayStep
  BY <1>12, ExecArgsStep
<1>13. CASE Halted
  BY <1>3, <1>13 DEF Halted
<1> QED
  BY <1>1, <1>2, <1>3, <1>4, <1>5, <1>6, <1>7, <1>8, <1>9, <1>10, <1>11, <1>12, <1>13,
     <1>14, <1>15, <1>16, <1>17 DEF Next

\* The inductive invariant.
THEOREM MemInvariant == Spec => []Inv
<1>1. Inv /\ [Next]_vars => Inv'
  BY NextInv
<1> QED
  BY <1>1, InitInv, PTL DEF Spec

\* No step of brk(), fork(), execve() or an argument fetch loses a page other
\* than the one its size points into, and none meets a hole in an address space
\* that only grew from whole pages.
THEOREM StraysOnlyWhenRagged == Spec => StrayOnlyRagged
<1>1. Inv /\ [Next]_vars => [StrayStep]_vars
  BY NextInv
<1> QED
  BY <1>1, MemInvariant, PTL DEF Spec, StrayOnlyRagged

\* execve() keeps the old image in use until the new one is complete, and gives
\* everything back on every way out, panics included.
THEOREM ExecIsOK == Spec => []ExecOK
<1>1. Shape => ExecOK
  <2> SUFFICES ASSUME Shape PROVE ExecOK
    OBVIOUS
  <2>1. ASSUME NEW A \in AddressSpace PROVE IsSpace(A)
    BY DEF AddressSpace, IsSpace
  <2>2. as \in AddressSpace /\ img.as \in AddressSpace /\ img.sz \in Nat
    BY DEF Shape
  <2>3. TypeOK
    <3>1. ino \in [ip : BOOLEAN, locked : BOOLEAN]
      BY InoIs DEF Shape, InoAt
    <3> QED
      BY <2>1, <2>2, <3>1 DEF Shape, TypeOK
  <2> QED
    BY <2>3, InoIs DEF Shape, ExecOK, TtbrLive, ReleasedOnce, InoAt, Reason
<1> QED
  BY <1>1, MemInvariant, PTL DEF Inv

\* Every image has its stack above a closed page, and an address space that
\* only grew by whole pages has no hole.
THEOREM LayoutIsOK == Spec => []LayoutOK
<1>1. Inv => LayoutOK
  <2> SUFFICES ASSUME Inv PROVE LayoutOK
    OBVIOUS
  <2>1. CASE panic = "no"
    <3>1. Kept(as, sz) /\ Kept(img.as, img.sz) /\ GuardBelowStack
      BY <2>1 DEF Inv, Layout
    <3> QED
      BY <3>1 DEF LayoutOK, HolesOnlyRagged, Kept
  <2>2. CASE panic # "no"
    BY <2>2 DEF LayoutOK, HolesOnlyRagged, GuardBelowStack
  <2> QED
    BY <2>1, <2>2
<1> QED
  BY <1>1, MemInvariant, PTL

\* Two sets with nothing in common.
LEMMA DisjointUnion ==
  ASSUME NEW S, NEW T, IsFiniteSet(S), IsFiniteSet(T), S \cap T = {}
  PROVE  /\ IsFiniteSet(S \cup T) /\ Cardinality(S \cup T) = Cardinality(S) + Cardinality(T)
         /\ Cardinality(S) \in Nat /\ Cardinality(T) \in Nat
  BY FS_Union, FS_EmptySet, FS_CardinalityType

\* In a clean address space, every use of a page is another page.
LEMMA UsesAreAll ==
  ASSUME NEW A \in AddressSpace, Clean(A)
  PROVE  IsFiniteSet(All(A)) /\ Cardinality(All(A)) = Uses(A)
<1> DEFINE V == {v \in Vpn : A.map[v].pa # 0}
           R == {A.pgdir} \ {0}
           f == [t \in A.tab |-> t.pg]
           g == [v \in V |-> A.map[v].pa]
<1>1. IsFiniteSet(Tables(A)) /\ Cardinality(Tables(A)) = Cardinality(A.tab)
  <2>1. f \in Bijection(A.tab, Tables(A))
    <3>1. f \in [A.tab -> Tables(A)] /\ \A p \in Tables(A) : \E t \in A.tab : f[t] = p
      BY DEF Tables
    <3>2. \A t, u \in A.tab : f[t] = f[u] => t = u
      BY DEF Clean
    <3> HIDE DEF f
    <3> QED
      BY <3>1, <3>2, Fun_IsBij
  <2>2. ExistsBijection(A.tab, Tables(A))
    BY <2>1 DEF ExistsBijection
  <2> QED
    BY <2>2, FS_Bijection DEF Clean
<1>2. IsFiniteSet(Pages(A)) /\ Cardinality(Pages(A)) = Cardinality(V) /\ IsFiniteSet(V)
  <2>1. g \in Bijection(V, Pages(A))
    <3>1. g \in [V -> Pages(A)] /\ \A p \in Pages(A) : \E v \in V : g[v] = p
      BY DEF Pages
    <3>2. \A v, w \in V : g[v] = g[w] => v = w
      BY DEF Clean
    <3> HIDE DEF g, V
    <3> QED
      BY <3>1, <3>2, Fun_IsBij
  <2>2. ExistsBijection(V, Pages(A))
    BY <2>1 DEF ExistsBijection
  <2>3. IsFiniteSet(V)
    <3>1. IsFiniteSet(Vpn)
      BY FS_Interval, MemAssumption DEF Vpn
    <3> QED
      BY <3>1, FS_Subset
  <2> QED
    BY <2>2, <2>3, FS_Bijection
<1>3. IsFiniteSet(R) /\ Cardinality(R) = IF A.pgdir = 0 THEN 0 ELSE 1
  <2>1. CASE A.pgdir = 0
    <3>1. R = {}
      BY <2>1
    <3> QED
      BY <2>1, <3>1, FS_EmptySet
  <2>2. CASE A.pgdir # 0
    <3>1. R = {A.pgdir}
      BY <2>2
    <3> HIDE DEF R
    <3> QED
      BY <2>2, <3>1, FS_Singleton
  <2> QED
    BY <2>1, <2>2
<1>4. IsFiniteSet(A.tab) /\ Uses(A) = Cardinality(A.tab) + Cardinality(V) + Cardinality(R)
  BY <1>3 DEF Uses, Clean
<1>5. 0 \notin Tables(A) /\ 0 \notin Pages(A)
  BY MemAssumption DEF Tables, Pages, AddressSpace
<1>6. /\ All(A) = (Tables(A) \cup Pages(A)) \cup R
      /\ Tables(A) \cap Pages(A) = {} /\ (Tables(A) \cup Pages(A)) \cap R = {}
  BY <1>5 DEF All, Clean
<1> HIDE DEF V, R
<1>7. /\ IsFiniteSet(Tables(A) \cup Pages(A))
      /\ Cardinality(Tables(A) \cup Pages(A)) = Cardinality(A.tab) + Cardinality(V)
  <2>1. /\ IsFiniteSet(Tables(A) \cup Pages(A))
        /\ Cardinality(Tables(A) \cup Pages(A)) = Cardinality(Tables(A)) + Cardinality(Pages(A))
    <3>1. IsFiniteSet(Tables(A)) /\ IsFiniteSet(Pages(A)) /\ Tables(A) \cap Pages(A) = {}
      BY <1>1, <1>2, <1>6
    <3> QED
      BY <3>1, DisjointUnion, Zenon
  <2> QED
    BY <1>1, <1>2, <2>1
<1>8. IsFiniteSet(All(A)) /\ Cardinality(All(A)) = Cardinality(A.tab) + Cardinality(V) + Cardinality(R)
  <2> DEFINE T == Tables(A) \cup Pages(A)
  <2>1. IsFiniteSet(T) /\ IsFiniteSet(R) /\ T \cap R = {} /\ All(A) = T \cup R
    BY <1>3, <1>6, <1>7
  <2>2. Cardinality(T) = Cardinality(A.tab) + Cardinality(V)
    BY <1>7
  <2> HIDE DEF T
  <2>3. IsFiniteSet(T \cup R) /\ Cardinality(T \cup R) = Cardinality(T) + Cardinality(R)
    BY <2>1, DisjointUnion, Zenon
  <2> QED
    BY <2>1, <2>2, <2>3
<1> QED
  BY <1>4, <1>8

\* Every page has exactly one place, whichever allocation failed on the way.
THEOREM PagesArePartitioned == Spec => []PagesPartition
<1>1. Inv => PagesPartition
  <2> SUFFICES ASSUME Inv, panic = "no" PROVE PagesPartition
    BY DEF PagesPartition
  <2>1. as \in AddressSpace /\ img.as \in AddressSpace /\ Spread(free, lost, kstack, as, img.as)
    BY DEF Inv, Shape, Whole
  <2> DEFINE A == All(as)
             B == All(img.as)
  <2>2. /\ IsFiniteSet(A) /\ Cardinality(A) = Uses(as)
        /\ IsFiniteSet(B) /\ Cardinality(B) = Uses(img.as)
    BY <2>1, UsesAreAll DEF Spread
  <2>3. IsFiniteSet(free) /\ IsFiniteSet(lost)
    BY FS_Subset, MemAssumption DEF Inv, Shape
  <2> HIDE DEF A, B
  <2>4. /\ Page = (((free \cup lost) \cup {kstack}) \cup A) \cup B
        /\ free \cap lost = {} /\ (free \cup lost) \cap {kstack} = {}
        /\ ((free \cup lost) \cup {kstack}) \cap A = {}
        /\ (((free \cup lost) \cup {kstack}) \cup A) \cap B = {}
    BY <2>1 DEF Spread, A, B
  <2>5. /\ IsFiniteSet(free \cup lost)
        /\ Cardinality(free \cup lost) = Cardinality(free) + Cardinality(lost)
        /\ Cardinality(free) \in Nat /\ Cardinality(lost) \in Nat
    BY <2>3, <2>4, DisjointUnion
  <2>6. /\ IsFiniteSet((free \cup lost) \cup {kstack})
        /\ Cardinality((free \cup lost) \cup {kstack}) = Cardinality(free \cup lost) + 1
    <3>1. IsFiniteSet({kstack}) /\ Cardinality({kstack}) = 1
      BY FS_Singleton
    <3> QED
      BY <2>4, <2>5, <3>1, DisjointUnion, Zenon
  <2>7. /\ IsFiniteSet(((free \cup lost) \cup {kstack}) \cup A) /\ Cardinality(A) \in Nat
        /\ Cardinality(((free \cup lost) \cup {kstack}) \cup A)
             = Cardinality((free \cup lost) \cup {kstack}) + Cardinality(A)
    BY <2>2, <2>4, <2>6, DisjointUnion
  <2>8. /\ Cardinality(Page)
             = Cardinality(((free \cup lost) \cup {kstack}) \cup A) + Cardinality(B)
        /\ Cardinality(B) \in Nat
    BY <2>2, <2>4, <2>7, DisjointUnion
  <2>9. Cardinality(Page) = Cardinality(free) + Cardinality(lost) + 1 + Uses(as) + Uses(img.as)
    BY <2>2, <2>5, <2>6, <2>7, <2>8
  <2>10. Page = UNION {free, lost, {kstack}, A, B}
    BY <2>4
  <2> QED
    BY <2>2, <2>9, <2>10 DEF PagesPartition, A, B
<1> QED
  BY <1>1, MemInvariant, PTL
=============================================================================
