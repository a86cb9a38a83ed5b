-------------------------------- MODULE Bio ---------------------------------
(***************************************************************************)
(* The buffer cache of kern/bio.c: look-up, recycling in LRU order,        *)
(* reference counts, and the flags B_VALID and B_DIRTY.                    *)
(*                                                                         *)
(* An action is one critical section of bcache.lock, or one step of the    *)
(* holder of a buffer's sleep lock; the sleep lock itself is the mutual    *)
(* exclusion that Proc shows acquiresleep() to be.  A code path that holds *)
(* two buffers at once (bmap, the commit) is two users here.  sd_rw()      *)
(* transfers a block in one step.                                          *)
(***************************************************************************)
EXTENDS Naturals, Sequences, FiniteSets, SequencesExt

CONSTANTS Process,  \* users of the cache
          Buf,      \* bcache.buf
          Block,    \* block numbers, of the one device in use
          Val,      \* contents of a block
          None      \* no process, no buffer, and the block of a fresh buffer

ASSUME NoneAssumption == None \notin Process \cup Buf \cup Block
ASSUME FiniteAssumption == IsFiniteSet(Process) /\ IsFiniteSet(Buf) /\ Val # {}

VARIABLES
    lru,      \* the list from head.next (most recent) to head.prev
    blockno,  \* [Buf -> Block or None]
    valid,    \* buffers with B_VALID
    dirty,    \* buffers with B_DIRTY
    refcnt,   \* [Buf -> Nat]
    lock,     \* [Buf -> process inside the sleep lock]
    data,     \* [Buf -> Val]
    disk,     \* [Block -> Val]
    bpc,      \* [Process -> "out", "lock", "fill", "use", "put"]
    bp,       \* [Process -> its buffer]
    halted    \* a CPU is in panic()

cacheVars == <<lru, blockno, valid, dirty, refcnt, lock, data>>
vars == <<cacheVars, disk, bpc, bp, halted>>

Cached(s) == {b \in Buf : blockno[b] = s}
\* Mutant: bget() recycles buffers that are still to be written.
FreeDirty(b) == refcnt[b] = 0

Free(b) == refcnt[b] = 0 /\ b \notin dirty

\* binit() puts each buffer in front of the ones before it.
Init ==
    /\ lru = SetToSeq(Buf)
    /\ blockno = [b \in Buf |-> None]
    /\ valid = {} /\ dirty = {}
    /\ refcnt = [b \in Buf |-> 0]
    /\ lock = [b \in Buf |-> None]
    /\ data = [b \in Buf |-> CHOOSE v \in Val : TRUE]
    /\ disk \in [Block -> Val]
    /\ bpc = [p \in Process |-> "out"]
    /\ bp = [p \in Process |-> None]
    /\ halted = FALSE

-----------------------------------------------------------------------------
(* bget() *)

\* Mutant: a cached buffer is not counted again.
BgetHitUncounted(p, s) ==
    /\ bpc[p] = "out"
    /\ \E b \in Cached(s) : bp' = [bp EXCEPT ![p] = b]
    /\ bpc' = [bpc EXCEPT ![p] = "lock"]
    /\ UNCHANGED <<lru, blockno, valid, dirty, refcnt, lock, data, disk, halted>>

\* Cached: refcnt++ keeps the buffer while the process waits for its lock.
BgetHit(p, s) ==
    /\ bpc[p] = "out"
    /\ \E b \in Cached(s) :
         /\ \A k \in DOMAIN lru : lru[k] \in Cached(s) => \E j \in 1..k : lru[j] = b
         /\ refcnt' = [refcnt EXCEPT ![b] = @ + 1]
         /\ bp' = [bp EXCEPT ![p] = b]
    /\ bpc' = [bpc EXCEPT ![p] = "lock"]
    /\ UNCHANGED <<lru, blockno, valid, dirty, lock, data, disk, halted>>

\* Not cached: the least recently used buffer that is neither used nor dirty.
BgetRecycle(p, s) ==
    /\ bpc[p] = "out"
    /\ Cached(s) = {}
    /\ \E k \in DOMAIN lru :
         LET b == lru[k] IN
         /\ Free(b)
         /\ \A j \in DOMAIN lru : j > k => ~Free(lru[j])
         /\ blockno' = [blockno EXCEPT ![b] = s]
         /\ valid' = valid \ {b}
         /\ dirty' = dirty \ {b}
         /\ refcnt' = [refcnt EXCEPT ![b] = 1]
         /\ bp' = [bp EXCEPT ![p] = b]
    /\ bpc' = [bpc EXCEPT ![p] = "lock"]
    /\ UNCHANGED <<lru, lock, data, disk, halted>>

\* Every buffer is used or dirty.
BgetPanic(p, s) ==
    /\ bpc[p] = "out"
    /\ Cached(s) = {}
    /\ \A b \in Buf : ~Free(b)
    /\ halted' = TRUE
    /\ UNCHANGED <<cacheVars, disk, bpc, bp>>

\* acquiresleep(&b->lock)
BgetLock(p) ==
    /\ bpc[p] = "lock"
    /\ lock[bp[p]] = None
    /\ lock' = [lock EXCEPT ![bp[p]] = p]
    /\ bpc' = [bpc EXCEPT ![p] = IF bp[p] \in valid THEN "use" ELSE "fill"]
    /\ UNCHANGED <<lru, blockno, valid, dirty, refcnt, data, disk, bp, halted>>

-----------------------------------------------------------------------------
(* bread(), bwrite(), log_write() and brelse() by the holder *)

\* sd_rw() of a buffer that is not B_DIRTY reads it.
BreadFill(p) ==
    LET b == bp[p] IN
    /\ bpc[p] = "fill"
    /\ data' = [data EXCEPT ![b] = disk[blockno[b]]]
    /\ valid' = valid \cup {b}
    /\ bpc' = [bpc EXCEPT ![p] = "use"]
    /\ UNCHANGED <<lru, blockno, dirty, refcnt, lock, disk, bp, halted>>

\* The caller changes b->data and pins it with log_write().
Modify(p, v) ==
    LET b == bp[p] IN
    /\ bpc[p] = "use"
    /\ data' = [data EXCEPT ![b] = v]
    /\ dirty' = dirty \cup {b}
    /\ UNCHANGED <<lru, blockno, valid, refcnt, lock, disk, bpc, bp, halted>>

\* B_DIRTY is set, and cleared again when the block is on the disk.
Bwrite(p) ==
    LET b == bp[p] IN
    /\ bpc[p] = "use"
    /\ disk' = [disk EXCEPT ![blockno[b]] = data[b]]
    /\ valid' = valid \cup {b}
    /\ dirty' = dirty \ {b}
    /\ UNCHANGED <<lru, blockno, refcnt, lock, data, bpc, bp, halted>>

\* releasesleep() comes before bcache.lock is taken.
BrelseUnlock(p) ==
    /\ bpc[p] = "use"
    /\ lock' = [lock EXCEPT ![bp[p]] = None]
    /\ bpc' = [bpc EXCEPT ![p] = "put"]
    /\ UNCHANGED <<lru, blockno, valid, dirty, refcnt, data, disk, bp, halted>>

\* Mutant: the buffer is linked in front without being unlinked.
BrelsePutTwice(p) ==
    LET b == bp[p] IN
    /\ bpc[p] = "put"
    /\ refcnt' = [refcnt EXCEPT ![b] = @ - 1]
    /\ lru' = IF refcnt'[b] = 0 THEN <<b>> \o lru ELSE lru
    /\ bpc' = [bpc EXCEPT ![p] = "out"]
    /\ bp' = [bp EXCEPT ![p] = None]
    /\ UNCHANGED <<blockno, valid, dirty, lock, data, disk, halted>>

\* Unlink the k'th buffer of the list and link it behind the head.
ToFront(k) == <<lru[k]>> \o RemoveAt(lru, k)

\* refcnt--; the last user moves the buffer to the front.
BrelsePut(p) ==
    LET b == bp[p] IN
    /\ bpc[p] = "put"
    /\ refcnt' = [refcnt EXCEPT ![b] = @ - 1]
    /\ lru' \in IF refcnt'[b] = 0 THEN {ToFront(k) : k \in {j \in DOMAIN lru : lru[j] = b}}
                                  ELSE {lru}
    /\ bpc' = [bpc EXCEPT ![p] = "out"]
    /\ bp' = [bp EXCEPT ![p] = None]
    /\ UNCHANGED <<blockno, valid, dirty, lock, data, disk, halted>>

-----------------------------------------------------------------------------
Holder(p) == \/ BgetLock(p) \/ BreadFill(p) \/ Bwrite(p)
             \/ BrelseUnlock(p) \/ BrelsePut(p)
             \/ \E v \in Val : Modify(p, v)

\* panic(): while (1) {}
Halt == halted /\ UNCHANGED vars

Next == \/ /\ ~halted
           /\ \E p \in Process :
                \/ \E s \in Block : BgetHit(p, s) \/ BgetRecycle(p, s) \/ BgetPanic(p, s)
                \/ Holder(p)
        \/ Halt

Spec == Init /\ [][Next]_vars

-----------------------------------------------------------------------------
(* Properties *)

\* Type invariant of the cache.
TypeOK ==
    /\ lru \in Seq(Buf)
    /\ blockno \in [Buf -> Block \cup {None}]
    /\ valid \subseteq Buf /\ dirty \subseteq Buf
    /\ refcnt \in [Buf -> Nat]
    /\ lock \in [Buf -> Process \cup {None}]
    /\ data \in [Buf -> Val]
    /\ disk \in [Block -> Val]
    /\ bpc \in [Process -> {"out", "lock", "fill", "use", "put"}]
    /\ bp \in [Process -> Buf \cup {None}]
    /\ halted \in BOOLEAN

\* The list links every buffer exactly once, whatever the order of releases:
\* bget() would never find, or recycle twice, a buffer that fell out of it.
ListIsWhole == Len(lru) = Cardinality(Buf) /\ \A b \in Buf : \E k \in DOMAIN lru : lru[k] = b

\* The invariant of the list that bget() searches and brelse() reorders.
ListOK == TypeOK /\ ListIsWhole

\* The reference count is the number of processes that hold the buffer, wait
\* for its lock or are about to put it back.
RefcntCounts ==
    \A b \in Buf : refcnt[b] = Cardinality({p \in Process : bp[p] = b})

\* The processes between bread() and brelse() of block s.
Users(s) == {p \in Process : bpc[p] = "use" /\ blockno[bp[p]] = s}

\* The contents of block s.
Mem(s) == IF \E b \in valid : blockno[b] = s
          THEN data[CHOOSE b \in valid : blockno[b] = s]
          ELSE disk[s]

\* The cache is transparent: every block behaves as one cell with one user at
\* a time.  No modified buffer is dropped, no block has two buffers, and a
\* read after a recycling finds what was written before it.
Store == INSTANCE BlockStore WITH mem <- [s \in Block |-> Mem(s)],
                                  users <- [s \in Block |-> Users(s)]
CacheIsTransparent == Store!Spec
=============================================================================
