----------------------------- MODULE BioProofs ------------------------------
(***************************************************************************)
(* The buffer cache for every number of buffers, blocks and users: the     *)
(* list stays whole, reference counts are exact, and the cache implements  *)
(* BlockStore.                                                             *)
(***************************************************************************)
EXTENDS Bio, FiniteSetTheorems, TLAPS

\* A process has a buffer from bget() until the end of brelse().
BufferOK == \A p \in Process : bp[p] = None <=> bpc[p] = "out"

\* The sleep lock of a buffer is held by whoever fills or uses it.
LockOK ==
    \A p \in Process : \A b \in Buf :
        lock[b] = p <=> bp[p] = b /\ bpc[p] \in {"fill", "use"}

\* A buffer in use, or with contents, belongs to a block.
NamedOK ==
    /\ \A p \in Process : bp[p] # None => blockno[bp[p]] # None
    /\ \A b \in valid : blockno[b] # None

\* bget() looks for the block before it takes a buffer for it.
UniqueOK ==
    \A a, b \in Buf : blockno[a] = blockno[b] /\ blockno[a] # None => a = b

\* B_VALID is set before the caller of bread() sees the buffer, and stays.
FlagsOK ==
    /\ dirty \subseteq valid
    /\ \A p \in Process : /\ bpc[p] = "use" => bp[p] \in valid
                          /\ bpc[p] = "fill" => bp[p] \notin valid

\* Only a dirty buffer differs from the disk.
CleanOK == \A b \in valid : b \notin dirty => data[b] = disk[blockno[b]]

IInv == /\ TypeOK /\ ListIsWhole /\ RefcntCounts
        /\ BufferOK /\ LockOK /\ NamedOK /\ UniqueOK /\ FlagsOK /\ CleanOK

-----------------------------------------------------------------------------
(* Facts about the operators *)

\* binit() links each buffer once.
LEMMA InitialList ==
    ASSUME Init
    PROVE  lru \in Seq(Buf) /\ ListIsWhole
<1>1. Cardinality(Buf) \in Nat
    BY FS_CardinalityType, FiniteAssumption
<1>2. PICK f \in Bijection(1..Cardinality(Buf), Buf) : TRUE
    BY FS_CardinalityType, FiniteAssumption DEF ExistsBijection
<1>3. f \in [1..Cardinality(Buf) -> Buf] /\ IsInjective(f)
    BY <1>2 DEF Bijection, Injection
<1>4. lru \in Injection(1..Cardinality(Buf), Buf)
    BY <1>3 DEF Init, SetToSeq, Injection
<1>5. lru \in Surjection(1..Cardinality(Buf), Buf)
    <2>1. Cardinality(1..Cardinality(Buf)) = Cardinality(Buf)
        BY <1>1, FS_Interval
    <2> QED
        BY <1>4, <2>1, FS_Injection, FiniteAssumption
<1>6. lru \in Seq(Buf) /\ Len(lru) = Cardinality(Buf) /\ DOMAIN lru = 1..Cardinality(Buf)
    BY <1>1, <1>4 DEF Injection
<1> QED
    BY <1>5, <1>6 DEF ListIsWhole, Surjection

\* Unlinking the k'th element and linking it in front loses nothing.
LEMMA FrontOfSeq ==
    ASSUME NEW s \in Seq(Buf), NEW k \in 1..Len(s)
    PROVE  LET t == <<s[k]>> \o RemoveAt(s, k) IN
           /\ t \in Seq(Buf) /\ Len(t) = Len(s)
           /\ \A j \in 1..Len(s) :
                 t[IF j = k THEN 1 ELSE IF j < k THEN j + 1 ELSE j] = s[j]
<1> DEFINE a == SubSeq(s, 1, k - 1)
           c == SubSeq(s, k + 1, Len(s))
<1>1. a \in Seq(Buf) /\ Len(a) = k - 1 /\ \A j \in 1..(k - 1) : a[j] = s[j]
    OBVIOUS
<1>2. /\ c \in Seq(Buf) /\ Len(c) = Len(s) - k
      /\ \A j \in 1..(Len(s) - k) : c[j] = s[j + k]
    OBVIOUS
<1> HIDE DEF a, c
<1>3. /\ a \o c \in Seq(Buf) /\ Len(a \o c) = Len(s) - 1
      /\ \A j \in 1..(Len(s) - 1) : (a \o c)[j] = IF j < k THEN a[j] ELSE c[j - (k - 1)]
    BY <1>1, <1>2
<1>6. \A j \in 1..(Len(s) - 1) : (a \o c)[j] = IF j < k THEN s[j] ELSE s[j + 1]
    <2> TAKE j \in 1..(Len(s) - 1)
    <2>1. CASE j < k
        BY <2>1, <1>1, <1>3
    <2>2. CASE ~(j < k)
        <3>1. j - (k - 1) \in 1..(Len(s) - k) /\ j - (k - 1) + k = j + 1
            BY <2>2
        <3> QED
            BY <2>2, <3>1, <1>2, <1>3
    <2> QED
        BY <2>1, <2>2
<1>4. RemoveAt(s, k) = a \o c
    BY DEF RemoveAt, a, c
<1> DEFINE r == a \o c
           t == <<s[k]>> \o r
<1>5. r \in Seq(Buf) /\ Len(r) = Len(s) - 1 /\ s[k] \in Buf
    BY <1>3
<1>7. \A j \in 1..(Len(s) - 1) : r[j] = IF j < k THEN s[j] ELSE s[j + 1]
    BY <1>6
<1> HIDE DEF r
<1>8. /\ t \in Seq(Buf) /\ Len(t) = Len(s) /\ t[1] = s[k]
      /\ \A j \in 2..Len(s) : t[j] = r[j - 1]
    BY <1>5
<1> HIDE DEF t
<1>9. \A j \in 1..Len(s) : t[IF j = k THEN 1 ELSE IF j < k THEN j + 1 ELSE j] = s[j]
    <2> TAKE j \in 1..Len(s)
    <2>1. CASE j < k
        BY <2>1, <1>7, <1>8
    <2>2. CASE j > k
        <3>1. j \in 2..Len(s) /\ j - 1 \in 1..(Len(s) - 1) /\ ~(j - 1 < k) /\ j - 1 + 1 = j
            BY <2>2
        <3> QED
            BY <2>2, <3>1, <1>7, <1>8
    <2> QED
        BY <2>1, <2>2, <1>8
<1> QED
    BY <1>4, <1>8, <1>9 DEF t, r

\* Moving a buffer to the front keeps the list whole.
LEMMA ToFrontWhole ==
    ASSUME lru \in Seq(Buf), ListIsWhole, NEW k \in DOMAIN lru, lru' = ToFront(k)
    PROVE  lru' \in Seq(Buf) /\ ListIsWhole'
<1>1. DOMAIN lru = 1..Len(lru)
    OBVIOUS
<1>2. /\ lru' \in Seq(Buf) /\ Len(lru') = Len(lru)
      /\ \A j \in 1..Len(lru) :
            lru'[IF j = k THEN 1 ELSE IF j < k THEN j + 1 ELSE j] = lru[j]
    BY <1>1, FrontOfSeq DEF ToFront
<1>3. \A j \in 1..Len(lru) : \E m \in 1..Len(lru) : lru'[m] = lru[j]
    <2> TAKE j \in 1..Len(lru)
    <2>1. (IF j = k THEN 1 ELSE IF j < k THEN j + 1 ELSE j) \in 1..Len(lru)
        BY <1>1
    <2> QED
        BY <1>2, <2>1
<1>4. DOMAIN lru' = 1..Len(lru)
    BY <1>2
<1>5. \A b \in Buf : \E m \in 1..Len(lru) : lru'[m] = b
    <2> TAKE b \in Buf
    <2>1. PICK j \in 1..Len(lru) : lru[j] = b
        BY <1>1 DEF ListIsWhole
    <2> QED
        BY <1>3, <2>1
<1>6. Len(lru) = Cardinality(Buf)
    BY DEF ListIsWhole
<1> QED
    BY <1>2, <1>4, <1>5, <1>6 DEF ListIsWhole

\* The processes that have buffer b.
Has(b) == {p \in Process : bp[p] = b}

\* The holders of a buffer can be counted.
LEMMA HasFinite == \A b : IsFiniteSet(Has(b)) /\ Cardinality(Has(b)) \in Nat
    BY FS_Subset, FS_CardinalityType, FiniteAssumption DEF Has

\* A buffer with reference count 0 is nobody's.
LEMMA FreeIsUnused ==
    ASSUME RefcntCounts, NEW b \in Buf, refcnt[b] = 0, NEW p \in Process
    PROVE  bp[p] # b
<1>1. Has(b) = {}
    BY HasFinite, FS_EmptySet DEF RefcntCounts, Has
<1> QED
    BY <1>1 DEF Has

\* A process that takes buffer b raises its count by one.
LEMMA CountUp ==
    ASSUME NEW p \in Process, NEW b \in Buf, TypeOK, RefcntCounts, bp[p] = None,
           bp' = [bp EXCEPT ![p] = b], refcnt' = [refcnt EXCEPT ![b] = @ + 1]
    PROVE  RefcntCounts'
<1> SUFFICES ASSUME NEW a \in Buf PROVE refcnt'[a] = Cardinality(Has(a)')
    BY DEF RefcntCounts, Has
<1>1. refcnt[a] = Cardinality(Has(a))
    BY DEF RefcntCounts, Has
<1>2. CASE a = b
    <2>1. Has(a)' = Has(a) \cup {p} /\ p \notin Has(a)
        BY <1>2, NoneAssumption DEF Has, TypeOK
    <2>2. Cardinality(Has(a)') = Cardinality(Has(a)) + 1
        BY <2>1, HasFinite, FS_AddElement
    <2> QED
        BY <1>1, <1>2, <2>2 DEF TypeOK
<1>3. CASE a # b
    <2>1. Has(a)' = Has(a)
        BY <1>3, NoneAssumption DEF Has, TypeOK
    <2> QED
        BY <1>1, <1>3, <2>1 DEF TypeOK
<1> QED
    BY <1>2, <1>3

\* A process that gives its buffer back lowers the count by one; it was
\* positive, so b->refcnt never goes below zero.
LEMMA CountDown ==
    ASSUME NEW p \in Process, TypeOK, RefcntCounts, bp[p] # None,
           bp' = [bp EXCEPT ![p] = None],
           refcnt' = [refcnt EXCEPT ![bp[p]] = @ - 1]
    PROVE  RefcntCounts' /\ refcnt' \in [Buf -> Nat]
<1> SUFFICES ASSUME NEW b \in Buf, bp[p] = b PROVE RefcntCounts' /\ refcnt' \in [Buf -> Nat]
    BY DEF TypeOK
<1>1. \A a \in Buf : refcnt[a] = Cardinality(Has(a))
    BY DEF RefcntCounts, Has
<1>2. Cardinality(Has(b)') = Cardinality(Has(b)) - 1 /\ Cardinality(Has(b)') \in Nat
    <2>1. Has(b)' = Has(b) \ {p} /\ p \in Has(b)
        BY NoneAssumption DEF Has, TypeOK
    <2>2. Cardinality(Has(b)') = Cardinality(Has(b)) - 1 /\ IsFiniteSet(Has(b)')
        BY <2>1, HasFinite, FS_RemoveElement
    <2> QED
        BY <2>2, FS_CardinalityType
<1>3. ASSUME NEW a \in Buf, a # b PROVE refcnt'[a] = Cardinality(Has(a)')
    <2>1. Has(a)' = Has(a)
        BY <1>3, NoneAssumption DEF Has, TypeOK
    <2> QED
        BY <1>1, <1>3, <2>1 DEF TypeOK
<1>4. refcnt'[b] = Cardinality(Has(b)')
    BY <1>1, <1>2 DEF TypeOK
<1>5. \A a \in Buf : refcnt'[a] = Cardinality({q \in Process : bp'[q] = a})
    BY <1>3, <1>4 DEF Has
<1> QED
    BY <1>1, <1>2, <1>4, <1>5, HasFinite DEF RefcntCounts, TypeOK

-----------------------------------------------------------------------------
(* The inductive invariant *)

\* The empty cache satisfies the invariant.
LEMMA IInvInit == Init => IInv
<1> SUFFICES ASSUME Init PROVE IInv
    OBVIOUS
<1>1. TypeOK /\ ListIsWhole
    BY InitialList, FiniteAssumption DEF Init, TypeOK
<1>2. RefcntCounts
    <2>1. \A b \in Buf : {p \in Process : bp[p] = b} = {}
        BY NoneAssumption DEF Init
    <2> QED
        BY <2>1, FS_EmptySet DEF Init, RefcntCounts
<1>3. BufferOK /\ LockOK /\ NamedOK /\ UniqueOK /\ FlagsOK /\ CleanOK
    BY NoneAssumption DEF Init, BufferOK, LockOK, NamedOK, UniqueOK, FlagsOK, CleanOK
<1> QED
    BY <1>1, <1>2, <1>3 DEF IInv

\* bget() finds the block: one more user waits for the lock.
LEMMA HitStep ==
    ASSUME IInv, NEW p \in Process, NEW s \in Block, BgetHit(p, s)
    PROVE  IInv'
<1>1. PICK b \in Buf : /\ blockno[b] = s
                       /\ refcnt' = [refcnt EXCEPT ![b] = @ + 1]
                       /\ bp' = [bp EXCEPT ![p] = b]
    BY DEF BgetHit, Cached
<1>2. /\ bpc[p] = "out" /\ bpc' = [bpc EXCEPT ![p] = "lock"]
      /\ UNCHANGED <<lru, blockno, valid, dirty, lock, data, disk, halted>>
    BY DEF BgetHit
<1>3. TypeOK /\ bp[p] = None
    BY <1>2 DEF IInv, BufferOK
<1>4. TypeOK' /\ ListIsWhole'
    BY <1>1, <1>2 DEF IInv, TypeOK, ListIsWhole
<1>5. RefcntCounts'
    BY <1>1, <1>3, CountUp DEF IInv
<1>6. BufferOK' /\ LockOK'
    BY <1>1, <1>2, <1>3, NoneAssumption DEF IInv, TypeOK, BufferOK, LockOK
<1>7. NamedOK' /\ UniqueOK' /\ FlagsOK' /\ CleanOK'
    BY <1>1, <1>2, <1>3, NoneAssumption DEF IInv, TypeOK, NamedOK, UniqueOK, FlagsOK, CleanOK
<1> QED
    BY <1>4, <1>5, <1>6, <1>7 DEF IInv

\* bget() takes a buffer that nobody has for the block.
LEMMA RecycleStep ==
    ASSUME IInv, NEW p \in Process, NEW s \in Block, BgetRecycle(p, s)
    PROVE  IInv'
<1>1. PICK b \in Buf : /\ Free(b)
                       /\ blockno' = [blockno EXCEPT ![b] = s]
                       /\ valid' = valid \ {b} /\ dirty' = dirty \ {b}
                       /\ refcnt' = [refcnt EXCEPT ![b] = 1]
                       /\ bp' = [bp EXCEPT ![p] = b]
    <2>1. \A k \in DOMAIN lru : lru[k] \in Buf
        BY DEF IInv, TypeOK
    <2> QED
        BY <2>1 DEF BgetRecycle
<1>2. /\ bpc[p] = "out" /\ bpc' = [bpc EXCEPT ![p] = "lock"]
      /\ \A a \in Buf : blockno[a] # s
      /\ UNCHANGED <<lru, lock, data, disk, halted>>
    BY DEF BgetRecycle, Cached
<1>3. TypeOK /\ bp[p] = None
    BY <1>2 DEF IInv, BufferOK
<1>4. TypeOK' /\ ListIsWhole'
    BY <1>1, <1>2, <1>3 DEF IInv, TypeOK, ListIsWhole
<1>5. \A q \in Process : bp[q] # b
    BY <1>1, FreeIsUnused DEF IInv, Free
<1>6. RefcntCounts'
    <2>1. refcnt' = [refcnt EXCEPT ![b] = @ + 1]
        BY <1>1, <1>3 DEF Free, TypeOK
    <2> QED
        BY <1>1, <1>3, <2>1, CountUp DEF IInv
<1>7. BufferOK' /\ LockOK'
    BY <1>1, <1>2, <1>3, NoneAssumption DEF IInv, TypeOK, BufferOK, LockOK
<1>8. NamedOK' /\ UniqueOK'
    BY <1>1, <1>2, <1>3, <1>5, NoneAssumption DEF IInv, TypeOK, NamedOK, UniqueOK
<1>9. FlagsOK' /\ CleanOK'
    BY <1>1, <1>2, <1>3, <1>5, NoneAssumption DEF IInv, TypeOK, FlagsOK, CleanOK, BufferOK
<1> QED
    BY <1>4, <1>6, <1>7, <1>8, <1>9 DEF IInv

\* The steps of the holder of a buffer's lock, which leave counts and list alone.
LEMMA HolderStep ==
    ASSUME IInv, NEW p \in Process,
           \/ BgetLock(p) \/ BreadFill(p) \/ Bwrite(p) \/ BrelseUnlock(p)
           \/ \E v \in Val : Modify(p, v)
    PROVE  IInv'
<1>1. TypeOK /\ bpc[p] # "out" /\ bp[p] \in Buf /\ blockno[bp[p]] \in Block
    BY NoneAssumption
       DEF IInv, TypeOK, BufferOK, NamedOK, BgetLock, BreadFill, Bwrite, BrelseUnlock, Modify
<1>2. ListIsWhole' /\ RefcntCounts' /\ UniqueOK'
    <2>1. UNCHANGED <<lru, blockno, refcnt, bp>>
        BY DEF BgetLock, BreadFill, Bwrite, BrelseUnlock, Modify
    <2> QED
        BY <2>1 DEF IInv, ListIsWhole, RefcntCounts, UniqueOK
<1> USE <1>1
<1>3. CASE BgetLock(p)
    <2>1. TypeOK'
        BY <1>3 DEF TypeOK, BgetLock
    <2>2. BufferOK' /\ NamedOK' /\ CleanOK'
        BY <1>3 DEF IInv, TypeOK, BufferOK, NamedOK, CleanOK, BgetLock
    <2>3. LockOK' /\ FlagsOK'
        BY <1>3, NoneAssumption DEF IInv, TypeOK, LockOK, FlagsOK, BgetLock
    <2> QED
        BY <1>2, <2>1, <2>2, <2>3 DEF IInv
<1>4. CASE BreadFill(p)
    <2>1. TypeOK'
        BY <1>4 DEF TypeOK, BreadFill
    <2>2. BufferOK' /\ LockOK' /\ NamedOK'
        BY <1>4 DEF IInv, TypeOK, BufferOK, LockOK, NamedOK, BreadFill
    <2>3. FlagsOK' /\ CleanOK'
        BY <1>4 DEF IInv, TypeOK, LockOK, FlagsOK, CleanOK, BreadFill
    <2> QED
        BY <1>2, <2>1, <2>2, <2>3 DEF IInv
<1>5. CASE Bwrite(p)
    <2>1. TypeOK'
        BY <1>5 DEF TypeOK, Bwrite
    <2>2. BufferOK' /\ LockOK' /\ NamedOK' /\ FlagsOK'
        BY <1>5 DEF IInv, TypeOK, BufferOK, LockOK, NamedOK, FlagsOK, Bwrite
    <2>3. CleanOK'
        BY <1>5 DEF IInv, TypeOK, NamedOK, UniqueOK, FlagsOK, CleanOK, Bwrite
    <2> QED
        BY <1>2, <2>1, <2>2, <2>3 DEF IInv
<1>6. CASE BrelseUnlock(p)
    <2>1. TypeOK'
        BY <1>6 DEF TypeOK, BrelseUnlock
    <2>2. BufferOK' /\ NamedOK' /\ FlagsOK' /\ CleanOK'
        BY <1>6 DEF IInv, TypeOK, BufferOK, NamedOK, FlagsOK, CleanOK, BrelseUnlock
    <2>3. LockOK'
        BY <1>6, NoneAssumption DEF IInv, TypeOK, LockOK, BrelseUnlock
    <2> QED
        BY <1>2, <2>1, <2>2, <2>3 DEF IInv
<1>7. ASSUME NEW v \in Val, Modify(p, v) PROVE IInv'
    <2>1. TypeOK'
        BY <1>7 DEF TypeOK, Modify
    <2>2. BufferOK' /\ LockOK' /\ NamedOK'
        BY <1>7 DEF IInv, TypeOK, BufferOK, LockOK, NamedOK, Modify
    <2>3. FlagsOK' /\ CleanOK'
        BY <1>7 DEF IInv, TypeOK, FlagsOK, CleanOK, Modify
    <2> QED
        BY <1>2, <2>1, <2>2, <2>3 DEF IInv
<1> QED
    BY <1>3, <1>4, <1>5, <1>6, <1>7

\* The end of brelse().
LEMMA PutStep ==
    ASSUME IInv, NEW p \in Process, BrelsePut(p)
    PROVE  IInv'
<1>1. /\ bpc[p] = "put" /\ bpc' = [bpc EXCEPT ![p] = "out"]
      /\ bp' = [bp EXCEPT ![p] = None]
      /\ refcnt' = [refcnt EXCEPT ![bp[p]] = @ - 1]
      /\ UNCHANGED <<blockno, valid, dirty, lock, data, disk, halted>>
    BY DEF BrelsePut
<1>2. TypeOK /\ bp[p] # None /\ bp[p] \in Buf
    BY <1>1, NoneAssumption DEF IInv, BufferOK, TypeOK
<1>3. RefcntCounts' /\ refcnt' \in [Buf -> Nat]
    BY <1>1, <1>2, CountDown DEF IInv
<1>4. lru' \in Seq(Buf) /\ ListIsWhole'
    <2>1. CASE lru' = lru
        BY <2>1 DEF IInv, TypeOK, ListIsWhole
    <2>2. ASSUME NEW k \in DOMAIN lru, lru' = ToFront(k) PROVE lru' \in Seq(Buf) /\ ListIsWhole'
        BY <2>2, ToFrontWhole DEF IInv, TypeOK
    <2> QED
        BY <2>1, <2>2 DEF BrelsePut
<1>5. TypeOK'
    BY <1>1, <1>2, <1>3, <1>4 DEF TypeOK
<1>6. BufferOK' /\ LockOK'
    BY <1>1, <1>2, NoneAssumption DEF IInv, TypeOK, BufferOK, LockOK
<1>7. NamedOK' /\ UniqueOK' /\ FlagsOK' /\ CleanOK'
    BY <1>1, <1>2, NoneAssumption DEF IInv, TypeOK, NamedOK, UniqueOK, FlagsOK, CleanOK
<1> QED
    BY <1>3, <1>4, <1>5, <1>6, <1>7 DEF IInv

\* Every step keeps the invariant.
LEMMA IInvStep == IInv /\ [Next]_vars => IInv'
<1> SUFFICES ASSUME IInv, [Next]_vars PROVE IInv'
    OBVIOUS
<1>1. CASE UNCHANGED vars
    BY <1>1 DEF IInv, TypeOK, ListIsWhole, RefcntCounts, BufferOK, LockOK, NamedOK, UniqueOK,
                FlagsOK, CleanOK, vars, cacheVars
<1>2. ASSUME NEW p \in Process, NEW s \in Block, BgetPanic(p, s) PROVE IInv'
    BY <1>2 DEF IInv, TypeOK, ListIsWhole, RefcntCounts, BufferOK, LockOK, NamedOK, UniqueOK,
                FlagsOK, CleanOK, BgetPanic, cacheVars
<1> QED
    BY <1>1, <1>2, HitStep, RecycleStep, HolderStep, PutStep DEF Next, Holder, Halt

\* The inductive invariant of the buffer cache.
THEOREM BioInvariant == Spec => []IInv
    BY IInvInit, IInvStep, PTL DEF Spec

\* The list bget() searches always links every buffer exactly once, and all
\* state keeps its type.
THEOREM ListStaysWhole == Spec => []ListOK
<1>1. IInv => ListOK
    BY DEF IInv, ListOK
<1> QED
    BY <1>1, BioInvariant, PTL

\* b->refcnt is the number of processes that have the buffer, and a buffer is
\* recycled under nobody.
THEOREM CountsAreExact == Spec => []RefcntCounts
<1>1. IInv => RefcntCounts
    BY DEF IInv
<1> QED
    BY <1>1, BioInvariant, PTL

-----------------------------------------------------------------------------
(* The refinement *)

\* The contents of a block are those of its valid buffer, or of the disk.
MemOK ==
    /\ \A b \in valid : Mem(blockno[b]) = data[b]
    /\ \A s \in Block : (\A b \in valid : blockno[b] # s) => Mem(s) = disk[s]

\* The buffer that Mem picks is the only one.
LEMMA MemIs == IInv => MemOK
<1> SUFFICES ASSUME IInv PROVE MemOK
    OBVIOUS
<1>1. ASSUME NEW b \in valid PROVE Mem(blockno[b]) = data[b]
    <2>1. \A a \in valid : blockno[a] = blockno[b] => a = b
        BY <1>1 DEF IInv, TypeOK, UniqueOK, NamedOK
    <2>2. (CHOOSE a \in valid : blockno[a] = blockno[b]) = b
        BY <2>1
    <2> QED
        BY <2>2 DEF Mem
<1>2. ASSUME NEW s \in Block, \A b \in valid : blockno[b] # s PROVE Mem(s) = disk[s]
    BY <1>2 DEF Mem
<1> QED
    BY <1>1, <1>2 DEF MemOK

\* The users of a block have its buffer's lock, so there is one at most.
LEMMA UsersAre ==
    ASSUME IInv, NEW p \in Process, bpc[p] \in {"fill", "use"}
    PROVE  /\ blockno[bp[p]] \in Block
           /\ Users(blockno[bp[p]]) = IF bpc[p] = "use" THEN {p} ELSE {}
<1>1. bp[p] \in Buf /\ blockno[bp[p]] \in Block /\ lock[bp[p]] = p
    BY NoneAssumption DEF IInv, TypeOK, BufferOK, NamedOK, LockOK
<1>2. ASSUME NEW q \in Process, bpc[q] = "use", blockno[bp[q]] = blockno[bp[p]] PROVE q = p
    <2>1. bp[q] \in Buf /\ lock[bp[q]] = q
        BY <1>2, NoneAssumption DEF IInv, TypeOK, BufferOK, LockOK
    <2>2. bp[q] = bp[p]
        BY <1>1, <1>2, <2>1, NoneAssumption DEF IInv, UniqueOK
    <2> QED
        BY <1>1, <2>1, <2>2
<1> QED
    BY <1>1, <1>2 DEF Users

\* No user has the lock of a buffer that is free to be taken.
LEMMA NoUsers ==
    ASSUME IInv, NEW b \in Buf, lock[b] = None, blockno[b] \in Block
    PROVE  Users(blockno[b]) = {}
<1> SUFFICES ASSUME NEW q \in Process, bpc[q] = "use", blockno[bp[q]] = blockno[b] PROVE FALSE
    BY DEF Users
<1>1. bp[q] \in Buf /\ lock[bp[q]] = q
    BY NoneAssumption DEF IInv, TypeOK, BufferOK, LockOK
<1>2. bp[q] = b
    BY <1>1, NoneAssumption DEF IInv, UniqueOK
<1> QED
    BY <1>1, <1>2, NoneAssumption

SameMem == \A s \in Block : Mem(s)' = Mem(s)
SameUsers == \A s \in Block : Users(s)' = Users(s)

\* bget() and the end of brelse() change nothing that a user of blocks sees:
\* the buffer that is recycled is clean, or has no contents.
LEMMA HiddenStep ==
    ASSUME IInv, MemOK, MemOK', NEW p \in Process,
           \/ \E s \in Block : BgetHit(p, s) \/ BgetRecycle(p, s) \/ BgetPanic(p, s)
           \/ BrelsePut(p) \/ Bwrite(p)
    PROVE  SameMem /\ SameUsers
<1> USE DEF SameMem, SameUsers
<1>1. ASSUME NEW s \in Block, BgetHit(p, s) PROVE SameMem /\ SameUsers
    <2>1. UNCHANGED <<blockno, valid, data, disk>>
        BY <1>1 DEF BgetHit
    <2>2. \A q \in Process : bpc'[q] = "use" <=> bpc[q] = "use"
        BY <1>1 DEF BgetHit, IInv, TypeOK
    <2>3. \A q \in Process : bpc[q] = "use" => bp'[q] = bp[q]
        BY <1>1 DEF BgetHit, IInv, TypeOK
    <2> QED
        BY <2>1, <2>2, <2>3 DEF Mem, Users
<1>2. ASSUME NEW s \in Block, BgetRecycle(p, s) PROVE SameMem /\ SameUsers
    <2>0. \A k \in DOMAIN lru : lru[k] \in Buf
        BY DEF IInv, TypeOK
    <2>1. PICK b \in Buf : /\ Free(b)
                           /\ blockno' = [blockno EXCEPT ![b] = s]
                           /\ valid' = valid \ {b}
                           /\ bp' = [bp EXCEPT ![p] = b]
        BY <1>2, <2>0 DEF BgetRecycle
    <2>2. /\ bpc[p] = "out" /\ bpc' = [bpc EXCEPT ![p] = "lock"]
          /\ UNCHANGED <<data, disk>>
        BY <1>2 DEF BgetRecycle
    <2>3. \A q \in Process : bp[q] # b
        BY <2>1, FreeIsUnused DEF IInv, Free
    <2>4. ASSUME NEW x \in Block PROVE Mem(x)' = Mem(x)
        <3>1. CASE \E a \in valid : a # b /\ blockno[a] = x
            <4>1. PICK a \in valid : a # b /\ blockno[a] = x
                BY <3>1
            <4>2. a \in valid' /\ blockno'[a] = x /\ data'[a] = data[a]
                BY <2>1, <2>2, <4>1 DEF IInv, TypeOK
            <4> QED
                BY <4>1, <4>2 DEF MemOK
        <3>2. CASE \A a \in valid : a # b => blockno[a] # x
            <4>1. \A a \in valid' : blockno'[a] # x
                BY <2>1, <3>2 DEF IInv, TypeOK
            <4>2. Mem(x)' = disk[x]
                BY <2>2, <4>1 DEF MemOK
            <4>3. Mem(x) = disk[x]
                <5>1. CASE b \in valid /\ blockno[b] = x
                    BY <2>1, <5>1 DEF IInv, CleanOK, Free, MemOK
                <5>2. CASE ~(b \in valid /\ blockno[b] = x)
                    BY <3>2, <5>2 DEF MemOK
                <5> QED
                    BY <5>1, <5>2
            <4> QED
                BY <4>2, <4>3
        <3> QED
            BY <3>1, <3>2
    <2>5. \A q \in Process : /\ bpc'[q] = "use" <=> bpc[q] = "use"
                             /\ bpc[q] = "use" => bp'[q] = bp[q] /\ bp[q] \in Buf
                             /\ bpc[q] = "use" => blockno'[bp[q]] = blockno[bp[q]]
        BY <2>1, <2>2, <2>3, NoneAssumption DEF IInv, TypeOK, BufferOK
    <2> QED
        BY <2>4, <2>5 DEF Users
<1>3. ASSUME NEW s \in Block, BgetPanic(p, s) PROVE SameMem /\ SameUsers
    BY <1>3 DEF BgetPanic, cacheVars, Mem, Users
<1>4. CASE BrelsePut(p)
    <2>1. UNCHANGED <<blockno, valid, data, disk>>
        BY <1>4 DEF BrelsePut
    <2>2. \A q \in Process : bpc'[q] = "use" <=> bpc[q] = "use"
        BY <1>4 DEF BrelsePut, IInv, TypeOK
    <2>3. \A q \in Process : bpc[q] = "use" => bp'[q] = bp[q]
        BY <1>4 DEF BrelsePut, IInv, TypeOK
    <2> QED
        BY <2>1, <2>2, <2>3 DEF Mem, Users
<1>5. CASE Bwrite(p)
    <2>1. bp[p] \in valid /\ bp[p] \in Buf
        BY <1>5 DEF Bwrite, IInv, FlagsOK, TypeOK
    <2>2. /\ UNCHANGED <<blockno, data, bpc, bp>> /\ valid' = valid
          /\ disk' = [disk EXCEPT ![blockno[bp[p]]] = data[bp[p]]]
        BY <1>5, <2>1 DEF Bwrite
    <2>3. ASSUME NEW x \in Block PROVE Mem(x)' = Mem(x)
        <3>1. CASE \E a \in valid : blockno[a] = x
            BY <2>2, <3>1 DEF MemOK
        <3>2. CASE \A a \in valid : blockno[a] # x
            <4>1. disk'[x] = disk[x]
                BY <2>1, <2>2, <3>2 DEF IInv, TypeOK
            <4> QED
                BY <2>2, <3>2, <4>1 DEF MemOK
        <3> QED
            BY <3>1, <3>2
    <2> QED
        BY <2>2, <2>3 DEF Users
<1> QED
    BY <1>1, <1>2, <1>3, <1>4, <1>5

\* A process that gets the lock, or fills the buffer it has locked, becomes
\* the one user of the block.
LEMMA AcquireStep ==
    ASSUME IInv, MemOK, MemOK', NEW p \in Process, BgetLock(p) \/ BreadFill(p)
    PROVE  SameMem /\ (SameUsers \/ \E s \in Block : Store!Acquire(p, s))
<1> DEFINE s == blockno[bp[p]]
<1>0. bp[p] \in Buf /\ s \in Block
    BY NoneAssumption DEF IInv, TypeOK, BufferOK, NamedOK, BgetLock, BreadFill
<1>1. CASE BgetLock(p)
    <2>1. SameMem
        BY <1>1 DEF BgetLock, SameMem, Mem
    <2>2. Users(s) = {}
        BY <1>0, <1>1, NoUsers DEF BgetLock
    <2>3. CASE bp[p] \in valid
        <3>1. \A q \in Process : bpc'[q] = IF q = p THEN "use" ELSE bpc[q]
            BY <1>1, <2>3 DEF BgetLock, IInv, TypeOK
        <3>2. UNCHANGED <<bp, blockno>> /\ bpc[p] = "lock"
            BY <1>1 DEF BgetLock
        <3>3. \A x \in Block : Users(x)' = IF x = s THEN {p} ELSE Users(x)
            BY <2>2, <3>1, <3>2 DEF Users
        <3>4. Store!Acquire(p, s)
            BY <1>0, <2>1, <2>2, <3>3 DEF Store!Acquire, SameMem
        <3> QED
            BY <1>0, <2>1, <3>4
    <2>4. CASE bp[p] \notin valid
        <3>1. \A q \in Process : bpc'[q] = "use" <=> bpc[q] = "use"
            BY <1>1, <2>4 DEF BgetLock, IInv, TypeOK
        <3>2. UNCHANGED <<bp, blockno>>
            BY <1>1 DEF BgetLock
        <3> QED
            BY <2>1, <3>1, <3>2 DEF SameUsers, Users
    <2> QED
        BY <2>3, <2>4
<1>2. CASE BreadFill(p)
    <2>1. /\ bp[p] \notin valid /\ valid' = valid \cup {bp[p]}
          /\ data' = [data EXCEPT ![bp[p]] = disk[s]]
          /\ UNCHANGED <<blockno, disk, bp>>
        BY <1>2 DEF BreadFill, IInv, FlagsOK
    <2>2. Users(s) = {}
        BY <1>2, UsersAre DEF BreadFill
    <2>3. ASSUME NEW x \in Block PROVE Mem(x)' = Mem(x)
        <3>1. CASE x = s
            <4>1. \A a \in valid : blockno[a] # s
                BY <1>0, <2>1, NoneAssumption DEF IInv, TypeOK, UniqueOK
            <4>2. data'[bp[p]] = disk[x] /\ bp[p] \in valid' /\ blockno'[bp[p]] = x
                BY <1>0, <2>1, <3>1 DEF IInv, TypeOK
            <4>3. Mem(x)' = disk[x]
                BY <4>2 DEF MemOK
            <4> QED
                BY <1>0, <3>1, <4>1, <4>3 DEF MemOK
        <3>2. CASE x # s
            <4>1. CASE \E a \in valid : blockno[a] = x
                <5>1. PICK a \in valid : blockno[a] = x
                    BY <4>1
                <5>2. a \in valid' /\ blockno'[a] = x /\ data'[a] = data[a]
                    BY <2>1, <3>2, <5>1 DEF IInv, TypeOK
                <5> QED
                    BY <5>1, <5>2 DEF MemOK
            <4>2. CASE \A a \in valid : blockno[a] # x
                BY <2>1, <3>2, <4>2 DEF MemOK
            <4> QED
                BY <4>1, <4>2
        <3> QED
            BY <3>1, <3>2
    <2>4. \A q \in Process : bpc'[q] = IF q = p THEN "use" ELSE bpc[q]
        BY <1>2 DEF BreadFill, IInv, TypeOK
    <2>5. \A x \in Block : Users(x)' = IF x = s THEN {p} ELSE Users(x)
        BY <1>2, <2>1, <2>2, <2>4 DEF Users, BreadFill
    <2>6. Store!Acquire(p, s)
        BY <1>0, <2>2, <2>3, <2>5 DEF Store!Acquire
    <2> QED
        BY <1>0, <2>3, <2>6 DEF SameMem
<1> QED
    BY <1>1, <1>2

\* log_write() changes the contents of the block for everyone.
LEMMA WriteStep ==
    ASSUME IInv, MemOK, MemOK', NEW p \in Process, NEW v \in Val, Modify(p, v)
    PROVE  \E s \in Block : Store!Write(p, s, v)
<1> DEFINE s == blockno[bp[p]]
<1>0. bp[p] \in Buf /\ s \in Block /\ bp[p] \in valid
    BY NoneAssumption DEF IInv, TypeOK, BufferOK, NamedOK, FlagsOK, Modify
<1>1. Users(s) = {p}
    BY UsersAre DEF Modify
<1>2. data' = [data EXCEPT ![bp[p]] = v] /\ UNCHANGED <<blockno, valid, disk, bpc, bp>>
    BY DEF Modify
<1>3. ASSUME NEW x \in Block PROVE Mem(x)' = IF x = s THEN v ELSE Mem(x)
    <2>1. CASE x = s
        BY <1>0, <1>2, <2>1 DEF MemOK, IInv, TypeOK
    <2>2. CASE x # s
        <3>1. CASE \E a \in valid : blockno[a] = x
            <4>1. PICK a \in valid : blockno[a] = x
                BY <3>1
            <4>2. data'[a] = data[a]
                BY <1>2, <2>2, <4>1 DEF IInv, TypeOK
            <4> QED
                BY <1>2, <2>2, <4>1, <4>2 DEF MemOK
        <3>2. CASE \A a \in valid : blockno[a] # x
            BY <1>2, <2>2, <3>2 DEF MemOK
        <3> QED
            BY <3>1, <3>2
    <2> QED
        BY <2>1, <2>2
<1>4. \A x \in Block : Users(x)' = Users(x)
    BY <1>2 DEF Users
<1>5. Store!Write(p, s, v)
    BY <1>0, <1>1, <1>3, <1>4 DEF Store!Write
<1> QED
    BY <1>0, <1>5

\* releasesleep() in brelse().
LEMMA ReleaseStep ==
    ASSUME IInv, NEW p \in Process, BrelseUnlock(p)
    PROVE  \E s \in Block : Store!Release(p, s)
<1> DEFINE s == blockno[bp[p]]
<1>0. s \in Block /\ Users(s) = {p}
    BY UsersAre DEF BrelseUnlock
<1>1. UNCHANGED <<blockno, valid, data, disk, bp>>
    BY DEF BrelseUnlock
<1>2. SameMem
    BY <1>1 DEF SameMem, Mem
<1>3. \A q \in Process : bpc'[q] = "use" <=> bpc[q] = "use" /\ q # p
    BY DEF BrelseUnlock, IInv, TypeOK
<1>4. \A x \in Block : Users(x)' = IF x = s THEN {} ELSE Users(x)
    <2> TAKE x \in Block
    <2>1. Users(x)' = Users(x) \ {p}
        BY <1>1, <1>3 DEF Users
    <2>2. x # s => p \notin Users(x)
        BY DEF Users
    <2> QED
        BY <1>0, <2>1, <2>2
<1>5. Store!Release(p, s)
    BY <1>0, <1>2, <1>4 DEF Store!Release, SameMem
<1> QED
    BY <1>0, <1>5

\* The cache implements the block store: for its users, every block is one
\* cell with one user at a time, however buffers are recycled.
THEOREM CacheImplementsStore == Spec => CacheIsTransparent
<1> DEFINE mem == [s \in Block |-> Mem(s)]
           users == [s \in Block |-> Users(s)]
<1>1. Init => Store!Init
    <2> SUFFICES ASSUME Init PROVE Store!Init
        OBVIOUS
    <2>1. \A s \in Block : Mem(s) = disk[s] /\ Users(s) = {}
        BY DEF Init, Mem, Users
    <2> QED
        BY <2>1 DEF Init, Store!Init
<1>2. IInv' => MemOK'
    BY MemIs, PTL
<1>3. ASSUME IInv, [Next]_vars PROVE [Store!Next]_<<mem, users>>
    <2>0. MemOK /\ MemOK'
        BY <1>2, <1>3, MemIs, IInvStep
    <2>1. SameMem /\ SameUsers => UNCHANGED <<mem, users>>
        BY DEF SameMem, SameUsers
    <2>2. CASE UNCHANGED vars
        BY <2>2 DEF vars, cacheVars, Mem, Users
    <2>3. ASSUME NEW p \in Process, NEW s \in Block,
                 BgetHit(p, s) \/ BgetRecycle(p, s) \/ BgetPanic(p, s)
          PROVE  UNCHANGED <<mem, users>>
        BY <1>3, <2>0, <2>1, <2>3, HiddenStep
    <2>4. ASSUME NEW p \in Process, BrelsePut(p) \/ Bwrite(p) PROVE UNCHANGED <<mem, users>>
        BY <1>3, <2>0, <2>1, <2>4, HiddenStep
    <2>5. ASSUME NEW p \in Process, BgetLock(p) \/ BreadFill(p)
          PROVE  Store!Next \/ UNCHANGED <<mem, users>>
        BY <1>3, <2>0, <2>1, <2>5, AcquireStep DEF Store!Next
    <2>6. ASSUME NEW p \in Process, NEW v \in Val, Modify(p, v) PROVE Store!Next
        BY <1>3, <2>0, <2>6, WriteStep DEF Store!Next
    <2>7. ASSUME NEW p \in Process, BrelseUnlock(p) PROVE Store!Next
        BY <1>3, <2>7, ReleaseStep DEF Store!Next
    <2> QED
        BY <1>3, <2>2, <2>3, <2>4, <2>5, <2>6, <2>7 DEF Next, Holder, Halt
<1> QED
    BY <1>1, <1>3, BioInvariant, PTL DEF Spec, CacheIsTransparent, Store!Spec
=============================================================================
