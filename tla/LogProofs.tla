----------------------------- MODULE LogProofs ------------------------------
(***************************************************************************)
(* The write-ahead log for every number of processes and blocks and every  *)
(* size of the log: commits run alone, sleepers have someone to wake them, *)
(* a transaction never outgrows the log, and the log implements            *)
(* AtomicDisk, with the offset of the kernel's partition, where no         *)
(* transaction reaches the file system, and with the offset 0, where the   *)
(* second translation of a logged block does no harm.                      *)
(***************************************************************************)
EXTENDS Log, FiniteSetTheorems, FunctionTheorems, TLAPS

Active == {p \in Process : ppc[p] \in {"op", "append"}}
Committer == {"write_log", "write_head", "install", "clear", "done"}
HomeSector == {Home(b) : b \in Block}

\* The longest transaction: the last operation that began leaves unused what it
\* reserved and does not write.
MaxLog == LOGSIZE - (MAXOPBLOCKS - MaxWrite)

\* A log header lists home sectors, each once, and fits its struct.
IsHeader(l) ==
    /\ l \in Seq(HomeSector) /\ Len(l) <= LOGSIZE /\ Len(l) <= MaxLog
    /\ \A j, k \in 1..Len(l) : l[j] = l[k] => j = k

HeaderOK == IsHeader(lh) /\ IsHeader(dhead)

\* log.outstanding counts the operations inside.
CountOK == outstanding = Cardinality(Active)

\* log.committing is set while one process commits and no operation is inside.
CommitOK ==
    /\ committing <=> \E p \in Process : ppc[p] \in Committer
    /\ CommitAlone

\* The log is empty between transactions; a committer works on a log that is
\* not, with the loop variable inside it; during recovery nobody runs.
PhaseOK ==
    /\ boot \in {"up", "panic"} /\ ~committing /\ Active = {} => lh = <<>>
    /\ boot \notin {"up", "panic"} => \A p \in Process : ppc[p] = "out"
    /\ boot = "read_head" => lh = <<>>
    /\ boot = "install" => i \in 1..Len(lh) /\ lh = dhead
    /\ boot = "clear" => lh = dhead
    /\ \A p \in Process :
         /\ ppc[p] \in {"write_log", "install"} => i \in 1..Len(lh)
         /\ ppc[p] = "write_head" => lh # <<>>
         /\ ppc[p] \in {"install", "clear"} => lh = dhead
         /\ ppc[p] = "done" => lh = <<>>
    /\ boot \in {"up", "panic"} /\ dhead # <<>> => \E p \in Process : ppc[p] \in {"install", "clear"}

\* What an operation has handed to log_write().
WroteOK ==
    \A p \in Process :
        /\ IsFiniteSet(wrote[p]) /\ Cardinality(wrote[p]) <= MaxWrite
        /\ ppc[p] = "append" => blk[p] \in wrote[p] /\ blk[p] \in HomeSector
        /\ ppc[p] # "append" => blk[p] = 0

\* The sectors of the log, and those the operations inside have written.
Logged == {lh[k] : k \in 1..Len(lh)}
Reserved == UNION {wrote[p] : p \in Active}

\* What earlier operations left in the log and the space reserved for the ones
\* inside fit together.
SpaceOK == Cardinality(Logged \ Reserved) + Cardinality(Active) * MAXOPBLOCKS <= LOGSIZE

IInv == /\ TypeOK /\ HeaderOK /\ CountOK /\ CommitOK /\ PhaseOK /\ WroteOK /\ SpaceOK
        /\ SleeperHasWaker

-----------------------------------------------------------------------------
(* Counting *)

\* Sets of at most M elements, one for each of finitely many owners, have
\* together at most M elements for each owner.
LEMMA UnionBound ==
    ASSUME NEW A, IsFiniteSet(A), NEW M \in Nat, NEW w,
           \A p \in A : IsFiniteSet(w[p]) /\ Cardinality(w[p]) <= M
    PROVE  LET U == UNION {w[p] : p \in A}
           IN  IsFiniteSet(U) /\ Cardinality(U) <= Cardinality(A) * M
<1> DEFINE U == UNION {w[p] : p \in A}
           O(s) == CHOOSE p \in A : s \in w[p]
           F(p) == CHOOSE f : f \in Injection(w[p], 1..M)
           g == [s \in U |-> <<O(s), F(O(s))[s]>>]
<1>1. \A s \in U : O(s) \in A /\ s \in w[O(s)]
    OBVIOUS
<1>2. \A p \in A : F(p) \in Injection(w[p], 1..M)
    <2> TAKE p \in A
    <2>1. Cardinality(w[p]) \in Nat /\ ExistsBijection(1..Cardinality(w[p]), w[p])
        BY FS_CardinalityType
    <2>2. PICK h \in Bijection(w[p], 1..Cardinality(w[p])) : TRUE
        <3>1. ExistsBijection(w[p], 1..Cardinality(w[p]))
            BY <2>1, Fun_ExistsBijSymmetric
        <3> QED
            BY <3>1 DEF ExistsBijection
    <2>3. /\ h \in [w[p] -> 1..Cardinality(w[p])]
          /\ \A a, b \in w[p] : h[a] = h[b] => a = b
        BY <2>2, Zenon DEF Bijection, Injection, IsInjective
    <2>4. h \in [w[p] -> 1..M]
        BY <2>1, <2>3
    <2>5. h \in Injection(w[p], 1..M)
        BY <2>3, <2>4, Fun_IsInj
    <2> QED
        BY <2>5
<1> HIDE DEF F
<1>3. \A p \in A : F(p) \in [w[p] -> 1..M] /\ \A a, b \in w[p] : F(p)[a] = F(p)[b] => a = b
    BY <1>2, Fun_InjectionProperties
<1> HIDE DEF O
<1>4. g \in [U -> A \X (1..M)]
    BY <1>1, <1>3
<1>5. \A a, b \in U : g[a] = g[b] => a = b
    BY <1>1, <1>3
<1> HIDE DEF g, U
<1>6. g \in Injection(U, A \X (1..M))
    BY <1>4, <1>5, Fun_IsInj
<1>7. /\ IsFiniteSet(A \X (1..M))
      /\ Cardinality(A \X (1..M)) = Cardinality(A) * M
    <2>1. IsFiniteSet(1..M) /\ Cardinality(1..M) = M
        BY FS_Interval
    <2> QED
        BY <2>1, FS_Product
<1>8. IsFiniteSet(U) /\ Cardinality(U) <= Cardinality(A) * M
    BY <1>6, <1>7, FS_Injection
<1> QED
    BY <1>8 DEF U

\* A sequence without repetitions has as many elements as its length.
LEMMA ElementsCount ==
    ASSUME NEW S, NEW l \in Seq(S), \A j, k \in 1..Len(l) : l[j] = l[k] => j = k
    PROVE  LET E == {l[k] : k \in 1..Len(l)}
           IN  IsFiniteSet(E) /\ Cardinality(E) = Len(l)
<1> DEFINE E == {l[k] : k \in 1..Len(l)}
<1>1. Len(l) \in Nat /\ IsFiniteSet(1..Len(l)) /\ Cardinality(1..Len(l)) = Len(l)
    BY FS_Interval
<1>2. l \in [1..Len(l) -> E] /\ \A t \in E : \E s \in 1..Len(l) : l[s] = t
    OBVIOUS
<1> HIDE DEF E
<1>3. l \in Bijection(1..Len(l), E)
    BY <1>2, Fun_IsBij
<1>4. ExistsBijection(1..Len(l), E)
    BY <1>3 DEF ExistsBijection
<1>5. IsFiniteSet(E) /\ Cardinality(E) = Len(l)
    BY <1>1, <1>4, FS_Bijection
<1> QED
    BY <1>5 DEF E

\* The sectors that blocks live in.
LEMMA SectorFacts ==
    /\ HomeSector \subseteq Sector /\ HomeSector \subseteq Nat /\ 0 \notin Sector
    /\ \A s \in HomeSector : s + LBA \in Sector
    /\ \A b \in Block : Home(b) \in HomeSector
<1>1. HomeSector \subseteq Nat /\ HomeSector \subseteq Sector
    <2>1. \A b \in Block : Home(b) = b + 1 * LBA /\ Home(b) \in Nat
        BY BlockAssumption DEF Home
    <2> QED
        BY <2>1 DEF HomeSector, Sector
<1>2. 0 \notin Sector
    BY BlockAssumption DEF Sector
<1>3. \A s \in HomeSector : s + LBA \in Sector
    <2>1. \A b \in Block : Home(b) + LBA = b + 2 * LBA
        BY BlockAssumption DEF Home
    <2> QED
        BY <2>1 DEF HomeSector, Sector
<1> QED
    BY <1>1, <1>2, <1>3 DEF HomeSector

\* The running system calls can be counted.
LEMMA ActiveFinite == IsFiniteSet(Active) /\ Cardinality(Active) \in Nat
    BY FS_Subset, FS_CardinalityType, NoBufAssumption DEF Active

LoggedOnce ==
    lh \in Seq(HomeSector) /\ \A j, k \in 1..Len(lh) : lh[j] = lh[k] => j = k

\* A log without repetitions, most of it reserved, fits the header, with room
\* to spare while an operation is inside.
LEMMA TransactionFits ==
    LoggedOnce /\ WroteOK /\ SpaceOK
    => /\ Len(lh) <= LOGSIZE /\ (Active # {} => Len(lh) <= MaxLog)
       /\ IsFiniteSet(Logged) /\ Cardinality(Logged) = Len(lh)
<1> SUFFICES ASSUME LoggedOnce, WroteOK, SpaceOK
             PROVE  /\ Len(lh) <= LOGSIZE /\ (Active # {} => Len(lh) <= MaxLog)
                    /\ IsFiniteSet(Logged) /\ Cardinality(Logged) = Len(lh)
    OBVIOUS
<1>1. IsFiniteSet(Logged) /\ Cardinality(Logged) = Len(lh)
    BY ElementsCount DEF Logged, LoggedOnce
<1>2. IsFiniteSet(Reserved) /\ Cardinality(Reserved) <= Cardinality(Active) * MaxWrite
    <2>1. \A p \in Active : IsFiniteSet(wrote[p]) /\ Cardinality(wrote[p]) <= MaxWrite
        BY DEF WroteOK, Active
    <2> QED
        BY <2>1, ActiveFinite, SizeAssumption, UnionBound DEF Reserved
<1>3. /\ IsFiniteSet(Logged \ Reserved) /\ Cardinality(Logged \ Reserved) \in Nat
      /\ Cardinality(Logged \ Reserved) = Cardinality(Logged) - Cardinality(Logged \cap Reserved)
    BY <1>1, FS_Difference, FS_CardinalityType
<1>4. /\ Cardinality(Logged \cap Reserved) \in Nat
      /\ Cardinality(Logged \cap Reserved) <= Cardinality(Reserved)
    BY <1>1, <1>2, FS_Intersection, FS_CardinalityType
<1> DEFINE n == Cardinality(Active)
           a == n * MAXOPBLOCKS
           w == n * MaxWrite
<1>5. n \in Nat /\ (Active # {} => n > 0)
    BY ActiveFinite, FS_EmptySet
<1>6. Cardinality(Reserved) \in Nat /\ Len(lh) \in Nat
    BY <1>2, FS_CardinalityType DEF LoggedOnce
<1>7. a \in Nat /\ w \in Nat /\ w <= a /\ (n > 0 => w + (MAXOPBLOCKS - MaxWrite) <= a)
    <2> HIDE DEF n
    <2>1. PICK d \in Nat : MAXOPBLOCKS = MaxWrite + d
        <3>1. MAXOPBLOCKS - MaxWrite \in Nat /\ MAXOPBLOCKS = MaxWrite + (MAXOPBLOCKS - MaxWrite)
            BY SizeAssumption
        <3> QED
            BY <3>1
    <2>2. n * (MaxWrite + d) = n * MaxWrite + n * d
        BY <1>5, <2>1, SizeAssumption
    <2>3. n * d \in Nat /\ (n > 0 => n * d >= d) /\ n * MaxWrite \in Nat
        BY <1>5, <2>1, SizeAssumption
    <2> QED
        BY <2>1, <2>2, <2>3, SizeAssumption
<1>8. Cardinality(Logged \ Reserved) + a <= LOGSIZE
    BY DEF SpaceOK
<1> HIDE DEF n, a, w
<1>9. Cardinality(Reserved) <= w
    BY <1>2 DEF n, w
<1>10. Len(lh) <= LOGSIZE
    BY <1>1, <1>3, <1>4, <1>6, <1>7, <1>8, <1>9, SizeAssumption
<1>11. Active # {} => Len(lh) <= MaxLog
    BY <1>1, <1>3, <1>4, <1>5, <1>6, <1>7, <1>8, <1>9, SizeAssumption DEF MaxLog
<1> QED
    BY <1>1, <1>10, <1>11

\* Space is kept when nothing is logged that was not reserved and no operation
\* begins.
LEMMA SpaceKept ==
    ASSUME IInv, (Logged \ Reserved)' \subseteq Logged \ Reserved, Active' \subseteq Active
    PROVE  SpaceOK'
<1>1. IsFiniteSet(Logged \ Reserved)
    BY TransactionFits, FS_Difference DEF IInv, HeaderOK, IsHeader, LoggedOnce
<1>2. /\ IsFiniteSet((Logged \ Reserved)')
      /\ Cardinality((Logged \ Reserved)') <= Cardinality(Logged \ Reserved)
    BY <1>1, FS_Subset
<1>3. Cardinality(Active') \in Nat /\ Cardinality(Active') <= Cardinality(Active)
    BY ActiveFinite, FS_Subset, FS_CardinalityType
<1>4. Cardinality(Active') * MAXOPBLOCKS <= Cardinality(Active) * MAXOPBLOCKS
    BY <1>3, ActiveFinite, SizeAssumption
<1>5. Cardinality((Logged \ Reserved)') \in Nat /\ Cardinality(Logged \ Reserved) \in Nat
    BY <1>1, <1>2, FS_CardinalityType
<1>6. Cardinality(Active') * MAXOPBLOCKS \in Nat /\ Cardinality(Active) * MAXOPBLOCKS \in Nat
    BY <1>3, ActiveFinite, SizeAssumption
<1>7. Cardinality((Logged \ Reserved)') + Cardinality(Active') * MAXOPBLOCKS <= LOGSIZE
    BY <1>2, <1>4, <1>5, <1>6, SizeAssumption DEF IInv, SpaceOK
<1> QED
    BY <1>7 DEF SpaceOK

-----------------------------------------------------------------------------
(* The inductive invariant *)

\* A step that leaves the log and the processes alone.
LEMMA FrameStep ==
    ASSUME IInv, TypeOK', UNCHANGED <<dhead, logVars, procVars, boot, i>>
    PROVE  IInv'
<1>1. UNCHANGED <<dhead, lh, outstanding, committing, ppc, blk, wrote, boot, i>>
    BY DEF logVars, procVars
<1>2. UNCHANGED <<Active, Logged, Reserved>>
    BY <1>1 DEF Active, Logged, Reserved
<1>3. SpaceOK' /\ CountOK' /\ HeaderOK'
    BY <1>1, <1>2 DEF IInv, SpaceOK, CountOK, HeaderOK, IsHeader
<1>4. CommitOK' /\ WroteOK' /\ SleeperHasWaker'
    BY <1>1 DEF IInv, CommitOK, CommitAlone, WroteOK, SleeperHasWaker
<1>5. PhaseOK'
    BY <1>1, <1>2 DEF IInv, PhaseOK
<1> QED
    BY <1>3, <1>4, <1>5 DEF IInv

\* begin_op() before the operation is counted.  A process goes to sleep only
\* when a commit runs or operations are inside: an empty log has room for one.
LEMMA BeginStep ==
    ASSUME IInv, NEW p \in Process, CallBegin(p) \/ BeginWait(p)
    PROVE  IInv'
<1>1. /\ UNCHANGED <<dhead, dlog, home, cache, dirty, lh, outstanding, committing,
                     blk, wrote, boot, i>>
      /\ \/ ppc[p] = "out" /\ ppc' = [ppc EXCEPT ![p] = "begin"]
         \/ ppc[p] = "begin" /\ ppc' = [ppc EXCEPT ![p] = "wait"] /\ MustWait
      /\ boot = "up" /\ TypeOK
    BY DEF CallBegin, BeginWait, diskVars, cacheVars, logVars, IInv, Up
<1>2. TypeOK'
    BY <1>1 DEF TypeOK
<1>3. UNCHANGED <<Active, Logged, Reserved>>
    <2>1. Active' = Active
        BY <1>1 DEF Active, TypeOK
    <2> QED
        BY <1>1, <2>1 DEF Logged, Reserved
<1>4. SpaceOK' /\ CountOK' /\ HeaderOK'
    BY <1>1, <1>3 DEF IInv, SpaceOK, CountOK, HeaderOK, IsHeader
<1>5. CommitOK'
    BY <1>1 DEF IInv, TypeOK, CommitOK, CommitAlone, Committer
<1>6. PhaseOK'
    BY <1>1, <1>3 DEF IInv, TypeOK, PhaseOK
<1>7. WroteOK'
    BY <1>1 DEF IInv, TypeOK, WroteOK
<1>8. SleeperHasWaker'
    <2>1. CASE ppc[p] = "out" /\ ppc' = [ppc EXCEPT ![p] = "begin"]
        BY <1>1, <2>1 DEF IInv, TypeOK, SleeperHasWaker
    <2>2. CASE ppc[p] = "begin" /\ ppc' = [ppc EXCEPT ![p] = "wait"] /\ MustWait
        <3>1. \E q \in Process : ppc[q] \notin {"out", "begin", "wait"}
            <4>1. CASE committing
                BY <4>1 DEF IInv, CommitOK, Committer
            <4>2. CASE ~committing /\ Active = {}
                <5>1. lh = <<>> /\ outstanding = 0
                    BY <1>1, <4>2, FS_EmptySet DEF IInv, PhaseOK, CountOK
                <5>2. ~MustWait
                    BY <4>2, <5>1, SizeAssumption DEF MustWait
                <5> QED
                    BY <2>2, <5>2
            <4>3. CASE Active # {}
                BY <4>3 DEF Active
            <4> QED
                BY <4>1, <4>2, <4>3
        <3> QED
            BY <1>1, <2>2, <3>1 DEF TypeOK, SleeperHasWaker
    <2> QED
        BY <1>1, <2>1, <2>2
<1> QED
    BY <1>2, <1>4, <1>5, <1>6, <1>7, <1>8 DEF IInv

\* begin_op() lets an operation in: the log has room for all it may write.
LEMMA BeginOpStep ==
    ASSUME IInv, NEW p \in Process, BeginOp(p)
    PROVE  IInv'
<1>1. /\ UNCHANGED <<dhead, dlog, home, cache, dirty, lh, committing, blk, boot, i>>
      /\ ppc[p] = "begin" /\ ppc' = [ppc EXCEPT ![p] = "op"] /\ wrote' = [wrote EXCEPT ![p] = {}]
      /\ outstanding' = outstanding + 1
      /\ ~committing /\ Len(lh) + (outstanding + 1) * MAXOPBLOCKS <= LOGSIZE
      /\ boot = "up" /\ TypeOK
    <2>1. lh \in Seq(Sector) /\ outstanding \in Nat
        BY DEF IInv, TypeOK
    <2>2. ~(Len(lh) + (outstanding + 1) * MAXOPBLOCKS > LOGSIZE)
        BY DEF BeginOp, MustWait
    <2>3. Len(lh) + (outstanding + 1) * MAXOPBLOCKS <= LOGSIZE
        BY <2>1, <2>2, SizeAssumption
    <2> QED
        BY <2>3 DEF BeginOp, MustWait, diskVars, cacheVars, IInv, Up
<1>2. TypeOK'
    BY <1>1 DEF TypeOK
<1>3. Active' = Active \cup {p} /\ p \notin Active
    BY <1>1 DEF Active, TypeOK
<1>4. Cardinality(Active') = outstanding + 1
    BY <1>3, ActiveFinite, FS_AddElement DEF IInv, CountOK
<1>5. CountOK' /\ HeaderOK'
    BY <1>1, <1>4 DEF IInv, CountOK, HeaderOK, IsHeader
<1>6. SpaceOK'
    <2>1. IsFiniteSet(Logged) /\ Cardinality(Logged) = Len(lh)
        BY TransactionFits DEF IInv, HeaderOK, IsHeader, LoggedOnce
    <2>2. (Logged \ Reserved)' \subseteq Logged
        BY <1>1 DEF Logged
    <2>3. /\ Cardinality((Logged \ Reserved)') <= Len(lh)
          /\ Cardinality((Logged \ Reserved)') \in Nat
        BY <2>1, <2>2, FS_Subset, FS_CardinalityType
    <2>4. Len(lh) \in Nat /\ (outstanding + 1) * MAXOPBLOCKS \in Nat
        BY <1>1, SizeAssumption DEF TypeOK
    <2>5. Cardinality((Logged \ Reserved)') + Cardinality(Active') * MAXOPBLOCKS <= LOGSIZE
        BY <1>1, <1>4, <2>3, <2>4, SizeAssumption
    <2> QED
        BY <2>5 DEF SpaceOK
<1>7. CommitOK'
    BY <1>1 DEF IInv, TypeOK, CommitOK, CommitAlone, Committer
<1>8. PhaseOK'
    BY <1>1, <1>3 DEF IInv, TypeOK, PhaseOK
<1>9. WroteOK' /\ SleeperHasWaker'
    <2>1. IsFiniteSet({}) /\ Cardinality({}) <= MaxWrite
        BY FS_EmptySet, SizeAssumption
    <2> QED
        BY <1>1, <2>1 DEF IInv, TypeOK, WroteOK, SleeperHasWaker
<1> QED
    BY <1>2, <1>5, <1>6, <1>7, <1>8, <1>9 DEF IInv

\* end_op(): what the operation has logged fits into the space it gives back.
LEMMA EndOpStep ==
    ASSUME IInv, NEW p \in Process, EndOp(p)
    PROVE  IInv' /\ ~committing
<1>1. /\ UNCHANGED <<dhead, dlog, home, cache, dirty, lh, blk, wrote>>
      /\ ppc[p] = "op" /\ boot = "up" /\ TypeOK
      /\ outstanding' = outstanding - 1
    BY DEF EndOp, diskVars, cacheVars, IInv, Up
<1>2. ~committing
    BY <1>1 DEF IInv, CommitOK, CommitAlone, Committer
<1>3. \A q \in Process : ppc[q] \notin Committer
    BY <1>2 DEF IInv, CommitOK
<1>4. /\ boot' = boot
      /\ \/ /\ outstanding' = 0 /\ committing' = TRUE /\ i' = 1
            /\ ppc' = [ppc EXCEPT ![p] = IF lh = <<>> THEN "done" ELSE "write_log"]
         \/ /\ outstanding' # 0 /\ UNCHANGED <<committing, i>>
            /\ ppc' = Woken([ppc EXCEPT ![p] = "out"])
    BY <1>2 DEF EndOp
<1>5. Active' = Active \ {p} /\ p \in Active
    BY <1>1, <1>4 DEF Active, TypeOK, Woken
<1>6. CountOK' /\ outstanding' \in Nat /\ IsFiniteSet(Active')
    <2>1. IsFiniteSet(Active') /\ Cardinality(Active') = Cardinality(Active) - 1
        BY <1>5, ActiveFinite, FS_RemoveElement
    <2> QED
        BY <1>1, <2>1, FS_CardinalityType DEF IInv, CountOK
<1>7. TypeOK'
    <2>1. ppc' \in [Process -> {"out", "begin", "wait", "op", "append", "write_log",
                                "write_head", "install", "clear", "done"}]
        BY <1>1, <1>4 DEF TypeOK, Woken
    <2>2. i' \in 1..LOGSIZE
        <3>1. 1 \in 1..LOGSIZE
            BY SizeAssumption
        <3> QED
            BY <1>1, <1>4, <3>1 DEF TypeOK
    <2>3. committing' \in BOOLEAN
        BY <1>1, <1>4, Zenon DEF TypeOK
    <2> QED
        BY <1>1, <1>4, <1>6, <2>1, <2>2, <2>3 DEF TypeOK
<1>8. HeaderOK' /\ WroteOK'
    BY <1>1, <1>4 DEF IInv, TypeOK, HeaderOK, IsHeader, WroteOK, Woken
<1>9. SpaceOK'
    <2>1. (Logged \ Reserved)' \subseteq (Logged \ Reserved) \cup wrote[p]
        BY <1>1, <1>5 DEF Logged, Reserved
    <2>2. IsFiniteSet(wrote[p]) /\ Cardinality(wrote[p]) <= MAXOPBLOCKS
        <3>1. IsFiniteSet(wrote[p]) /\ Cardinality(wrote[p]) <= MaxWrite
            BY DEF IInv, WroteOK
        <3>2. Cardinality(wrote[p]) \in Nat
            BY <3>1, FS_CardinalityType
        <3> QED
            BY <3>1, <3>2, SizeAssumption
    <2>3. IsFiniteSet(Logged \ Reserved)
        BY TransactionFits, FS_Difference DEF IInv, HeaderOK, IsHeader, LoggedOnce
    <2> DEFINE a == Cardinality(Logged \ Reserved)
               b == Cardinality(wrote[p])
               c == Cardinality((Logged \ Reserved) \cap wrote[p])
               u == Cardinality((Logged \ Reserved) \cup wrote[p])
               d == Cardinality((Logged \ Reserved)')
               n == Cardinality(Active)
    <2>4. /\ a \in Nat /\ b \in Nat /\ c \in Nat /\ u = a + b - c
          /\ IsFiniteSet((Logged \ Reserved) \cup wrote[p])
        BY <2>2, <2>3, FS_Union, FS_Intersection, FS_CardinalityType
    <2>5. d <= u /\ d \in Nat
        BY <2>1, <2>4, FS_Subset, FS_CardinalityType
    <2>6. Cardinality(Active') = n - 1 /\ n \in Nat
        BY <1>5, ActiveFinite, FS_RemoveElement
    <2>7. a + n * MAXOPBLOCKS <= LOGSIZE /\ b <= MAXOPBLOCKS
        BY <2>2 DEF IInv, SpaceOK
    <2> HIDE DEF a, b, c, d, u, n
    <2>8. (n - 1) * MAXOPBLOCKS = n * MAXOPBLOCKS - MAXOPBLOCKS
        BY <2>6, SizeAssumption
    <2>9. n * MAXOPBLOCKS \in Int
        BY <2>6, SizeAssumption
    <2>10. d + (n - 1) * MAXOPBLOCKS <= LOGSIZE
        BY <2>4, <2>5, <2>7, <2>8, <2>9, SizeAssumption
    <2> QED
        BY <2>6, <2>10 DEF SpaceOK, d
<1>10. CASE outstanding' = 0
    <2>1. Active' = {}
        BY <1>6, <1>10, FS_EmptySet DEF CountOK
    <2>2. \A q \in Process : q # p => ppc'[q] \in {"out", "begin", "wait"}
        BY <1>1, <1>3, <1>4, <1>10, <2>1 DEF Active, Committer, TypeOK
    <2>3. /\ committing' = TRUE /\ i' = 1
          /\ ppc'[p] = IF lh = <<>> THEN "done" ELSE "write_log"
        BY <1>1, <1>4, <1>10 DEF TypeOK
    <2>4. CommitOK' /\ SleeperHasWaker'
        BY <2>2, <2>3 DEF CommitOK, CommitAlone, Committer, SleeperHasWaker
    <2>5. dhead = <<>>
        BY <1>1, <1>3 DEF IInv, PhaseOK, Committer
    <2>6. lh # <<>> => 1 \in 1..Len(lh)
        BY <1>1 DEF TypeOK
    <2>7. PhaseOK'
        BY <1>1, <1>4, <2>2, <2>3, <2>5, <2>6 DEF PhaseOK
    <2> QED
        BY <1>2, <1>6, <1>7, <1>8, <1>9, <2>4, <2>7 DEF IInv
<1>11. CASE outstanding' # 0
    <2>1. Active' # {}
        BY <1>6, <1>11, FS_EmptySet DEF CountOK
    <2>2. /\ UNCHANGED <<committing, i>>
          /\ \A q \in Process : ppc'[q] \in {"out", "begin", "op", "append"}
        BY <1>1, <1>3, <1>4, <1>11 DEF TypeOK, Woken, Committer
    <2>3. CommitOK' /\ SleeperHasWaker'
        BY <1>2, <2>2 DEF CommitOK, CommitAlone, Committer, SleeperHasWaker
    <2>4. dhead = <<>>
        BY <1>1, <1>3 DEF IInv, PhaseOK, Committer
    <2>5. PhaseOK'
        BY <1>1, <1>4, <2>1, <2>2, <2>4 DEF PhaseOK
    <2> QED
        BY <1>2, <1>6, <1>7, <1>8, <1>9, <2>3, <2>5 DEF IInv
<1> QED
    BY <1>10, <1>11

\* The first half of log_write(): one more block of the operation.
LEMMA ModifyStep ==
    ASSUME IInv, NEW p \in Process, NEW b \in Block, NEW v \in Val, Modify(p, b, v)
    PROVE  IInv'
<1> DEFINE s == Home(b)
<1>1. s \in Sector /\ s \in HomeSector
    BY SectorFacts
<1>2. /\ UNCHANGED <<dhead, dlog, home, dirty, lh, outstanding, committing, i>>
      /\ cache' = [cache EXCEPT ![s] = v] /\ Cardinality(wrote[p] \cup {s}) <= MaxWrite
      /\ ppc[p] = "op" /\ boot = "up" /\ TypeOK
      /\ \/ boot' = "panic" /\ UNCHANGED <<ppc, blk, wrote>>
         \/ /\ ppc' = [ppc EXCEPT ![p] = "append"] /\ blk' = [blk EXCEPT ![p] = s]
            /\ wrote' = [wrote EXCEPT ![p] = @ \cup {s}] /\ boot' = boot
    BY DEF Modify, diskVars, logVars, procVars, IInv, Up
<1> HIDE DEF s
<1>3. TypeOK'
    <2>1. wrote[p] \cup {s} \in SUBSET Sector
        BY <1>1, <1>2 DEF TypeOK
    <2>2. wrote' \in [Process -> SUBSET Sector]
        BY <1>2, <2>1 DEF TypeOK
    <2>3. ppc' \in [Process -> {"out", "begin", "wait", "op", "append", "write_log",
                                "write_head", "install", "clear", "done"}]
        BY <1>2 DEF TypeOK
    <2>4. blk' \in [Process -> {0} \cup Sector] /\ boot' \in {"up", "panic"}
        BY <1>1, <1>2 DEF TypeOK
    <2> QED
        BY <1>1, <1>2, <2>2, <2>3, <2>4 DEF TypeOK
<1>4. Active' = Active /\ p \in Active
    BY <1>2 DEF Active, TypeOK
<1>5. CountOK' /\ HeaderOK'
    BY <1>2, <1>4 DEF IInv, CountOK, HeaderOK, IsHeader
<1>6. SpaceOK'
    <2>1. Reserved \subseteq Reserved' /\ Logged' = Logged
        BY <1>2, <1>4 DEF Reserved, Logged, Active, TypeOK
    <2> QED
        BY <1>4, <2>1, SpaceKept
<1>7. CommitOK'
    BY <1>2 DEF IInv, TypeOK, CommitOK, CommitAlone, Committer
<1>8. PhaseOK'
    BY <1>2, <1>4 DEF IInv, TypeOK, PhaseOK
<1>9. WroteOK'
    <2>1. IsFiniteSet(wrote[p] \cup {s})
        BY FS_AddElement DEF IInv, WroteOK
    <2> QED
        <3>1. CASE UNCHANGED <<ppc, blk, wrote>>
            BY <3>1 DEF IInv, WroteOK
        <3>2. CASE /\ ppc' = [ppc EXCEPT ![p] = "append"] /\ blk' = [blk EXCEPT ![p] = s]
                   /\ wrote' = [wrote EXCEPT ![p] = @ \cup {s}]
            BY <1>1, <1>2, <2>1, <3>2 DEF IInv, TypeOK, WroteOK
        <3> QED
            BY <1>2, <3>1, <3>2
<1>10. SleeperHasWaker'
    BY <1>2 DEF IInv, TypeOK, SleeperHasWaker
<1> QED
    BY <1>3, <1>5, <1>6, <1>7, <1>8, <1>9, <1>10 DEF IInv

\* log_write() absorbs or appends: the log keeps each sector once.
LEMMA LoggedGrows ==
    ASSUME IInv, NEW p \in Process, blk[p] \in HomeSector,
           lh' = IF \E k \in DOMAIN lh : lh[k] = blk[p] THEN lh ELSE Append(lh, blk[p])
    PROVE  /\ lh' \in Seq(HomeSector) /\ Logged' = Logged \cup {blk[p]}
           /\ \A j, k \in 1..Len(lh') : lh'[j] = lh'[k] => j = k
<1>1. /\ lh \in Seq(HomeSector) /\ DOMAIN lh = 1..Len(lh)
      /\ \A j, k \in 1..Len(lh) : lh[j] = lh[k] => j = k
    BY DEF IInv, HeaderOK, IsHeader
<1>2. CASE \E k \in DOMAIN lh : lh[k] = blk[p]
    BY <1>1, <1>2 DEF Logged
<1>3. CASE ~\E k \in DOMAIN lh : lh[k] = blk[p]
    <2>1. /\ lh' \in Seq(HomeSector) /\ Len(lh') = Len(lh) + 1 /\ Len(lh) \in Nat
          /\ lh'[Len(lh) + 1] = blk[p]
          /\ \A k \in 1..Len(lh) : lh'[k] = lh[k]
        BY <1>1, <1>3
    <2>2. \A k \in 1..Len(lh) : lh[k] # blk[p]
        BY <1>1, <1>3
    <2>3. 1..(Len(lh) + 1) = 1..Len(lh) \cup {Len(lh) + 1}
        BY <2>1
    <2>4. Logged' = Logged \cup {blk[p]}
        BY <2>1, <2>3 DEF Logged
    <2>5. \A j, k \in 1..Len(lh') : lh'[j] = lh'[k] => j = k
        BY <1>1, <2>1, <2>2, <2>3
    <2> QED
        BY <2>1, <2>4, <2>5
<1> QED
    BY <1>2, <1>3

\* The second half of log_write(): what it logs was reserved.
LEMMA LogWriteStep ==
    ASSUME IInv, NEW p \in Process, LogWrite(p)
    PROVE  IInv'
<1>1. /\ UNCHANGED <<dhead, dlog, home, cache, outstanding, committing, wrote, boot, i>>
      /\ ppc[p] = "append" /\ boot = "up" /\ TypeOK
      /\ lh' = IF \E k \in DOMAIN lh : lh[k] = blk[p] THEN lh ELSE Append(lh, blk[p])
      /\ dirty' = dirty \cup {blk[p]}
      /\ ppc' = [ppc EXCEPT ![p] = "op"] /\ blk' = [blk EXCEPT ![p] = 0]
    BY DEF LogWrite, diskVars, IInv, Up
<1>2. blk[p] \in HomeSector /\ blk[p] \in Sector /\ blk[p] \in wrote[p]
    BY <1>1, SectorFacts DEF IInv, WroteOK
<1>3. Active' = Active /\ p \in Active
    BY <1>1 DEF Active, TypeOK
<1>4. /\ lh' \in Seq(HomeSector) /\ Logged' = Logged \cup {blk[p]}
      /\ \A j, k \in 1..Len(lh') : lh'[j] = lh'[k] => j = k
    BY <1>1, <1>2, LoggedGrows
<1>5. TypeOK'
    <2>1. lh' \in Seq(Sector)
        BY <1>1, <1>2 DEF TypeOK
    <2> QED
        BY <1>1, <1>2, <2>1 DEF TypeOK
<1>6. SpaceOK' /\ CountOK'
    <2>1. Reserved' = Reserved /\ blk[p] \in Reserved
        BY <1>1, <1>2, <1>3 DEF Reserved
    <2>2. SpaceOK'
        BY <1>3, <1>4, <2>1, SpaceKept
    <2> QED
        BY <1>1, <1>3, <2>2 DEF IInv, CountOK
<1>7. WroteOK' /\ SleeperHasWaker'
    BY <1>1 DEF IInv, TypeOK, WroteOK, SleeperHasWaker
<1>8. HeaderOK'
    <2>1. (Len(lh) <= LOGSIZE /\ Len(lh) <= MaxLog)'
        <3>1. LoggedOnce' /\ (Active # {})'
            BY <1>3, <1>4 DEF LoggedOnce
        <3> QED
            BY <1>6, <1>7, <3>1, TransactionFits, PTL
    <2> QED
        BY <1>1, <1>4, <2>1 DEF IInv, HeaderOK, IsHeader
<1>9. CommitOK'
    BY <1>1 DEF IInv, TypeOK, CommitOK, CommitAlone, Committer
<1>10. PhaseOK'
    <2>1. \A q \in Process : ppc[q] \notin Committer
        BY <1>1 DEF IInv, CommitOK, CommitAlone, Committer
    <2> QED
        BY <1>1, <1>3, <2>1 DEF IInv, TypeOK, PhaseOK, Committer
<1> QED
    BY <1>5, <1>6, <1>7, <1>8, <1>9, <1>10 DEF IInv

\* While a process commits, nobody else is between begin_op() and end_op().
LEMMA CommitterAlone ==
    ASSUME IInv, NEW p \in Process, ppc[p] \in Committer
    PROVE  /\ committing /\ Active = {} /\ boot \in {"up", "panic"}
           /\ \A q \in Process : q # p => ppc[q] \in {"out", "begin", "wait"}
<1>1. /\ committing
      /\ \A q \in Process : q # p => ppc[q] \in {"out", "begin", "wait"}
    BY DEF IInv, CommitOK, CommitAlone, Committer
<1>2. boot \in {"up", "panic"}
    BY DEF IInv, PhaseOK, Committer
<1> QED
    BY <1>1, <1>2 DEF Active, Committer

\* The committer goes from one phase of commit() to another.
LEMMA CommitFrame ==
    ASSUME IInv, NEW p \in Process, ppc[p] \in Committer,
           NEW x \in Committer, ppc' = [ppc EXCEPT ![p] = x],
           UNCHANGED <<outstanding, committing, blk, wrote, boot>>,
           lh' = lh \/ lh' = <<>>,
           TypeOK', HeaderOK', PhaseOK'
    PROVE  IInv'
<1>1. /\ committing /\ Active = {}
      /\ \A q \in Process : q # p => ppc[q] \in {"out", "begin", "wait"}
    BY CommitterAlone
<1>2. TypeOK
    BY DEF IInv
<1>3. Active' = {}
    BY <1>1, <1>2 DEF Active, Committer, TypeOK
<1>4. SpaceOK' /\ CountOK'
    <2>1. Logged' \subseteq Logged
        BY DEF Logged
    <2>2. Reserved' = Reserved
        BY <1>1, <1>3 DEF Reserved
    <2>3. SpaceOK'
        BY <1>1, <1>3, <2>1, <2>2, SpaceKept
    <2> QED
        BY <1>1, <1>3, <2>3 DEF IInv, CountOK
<1>5. CommitOK' /\ SleeperHasWaker'
    BY <1>1, <1>2 DEF CommitOK, CommitAlone, Committer, SleeperHasWaker, TypeOK
<1>6. WroteOK'
    BY <1>2 DEF IInv, WroteOK, Committer, TypeOK
<1> QED
    BY <1>4, <1>5, <1>6 DEF IInv

\* A step through the log does not leave it.
LEMMA RoundFacts ==
    ASSUME IInv, i \in 1..Len(lh)
    PROVE  /\ i \in 1..LOGSIZE /\ lh[i] \in HomeSector /\ lh[i] + LBA \in Sector
           /\ i # Len(lh) => i + 1 \in 1..Len(lh) /\ i + 1 \in 1..LOGSIZE
           /\ lh # <<>>
<1>1. lh \in Seq(HomeSector) /\ Len(lh) <= LOGSIZE /\ Len(lh) \in Nat
    BY DEF IInv, HeaderOK, IsHeader
<1>2. lh[i] \in HomeSector
    BY <1>1
<1>3. /\ i \in 1..LOGSIZE
      /\ i # Len(lh) => i + 1 \in 1..Len(lh) /\ i + 1 \in 1..LOGSIZE
    BY <1>1, SizeAssumption
<1>4. lh[i] + LBA \in Sector
    BY <1>2, SectorFacts, Zenon
<1>5. lh # <<>>
    BY <1>1
<1> QED
    BY <1>2, <1>3, <1>4, <1>5

\* write_log()
LEMMA WriteLogStep ==
    ASSUME IInv, NEW p \in Process, WriteLog(p)
    PROVE  IInv'
<1> DEFINE s == lh[i] + LBA
<1>1. /\ UNCHANGED <<dhead, home, dirty, lh, outstanding, committing, blk, wrote, boot>>
      /\ boot = "up" /\ ppc[p] = "write_log" /\ TypeOK
      /\ dlog' = [dlog EXCEPT ![i] = Content(s)] /\ cache' = [cache EXCEPT ![s] = Content(s)]
    BY DEF WriteLog, logVars, Up, IInv
<1>2. i \in 1..Len(lh)
    BY <1>1 DEF IInv, PhaseOK
<1>3. i \in 1..LOGSIZE /\ s \in Sector /\ lh # <<>>
    BY <1>2, RoundFacts
<1>4. \E x \in {"write_log", "write_head"} :
        /\ ppc' = [ppc EXCEPT ![p] = x]
        /\ x = "write_log" => i' \in 1..Len(lh) /\ i' \in 1..LOGSIZE
        /\ x = "write_head" => i' = i
    <2>1. CASE i = Len(lh)
        BY <2>1 DEF WriteLog
    <2>2. CASE i # Len(lh)
        <3>1. i' = i + 1 /\ ppc' = ppc
            BY <2>2 DEF WriteLog
        <3>2. i' \in 1..Len(lh) /\ i' \in 1..LOGSIZE
            BY <1>2, <2>2, <3>1, RoundFacts
        <3>3. ppc' = [ppc EXCEPT ![p] = "write_log"]
            BY <1>1, <3>1 DEF TypeOK
        <3> QED
            BY <3>2, <3>3
    <2> QED
        BY <2>1, <2>2
<1>5. PICK x \in {"write_log", "write_head"} :
        /\ ppc' = [ppc EXCEPT ![p] = x]
        /\ x = "write_log" => i' \in 1..Len(lh) /\ i' \in 1..LOGSIZE
        /\ x = "write_head" => i' = i
    BY <1>4
<1>6. TypeOK'
    <2>1. Content(s) \in Val
        BY <1>1, <1>3 DEF Content, TypeOK
    <2> QED
        BY <1>1, <1>3, <1>5, <2>1 DEF TypeOK
<1>7. HeaderOK'
    BY <1>1 DEF IInv, HeaderOK, IsHeader
<1>8. /\ committing /\ Active = {}
      /\ \A q \in Process : q # p => ppc[q] \in {"out", "begin", "wait"}
    BY <1>1, CommitterAlone DEF Committer
<1>9. PhaseOK'
    <2>1. dhead = <<>>
        BY <1>1, <1>8 DEF IInv, PhaseOK
    <2> QED
        BY <1>1, <1>3, <1>5, <1>8, <2>1 DEF TypeOK, PhaseOK
<1> QED
    BY <1>1, <1>5, <1>6, <1>7, <1>9, CommitFrame DEF Committer

\* write_head()
LEMMA WriteHeadStep ==
    ASSUME IInv, NEW p \in Process, WriteHead(p)
    PROVE  IInv'
<1>1. /\ UNCHANGED <<dlog, home, cache, dirty, lh, outstanding, committing, blk, wrote, boot>>
      /\ boot = "up" /\ ppc[p] = "write_head" /\ TypeOK
      /\ dhead' = lh /\ i' = 1 /\ ppc' = [ppc EXCEPT ![p] = "install"]
    BY DEF WriteHead, cacheVars, logVars, Up, IInv
<1>2. TypeOK'
    <2>1. 1 \in 1..LOGSIZE
        BY SizeAssumption
    <2> QED
        BY <1>1, <2>1 DEF TypeOK
<1>3. HeaderOK'
    BY <1>1 DEF IInv, HeaderOK, IsHeader
<1>4. /\ committing /\ Active = {}
      /\ \A q \in Process : q # p => ppc[q] \in {"out", "begin", "wait"}
    BY <1>1, CommitterAlone DEF Committer
<1>5. PhaseOK'
    <2>1. 1 \in 1..Len(lh)
        BY <1>1 DEF IInv, PhaseOK, TypeOK
    <2> QED
        BY <1>1, <1>4, <2>1 DEF TypeOK, PhaseOK
<1> QED
    BY <1>1, <1>2, <1>3, <1>5, CommitFrame DEF Committer

\* A round of install_trans() keeps the types.
LEMMA InstallTypes ==
    ASSUME IInv, i \in 1..Len(lh), InstallRound
    PROVE  /\ home' \in [Sector -> Val] /\ cache' \in [Sector -> Val \cup {NoBuf}]
           /\ dirty' \subseteq Sector /\ UNCHANGED <<dhead, dlog>>
<1>1. i \in 1..LOGSIZE /\ lh[i] + LBA \in Sector
    BY RoundFacts
<1>2. dlog[i] \in Val
    BY <1>1 DEF IInv, TypeOK
<1> QED
    BY <1>1, <1>2 DEF IInv, TypeOK, InstallRound

\* install_trans() of commit()
LEMMA InstallStep ==
    ASSUME IInv, NEW p \in Process, Install(p)
    PROVE  IInv'
<1>1. /\ UNCHANGED <<lh, outstanding, committing, blk, wrote, boot>>
      /\ boot = "up" /\ ppc[p] = "install" /\ TypeOK
    BY DEF Install, logVars, Up, IInv
<1>2. i \in 1..Len(lh) /\ lh = dhead
    BY <1>1 DEF IInv, PhaseOK
<1>3. \E x \in {"install", "clear"} :
        /\ ppc' = [ppc EXCEPT ![p] = x]
        /\ x = "install" => i' \in 1..Len(lh) /\ i' \in 1..LOGSIZE
        /\ x = "clear" => i' = i
    <2>1. CASE i = Len(lh)
        BY <2>1 DEF Install
    <2>2. CASE i # Len(lh)
        <3>1. i' = i + 1 /\ ppc' = ppc
            BY <2>2 DEF Install
        <3>2. i' \in 1..Len(lh) /\ i' \in 1..LOGSIZE
            BY <1>2, <2>2, <3>1, RoundFacts
        <3>3. ppc' = [ppc EXCEPT ![p] = "install"]
            BY <1>1, <3>1 DEF TypeOK
        <3> QED
            BY <3>2, <3>3
    <2> QED
        BY <2>1, <2>2
<1>4. PICK x \in {"install", "clear"} :
        /\ ppc' = [ppc EXCEPT ![p] = x]
        /\ x = "install" => i' \in 1..Len(lh) /\ i' \in 1..LOGSIZE
        /\ x = "clear" => i' = i
    BY <1>3
<1>5. /\ home' \in [Sector -> Val] /\ cache' \in [Sector -> Val \cup {NoBuf}]
      /\ dirty' \subseteq Sector /\ UNCHANGED <<dhead, dlog>>
    BY <1>2, InstallTypes DEF Install
<1>6. TypeOK'
    BY <1>1, <1>4, <1>5 DEF TypeOK
<1>7. HeaderOK'
    BY <1>1, <1>5 DEF IInv, HeaderOK, IsHeader
<1>8. /\ committing /\ Active = {}
      /\ \A q \in Process : q # p => ppc[q] \in {"out", "begin", "wait"}
    BY <1>1, CommitterAlone DEF Committer
<1>9. PhaseOK'
    BY <1>1, <1>2, <1>4, <1>5, <1>8 DEF TypeOK, PhaseOK
<1> QED
    BY <1>1, <1>4, <1>6, <1>7, <1>9, CommitFrame DEF Committer

\* The empty log header.
LEMMA EmptyHeader == IsHeader(<<>>) /\ <<>> \in Seq(Sector)
    BY SizeAssumption DEF IsHeader, MaxLog

\* The end of commit()
LEMMA ClearStep ==
    ASSUME IInv, NEW p \in Process, Clear(p)
    PROVE  IInv'
<1>1. /\ UNCHANGED <<dlog, home, cache, dirty, outstanding, committing, blk, wrote, boot, i>>
      /\ boot = "up" /\ ppc[p] = "clear" /\ TypeOK
      /\ lh' = <<>> /\ dhead' = <<>> /\ ppc' = [ppc EXCEPT ![p] = "done"]
    BY DEF Clear, cacheVars, Up, IInv
<1>2. TypeOK' /\ HeaderOK'
    BY <1>1, EmptyHeader DEF TypeOK, HeaderOK
<1>3. /\ committing
      /\ \A q \in Process : q # p => ppc[q] \in {"out", "begin", "wait"}
    BY <1>1, CommitterAlone DEF Committer
<1>4. PhaseOK'
    BY <1>1, <1>3 DEF TypeOK, PhaseOK
<1> QED
    BY <1>1, <1>2, <1>4, CommitFrame DEF Committer

\* The end of end_op(): everyone who slept is awake.
LEMMA CommitDoneStep ==
    ASSUME IInv, NEW p \in Process, CommitDone(p)
    PROVE  IInv'
<1>1. /\ UNCHANGED <<dhead, dlog, home, cache, dirty, lh, outstanding, blk, wrote, boot, i>>
      /\ boot = "up" /\ ppc[p] = "done" /\ TypeOK
      /\ committing' = FALSE /\ ppc' = Woken([ppc EXCEPT ![p] = "out"])
    BY DEF CommitDone, diskVars, cacheVars, Up, IInv
<1>2. /\ committing /\ Active = {}
      /\ \A q \in Process : q # p => ppc[q] \in {"out", "begin", "wait"}
    BY <1>1, CommitterAlone DEF Committer
<1>3. ppc' \in [Process -> {"out", "begin"}]
    BY <1>1, <1>2 DEF Woken, TypeOK
<1>4. TypeOK'
    BY <1>1, <1>3 DEF TypeOK
<1>5. Active' = {}
    BY <1>3 DEF Active
<1>6. SpaceOK' /\ CountOK' /\ HeaderOK'
    <2>1. Logged' = Logged /\ Reserved' = Reserved
        BY <1>1, <1>2, <1>5 DEF Logged, Reserved
    <2> QED
        BY <1>1, <1>2, <1>5, <2>1 DEF IInv, SpaceOK, CountOK, HeaderOK, IsHeader
<1>7. CommitOK' /\ SleeperHasWaker'
    BY <1>1, <1>3 DEF CommitOK, CommitAlone, Committer, SleeperHasWaker
<1>8. WroteOK'
    <2>1. \A q \in Process : ppc[q] # "append"
        BY <1>1, <1>2
    <2> QED
        BY <1>1, <1>3, <2>1 DEF IInv, WroteOK
<1>9. PhaseOK'
    <2>1. lh = <<>> /\ dhead = <<>>
        BY <1>1, <1>2 DEF IInv, PhaseOK
    <2> QED
        BY <1>1, <1>3, <2>1 DEF PhaseOK
<1> QED
    BY <1>4, <1>6, <1>7, <1>8, <1>9 DEF IInv

\* No process runs: the state of initlog().
Quiet ==
    /\ TypeOK /\ HeaderOK /\ PhaseOK
    /\ outstanding = 0 /\ ~committing
    /\ \A p \in Process : /\ ppc[p] = "out" /\ blk[p] = 0
                          /\ IsFiniteSet(wrote[p]) /\ Cardinality(wrote[p]) <= MaxWrite

\* After a boot and before the first operation nobody is inside.
LEMMA QuietOK == Quiet => IInv
<1> SUFFICES ASSUME Quiet PROVE IInv
    OBVIOUS
<1>1. Active = {} /\ Cardinality({}) = 0
    BY FS_EmptySet DEF Quiet, Active
<1>2. CountOK /\ CommitOK /\ WroteOK /\ SleeperHasWaker
    BY <1>1 DEF Quiet, CountOK, CommitOK, CommitAlone, Committer, WroteOK, SleeperHasWaker
<1>3. SpaceOK
    <2>1. IsFiniteSet(Logged) /\ Cardinality(Logged) = Len(lh) /\ Len(lh) <= LOGSIZE
        <3>1. /\ lh \in Seq(HomeSector) /\ Len(lh) <= LOGSIZE
              /\ \A j, k \in 1..Len(lh) : lh[j] = lh[k] => j = k
            BY DEF Quiet, HeaderOK, IsHeader
        <3> QED
            BY <3>1, ElementsCount DEF Logged
    <2>2. Reserved = {}
        BY <1>1 DEF Reserved
    <2>3. Logged \ Reserved = Logged
        BY <2>2
    <2>4. Len(lh) \in Nat
        BY DEF Quiet, TypeOK
    <2>5. Cardinality(Logged \ Reserved) = Len(lh) /\ Cardinality(Active) = 0
        BY <1>1, <2>1, <2>3
    <2> QED
        BY <2>1, <2>4, <2>5, SizeAssumption DEF SpaceOK
<1> QED
    BY <1>2, <1>3 DEF Quiet, IInv

\* Before boot the machine is in a quiet state.
LEMMA IInvInit == Init => IInv
<1> SUFFICES ASSUME Init PROVE IInv
    OBVIOUS
<1>1. dlog \in [1..LOGSIZE -> Val] /\ home \in [Sector -> Val]
    <2> DEFINE v0 == CHOOSE v \in Val : TRUE
    <2>1. v0 \in Val
        BY NoBufAssumption
    <2> HIDE DEF v0
    <2>2. dlog \in [1..LOGSIZE -> Val]
        BY <2>1 DEF Init, v0
    <2>3. PICK f \in [Block -> Val] :
            home = [s \in Sector |-> IF \E b \in Block : s = Home(b)
                                     THEN f[CHOOSE b \in Block : s = Home(b)] ELSE v0]
        BY DEF Init, v0
    <2>4. \A s \in Sector : (\E b \in Block : s = Home(b)) =>
                (CHOOSE b \in Block : s = Home(b)) \in Block
        OBVIOUS
    <2>5. home \in [Sector -> Val]
        BY <2>1, <2>3, <2>4
    <2> QED
        BY <2>2, <2>5
<1>2. TypeOK
    <2>1. 1 \in 1..LOGSIZE
        BY SizeAssumption
    <2> QED
        BY <1>1, <2>1, EmptyHeader DEF Init, TypeOK
<1>3. HeaderOK /\ PhaseOK
    BY EmptyHeader DEF Init, HeaderOK, PhaseOK
<1>4. Quiet
    BY <1>2, <1>3, FS_EmptySet, SizeAssumption DEF Init, Quiet
<1> QED
    BY <1>4, QuietOK

\* A crash at any step.
LEMMA CrashStep ==
    ASSUME IInv, Crash
    PROVE  IInv'
<1>1. TypeOK'
    <2>1. 1 \in 1..LOGSIZE
        BY SizeAssumption
    <2> QED
        BY <2>1, EmptyHeader DEF IInv, TypeOK, Crash, diskVars
<1>2. HeaderOK' /\ PhaseOK'
    BY EmptyHeader DEF IInv, HeaderOK, PhaseOK, Crash, diskVars
<1>3. Quiet'
    BY <1>1, <1>2, FS_EmptySet, SizeAssumption DEF Quiet, Crash
<1> QED
    BY <1>3, QuietOK, PTL

\* recover_from_log()
LEMMA RecoveryStep ==
    ASSUME IInv, Recovery
    PROVE  IInv'
<1>1. /\ UNCHANGED <<outstanding, committing, ppc, blk, wrote>>
      /\ boot \in {"read_head", "install", "clear"} /\ TypeOK
    BY DEF Recovery, ReadHead, RecoverInstall, RecoverClear, logVars, procVars, IInv
<1>2. \A p \in Process : ppc[p] = "out"
    BY <1>1 DEF IInv, PhaseOK
<1>3. outstanding = 0 /\ ~committing
    <2>1. Active = {}
        BY <1>2 DEF Active
    <2> QED
        BY <1>2, <2>1, FS_EmptySet DEF IInv, CountOK, CommitOK, Committer
<1>4. TypeOK' /\ HeaderOK' /\ PhaseOK'
    <2>1. CASE ReadHead
        <3>1. /\ boot = "read_head" /\ lh' = dhead /\ i' = 1
              /\ boot' = IF dhead = <<>> THEN "clear" ELSE "install"
              /\ UNCHANGED <<dhead, dlog, home, cache, dirty>>
            BY <2>1 DEF ReadHead, diskVars, cacheVars
        <3>2. 1 \in 1..LOGSIZE /\ (dhead # <<>> => 1 \in 1..Len(dhead))
            BY <1>1, SizeAssumption DEF TypeOK
        <3>3. TypeOK'
            BY <1>1, <3>1, <3>2 DEF TypeOK
        <3>4. HeaderOK'
            BY <3>1 DEF IInv, HeaderOK
        <3>5. PhaseOK'
            BY <1>1, <1>2, <3>1, <3>2 DEF PhaseOK
        <3> QED
            BY <3>3, <3>4, <3>5
    <2>2. CASE RecoverInstall
        <3>1. boot = "install" /\ i \in 1..Len(lh) /\ lh = dhead
            BY <2>2 DEF RecoverInstall, IInv, PhaseOK
        <3>2. /\ home' \in [Sector -> Val] /\ cache' \in [Sector -> Val \cup {NoBuf}]
              /\ dirty' \subseteq Sector /\ UNCHANGED <<dhead, dlog, lh>>
            BY <2>2, <3>1, InstallTypes DEF RecoverInstall, logVars
        <3>3. \/ boot' = "clear" /\ i' = i
              \/ boot' = boot /\ i' \in 1..Len(lh) /\ i' \in 1..LOGSIZE
            BY <2>2, <3>1, RoundFacts DEF RecoverInstall
        <3>4. TypeOK'
            BY <1>1, <3>1, <3>2, <3>3 DEF TypeOK
        <3>5. HeaderOK'
            BY <3>2 DEF IInv, HeaderOK
        <3>6. PhaseOK'
            BY <1>1, <1>2, <3>1, <3>2, <3>3 DEF PhaseOK
        <3> QED
            BY <3>4, <3>5, <3>6
    <2>3. CASE RecoverClear
        <3>1. /\ lh' = <<>> /\ dhead' = <<>> /\ boot' = "up"
              /\ UNCHANGED <<dlog, home, cache, dirty, i>>
            BY <2>3 DEF RecoverClear, cacheVars
        <3>2. TypeOK' /\ HeaderOK'
            BY <1>1, <3>1, EmptyHeader DEF TypeOK, HeaderOK
        <3>3. PhaseOK'
            BY <1>1, <1>2, <3>1 DEF PhaseOK
        <3> QED
            BY <3>2, <3>3
    <2> QED
        BY <2>1, <2>2, <2>3 DEF Recovery
<1>5. Quiet'
    BY <1>1, <1>2, <1>3, <1>4 DEF Quiet, IInv, WroteOK
<1> QED
    BY <1>5, QuietOK, PTL

\* Every step keeps the invariant.
LEMMA IInvStep == IInv /\ [Next]_vars => IInv'
<1> SUFFICES ASSUME IInv, [Next]_vars PROVE IInv'
    OBVIOUS
<1>1. CASE UNCHANGED vars
    BY <1>1, FrameStep DEF vars, diskVars, cacheVars, IInv, TypeOK, logVars, procVars
<1>2. ASSUME NEW b \in Block, Bread(b) PROVE IInv'
    <2>1. Home(b) \in Sector
        BY SectorFacts
    <2>2. TypeOK'
        BY <1>2, <2>1 DEF Bread, IInv, TypeOK, diskVars, logVars, procVars
    <2> QED
        BY <1>2, <2>2, FrameStep DEF Bread, diskVars
<1>3. ASSUME NEW s \in Sector, Recycle(s) PROVE IInv'
    <2>1. TypeOK'
        BY <1>3 DEF Recycle, IInv, TypeOK, diskVars, logVars, procVars
    <2> QED
        BY <1>3, <2>1, FrameStep DEF Recycle, diskVars
<1>4. ASSUME NEW p \in Process, CommitStep(p) PROVE IInv'
    BY <1>4, WriteLogStep, WriteHeadStep, InstallStep, ClearStep, CommitDoneStep DEF CommitStep
<1> QED
    BY <1>1, <1>2, <1>3, <1>4, BeginStep, BeginOpStep, EndOpStep, ModifyStep, LogWriteStep,
       CrashStep, RecoveryStep DEF Next

\* The inductive invariant of the log.
THEOREM LogInvariant == Spec => []IInv
    BY IInvInit, IInvStep, PTL DEF Spec

\* commit() runs alone, whatever the number of processes: end_op() starts it
\* when nobody is inside and begin_op() lets nobody in before it is over.
THEOREM CommitRunsAlone == Spec => []CommitAlone
<1>1. IInv => CommitAlone
    BY DEF IInv, CommitOK
<1> QED
    BY <1>1, LogInvariant, PTL

\* Whoever sleeps in begin_op() has someone who will call wakeup(&log).
THEOREM SleepersAreWoken == Spec => []SleeperHasWaker
<1>1. IInv => SleeperHasWaker
    BY DEF IInv
<1> QED
    BY <1>1, LogInvariant, PTL

\* The space begin_op() reserves is enough for struct logheader, in memory and
\* on disk, although log_write() tests log.lh.n without the lock.
THEOREM TransactionsFitHeader == Spec => [](Len(lh) <= LOGSIZE /\ Len(dhead) <= LOGSIZE)
<1>1. IInv => Len(lh) <= LOGSIZE /\ Len(dhead) <= LOGSIZE
    BY DEF IInv, HeaderOK, IsHeader
<1> QED
    BY <1>1, LogInvariant, PTL

\* What a transaction leaves free in the log area keeps the tests of log_write()
\* from stopping the kernel.
LEMMA NoPanicStep ==
    ASSUME MaxWrite < MAXOPBLOCKS, LOGSIZE + MaxWrite + 1 < nlog + MAXOPBLOCKS
    PROVE  IInv /\ boot # "panic" /\ [Next]_vars => boot' # "panic"
<1> SUFFICES ASSUME IInv, boot # "panic", Next PROVE boot' # "panic"
    BY DEF vars
<1>1. ASSUME NEW p \in Process, NEW b \in Block, NEW v \in Val, Modify(p, b, v)
      PROVE  boot' # "panic"
    <2>1. Len(lh) <= MaxLog /\ Len(lh) \in Nat
        BY DEF IInv, HeaderOK, IsHeader, TypeOK
    <2>2. Len(lh) < LOGSIZE /\ ~(Len(lh) >= LOGSIZE) /\ ~(Len(lh) >= nlog - 1)
        BY <2>1, SizeAssumption DEF MaxLog
    <2>3. p \in Active
        BY <1>1 DEF Modify, Active
    <2>4. outstanding \in Nat /\ outstanding # 0
        BY <2>3, ActiveFinite, FS_EmptySet DEF IInv, CountOK
    <2>5. ~(outstanding < 1)
        BY <2>4
    <2> QED
        BY <1>1, <2>2, <2>5 DEF Modify
<1>2. ASSUME NEW p \in Process, EndOp(p) PROVE boot' # "panic"
    <2>1. ~committing
        BY <1>2 DEF EndOp, IInv, CommitOK, CommitAlone, Committer
    <2> QED
        BY <1>2, <2>1 DEF EndOp
<1> QED
    BY <1>1, <1>2 DEF Next, CallBegin, BeginWait, BeginOp, LogWrite, CommitStep, WriteLog, WriteHead,
       Install, Clear, CommitDone, Bread, Recycle, Crash, Recovery, ReadHead, RecoverInstall, RecoverClear

\* No transaction overruns the log area on disk and no test of log_write() or
\* end_op() stops the kernel, although those of log_write() read log.lh.n
\* without log.lock, as soon as an operation leaves two of the blocks reserved
\* for it unused, or the area is longer.  In the kernel nlog = LOGSIZE = 30,
\* MAXOPBLOCKS = 10 and the longest operation writes 7 blocks.
THEOREM LogNeverOverruns ==
    ASSUME MaxWrite < MAXOPBLOCKS, LOGSIZE + MaxWrite + 1 < nlog + MAXOPBLOCKS
    PROVE  Spec => []LogWithinBounds
<1>1. IInv /\ boot # "panic" => LogWithinBounds
    <2> SUFFICES ASSUME IInv, boot # "panic" PROVE LogWithinBounds
        OBVIOUS
    <2>1. Len(lh) <= MaxLog /\ Len(lh) \in Nat /\ TypeOK
        BY DEF IInv, HeaderOK, IsHeader, TypeOK
    <2> QED
        BY <2>1, SizeAssumption DEF LogWithinBounds, LogFitsOnDisk, MaxLog
<1> DEFINE Runs == boot # "panic"
<1>2. Init => Runs
    BY DEF Init
<1>3. IInv /\ Runs /\ [Next]_vars => Runs'
    BY NoPanicStep
<1>4. IInv /\ Runs => LogWithinBounds
    BY <1>1
<1> HIDE DEF Runs
<1> QED
    BY <1>2, <1>3, <1>4, LogInvariant, PTL DEF Spec

-----------------------------------------------------------------------------
(* The log implements AtomicDisk *)

\* The entries of log.lh that install_trans() has copied home.
Installed(k) ==
    \/ k < i /\ (boot = "install" \/ \E p \in Process : ppc[p] = "install")
    \/ boot = "clear" \/ \E p \in Process : ppc[p] = "clear"

\* B_DIRTY is set on exactly the logged buffers that are not home yet.
DirtyOK ==
    dirty = IF boot \in {"up", "panic"}
            THEN {lh[k] : k \in {j \in 1..Len(lh) : ~Installed(j)}} ELSE {}

\* A dirty buffer, or one in log_write(), stays in the cache; all others have
\* what the disk has.
CachedOK ==
    /\ \A s \in dirty : cache[s] # NoBuf
    /\ \A p \in Process : ppc[p] = "append" => cache[blk[p]] # NoBuf
    /\ boot # "panic" => \A s \in Sector :
          s \notin dirty /\ (\A p \in Process : blk[p] # s) /\ cache[s] # NoBuf
             => cache[s] = home[s]

\* The log area has what write_log() has copied so far, and the home blocks
\* have what install_trans() has copied so far.
CopiedOK ==
    /\ \A p \in Process : ppc[p] \in {"write_log", "write_head", "install", "clear"} =>
          \A k \in 1..Len(lh) :
             (ppc[p] = "write_log" => k < i) => dlog[k] = Content(lh[k])
    /\ \A k \in 1..Len(lh) : Installed(k) => home[lh[k]] = dlog[k]

CrashInv == IInv /\ DirtyOK /\ CachedOK /\ CopiedOK

\* The refinement mapping of CrashAtomic.
MemMap == [b \in Block |-> IF boot \in {"up", "panic"}
                           THEN Content(Home(b)) ELSE Recovered(Home(b))]
StableMap == [b \in Block |-> Recovered(Home(b))]

-----------------------------------------------------------------------------
(* Facts *)

\* Without an offset a block is its own sector.
LEMMA ZeroOffset ==
    ASSUME LBA = 0
    PROVE  /\ Sector = Block /\ HomeSector = Block
           /\ \A b \in Block : Home(b) = b /\ b + LBA = b /\ b # 0
<1>1. \A b \in Block : Home(b) = b /\ b + LBA = b /\ b # 0
    BY BlockAssumption DEF Home
<1>2. HomeSector = Block
    BY <1>1 DEF HomeSector
<1>3. \A b \in Block : \A k \in 1..2 : b + k * LBA = b
    BY BlockAssumption
<1>4. Sector = Block
    <2>1. 1 \in 1..2
        OBVIOUS
    <2> QED
        BY <1>3, <2>1 DEF Sector
<1> QED
    BY <1>1, <1>2, <1>4

\* What recovery makes of a block: its copy in the log, or else its home.
RecoveredOK ==
    /\ \A k \in 1..Len(dhead) : Recovered(dhead[k]) = dlog[k]
    /\ \A b \in Block : (\A k \in 1..Len(dhead) : dhead[k] # b) => Recovered(b) = home[b]

\* What recovery installs: the logged blocks from the log, the others stay.
LEMMA RecoveredIs == ASSUME LBA = 0 PROVE HeaderOK => RecoveredOK
<1> SUFFICES ASSUME HeaderOK PROVE RecoveredOK
    OBVIOUS
<1>1. /\ dhead \in Seq(Block) /\ DOMAIN dhead = 1..Len(dhead)
      /\ \A j, k \in 1..Len(dhead) : dhead[j] = dhead[k] => j = k
    BY ZeroOffset DEF HeaderOK, IsHeader
<1>2. \A k \in 1..Len(dhead) : dhead[k] \in Block /\ dhead[k] + LBA = dhead[k]
    BY <1>1, ZeroOffset
<1>3. ASSUME NEW k \in 1..Len(dhead) PROVE Recovered(dhead[k]) = dlog[k]
    <2>1. {j \in DOMAIN dhead : dhead[j] + LBA = dhead[k]} = {k}
        BY <1>1, <1>2
    <2> QED
        BY <2>1 DEF Recovered
<1>4. ASSUME NEW b \in Block, \A k \in 1..Len(dhead) : dhead[k] # b PROVE Recovered(b) = home[b]
    <2>1. {j \in DOMAIN dhead : dhead[j] + LBA = b} = {}
        BY <1>1, <1>2, <1>4
    <2> QED
        BY <2>1 DEF Recovered
<1> QED
    BY <1>3, <1>4 DEF RecoveredOK

\* A step of a process between the points where it touches blocks.
LEMMA ControlFrame ==
    ASSUME CrashInv, UNCHANGED <<dlog, home, cache, dirty, lh, blk, boot>>, boot = "up",
           \A q \in Process : ppc'[q] = "append" <=> ppc[q] = "append",
           \/ /\ i' = i
              /\ \A q \in Process : \A x \in {"write_log", "write_head", "install", "clear"} :
                    ppc'[q] = x <=> ppc[q] = x
           \/ \A q \in Process : /\ ppc[q] \notin {"write_log", "write_head", "install", "clear"}
                                 /\ ppc'[q] \notin {"write_head", "install", "clear"}
                                 /\ ppc'[q] = "write_log" => i' = 1
    PROVE  DirtyOK' /\ CachedOK' /\ CopiedOK'
<1>1. \A k \in 1..Len(lh) : Installed(k)' <=> Installed(k)
    BY DEF Installed
<1>2. DirtyOK'
    BY <1>1 DEF CrashInv, DirtyOK
<1>3. CachedOK'
    BY DEF CrashInv, CachedOK
<1>4. \A s : Content(s)' = Content(s)
    BY DEF Content
<1>5. CopiedOK'
    <2>1. \A k \in 1..Len(lh) : Installed(k)' => home'[lh'[k]] = dlog'[k]
        BY <1>1 DEF CrashInv, CopiedOK
    <2>2. ASSUME NEW q \in Process, ppc'[q] \in {"write_log", "write_head", "install", "clear"},
                 NEW k \in 1..Len(lh), ppc'[q] = "write_log" => k < i'
          PROVE  dlog[k] = Content(lh[k])
        <3>1. CASE i' = i /\ ppc[q] = ppc'[q]
            BY <2>2, <3>1 DEF CrashInv, CopiedOK
        <3>2. CASE ppc'[q] = "write_log" /\ i' = 1
            BY <2>2, <3>2 DEF CrashInv, IInv, TypeOK
        <3> QED
            BY <2>2, <3>1, <3>2
    <2> QED
        BY <1>4, <2>1, <2>2 DEF CopiedOK
<1> QED
    BY <1>2, <1>3, <1>5

BlocksOK == DirtyOK /\ CachedOK /\ CopiedOK

\* begin_op(), end_op() up to the commit, and the end of end_op().
LEMMA ControlStep ==
    ASSUME CrashInv, NEW p \in Process,
           CallBegin(p) \/ BeginWait(p) \/ BeginOp(p) \/ EndOp(p) \/ CommitDone(p)
    PROVE  /\ BlocksOK' /\ UNCHANGED <<MemMap, StableMap>>
           /\ CallBegin(p) \/ BeginWait(p) \/ CommitDone(p) => Active' = Active
           /\ BeginOp(p) => p \notin Active /\ Active' = Active \cup {p}
           /\ EndOp(p) => p \in Active /\ Active' = Active \ {p}
<1>1. TypeOK /\ IInv
    BY DEF CrashInv, IInv
<1>2. EndOp(p) => ~committing /\ \A q \in Process : ppc[q] \notin Committer
    BY <1>1, EndOpStep DEF IInv, CommitOK
<1>3. /\ UNCHANGED <<dhead, dlog, home, cache, dirty, lh, blk, boot>> /\ boot = "up"
    BY <1>2 DEF CallBegin, BeginWait, BeginOp, EndOp, CommitDone, diskVars, cacheVars, logVars, Up
<1>4. BlocksOK'
    <2>1. CASE CallBegin(p) \/ BeginWait(p) \/ BeginOp(p)
        <3>1. /\ i' = i /\ ppc[p] \in {"out", "begin"}
              /\ \E x \in {"begin", "wait", "op"} : ppc' = [ppc EXCEPT ![p] = x]
            BY <2>1 DEF CallBegin, BeginWait, BeginOp
        <3>2. \A q \in Process : \A x \in {"append", "write_log", "write_head", "install", "clear"} :
                ppc'[q] = x <=> ppc[q] = x
            BY <1>1, <3>1 DEF TypeOK
        <3> QED
            BY <1>3, <3>1, <3>2, ControlFrame DEF BlocksOK
    <2>2. CASE CommitDone(p)
        <3>1. i' = i /\ ppc[p] = "done" /\ ppc' = Woken([ppc EXCEPT ![p] = "out"])
            BY <2>2 DEF CommitDone
        <3>2. \A q \in Process : \A x \in {"append", "write_log", "write_head", "install", "clear"} :
                ppc'[q] = x <=> ppc[q] = x
            BY <1>1, <3>1 DEF TypeOK, Woken
        <3> QED
            BY <1>3, <3>1, <3>2, ControlFrame DEF BlocksOK
    <2>3. CASE EndOp(p)
        <3>1. /\ ppc[p] = "op"
              /\ \/ /\ i' = 1
                    /\ ppc' = [ppc EXCEPT ![p] = IF lh = <<>> THEN "done" ELSE "write_log"]
                 \/ ppc' = Woken([ppc EXCEPT ![p] = "out"])
            BY <1>2, <2>3 DEF EndOp
        <3>2. \A q \in Process : /\ ppc'[q] = "append" <=> ppc[q] = "append"
                                 /\ ppc'[q] \notin {"write_head", "install", "clear"}
                                 /\ ppc'[q] = "write_log" => i' = 1
            BY <1>1, <1>2, <2>3, <3>1 DEF TypeOK, Woken, Committer
        <3> QED
            BY <1>2, <1>3, <2>3, <3>2, ControlFrame DEF Committer, BlocksOK
    <2> QED
        BY <2>1, <2>2, <2>3
<1>5. UNCHANGED <<MemMap, StableMap>>
    BY <1>3 DEF MemMap, StableMap, Content, Recovered
<1>6. CallBegin(p) \/ BeginWait(p) \/ CommitDone(p) => Active' = Active
    BY <1>1 DEF CallBegin, BeginWait, CommitDone, Active, TypeOK, Woken
<1>7. BeginOp(p) => p \notin Active /\ Active' = Active \cup {p}
    BY <1>1 DEF BeginOp, Active, TypeOK
<1>8. EndOp(p) => p \in Active /\ Active' = Active \ {p}
    BY <1>1, <1>2 DEF EndOp, Active, TypeOK, Woken
<1> QED
    BY <1>4, <1>5, <1>6, <1>7, <1>8

\* No block is being copied while an operation is inside.
LEMMA NoCopying ==
    ASSUME IInv, NEW p \in Process, ppc[p] \in {"op", "append"}, boot = "up"
    PROVE  /\ \A q \in Process : ppc[q] \notin Committer
           /\ \A k : ~Installed(k)
<1>1. \A q \in Process : ppc[q] \notin Committer
    BY DEF IInv, CommitOK, CommitAlone, Committer
<1> QED
    BY <1>1 DEF Installed, Committer

\* The change of a block, in memory only.
LEMMA WriteStep ==
    ASSUME LBA = 0, CrashInv, NEW p \in Process, NEW b \in Block, NEW v \in Val, Modify(p, b, v)
    PROVE  /\ BlocksOK' /\ Active' = Active /\ p \in Active
           /\ MemMap' = [MemMap EXCEPT ![b] = v] /\ StableMap' = StableMap
<1>1. TypeOK /\ IInv /\ Home(b) = b /\ b \in Sector
    BY ZeroOffset DEF CrashInv, IInv
<1>2. /\ UNCHANGED <<dhead, dlog, home, dirty, lh, i>>
      /\ cache' = [cache EXCEPT ![b] = v] /\ ppc[p] = "op" /\ boot = "up"
      /\ \/ boot' = "panic" /\ UNCHANGED <<ppc, blk>>
         \/ /\ ppc' = [ppc EXCEPT ![p] = "append"] /\ blk' = [blk EXCEPT ![p] = b] /\ boot' = boot
    BY <1>1 DEF Modify, diskVars, logVars, procVars, Up
<1>3. \A q \in Process : ppc[q] \notin Committer /\ ppc'[q] \notin Committer
    BY <1>1, <1>2, NoCopying DEF TypeOK, Committer
<1>4. boot' \in {"up", "panic"} /\ \A k : ~Installed(k) /\ ~Installed(k)'
    BY <1>2, <1>3 DEF Installed, Committer
<1>5. DirtyOK'
    BY <1>2, <1>4 DEF CrashInv, DirtyOK
<1>6. CachedOK'
    <2>1. v # NoBuf
        BY NoBufAssumption
    <2>2. \A s \in Sector : cache'[s] = IF s = b THEN v ELSE cache[s]
        BY <1>1, <1>2 DEF TypeOK
    <2>3. \A s \in dirty' : cache'[s] # NoBuf
        BY <1>1, <1>2, <2>1, <2>2 DEF CrashInv, CachedOK, TypeOK
    <2>4. \A q \in Process : ppc'[q] = "append" => cache'[blk'[q]] # NoBuf
        <3> TAKE q \in Process
        <3>1. ppc'[q] = "append" => blk'[q] = b \/ (ppc[q] = "append" /\ blk'[q] = blk[q])
            BY <1>1, <1>2 DEF TypeOK
        <3>2. ppc[q] = "append" => blk[q] \in Sector /\ cache[blk[q]] # NoBuf
            BY <1>1, ZeroOffset DEF CrashInv, CachedOK, IInv, WroteOK
        <3> QED
            BY <1>1, <2>1, <2>2, <3>1, <3>2
    <2>5. ASSUME boot' # "panic", NEW s \in Sector, s \notin dirty',
                 \A q \in Process : blk'[q] # s, cache'[s] # NoBuf
          PROVE  cache'[s] = home'[s]
        <3>1. s # b /\ \A q \in Process : blk[q] # s
            <4>1. s # 0 /\ blk[p] = 0
                BY <1>1, <1>2, SectorFacts DEF IInv, WroteOK
            <4>2. blk' = [blk EXCEPT ![p] = b]
                BY <1>2, <2>5
            <4> QED
                BY <1>1, <2>5, <4>1, <4>2 DEF TypeOK
        <3> QED
            BY <1>2, <2>2, <2>5, <3>1 DEF CrashInv, CachedOK
    <2> QED
        BY <2>3, <2>4, <2>5 DEF CachedOK
<1>7. CopiedOK'
    BY <1>3, <1>4 DEF CopiedOK, Committer
<1>8. Active' = Active /\ p \in Active
    BY <1>1, <1>2 DEF Active, TypeOK
<1>9. StableMap' = StableMap
    BY <1>2 DEF StableMap, Recovered
<1>10. MemMap' = [MemMap EXCEPT ![b] = v]
    <2>1. \A c \in Block : Content(Home(c))' = IF c = b THEN v ELSE Content(Home(c))
        BY <1>1, <1>2, ZeroOffset, NoBufAssumption DEF Content, TypeOK, Home
    <2> QED
        BY <1>2, <1>4, <2>1 DEF MemMap
<1> QED
    BY <1>5, <1>6, <1>7, <1>8, <1>9, <1>10 DEF BlocksOK

\* log_write() adds the block to the log; the buffer is now dirty.
LEMMA LoggingStep ==
    ASSUME LBA = 0, CrashInv, NEW p \in Process, LogWrite(p)
    PROVE  BlocksOK' /\ UNCHANGED <<MemMap, StableMap>> /\ Active' = Active
<1>1. TypeOK /\ IInv
    BY DEF CrashInv, IInv
<1>2. /\ UNCHANGED <<dhead, dlog, home, cache, boot, i>>
      /\ ppc[p] = "append" /\ boot = "up"
      /\ lh' = IF \E k \in DOMAIN lh : lh[k] = blk[p] THEN lh ELSE Append(lh, blk[p])
      /\ dirty' = dirty \cup {blk[p]}
      /\ ppc' = [ppc EXCEPT ![p] = "op"] /\ blk' = [blk EXCEPT ![p] = 0]
    BY DEF LogWrite, diskVars, Up
<1>3. \A q \in Process : ppc[q] \notin Committer /\ ppc'[q] \notin Committer
    BY <1>1, <1>2, NoCopying DEF TypeOK, Committer
<1>4. \A k : ~Installed(k) /\ ~Installed(k)'
    BY <1>2, <1>3 DEF Installed, Committer
<1>5. DirtyOK'
    <2>1. dirty = Logged
        BY <1>2, <1>4 DEF CrashInv, DirtyOK, Logged
    <2>2. blk[p] \in HomeSector
        BY <1>2 DEF CrashInv, IInv, WroteOK
    <2>3. Logged' = Logged \cup {blk[p]}
        BY <1>1, <1>2, <2>2, LoggedGrows
    <2> QED
        BY <1>2, <1>4, <2>1, <2>3 DEF DirtyOK, Logged
<1>6. CachedOK'
    BY <1>1, <1>2 DEF CrashInv, CachedOK, TypeOK
<1>7. CopiedOK'
    BY <1>3, <1>4 DEF CopiedOK, Committer
<1>8. UNCHANGED <<MemMap, StableMap>>
    BY <1>2 DEF MemMap, StableMap, Content, Recovered
<1>9. Active' = Active
    BY <1>1, <1>2 DEF Active, TypeOK
<1> QED
    BY <1>5, <1>6, <1>7, <1>8, <1>9 DEF BlocksOK

\* A round of write_log() copies to the log area, which nobody reads yet.
LEMMA WriteLogCopies ==
    ASSUME LBA = 0, CrashInv, NEW p \in Process, WriteLog(p), IInv'
    PROVE  BlocksOK' /\ UNCHANGED <<MemMap, StableMap>>
<1> DEFINE s == lh[i]
<1>1. TypeOK /\ IInv /\ i \in 1..Len(lh) /\ i \in 1..LOGSIZE /\ s \in Block
    <2>1. TypeOK /\ IInv /\ i \in 1..Len(lh)
        BY DEF CrashInv, IInv, PhaseOK, WriteLog
    <2> QED
        BY <2>1, RoundFacts, ZeroOffset
<1>2. s + LBA = s /\ Sector = Block
    BY <1>1, ZeroOffset
<1>3. /\ UNCHANGED <<dhead, home, dirty, lh, blk, boot>>
      /\ boot = "up" /\ ppc[p] = "write_log"
      /\ dlog' = [dlog EXCEPT ![i] = Content(s)] /\ cache' = [cache EXCEPT ![s] = Content(s)]
      /\ \/ i = Len(lh) /\ ppc' = [ppc EXCEPT ![p] = "write_head"] /\ i' = i
         \/ i # Len(lh) /\ ppc' = ppc /\ i' = i + 1
    BY <1>2 DEF WriteLog, logVars, Up
<1> HIDE DEF s
<1>4. \A q \in Process : q # p => ppc[q] \in {"out", "begin", "wait"} /\ ppc'[q] = ppc[q]
    BY <1>1, <1>3, CommitterAlone DEF Committer, TypeOK
<1>5. ppc'[p] \in {"write_log", "write_head"}
    BY <1>1, <1>3 DEF TypeOK
<1>6. \A k : ~Installed(k) /\ ~Installed(k)'
    BY <1>3, <1>4, <1>5 DEF Installed
<1>7. Content(s) \in Val /\ Content(s) # NoBuf
    BY <1>1, <1>2, NoBufAssumption DEF Content, TypeOK
<1>8. \A t \in Block : Content(t)' = Content(t)
    BY <1>1, <1>2, <1>3, <1>7 DEF Content, TypeOK
<1>9. DirtyOK'
    BY <1>3, <1>6 DEF CrashInv, DirtyOK
<1>10. s \in dirty
    BY <1>1, <1>3, <1>6 DEF CrashInv, DirtyOK, s
<1>11. CachedOK'
    <2>1. \A t \in Block : cache'[t] = IF t = s THEN Content(s) ELSE cache[t]
        BY <1>1, <1>2, <1>3 DEF TypeOK
    <2>2. dirty \subseteq Block
        BY <1>1, <1>2 DEF TypeOK
    <2>3. \A q \in Process : ppc'[q] # "append"
        BY <1>4, <1>5
    <2> QED
        BY <1>2, <1>3, <1>7, <1>10, <2>1, <2>2, <2>3 DEF CrashInv, CachedOK
<1>12. CopiedOK'
    <2>1. \A k \in 1..Len(lh) : lh[k] \in Block
        BY <1>1, ZeroOffset DEF IInv, HeaderOK, IsHeader
    <2>2. ASSUME NEW k \in 1..Len(lh), ppc'[p] = "write_log" => k < i'
          PROVE  dlog'[k] = Content(lh[k])'
        <3>1. k = i \/ k < i
            BY <1>1, <1>3, <2>2 DEF TypeOK
        <3>2. CASE k = i
            <4>1. dlog'[k] = Content(s)
                BY <1>1, <1>3, <3>2 DEF TypeOK
            <4> QED
                BY <1>1, <1>3, <1>8, <3>2, <4>1 DEF s
        <3>3. CASE k < i
            <4>1. dlog[k] = Content(lh[k])
                BY <1>3, <3>3 DEF CrashInv, CopiedOK
            <4>2. dlog'[k] = dlog[k]
                <5>1. k # i
                    BY <1>1, <3>3
                <5> QED
                    BY <1>1, <1>3, <5>1 DEF TypeOK
            <4> QED
                BY <1>3, <1>8, <2>1, <4>1, <4>2
        <3> QED
            BY <3>1, <3>2, <3>3
    <2>3. ASSUME NEW q \in Process, ppc'[q] \in {"write_log", "write_head", "install", "clear"}
          PROVE  q = p
        BY <1>4, <2>3
    <2> QED
        BY <1>3, <1>6, <2>2, <2>3 DEF CopiedOK
<1>13. UNCHANGED <<MemMap, StableMap>>
    <2>1. dhead = <<>>
        BY <1>1, <1>3, <1>4 DEF IInv, PhaseOK
    <2>2. \A b \in Block : Recovered(b)' = home[b] /\ Recovered(b) = home[b]
        BY <1>3, <2>1 DEF Recovered
    <2> QED
        BY <1>3, <1>8, <2>2, ZeroOffset DEF MemMap, StableMap
<1> QED
    BY <1>9, <1>11, <1>12, <1>13 DEF BlocksOK

\* write_head() commits: what recovery would produce is now what memory has.
LEMMA WriteHeadCommits ==
    ASSUME LBA = 0, CrashInv, NEW p \in Process, WriteHead(p), IInv'
    PROVE  /\ BlocksOK' /\ MemMap' = MemMap /\ StableMap' = MemMap
           /\ Active = {} /\ Active' = {}
<1>1. /\ UNCHANGED <<dlog, home, cache, dirty, lh, blk, boot>>
      /\ boot = "up" /\ ppc[p] = "write_head" /\ TypeOK /\ IInv
      /\ dhead' = lh /\ i' = 1 /\ ppc' = [ppc EXCEPT ![p] = "install"]
    BY DEF WriteHead, cacheVars, logVars, Up, CrashInv, IInv
<1>2. /\ Active = {}
      /\ \A q \in Process : q # p => ppc[q] \in {"out", "begin", "wait"} /\ ppc'[q] = ppc[q]
      /\ ppc'[p] = "install"
    BY <1>1, CommitterAlone DEF Committer, TypeOK
<1>3. Active' = {}
    BY <1>2 DEF Active
<1>4. \A k \in 1..Len(lh) : ~Installed(k) /\ ~Installed(k)'
    BY <1>1, <1>2 DEF Installed
<1>5. \A k \in 1..Len(lh) : dlog[k] = Content(lh[k])
    BY <1>1 DEF CrashInv, CopiedOK
<1>6. \A t : Content(t)' = Content(t)
    BY <1>1 DEF Content
<1>7. BlocksOK'
    <2>1. DirtyOK'
        BY <1>1, <1>4 DEF CrashInv, DirtyOK
    <2>2. CachedOK'
        BY <1>1, <1>2 DEF CrashInv, CachedOK
    <2>3. CopiedOK'
        BY <1>1, <1>4, <1>5, <1>6 DEF CopiedOK
    <2> QED
        BY <2>1, <2>2, <2>3 DEF BlocksOK
<1>8. \A b \in Block : Recovered(b)' = Content(b)
    <2>1. RecoveredOK'
        <3>1. HeaderOK'
            BY DEF IInv
        <3> QED
            BY <3>1, RecoveredIs, PTL
    <2> TAKE b \in Block
    <2>2. CASE \E k \in 1..Len(lh) : lh[k] = b
        <3>1. PICK k \in 1..Len(lh) : lh[k] = b
            BY <2>2
        <3>2. Recovered(b)' = dlog[k]
            BY <1>1, <2>1, <3>1 DEF RecoveredOK
        <3> QED
            BY <1>5, <3>1, <3>2
    <2>3. CASE \A k \in 1..Len(lh) : lh[k] # b
        <3>1. Recovered(b)' = home[b]
            BY <1>1, <2>1, <2>3 DEF RecoveredOK
        <3>2. b \notin dirty /\ b \in Sector
            BY <1>1, <2>3, ZeroOffset DEF CrashInv, DirtyOK
        <3>3. \A q \in Process : blk[q] # b
            BY <1>1, <1>2, ZeroOffset DEF IInv, WroteOK
        <3> QED
            BY <1>1, <3>1, <3>2, <3>3 DEF CrashInv, CachedOK, Content
    <2> QED
        BY <2>2, <2>3
<1>9. MemMap' = MemMap /\ StableMap' = MemMap
    BY <1>1, <1>6, <1>8, ZeroOffset DEF MemMap, StableMap
<1> QED
    BY <1>2, <1>3, <1>7, <1>9

\* A round of install_trans() copies a block home; recovery would produce the
\* same as before, with the round or without it.
LEMMA InstallCopies ==
    ASSUME LBA = 0, CrashInv, IInv', i \in 1..Len(lh), lh = dhead, InstallRound, lh' = lh,
           \A k \in 1..Len(lh) : k < i => home[lh[k]] = dlog[k]
    PROVE  /\ lh[i] \in Block /\ dlog' = dlog
           /\ home' = [home EXCEPT ![lh[i]] = dlog[i]]
           /\ cache' = [cache EXCEPT ![lh[i]] = dlog[i]]
           /\ dirty' = dirty \ {lh[i]} /\ dlog[i] # NoBuf
           /\ \A k \in 1..Len(lh) : k <= i => home'[lh[k]] = dlog[k]
           /\ \A b \in Block : Recovered(b)' = Recovered(b)
<1>1. TypeOK /\ IInv /\ i \in 1..LOGSIZE /\ lh[i] \in Block
    BY RoundFacts, ZeroOffset DEF CrashInv, IInv
<1>2. lh[i] + LBA = lh[i] /\ Sector = Block
    BY <1>1, ZeroOffset
<1>3. /\ dlog' = dlog /\ dhead' = dhead
      /\ home' = [home EXCEPT ![lh[i]] = dlog[i]]
      /\ cache' = [cache EXCEPT ![lh[i]] = dlog[i]]
      /\ dirty' = dirty \ {lh[i]}
    BY <1>2 DEF InstallRound
<1>4. dlog[i] # NoBuf
    BY <1>1, NoBufAssumption DEF TypeOK
<1>5. /\ \A k \in 1..Len(lh) : lh[k] \in Block
      /\ \A j, k \in 1..Len(lh) : lh[j] = lh[k] => j = k
    BY <1>1, ZeroOffset DEF IInv, HeaderOK, IsHeader
<1>6. \A t \in Block : home'[t] = IF t = lh[i] THEN dlog[i] ELSE home[t]
    BY <1>1, <1>2, <1>3 DEF TypeOK
<1>7. ASSUME NEW k \in 1..Len(lh), k <= i PROVE home'[lh[k]] = dlog[k]
    <2>1. CASE k = i
        BY <1>5, <1>6, <2>1
    <2>2. CASE k # i
        <3>1. k < i
            BY <1>1, <1>7, <2>2
        <3> QED
            BY <1>5, <1>6, <2>2, <3>1
    <2> QED
        BY <2>1, <2>2
<1>8. RecoveredOK /\ RecoveredOK'
    <2>1. HeaderOK /\ HeaderOK'
        BY <1>1 DEF IInv
    <2> QED
        BY <2>1, RecoveredIs, PTL
<1>9. ASSUME NEW b \in Block PROVE Recovered(b)' = Recovered(b)
    <2>1. CASE \E k \in 1..Len(dhead) : dhead[k] = b
        BY <1>3, <1>8, <2>1 DEF RecoveredOK
    <2>2. CASE \A k \in 1..Len(dhead) : dhead[k] # b
        BY <1>3, <1>6, <1>8, <2>2 DEF RecoveredOK
    <2> QED
        BY <2>1, <2>2
<1> QED
    BY <1>1, <1>3, <1>4, <1>7, <1>9

\* install_trans() of commit(): a logged block has in the cache what it has in
\* the log, so that memory does not change either.
LEMMA InstallKeeps ==
    ASSUME LBA = 0, CrashInv, NEW p \in Process, Install(p), IInv'
    PROVE  BlocksOK' /\ UNCHANGED <<MemMap, StableMap>>
<1> DEFINE s == lh[i]
<1>1. /\ TypeOK /\ IInv /\ InstallRound /\ UNCHANGED <<lh, blk, boot>>
      /\ boot = "up" /\ ppc[p] = "install"
      /\ \/ i = Len(lh) /\ ppc' = [ppc EXCEPT ![p] = "clear"] /\ i' = i
         \/ i # Len(lh) /\ ppc' = ppc /\ i' = i + 1
    BY DEF Install, logVars, Up, CrashInv, IInv
<1>2. i \in 1..Len(lh) /\ lh = dhead
    BY <1>1 DEF IInv, PhaseOK
<1>3. \A k \in 1..Len(lh) : k < i => home[lh[k]] = dlog[k]
    BY <1>1 DEF CrashInv, CopiedOK, Installed
<1>4. /\ s \in Block /\ dlog' = dlog
      /\ home' = [home EXCEPT ![s] = dlog[i]]
      /\ cache' = [cache EXCEPT ![s] = dlog[i]]
      /\ dirty' = dirty \ {s} /\ dlog[i] # NoBuf
      /\ \A k \in 1..Len(lh) : k <= i => home'[lh[k]] = dlog[k]
      /\ \A b \in Block : Recovered(b)' = Recovered(b)
    BY <1>1, <1>2, <1>3, InstallCopies
<1>5. /\ \A q \in Process : q # p => ppc[q] \in {"out", "begin", "wait"} /\ ppc'[q] = ppc[q]
      /\ ppc'[p] \in {"install", "clear"} /\ (ppc'[p] = "clear" <=> i = Len(lh))
      /\ ppc'[p] = "install" => i' = i + 1
    BY <1>1, CommitterAlone DEF Committer, TypeOK
<1>6. Len(lh) \in Nat /\ i \in Nat /\ Sector = Block
    BY <1>1, ZeroOffset DEF TypeOK
<1>7. \A k \in 1..Len(lh) : (Installed(k)' <=> k <= i) /\ (Installed(k) <=> k < i)
    <2>1. \A k \in 1..Len(lh) : Installed(k) <=> k < i
        BY <1>1, <1>5 DEF Installed
    <2>2. CASE i = Len(lh)
        BY <1>1, <1>5, <1>6, <2>1, <2>2 DEF Installed
    <2>3. CASE i # Len(lh)
        <3>1. \A k \in 1..Len(lh) : Installed(k)' <=> k < i + 1
            BY <1>1, <1>5, <2>3 DEF Installed
        <3> QED
            BY <1>6, <2>1, <3>1
    <2> QED
        BY <2>2, <2>3
<1>8. /\ \A k \in 1..Len(lh) : lh[k] \in Block /\ dlog[k] = Content(lh[k])
      /\ \A j, k \in 1..Len(lh) : lh[j] = lh[k] => j = k
    <2>1. \A k \in 1..Len(lh) : lh[k] \in Block
        BY <1>1, ZeroOffset DEF IInv, HeaderOK, IsHeader
    <2>2. \A j, k \in 1..Len(lh) : lh[j] = lh[k] => j = k
        BY <1>1 DEF IInv, HeaderOK, IsHeader
    <2> QED
        BY <1>1, <2>1, <2>2 DEF CrashInv, CopiedOK
<1> HIDE DEF s
<1>9. \A t \in Block : /\ home'[t] = IF t = s THEN dlog[i] ELSE home[t]
                       /\ cache'[t] = IF t = s THEN dlog[i] ELSE cache[t]
    BY <1>1, <1>4, <1>6 DEF TypeOK
<1>10. \A t \in Block : Content(t)' = Content(t)
    BY <1>2, <1>4, <1>8, <1>9 DEF Content, s
<1>11. DirtyOK'
    <2>1. dirty = {lh[k] : k \in {j \in 1..Len(lh) : ~(j < i)}}
        BY <1>1, <1>7 DEF CrashInv, DirtyOK
    <2>2. dirty' = {lh[k] : k \in {j \in 1..Len(lh) : ~(j <= i)}}
        <3>1. \A j \in 1..Len(lh) : ~(j <= i) <=> ~(j < i) /\ j # i
            BY <1>6
        <3>2. \A j \in 1..Len(lh) : j # i <=> lh[j] # s
            BY <1>2, <1>8 DEF s
        <3> QED
            BY <1>4, <2>1, <3>1, <3>2
    <2> QED
        BY <1>1, <1>7, <2>2 DEF DirtyOK
<1>12. CachedOK'
    <2>1. dirty \subseteq Block
        BY <1>1, <1>6 DEF TypeOK
    <2>2. \A q \in Process : ppc'[q] # "append"
        BY <1>5
    <2> QED
        BY <1>1, <1>4, <1>6, <1>9, <2>1, <2>2 DEF CrashInv, CachedOK
<1>13. CopiedOK'
    <2>1. \A q \in Process : ppc'[q] # "write_log"
        BY <1>5
    <2> QED
        BY <1>1, <1>4, <1>7, <1>8, <1>10, <2>1 DEF CopiedOK
<1>14. UNCHANGED <<MemMap, StableMap>>
    BY <1>1, <1>4, <1>10, ZeroOffset DEF MemMap, StableMap
<1> QED
    BY <1>11, <1>12, <1>13, <1>14 DEF BlocksOK

\* Once all blocks are home, recovery would produce the home blocks, with the
\* log header on disk or without it.
LEMMA InstalledIsHome ==
    ASSUME LBA = 0, IInv, \A k \in 1..Len(dhead) : home[dhead[k]] = dlog[k],
           dhead' = <<>>, home' = home
    PROVE  \A b \in Block : Recovered(b) = home[b] /\ Recovered(b)' = home[b]
<1>1. RecoveredOK
    BY RecoveredIs DEF IInv
<1>2. \A b \in Block : Recovered(b)' = home[b]
    BY DEF Recovered
<1>3. ASSUME NEW b \in Block PROVE Recovered(b) = home[b]
    <2>1. CASE \E k \in 1..Len(dhead) : dhead[k] = b
        BY <1>1, <2>1 DEF RecoveredOK
    <2>2. CASE \A k \in 1..Len(dhead) : dhead[k] # b
        BY <1>1, <2>2 DEF RecoveredOK
    <2> QED
        BY <2>1, <2>2
<1> QED
    BY <1>2, <1>3

\* The second write_head() of commit().
LEMMA ClearKeeps ==
    ASSUME LBA = 0, CrashInv, NEW p \in Process, Clear(p)
    PROVE  BlocksOK' /\ UNCHANGED <<MemMap, StableMap>>
<1>1. /\ UNCHANGED <<dlog, home, cache, dirty, blk, boot, i>> /\ TypeOK /\ IInv
      /\ boot = "up" /\ ppc[p] = "clear" /\ lh = dhead
      /\ lh' = <<>> /\ dhead' = <<>> /\ ppc' = [ppc EXCEPT ![p] = "done"]
    BY DEF Clear, cacheVars, Up, CrashInv, IInv, PhaseOK
<1>2. /\ \A q \in Process : q # p => ppc[q] \in {"out", "begin", "wait"} /\ ppc'[q] = ppc[q]
      /\ ppc'[p] = "done"
    BY <1>1, CommitterAlone DEF Committer, TypeOK
<1>3. \A k : Installed(k)
    BY <1>1 DEF Installed
<1>4. \A b \in Block : Recovered(b) = home[b] /\ Recovered(b)' = home[b]
    BY <1>1, <1>3, InstalledIsHome DEF CrashInv, CopiedOK
<1>5. DirtyOK'
    BY <1>1, <1>3 DEF CrashInv, DirtyOK
<1>6. CachedOK'
    BY <1>1, <1>2 DEF CrashInv, CachedOK
<1>7. CopiedOK'
    BY <1>1 DEF CopiedOK
<1>8. UNCHANGED <<MemMap, StableMap>>
    BY <1>1, <1>4, ZeroOffset DEF MemMap, StableMap, Content
<1> QED
    BY <1>5, <1>6, <1>7, <1>8 DEF BlocksOK

\* bread() of a reader and bget() of a clean, unused buffer.
LEMMA CacheStep ==
    ASSUME LBA = 0, CrashInv, (\E b \in Block : Bread(b)) \/ (\E s \in Sector : Recycle(s))
    PROVE  BlocksOK' /\ UNCHANGED <<MemMap, StableMap, Active>>
<1>1. /\ UNCHANGED <<dhead, dlog, home, dirty, lh, ppc, blk, boot, i>>
      /\ TypeOK /\ boot = "up" /\ Sector = Block
    BY ZeroOffset DEF Bread, Recycle, diskVars, logVars, procVars, Up, CrashInv, IInv
<1>2. PICK t \in Block : \E c \in Val \cup {NoBuf} :
        /\ cache' = [cache EXCEPT ![t] = c] /\ t \notin dirty
        /\ \A p \in Process : ppc[p] = "append" => blk[p] # t
        /\ Content(t) = home[t] /\ c \in {home[t], NoBuf}
    <2>1. ASSUME NEW b \in Block, Bread(b)
          PROVE  /\ cache' = [cache EXCEPT ![b] = home[b]] /\ b \notin dirty
                 /\ \A p \in Process : ppc[p] = "append" => blk[p] # b
                 /\ Content(b) = home[b] /\ home[b] \in Val
        <3>1. Home(b) = b
            BY ZeroOffset
        <3> QED
            BY <1>1, <2>1, <3>1 DEF Bread, CrashInv, CachedOK, Content, TypeOK
    <2>2. ASSUME NEW s \in Sector, Recycle(s)
          PROVE  /\ cache' = [cache EXCEPT ![s] = NoBuf] /\ s \notin dirty
                 /\ \A p \in Process : ppc[p] = "append" => blk[p] # s
                 /\ Content(s) = home[s]
        BY <1>1, <2>2 DEF Recycle, CrashInv, CachedOK, Content
    <2> QED
        BY <1>1, <2>1, <2>2
<1>3. PICK c \in Val \cup {NoBuf} :
        cache' = [cache EXCEPT ![t] = c] /\ c \in {home[t], NoBuf}
    BY <1>2
<1>4. \A u \in Block : cache'[u] = IF u = t THEN c ELSE cache[u]
    BY <1>1, <1>3 DEF TypeOK
<1>5. \A u \in Block : Content(u)' = Content(u)
    BY <1>1, <1>2, <1>3, <1>4 DEF Content
<1>6. \A k : Installed(k)' <=> Installed(k)
    BY <1>1 DEF Installed
<1>7. DirtyOK'
    BY <1>1, <1>6 DEF CrashInv, DirtyOK
<1>8. CachedOK'
    <2>1. dirty \subseteq Block /\ \A p \in Process : ppc[p] = "append" => blk[p] \in Block
        BY <1>1, ZeroOffset DEF TypeOK, CrashInv, IInv, WroteOK
    <2> QED
        BY <1>1, <1>2, <1>3, <1>4, <2>1 DEF CrashInv, CachedOK
<1>9. CopiedOK'
    <2>1. \A k \in 1..Len(lh) : lh[k] \in Block
        BY ZeroOffset DEF CrashInv, IInv, HeaderOK, IsHeader
    <2> QED
        BY <1>1, <1>5, <1>6, <2>1 DEF CrashInv, CopiedOK
<1>10. UNCHANGED <<MemMap, StableMap, Active>>
    BY <1>1, <1>5, ZeroOffset DEF MemMap, StableMap, Active, Recovered
<1> QED
    BY <1>7, <1>8, <1>9, <1>10 DEF BlocksOK

\* A crash brings memory back to what recovery will produce.
LEMMA CrashKeeps ==
    ASSUME LBA = 0, CrashInv, Crash
    PROVE  BlocksOK' /\ MemMap' = StableMap /\ StableMap' = StableMap /\ Active' = {}
<1>1. /\ UNCHANGED <<dhead, dlog, home>> /\ cache' = [s \in Sector |-> NoBuf] /\ dirty' = {}
      /\ ppc' = [p \in Process |-> "out"] /\ boot' = "read_head" /\ lh' = <<>>
    BY DEF Crash, diskVars
<1>2. BlocksOK'
    BY <1>1 DEF BlocksOK, DirtyOK, CachedOK, CopiedOK
<1>3. MemMap' = StableMap /\ StableMap' = StableMap
    BY <1>1 DEF MemMap, StableMap, Recovered
<1> QED
    BY <1>1, <1>2, <1>3 DEF Active

\* recover_from_log() changes nothing that recovery would not, and leaves in
\* memory what it produces.
LEMMA RecoveryKeeps ==
    ASSUME LBA = 0, CrashInv, Recovery, IInv'
    PROVE  BlocksOK' /\ UNCHANGED <<MemMap, StableMap, Active>>
<1>1. /\ UNCHANGED <<ppc, blk>> /\ TypeOK /\ IInv /\ Sector = Block
      /\ boot \in {"read_head", "install", "clear"}
    BY ZeroOffset DEF Recovery, ReadHead, RecoverInstall, RecoverClear, procVars, CrashInv, IInv
<1>2. dirty = {} /\ \A p \in Process : ppc[p] = "out"
    BY <1>1 DEF CrashInv, DirtyOK, IInv, PhaseOK
<1>3. Active' = Active
    BY <1>1 DEF Active
<1>4. CASE ReadHead
    <2>1. /\ UNCHANGED <<dhead, dlog, home, cache, dirty>> /\ i' = 1 /\ lh' = dhead
          /\ boot = "read_head" /\ boot' = IF dhead = <<>> THEN "clear" ELSE "install"
        BY <1>4 DEF ReadHead, diskVars, cacheVars
    <2>2. DirtyOK' /\ CachedOK'
        BY <1>1, <1>2, <2>1 DEF CrashInv, DirtyOK, CachedOK
    <2>3. \A k \in 1..Len(lh') : ~Installed(k)'
        BY <1>1, <1>2, <2>1 DEF Installed
    <2>4. CopiedOK'
        BY <1>1, <1>2, <2>3 DEF CopiedOK
    <2>5. UNCHANGED <<MemMap, StableMap>>
        BY <2>1 DEF MemMap, StableMap, Recovered
    <2> QED
        BY <1>3, <2>2, <2>4, <2>5 DEF BlocksOK
<1>5. CASE RecoverInstall
    <2>1. /\ InstallRound /\ lh' = lh /\ boot = "install"
          /\ \/ i = Len(lh) /\ boot' = "clear" /\ i' = i
             \/ i # Len(lh) /\ boot' = boot /\ i' = i + 1
        BY <1>5 DEF RecoverInstall, logVars
    <2>2. i \in 1..Len(lh) /\ lh = dhead /\ Len(lh) \in Nat /\ i \in Nat
        BY <1>1, <2>1 DEF IInv, PhaseOK, TypeOK
    <2>3. \A k \in 1..Len(lh) : k < i => home[lh[k]] = dlog[k]
        BY <2>1 DEF CrashInv, CopiedOK, Installed
    <2>4. /\ lh[i] \in Block /\ dlog' = dlog
          /\ home' = [home EXCEPT ![lh[i]] = dlog[i]]
          /\ cache' = [cache EXCEPT ![lh[i]] = dlog[i]]
          /\ dirty' = dirty \ {lh[i]}
          /\ \A k \in 1..Len(lh) : k <= i => home'[lh[k]] = dlog[k]
          /\ \A b \in Block : Recovered(b)' = Recovered(b)
        BY <2>1, <2>2, <2>3, InstallCopies
    <2>5. DirtyOK'
        BY <1>2, <2>1, <2>4 DEF DirtyOK
    <2>6. CachedOK'
        <3>1. \A t \in Block : /\ home'[t] = IF t = lh[i] THEN dlog[i] ELSE home[t]
                               /\ cache'[t] = IF t = lh[i] THEN dlog[i] ELSE cache[t]
            BY <1>1, <2>4 DEF TypeOK
        <3> QED
            BY <1>1, <1>2, <2>1, <2>4, <3>1 DEF CrashInv, CachedOK
    <2>7. CopiedOK'
        <3>1. \A k \in 1..Len(lh) : Installed(k)' => k <= i
            <4>1. CASE i = Len(lh)
                BY <2>2, <4>1
            <4>2. CASE i # Len(lh)
                <5>1. \A k \in 1..Len(lh) : Installed(k)' => k < i + 1
                    BY <1>1, <1>2, <2>1, <4>2 DEF Installed
                <5> QED
                    BY <2>2, <5>1
            <4> QED
                BY <4>1, <4>2
        <3> QED
            BY <1>1, <1>2, <2>1, <2>4, <3>1 DEF CopiedOK
    <2>8. UNCHANGED <<MemMap, StableMap>>
        BY <2>1, <2>4, ZeroOffset DEF MemMap, StableMap
    <2> QED
        BY <1>3, <2>5, <2>6, <2>7, <2>8 DEF BlocksOK
<1>6. CASE RecoverClear
    <2>1. /\ UNCHANGED <<dlog, home, cache, dirty, i>> /\ lh' = <<>> /\ dhead' = <<>>
          /\ boot = "clear" /\ boot' = "up" /\ lh = dhead
        BY <1>1, <1>6 DEF RecoverClear, cacheVars, IInv, PhaseOK
    <2>2. DirtyOK' /\ CopiedOK'
        BY <1>2, <2>1 DEF DirtyOK, CopiedOK
    <2>3. CachedOK'
        BY <1>1, <1>2, <2>1 DEF CrashInv, CachedOK
    <2>4. \A b \in Block : Recovered(b) = home[b] /\ Recovered(b)' = home[b]
        BY <1>1, <2>1, InstalledIsHome DEF CrashInv, CopiedOK, Installed
    <2>5. \A b \in Block : Content(b)' = home[b]
        <3>1. \A p \in Process : blk[p] = 0
            BY <1>1, <1>2 DEF IInv, WroteOK
        <3> QED
            BY <1>1, <1>2, <2>1, <3>1, ZeroOffset DEF CrashInv, CachedOK, Content
    <2>6. UNCHANGED <<MemMap, StableMap>>
        BY <2>1, <2>4, <2>5, ZeroOffset DEF MemMap, StableMap
    <2> QED
        BY <1>3, <2>2, <2>3, <2>6 DEF BlocksOK
<1> QED
    BY <1>4, <1>5, <1>6 DEF Recovery

-----------------------------------------------------------------------------
(* The refinement *)

\* Each step keeps the invariant and is a step of AtomicDisk, or hidden.
Simulated ==
    \/ UNCHANGED <<MemMap, StableMap, Active>>
    \/ \E p \in Process : /\ p \notin Active /\ Active' = Active \cup {p}
                          /\ UNCHANGED <<MemMap, StableMap>>
    \/ \E p \in Process : /\ p \in Active /\ Active' = Active \ {p}
                          /\ UNCHANGED <<MemMap, StableMap>>
    \/ \E p \in Process, b \in Block, v \in Val :
         /\ p \in Active /\ MemMap' = [MemMap EXCEPT ![b] = v] /\ UNCHANGED <<StableMap, Active>>
    \/ Active = {} /\ StableMap' = MemMap /\ UNCHANGED <<MemMap, Active>>
    \/ MemMap' = StableMap /\ Active' = {} /\ UNCHANGED StableMap

\* Every step is a step of AtomicDisk, or none.
LEMMA SimulationStep ==
    ASSUME LBA = 0, CrashInv, [Next]_vars
    PROVE  CrashInv' /\ Simulated
<1>1. IInv' /\ IInv
    BY IInvStep DEF CrashInv
<1> SUFFICES BlocksOK' /\ Simulated
    BY <1>1 DEF CrashInv, BlocksOK
<1>2. CASE UNCHANGED vars
    <2>1. UNCHANGED <<dhead, dlog, home, cache, dirty, lh, ppc, blk, boot, i>>
        BY <1>2 DEF vars, diskVars, cacheVars, logVars, procVars
    <2>2. BlocksOK'
        BY <2>1 DEF CrashInv, BlocksOK, DirtyOK, CachedOK, CopiedOK, Installed, Content
    <2>3. UNCHANGED <<MemMap, StableMap, Active>>
        BY <2>1 DEF MemMap, StableMap, Active, Content, Recovered
    <2> QED
        BY <2>2, <2>3 DEF Simulated
<1>3. ASSUME NEW p \in Process,
             CallBegin(p) \/ BeginWait(p) \/ BeginOp(p) \/ EndOp(p) \/ CommitDone(p)
      PROVE  BlocksOK' /\ Simulated
    BY <1>3, ControlStep DEF Simulated
<1>4. ASSUME NEW p \in Process, LogWrite(p) PROVE BlocksOK' /\ Simulated
    BY <1>4, LoggingStep DEF Simulated
<1>5. ASSUME NEW p \in Process, WriteLog(p) \/ WriteHead(p) \/ Install(p) \/ Clear(p)
      PROVE  BlocksOK' /\ Simulated
    <2>1. CASE WriteHead(p)
        BY <1>1, <2>1, WriteHeadCommits DEF Simulated
    <2>2. CASE WriteLog(p) \/ Install(p) \/ Clear(p)
        <3>1. BlocksOK' /\ UNCHANGED <<MemMap, StableMap>>
            BY <1>1, <2>2, WriteLogCopies, InstallKeeps, ClearKeeps
        <3>2. Active' = Active
            BY <1>1, <2>2 DEF IInv, TypeOK, WriteLog, Install, Clear, Active
        <3> QED
            BY <3>1, <3>2 DEF Simulated
    <2> QED
        BY <1>5, <2>1, <2>2
<1>6. ASSUME NEW p \in Process, NEW b \in Block, NEW v \in Val, Modify(p, b, v)
      PROVE  BlocksOK' /\ Simulated
    BY <1>6, WriteStep DEF Simulated
<1>7. ASSUME (\E b \in Block : Bread(b)) \/ (\E s \in Sector : Recycle(s))
      PROVE  BlocksOK' /\ Simulated
    BY <1>7, CacheStep DEF Simulated
<1>8. CASE Crash
    BY <1>8, CrashKeeps DEF Simulated
<1>9. CASE Recovery
    BY <1>1, <1>9, RecoveryKeeps DEF Simulated
<1> QED
    BY <1>2, <1>3, <1>4, <1>5, <1>6, <1>7, <1>8, <1>9 DEF Next, CommitStep

\* A disk with an empty log is what AtomicDisk starts from.
LEMMA SimulationInit ==
    ASSUME LBA = 0, Init
    PROVE  CrashInv /\ MemMap \in [Block -> Val] /\ StableMap = MemMap /\ Active = {}
<1>1. IInv
    BY IInvInit
<1>2. BlocksOK
    BY DEF Init, BlocksOK, DirtyOK, CachedOK, CopiedOK
<1>3. \A b \in Block : Recovered(Home(b)) = home[Home(b)]
    BY DEF Init, Recovered
<1>4. \A b \in Block : home[Home(b)] \in Val
    BY <1>1, ZeroOffset DEF IInv, TypeOK
<1>5. boot = "read_head" /\ Active = {}
    BY DEF Init, Active
<1> QED
    BY <1>1, <1>2, <1>3, <1>4, <1>5 DEF CrashInv, BlocksOK, MemMap, StableMap

\* The invariant of the blocks in the cache, in the log and at home.
THEOREM BlocksInvariant == ASSUME LBA = 0 PROVE Spec => []CrashInv
<1>1. Init => CrashInv
    BY SimulationInit
<1>2. CrashInv /\ [Next]_vars => CrashInv'
    BY SimulationStep
<1> QED
    BY <1>1, <1>2, PTL DEF Spec

-----------------------------------------------------------------------------
(* The partition of the kernel: with its offset, larger than any block number, *)
(* the sectors a commit reads and writes are nobody's home.                     *)

\* No block number is another one plus the offset (FSSIZE = 1000, LBA = 0x20800).
HomesApart == \A b, c \in Block : b + LBA # c

\* A buffer of a home sector that is neither dirty nor in log_write() has what
\* the disk has; during recovery there is none.
HomeCached ==
    \A b \in Block :
        /\ boot \notin {"up", "panic"} => cache[Home(b)] = NoBuf
        /\ boot # "panic" /\ Home(b) \notin dirty /\ (\A p \in Process : blk[p] # Home(b))
              => cache[Home(b)] \in {NoBuf, home[Home(b)]}

\* A logged number is translated again, to a sector that is not a home.
LEMMA LoggedApart ==
    ASSUME HomesApart, NEW l, IsHeader(l), NEW k \in 1..Len(l), NEW b \in Block
    PROVE  l[k] + LBA # Home(b)
<1>1. PICK c \in Block : l[k] = Home(c)
    BY DEF IsHeader, HomeSector
<1>2. c + LBA # b /\ b \in Nat /\ c \in Nat /\ LBA \in Nat
    BY BlockAssumption DEF HomesApart
<1> QED
    BY <1>1, <1>2 DEF Home

\* Recovery finds a home sector as it is.
LEMMA RecoveredApart ==
    ASSUME HomesApart PROVE HeaderOK => \A b \in Block : Recovered(Home(b)) = home[Home(b)]
<1> SUFFICES ASSUME HeaderOK, NEW b \in Block PROVE Recovered(Home(b)) = home[Home(b)]
    OBVIOUS
<1>1. DOMAIN dhead = 1..Len(dhead) /\ IsHeader(dhead)
    BY DEF HeaderOK, IsHeader
<1>2. {j \in DOMAIN dhead : dhead[j] + LBA = Home(b)} = {}
    BY <1>1, LoggedApart
<1> QED
    BY <1>2 DEF Recovered

\* One round of install_trans(), in commit() or in recovery, leaves every home
\* sector and its buffer alone.
LEMMA RoundApart ==
    ASSUME HomesApart, IInv, i \in 1..Len(lh), InstallRound, NEW b \in Block
    PROVE  /\ home'[Home(b)] = home[Home(b)] /\ cache'[Home(b)] = cache[Home(b)]
           /\ Home(b) \in dirty' <=> Home(b) \in dirty
<1>1. lh[i] + LBA # Home(b)
    BY LoggedApart DEF IInv, HeaderOK
<1>2. Home(b) \in Sector
    BY SectorFacts
<1> QED
    BY <1>1, <1>2 DEF InstallRound, IInv, TypeOK

\* No step changes a home sector.
LEMMA HomeKept ==
    ASSUME HomesApart, IInv, [Next]_vars, NEW b \in Block
    PROVE  home'[Home(b)] = home[Home(b)]
<1>1. ASSUME NEW p \in Process, Install(p) PROVE home'[Home(b)] = home[Home(b)]
    <2>1. i \in 1..Len(lh)
        BY <1>1 DEF Install, IInv, PhaseOK
    <2> QED
        BY <1>1, <2>1, RoundApart DEF Install
<1>2. CASE RecoverInstall
    <2>1. i \in 1..Len(lh)
        BY <1>2 DEF RecoverInstall, IInv, PhaseOK
    <2> QED
        BY <1>2, <2>1, RoundApart DEF RecoverInstall
<1> QED
    BY <1>1, <1>2 DEF Next, vars, diskVars, CallBegin, BeginWait, BeginOp, EndOp, Modify, LogWrite, CommitStep,
       WriteLog, WriteHead, Clear, CommitDone, Bread, Recycle, Crash, Recovery, ReadHead, RecoverClear

\* What a step that leaves every home sector's buffer alone does to AtomicDisk.
LEMMA ApartFrame ==
    ASSUME HomesApart, IInv, IInv', HomeCached, boot = "up", boot' = "up", [Next]_vars,
           \A b \in Block : cache'[Home(b)] = cache[Home(b)],
           \A b \in Block : Home(b) \in dirty => Home(b) \in dirty',
           \A b \in Block : \A p \in Process : blk[p] = Home(b) => blk'[p] = Home(b) \/ Home(b) \in dirty'
    PROVE  HomeCached' /\ UNCHANGED <<MemMap, StableMap>>
<1>1. \A b \in Block : home'[Home(b)] = home[Home(b)]
    BY HomeKept
<1>2. HomeCached'
    BY <1>1 DEF HomeCached
<1>3. \A b \in Block : Recovered(Home(b)) = home[Home(b)]
    BY RecoveredApart DEF IInv
<1>4. \A b \in Block : (Recovered(Home(b)) = home[Home(b)])'
    <2>1. HeaderOK'
        BY DEF IInv
    <2>2. (\A b \in Block : Recovered(Home(b)) = home[Home(b)])'
        BY <2>1, RecoveredApart, PTL
    <2> QED
        BY <2>2
<1>5. \A b \in Block : Content(Home(b))' = Content(Home(b))
    BY <1>1 DEF Content
<1> QED
    BY <1>1, <1>2, <1>3, <1>4, <1>5 DEF MemMap, StableMap

\* The home sectors on disk are all that recovery needs.
LEMMA StableApart ==
    ASSUME HomesApart, IInv, IInv', [Next]_vars
    PROVE  /\ UNCHANGED StableMap
           /\ StableMap = [b \in Block |-> home[Home(b)]]
           /\ boot' \notin {"up", "panic"} => MemMap' = StableMap
<1>1. \A b \in Block : home'[Home(b)] = home[Home(b)]
    BY HomeKept
<1>2. \A b \in Block : Recovered(Home(b)) = home[Home(b)]
    BY RecoveredApart DEF IInv
<1>3. HeaderOK'
    BY DEF IInv
<1>4. (\A b \in Block : Recovered(Home(b)) = home[Home(b)])'
    BY <1>3, RecoveredApart, PTL
<1> QED
    BY <1>1, <1>2, <1>4 DEF MemMap, StableMap

\* A step of a process other than the change of a block.
LEMMA ApartProcess ==
    ASSUME HomesApart, IInv, IInv', HomeCached, NEW p \in Process,
           CallBegin(p) \/ BeginWait(p) \/ BeginOp(p) \/ EndOp(p) \/ LogWrite(p) \/ CommitStep(p)
    PROVE  HomeCached' /\ Simulated
<1>1. boot = "up" /\ boot' = "up" /\ [Next]_vars /\ TypeOK
    <2>1. EndOp(p) => ~committing
        BY DEF EndOp, IInv, CommitOK, CommitAlone, Committer
    <2> QED
        BY <2>1 DEF Next, CallBegin, BeginWait, BeginOp, EndOp, LogWrite, CommitStep, WriteLog, WriteHead,
           Install, Clear, CommitDone, Up, IInv
<1>2. \A b \in Block : Home(b) \in Sector
    BY SectorFacts
<1>3. /\ \A b \in Block : cache'[Home(b)] = cache[Home(b)]
      /\ \A b \in Block : Home(b) \in dirty => Home(b) \in dirty'
    <2>1. CASE WriteLog(p)
        <3>1. i \in 1..Len(lh)
            BY <2>1 DEF WriteLog, IInv, PhaseOK
        <3>2. \A b \in Block : lh[i] + LBA # Home(b)
            BY <3>1, LoggedApart DEF IInv, HeaderOK
        <3> QED
            BY <1>1, <1>2, <2>1, <3>2 DEF WriteLog, TypeOK
    <2>2. CASE Install(p)
        <3>1. i \in 1..Len(lh)
            BY <2>2 DEF Install, IInv, PhaseOK
        <3> QED
            BY <2>2, <3>1, RoundApart DEF Install
    <2> QED
        BY <2>1, <2>2 DEF cacheVars, CallBegin, BeginWait, BeginOp, EndOp, LogWrite, CommitStep,
           WriteHead, Clear, CommitDone
<1>4. \A b \in Block : \A q \in Process : blk[q] = Home(b) => blk'[q] = Home(b) \/ Home(b) \in dirty'
    BY <1>1 DEF TypeOK, CallBegin, BeginWait, BeginOp, EndOp, LogWrite, CommitStep, WriteLog, WriteHead,
       Install, Clear, CommitDone
<1>5. HomeCached' /\ UNCHANGED <<MemMap, StableMap>>
    BY <1>1, <1>3, <1>4, ApartFrame
<1>6. \/ Active' = Active
      \/ p \notin Active /\ Active' = Active \cup {p}
      \/ p \in Active /\ Active' = Active \ {p}
    <2>1. CASE CallBegin(p) \/ BeginWait(p) \/ LogWrite(p)
        BY <1>1, <2>1 DEF TypeOK, Active, CallBegin, BeginWait, LogWrite
    <2>2. CASE BeginOp(p)
        BY <1>1, <2>2 DEF TypeOK, Active, BeginOp
    <2>3. CASE EndOp(p)
        BY <1>1, <2>3 DEF TypeOK, Active, EndOp, Woken
    <2>4. CASE CommitStep(p)
        BY <1>1, <2>4 DEF TypeOK, Active, CommitStep, WriteLog, WriteHead, Install, Clear, CommitDone, Woken
    <2> QED
        BY <2>1, <2>2, <2>3, <2>4
<1> QED
    BY <1>5, <1>6 DEF Simulated

\* The change of a block is a write of AtomicDisk.
LEMMA ApartModify ==
    ASSUME HomesApart, IInv, IInv', HomeCached,
           NEW p \in Process, NEW b \in Block, NEW v \in Val, Modify(p, b, v)
    PROVE  HomeCached' /\ Simulated
<1>1. /\ UNCHANGED <<home, dirty>> /\ boot = "up" /\ boot' \in {"up", "panic"} /\ TypeOK
      /\ cache' = [cache EXCEPT ![Home(b)] = v] /\ ppc[p] = "op"
      /\ boot' # "panic" => blk' = [blk EXCEPT ![p] = Home(b)] /\ ppc' = [ppc EXCEPT ![p] = "append"]
      /\ boot' = "panic" => ppc' = ppc
    BY DEF Modify, diskVars, procVars, Up, IInv
<1>2. \A c \in Block : Home(c) \in Sector /\ (Home(c) = Home(b) => c = b)
    BY SectorFacts, BlockAssumption DEF Home
<1>3. \A c \in Block : cache'[Home(c)] = IF c = b THEN v ELSE cache[Home(c)]
    BY <1>1, <1>2 DEF TypeOK
<1>4. HomeCached'
    <2> SUFFICES ASSUME NEW c \in Block, boot' # "panic", Home(c) \notin dirty',
                        \A q \in Process : blk'[q] # Home(c)
                 PROVE  cache'[Home(c)] \in {NoBuf, home'[Home(c)]}
        BY <1>1 DEF HomeCached
    <2>1. c # b /\ \A q \in Process : blk[q] # Home(c)
        <3>1. blk' = [blk EXCEPT ![p] = Home(b)] /\ blk[p] = 0
            BY <1>1 DEF IInv, WroteOK
        <3>2. Home(c) # 0
            BY <1>2, SectorFacts
        <3> QED
            BY <1>1, <3>1, <3>2 DEF TypeOK
    <2> QED
        BY <1>1, <1>3, <2>1 DEF HomeCached
<1>5. UNCHANGED StableMap
    BY StableApart DEF Next
<1>6. v # NoBuf
    BY NoBufAssumption
<1>7. \A c \in Block : Content(Home(c))' = IF c = b THEN v ELSE Content(Home(c))
    BY <1>1, <1>3, <1>6 DEF Content
<1>8. MemMap' = [MemMap EXCEPT ![b] = v]
    BY <1>1, <1>7 DEF MemMap
<1>9. Active' = Active /\ p \in Active
    BY <1>1 DEF Active, TypeOK
<1> QED
    BY <1>4, <1>5, <1>8, <1>9 DEF Simulated

\* The cache on its own, a crash, and recovery.
LEMMA ApartRest ==
    ASSUME HomesApart, IInv, IInv', HomeCached,
           (\E b \in Block : Bread(b)) \/ (\E s \in Sector : Recycle(s)) \/ Crash \/ Recovery
    PROVE  HomeCached' /\ Simulated
<1>1. [Next]_vars /\ TypeOK
    BY DEF Next, IInv
<1>2. /\ UNCHANGED StableMap
      /\ StableMap = [b \in Block |-> home[Home(b)]]
      /\ boot' \notin {"up", "panic"} => MemMap' = StableMap
    BY <1>1, StableApart
<1>3. \A b \in Block : Home(b) \in Sector /\ home'[Home(b)] = home[Home(b)] /\ home[Home(b)] \in Val
    BY <1>1, SectorFacts, HomeKept DEF TypeOK
<1>4. CASE (\E b \in Block : Bread(b)) \/ (\E s \in Sector : Recycle(s))
    <2>1. UNCHANGED <<home, dirty, ppc, blk, boot>> /\ boot = "up"
        BY <1>4 DEF Bread, Recycle, diskVars, procVars, Up
    <2>2. \A b \in Block : \/ cache'[Home(b)] = cache[Home(b)]
                           \/ cache[Home(b)] = NoBuf /\ cache'[Home(b)] = home[Home(b)]
                           \/ /\ Home(b) \notin dirty /\ \A p \in Process : blk[p] # Home(b)
                              /\ cache[Home(b)] # NoBuf /\ cache'[Home(b)] = NoBuf
        BY <1>1, <1>3, <1>4 DEF Bread, Recycle, TypeOK
    <2>3. HomeCached'
        BY <2>1, <2>2 DEF HomeCached
    <2>4. \A b \in Block : Content(Home(b))' = Content(Home(b))
        BY <1>3, <2>1, <2>2, NoBufAssumption DEF HomeCached, Content
    <2>5. UNCHANGED MemMap /\ Active' = Active
        BY <2>1, <2>4 DEF MemMap, Active
    <2> QED
        BY <1>2, <2>3, <2>5 DEF Simulated
<1>5. CASE Crash
    <2>1. boot' = "read_head" /\ \A b \in Block : cache'[Home(b)] = NoBuf
        BY <1>3, <1>5 DEF Crash
    <2>2. HomeCached'
        BY <2>1 DEF HomeCached
    <2>3. Active' = {}
        BY <1>5 DEF Crash, Active
    <2> QED
        BY <1>2, <2>1, <2>2, <2>3 DEF Simulated
<1>6. CASE Recovery
    <2>1. /\ boot \notin {"up", "panic"} /\ boot' # "panic" /\ UNCHANGED <<ppc, blk>>
        BY <1>6 DEF Recovery, ReadHead, RecoverInstall, RecoverClear, procVars
    <2>2. \A b \in Block : cache'[Home(b)] = NoBuf
        <3>1. CASE RecoverInstall
            <4>1. i \in 1..Len(lh)
                BY <3>1 DEF RecoverInstall, IInv, PhaseOK
            <4> QED
                BY <2>1, <3>1, <4>1, RoundApart DEF RecoverInstall, HomeCached
        <3> QED
            BY <1>6, <2>1, <3>1 DEF Recovery, ReadHead, RecoverClear, cacheVars, HomeCached
    <2>3. HomeCached'
        BY <2>2 DEF HomeCached
    <2>4. MemMap = StableMap
        BY <2>1 DEF MemMap, StableMap
    <2>5. boot' = "up" => MemMap' = StableMap
        BY <1>2, <1>3, <2>2 DEF MemMap, Content
    <2>6. UNCHANGED MemMap
        <3>1. boot' \in {"up", "panic"} => boot' = "up"
            BY <2>1
        <3> QED
            BY <1>2, <2>4, <2>5, <3>1
    <2>7. Active' = Active
        BY <2>1 DEF Active
    <2> QED
        BY <1>2, <2>3, <2>6, <2>7 DEF Simulated
<1> QED
    BY <1>4, <1>5, <1>6

\* With the kernel's offset, too, every step is a step of AtomicDisk, or none.
LEMMA ApartStep ==
    ASSUME HomesApart, IInv, HomeCached, [Next]_vars
    PROVE  IInv' /\ HomeCached' /\ Simulated
<1>1. IInv'
    BY IInvStep
<1>2. CASE UNCHANGED vars
    <2>1. UNCHANGED <<dhead, dlog, home, cache, dirty, lh, ppc, blk, boot, i>>
        BY <1>2 DEF vars, diskVars, cacheVars, logVars, procVars
    <2>2. HomeCached'
        BY <2>1 DEF HomeCached
    <2>3. UNCHANGED <<MemMap, StableMap, Active>>
        BY <2>1 DEF MemMap, StableMap, Active, Content, Recovered
    <2> QED
        BY <1>1, <2>2, <2>3 DEF Simulated
<1>3. CASE Next
    BY <1>1, <1>3, ApartProcess, ApartModify, ApartRest DEF Next
<1> QED
    BY <1>1, <1>2, <1>3

\* The initial disk, whatever the offset.
LEMMA ApartInit ==
    ASSUME Init
    PROVE  IInv /\ HomeCached /\ MemMap \in [Block -> Val] /\ StableMap = MemMap /\ Active = {}
<1>1. IInv
    BY IInvInit
<1>2. \A b \in Block : Home(b) \in Sector
    BY SectorFacts
<1>3. HomeCached
    BY <1>2 DEF Init, HomeCached
<1>4. \A b \in Block : Recovered(Home(b)) = home[Home(b)] /\ home[Home(b)] \in Val
    BY <1>1, <1>2 DEF Init, Recovered, IInv, TypeOK
<1>5. boot = "read_head" /\ Active = {}
    BY DEF Init, Active
<1> QED
    BY <1>1, <1>3, <1>4, <1>5 DEF MemMap, StableMap

\* The log is an atomic disk, for every number of processes and blocks, every
\* size of the log and a crash at every step: recovery, crashed or not, gives
\* all of the writes of a group of operations or none.  This holds of the
\* partition of the kernel, where a crash brings back the disk as it was at
\* first (HomeNeverChanges), and with the offset 0, where the writes reach the
\* disk together when write_head() returns (TransactionsReachHome).
THEOREM LogIsCrashAtomic == ASSUME LBA = 0 \/ HomesApart PROVE Spec => CrashAtomic
<1>1. Init => AD!Init
    BY ApartInit DEF AD!Init, MemMap, StableMap, Active
<1>2. ASSUME Simulated PROVE [AD!Next]_<<MemMap, StableMap, Active>>
    BY <1>2 DEF Simulated, AD!Next, AD!Begin, AD!End, AD!Write, AD!Commit, AD!Crash,
                MemMap, StableMap, Active
<1>3. CASE LBA = 0
    <2>1. CrashInv /\ [Next]_vars => [AD!Next]_<<MemMap, StableMap, Active>>
        BY <1>2, <1>3, SimulationStep
    <2>2. Spec => []CrashInv
        BY <1>3, BlocksInvariant
    <2> QED
        BY <1>1, <2>1, <2>2, PTL DEF Spec, CrashAtomic, AD!Spec, MemMap, StableMap, Active
<1>4. CASE HomesApart
    <2> DEFINE J == IInv /\ HomeCached
    <2>1. Init => J
        BY ApartInit
    <2>2. J /\ [Next]_vars => J' /\ [AD!Next]_<<MemMap, StableMap, Active>>
        BY <1>2, <1>4, ApartStep
    <2> HIDE DEF J
    <2> QED
        BY <1>1, <2>1, <2>2, PTL DEF Spec, CrashAtomic, AD!Spec, MemMap, StableMap, Active
<1> QED
    BY <1>3, <1>4

\* With the kernel's offset no transaction and no recovery ever changes a block
\* of the file system on disk: install_trans() writes to other sectors, always.
THEOREM HomeNeverChanges ==
    ASSUME HomesApart
    PROVE  Spec => [][\A b \in Block : home'[Home(b)] = home[Home(b)]]_vars
<1>1. IInv /\ [Next]_vars => [\A b \in Block : home'[Home(b)] = home[Home(b)]]_vars
    BY HomeKept
<1> QED
    BY <1>1, LogInvariant, PTL DEF Spec

\* The second translation is all that is wrong with the offset: without it
\* nothing is left dirty between transactions, and the disk has what the cache
\* has.
THEOREM TransactionsReachHome == ASSUME LBA = 0 PROVE Spec => []CommitWritesHome
<1>1. CrashInv => CommitWritesHome
    <2> SUFFICES ASSUME CrashInv, Up, lh = <<>>, \A p \in Process : ppc[p] # "append"
                 PROVE  dirty = {} /\ \A b \in Block : Content(Home(b)) = home[Home(b)]
        BY DEF CommitWritesHome
    <2>1. dirty = {}
        BY DEF CrashInv, DirtyOK, Up
    <2>2. \A p \in Process : blk[p] = 0
        BY DEF CrashInv, IInv, WroteOK
    <2> QED
        BY <2>1, <2>2, ZeroOffset DEF CrashInv, CachedOK, Content, Up
<1>2. Spec => []CrashInv
    BY BlocksInvariant
<1> QED
    BY <1>1, <1>2, PTL
=============================================================================
