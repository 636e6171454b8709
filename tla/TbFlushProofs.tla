----------------------------- MODULE TbFlushProofs --------------------------
(***************************************************************************)
(* The proofs that count (how often an edge is in a jmp_list, and how far  *)
(* the space check of tb_gen_code, which is made before translate_lock is  *)
(* taken, protects the code buffer), and the proofs that flushing and      *)
(* retrying keeps what the engine guarantees.                              *)
(***************************************************************************)
EXTENDS TbFlush, TbCacheEdges, FiniteSetTheorems

\* A set without two different members has at most one.
LEMMA AtMostOne ==
    ASSUME NEW S, \A x, y \in S : x = y
    PROVE  Cardinality(S) \in {0, 1} /\ (S = {} => Cardinality(S) = 0)
<1>1. CASE S = {}
  BY <1>1, FS_EmptySet
<1>2. CASE S # {}
  <2>1. PICK x : S = {x}
    BY <1>2
  <2>2. QED
    BY <1>2, <2>1, FS_Singleton
<1>3. QED
  BY <1>1, <1>2

\* EdgeInv gives EdgeOnce.
LEMMA EdgeInvOnce == IInv /\ EdgeInv => EdgeOnce
<1> SUFFICES ASSUME IInv, EdgeInv, NEW i \in Idx, NEW j \in Idx, NEW s \in Slots
             PROVE  jmp_list[j][<<i, s>>]
                      + Cardinality({t \in Threads : Pushing(t, i, s, j)}) <= 1
  BY DEF EdgeOnce
<1> DEFINE n == jmp_list[j][<<i, s>>]
           On == {t \in Threads : Pushing(t, i, s, j)}
<1>1. n \in Nat
  BY DEF IInv, TypeOK, ChainTypeOK, Edges
<1>2. n > 0 => n = 1 /\ On = {}
  BY DEF EdgeInv, ListedOnce, Pushes, Pushing
<1>3. \A t, u \in On : t = u
  BY DEF EdgeInv, PushOnce, Pushes, Pushing
<1> HIDE DEF n, On
<1>4. Cardinality(On) \in {0, 1} /\ (On = {} => Cardinality(On) = 0)
  BY <1>3, AtMostOne
<1>5. n + Cardinality(On) <= 1
  BY <1>1, <1>2, <1>4
<1>6. QED
  BY <1>5 DEF n, On

\* However many threads leave the same block through the same slot at the same
\* time, the edge is in the jmp_list of its destination or on its way there once
\* (tb_add_jump looks at jmp_dest again under the source's lock).
THEOREM EdgeOnceHolds == Spec => []EdgeOnce
  BY EdgeInvariance, Invariance, EdgeInvOnce, PTL

-----------------------------------------------------------------------------
(* The space check. *)


\* A step of thread t touches the locations of no other thread.
Alone(t) == \A u \in Threads \ {t} : loc'[u] = loc[u]

\* Every step of thread t either leaves the code buffer alone, and t joins the
\* committed threads only with MinRemaining bytes left, or takes t out of them
\* and at most one TB off the buffer.
CommitStep(t) ==
    \/ /\ buf_offset' = buf_offset
       /\ \/ t \notin Committed'
          \/ t \in Committed
          \/ BufSize - buf_offset >= MinRemaining
    \/ /\ t \in Committed /\ t \notin Committed'
       /\ \E size \in TbSizes :
             \/ buf_offset' = buf_offset + size
             \/ buf_offset + size > BufSize /\ buf_offset' = BufSize

\* A step of thread t that has nothing to do with a panic.
Calm(t) == UNCHANGED <<len, poisoned>> /\ loc'[t] # "panic"

\* translate_lock is poisoned and stays so.
Stuck == poisoned /\ UNCHANGED <<len, poisoned>>

\* What a panic of thread t takes: a poisoned translate_lock, a full store, or a
\* TB that does not fit in the code buffer.
PanicStep(t) ==
    \/ Calm(t)
    \/ Stuck
    \/ len' = len /\ StoreFull
    \/ ~StoreFull /\ ~poisoned /\ ~poisoned' /\ loc'[t] # "panic"
    \/ loc[t] = "translate" /\ \E size \in TbSizes : buf_offset + size > BufSize

\* Thread t goes somewhere else than to the space check's far side, and the code
\* buffer stays as it is.
LEMMA Elsewhere ==
    ASSUME TypeOK, NEW t \in Threads, NEW l, Goes(t, l),
           l \notin {"lock", "translate", "panic"}, UNCHANGED <<buf_offset, len, poisoned>>
    PROVE  Alone(t) /\ CommitStep(t) /\ Calm(t)
<1>1. Alone(t) /\ loc'[t] = l
  BY DEF Goes, TypeOK, LocalTypeOK, Alone
<1>2. t \notin Committed'
  BY <1>1 DEF Committed
<1>3. QED
  BY <1>1, <1>2 DEF CommitStep, Calm

\* Finding a TB takes a thread out of tb_gen_code.
LEMMA FoundElsewhere ==
    ASSUME TypeOK, NEW t \in Threads, NEW i, Found(t, i),
           UNCHANGED <<buf_offset, len, poisoned>>
    PROVE  Alone(t) /\ CommitStep(t) /\ Calm(t)
<1>1. CASE Enter(t, i)
  BY <1>1, Elsewhere DEF Enter
<1>2. CASE Goes(t, IF why[t] = "chain" THEN "add_jump" ELSE "set_target")
  <2>1. Goes(t, "add_jump") \/ Goes(t, "set_target")
    BY <1>2
  <2>2. QED
    BY <2>1, Elsewhere
<1>3. QED
  BY <1>1, <1>2 DEF Found

\* The steps of tb_gen_code.
LEMMA GenCodeCommit ==
    ASSUME TypeOK, NEW t \in Threads,
           \/ tb_gen_code_check(t) \/ tb_gen_code_poisoned(t) \/ tb_gen_code_recheck(t)
           \/ tb_gen_code_alloc(t) \/ tb_gen_code_translate(t) \/ tb_gen_code_insert(t)
    PROVE  Alone(t) /\ CommitStep(t) /\ PanicStep(t)
<1> USE DEF TypeOK, LocalTypeOK, storeVars, lockVars
<1>1. CASE tb_gen_code_check(t)
  <2>1. CASE BufSize - buf_offset < MinRemaining
    BY <1>1, <2>1, Elsewhere DEF tb_gen_code_check, PanicStep
  <2>2. CASE ~(BufSize - buf_offset < MinRemaining)
    <3>1. Alone(t) /\ Calm(t)
      BY <1>1 DEF tb_gen_code_check, Goes, Alone, Calm
    <3>2. BufSize - buf_offset >= MinRemaining
      BY <2>2, ConstantTypes DEF LockTypeOK
    <3>3. QED
      BY <1>1, <3>1, <3>2 DEF tb_gen_code_check, CommitStep, PanicStep
  <2>3. QED
    BY <2>1, <2>2
<1>2. CASE tb_gen_code_poisoned(t)
  <2>1. Alone(t) /\ loc'[t] = "panic"
    BY <1>2 DEF tb_gen_code_poisoned, Goes, Alone
  <2>2. QED
    BY <1>2, <2>1 DEF tb_gen_code_poisoned, CommitStep, Committed, PanicStep, Stuck
<1>3. CASE tb_gen_code_recheck(t)
  BY <1>3, FoundElsewhere DEF tb_gen_code_recheck, PanicStep
<1>4. CASE tb_gen_code_alloc(t)
  <2>1. t \in Committed /\ buf_offset' = buf_offset
    BY <1>4 DEF tb_gen_code_alloc, Committed
  <2>2. Alone(t)
    BY <1>4 DEF tb_gen_code_alloc, alloc, Goes, Alone
  <2>3. PanicStep(t)
    BY <1>4 DEF tb_gen_code_alloc, alloc, Goes, PanicStep
  <2>4. QED
    BY <2>1, <2>2, <2>3 DEF CommitStep
<1>5. CASE tb_gen_code_translate(t)
  <2>1. PICK size \in TbSizes :
          \/ buf_offset' = buf_offset + size /\ Goes(t, "insert")
          \/ buf_offset + size > BufSize /\ buf_offset' = BufSize /\ Goes(t, "panic")
    BY <1>5 DEF tb_gen_code_translate
  <2>2. Alone(t) /\ loc'[t] \in {"insert", "panic"}
    BY <2>1 DEF Goes, Alone
  <2>3. t \in Committed /\ t \notin Committed'
    BY <1>5, <2>2 DEF tb_gen_code_translate, Committed
  <2>4. PanicStep(t)
    <3>1. CASE buf_offset + size > BufSize
      BY <1>5, <3>1 DEF tb_gen_code_translate, PanicStep
    <3>2. CASE ~(buf_offset + size > BufSize)
      BY <1>5, <2>1, <3>2 DEF tb_gen_code_translate, PanicStep, Calm, Goes
    <3>3. QED
      BY <3>1, <3>2
  <2>5. QED
    BY <2>1, <2>2, <2>3, <2>4 DEF CommitStep
<1>6. CASE tb_gen_code_insert(t)
  BY <1>6, FoundElsewhere DEF tb_gen_code_insert, PanicStep
<1>7. QED
  BY <1>1, <1>2, <1>3, <1>4, <1>5, <1>6

\* The other steps of a thread.
LEMMA OtherCommit ==
    ASSUME TypeOK, NEW t \in Threads,
           \/ tb_find_jump_cache(t) \/ tb_find_hash(t)
           \/ exec_goto_tb(t) \/ exec_indirect(t) \/ exec_trap(t) \/ caller_resume(t)
           \/ exit_target_check(t) \/ exit_target_store(t)
           \/ tb_add_jump_check(t) \/ tb_add_jump_lock_src(t)
           \/ tb_add_jump_patch(t) \/ tb_add_jump_push(t)
    PROVE  Alone(t) /\ CommitStep(t) /\ Calm(t)
<1> USE DEF storeVars, lockVars
<1>1. CASE tb_find_jump_cache(t)
  BY <1>1, FoundElsewhere, Elsewhere DEF tb_find_jump_cache
<1>2. CASE tb_find_hash(t)
  BY <1>2, FoundElsewhere, Elsewhere DEF tb_find_hash
<1>3. CASE exec_goto_tb(t)
  <2>1. CASE UNCHANGED loc
    BY <1>3, <2>1 DEF exec_goto_tb, Alone, CommitStep, Committed, Calm
  <2>2. CASE ~UNCHANGED loc
    <3>1. \E l \in {"find", "get_target", "trap"} : Goes(t, l)
      BY <1>3, <2>2, Zenon DEF exec_goto_tb, exit_tb
    <3>2. QED
      BY <1>3, <3>1, Elsewhere DEF exec_goto_tb
  <2>3. QED
    BY <2>1, <2>2
<1>4. CASE exec_indirect(t)
  <2>1. \E l \in {"find", "get_target", "trap"} : Goes(t, l)
    BY <1>4, Zenon DEF exec_indirect, exit_tb
  <2>2. QED
    BY <1>4, <2>1, Elsewhere DEF exec_indirect
<1>5. CASE exec_trap(t)
  <2>1. \E l \in {"find", "get_target", "trap"} : Goes(t, l)
    BY <1>5, Zenon DEF exec_trap, exit_tb
  <2>2. QED
    BY <1>5, <2>1, Elsewhere DEF exec_trap
<1>6. CASE caller_resume(t)
  BY <1>6, Elsewhere DEF caller_resume
<1>7. CASE exit_target_check(t)
  BY <1>7, Elsewhere DEF exit_target_check, Enter
<1>8. CASE exit_target_store(t)
  BY <1>8, Elsewhere DEF exit_target_store, Enter
<1>9. CASE tb_add_jump_check(t)
  BY <1>9, Elsewhere DEF tb_add_jump_check, Enter
<1>10. CASE tb_add_jump_lock_src(t)
  BY <1>10, Elsewhere DEF tb_add_jump_lock_src, Enter
<1>11. CASE tb_add_jump_patch(t)
  BY <1>11, Elsewhere DEF tb_add_jump_patch
<1>12. CASE tb_add_jump_push(t)
  BY <1>12, Elsewhere DEF tb_add_jump_push, Enter
<1>13. QED
  BY <1>1, <1>2, <1>3, <1>4, <1>5, <1>6, <1>7, <1>8, <1>9, <1>10, <1>11, <1>12

\* The arithmetic of the reserve: a factor moves out of a product.
LEMMA Products ==
    ASSUME NEW m \in Nat, NEW k \in Nat, NEW l \in Nat, l <= k
    PROVE  /\ m * l \in Nat /\ m * k \in Nat
           /\ m * l <= m * k
           /\ m * (k + 1) = m * k + m
  OBVIOUS

\* The committed threads are counted.
LEMMA CommittedCount ==
    /\ Cardinality(Threads) \in Nat
    /\ IsFiniteSet(Committed)
    /\ Cardinality(Committed) \in Nat
    /\ Cardinality(Committed) <= Cardinality(Threads)
    /\ Committed # {} => Cardinality(Committed) >= 1
<1>1. Committed \in SUBSET Threads
  BY DEF Committed
<1>2. IsFiniteSet(Committed) /\ Cardinality(Committed) <= Cardinality(Threads)
  BY <1>1, FiniteThreads, FS_Subset
<1>3. Cardinality(Threads) \in Nat /\ Cardinality(Committed) \in Nat
  BY <1>2, FiniteThreads, FS_CardinalityType
<1>4. Committed # {} => Cardinality(Committed) # 0
  BY <1>2, FS_EmptySet
<1>5. QED
  BY <1>2, <1>3, <1>4

\* Every step of a thread keeps the reserve.
LEMMA ReserveStep ==
    ASSUME TypeOK, TypeOK', ReserveHolds, NEW t \in Threads, Alone(t), CommitStep(t)
    PROVE  ReserveHolds'
<1> DEFINE n == Cardinality(Threads)
           c == Cardinality(Committed)
           d == Cardinality(Committed')
<1> SUFFICES ASSUME NEW most \in TbSizes, Committed' # {}, \A size \in TbSizes : size <= most
             PROVE  BufSize - buf_offset' >= MinRemaining - most * (n - d)
  BY DEF ReserveHolds
<1>1. /\ n \in Nat /\ c \in Nat /\ c <= n /\ IsFiniteSet(Committed)
      /\ d \in Nat /\ d <= n
  <2>1. d \in Nat /\ d <= n
    <3>1. Committed' \in SUBSET Threads
      BY DEF Committed
    <3>2. QED
      BY <3>1, FiniteThreads, FS_Subset, FS_CardinalityType
  <2>2. QED
    BY <2>1, CommittedCount
<1>2. most \in Nat /\ BufSize \in Nat /\ MinRemaining \in Nat
  BY ConstantTypes
<1>3. buf_offset \in Nat /\ buf_offset' \in Nat
  BY <1>2, ConstantTypes DEF TypeOK, LockTypeOK
<1>4. Committed # {} => BufSize - buf_offset >= MinRemaining - most * (n - c)
  BY DEF ReserveHolds
<1>5. \A u \in Threads \ {t} : u \in Committed' <=> u \in Committed
  BY DEF Alone, Committed
<1>6. Committed \subseteq Threads /\ Committed' \subseteq Threads
  BY DEF Committed
<1>7. CASE t \notin Committed'
  <2>1. Committed' = Committed \ {t}
    BY <1>5, <1>6, <1>7
  <2>2. d = IF t \in Committed THEN c - 1 ELSE c
    BY <2>1, <1>1, FS_RemoveElement
  <2>3. Committed # {}
    BY <2>1
  <2> HIDE DEF n, c, d
  <2>4. CASE t \in Committed
    <3>1. n - c \in Nat /\ n - d = (n - c) + 1
      BY <2>2, <2>4, <1>1
    <3>2. most * (n - d) = most * (n - c) + most /\ most * (n - c) \in Nat
      BY <3>1, <1>2, Products
    <3>3. CASE buf_offset' = buf_offset
      BY <3>2, <3>3, <1>2, <1>3, <1>4, <2>3
    <3>4. CASE \E size \in TbSizes : buf_offset' = buf_offset + size
      <4>1. PICK size \in TbSizes : buf_offset' = buf_offset + size
        BY <3>4
      <4>2. size \in Nat /\ size <= most
        BY ConstantTypes
      <4>3. QED
        BY <4>1, <4>2, <3>2, <1>2, <1>3, <1>4, <2>3
    <3>5. CASE \E size \in TbSizes : buf_offset + size > BufSize /\ buf_offset' = BufSize
      <4>1. PICK size \in TbSizes : buf_offset + size > BufSize /\ buf_offset' = BufSize
        BY <3>5
      <4>2. size \in Nat /\ size <= most
        BY ConstantTypes
      <4>3. QED
        BY <4>1, <4>2, <3>2, <1>2, <1>3, <1>4, <2>3
    <3>6. QED
      BY <3>3, <3>4, <3>5 DEF CommitStep
  <2>5. CASE t \notin Committed
    <3>1. buf_offset' = buf_offset
      BY <2>5 DEF CommitStep
    <3>2. QED
      BY <3>1, <2>2, <2>3, <2>5, <1>4
  <2>6. QED
    BY <2>4, <2>5
<1>8. CASE t \in Committed' /\ t \in Committed
  <2>1. Committed' = Committed
    BY <1>5, <1>6, <1>8
  <2>2. buf_offset' = buf_offset
    BY <1>8 DEF CommitStep
  <2>3. QED
    BY <2>1, <2>2, <1>4
<1>9. CASE t \in Committed' /\ t \notin Committed
  <2>1. BufSize - buf_offset >= MinRemaining /\ buf_offset' = buf_offset
    BY <1>9 DEF CommitStep
  <2> HIDE DEF n, c, d
  <2>2. n - d \in Nat
    BY <1>1
  <2>3. most * (n - d) \in Nat
    BY <2>2, <1>2, Products
  <2>4. \A p \in Nat : BufSize - buf_offset' >= MinRemaining - p
    BY <2>1, <1>2, <1>3
  <2>5. QED
    BY <2>3, <2>4
<1>10. QED
  BY <1>7, <1>8, <1>9

\* Every step of the engine keeps the reserve.
LEMMA NextReserve == IInv /\ IInv' /\ ReserveHolds /\ [Next]_vars => ReserveHolds'
<1> SUFFICES ASSUME IInv, IInv', ReserveHolds, [Next]_vars PROVE ReserveHolds'
  OBVIOUS
<1>1. TypeOK /\ TypeOK'
  BY DEF IInv
<1>2. CASE UNCHANGED vars
  BY <1>2 DEF ReserveHolds, Committed, vars, cpuVars
<1>3. CASE \E t \in Threads : ThreadStep(t)
  <2>1. PICK t \in Threads : ThreadStep(t)
    BY <1>3, Zenon
  <2>2. Alone(t) /\ CommitStep(t)
    BY <1>1, <2>1, GenCodeCommit, OtherCommit, Zenon DEF ThreadStep
  <2>3. QED
    BY <1>1, <2>2, ReserveStep
<1>4. QED
  BY <1>2, <1>3 DEF Next, Terminated

\* What tb_gen_code checked for is still there, less one TB for every thread
\* that is not between its check and its emit: for any number of threads.
THEOREM ReserveHoldsAlways == Spec => []ReserveHolds
<1>1. Init => ReserveHolds
  BY Zenon DEF Init, ReserveHolds, Committed
<1>2. QED
  BY <1>1, NextReserve, Invariance, PTL DEF Spec

-----------------------------------------------------------------------------
(* A reserve of one TB for every thread is enough. *)

\* MIN_CODE_BUF_REMAINING covers the largest TB once for every thread.
EnoughReserve ==
    \E most \in TbSizes :
        /\ \A size \in TbSizes : size <= most
        /\ most * Cardinality(Threads) <= MinRemaining

\* A poisoned translate_lock or a panic means a full store.
FullInv == FullIsReported /\ (poisoned => len = MaxTbs)

\* With such a reserve a TB always fits.
LEMMA AlwaysFits ==
    ASSUME EnoughReserve, TypeOK, ReserveHolds, NEW t \in Threads, loc[t] = "translate",
           NEW size \in TbSizes
    PROVE  ~(buf_offset + size > BufSize)
<1> DEFINE n == Cardinality(Threads)
           c == Cardinality(Committed)
<1>1. PICK most \in TbSizes : (\A k \in TbSizes : k <= most) /\ most * n <= MinRemaining
  BY DEF EnoughReserve
<1>2. Committed # {}
  BY DEF Committed
<1>3. BufSize - buf_offset >= MinRemaining - most * (n - c)
  BY <1>1, <1>2 DEF ReserveHolds
<1>4. n \in Nat /\ c \in Nat /\ c <= n /\ c >= 1
  BY <1>2, CommittedCount
<1>5. most \in Nat /\ BufSize \in Nat /\ MinRemaining \in Nat /\ size \in Nat /\ buf_offset \in Nat
  BY ConstantTypes DEF TypeOK, LockTypeOK
<1> HIDE DEF n, c
<1>6. n - c \in Nat /\ n - 1 \in Nat /\ n - c <= n - 1 /\ n = (n - 1) + 1
  BY <1>4
<1>7. most * (n - c) <= most * (n - 1) /\ most * (n - c) \in Nat /\ most * (n - 1) \in Nat
  BY <1>5, <1>6, Products
<1>8. most * n = most * (n - 1) + most
  BY <1>5, <1>6, Products
<1>9. MinRemaining - most * (n - c) >= most
  <2> DEFINE p == most * (n - c)
             q == most * (n - 1)
  <2>1. p \in Nat /\ q \in Nat /\ p <= q /\ q + most <= MinRemaining
    BY <1>1, <1>7, <1>8
  <2> HIDE DEF p, q
  <2>2. MinRemaining - p >= most
    BY <2>1, <1>5
  <2>3. QED
    BY <2>2 DEF p
<1>10. size <= most
  BY <1>1
<1>11. BufSize - buf_offset >= most
  <2> DEFINE p == most * (n - c)
  <2>1. p \in Nat /\ BufSize - buf_offset >= MinRemaining - p /\ MinRemaining - p >= most
    BY <1>3, <1>7, <1>9
  <2> HIDE DEF p
  <2>2. QED
    BY <2>1, <1>5
<1>12. QED
  BY <1>5, <1>10, <1>11

\* With such a reserve, no step panics unless the store is full.
LEMMA NextFull ==
    ASSUME EnoughReserve
    PROVE  IInv /\ IInv' /\ ReserveHolds /\ FullInv /\ [Next]_vars => FullInv'
<1> SUFFICES ASSUME IInv, IInv', ReserveHolds, FullInv, [Next]_vars PROVE FullInv'
  OBVIOUS
<1>1. TypeOK /\ TypeOK' /\ len \in 0..MaxTbs /\ MaxTbs \in Nat
  BY ConstantTypes DEF IInv, TypeOK, StoreTypeOK
<1>2. CASE UNCHANGED vars
  BY <1>2 DEF FullInv, FullIsReported, vars, cpuVars, storeVars, lockVars
<1>3. CASE \E t \in Threads : ThreadStep(t)
  <2>1. PICK t \in Threads : ThreadStep(t)
    BY <1>3, Zenon
  <2>2. Alone(t) /\ PanicStep(t)
    BY <1>1, <2>1, GenCodeCommit, OtherCommit, Zenon DEF ThreadStep, PanicStep
  <2>3. \A u \in Threads : loc'[u] = "panic" => u = t \/ len = MaxTbs
    BY <2>2 DEF Alone, FullInv, FullIsReported
  <2>4. CASE Calm(t)
    BY <2>3, <2>4 DEF Calm, FullInv, FullIsReported
  <2>5. CASE Stuck
    BY <2>3, <2>5 DEF Stuck, FullInv, FullIsReported
  <2>6. CASE len' = len /\ StoreFull
    BY <2>6, <1>1 DEF StoreFull, FullInv, FullIsReported
  <2>7. CASE ~StoreFull /\ ~poisoned /\ ~poisoned' /\ loc'[t] # "panic"
    BY <2>3, <2>7, <1>1 DEF StoreFull, FullInv, FullIsReported
  <2>8. CASE loc[t] = "translate" /\ \E size \in TbSizes : buf_offset + size > BufSize
    BY <1>1, <2>8, AlwaysFits
  <2>9. QED
    BY <2>2, <2>4, <2>5, <2>6, <2>7, <2>8, Zenon DEF PanicStep
<1>4. QED
  BY <1>2, <1>3 DEF Next, Terminated

\* If MIN_CODE_BUF_REMAINING covers one TB of every thread, an exhausted code
\* buffer never makes a thread panic: the loop returns BufferFull, although the
\* space is checked outside translate_lock.
THEOREM FullIsReportedWithReserve ==
    ASSUME EnoughReserve
    PROVE  Spec => []FullIsReported
<1>1. Init => FullInv
  BY Zenon DEF Init, FullInv, FullIsReported
<1>2. FullInv => FullIsReported
  BY DEF FullInv
<1>3. QED
  BY <1>1, <1>2, NextFull, Invariance, ReserveHoldsAlways, PTL DEF Spec
-----------------------------------------------------------------------------
(* caller_flush keeps the inductive invariant. *)

\* What a flush finds: every vCPU outside its loop, translate_lock free.
LEMMA FlushFinds ==
    ASSUME IInv, caller_flush
    PROVE  \A t \in Threads : /\ loc[t] \in {"trap", "full", "panic", "done"}
                              /\ ~Building(t) /\ translate_lock # t
  BY DEF caller_flush, Outside, Stopped, IInv, BuildInv, Building

\* What a flush leaves: an empty store, empty caches, and every vCPU in the
\* caller, stopped or about to look its block up.
LEMMA FlushLeaves ==
    ASSUME IInv, caller_flush
    PROVE  /\ UNCHANGED <<translate_lock, poisoned, gpc, at>>
           /\ \A t \in Threads :
                 /\ loc'[t] \in {"trap", "find", "panic", "done"}
                 /\ loc'[t] = IF loc[t] = "full" THEN "find" ELSE loc[t]
                 /\ why'[t] = "top" /\ tb_idx'[t] = None /\ src_tb'[t] = None /\ slot'[t] = 0
<1>1. UNCHANGED <<translate_lock, poisoned, gpc, at>>
  BY DEF caller_flush, lockVars
<1>2. \A t \in Threads :
         /\ loc'[t] = IF loc[t] = "full" THEN "find" ELSE loc[t]
         /\ why'[t] = "top" /\ tb_idx'[t] = None /\ src_tb'[t] = None /\ slot'[t] = 0
  BY DEF caller_flush, retry
<1>3. QED
  BY <1>1, <1>2, FlushFinds

\* A flush keeps the types.
LEMMA FlushTypes ==
    ASSUME IInv, caller_flush
    PROVE  TypeOK'
<1> USE ConstantTypes
<1>1. StoreTypeOK'
  BY DEF caller_flush, flush, StoreTypeOK, Unset
<1>2. ChainTypeOK'
  <2>1. NoEdges \in [Edges -> Nat]
    BY DEF NoEdges
  <2>2. jmp_list' \in [Idx -> [Edges -> Nat]]
    BY <2>1 DEF caller_flush, flush
  <2>3. QED
    BY <2>2 DEF caller_flush, flush, ChainTypeOK
<1>3. LockTypeOK'
  <2>1. buf_offset' \in CodeGenStart..BufSize
    BY DEF caller_flush, rewind
  <2>2. QED
    BY <2>1, FlushLeaves, Zenon DEF IInv, TypeOK, LockTypeOK
<1>4. CpuTypeOK'
  BY FlushLeaves DEF caller_flush, drop_caches, IInv, TypeOK, CpuTypeOK
<1>5. LocalTypeOK'
  <2>1. loc' \in [Threads -> Locations]
    BY DEF caller_flush, retry, IInv, TypeOK, LocalTypeOK, Locations
  <2>2. /\ why' \in [Threads -> {"top", "chain", "nochain"}]
        /\ tb_idx' \in [Threads -> Idx \cup {None}] /\ src_tb' \in [Threads -> Idx \cup {None}]
        /\ slot' \in [Threads -> Slots]
    <3>1. retry /\ 0 \in Slots
      BY DEF caller_flush, Slots
    <3>2. QED
      BY <3>1 DEF retry
  <2>3. QED
    BY <2>1, <2>2, FlushLeaves DEF LocalTypeOK, IInv, TypeOK
<1>6. QED
  BY <1>1, <1>2, <1>3, <1>4, <1>5 DEF TypeOK

\* A flush keeps the whole inductive invariant: it leaves what Init leaves, but
\* for the positions of the vCPUs and a poisoned lock.
LEMMA FlushIInv ==
    ASSUME IInv, caller_flush
    PROVE  IInv'
<1>1. TypeOK'
  BY FlushTypes
<1>2. StoreInv'
  BY ConstantTypes DEF caller_flush, flush, StoreInv, Idx, Emitted
<1>3. CodeInv' /\ CacheInv'
  BY DEF caller_flush, flush, drop_caches, CodeInv, CacheInv, Emitted
<1>4. JumpInv'
  BY DEF caller_flush, flush, JumpInv
<1>5. UniqueTranslation'
  BY DEF caller_flush, flush, UniqueTranslation
<1>6. \A t \in Threads : BuildInv(t)'
  BY FlushFinds, FlushLeaves DEF BuildInv, Building
<1>7. \A t \in Threads : LocalInv(t)'
  BY FlushLeaves DEF LocalInv, HasDst
<1>8. QED
  BY <1>1, <1>2, <1>3, <1>4, <1>5, <1>6, <1>7 DEF IInv

\* The steps of TbFlush are those of the engine, and the flush.
LEMMA FlushStepCases ==
    ASSUME [FlushNext]_flushVars
    PROVE  caller_flush \/ [Next]_vars
<1>1. CASE UNCHANGED flushVars
  BY <1>1 DEF flushVars
<1>2. CASE \E t \in Threads : FlushThreadStep(t)
  BY <1>2 DEF FlushThreadStep, Next
<1>3. CASE FlushTerminated
  BY <1>3 DEF FlushTerminated, flushVars
<1>4. QED
  BY <1>1, <1>2, <1>3 DEF FlushNext

\* The engine's invariant survives flushes.
LEMMA FlushInvariance == FlushSteps => []IInv
<1>1. FlushInit => IInv
  BY InitIInv DEF FlushInit
<1>2. IInv /\ [FlushNext]_flushVars => IInv'
  BY FlushStepCases, FlushIInv, NextIInv
<1>3. QED
  BY <1>1, <1>2, PTL DEF FlushSteps

\* With any number of flushes every variable keeps its type.
THEOREM FlushTypeCorrect == FlushSteps => []TypeOK
<1>1. IInv => TypeOK
  BY DEF IInv
<1>2. QED
  BY FlushInvariance, <1>1, PTL

\* Nor do jumps, jmp_dest and the jmp_lists disagree after a flush: no edge is left.
LEMMA FlushEdges == FlushSteps => []EdgeInv
<1>1. FlushInit => EdgeInv
  BY InitEdgeInv DEF FlushInit
<1>2. IInv /\ caller_flush => EdgeInv'
  <2> SUFFICES ASSUME IInv, caller_flush PROVE EdgeInv'
    OBVIOUS
  <2>1. /\ \A i \in Idx : ~invalid'[i]
        /\ \A i \in Idx, s \in Slots : jmp_dest'[i][s] = None /\ host_jmp'[i][s] = Reset
    BY DEF caller_flush, flush
  <2>2. \A t \in Threads : loc'[t] \in {"trap", "find", "panic", "done"} /\ why'[t] = "top"
    BY FlushLeaves
  <2>3. \A i, j \in Idx, s \in Slots : ~(jmp_list'[j][<<i, s>>] > 0)
    <3>1. jmp_list' = [j \in Idx |-> [e \in Edges |-> 0]]
      BY DEF caller_flush, flush, NoEdges
    <3>2. QED
      BY <3>1 DEF Edges
  <2>4. RecordInv'
    BY <2>1 DEF RecordInv, Recorded
  <2>5. \A t \in Threads : ValidInv(t)' /\ PushDest(t)' /\ SlotFree(t)'
    BY <2>2 DEF ValidInv, PushDest, SlotFree, HasDst
  <2>6. \A i, j \in Idx, s \in Slots : ListDest(i, s, j)' /\ ListedOnce(i, s, j)'
    BY <2>3 DEF ListDest, ListedOnce
  <2>7. \A i \in Idx, s \in Slots : PushOnce(i, s)'
    BY <2>2 DEF PushOnce, Pushes
  <2>8. QED
    BY <2>1, <2>4, <2>5, <2>6, <2>7 DEF EdgeInv, ChainInv, NoneInvalid
<1>3. IInv /\ EdgeInv /\ [FlushNext]_flushVars => EdgeInv'
  BY <1>2, FlushStepCases, NextEdgeInv
<1>4. QED
  BY <1>1, <1>3, FlushInvariance, PTL DEF FlushSteps

\* With flushes, too, every patched jump is recorded in jmp_dest and registered with
\* its destination: no jump into flushed code survives set_offset.
THEOREM FlushChainRegistered == FlushSteps => []ChainRegistered
  BY FlushEdges, FlushInvariance, ChainInvRegistered, PTL

\* The reserve that the space check of tb_gen_code leaves survives flushes: no
\* thread is between its check and its emit when the cursor is rewound.
THEOREM FlushReserve == FlushSteps => []ReserveHolds
<1>1. FlushInit => ReserveHolds
  BY Zenon DEF FlushInit, Init, ReserveHolds, Committed
<1>2. IInv /\ caller_flush => ReserveHolds'
  <2> SUFFICES ASSUME IInv, caller_flush PROVE ReserveHolds'
    OBVIOUS
  <2>1. Committed' = {}
    BY FlushLeaves DEF Committed
  <2>2. QED
    BY <2>1 DEF ReserveHolds
<1>3. IInv /\ IInv' /\ ReserveHolds /\ [FlushNext]_flushVars => ReserveHolds'
  BY <1>2, FlushStepCases, NextReserve
<1>4. QED
  BY <1>1, <1>3, FlushInvariance, PTL DEF FlushSteps

-----------------------------------------------------------------------------
(* The index bounds. *)

\* The locals of every thread are indices of allocated TBs, or none.
LocalsBelow == \A t \in Threads : tb_idx[t] < len /\ src_tb[t] < len

\* A finished TB is allocated.
LEMMA EmittedBelow ==
    ASSUME IInv, NEW i \in Idx, Emitted(i)
    PROVE  i < len
  BY ConstantTypes DEF IInv, StoreInv, Idx, TypeOK, StoreTypeOK

\* IInv bounds the entries of the caches.
LEMMA CachesBelow ==
    ASSUME IInv
    PROVE  /\ \A t \in Threads, e \in JcEntries : jump_cache[t][e] < len
           /\ \A i \in Idx : exit_target[i] < len
           /\ None < len
<1>1. len \in Nat /\ None < len
  BY ConstantTypes DEF IInv, TypeOK, StoreTypeOK, None
<1>2. \A t \in Threads, e \in JcEntries : jump_cache[t][e] < len
  <2> SUFFICES ASSUME NEW t \in Threads, NEW e \in JcEntries PROVE jump_cache[t][e] < len
    OBVIOUS
  <2>1. jump_cache[t][e] \in Idx \cup {None}
    BY DEF IInv, TypeOK, CpuTypeOK
  <2>2. jump_cache[t][e] # None => Emitted(jump_cache[t][e])
    BY DEF IInv, CacheInv
  <2>3. QED
    BY <1>1, <2>1, <2>2, EmittedBelow
<1>3. \A i \in Idx : exit_target[i] < len
  <2> SUFFICES ASSUME NEW i \in Idx PROVE exit_target[i] < len
    OBVIOUS
  <2>1. exit_target[i] \in Idx \cup {None}
    BY DEF IInv, TypeOK, ChainTypeOK
  <2>2. exit_target[i] # None => Emitted(exit_target[i])
    BY DEF IInv, CacheInv
  <2>3. QED
    BY <1>1, <2>1, <2>2, EmittedBelow
<1>4. QED
  BY <1>1, <1>2, <1>3

\* The thread gets an index below len, or keeps what it has.
GetsBelow(t) ==
    /\ \E i : i < len /\ tb_idx'[t] \in {tb_idx[t], i}
    /\ \E i : i < len /\ src_tb'[t] \in {src_tb[t], i}

\* Entering or finding a TB below len gives the thread its index.
LEMMA FoundBelow ==
    ASSUME IInv, NEW t \in Threads, NEW i, i < len, Enter(t, i) \/ Found(t, i)
    PROVE  GetsBelow(t)
<1>1. None < len
  BY CachesBelow
<1>2. \/ tb_idx' = [tb_idx EXCEPT ![t] = i] /\ src_tb' = [src_tb EXCEPT ![t] = None]
      \/ tb_idx' = [tb_idx EXCEPT ![t] = i] /\ src_tb' = src_tb
  BY DEF Enter, Found
<1>3. tb_idx'[t] = i /\ src_tb'[t] \in {src_tb[t], None}
  BY <1>2 DEF IInv, TypeOK, LocalTypeOK
<1>4. QED
  BY <1>1, <1>3 DEF GetsBelow

\* The locals that keep their value.
LEMMA KeepsBelow ==
    ASSUME IInv, NEW t \in Threads, UNCHANGED <<tb_idx, src_tb>>
    PROVE  GetsBelow(t)
<1>1. None < len
  BY CachesBelow
<1>2. QED
  BY <1>1 DEF GetsBelow

\* Leaving host code gives the thread the index of a finished TB, or none.
LEMMA ExitBelow ==
    ASSUME IInv, NEW t \in Threads, loc[t] = "exec", NEW i \in CodeAt(at[t]), NEW val \in 0..3,
           exit_tb(t, i, val), UNCHANGED tb_idx
    PROVE  GetsBelow(t)
<1>1. i \in Idx /\ i < len /\ i # None
  BY ExecFacts, EmittedBelow, NotNone
<1>2. UNCHANGED src_tb \/ src_tb' = [src_tb EXCEPT ![t] = i]
  BY <1>1, ExitCases, Zenon
<1>3. src_tb'[t] \in {src_tb[t], i}
  BY <1>2 DEF IInv, TypeOK, LocalTypeOK
<1>4. QED
  BY <1>1, <1>3 DEF GetsBelow

\* Every step of thread t but alloc's gives it indices below len.
LEMMA StepsBelow ==
    ASSUME IInv, LocalsBelow, NEW t \in Threads, ThreadStep(t), ~tb_gen_code_alloc(t)
    PROVE  GetsBelow(t) /\ len' = len
<1>1. len' = len
  BY Zenon DEF ThreadStep, storeVars, tb_find_jump_cache, tb_find_hash, tb_gen_code_check,
     tb_gen_code_poisoned, tb_gen_code_recheck, tb_gen_code_translate, tb_gen_code_insert,
     exec_goto_tb, exec_indirect, exec_trap, caller_resume, exit_target_check,
     exit_target_store, tb_add_jump_check, tb_add_jump_lock_src, tb_add_jump_patch,
     tb_add_jump_push
<1>2. tb_idx[t] < len /\ gpc[t] \in Keys
  BY DEF LocalsBelow, IInv, TypeOK, CpuTypeOK
<1>3. \A i \in lookup(gpc[t]) : i < len
  BY <1>2, HitFacts, EmittedBelow
<1>4. CASE tb_find_jump_cache(t)
  <2>1. JcIndex[gpc[t]] \in JcEntries
    BY <1>2, ConstantTypes
  <2>2. jump_cache[t][JcIndex[gpc[t]]] < len
    BY <2>1, CachesBelow
  <2>3. Found(t, jump_cache[t][JcIndex[gpc[t]]]) \/ UNCHANGED <<tb_idx, src_tb>>
    BY <1>4, Zenon DEF tb_find_jump_cache
  <2>4. QED
    BY <1>1, <2>2, <2>3, FoundBelow, KeepsBelow, Zenon
<1>5. CASE tb_find_hash(t) \/ tb_gen_code_recheck(t)
  <2>1. (\E i \in lookup(gpc[t]) : Found(t, i)) \/ UNCHANGED <<tb_idx, src_tb>>
    BY <1>5, Zenon DEF tb_find_hash, tb_gen_code_recheck
  <2>2. QED
    BY <1>1, <1>3, <2>1, FoundBelow, KeepsBelow, Zenon
<1>6. CASE tb_gen_code_check(t) \/ tb_gen_code_poisoned(t) \/ tb_gen_code_translate(t)
           \/ caller_resume(t) \/ tb_add_jump_patch(t)
  <2>1. UNCHANGED <<tb_idx, src_tb>>
    BY <1>6 DEF tb_gen_code_check, tb_gen_code_poisoned, tb_gen_code_translate, caller_resume,
                tb_add_jump_patch
  <2>2. QED
    BY <1>1, <2>1, KeepsBelow
<1>7. CASE tb_gen_code_insert(t)
  BY <1>1, <1>2, <1>7, FoundBelow DEF tb_gen_code_insert
<1>8. CASE exec_goto_tb(t)
  <2>1. CASE UNCHANGED src_tb
    <3>1. UNCHANGED tb_idx
      BY <1>8, Zenon DEF exec_goto_tb
    <3>2. QED
      BY <1>1, <2>1, <3>1, KeepsBelow, Zenon
  <2>2. CASE ~UNCHANGED src_tb
    <3>1. PICK i \in CodeAt(at[t]), s \in Slots : exit_tb(t, i, s)
      BY <1>8, <2>2, Zenon DEF exec_goto_tb
    <3>2. loc[t] = "exec" /\ UNCHANGED tb_idx /\ s \in 0..3
      BY <1>8, ExitKinds, Zenon DEF exec_goto_tb
    <3>3. QED
      BY <1>1, <3>1, <3>2, ExitBelow, Zenon
  <2>3. QED
    BY <2>1, <2>2
<1>9. CASE exec_indirect(t)
  <2>1. PICK i \in CodeAt(at[t]) : exit_tb(t, i, TB_EXIT_NOCHAIN)
    BY <1>9, Zenon DEF exec_indirect
  <2>2. loc[t] = "exec" /\ UNCHANGED tb_idx /\ TB_EXIT_NOCHAIN \in 0..3
    BY <1>9, ExitKinds, Zenon DEF exec_indirect
  <2>3. QED
    BY <1>1, <2>1, <2>2, ExitBelow, Zenon
<1>10. CASE exec_trap(t)
  <2>1. PICK i \in CodeAt(at[t]) : exit_tb(t, i, EXCP_ECALL)
    BY <1>10, Zenon DEF exec_trap
  <2>2. loc[t] = "exec" /\ UNCHANGED tb_idx /\ EXCP_ECALL \in 0..3
    BY <1>10, ExitKinds, Zenon DEF exec_trap
  <2>3. QED
    BY <1>1, <2>1, <2>2, ExitBelow, Zenon
<1>11. CASE exit_target_check(t)
  <2>1. src_tb[t] \in Idx
    BY <1>11 DEF exit_target_check, IInv, LocalInv
  <2>2. exit_target[src_tb[t]] < len
    BY <2>1, CachesBelow
  <2>3. QED
    <3>1. Enter(t, exit_target[src_tb[t]]) \/ UNCHANGED <<tb_idx, src_tb>>
      BY <1>11, Zenon DEF exit_target_check
    <3>2. QED
      BY <1>1, <2>2, <3>1, FoundBelow, KeepsBelow, Zenon
<1>12. CASE exit_target_store(t) \/ tb_add_jump_check(t) \/ tb_add_jump_lock_src(t)
            \/ tb_add_jump_push(t)
  <2>1. Enter(t, tb_idx[t]) \/ UNCHANGED <<tb_idx, src_tb>>
    BY <1>12, Zenon DEF exit_target_store, tb_add_jump_check, tb_add_jump_lock_src, tb_add_jump_push
  <2>2. QED
    BY <1>1, <1>2, <2>1, FoundBelow, KeepsBelow, Zenon
<1>13. QED
  BY <1>4, <1>5, <1>6, <1>7, <1>8, <1>9, <1>10, <1>11, <1>12, Zenon DEF ThreadStep

\* Every step of a thread keeps the locals below len.
LEMMA ThreadBelow ==
    ASSUME IInv, EdgeInv, LocalsBelow, NEW t \in Threads, ThreadStep(t)
    PROVE  LocalsBelow'
<1>1. CASE tb_gen_code_alloc(t)
  <2>1. len \in Nat
    BY DEF IInv, TypeOK, StoreTypeOK
  <2>2. \/ len' = len + 1 /\ tb_idx' = [tb_idx EXCEPT ![t] = len] /\ src_tb' = src_tb
        \/ UNCHANGED <<len, tb_idx, src_tb>>
    BY <1>1 DEF tb_gen_code_alloc, alloc
  <2>3. tb_idx \in [Threads -> Idx \cup {None}] /\ src_tb \in [Threads -> Idx \cup {None}]
    BY DEF IInv, TypeOK, LocalTypeOK
  <2>4. Idx \cup {None} \subseteq Int
    BY ConstantTypes DEF Idx, None
  <2>5. \A u \in Threads : tb_idx[u] \in Int /\ src_tb[u] \in Int
    BY <2>3, <2>4
  <2>6. CASE UNCHANGED <<len, tb_idx, src_tb>>
    BY <2>6 DEF LocalsBelow
  <2>7. CASE len' = len + 1 /\ tb_idx' = [tb_idx EXCEPT ![t] = len] /\ src_tb' = src_tb
    <3>1. \A u \in Threads : tb_idx'[u] = IF u = t THEN len ELSE tb_idx[u]
      BY <2>3, <2>7
    <3>2. QED
      BY <2>1, <2>5, <2>7, <3>1 DEF LocalsBelow
  <2>8. QED
    BY <2>2, <2>6, <2>7
<1>2. CASE ~tb_gen_code_alloc(t)
  <2>1. GetsBelow(t) /\ len' = len
    BY <1>2, StepsBelow
  <2>2. \A u \in Threads \ {t} : tb_idx'[u] = tb_idx[u] /\ src_tb'[u] = src_tb[u]
    BY ThreadValid DEF EdgeInv, ChainInv, Same
  <2>3. tb_idx'[t] < len /\ src_tb'[t] < len
    BY <2>1 DEF GetsBelow, LocalsBelow
  <2>4. QED
    BY <2>1, <2>2, <2>3 DEF LocalsBelow
<1>3. QED
  BY <1>1, <1>2

\* Every step, a flush included, keeps the locals below len.
LEMMA NextBelow ==
    IInv /\ EdgeInv /\ LocalsBelow /\ [FlushNext]_flushVars => LocalsBelow'
<1> SUFFICES ASSUME IInv, EdgeInv, LocalsBelow, [FlushNext]_flushVars PROVE LocalsBelow'
  OBVIOUS
<1>1. CASE caller_flush
  <2>1. len' = 0
    BY <1>1 DEF caller_flush, flush
  <2>2. QED
    BY <1>1, <2>1, FlushLeaves DEF LocalsBelow, None
<1>2. CASE UNCHANGED vars
  BY <1>2 DEF vars, storeVars, cpuVars, LocalsBelow
<1>3. CASE \E t \in Threads : ThreadStep(t)
  BY <1>3, ThreadBelow, Zenon
<1>4. caller_flush \/ [Next]_vars
  BY FlushStepCases
<1>5. QED
  BY <1>1, <1>2, <1>3, <1>4 DEF Next, Terminated

\* No TB index outlives a flush: the assertion of TbStore::get holds for every
\* index in a jump cache, in exit_target or in a local, whatever the vCPUs and
\* the caller do and however often indices are used again.
THEOREM GetInBoundsHolds == FlushSteps => []GetInBounds
<1>1. FlushInit => LocalsBelow
  <2> SUFFICES ASSUME FlushInit PROVE LocalsBelow
    OBVIOUS
  <2>1. len = 0 /\ \A t \in Threads : tb_idx[t] = None /\ src_tb[t] = None
    BY DEF FlushInit, Init
  <2>2. None < 0
    BY DEF None
  <2>3. \A t \in Threads : tb_idx[t] < len /\ src_tb[t] < len
    BY <2>1, <2>2
  <2>4. QED
    BY <2>3 DEF LocalsBelow
<1>2. IInv /\ LocalsBelow => GetInBounds
  BY CachesBelow DEF GetInBounds, LocalsBelow
<1>3. QED
  BY <1>1, <1>2, NextBelow, FlushInvariance, FlushEdges, PTL DEF FlushSteps

-----------------------------------------------------------------------------
(* Flushing is transparent. *)

\* A step of thread t in which neither mapping sees BufferFull.
LEMMA SameStatus ==
    ASSUME IInv, NEW t \in Threads, loc[t] # "full", loc'[t] # "full", Alone(t)
    PROVE  /\ FlushStatus[t] = GuestStatus[t] /\ FlushStatus'[t] = GuestStatus'[t]
           /\ \A u \in Threads \ {t} : FlushStatus'[u] = FlushStatus[u]
  BY DEF FlushStatus, GuestStatus, Stopped, Alone

\* What GuestExec makes of a step of thread t, it makes of it with flushes.
LEMMA ThreadFlushRefines ==
    ASSUME IInv, NEW t \in Threads, ThreadStep(t)
    PROVE  [FlushGuest!GuestNext]_(FlushGuest!guestVars)
<1>1. loc[t] # "full"
  BY Zenon DEF ThreadStep, tb_find_jump_cache, tb_find_hash, tb_gen_code_check,
     tb_gen_code_poisoned, tb_gen_code_recheck, tb_gen_code_alloc, tb_gen_code_translate,
     tb_gen_code_insert, exec_goto_tb, exec_indirect, exec_trap, caller_resume,
     exit_target_check, exit_target_store, tb_add_jump_check, tb_add_jump_lock_src,
     tb_add_jump_patch, tb_add_jump_push
<1>2. TypeOK /\ Alone(t)
  BY GenCodeCommit, OtherCommit, Zenon DEF IInv, ThreadStep
<1>3. CASE loc'[t] = "full"
  <2>1. UNCHANGED gpc
    <3>1. exec_goto_tb(t) \/ exec_indirect(t) \/ exec_trap(t) \/ caller_resume(t) =>
            \E l \in {"exec", "find", "get_target", "trap", "done"} : loc'[t] = l
      <4>1. exec_goto_tb(t) \/ exec_indirect(t) \/ exec_trap(t) \/ caller_resume(t) =>
              \/ loc'[t] = loc[t] /\ loc[t] = "exec"
              \/ \E l \in {"find", "get_target", "trap", "done"} : Goes(t, l)
        BY Zenon DEF exec_goto_tb, exec_indirect, exec_trap, caller_resume, exit_tb
      <4>2. QED
        BY <4>1, <1>2 DEF Goes, TypeOK, LocalTypeOK
    <3>2. ~(exec_goto_tb(t) \/ exec_indirect(t) \/ exec_trap(t) \/ caller_resume(t))
      BY <1>3, <3>1
    <3>3. QED
      BY <3>2, Zenon DEF ThreadStep, tb_find_jump_cache, tb_find_hash, tb_gen_code_check,
         tb_gen_code_poisoned, tb_gen_code_recheck, tb_gen_code_alloc, tb_gen_code_translate,
         tb_gen_code_insert, exit_target_check, exit_target_store, tb_add_jump_check,
         tb_add_jump_lock_src, tb_add_jump_patch, tb_add_jump_push
  <2>2. loc[t] # "trap" /\ loc[t] \notin Stopped
    <3>1. caller_resume(t) => \E l \in {"find", "done"} : Goes(t, l)
      BY DEF caller_resume
    <3>2. ~caller_resume(t)
      BY <1>2, <1>3, <3>1 DEF Goes, TypeOK, LocalTypeOK
    <3>3. QED
      BY <3>2, Zenon DEF Stopped, ThreadStep, tb_find_jump_cache, tb_find_hash,
         tb_gen_code_check, tb_gen_code_poisoned, tb_gen_code_recheck, tb_gen_code_alloc,
         tb_gen_code_translate, tb_gen_code_insert, exec_goto_tb, exec_indirect, exec_trap,
         exit_target_check, exit_target_store, tb_add_jump_check, tb_add_jump_lock_src,
         tb_add_jump_patch, tb_add_jump_push
  <2>3. FlushStatus[t] = "run" /\ FlushStatus'[t] = "run"
    BY <1>3, <2>2 DEF FlushStatus, Stopped
  <2>4. \A u \in Threads \ {t} : FlushStatus'[u] = FlushStatus[u]
    BY <1>2 DEF FlushStatus, Alone
  <2>5. FlushStatus' = FlushStatus
    <3>1. \A u \in Threads : FlushStatus'[u] = FlushStatus[u]
      BY <2>3, <2>4
    <3>2. /\ FlushStatus = [u \in Threads |-> FlushStatus[u]]
          /\ FlushStatus' = [u \in Threads |-> FlushStatus'[u]]
      BY DEF FlushStatus
    <3>3. QED
      BY <3>1, <3>2
  <2>6. QED
    BY <2>1, <2>5 DEF FlushGuest!guestVars
<1>4. CASE loc'[t] # "full"
  <2>1. /\ FlushStatus[t] = GuestStatus[t] /\ FlushStatus'[t] = GuestStatus'[t]
        /\ \A u \in Threads \ {t} : FlushStatus'[u] = FlushStatus[u]
    BY <1>1, <1>2, <1>4, SameStatus
  <2>2. /\ FlushStatus = [u \in Threads |-> FlushStatus[u]]
        /\ FlushStatus' = [u \in Threads |-> FlushStatus'[u]]
        /\ GuestStatus = [u \in Threads |-> GuestStatus[u]]
    BY DEF FlushStatus, GuestStatus
  <2>3. \/ Guest!Branch(t) \/ Guest!Trap(t) \/ Guest!Resume(t) \/ Guest!Stop(t)
        \/ UNCHANGED Guest!guestVars
    BY SearchRefines, GenCodeRefines, BranchRefines, TrapRefines, ResumeRefines DEF ThreadStep
  <2>4. CASE Guest!Branch(t)
    <3>1. FlushGuest!Branch(t)
      BY <2>1, <2>2, <2>4 DEF Guest!Branch, FlushGuest!Branch, Guest!Slots, FlushGuest!Slots
    <3>2. QED
      BY <3>1 DEF FlushGuest!GuestNext
  <2>5. CASE Guest!Trap(t)
    <3>1. FlushGuest!Trap(t)
      BY <2>1, <2>2, <2>5 DEF Guest!Trap, FlushGuest!Trap
    <3>2. QED
      BY <3>1 DEF FlushGuest!GuestNext
  <2>6. CASE Guest!Resume(t)
    <3>1. FlushGuest!Resume(t)
      BY <2>1, <2>2, <2>6 DEF Guest!Resume, FlushGuest!Resume
    <3>2. QED
      BY <3>1 DEF FlushGuest!GuestNext
  <2>7. CASE Guest!Stop(t)
    <3>1. FlushGuest!Stop(t)
      BY <2>1, <2>2, <2>7 DEF Guest!Stop, FlushGuest!Stop
    <3>2. QED
      BY <3>1 DEF FlushGuest!GuestNext
  <2>8. CASE UNCHANGED Guest!guestVars
    BY <2>1, <2>2, <2>8 DEF Guest!guestVars, FlushGuest!guestVars
  <2>9. QED
    BY <2>3, <2>4, <2>5, <2>6, <2>7, <2>8
<1>5. QED
  BY <1>3, <1>4

\* A flush is a stutter of GuestExec.
LEMMA FlushStutters ==
    ASSUME IInv, caller_flush
    PROVE  UNCHANGED FlushGuest!guestVars
<1>1. \A t \in Threads : FlushStatus'[t] = FlushStatus[t]
  BY FlushFinds, FlushLeaves DEF FlushStatus
<1>2. /\ FlushStatus = [t \in Threads |-> FlushStatus[t]]
      /\ FlushStatus' = [t \in Threads |-> FlushStatus'[t]]
  BY DEF FlushStatus
<1>3. QED
  BY <1>1, <1>2, FlushLeaves DEF FlushGuest!guestVars

\* With flushes the vCPUs still execute the guest program: TB indices, code
\* offsets and patched jumps are used again for other blocks, and nobody sees it.
THEOREM FlushRefinement == FlushSteps => FlushTransparent
<1>1. FlushInit => FlushGuest!GuestInit
  BY DEF FlushInit, Init, FlushGuest!GuestInit, FlushStatus
<1>2. IInv /\ [FlushNext]_flushVars => [FlushGuest!GuestNext]_(FlushGuest!guestVars)
  <2> SUFFICES ASSUME IInv, [FlushNext]_flushVars
               PROVE  [FlushGuest!GuestNext]_(FlushGuest!guestVars)
    OBVIOUS
  <2>1. CASE caller_flush
    BY <2>1, FlushStutters
  <2>2. CASE UNCHANGED vars
    BY <2>2 DEF vars, cpuVars, FlushStatus, FlushGuest!guestVars
  <2>3. CASE \E t \in Threads : ThreadStep(t)
    BY <2>3, ThreadFlushRefines, Zenon
  <2>4. caller_flush \/ [Next]_vars
    BY FlushStepCases
  <2>5. QED
    BY <2>1, <2>2, <2>3, <2>4 DEF Next, Terminated
<1>3. QED
  BY <1>1, <1>2, FlushInvariance, PTL DEF FlushSteps, FlushTransparent, FlushGuest!GuestSpec
=============================================================================
