------------------------------- MODULE TbCacheFacts -------------------------
(***************************************************************************)
(* Facts about the helpers of TbCache's actions, and the proofs that looking a *)
(* TB up keeps the inductive invariant.                                    *)
(***************************************************************************)
EXTENDS TbCacheInv, TLAPS

-----------------------------------------------------------------------------
(* Facts about the constants and the helpers of the actions. *)

\* The assumptions on the constants, in the form the provers use.
LEMMA ConstantTypes ==
    /\ NoKey \notin Keys
    /\ InitKey \in Keys
    /\ \A k \in Keys, s \in Slots : Goto[k][s] \in Keys \cup {NoKey}
    /\ \A k \in Keys : Indirect[k] \subseteq Keys /\ TrapNext[k] \subseteq Keys
    /\ \A k \in Keys : JcIndex[k] \in JcEntries
    /\ NoThread \notin Threads
    /\ MaxTbs \in Nat /\ BufSize \in Nat /\ CodeGenStart \in Nat /\ MinRemaining \in Nat
    /\ 0 < CodeGenStart /\ CodeGenStart <= BufSize
    /\ \A size \in TbSizes : size \in Nat /\ size > 0
  BY GuestProgram, EngineConstants DEF JcEntries, Range

\* No index is None.
LEMMA NotNone == \A k \in Idx : k # None
<1>1. MaxTbs \in Nat
  BY ConstantTypes
<1>2. QED
  BY <1>1 DEF Idx, None

\* Thread u keeps its guest position and its locals.
Same(u) ==
    /\ gpc'[u] = gpc[u] /\ loc'[u] = loc[u] /\ why'[u] = why[u]
    /\ tb_idx'[u] = tb_idx[u] /\ src_tb'[u] = src_tb[u]
    /\ slot'[u] = slot[u] /\ at'[u] = at[u]

\* What Goes does: it moves thread t to a location and touches no other thread.
LEMMA GoesFacts ==
    ASSUME LocalTypeOK, NEW t \in Threads, NEW l \in Locations, Goes(t, l),
           UNCHANGED <<why, tb_idx, src_tb, slot, at>>
    PROVE  /\ LocalTypeOK'
           /\ loc'[t] = l
           /\ \A u \in Threads \ {t} : gpc'[u] = gpc[u] => Same(u)
  BY DEF LocalTypeOK, Goes, Same

\* What Enter does: thread t is in the host code of TB i.
LEMMA EnterFacts ==
    ASSUME LocalTypeOK, StoreTypeOK, NEW t \in Threads, NEW i \in Idx, Enter(t, i)
    PROVE  /\ LocalTypeOK'
           /\ loc'[t] = "exec" /\ why'[t] = "top" /\ at'[t] = host_offset[i]
           /\ \A u \in Threads \ {t} : gpc'[u] = gpc[u] => Same(u)
  BY DEF LocalTypeOK, StoreTypeOK, Enter, Goes, Same, Slots, Locations

\* What Found does: thread t enters TB i, or goes on to link or cache it.
LEMMA FoundFacts ==
    ASSUME LocalTypeOK, StoreTypeOK, NEW t \in Threads, NEW i \in Idx, Found(t, i)
    PROVE  /\ LocalTypeOK'
           /\ \A u \in Threads \ {t} : gpc'[u] = gpc[u] => Same(u)
           /\ \/ loc'[t] = "exec" /\ why'[t] = "top" /\ at'[t] = host_offset[i]
              \/ /\ loc'[t] \in {"add_jump", "set_target"}
                 /\ loc'[t] = "add_jump" => why[t] = "chain"
                 /\ loc'[t] = "set_target" => why[t] = "nochain"
                 /\ tb_idx'[t] = i
                 /\ why'[t] = why[t] /\ src_tb'[t] = src_tb[t] /\ slot'[t] = slot[t]
<1>1. CASE Enter(t, i)
  BY <1>1, EnterFacts
<1>2. CASE why[t] # "top" /\ ~Enter(t, i)
  <2> DEFINE l == IF why[t] = "chain" THEN "add_jump" ELSE "set_target"
  <2>1. /\ Goes(t, l)
        /\ tb_idx' = [tb_idx EXCEPT ![t] = i]
        /\ UNCHANGED <<at, why, src_tb, slot>>
    BY <1>2 DEF Found
  <2>2. l \in {"add_jump", "set_target"} /\ l \in Locations
    BY DEF Locations
  <2>3. why[t] \in {"chain", "nochain"}
    BY <1>2 DEF LocalTypeOK
  <2>4. (l = "add_jump" => why[t] = "chain") /\ (l = "set_target" => why[t] = "nochain")
    BY <2>3
  <2> HIDE DEF l
  <2>5. QED
    BY <2>1, <2>2, <2>4 DEF LocalTypeOK, Goes, Same
<1>3. QED
  BY <1>1, <1>2 DEF Found

\* What exit_tb does for a block's own index: the encoded word decodes to the
\* block that exited and to the exit it took.
LEMMA ExitFacts ==
    ASSUME NEW i \in Idx, NEW val \in 0..3
    PROVE  /\ val < 3 => decode_tb_exit(encode_tb_exit(i, val)) = <<i, val>>
           /\ val = 3 => decode_tb_exit(encode_tb_exit(i, val)) = <<None, 3>>
<1>1. i \in Int /\ i + 1 # 0 /\ (i + 1) - 1 = i
  BY ConstantTypes DEF Idx
<1>2. CASE val < 3
  BY <1>1, <1>2 DEF decode_tb_exit, encode_tb_exit
<1>3. CASE val = 3
  BY <1>3 DEF decode_tb_exit, encode_tb_exit
<1>4. QED
  BY <1>2, <1>3

\* What the loop does with the exit that the code of TB i returned: a slot is to
\* be chained, an indirect exit to be cached, and an ecall goes to the caller.
LEMMA ExitCases ==
    ASSUME NEW t, NEW i \in Idx, NEW val \in 0..3, exit_tb(t, i, val)
    PROVE  \/ /\ val \in Slots
              /\ src_tb' = [src_tb EXCEPT ![t] = i]
              /\ slot' = [slot EXCEPT ![t] = val]
              /\ why' = [why EXCEPT ![t] = "chain"]
              /\ Goes(t, "find")
           \/ /\ val = TB_EXIT_NOCHAIN
              /\ src_tb' = [src_tb EXCEPT ![t] = i]
              /\ why' = [why EXCEPT ![t] = "nochain"]
              /\ Goes(t, "get_target")
              /\ UNCHANGED slot
           \/ /\ val = EXCP_ECALL
              /\ Goes(t, "trap")
              /\ UNCHANGED <<src_tb, slot, why>>
<1> DEFINE exit == decode_tb_exit(encode_tb_exit(i, val))
<1>1. i # None
  BY NotNone
<1>2. CASE val < 3
  <2>1. exit[1] = i /\ exit[2] = val
    BY <1>2, ExitFacts
  <2>2. ~(val > TB_EXIT_NOCHAIN)
    BY <1>2 DEF TB_EXIT_NOCHAIN
  <2>3. QED
    BY <1>1, <2>1, <2>2, Zenon DEF exit_tb
<1>3. CASE val = 3
  <2>1. exit[2] = 3
    BY <1>3, ExitFacts
  <2>2. 3 \notin Slots /\ 3 # TB_EXIT_NOCHAIN
    BY DEF Slots, TB_EXIT_NOCHAIN
  <2>3. QED
    BY <1>3, <2>1, <2>2, Zenon DEF exit_tb, EXCP_ECALL
<1>4. QED
  BY <1>2, <1>3

\* The three kinds of exit are different.
LEMMA ExitKinds ==
    /\ Slots \subseteq 0..3 /\ TB_EXIT_NOCHAIN \in 0..3 /\ EXCP_ECALL \in 0..3
    /\ TB_EXIT_NOCHAIN \notin Slots /\ EXCP_ECALL \notin Slots
    /\ EXCP_ECALL # TB_EXIT_NOCHAIN
  BY DEF Slots, TB_EXIT_NOCHAIN, EXCP_ECALL

-----------------------------------------------------------------------------
(* Steps that leave the store, the jumps and the locks alone. *)

\* Finished TBs keep their position and their code.
StoreGrows ==
    \A i \in Idx : Emitted(i) => tb_key'[i] = tb_key[i] /\ host_offset'[i] = host_offset[i]

\* A thread that does not move keeps its part of the invariant while the store
\* only grows.
LEMMA OthersLocal ==
    ASSUME TypeOK, StoreGrows, NEW u \in Threads, LocalInv(u), Same(u)
    PROVE  LocalInv(u)'
<1>1. \A i \in Idx : Emitted(i) =>
          Emitted(i)' /\ tb_key'[i] = tb_key[i] /\ host_offset'[i] = host_offset[i]
  BY DEF StoreGrows, Emitted
<1>2. HasDst(u)' => HasDst(u)
  BY DEF HasDst, Same
<1>3. HasDst(u)' => tb_idx'[u] \in Idx /\ Emitted(tb_idx[u])' /\ tb_key'[tb_idx'[u]] = gpc'[u]
  BY <1>1, <1>2 DEF LocalInv, Same, Emitted
<1>4. why'[u] # "top" => src_tb'[u] \in Idx /\ Emitted(src_tb[u])'
  BY <1>1 DEF LocalInv, Same, Emitted
<1>5. why'[u] = "chain" => Goto[tb_key'[src_tb'[u]]][slot'[u]] = gpc'[u]
  BY <1>1 DEF LocalInv, Same
<1>6. loc'[u] = "exec" =>
          \E i \in Idx : Emitted(i)' /\ host_offset'[i] = at'[u] /\ tb_key'[i] = gpc'[u]
  BY <1>1 DEF LocalInv, Same
<1>7. QED
  BY <1>3, <1>4, <1>5, <1>6 DEF LocalInv, Same

\* Jumps stay right while the store grows and they are not patched.
LEMMA JumpsKept ==
    ASSUME IInv, StoreGrows, UNCHANGED host_jmp
    PROVE  JumpInv'
<1> SUFFICES ASSUME NEW i \in Idx, NEW s \in Slots, host_jmp[i][s] # Reset
             PROVE  /\ Emitted(i)'
                    /\ \E j \in Idx : /\ Emitted(j)'
                                      /\ host_jmp[i][s] = host_offset'[j]
                                      /\ tb_key'[j] = Goto[tb_key'[i]][s]
  BY DEF JumpInv
<1>1. PICK j \in Idx : /\ Emitted(j)
                       /\ host_jmp[i][s] = host_offset[j]
                       /\ tb_key[j] = Goto[tb_key[i]][s]
  BY DEF IInv, JumpInv
<1>2. Emitted(i)
  BY DEF IInv, JumpInv
<1>3. QED
  BY <1>1, <1>2 DEF StoreGrows, Emitted

\* The caches stay right while the store grows and they are not written.
LEMMA CachesKept ==
    ASSUME IInv, StoreGrows, UNCHANGED <<jump_cache, exit_target>>
    PROVE  CacheInv'
<1>1. \A u \in Threads, e \in JcEntries : jump_cache[u][e] \in Idx \cup {None}
  BY DEF IInv, TypeOK, CpuTypeOK
<1>2. \A j \in Idx : exit_target[j] \in Idx \cup {None}
  BY DEF IInv, TypeOK, ChainTypeOK
<1>3. \A i \in Idx : Emitted(i) => Emitted(i)'
  BY DEF StoreGrows, Emitted
<1>4. \A u \in Threads, e \in JcEntries :
          jump_cache'[u][e] # None => Emitted(jump_cache[u][e])'
  BY <1>1, <1>3 DEF IInv, CacheInv, Emitted
<1>5. \A j \in Idx : exit_target'[j] # None => Emitted(exit_target[j])'
  BY <1>2, <1>3 DEF IInv, CacheInv, Emitted
<1>6. QED
  BY <1>4, <1>5 DEF CacheInv

\* Nor do they change, or their types, in a step that leaves them alone.
LEMMA CachesSame ==
    ASSUME IInv, UNCHANGED <<storeVars, chainVars, gpc, jump_cache>>
    PROVE  ChainTypeOK' /\ CpuTypeOK' /\ CacheInv'
<1>1. ChainTypeOK' /\ CpuTypeOK'
  BY DEF IInv, TypeOK, ChainTypeOK, CpuTypeOK, chainVars
<1>2. StoreGrows
  BY DEF StoreGrows, storeVars
<1>3. CacheInv'
  BY <1>2, CachesKept DEF chainVars
<1>4. QED
  BY <1>1, <1>3

\* The parts of IInv that mention neither caches nor jumps, when neither the store
\* nor the locks change and the builder, if any, does not move.
LEMMA StoreKept ==
    ASSUME IInv, UNCHANGED <<storeVars, invalid, buf_offset, lockVars>>,
           NEW t \in Threads, ~Building(t), ~Building(t)',
           \A u \in Threads \ {t} : Same(u)
    PROVE  /\ StoreInv' /\ CodeInv' /\ UniqueTranslation'
           /\ \A u \in Threads : BuildInv(u)'
           /\ \A u \in Threads \ {t} : LocalInv(u)'
           /\ StoreGrows
<1>1. \A u \in Threads \ {t} : Building(u)' <=> Building(u)
  BY DEF Building, Same
<1>2. \A u \in Threads : BuildInv(u)'
  <2>1. BuildInv(t)'
    BY DEF IInv, BuildInv, lockVars
  <2>2. ASSUME NEW u \in Threads \ {t} PROVE BuildInv(u)'
    <3>1. BuildInv(u) /\ Same(u) /\ (Building(u)' <=> Building(u))
      BY <1>1 DEF IInv
    <3>2. QED
      BY <3>1 DEF BuildInv, Same, Emitted, storeVars, lockVars
  <2>3. QED
    BY <2>1, <2>2
<1>3. \A i \in Idx, u \in Threads : Building(u) /\ tb_idx[u] = i =>
          Building(u)' /\ tb_idx'[u] = i
  BY <1>1, Zenon DEF Same
<1>4. StoreInv'
  BY <1>3, Zenon DEF IInv, StoreInv, Emitted, storeVars, lockVars
<1>5. CodeInv' /\ UniqueTranslation'
  BY DEF IInv, CodeInv, UniqueTranslation, Emitted, storeVars
<1>6. StoreGrows
  BY DEF StoreGrows, storeVars
<1>7. \A u \in Threads \ {t} : LocalInv(u)'
  BY <1>6, OthersLocal, Zenon DEF IInv
<1>8. QED
  BY <1>2, <1>4, <1>5, <1>6, <1>7

\* A step of thread t that changes only t's locals, the caches and what is written
\* down about edges keeps IInv if it keeps the types, the caches and t's own part.
LEMMA QuietStep ==
    ASSUME IInv, NEW t \in Threads,
           UNCHANGED <<storeVars, invalid, host_jmp, buf_offset, lockVars>>,
           \A u \in Threads \ {t} : Same(u),
           ~Building(t), ~Building(t)',
           TypeOK', CacheInv', LocalInv(t)'
    PROVE  IInv'
<1>1. /\ StoreInv' /\ CodeInv' /\ UniqueTranslation'
      /\ \A u \in Threads : BuildInv(u)'
      /\ \A u \in Threads \ {t} : LocalInv(u)'
      /\ StoreGrows
  BY StoreKept
<1>2. JumpInv'
  BY <1>1, JumpsKept
<1>3. QED
  BY <1>1, <1>2 DEF IInv

\* A quiet step by which thread t enters a finished TB for its position.
LEMMA EnterStep ==
    ASSUME IInv, NEW t \in Threads, NEW i \in Idx,
           Emitted(i), tb_key[i] = gpc[t], Enter(t, i),
           ~Building(t),
           UNCHANGED <<storeVars, invalid, host_jmp, buf_offset, lockVars, gpc>>,
           ChainTypeOK', CpuTypeOK', CacheInv'
    PROVE  IInv'
<1>1. /\ LocalTypeOK'
      /\ loc'[t] = "exec" /\ why'[t] = "top" /\ at'[t] = host_offset[i]
      /\ \A u \in Threads \ {t} : Same(u)
  BY EnterFacts DEF IInv, TypeOK
<1>2. TypeOK'
  BY <1>1 DEF IInv, TypeOK, StoreTypeOK, LockTypeOK, storeVars, lockVars
<1>3. ~Building(t)'
  BY <1>1 DEF Building
<1>4. LocalInv(t)'
  BY <1>1, Zenon DEF LocalInv, HasDst, Emitted, storeVars
<1>5. QED
  BY <1>1, <1>2, <1>3, <1>4, QuietStep

\* A quiet step by which tb_find returns a finished TB for t's position.
LEMMA FoundStep ==
    ASSUME IInv, NEW t \in Threads, NEW i \in Idx,
           Emitted(i), tb_key[i] = gpc[t], Found(t, i),
           ~Building(t),
           UNCHANGED <<storeVars, invalid, host_jmp, buf_offset, lockVars, gpc>>,
           ChainTypeOK', CpuTypeOK', CacheInv'
    PROVE  IInv'
<1>1. CASE Enter(t, i)
  BY <1>1, EnterStep, Zenon
<1>2. CASE why[t] # "top" /\ ~Enter(t, i)
  <2>1. /\ LocalTypeOK'
        /\ \A u \in Threads \ {t} : Same(u)
        /\ \/ loc'[t] = "exec" /\ why'[t] = "top" /\ at'[t] = host_offset[i]
           \/ /\ loc'[t] \in {"add_jump", "set_target"}
              /\ loc'[t] = "add_jump" => why[t] = "chain"
              /\ loc'[t] = "set_target" => why[t] = "nochain"
              /\ tb_idx'[t] = i
              /\ why'[t] = why[t] /\ src_tb'[t] = src_tb[t] /\ slot'[t] = slot[t]
    BY FoundFacts DEF IInv, TypeOK
  <2>2. TypeOK'
    BY <2>1 DEF IInv, TypeOK, StoreTypeOK, LockTypeOK, storeVars, lockVars
  <2>3. ~Building(t)'
    BY <2>1, Zenon DEF Building
  <2>4. CASE loc'[t] = "exec" /\ why'[t] = "top" /\ at'[t] = host_offset[i]
    <3>1. LocalInv(t)'
      BY <2>4, Zenon DEF LocalInv, HasDst, Emitted, storeVars
    <3>2. QED
      BY <2>1, <2>2, <2>3, <3>1, QuietStep
  <2>5. CASE /\ loc'[t] \in {"add_jump", "set_target"}
             /\ loc'[t] = "add_jump" => why[t] = "chain"
             /\ loc'[t] = "set_target" => why[t] = "nochain"
             /\ tb_idx'[t] = i
             /\ why'[t] = why[t] /\ src_tb'[t] = src_tb[t] /\ slot'[t] = slot[t]
    <3>1. /\ Emitted(tb_idx[t])' /\ tb_key'[tb_idx'[t]] = gpc'[t]
      BY <2>5 DEF Emitted, storeVars
    <3>2. /\ why'[t] # "top" => src_tb'[t] \in Idx /\ Emitted(src_tb[t])'
          /\ why'[t] = "chain" => Goto[tb_key'[src_tb'[t]]][slot'[t]] = gpc'[t]
      BY <2>5, Zenon DEF IInv, LocalInv, Emitted, storeVars
    <3>3. LocalInv(t)'
      BY <2>5, <3>1, <3>2 DEF LocalInv
    <3>4. QED
      BY <2>1, <2>2, <2>3, <3>3, QuietStep
  <2>6. QED
    BY <2>1, <2>4, <2>5
<1>3. QED
  BY <1>1, <1>2, Zenon DEF Found

\* A quiet step that only moves thread t inside tb_find, or ends its loop.
LEMMA SearchStep ==
    ASSUME IInv, NEW t \in Threads,
           NEW l \in {"find", "lookup", "check_space", "lock"} \cup Stopped, Goes(t, l),
           ~Building(t),
           UNCHANGED <<storeVars, invalid, chainVars, buf_offset, lockVars, gpc, jump_cache,
                       why, tb_idx, src_tb, slot, at>>
    PROVE  IInv'
<1>1. l \in Locations
  BY DEF Locations
<1>2. LocalTypeOK' /\ loc'[t] = l /\ \A u \in Threads \ {t} : Same(u)
  BY <1>1, GoesFacts, Zenon DEF IInv, TypeOK
<1>3. TypeOK'
  BY <1>2, Zenon DEF IInv, TypeOK, StoreTypeOK, ChainTypeOK, LockTypeOK, CpuTypeOK,
              storeVars, chainVars, lockVars
<1>4. ~Building(t)'
  BY <1>2 DEF Building, Stopped
<1>5. CacheInv'
  BY Zenon DEF IInv, CacheInv, Emitted, storeVars, chainVars
<1>6. LocalInv(t)'
  <2>1. ~HasDst(t)' /\ loc'[t] \notin {"exec", "trap", "get_target"}
    BY <1>2 DEF HasDst, Stopped
  <2>2. QED
    BY <2>1, Zenon DEF IInv, LocalInv, HasDst, Emitted, storeVars
<1>7. QED
  BY <1>2, <1>3, <1>4, <1>5, <1>6, QuietStep, Zenon DEF chainVars

\* A TB that a cache or the hash table gives for k is finished and for k.
LEMMA HitFacts ==
    ASSUME IInv, NEW k \in Keys
    PROVE  /\ \A t \in Threads, e \in JcEntries : Hit(jump_cache[t][e], k) =>
                  /\ jump_cache[t][e] \in Idx
                  /\ Emitted(jump_cache[t][e])
                  /\ tb_key[jump_cache[t][e]] = k
           /\ \A i \in Idx : Hit(exit_target[i], k) =>
                  /\ exit_target[i] \in Idx
                  /\ Emitted(exit_target[i])
                  /\ tb_key[exit_target[i]] = k
           /\ \A i \in lookup(k) : i \in Idx /\ Emitted(i) /\ tb_key[i] = k
<1>1. \A t \in Threads, e \in JcEntries : jump_cache[t][e] \in Idx \cup {None}
  BY DEF IInv, TypeOK, CpuTypeOK
<1>2. \A i \in Idx : exit_target[i] \in Idx \cup {None}
  BY DEF IInv, TypeOK, ChainTypeOK
<1>3. \A i \in Idx : published[i] => Emitted(i)
  BY Zenon DEF IInv, StoreInv
<1>4. QED
  BY <1>1, <1>2, <1>3, Zenon DEF IInv, CacheInv, Hit, Matches, lookup

\* Recording a finished TB in the jump cache keeps the caches right.
LEMMA JcInsertFacts ==
    ASSUME IInv, NEW t \in Threads, NEW i \in Idx, JcInsert(t, i), StoreGrows,
           Emitted(i)', UNCHANGED <<gpc, exit_target>>
    PROVE  CpuTypeOK' /\ CacheInv'
<1>1. gpc[t] \in Keys /\ JcIndex[gpc[t]] \in JcEntries
  BY ConstantTypes, Zenon DEF IInv, TypeOK, CpuTypeOK
<1>2. CpuTypeOK'
  BY <1>1 DEF IInv, TypeOK, CpuTypeOK, JcInsert
<1>3. \A u \in Threads, e \in JcEntries :
          jump_cache'[u][e] = IF u = t /\ e = JcIndex[gpc[t]] THEN i ELSE jump_cache[u][e]
  BY <1>1 DEF IInv, TypeOK, CpuTypeOK, JcInsert
<1>4. \A u \in Threads, e \in JcEntries : jump_cache[u][e] \in Idx \cup {None}
  BY DEF IInv, TypeOK, CpuTypeOK
<1>5. \A j \in Idx : exit_target[j] \in Idx \cup {None}
  BY DEF IInv, TypeOK, ChainTypeOK
<1>6. \A j \in Idx : Emitted(j) => Emitted(j)'
  BY DEF StoreGrows, Emitted
<1>7. \A u \in Threads, e \in JcEntries :
          jump_cache'[u][e] # None => Emitted(jump_cache[u][e])'
  BY <1>3, <1>4, <1>6 DEF IInv, CacheInv, Emitted
<1>8. \A j \in Idx : exit_target'[j] # None => Emitted(exit_target[j])'
  BY <1>5, <1>6 DEF IInv, CacheInv, Emitted
<1>9. CacheInv'
  BY <1>7, <1>8 DEF CacheInv
<1>10. QED
  BY <1>2, <1>9

-----------------------------------------------------------------------------
(* One lemma per action: the action keeps IInv. *)

\* tb_find's fast path keeps IInv: a hit names a finished TB for the position.
LEMMA FindJumpCacheStep ==
    ASSUME IInv, NEW t \in Threads, tb_find_jump_cache(t) PROVE IInv'
<1> DEFINE cached == jump_cache[t][JcIndex[gpc[t]]]
<1>1. gpc[t] \in Keys /\ JcIndex[gpc[t]] \in JcEntries
  BY ConstantTypes, Zenon DEF IInv, TypeOK, CpuTypeOK
<1>2. ~Building(t)
  BY DEF tb_find_jump_cache, Building
<1>3. ChainTypeOK' /\ CpuTypeOK' /\ CacheInv'
  BY CachesSame DEF tb_find_jump_cache
<1>4. CASE Hit(cached, gpc[t]) /\ Found(t, cached)
  <2>1. cached \in Idx /\ Emitted(cached) /\ tb_key[cached] = gpc[t]
    BY <1>1, <1>4, HitFacts
  <2>2. QED
    BY <1>2, <1>3, <1>4, <2>1, FoundStep, Zenon DEF tb_find_jump_cache, chainVars
<1>5. CASE Goes(t, "lookup") /\ UNCHANGED <<why, tb_idx, src_tb, slot, at>>
  BY <1>2, <1>5, SearchStep, Zenon DEF tb_find_jump_cache
<1>6. QED
  BY <1>4, <1>5, Zenon DEF tb_find_jump_cache

\* A lookup that finds a TB, in tb_find or in tb_gen_code.
LEMMA LookupStep ==
    ASSUME IInv, NEW t \in Threads, NEW i \in lookup(gpc[t]), JcInsert(t, i), Found(t, i),
           ~Building(t),
           UNCHANGED <<storeVars, invalid, chainVars, buf_offset, lockVars, gpc>>
    PROVE  IInv'
<1>1. gpc[t] \in Keys
  BY DEF IInv, TypeOK, CpuTypeOK
<1>2. i \in Idx /\ Emitted(i) /\ tb_key[i] = gpc[t]
  BY <1>1, HitFacts
<1>3. StoreGrows /\ Emitted(i)'
  BY <1>2 DEF StoreGrows, Emitted, storeVars
<1>4. CpuTypeOK' /\ CacheInv'
  BY <1>2, <1>3, JcInsertFacts, Zenon DEF chainVars
<1>5. ChainTypeOK'
  BY Zenon DEF IInv, TypeOK, ChainTypeOK, chainVars
<1>6. QED
  BY <1>2, <1>4, <1>5, FoundStep DEF chainVars

\* tb_find's slow path keeps IInv, whether the hash table has the TB or not.
LEMMA FindHashStep ==
    ASSUME IInv, NEW t \in Threads, tb_find_hash(t) PROVE IInv'
<1>1. ~Building(t)
  BY DEF tb_find_hash, Building
<1>2. CASE \E i \in lookup(gpc[t]) : JcInsert(t, i) /\ Found(t, i)
  BY <1>1, <1>2, LookupStep, Zenon DEF tb_find_hash
<1>3. CASE Goes(t, "check_space") /\ UNCHANGED <<jump_cache, why, tb_idx, src_tb, slot, at>>
  BY <1>1, <1>3, SearchStep, Zenon DEF tb_find_hash
<1>4. QED
  BY <1>2, <1>3 DEF tb_find_hash

\* The space check of tb_gen_code keeps IInv: it moves one thread.
LEMMA CheckStep ==
    ASSUME IInv, NEW t \in Threads, tb_gen_code_check(t) PROVE IInv'
<1>1. ~Building(t)
  BY DEF tb_gen_code_check, Building
<1>2. Goes(t, "full") \/ Goes(t, "lock")
  BY DEF tb_gen_code_check
<1>3. QED
  BY <1>1, <1>2, SearchStep DEF tb_gen_code_check, Stopped

\* Finding translate_lock poisoned keeps IInv: the thread stops.
LEMMA PoisonedStep ==
    ASSUME IInv, NEW t \in Threads, tb_gen_code_poisoned(t) PROVE IInv'
<1>1. ~Building(t)
  BY DEF tb_gen_code_poisoned, Building
<1>2. QED
  BY <1>1, SearchStep DEF tb_gen_code_poisoned, Stopped

\* The second lookup of tb_gen_code keeps IInv when it finds the TB.
LEMMA RecheckStep ==
    ASSUME IInv, NEW t \in Threads, tb_gen_code_recheck(t) PROVE IInv'
<1>1. ~Building(t)
  BY DEF tb_gen_code_recheck, Building
<1>2. QED
  BY <1>1, LookupStep DEF tb_gen_code_recheck

\* While translate_lock is free nobody builds, and unless it is poisoned every
\* allocated TB is published or invalid.
LEMMA LockFree ==
    ASSUME IInv, translate_lock = NoThread
    PROVE  /\ \A u \in Threads : ~Building(u)
           /\ ~poisoned => \A i \in Idx : i < len => published[i] \/ invalid[i]
<1>1. \A u \in Threads : ~Building(u)
  BY ConstantTypes, Zenon DEF IInv, BuildInv
<1>2. QED
  BY <1>1 DEF IInv, StoreInv
-----------------------------------------------------------------------------
(* Translating: allocation, emission and publication. *)

\* TbStore::alloc after a second lookup that found nothing keeps IInv: the lock is
\* free, so every valid TB is published, and none of them is for this position.
LEMMA AllocStep ==
    ASSUME IInv, NEW t \in Threads, tb_gen_code_alloc(t) PROVE IInv'
<1>1. \A u \in Threads : ~Building(u)
  BY LockFree DEF tb_gen_code_alloc
<1>2. \A i \in Idx : i < len => published[i] \/ invalid[i]
  BY LockFree DEF tb_gen_code_alloc
<1>3. loc[t] = "lock" /\ gpc[t] \in Keys
  BY DEF tb_gen_code_alloc, IInv, TypeOK, CpuTypeOK
<1>4. CASE len < MaxTbs
  <2>a. len \in 0..MaxTbs /\ tb_key \in [Idx -> Keys \cup {NoKey}]
    BY DEF IInv, TypeOK, StoreTypeOK
  <2>b. len \in Idx /\ len \in Nat
    BY <1>4, <2>a, ConstantTypes DEF Idx
  <2>c. ~StoreFull
    BY <1>4, <2>a, ConstantTypes DEF StoreFull
  <2>1. /\ tb_key' = [tb_key EXCEPT ![len] = gpc[t]]
        /\ tb_idx' = [tb_idx EXCEPT ![t] = len]
        /\ len' = len + 1
        /\ translate_lock' = t
        /\ Goes(t, "translate")
        /\ UNCHANGED <<poisoned, host_offset, published, invalid, chainVars, buf_offset,
                       gpc, jump_cache, why, src_tb, slot, at>>
    BY <2>c, Zenon DEF tb_gen_code_alloc, alloc
  <2>2. len \in Idx /\ len \in Nat /\ tb_key \in [Idx -> Keys \cup {NoKey}]
    BY <2>a, <2>b
  <2>3. /\ tb_key'[len] = gpc[t]
        /\ \A i \in Idx \ {len} : tb_key'[i] = tb_key[i]
    BY <2>1, <2>2
  <2>4. /\ LocalTypeOK'
        /\ loc'[t] = "translate" /\ tb_idx'[t] = len
        /\ \A u \in Threads \ {t} : Same(u)
    <3>1. "translate" \in Locations
      BY DEF Locations
    <3>2. QED
      BY <2>1, <2>2, <3>1 DEF IInv, TypeOK, LocalTypeOK, Goes, Same
  <2>5. StoreTypeOK'
    BY <1>3, <1>4, <2>1, <2>2, ConstantTypes DEF IInv, TypeOK, StoreTypeOK
  <2>6. TypeOK'
    BY <2>1, <2>4, <2>5 DEF IInv, TypeOK, ChainTypeOK, LockTypeOK, CpuTypeOK, chainVars
  <2>7. ~published[len] /\ ~invalid[len] /\ ~Emitted(len)
    BY <2>2 DEF IInv, StoreInv
  <2>8. StoreGrows
    BY <2>1, <2>3, <2>7 DEF StoreGrows
  <2>9. \A u \in Threads : BuildInv(u)'
    <3>1. BuildInv(t)'
      <4>1. Building(t)' /\ translate_lock' = t /\ ~poisoned' /\ loc'[t] # "insert"
        BY <2>1, <2>4 DEF Building, tb_gen_code_alloc
      <4>2. ~published'[len] /\ ~invalid'[len] /\ host_offset'[len] = Unset /\ gpc'[t] = gpc[t]
        BY <2>1, <2>7 DEF Emitted
      <4>3. len = len' - 1
        BY <2>1, <2>2
      <4>4. QED
        BY <2>2, <2>3, <2>4, <4>1, <4>2, <4>3 DEF BuildInv, Emitted
    <3>2. \A u \in Threads \ {t} : BuildInv(u)'
      BY <1>1, <2>1, <2>4 DEF BuildInv, Building, Same
    <3>3. QED
      BY <3>1, <3>2
  <2>10. \A u \in Threads : LocalInv(u)'
    <3>1. LocalInv(t)'
      <4>1. why[t] # "top" => src_tb[t] \in Idx /\ Emitted(src_tb[t])
        BY DEF IInv, LocalInv
      <4>2. why[t] = "chain" => Goto[tb_key[src_tb[t]]][slot[t]] = gpc[t]
        BY DEF IInv, LocalInv
      <4>3. QED
        BY <2>1, <2>4, <2>8, <4>1, <4>2 DEF LocalInv, HasDst, StoreGrows, Emitted
    <3>2. QED
      BY <3>1, <2>4, <2>8, OthersLocal DEF IInv
  <2>11. StoreInv'
    <3>1. Building(t)' /\ tb_idx'[t] = len
      BY <2>4 DEF Building
    <3>3. ASSUME NEW i \in Idx, i < len
          PROVE  tb_key'[i] \in Keys /\ (published'[i] \/ invalid'[i])
      BY <1>2, <2>1, <2>2, <2>3, <3>3 DEF IInv, StoreInv
    <3>4. \A i \in Idx : i >= len' => i >= len
      BY <2>1, <2>2 DEF Idx
    <3>5. \A i \in Idx : i < len' => i < len \/ i = len
      BY <2>1, <2>2 DEF Idx
    <3>6. \A i \in Idx : published'[i] => Emitted(i)'
      BY <2>1 DEF IInv, StoreInv, Emitted
    <3>7. \A i \in Idx : i >= len' => ~published'[i] /\ ~invalid'[i] /\ ~Emitted(i)'
      BY <2>1, <3>4 DEF IInv, StoreInv, Emitted
    <3>8. tb_key'[len] \in Keys
      BY <1>3, <2>3
    <3>9. QED
      BY <3>1, <3>3, <3>5, <3>6, <3>7, <3>8 DEF StoreInv
  <2>12. CodeInv'
    BY <2>1 DEF IInv, CodeInv, Emitted
  <2>13. CacheInv'
    BY <2>1, <2>8, CachesKept DEF chainVars
  <2>14. JumpInv'
    BY <2>1, <2>8, JumpsKept DEF chainVars
  <2>15. UniqueTranslation'
    <3>1. \A i \in 0..(len - 1) : i \in Idx /\ i # len /\ i < len
      BY <2>2, <1>4, ConstantTypes DEF Idx
    <3>2. lookup(gpc[t]) = {}
      BY DEF tb_gen_code_alloc
    <3>3. \A i \in 0..(len - 1) : ~invalid[i] => tb_key[i] # gpc[t]
      BY <1>2, <3>1, <3>2 DEF lookup, Matches
    <3>4. \A i \in 0..(len' - 1) : i = len \/ i \in 0..(len - 1)
      BY <2>1, <2>2
    <3>5. QED
      BY <2>1, <2>3, <3>1, <3>3, <3>4 DEF IInv, UniqueTranslation
  <2>16. QED
    BY <2>6, <2>9, <2>10, <2>11, <2>12, <2>13, <2>14, <2>15 DEF IInv
<1>5. CASE len >= MaxTbs
  <2>a. StoreFull
    BY <1>5, Zenon DEF StoreFull
  <2>1. /\ poisoned' = TRUE
        /\ Goes(t, "panic")
        /\ UNCHANGED <<storeVars, invalid, chainVars, buf_offset, translate_lock,
                       gpc, jump_cache, why, tb_idx, src_tb, slot, at>>
    BY <2>a, Zenon DEF tb_gen_code_alloc, alloc, storeVars
  <2>2. LocalTypeOK' /\ loc'[t] = "panic" /\ \A u \in Threads \ {t} : Same(u)
    BY <2>1, GoesFacts, Zenon DEF IInv, TypeOK, Locations, Stopped
  <2>3. TypeOK'
    BY <2>1, <2>2 DEF IInv, TypeOK, StoreTypeOK, ChainTypeOK, LockTypeOK, CpuTypeOK,
                      storeVars, chainVars
  <2>4. StoreGrows
    BY <2>1, Zenon DEF StoreGrows, storeVars
  <2>5. \A u \in Threads : BuildInv(u)'
    BY <1>1, <2>1, <2>2, Zenon DEF IInv, BuildInv, Building, Same
  <2>6. \A u \in Threads : LocalInv(u)'
    <3>1. LocalInv(t)'
      BY <2>1, <2>2, Zenon DEF IInv, LocalInv, HasDst, Emitted, storeVars
    <3>2. QED
      BY <3>1, <2>2, <2>4, OthersLocal DEF IInv
  <2>7. StoreInv'
    BY <2>1 DEF IInv, StoreInv, Emitted, storeVars
  <2>8. CodeInv' /\ UniqueTranslation'
    BY <2>1 DEF IInv, CodeInv, UniqueTranslation, Emitted, storeVars
  <2>9. CacheInv' /\ JumpInv'
    BY <2>1, <2>4, CachesKept, JumpsKept, Zenon DEF chainVars
  <2>10. QED
    BY <2>3, <2>5, <2>6, <2>7, <2>8, <2>9 DEF IInv
<1>6. QED
  BY <1>4, <1>5, ConstantTypes DEF IInv, TypeOK, StoreTypeOK

\* A thread that builds is alone to do so.
LEMMA OneBuilder ==
    ASSUME IInv, NEW t \in Threads, Building(t)
    PROVE  \A u \in Threads \ {t} : ~Building(u)
  BY Zenon DEF IInv, BuildInv

\* Emitting the code of the new TB keeps IInv: the code lies at the old cursor, past
\* that of every other TB; an overflow poisons the lock and stops the thread.
LEMMA TranslateStep ==
    ASSUME IInv, NEW t \in Threads, tb_gen_code_translate(t) PROVE IInv'
<1>1. loc[t] = "translate" /\ Building(t)
  BY Zenon DEF tb_gen_code_translate, Building
<1>2. PICK i \in Idx :
        /\ i = tb_idx[t] /\ i = len - 1 /\ tb_key[i] = gpc[t] /\ ~published[i] /\ ~invalid[i]
        /\ ~Emitted(i) /\ ~poisoned /\ translate_lock = t
  BY <1>1 DEF IInv, BuildInv
<1>3. \A u \in Threads \ {t} : ~Building(u)
  BY <1>1, OneBuilder
<1>4. PICK size \in TbSizes :
       \/ /\ buf_offset + size <= BufSize
          /\ host_offset' = [host_offset EXCEPT ![i] = buf_offset]
          /\ buf_offset' = buf_offset + size
          /\ Goes(t, "insert")
          /\ UNCHANGED lockVars
       \/ /\ buf_offset + size > BufSize
          /\ buf_offset' = BufSize
          /\ translate_lock' = NoThread
          /\ poisoned' = TRUE
          /\ Goes(t, "panic")
          /\ UNCHANGED host_offset
  BY <1>2 DEF tb_gen_code_translate
<1>5. UNCHANGED <<len, tb_key, published, invalid, chainVars,
                  gpc, jump_cache, why, tb_idx, src_tb, slot, at>>
  BY DEF tb_gen_code_translate
<1>6. size \in Nat /\ size > 0 /\ buf_offset \in Nat /\ CodeGenStart <= buf_offset
      /\ buf_offset <= BufSize
  BY ConstantTypes DEF IInv, TypeOK, LockTypeOK
<1>7. host_offset \in [Idx -> Nat]
  BY DEF IInv, TypeOK, StoreTypeOK
<1>8. CASE Goes(t, "insert") /\ host_offset' = [host_offset EXCEPT ![i] = buf_offset]
           /\ buf_offset' = buf_offset + size /\ buf_offset + size <= BufSize
           /\ UNCHANGED lockVars
  <2>1. "insert" \in Locations
    BY DEF Locations
  <2>2. LocalTypeOK' /\ loc'[t] = "insert" /\ \A u \in Threads \ {t} : Same(u)
    BY <1>5, <1>8, <2>1, GoesFacts DEF IInv, TypeOK
  <2>3. host_offset'[i] = buf_offset /\ \A j \in Idx \ {i} : host_offset'[j] = host_offset[j]
    BY <1>2, <1>7, <1>8
  <2>4. StoreTypeOK' /\ LockTypeOK'
    <3>1. host_offset' \in [Idx -> Nat]
      BY <1>6, <1>7, <1>8
    <3>2. StoreTypeOK'
      BY <1>5, <3>1 DEF IInv, TypeOK, StoreTypeOK
    <3>3. CodeGenStart \in Nat /\ BufSize \in Nat
      BY ConstantTypes
    <3>4. buf_offset' \in CodeGenStart .. BufSize
      BY <1>6, <1>8, <3>3
    <3>5. LockTypeOK'
      BY <1>8, <3>4 DEF IInv, TypeOK, LockTypeOK, lockVars
    <3> QED  BY <3>2, <3>5
  <2>5. TypeOK'
    BY <1>5, <2>2, <2>4 DEF IInv, TypeOK, ChainTypeOK, CpuTypeOK, chainVars
  <2>6. StoreGrows
    BY <1>2, <1>5, <2>3 DEF StoreGrows
  <2>7. \A u \in Threads : BuildInv(u)'
    <3>1. BuildInv(t)'
      <4>1. Emitted(i)'
        <5>1. CodeGenStart \in Nat \ {0}
          BY ConstantTypes
        <5>2. buf_offset # 0
          BY <1>6, <5>1
        <5> QED  BY <2>3, <5>2 DEF Emitted, Unset
      <4>2. translate_lock' = t /\ ~poisoned' /\ tb_idx'[t] = i /\ gpc'[t] = gpc[t]
        BY <1>2, <1>5, <1>8 DEF lockVars
      <4>3. len' = len /\ tb_key'[i] = gpc[t] /\ ~published'[i] /\ ~invalid'[i]
        BY <1>2, <1>5
      <4>4. Building(t)'
        BY <2>2 DEF Building
      <4>5. Emitted(tb_idx[t])'
        BY <1>2, <1>5, <4>1 DEF Emitted
      <4>6. QED
        BY <1>2, <2>2, <4>2, <4>3, <4>4, <4>5 DEF BuildInv
    <3>2. \A u \in Threads \ {t} : BuildInv(u)'
      BY <1>2, <1>3, <1>8, <2>2 DEF BuildInv, Building, Same, lockVars
    <3>3. QED
      BY <3>1, <3>2
  <2>8. \A u \in Threads : LocalInv(u)'
    <3>1. LocalInv(t)'
      <4>1. why[t] # "top" => src_tb[t] \in Idx /\ Emitted(src_tb[t])
        BY DEF IInv, LocalInv
      <4>2. why[t] = "chain" => Goto[tb_key[src_tb[t]]][slot[t]] = gpc[t]
        BY DEF IInv, LocalInv
      <4>3. QED
        BY <1>5, <2>2, <2>6, <4>1, <4>2 DEF LocalInv, HasDst, StoreGrows, Emitted
    <3>2. QED
      BY <3>1, <2>2, <2>6, OthersLocal DEF IInv
  <2>9. StoreInv'
    <3>1. Building(t)' /\ tb_idx'[t] = i
      BY <1>2, <1>5, <2>2, Zenon DEF Building
    <3>2. \A j \in Idx : j < len => j = i \/ published[j] \/ invalid[j]
      BY <1>2, <1>3, Zenon DEF IInv, StoreInv
    <3>a. len \in 0..MaxTbs
      BY DEF IInv, TypeOK, StoreTypeOK
    <3>3. ~(i >= len)
      BY <1>2, <3>a DEF Idx
    <3>4. \A j \in Idx \ {i} : Emitted(j)' <=> Emitted(j)
      BY <2>3 DEF Emitted
    <3>5. QED
      BY <1>2, <1>5, <3>1, <3>2, <3>3, <3>4, Zenon DEF IInv, StoreInv
  <2>10. CodeInv'
    <3>1. \A j \in Idx : Emitted(j)' => j = i \/ Emitted(j)
      BY <2>3 DEF Emitted
    <3>2. \A j \in Idx : Emitted(j) => /\ CodeGenStart <= host_offset[j]
                                       /\ host_offset[j] < buf_offset
      BY DEF IInv, CodeInv
    <3>3. \A j \in Idx : Emitted(j)' => /\ CodeGenStart <= host_offset'[j]
                                        /\ host_offset'[j] < buf_offset'
      BY <1>6, <1>7, <1>8, <2>3, <3>1, <3>2, ConstantTypes
    <3>4. \A j \in Idx \ {i} : Emitted(j)' => host_offset'[j] # host_offset'[i]
      BY <1>6, <1>7, <2>3, <3>1, <3>2
    <3>5. \A j, k \in Idx \ {i} : Emitted(j)' /\ host_offset'[j] = host_offset'[k] => j = k
      BY <2>3, <3>1 DEF IInv, CodeInv
    <3>6. \A k \in Idx \ {i} : Emitted(i)' => host_offset'[i] # host_offset'[k]
      BY <3>4 DEF Emitted
    <3>7. QED
      <4>1. \A j, k \in Idx : Emitted(j)' /\ host_offset'[j] = host_offset'[k] => j = k
        BY <3>4, <3>5, <3>6
      <4>2. QED
        BY <3>3, <4>1 DEF CodeInv
  <2>11. CacheInv' /\ JumpInv'
    BY <1>5, <2>6, CachesKept, JumpsKept DEF chainVars
  <2>12. UniqueTranslation'
    BY <1>5 DEF IInv, UniqueTranslation
  <2>13. QED
    BY <2>5, <2>7, <2>8, <2>9, <2>10, <2>11, <2>12 DEF IInv
<1>9. CASE Goes(t, "panic") /\ translate_lock' = NoThread /\ poisoned' = TRUE
           /\ buf_offset' = BufSize /\ UNCHANGED host_offset
  <2>1. "panic" \in Locations
    BY DEF Locations, Stopped
  <2>2. LocalTypeOK' /\ loc'[t] = "panic" /\ \A u \in Threads \ {t} : Same(u)
    BY <1>5, <1>9, <2>1, GoesFacts DEF IInv, TypeOK
  <2>3. LockTypeOK'
    BY <1>9, ConstantTypes DEF LockTypeOK
  <2>4. TypeOK'
    BY <1>5, <1>9, <2>2, <2>3 DEF IInv, TypeOK, StoreTypeOK, ChainTypeOK, CpuTypeOK, chainVars
  <2>5. StoreGrows
    BY <1>5, <1>9, Zenon DEF StoreGrows
  <2>6. \A u \in Threads : BuildInv(u)'
    BY <1>3, <1>9, <2>2, ConstantTypes, Zenon DEF BuildInv, Building, Same
  <2>7. \A u \in Threads : LocalInv(u)'
    <3>1. LocalInv(t)'
      BY <1>5, <1>9, <2>2, Zenon DEF IInv, LocalInv, HasDst, Emitted
    <3>2. QED
      BY <3>1, <2>2, <2>5, OthersLocal DEF IInv
  <2>8. StoreInv'
    BY <1>5, <1>9 DEF IInv, StoreInv, Emitted
  <2>9. CodeInv'
    <3>1. \A j \in Idx : Emitted(j) => /\ CodeGenStart <= host_offset[j]
                                       /\ host_offset[j] < BufSize
      BY <1>6, <1>7, ConstantTypes DEF IInv, CodeInv
    <3>2. QED
      BY <1>9, <3>1 DEF IInv, CodeInv, Emitted
  <2>10. CacheInv' /\ JumpInv' /\ UniqueTranslation'
    <3>1. UniqueTranslation'
      BY <1>5 DEF IInv, UniqueTranslation
    <3>2. QED
      BY <1>5, <2>5, <3>1, CachesKept, JumpsKept, Zenon DEF chainVars
  <2>11. QED
    BY <2>4, <2>6, <2>7, <2>8, <2>9, <2>10 DEF IInv
<1>10. QED
  BY <1>4, <1>8, <1>9, Zenon

\* TbStore::insert keeps IInv: the TB it publishes is finished.
LEMMA InsertStep ==
    ASSUME IInv, NEW t \in Threads, tb_gen_code_insert(t) PROVE IInv'
<1>1. loc[t] = "insert" /\ Building(t)
  BY Zenon DEF tb_gen_code_insert, Building
<1>2. PICK i \in Idx :
        /\ i = tb_idx[t] /\ i = len - 1 /\ tb_key[i] = gpc[t] /\ ~published[i]
        /\ Emitted(i) /\ ~poisoned /\ translate_lock = t
  BY <1>1 DEF IInv, BuildInv
<1>3. \A u \in Threads \ {t} : ~Building(u)
  BY <1>1, OneBuilder
<1>4. /\ published' = [published EXCEPT ![i] = TRUE]
      /\ JcInsert(t, i) /\ translate_lock' = NoThread /\ Found(t, i)
      /\ UNCHANGED <<len, tb_key, host_offset, invalid, chainVars, buf_offset, poisoned, gpc>>
  BY <1>2 DEF tb_gen_code_insert
<1>5. published'[i] /\ \A j \in Idx \ {i} : published'[j] = published[j]
  BY <1>2, <1>4, Zenon DEF IInv, TypeOK, StoreTypeOK
<1>6. StoreGrows /\ Emitted(i)'
  BY <1>2, <1>4 DEF StoreGrows, Emitted
<1>7. CpuTypeOK' /\ CacheInv'
  BY <1>2, <1>4, <1>6, JcInsertFacts DEF chainVars
<1>8. /\ LocalTypeOK'
      /\ \A u \in Threads \ {t} : Same(u)
      /\ \/ loc'[t] = "exec" /\ why'[t] = "top" /\ at'[t] = host_offset[i]
         \/ /\ loc'[t] \in {"add_jump", "set_target"}
            /\ loc'[t] = "add_jump" => why[t] = "chain"
            /\ loc'[t] = "set_target" => why[t] = "nochain"
            /\ tb_idx'[t] = i
            /\ why'[t] = why[t] /\ src_tb'[t] = src_tb[t] /\ slot'[t] = slot[t]
  BY <1>2, <1>4, FoundFacts, Zenon DEF IInv, TypeOK
<1>9. TypeOK'
  <2>1. StoreTypeOK' /\ LockTypeOK'
    BY <1>2, <1>4, Zenon DEF IInv, TypeOK, StoreTypeOK, LockTypeOK
  <2>2. QED
    BY <1>4, <1>7, <1>8, <2>1, Zenon DEF IInv, TypeOK, ChainTypeOK, chainVars
<1>10. ~Building(t)'
  BY <1>8, Zenon DEF Building
<1>11. \A u \in Threads : BuildInv(u)'
  BY <1>3, <1>4, <1>8, <1>10, ConstantTypes, Zenon DEF BuildInv, Building, Same
<1>12. \A u \in Threads : LocalInv(u)'
  <2>1. LocalInv(t)'
    <3>1. CASE loc'[t] = "exec" /\ why'[t] = "top" /\ at'[t] = host_offset[i]
      <4>1. Emitted(i)' /\ host_offset'[i] = at'[t] /\ tb_key'[i] = gpc'[t]
        BY <1>2, <1>4, <1>6, <3>1
      <4>2. QED
        BY <1>2, <3>1, <4>1 DEF LocalInv, HasDst
    <3>2. CASE /\ loc'[t] \in {"add_jump", "set_target"}
               /\ loc'[t] = "add_jump" => why[t] = "chain"
               /\ loc'[t] = "set_target" => why[t] = "nochain"
               /\ tb_idx'[t] = i
               /\ why'[t] = why[t] /\ src_tb'[t] = src_tb[t] /\ slot'[t] = slot[t]
      <4>1. Emitted(tb_idx[t])' /\ tb_key'[tb_idx'[t]] = gpc'[t]
        BY <1>2, <1>4, <3>2 DEF Emitted
      <4>2. /\ why'[t] # "top" => src_tb'[t] \in Idx /\ Emitted(src_tb[t])'
            /\ why'[t] = "chain" => Goto[tb_key'[src_tb'[t]]][slot'[t]] = gpc'[t]
        BY <1>4, <3>2, Zenon DEF IInv, LocalInv, Emitted
      <4>3. QED
        BY <1>2, <3>2, <4>1, <4>2 DEF LocalInv
    <3>3. QED
      BY <1>8, <3>1, <3>2
  <2>2. QED
    BY <2>1, <1>6, <1>8, OthersLocal, Zenon DEF IInv
<1>13. StoreInv'
  <2>1. \A j \in Idx : j < len => j = i \/ published[j] \/ invalid[j]
    BY <1>2, <1>3, Zenon DEF IInv, StoreInv
  <2>2. ~(i >= len)
    BY <1>2 DEF Idx, IInv, TypeOK, StoreTypeOK
  <2>3. \A j \in Idx : Emitted(j)' <=> Emitted(j)
    BY <1>4 DEF Emitted
  <2>4. QED
    BY <1>2, <1>4, <1>5, <2>1, <2>2, <2>3, Zenon DEF IInv, StoreInv
<1>14. CodeInv' /\ UniqueTranslation'
  BY <1>4 DEF IInv, CodeInv, UniqueTranslation, Emitted
<1>15. JumpInv'
  BY <1>4, <1>6, JumpsKept, Zenon DEF chainVars
<1>16. QED
  BY <1>7, <1>9, <1>11, <1>12, <1>13, <1>14, <1>15 DEF IInv

=============================================================================
