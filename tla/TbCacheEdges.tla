------------------------------ MODULE TbCacheEdges --------------------------
(***************************************************************************)
(* Jumps, jmp_dest and the jmp_lists agree, and no edge is pushed twice:   *)
(* the proofs.                                                             *)
(***************************************************************************)
EXTENDS TbCacheProofs

-----------------------------------------------------------------------------
(* What a step of thread t leaves alone. *)

\* Finished TBs keep their position and their code, and no vCPU invalidates.
LEMMA ThreadStore ==
    ASSUME IInv, NEW t \in Threads, ThreadStep(t)
    PROVE  StoreGrows /\ UNCHANGED invalid
<1>1. CASE tb_gen_code_alloc(t)
  <2>1. \/ UNCHANGED tb_key
        \/ ~StoreFull /\ tb_key' = [tb_key EXCEPT ![len] = gpc[t]]
    BY <1>1 DEF tb_gen_code_alloc, alloc
  <2>2. ~StoreFull => len \in Idx /\ ~Emitted(len)
    BY ConstantTypes DEF IInv, TypeOK, StoreTypeOK, StoreInv, StoreFull, Idx
  <2>3. \A i \in Idx : Emitted(i) => tb_key'[i] = tb_key[i]
    BY <2>1, <2>2 DEF IInv, TypeOK, StoreTypeOK
  <2>4. QED
    BY <1>1, <2>3 DEF tb_gen_code_alloc, StoreGrows
<1>2. CASE tb_gen_code_translate(t)
  <2>1. \/ UNCHANGED host_offset
        \/ host_offset' = [host_offset EXCEPT ![tb_idx[t]] = buf_offset]
    BY <1>2 DEF tb_gen_code_translate
  <2>2. ~Emitted(tb_idx[t])
    BY <1>2 DEF tb_gen_code_translate, IInv, BuildInv, Building
  <2>3. \A i \in Idx : Emitted(i) => host_offset'[i] = host_offset[i]
    BY <2>1, <2>2 DEF IInv, TypeOK, StoreTypeOK
  <2>4. QED
    BY <1>2, <2>3 DEF tb_gen_code_translate, StoreGrows
<1>3. CASE UNCHANGED <<tb_key, host_offset, invalid>>
  BY <1>3 DEF StoreGrows
<1>4. ASSUME ~tb_gen_code_alloc(t), ~tb_gen_code_translate(t)
      PROVE  UNCHANGED <<tb_key, host_offset, invalid>>
  <2>1. CASE \/ tb_find_jump_cache(t) \/ tb_find_hash(t) \/ tb_gen_code_check(t)
             \/ tb_gen_code_poisoned(t) \/ tb_gen_code_recheck(t) \/ tb_gen_code_insert(t)
    BY <2>1 DEF tb_find_jump_cache, tb_find_hash, tb_gen_code_check, tb_gen_code_poisoned,
                tb_gen_code_recheck, tb_gen_code_insert, storeVars
  <2>2. CASE \/ exec_goto_tb(t) \/ exec_indirect(t) \/ exec_trap(t) \/ caller_resume(t)
             \/ exit_target_check(t) \/ exit_target_store(t)
    BY <2>2 DEF exec_goto_tb, exec_indirect, exec_trap, caller_resume,
                exit_target_check, exit_target_store, storeVars
  <2>3. CASE \/ tb_add_jump_check(t) \/ tb_add_jump_lock_src(t) \/ tb_add_jump_patch(t)
             \/ tb_add_jump_push(t)
    BY <2>3 DEF tb_add_jump_check, tb_add_jump_lock_src, tb_add_jump_patch,
                tb_add_jump_push, storeVars
  <2>4. QED
    BY <1>4, <2>1, <2>2, <2>3, Zenon DEF ThreadStep
<1>5. QED
  BY <1>1, <1>2, <1>3, <1>4, Zenon

\* Of the steps of a thread, three have to do with edges.
LEMMA ThreadChain ==
    ASSUME TypeOK, NEW t \in Threads, ThreadStep(t),
           loc[t] \notin {"lock_src", "patch", "lock_dst"}
    PROVE  /\ UNCHANGED <<jmp_dest, jmp_list, jmp_lock, host_jmp>>
           /\ loc'[t] \notin {"patch", "lock_dst"}
<1> USE DEF chainVars
<1>0. \A l : Goes(t, l) => loc'[t] = l
  BY DEF Goes, TypeOK, LocalTypeOK
<1>1. \A i : Enter(t, i) => loc'[t] = "exec"
  BY <1>0 DEF Enter
<1>2. \A i : Found(t, i) => loc'[t] \in {"exec", "add_jump", "set_target"}
  BY <1>0, <1>1 DEF Found
<1>3. \A i, v : exit_tb(t, i, v) => loc'[t] \in {"find", "get_target", "trap"}
  BY <1>0, Zenon DEF exit_tb
<1>4. CASE \/ tb_find_jump_cache(t) \/ tb_find_hash(t) \/ tb_gen_code_recheck(t)
           \/ tb_gen_code_insert(t)
  BY <1>0, <1>2, <1>4 DEF tb_find_jump_cache, tb_find_hash, tb_gen_code_recheck,
                          tb_gen_code_insert
<1>5. CASE \/ tb_gen_code_check(t) \/ tb_gen_code_poisoned(t)
           \/ tb_gen_code_alloc(t) \/ tb_gen_code_translate(t)
  BY <1>0, <1>5 DEF tb_gen_code_check, tb_gen_code_poisoned, tb_gen_code_alloc, alloc,
                    tb_gen_code_translate
<1>6. CASE exec_goto_tb(t) \/ exec_indirect(t) \/ exec_trap(t)
  <2>1. UNCHANGED <<jmp_dest, jmp_list, jmp_lock, host_jmp>>
    BY <1>6 DEF exec_goto_tb, exec_indirect, exec_trap
  <2>2. loc'[t] \in {"exec", "find", "get_target", "trap"}
    BY <1>3, <1>6, Zenon DEF exec_goto_tb, exec_indirect, exec_trap
  <2>3. QED
    BY <2>1, <2>2
<1>7. CASE caller_resume(t) \/ exit_target_check(t) \/ exit_target_store(t)
  BY <1>0, <1>1, <1>7 DEF caller_resume, exit_target_check, exit_target_store
<1>8. CASE tb_add_jump_check(t)
  BY <1>0, <1>1, <1>8 DEF tb_add_jump_check
<1>9. CASE tb_add_jump_lock_src(t) \/ tb_add_jump_patch(t) \/ tb_add_jump_push(t)
  BY <1>9 DEF tb_add_jump_lock_src, tb_add_jump_patch, tb_add_jump_push
<1>10. QED
  BY <1>4, <1>5, <1>6, <1>7, <1>8, <1>9, Zenon DEF ThreadStep

-----------------------------------------------------------------------------
(* The TBs a thread deals with stay valid while nothing is invalidated, and  *)
(* a thread moves only itself.                                               *)

\* A thread that does not move keeps its valid TBs.
LEMMA OthersValid ==
    ASSUME IInv, StoreGrows, UNCHANGED invalid, NEW u \in Threads, Same(u), ValidInv(u)
    PROVE  ValidInv(u)'
<1> SUFFICES ASSUME loc[u] \notin Stopped
             PROVE  /\ why[u] # "top" => ~invalid[src_tb[u]]
                    /\ HasDst(u) => ~invalid[tb_idx[u]]
                    /\ loc[u] = "exec" =>
                          \E i \in Idx : Emitted(i)' /\ host_offset'[i] = at[u] /\ ~invalid[i]
  BY Zenon DEF ValidInv, HasDst, Same
<1>1. loc[u] = "exec" => \E i \in Idx : Emitted(i) /\ host_offset[i] = at[u] /\ ~invalid[i]
  BY DEF ValidInv
<1>2. \A i \in Idx : Emitted(i) => Emitted(i)' /\ host_offset'[i] = host_offset[i]
  BY DEF StoreGrows, Emitted
<1>3. QED
  BY <1>1, <1>2 DEF ValidInv

\* Thread t enters a valid TB.
LEMMA EnterValid ==
    ASSUME IInv, NEW t \in Threads, NEW i \in Idx, Emitted(i), ~invalid[i], Enter(t, i),
           UNCHANGED <<host_offset, invalid, gpc>>
    PROVE  ValidInv(t)' /\ \A u \in Threads \ {t} : Same(u)
<1>1. /\ loc'[t] = "exec" /\ why'[t] = "top" /\ at'[t] = host_offset[i]
      /\ \A u \in Threads \ {t} : Same(u)
  BY EnterFacts DEF IInv, TypeOK
<1>2. Emitted(i)' /\ host_offset'[i] = at'[t] /\ ~invalid'[i]
  BY <1>1 DEF Emitted
<1>3. ValidInv(t)'
  BY <1>1, <1>2 DEF ValidInv, HasDst
<1>4. QED
  BY <1>1, <1>3

\* Thread t finds a valid TB.
LEMMA FoundValid ==
    ASSUME IInv, NEW t \in Threads, ValidInv(t), loc[t] \notin Stopped,
           NEW i \in Idx, Emitted(i), ~invalid[i], Found(t, i),
           UNCHANGED <<host_offset, invalid, gpc>>
    PROVE  ValidInv(t)' /\ \A u \in Threads \ {t} : Same(u)
<1>1. CASE Enter(t, i)
  BY <1>1, EnterValid, Zenon
<1>2. CASE ~Enter(t, i)
  <2>1. /\ Goes(t, IF why[t] = "chain" THEN "add_jump" ELSE "set_target")
        /\ tb_idx' = [tb_idx EXCEPT ![t] = i]
        /\ UNCHANGED <<at, why, src_tb, slot>>
    BY <1>2 DEF Found
  <2>2. loc'[t] \in {"add_jump", "set_target"} /\ tb_idx'[t] = i
    BY <2>1 DEF Goes, IInv, TypeOK, LocalTypeOK
  <2>3. \A u \in Threads \ {t} : Same(u)
    BY <2>1 DEF Goes, IInv, TypeOK, LocalTypeOK, Same
  <2>4. ~invalid'[tb_idx'[t]] /\ loc'[t] # "exec"
    BY <2>2
  <2>5. why'[t] # "top" => ~invalid'[src_tb'[t]]
    BY <2>1 DEF ValidInv
  <2>6. QED
    BY <2>3, <2>4, <2>5 DEF ValidInv
<1>3. QED
  BY <1>1, <1>2

\* Thread t goes somewhere else with the TBs it has.
LEMMA GoesValid ==
    ASSUME IInv, NEW t \in Threads, ValidInv(t), loc[t] \notin Stopped,
           NEW l \in Locations, l # "exec", Goes(t, l),
           l \in {"set_target", "add_jump", "lock_src", "patch", "lock_dst"} => HasDst(t),
           UNCHANGED <<invalid, why, tb_idx, src_tb, slot, at>>
    PROVE  /\ ValidInv(t)'
           /\ \A u \in Threads \ {t} : gpc'[u] = gpc[u] => Same(u)
<1>1. loc'[t] = l /\ \A u \in Threads \ {t} : gpc'[u] = gpc[u] => Same(u)
  BY GoesFacts DEF IInv, TypeOK
<1>2. HasDst(t)' => HasDst(t)
  BY <1>1 DEF HasDst
<1>3. ValidInv(t)'
  BY <1>1, <1>2, Zenon DEF ValidInv
<1>4. QED
  BY <1>1, <1>3

\* A hit is valid.
LEMMA HitValid ==
    ASSUME NEW i, NEW k
    PROVE  /\ Hit(i, k) => ~invalid[i]
           /\ i \in lookup(k) => ~invalid[i]
  BY Zenon DEF Hit, Matches, lookup

\* tb_find.
LEMMA FindValid ==
    ASSUME IInv, NEW t \in Threads, ValidInv(t),
           tb_find_jump_cache(t) \/ tb_find_hash(t) \/ tb_gen_code_recheck(t)
    PROVE  ValidInv(t)' /\ \A u \in Threads \ {t} : Same(u)
<1>1. gpc[t] \in Keys /\ JcIndex[gpc[t]] \in JcEntries
  BY ConstantTypes, Zenon DEF IInv, TypeOK, CpuTypeOK
<1>2. /\ loc[t] \in {"find", "lookup", "lock"}
      /\ UNCHANGED <<host_offset, invalid, gpc>>
  BY DEF tb_find_jump_cache, tb_find_hash, tb_gen_code_recheck, storeVars
<1>3. loc[t] \notin Stopped /\ {"lookup", "check_space"} \subseteq Locations
  BY <1>2 DEF Stopped, Locations
<1>4. ASSUME NEW i \in Idx, Emitted(i), ~invalid[i], Found(t, i)
      PROVE  ValidInv(t)' /\ \A u \in Threads \ {t} : Same(u)
  BY <1>2, <1>3, <1>4, FoundValid
<1>5. ASSUME NEW l \in {"lookup", "check_space"}, Goes(t, l),
             UNCHANGED <<why, tb_idx, src_tb, slot, at>>
      PROVE  ValidInv(t)' /\ \A u \in Threads \ {t} : Same(u)
  BY <1>2, <1>3, <1>5, GoesValid
<1>6. CASE tb_find_jump_cache(t)
  <2> DEFINE cached == jump_cache[t][JcIndex[gpc[t]]]
  <2>1. CASE Hit(cached, gpc[t]) /\ Found(t, cached)
    <3>1. cached \in Idx /\ Emitted(cached) /\ ~invalid[cached]
      BY <1>1, <2>1, HitFacts, HitValid
    <3>2. QED
      BY <1>4, <2>1, <3>1, Zenon
  <2>2. CASE Goes(t, "lookup") /\ UNCHANGED <<why, tb_idx, src_tb, slot, at>>
    BY <1>5, <2>2
  <2>3. QED
    BY <1>6, <2>1, <2>2, Zenon DEF tb_find_jump_cache
<1>7. CASE \E i \in lookup(gpc[t]) : Found(t, i)
  <2>1. PICK i \in lookup(gpc[t]) : Found(t, i)
    BY <1>7
  <2>2. i \in Idx /\ Emitted(i) /\ ~invalid[i]
    BY <1>1, HitFacts, HitValid
  <2>3. QED
    BY <1>4, <2>1, <2>2, Zenon
<1>8. CASE tb_find_hash(t)
  BY <1>5, <1>7, <1>8, Zenon DEF tb_find_hash
<1>9. CASE tb_gen_code_recheck(t)
  BY <1>7, <1>9, Zenon DEF tb_gen_code_recheck
<1>10. QED
  BY <1>6, <1>8, <1>9

\* tb_gen_code.
LEMMA GenCodeValid ==
    ASSUME IInv, NEW t \in Threads, ValidInv(t),
           \/ tb_gen_code_check(t) \/ tb_gen_code_poisoned(t)
           \/ tb_gen_code_alloc(t) \/ tb_gen_code_translate(t) \/ tb_gen_code_insert(t)
    PROVE  ValidInv(t)' /\ \A u \in Threads \ {t} : Same(u)
<1>1. /\ loc[t] \in {"check_space", "lock", "translate", "insert"}
      /\ UNCHANGED <<invalid, gpc>>
  BY DEF tb_gen_code_check, tb_gen_code_poisoned, tb_gen_code_alloc, tb_gen_code_translate,
         tb_gen_code_insert
<1>2. loc[t] \notin Stopped /\ {"lock", "translate", "insert", "full", "panic"} \subseteq Locations
  BY <1>1 DEF Stopped, Locations
<1>3. ASSUME NEW l \in {"lock", "insert", "full", "panic"}, Goes(t, l),
             UNCHANGED <<why, tb_idx, src_tb, slot, at>>
      PROVE  ValidInv(t)' /\ \A u \in Threads \ {t} : Same(u)
  BY <1>1, <1>2, <1>3, GoesValid
<1>4. CASE tb_gen_code_check(t) \/ tb_gen_code_poisoned(t) \/ tb_gen_code_translate(t)
  BY <1>3, <1>4 DEF tb_gen_code_check, tb_gen_code_poisoned, tb_gen_code_translate
<1>5. CASE tb_gen_code_alloc(t)
  <2>1. CASE Goes(t, "panic") /\ UNCHANGED tb_idx
    BY <1>3, <1>5, <2>1 DEF tb_gen_code_alloc
  <2>2. CASE Goes(t, "translate") /\ tb_idx' = [tb_idx EXCEPT ![t] = len]
    <3>1. UNCHANGED <<why, src_tb, slot, at>>
      BY <1>5 DEF tb_gen_code_alloc
    <3>2. loc'[t] = "translate" /\ \A u \in Threads \ {t} : Same(u)
      BY <1>1, <2>2, <3>1 DEF Goes, IInv, TypeOK, LocalTypeOK, Same
    <3>3. ValidInv(t)'
      BY <1>1, <1>2, <3>1, <3>2, Zenon DEF ValidInv, HasDst
    <3>4. QED
      BY <3>2, <3>3
  <2>3. QED
    BY <1>5, <2>1, <2>2 DEF tb_gen_code_alloc, alloc
<1>6. CASE tb_gen_code_insert(t)
  <2>1. PICK i \in Idx : i = tb_idx[t] /\ Emitted(i) /\ ~invalid[i]
    BY <1>6, Zenon DEF tb_gen_code_insert, IInv, BuildInv, Building
  <2>2. Found(t, i) /\ UNCHANGED host_offset
    BY <1>6, <2>1 DEF tb_gen_code_insert
  <2>3. QED
    BY <1>1, <1>2, <2>1, <2>2, FoundValid
<1>7. QED
  BY <1>4, <1>5, <1>6

\* The TB whose code a thread executes is the valid one.
LEMMA ExecutesValid ==
    ASSUME IInv, NEW t \in Threads, ValidInv(t), loc[t] = "exec", NEW i \in CodeAt(at[t])
    PROVE  i \in Idx /\ Emitted(i) /\ ~invalid[i] /\ why[t] = "top" /\ i # None
<1>1. i \in Idx /\ Emitted(i) /\ host_offset[i] = at[t]
  BY ExecFacts
<1>2. PICK j \in Idx : Emitted(j) /\ host_offset[j] = at[t] /\ ~invalid[j]
  BY DEF ValidInv, Stopped
<1>3. i = j
  BY <1>1, <1>2 DEF IInv, CodeInv
<1>4. why[t] = "top"
  BY DEF IInv, LocalInv
<1>5. i # None
  BY <1>1, NotNone
<1>6. QED
  BY <1>1, <1>2, <1>3, <1>4, <1>5, Zenon

\* Leaving the code of a valid TB.
LEMMA ExitValid ==
    ASSUME IInv, NEW t \in Threads, ValidInv(t), loc[t] = "exec", NEW i \in CodeAt(at[t]),
           NEW val \in 0..3, exit_tb(t, i, val),
           \A u \in Threads \ {t} : gpc'[u] = gpc[u],
           UNCHANGED <<invalid, tb_idx, at>>
    PROVE  ValidInv(t)' /\ \A u \in Threads \ {t} : Same(u)
<1>1. i \in Idx /\ ~invalid[i] /\ why[t] = "top" /\ i # None
  BY ExecutesValid
<1>2. \/ /\ Goes(t, "find") \/ Goes(t, "get_target")
         /\ src_tb' = [src_tb EXCEPT ![t] = i]
         /\ slot' = [slot EXCEPT ![t] = val] \/ UNCHANGED slot
         /\ \E w : why' = [why EXCEPT ![t] = w]
      \/ Goes(t, "trap") /\ UNCHANGED <<src_tb, slot, why>>
  BY <1>1, ExitCases, Zenon
<1>3. loc'[t] \in {"find", "get_target", "trap"}
  BY <1>2 DEF Goes, IInv, TypeOK, LocalTypeOK
<1>4. src_tb'[t] = i \/ why'[t] = "top"
  BY <1>1, <1>2 DEF IInv, TypeOK, LocalTypeOK
<1>5. \A u \in Threads \ {t} : Same(u)
  BY <1>2 DEF Goes, IInv, TypeOK, LocalTypeOK, Same
<1>6. ~HasDst(t)' /\ loc'[t] # "exec"
  BY <1>3 DEF HasDst
<1>7. ValidInv(t)'
  BY <1>1, <1>4, <1>6, Zenon DEF ValidInv
<1>8. QED
  BY <1>5, <1>7

\* Executing: a patched jump of a valid TB leads to a valid TB.
LEMMA ExecValid ==
    ASSUME IInv, RecordInv, NEW t \in Threads, ValidInv(t),
           exec_goto_tb(t) \/ exec_indirect(t) \/ exec_trap(t)
    PROVE  ValidInv(t)' /\ \A u \in Threads \ {t} : Same(u)
<1>1. loc[t] = "exec" /\ UNCHANGED <<host_offset, invalid, tb_idx>>
  BY DEF exec_goto_tb, exec_indirect, exec_trap, storeVars
<1>2. \A u \in Threads \ {t} : gpc'[u] = gpc[u]
  <2>1. \E k : gpc' = [gpc EXCEPT ![t] = k]
    BY Zenon DEF exec_goto_tb, exec_indirect, exec_trap
  <2>2. QED
    BY <2>1 DEF IInv, TypeOK, CpuTypeOK
<1>3. ASSUME NEW i \in CodeAt(at[t]), NEW s \in 0..3, exit_tb(t, i, s), UNCHANGED at
      PROVE  ValidInv(t)' /\ \A u \in Threads \ {t} : Same(u)
  BY <1>1, <1>2, <1>3, ExitValid
<1>4. CASE exec_goto_tb(t)
  <2>1. PICK i \in CodeAt(at[t]), s \in Slots :
          \/ /\ host_jmp[i][s] # Reset
             /\ at' = [at EXCEPT ![t] = host_jmp[i][s]]
             /\ UNCHANGED <<loc, why, src_tb, slot>>
          \/ exit_tb(t, i, s) /\ UNCHANGED at
    BY <1>4, Zenon DEF exec_goto_tb
  <2>2. CASE exit_tb(t, i, s) /\ UNCHANGED at
    BY <1>3, <2>2 DEF Slots
  <2>3. CASE /\ host_jmp[i][s] # Reset
             /\ at' = [at EXCEPT ![t] = host_jmp[i][s]]
             /\ UNCHANGED <<loc, why, src_tb, slot>>
    <3>1. i \in Idx /\ ~invalid[i] /\ why[t] = "top"
      BY <1>1, ExecutesValid
    <3>2. Recorded(i, s)
      BY <3>1, Zenon DEF RecordInv
    <3>3. PICK j \in Idx : Emitted(j) /\ ~invalid[j] /\ host_jmp[i][s] = host_offset[j]
      BY <2>3, <3>2, Zenon DEF Recorded
    <3>4. at'[t] = host_offset[j] /\ \A u \in Threads \ {t} : Same(u)
      BY <1>1, <1>2, <2>3, <3>3 DEF IInv, TypeOK, LocalTypeOK, Same
    <3>5. Emitted(j)' /\ host_offset'[j] = at'[t] /\ ~invalid'[j]
      BY <1>1, <3>3, <3>4 DEF Emitted
    <3>6. ~HasDst(t)' /\ why'[t] = "top"
      BY <1>1, <2>3, <3>1 DEF HasDst
    <3>7. ValidInv(t)'
      BY <3>5, <3>6, Zenon DEF ValidInv
    <3>8. QED
      BY <3>4, <3>7
  <2>4. QED
    BY <2>1, <2>2, <2>3
<1>5. CASE exec_indirect(t) \/ exec_trap(t)
  <2>1. PICK i \in CodeAt(at[t]) : exit_tb(t, i, 2) \/ exit_tb(t, i, 3)
    BY <1>5, Zenon DEF exec_indirect, exec_trap, TB_EXIT_NOCHAIN, EXCP_ECALL
  <2>2. UNCHANGED at
    BY <1>5 DEF exec_indirect, exec_trap
  <2>3. QED
    BY <1>3, <2>1, <2>2
<1>6. QED
  BY <1>4, <1>5

\* Resuming after a trap, and the target cache of indirect exits.
LEMMA TargetValid ==
    ASSUME IInv, NEW t \in Threads, ValidInv(t),
           caller_resume(t) \/ exit_target_check(t) \/ exit_target_store(t)
    PROVE  ValidInv(t)' /\ \A u \in Threads \ {t} : Same(u)
<1>1. /\ loc[t] \in {"trap", "get_target", "set_target"}
      /\ UNCHANGED <<host_offset, invalid>>
  BY DEF caller_resume, exit_target_check, exit_target_store, storeVars
<1>2. loc[t] \notin Stopped /\ {"find", "done"} \subseteq Locations
  BY <1>1 DEF Stopped, Locations
<1>3. CASE caller_resume(t)
  <2>1. \E l \in {"find", "done"} : Goes(t, l)
    BY <1>3 DEF caller_resume
  <2>2. UNCHANGED <<invalid, why, tb_idx, src_tb, slot, at>>
    BY <1>3 DEF caller_resume
  <2>3. UNCHANGED gpc \/ \E k : gpc' = [gpc EXCEPT ![t] = k]
    BY <1>3, Zenon DEF caller_resume
  <2>4. \A u \in Threads \ {t} : gpc'[u] = gpc[u]
    BY <2>3 DEF IInv, TypeOK, CpuTypeOK
  <2>5. QED
    BY <1>2, <2>1, <2>2, <2>4, GoesValid
<1>4. CASE exit_target_check(t)
  <2> DEFINE cached == exit_target[src_tb[t]]
  <2>1. UNCHANGED gpc /\ gpc[t] \in Keys
    BY <1>4 DEF exit_target_check, IInv, TypeOK, CpuTypeOK
  <2>2. src_tb[t] \in Idx
    BY <1>4, Zenon DEF exit_target_check, IInv, LocalInv
  <2>3. CASE Hit(cached, gpc[t]) /\ Enter(t, cached)
    <3>1. cached \in Idx /\ Emitted(cached) /\ ~invalid[cached]
      BY <2>1, <2>2, <2>3, HitFacts, HitValid
    <3>2. QED
      BY <1>1, <2>1, <2>3, <3>1, EnterValid, Zenon
  <2>4. CASE Goes(t, "find") /\ UNCHANGED <<why, tb_idx, src_tb, slot, at>>
    BY <1>1, <1>2, <2>1, <2>4, GoesValid
  <2>5. QED
    BY <1>4, <2>3, <2>4, Zenon DEF exit_target_check
<1>5. CASE exit_target_store(t)
  <2>1. HasDst(t) /\ Enter(t, tb_idx[t]) /\ UNCHANGED gpc
    BY <1>5 DEF exit_target_store, HasDst
  <2>2. PICK i \in Idx : i = tb_idx[t] /\ Emitted(i) /\ ~invalid[i]
    BY <1>2, <2>1, DstFacts, Zenon DEF ValidInv
  <2>3. QED
    BY <1>1, <2>1, <2>2, EnterValid
<1>6. QED
  BY <1>3, <1>4, <1>5

\* tb_add_jump.
LEMMA AddJumpValid ==
    ASSUME IInv, NEW t \in Threads, ValidInv(t),
           \/ tb_add_jump_check(t) \/ tb_add_jump_lock_src(t)
           \/ tb_add_jump_patch(t) \/ tb_add_jump_push(t)
    PROVE  ValidInv(t)' /\ \A u \in Threads \ {t} : Same(u)
<1>1. /\ loc[t] \in {"add_jump", "lock_src", "patch", "lock_dst"}
      /\ UNCHANGED <<host_offset, invalid, gpc>>
  BY DEF tb_add_jump_check, tb_add_jump_lock_src, tb_add_jump_patch, tb_add_jump_push,
         storeVars
<1>2. loc[t] \notin Stopped /\ {"lock_src", "patch", "lock_dst"} \subseteq Locations /\ HasDst(t)
  BY <1>1 DEF Stopped, Locations, HasDst
<1>3. PICK i \in Idx : i = tb_idx[t] /\ Emitted(i) /\ ~invalid[i]
  BY <1>2, DstFacts, Zenon DEF ValidInv
<1>4. CASE Enter(t, tb_idx[t])
  BY <1>1, <1>3, <1>4, EnterValid
<1>5. CASE /\ \E l \in {"lock_src", "patch", "lock_dst"} : Goes(t, l)
           /\ UNCHANGED <<why, tb_idx, src_tb, slot, at>>
  BY <1>1, <1>2, <1>5, GoesValid
<1>6. QED
  BY <1>4, <1>5 DEF tb_add_jump_check, tb_add_jump_lock_src, tb_add_jump_patch,
                    tb_add_jump_push

\* Every step of thread t: it deals with valid TBs again, and the other threads
\* stay where they are.
LEMMA ThreadValid ==
    ASSUME IInv, RecordInv, NEW t \in Threads, ValidInv(t), ThreadStep(t)
    PROVE  ValidInv(t)' /\ \A u \in Threads \ {t} : Same(u)
  BY FindValid, GenCodeValid, ExecValid, TargetValid, AddJumpValid, Zenon DEF ThreadStep

-----------------------------------------------------------------------------
(* ChainInv is kept by the steps of the threads. *)

\* A thread on its way with an edge knows both of its ends.
LEMMA EdgeLocals ==
    ASSUME IInv, NEW t \in Threads, loc[t] \in {"lock_src", "patch", "lock_dst"}
    PROVE  /\ src_tb[t] \in Idx /\ slot[t] \in Slots /\ tb_idx[t] \in Idx
           /\ Emitted(src_tb[t]) /\ Emitted(tb_idx[t])
           /\ tb_key[tb_idx[t]] = Goto[tb_key[src_tb[t]]][slot[t]]
           /\ ValidInv(t) => ~invalid[src_tb[t]] /\ ~invalid[tb_idx[t]]
<1>1. HasDst(t) /\ loc[t] # "set_target" /\ loc[t] \notin Stopped
  BY DEF HasDst, Stopped
<1>2. why[t] # "top"
  BY Zenon DEF IInv, LocalInv
<1>3. ValidInv(t) => ~invalid[src_tb[t]] /\ ~invalid[tb_idx[t]]
  BY <1>1, <1>2, Zenon DEF ValidInv
<1>4. QED
  BY <1>1, <1>3, DstFacts

\* A step of thread t that has nothing to do with edges keeps ChainInv.
LEMMA ChainQuiet ==
    ASSUME IInv, ChainInv, NEW t \in Threads, StoreGrows, ValidInv(t)',
           \A u \in Threads \ {t} : Same(u),
           UNCHANGED <<invalid, jmp_dest, jmp_list, host_jmp>>,
           loc[t] # "lock_dst", loc'[t] # "lock_dst"
    PROVE  ChainInv'
<1>1. \A u \in Threads : ValidInv(u)'
  BY OthersValid DEF ChainInv
<1>2. \A u \in Threads : PushDest(u)'
  BY DEF ChainInv, PushDest, Same
<1>3. \A i, j \in Idx, s \in Slots : ListDest(i, s, j)'
  BY DEF ChainInv, ListDest
<1>4. RecordInv'
  <2> SUFFICES ASSUME NEW i \in Idx, NEW s \in Slots, ~invalid[i]
               PROVE  Recorded(i, s)'
    BY DEF RecordInv
  <2>1. Recorded(i, s)
    BY DEF ChainInv, RecordInv
  <2>2. CASE jmp_dest[i][s] = None /\ host_jmp[i][s] = Reset
    BY <2>2 DEF Recorded
  <2>3. CASE ~(jmp_dest[i][s] = None /\ host_jmp[i][s] = Reset)
    <3>1. PICK j \in Idx : /\ j = jmp_dest[i][s] /\ Emitted(j) /\ ~invalid[j]
                           /\ host_jmp[i][s] = host_offset[j]
                           /\ Registered(i, s, j)
      BY <2>1, <2>3, Zenon DEF Recorded
    <3>2. Emitted(j)' /\ host_offset'[j] = host_offset[j]
      BY <3>1 DEF StoreGrows, Emitted
    <3>3. \A u \in Threads : Pushing(u, i, s, j) => Pushing(u, i, s, j)'
      BY DEF Pushing, Same
    <3>4. Registered(i, s, j)'
      BY <3>1, <3>3 DEF Registered
    <3>5. j = jmp_dest'[i][s] /\ ~invalid'[j] /\ host_jmp'[i][s] = host_offset'[j]
      BY <3>1, <3>2
    <3>6. QED
      BY <3>2, <3>4, <3>5, Zenon DEF Recorded, Emitted, Registered, Pushing
  <2>4. QED
    BY <2>2, <2>3
<1>5. QED
  BY <1>1, <1>2, <1>3, <1>4 DEF ChainInv

\* The slot of a valid TB that thread t wants to link leads nowhere, or to the
\* very TB that t wants to link it to: a position has one valid TB.
LEMMA OneDest ==
    ASSUME IInv, ChainInv, NEW t \in Threads, loc[t] \in {"lock_src", "patch"}
    PROVE  jmp_dest[src_tb[t]][slot[t]] \in {None, tb_idx[t]}
<1>1. PICK i \in Idx, s \in Slots, j \in Idx :
        /\ i = src_tb[t] /\ s = slot[t] /\ j = tb_idx[t]
        /\ Emitted(j) /\ ~invalid[i] /\ ~invalid[j] /\ tb_key[j] = Goto[tb_key[i]][s]
  BY EdgeLocals DEF ChainInv
<1>2. SUFFICES ASSUME jmp_dest[i][s] # None PROVE jmp_dest[i][s] = j
  BY <1>1
<1>3. PICK d \in Idx : /\ d = jmp_dest[i][s] /\ Emitted(d) /\ ~invalid[d]
                       /\ host_jmp[i][s] = host_offset[d]
  BY <1>1, <1>2, Zenon DEF ChainInv, RecordInv, Recorded
<1>4. host_jmp[i][s] # Reset
  <2>1. host_offset[d] \in Nat
    BY DEF IInv, TypeOK, StoreTypeOK
  <2>2. QED
    BY <1>3, <2>1 DEF Reset
<1>5. PICK e \in Idx : /\ Emitted(e) /\ host_jmp[i][s] = host_offset[e]
                       /\ tb_key[e] = Goto[tb_key[i]][s]
  BY <1>4 DEF IInv, JumpInv
<1>6. d = e
  BY <1>3, <1>5 DEF IInv, CodeInv
<1>7. tb_key[d] = tb_key[j]
  BY <1>1, <1>5, <1>6
<1>8. \A k \in Idx : Emitted(k) => k \in 0..(len - 1)
  BY ConstantTypes DEF IInv, StoreInv, Idx, TypeOK, StoreTypeOK
<1>9. QED
  BY <1>1, <1>3, <1>7, <1>8 DEF IInv, UniqueTranslation

\* Patching a jump and recording its destination keeps ChainInv: the thread itself
\* is about to push the edge.
LEMMA PatchChain ==
    ASSUME IInv, ChainInv, NEW t \in Threads, tb_add_jump_patch(t), ValidInv(t)',
           \A u \in Threads \ {t} : Same(u)
    PROVE  ChainInv'
<1>1. loc[t] = "patch"
  BY DEF tb_add_jump_patch
<1>2. PICK i \in Idx, s \in Slots, j \in Idx :
        /\ i = src_tb[t] /\ s = slot[t] /\ j = tb_idx[t]
        /\ Emitted(j) /\ ~invalid[i] /\ ~invalid[j]
  BY <1>1, EdgeLocals DEF ChainInv
<1>3. jmp_dest[i][s] \in {None, j}
  BY <1>1, <1>2, OneDest
<1>4. /\ UNCHANGED <<host_offset, tb_key, invalid, jmp_list, tb_idx, src_tb, slot>>
      /\ host_jmp' = [host_jmp EXCEPT ![i][s] = host_offset[j]]
      /\ jmp_dest' = [jmp_dest EXCEPT ![i][s] = j]
  BY <1>2 DEF tb_add_jump_patch, storeVars
<1>5. /\ jmp_dest'[i][s] = j /\ host_jmp'[i][s] = host_offset[j]
      /\ \A a \in Idx, b \in Slots : ~(a = i /\ b = s) =>
            jmp_dest'[a][b] = jmp_dest[a][b] /\ host_jmp'[a][b] = host_jmp[a][b]
  BY <1>4 DEF IInv, TypeOK, ChainTypeOK
<1>6. loc'[t] = "lock_dst" /\ Pushing(t, i, s, j)'
  BY <1>2, <1>4 DEF tb_add_jump_patch, Goes, IInv, TypeOK, LocalTypeOK, Pushing
<1>7. i # None /\ j # None /\ \A k \in Idx : k # None
  BY NotNone
<1>8. \A u \in Threads : ValidInv(u)'
  <2>1. StoreGrows
    BY <1>4 DEF StoreGrows
  <2>2. QED
    BY <1>4, <2>1, OthersValid DEF ChainInv
<1>9. \A u \in Threads : PushDest(u)'
  <2>1. PushDest(t)'
    BY <1>2, <1>4, <1>5 DEF PushDest
  <2>2. ASSUME NEW u \in Threads \ {t}, loc[u] = "lock_dst"
        PROVE  jmp_dest'[src_tb[u]][slot[u]] = tb_idx[u]
    <3>1. src_tb[u] \in Idx /\ slot[u] \in Slots /\ tb_idx[u] \in Idx
      BY <2>2, EdgeLocals
    <3>2. jmp_dest[src_tb[u]][slot[u]] = tb_idx[u]
      BY <2>2 DEF ChainInv, PushDest
    <3>3. QED
      BY <1>3, <1>5, <1>7, <3>1, <3>2
  <2>3. QED
    BY <1>4, <2>1, <2>2 DEF PushDest, Same
<1>10. \A a, k \in Idx, b \in Slots : ListDest(a, b, k)'
  BY <1>3, <1>4, <1>5, <1>7 DEF ChainInv, ListDest
<1>11. RecordInv'
  <2> SUFFICES ASSUME NEW a \in Idx, NEW b \in Slots, ~invalid[a]
               PROVE  Recorded(a, b)'
    BY <1>4 DEF RecordInv
  <2>1. CASE a = i /\ b = s
    <3>1. Registered(a, b, j)'
      BY <1>6, <2>1 DEF Registered
    <3>2. /\ jmp_dest'[a][b] = j /\ host_offset'[j] # Unset /\ ~invalid'[j]
          /\ host_jmp'[a][b] = host_offset'[j]
      BY <1>2, <1>4, <1>5, <2>1 DEF Emitted
    <3>3. QED
      BY <3>1, <3>2, Zenon DEF Recorded, Emitted, Registered, Pushing
  <2>2. CASE ~(a = i /\ b = s)
    <3>1. /\ Recorded(a, b)
          /\ jmp_dest'[a][b] = jmp_dest[a][b] /\ host_jmp'[a][b] = host_jmp[a][b]
      BY <1>5, <2>2 DEF ChainInv, RecordInv
    <3>2. \A k \in Idx : Registered(a, b, k) => Registered(a, b, k)'
      BY <1>1, <1>4 DEF Registered, Pushing, Same
    <3>3. CASE jmp_dest[a][b] = None /\ host_jmp[a][b] = Reset
      BY <3>1, <3>3 DEF Recorded
    <3>4. CASE ~(jmp_dest[a][b] = None /\ host_jmp[a][b] = Reset)
      <4>1. PICK k \in Idx : /\ k = jmp_dest[a][b] /\ Emitted(k) /\ ~invalid[k]
                             /\ host_jmp[a][b] = host_offset[k]
                             /\ Registered(a, b, k)
        BY <3>1, <3>4, Zenon DEF Recorded
      <4>2. /\ k = jmp_dest'[a][b] /\ host_offset'[k] # Unset /\ ~invalid'[k]
            /\ host_jmp'[a][b] = host_offset'[k] /\ Registered(a, b, k)'
        BY <1>4, <3>1, <3>2, <4>1 DEF Emitted
      <4>3. QED
        BY <4>2, Zenon DEF Recorded, Emitted, Registered, Pushing
    <3>5. QED
      BY <3>3, <3>4
  <2>3. QED
    BY <2>1, <2>2
<1>12. QED
  BY <1>8, <1>9, <1>10, <1>11 DEF ChainInv

\* Pushing the edge keeps ChainInv: it is the one jmp_dest names.
LEMMA PushChain ==
    ASSUME IInv, ChainInv, NEW t \in Threads, tb_add_jump_push(t), ValidInv(t)',
           \A u \in Threads \ {t} : Same(u)
    PROVE  ChainInv'
<1>1. loc[t] = "lock_dst"
  BY DEF tb_add_jump_push
<1>2. PICK i \in Idx, s \in Slots, j \in Idx :
        /\ i = src_tb[t] /\ s = slot[t] /\ j = tb_idx[t] /\ jmp_dest[i][s] = j
  <2>1. src_tb[t] \in Idx /\ slot[t] \in Slots /\ tb_idx[t] \in Idx
    BY <1>1, EdgeLocals
  <2>2. jmp_dest[src_tb[t]][slot[t]] = tb_idx[t]
    BY <1>1 DEF ChainInv, PushDest
  <2>3. QED
    BY <2>1, <2>2
<1>3. /\ jmp_list' = [jmp_list EXCEPT ![j][<<i, s>>] = @ + 1]
      /\ UNCHANGED <<host_offset, tb_key, invalid, jmp_dest, host_jmp>>
  BY <1>2 DEF tb_add_jump_push, storeVars
<1>4. /\ jmp_list'[j][<<i, s>>] > 0
      /\ \A k, a \in Idx, b \in Slots :
            /\ jmp_list[k][<<a, b>>] > 0 => jmp_list'[k][<<a, b>>] > 0
            /\ jmp_list'[k][<<a, b>>] > 0 =>
                  jmp_list[k][<<a, b>>] > 0 \/ (k = j /\ a = i /\ b = s)
  <2>1. jmp_list \in [Idx -> [Edges -> Nat]]
        /\ \A a \in Idx, b \in Slots : <<a, b>> \in Edges
    BY DEF IInv, TypeOK, ChainTypeOK, Edges
  <2>2. jmp_list'[j][<<i, s>>] = jmp_list[j][<<i, s>>] + 1 /\ jmp_list[j][<<i, s>>] \in Nat
    BY <1>3, <2>1
  <2>3. \A k, a \in Idx, b \in Slots :
            (k = j /\ a = i /\ b = s) \/ jmp_list'[k][<<a, b>>] = jmp_list[k][<<a, b>>]
    BY <1>3, <2>1
  <2>4. QED
    BY <2>2, <2>3
<1>5. loc'[t] = "exec"
  BY DEF tb_add_jump_push, Enter, Goes, IInv, TypeOK, LocalTypeOK
<1>6. \A u \in Threads : ValidInv(u)'
  <2>1. StoreGrows
    BY <1>3 DEF StoreGrows
  <2>2. QED
    BY <1>3, <2>1, OthersValid DEF ChainInv
<1>7. \A u \in Threads : PushDest(u)'
  BY <1>3, <1>5 DEF ChainInv, PushDest, Same
<1>8. \A a, k \in Idx, b \in Slots : ListDest(a, b, k)'
  BY <1>2, <1>3, <1>4 DEF ChainInv, ListDest
<1>9. \A a, k \in Idx, b \in Slots : Registered(a, b, k) => Registered(a, b, k)'
  <2> SUFFICES ASSUME NEW a \in Idx, NEW k \in Idx, NEW b \in Slots, Registered(a, b, k)
               PROVE  Registered(a, b, k)'
    OBVIOUS
  <2>1. CASE jmp_list[k][<<a, b>>] > 0
    BY <1>4, <2>1 DEF Registered
  <2>2. CASE \E u \in Threads : Pushing(u, a, b, k)
    <3>1. PICK u \in Threads : Pushing(u, a, b, k)
      BY <2>2
    <3>2. CASE u = t
      BY <1>2, <1>4, <3>1, <3>2 DEF Registered, Pushing
    <3>3. CASE u # t
      BY <3>1, <3>3 DEF Registered, Pushing, Same
    <3>4. QED
      BY <3>2, <3>3
  <2>3. QED
    BY <2>1, <2>2 DEF Registered
<1>10. RecordInv'
  <2> SUFFICES ASSUME NEW a \in Idx, NEW b \in Slots, ~invalid[a]
               PROVE  Recorded(a, b)'
    BY <1>3 DEF RecordInv
  <2>1. Recorded(a, b)
    BY DEF ChainInv, RecordInv
  <2>2. CASE jmp_dest[a][b] = None /\ host_jmp[a][b] = Reset
    BY <1>3, <2>2 DEF Recorded
  <2>3. CASE ~(jmp_dest[a][b] = None /\ host_jmp[a][b] = Reset)
    <3>1. PICK k \in Idx : /\ k = jmp_dest[a][b] /\ Emitted(k) /\ ~invalid[k]
                           /\ host_jmp[a][b] = host_offset[k]
                           /\ Registered(a, b, k)
      BY <2>1, <2>3, Zenon DEF Recorded
    <3>2. /\ k = jmp_dest'[a][b] /\ host_offset'[k] # Unset /\ ~invalid'[k]
          /\ host_jmp'[a][b] = host_offset'[k] /\ Registered(a, b, k)'
      BY <1>3, <1>9, <3>1 DEF Emitted
    <3>3. QED
      BY <3>2, Zenon DEF Recorded, Emitted, Registered, Pushing
  <2>4. QED
    BY <2>2, <2>3
<1>11. QED
  BY <1>6, <1>7, <1>8, <1>10 DEF ChainInv

\* The three steps that have to do with edges are those at the three locations.
LEMMA EdgeSteps ==
    ASSUME NEW t \in Threads, ThreadStep(t)
    PROVE  \/ loc[t] \notin {"lock_src", "patch", "lock_dst"}
           \/ tb_add_jump_lock_src(t) \/ tb_add_jump_patch(t) \/ tb_add_jump_push(t)
  BY DEF ThreadStep, tb_find_jump_cache, tb_find_hash, tb_gen_code_check,
         tb_gen_code_poisoned, tb_gen_code_recheck, tb_gen_code_alloc, tb_gen_code_translate,
         tb_gen_code_insert, exec_goto_tb, exec_indirect, exec_trap, caller_resume,
         exit_target_check, exit_target_store, tb_add_jump_check

\* Every step of a thread keeps ChainInv.
LEMMA ThreadChainInv ==
    ASSUME IInv, ChainInv, NEW t \in Threads, ThreadStep(t)
    PROVE  ChainInv'
<1>1. ValidInv(t)' /\ \A u \in Threads \ {t} : Same(u)
  BY ThreadValid DEF ChainInv
<1>2. StoreGrows /\ UNCHANGED invalid /\ TypeOK
  BY ThreadStore DEF IInv
<1>3. CASE loc[t] \notin {"lock_src", "patch", "lock_dst"}
  <2>1. UNCHANGED <<jmp_dest, jmp_list, host_jmp>> /\ loc'[t] # "lock_dst"
    BY <1>2, <1>3, ThreadChain
  <2>2. QED
    BY <1>1, <1>2, <1>3, <2>1, ChainQuiet
<1>4. CASE tb_add_jump_lock_src(t)
  <2>1. UNCHANGED <<jmp_dest, jmp_list, host_jmp>> /\ loc[t] # "lock_dst"
    BY <1>4 DEF tb_add_jump_lock_src
  <2>2. loc'[t] # "lock_dst"
    BY <1>2, <1>4 DEF tb_add_jump_lock_src, Enter, Goes, TypeOK, LocalTypeOK
  <2>3. QED
    BY <1>1, <1>2, <2>1, <2>2, ChainQuiet
<1>5. QED
  BY <1>1, <1>3, <1>4, EdgeSteps, PatchChain, PushChain

-----------------------------------------------------------------------------
(* EdgeInv is kept too. *)

\* A step that changes neither the jmp_lists nor the threads on their way to one
\* keeps what EdgeInv says of edges.
LEMMA EdgesKept ==
    ASSUME EdgeInv, NEW t \in Threads, \A u \in Threads \ {t} : Same(u),
           UNCHANGED jmp_list, loc'[t] # "lock_dst"
    PROVE  /\ \A i, j \in Idx, s \in Slots : ListedOnce(i, s, j)'
           /\ \A i \in Idx, s \in Slots : PushOnce(i, s)'
<1>1. \A u \in Threads, i \in Idx, s \in Slots : Pushes(u, i, s)' => Pushes(u, i, s)
  BY DEF Pushes, Same
<1>2. \A i, j \in Idx, s \in Slots : ListedOnce(i, s, j)'
  BY <1>1 DEF EdgeInv, ListedOnce
<1>3. \A i \in Idx, s \in Slots : PushOnce(i, s)'
  BY <1>1 DEF EdgeInv, PushOnce
<1>4. QED
  BY <1>2, <1>3

\* Taking the source's lock keeps EdgeInv: the slot leads nowhere.
LEMMA LockSrcEdge ==
    ASSUME IInv, EdgeInv, NEW t \in Threads, tb_add_jump_lock_src(t),
           \A u \in Threads \ {t} : Same(u)
    PROVE  \A u \in Threads : SlotFree(u)'
<1>1. loc[t] = "lock_src" /\ jmp_lock[src_tb[t]] = NoThread /\ UNCHANGED jmp_dest
  BY DEF tb_add_jump_lock_src
<1>2. CASE Enter(t, tb_idx[t]) /\ UNCHANGED jmp_lock
  <2>1. loc'[t] # "patch"
    BY <1>2 DEF Enter, Goes, IInv, TypeOK, LocalTypeOK
  <2>2. QED
    BY <1>1, <1>2, <2>1 DEF EdgeInv, SlotFree, Same
<1>3. CASE /\ jmp_dest[src_tb[t]][slot[t]] # tb_idx[t]
           /\ jmp_lock' = [jmp_lock EXCEPT ![src_tb[t]] = t]
           /\ UNCHANGED <<src_tb, slot>>
  <2>1. jmp_dest[src_tb[t]][slot[t]] = None /\ src_tb[t] \in Idx
    BY <1>1, <1>3, OneDest, EdgeLocals DEF EdgeInv
  <2>2. /\ jmp_lock'[src_tb[t]] = t
        /\ \A k \in Idx \ {src_tb[t]} : jmp_lock'[k] = jmp_lock[k]
    BY <1>3, <2>1 DEF IInv, TypeOK, ChainTypeOK
  <2>3. ASSUME NEW u \in Threads \ {t}, loc[u] = "patch"
        PROVE  jmp_lock'[src_tb[u]] = u /\ jmp_dest[src_tb[u]][slot[u]] = None
    <3>1. jmp_lock[src_tb[u]] = u /\ jmp_dest[src_tb[u]][slot[u]] = None
      BY <2>3 DEF EdgeInv, SlotFree
    <3>2. src_tb[u] \in Idx \ {src_tb[t]}
      BY <2>3, <3>1, <1>1, EdgeLocals, ConstantTypes
    <3>3. QED
      BY <3>1, <3>2, <2>2
  <2>4. QED
    BY <1>1, <1>3, <2>1, <2>2, <2>3 DEF SlotFree, Same
<1>4. QED
  BY <1>2, <1>3, Zenon DEF tb_add_jump_lock_src

\* Patching keeps EdgeInv: the slot led nowhere, so no edge of it exists.
LEMMA PatchEdge ==
    ASSUME IInv, EdgeInv, NEW t \in Threads, tb_add_jump_patch(t),
           \A u \in Threads \ {t} : Same(u)
    PROVE  /\ \A u \in Threads : SlotFree(u)'
           /\ \A a, k \in Idx, b \in Slots : ListedOnce(a, b, k)'
           /\ \A a \in Idx, b \in Slots : PushOnce(a, b)'
<1>1. loc[t] = "patch"
  BY DEF tb_add_jump_patch
<1>2. PICK i \in Idx, s \in Slots, j \in Idx :
        /\ i = src_tb[t] /\ s = slot[t] /\ j = tb_idx[t]
        /\ jmp_lock[i] = t /\ jmp_dest[i][s] = None
  <2>1. src_tb[t] \in Idx /\ slot[t] \in Slots /\ tb_idx[t] \in Idx
    BY <1>1, EdgeLocals
  <2>2. jmp_lock[src_tb[t]] = t /\ jmp_dest[src_tb[t]][slot[t]] = None
    BY <1>1 DEF EdgeInv, SlotFree
  <2>3. QED
    BY <2>1, <2>2
<1>3. /\ jmp_dest' = [jmp_dest EXCEPT ![i][s] = j]
      /\ jmp_lock' = [jmp_lock EXCEPT ![i] = NoThread]
      /\ Goes(t, "lock_dst")
      /\ UNCHANGED <<jmp_list, src_tb, slot>>
  BY <1>2 DEF tb_add_jump_patch
<1>4. loc'[t] = "lock_dst"
  BY <1>3 DEF Goes, IInv, TypeOK, LocalTypeOK
<1>5. \A k \in Idx \ {i} : /\ jmp_lock'[k] = jmp_lock[k]
                           /\ \A b \in Slots : jmp_dest'[k][b] = jmp_dest[k][b]
  BY <1>3 DEF IInv, TypeOK, ChainTypeOK
<1>6. \A u \in Threads : SlotFree(u)'
  <2>1. ASSUME NEW u \in Threads \ {t}, loc[u] = "patch"
        PROVE  jmp_lock'[src_tb[u]] = u /\ jmp_dest'[src_tb[u]][slot[u]] = None
    <3>1. jmp_lock[src_tb[u]] = u /\ jmp_dest[src_tb[u]][slot[u]] = None
      BY <2>1 DEF EdgeInv, SlotFree
    <3>2. src_tb[u] \in Idx \ {i} /\ slot[u] \in Slots
      BY <1>2, <2>1, <3>1, EdgeLocals
    <3>3. QED
      BY <3>1, <3>2, <1>5
  <2>2. QED
    BY <1>3, <1>4, <2>1 DEF SlotFree, Same
<1>7. \A k \in Idx : ~(jmp_list[k][<<i, s>>] > 0)
  <2>1. \A k \in Idx : k # None /\ ~invalid[k] /\ ListDest(i, s, k)
    BY NotNone DEF EdgeInv, NoneInvalid, ChainInv
  <2>2. QED
    BY <1>2, <2>1, Zenon DEF ListDest
<1>8. \A u \in Threads : ~Pushes(u, i, s)
  <2> SUFFICES ASSUME NEW u \in Threads, loc[u] = "lock_dst", src_tb[u] = i, slot[u] = s
               PROVE  FALSE
    BY DEF Pushes
  <2>1. tb_idx[u] \in Idx /\ jmp_dest[i][s] = tb_idx[u]
    BY EdgeLocals DEF EdgeInv, ChainInv, PushDest
  <2>2. QED
    BY <1>2, <2>1, NotNone
<1>9. \A u \in Threads, a \in Idx, b \in Slots :
          Pushes(u, a, b)' => Pushes(u, a, b) \/ (u = t /\ a = i /\ b = s)
  BY <1>2, <1>3 DEF Pushes, Same
<1>10. \A a, k \in Idx, b \in Slots : ListedOnce(a, b, k)'
  BY <1>3, <1>7, <1>9 DEF EdgeInv, ListedOnce
<1>11. \A a \in Idx, b \in Slots : PushOnce(a, b)'
  BY <1>8, <1>9 DEF EdgeInv, PushOnce
<1>12. QED
  BY <1>6, <1>10, <1>11

\* Pushing keeps EdgeInv: the only thread on its way with the edge arrives.
LEMMA PushEdge ==
    ASSUME IInv, EdgeInv, NEW t \in Threads, tb_add_jump_push(t),
           \A u \in Threads \ {t} : Same(u)
    PROVE  /\ \A u \in Threads : SlotFree(u)'
           /\ \A a, k \in Idx, b \in Slots : ListedOnce(a, b, k)'
           /\ \A a \in Idx, b \in Slots : PushOnce(a, b)'
<1>1. loc[t] = "lock_dst" /\ loc'[t] = "exec"
  BY DEF tb_add_jump_push, Enter, Goes, IInv, TypeOK, LocalTypeOK
<1>2. PICK i \in Idx, s \in Slots, j \in Idx :
        i = src_tb[t] /\ s = slot[t] /\ j = tb_idx[t] /\ Pushes(t, i, s)
  BY <1>1, EdgeLocals DEF Pushes
<1>3. /\ jmp_list' = [jmp_list EXCEPT ![j][<<i, s>>] = @ + 1]
      /\ UNCHANGED <<jmp_dest, jmp_lock>>
  BY <1>2 DEF tb_add_jump_push
<1>4. \A u \in Threads : SlotFree(u)'
  BY <1>1, <1>3 DEF EdgeInv, SlotFree, Same
<1>5. \A u \in Threads, a \in Idx, b \in Slots : Pushes(u, a, b)' => u # t /\ Pushes(u, a, b)
  BY <1>1 DEF Pushes, Same
<1>6. \A a \in Idx, b \in Slots : PushOnce(a, b)'
  BY <1>5 DEF EdgeInv, PushOnce
<1>7. \A u \in Threads : ~Pushes(u, i, s)'
  BY <1>2, <1>5 DEF EdgeInv, PushOnce
<1>8. jmp_list'[j][<<i, s>>] = 1
  <2>1. jmp_list \in [Idx -> [Edges -> Nat]] /\ <<i, s>> \in Edges
    BY DEF IInv, TypeOK, ChainTypeOK, Edges
  <2>2. ~(jmp_list[j][<<i, s>>] > 0)
    BY <1>2, Zenon DEF EdgeInv, ListedOnce
  <2>3. jmp_list[j][<<i, s>>] = 0
    BY <2>1, <2>2
  <2>4. QED
    BY <1>3, <2>1, <2>3
<1>9. \A k, a \in Idx, b \in Slots :
          (k = j /\ a = i /\ b = s) \/ jmp_list'[k][<<a, b>>] = jmp_list[k][<<a, b>>]
  BY <1>3 DEF IInv, TypeOK, ChainTypeOK, Edges
<1>10. \A a, k \in Idx, b \in Slots : ListedOnce(a, b, k)'
  <2> SUFFICES ASSUME NEW a \in Idx, NEW k \in Idx, NEW b \in Slots
               PROVE  ListedOnce(a, b, k)'
    OBVIOUS
  <2>1. CASE k = j /\ a = i /\ b = s
    BY <1>7, <1>8, <2>1 DEF ListedOnce
  <2>2. CASE jmp_list'[k][<<a, b>>] = jmp_list[k][<<a, b>>]
    BY <1>5, <2>2, Zenon DEF EdgeInv, ListedOnce
  <2>3. QED
    BY <1>9, <2>1, <2>2
<1>11. QED
  BY <1>4, <1>6, <1>10

\* Every step of a thread keeps EdgeInv.
LEMMA ThreadEdge ==
    ASSUME IInv, EdgeInv, NEW t \in Threads, ThreadStep(t)
    PROVE  EdgeInv'
<1>1. \A u \in Threads \ {t} : Same(u)
  BY ThreadValid DEF EdgeInv, ChainInv
<1>2. NoneInvalid' /\ ChainInv' /\ TypeOK
  BY ThreadStore, ThreadChainInv DEF EdgeInv, NoneInvalid, IInv
<1>3. CASE loc[t] \notin {"lock_src", "patch", "lock_dst"}
  <2>1. /\ UNCHANGED <<jmp_dest, jmp_list, jmp_lock, host_jmp>>
        /\ loc'[t] \notin {"patch", "lock_dst"}
    BY <1>2, <1>3, ThreadChain
  <2>2. \A u \in Threads : SlotFree(u)'
    BY <1>1, <2>1 DEF EdgeInv, SlotFree, Same
  <2>3. QED
    BY <1>1, <1>2, <2>1, <2>2, EdgesKept DEF EdgeInv
<1>4. CASE tb_add_jump_lock_src(t)
  <2>1. UNCHANGED jmp_list
    BY <1>4 DEF tb_add_jump_lock_src
  <2>2. loc'[t] # "lock_dst"
    BY <1>2, <1>4 DEF tb_add_jump_lock_src, Enter, Goes, TypeOK, LocalTypeOK
  <2>3. QED
    BY <1>1, <1>2, <1>4, <2>1, <2>2, EdgesKept, LockSrcEdge DEF EdgeInv
<1>5. CASE tb_add_jump_patch(t)
  BY <1>1, <1>2, <1>5, PatchEdge DEF EdgeInv
<1>6. CASE tb_add_jump_push(t)
  BY <1>1, <1>2, <1>6, PushEdge DEF EdgeInv
<1>7. QED
  BY <1>3, <1>4, <1>5, <1>6, EdgeSteps

-----------------------------------------------------------------------------
(* What follows for the engine without invalidate. *)

\* ChainInv and EdgeInv do not change in a stuttering step.
LEMMA StutterEdge ==
    ASSUME UNCHANGED vars
    PROVE  (ChainInv => ChainInv') /\ (EdgeInv => EdgeInv')
<1>1. UNCHANGED <<host_offset, invalid, jmp_dest, jmp_list, jmp_lock, host_jmp,
                  loc, why, tb_idx, src_tb, slot, at>>
  BY DEF vars, storeVars, chainVars, cpuVars
<1>2. \A t \in Threads : ValidInv(t) /\ PushDest(t) => ValidInv(t)' /\ PushDest(t)'
  BY <1>1, Zenon DEF ValidInv, PushDest, HasDst, Emitted
<1>3. \A i, j \in Idx, s \in Slots :
          Registered(i, s, j) => \/ jmp_list'[j][<<i, s>>] > 0
                                 \/ \E t \in Threads : Pushing(t, i, s, j)'
  BY <1>1 DEF Registered, Pushing
<1>4. RecordInv => RecordInv'
  <2> SUFFICES ASSUME NEW i \in Idx, NEW s \in Slots, Recorded(i, s)
               PROVE  Recorded(i, s)'
    BY <1>1 DEF RecordInv
  <2>1. CASE jmp_dest[i][s] = None /\ host_jmp[i][s] = Reset
    BY <1>1, <2>1 DEF Recorded
  <2>2. CASE ~(jmp_dest[i][s] = None /\ host_jmp[i][s] = Reset)
    <3>1. PICK j \in Idx : /\ j = jmp_dest[i][s] /\ Emitted(j) /\ ~invalid[j]
                           /\ host_jmp[i][s] = host_offset[j]
                           /\ Registered(i, s, j)
      BY <2>2, Zenon DEF Recorded
    <3>2. /\ j = jmp_dest'[i][s] /\ host_offset'[j] # Unset /\ ~invalid'[j]
          /\ host_jmp'[i][s] = host_offset'[j] /\ Registered(i, s, j)'
      BY <1>1, <1>3, <3>1 DEF Emitted, Registered
    <3>3. QED
      BY <3>2, Zenon DEF Recorded, Emitted, Registered, Pushing
  <2>3. QED
    BY <2>1, <2>2
<1>5. \A i, j \in Idx, s \in Slots : ListDest(i, s, j) => ListDest(i, s, j)'
  BY <1>1 DEF ListDest
<1>6. ChainInv => ChainInv'
  BY <1>2, <1>4, <1>5 DEF ChainInv
<1>7. /\ NoneInvalid => NoneInvalid'
      /\ \A t \in Threads : SlotFree(t) => SlotFree(t)'
      /\ \A i, j \in Idx, s \in Slots : ListedOnce(i, s, j) => ListedOnce(i, s, j)'
      /\ \A i \in Idx, s \in Slots : PushOnce(i, s) => PushOnce(i, s)'
  BY <1>1 DEF NoneInvalid, SlotFree, ListedOnce, PushOnce, Pushes
<1>8. QED
  BY <1>6, <1>7 DEF EdgeInv

\* Every step of the engine keeps EdgeInv.
LEMMA NextEdgeInv == IInv /\ EdgeInv /\ [Next]_vars => EdgeInv'
  BY ThreadEdge, StutterEdge DEF Next, Terminated

\* At the start there is no edge.
LEMMA InitEdgeInv == Init => EdgeInv
<1> SUFFICES ASSUME Init PROVE EdgeInv
  OBVIOUS
<1>1. /\ \A i \in Idx : ~invalid[i]
      /\ \A t \in Threads : loc[t] = "find" /\ why[t] = "top"
      /\ \A i \in Idx, s \in Slots : jmp_dest[i][s] = None /\ host_jmp[i][s] = Reset
  BY DEF Init
<1>2. \A i, j \in Idx, s \in Slots : ~(jmp_list[j][<<i, s>>] > 0)
  <2>1. jmp_list = [j \in Idx |-> [e \in Edges |-> 0]]
    BY DEF Init, NoEdges
  <2>2. QED
    BY <2>1 DEF Edges
<1>3. RecordInv
  BY <1>1 DEF RecordInv, Recorded
<1>4. \A t \in Threads : ValidInv(t) /\ PushDest(t) /\ SlotFree(t)
  BY <1>1 DEF ValidInv, PushDest, SlotFree, HasDst
<1>5. \A i, j \in Idx, s \in Slots : ListDest(i, s, j) /\ ListedOnce(i, s, j)
  BY <1>2 DEF ListDest, ListedOnce
<1>6. \A i \in Idx, s \in Slots : PushOnce(i, s)
  BY <1>1 DEF PushOnce, Pushes
<1>7. QED
  BY <1>1, <1>3, <1>4, <1>5, <1>6 DEF EdgeInv, ChainInv, NoneInvalid

\* EdgeInv is an invariant of the engine.
LEMMA EdgeInvariance == Spec => []EdgeInv
  BY InitEdgeInv, NextEdgeInv, Invariance, PTL DEF Spec

\* What is recorded is registered.
LEMMA ChainInvRegistered == IInv /\ EdgeInv => ChainRegistered
<1> SUFFICES ASSUME IInv, EdgeInv, NEW i \in Idx, NEW j \in Idx, NEW s \in Slots,
                    host_jmp[i][s] # Reset, j \in CodeAt(host_jmp[i][s])
             PROVE  jmp_dest[i][s] = j /\ Registered(i, s, j)
  BY DEF ChainRegistered, Registered
<1>1. PICK d \in Idx : /\ d = jmp_dest[i][s] /\ Emitted(d)
                       /\ host_jmp[i][s] = host_offset[d] /\ Registered(i, s, d)
  BY Zenon DEF EdgeInv, NoneInvalid, ChainInv, RecordInv, Recorded
<1>2. d = j
  BY <1>1 DEF CodeAt, IInv, CodeInv
<1>3. QED
  BY <1>1, <1>2

\* Every patched jump can be found by invalidate: jmp_dest names its destination,
\* and its edge is in the destination's jmp_list or its patcher is about to push it
\* (tb_add_jump patches and records under the lock of the source, and pushes under
\* the lock of the destination).
THEOREM ChainRegisteredHolds == Spec => []ChainRegistered
  BY EdgeInvariance, Invariance, ChainInvRegistered, PTL

=============================================================================
