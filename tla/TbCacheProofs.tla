----------------------------- MODULE TbCacheProofs --------------------------
(***************************************************************************)
(* The inductive invariant of TbCache is kept by the steps that execute    *)
(* TBs, cache the targets of indirect exits and chain direct ones, hence   *)
(* by every step; and the theorems that follow from it.                    *)
(***************************************************************************)
EXTENDS TbCacheFacts

-----------------------------------------------------------------------------
(* Executing and chaining. *)

\* In host code, the code at t's offset is that of one finished TB, for the
\* guest position of t.
LEMMA ExecFacts ==
    ASSUME IInv, NEW t \in Threads, loc[t] = "exec", NEW i \in CodeAt(at[t])
    PROVE  i \in Idx /\ Emitted(i) /\ host_offset[i] = at[t] /\ tb_key[i] = gpc[t]
<1>1. PICK j \in Idx : Emitted(j) /\ host_offset[j] = at[t] /\ tb_key[j] = gpc[t]
  BY DEF IInv, LocalInv
<1>2. i \in Idx /\ Emitted(i) /\ host_offset[i] = at[t]
  BY DEF CodeAt, Emitted
<1>3. i = j
  BY <1>1, <1>2 DEF IInv, CodeInv
<1>4. QED
  BY <1>1, <1>2, <1>3

\* Thread t leaves TB i through a chainable exit: it goes to look up the TB of
\* its new position k and remembers i and the slot.
LEMMA ExitChainStep ==
    ASSUME IInv, NEW t \in Threads, loc[t] = "exec", NEW i \in Idx, Emitted(i),
           NEW s \in Slots, NEW k \in Keys, Goto[tb_key[i]][s] = k,
           gpc' = [gpc EXCEPT ![t] = k], exit_tb(t, i, s),
           UNCHANGED <<storeVars, invalid, chainVars, buf_offset, lockVars,
                       jump_cache, tb_idx, at>>
    PROVE  IInv'
<1>1. s \in 0..3 /\ i # None
  BY ExitKinds, NotNone
<1>2. /\ src_tb' = [src_tb EXCEPT ![t] = i]
      /\ slot' = [slot EXCEPT ![t] = s]
      /\ why' = [why EXCEPT ![t] = "chain"]
      /\ Goes(t, "find")
  BY <1>1, ExitCases, ExitKinds, Zenon
<1>3. "find" \in Locations
  BY DEF Locations
<1>4. /\ LocalTypeOK'
      /\ src_tb'[t] = i /\ slot'[t] = s /\ why'[t] = "chain" /\ loc'[t] = "find"
  BY <1>2, <1>3 DEF IInv, TypeOK, LocalTypeOK, Goes
<1>5. CpuTypeOK' /\ gpc'[t] = k
  BY DEF IInv, TypeOK, CpuTypeOK
<1>6. \A u \in Threads \ {t} : Same(u)
  BY <1>2 DEF IInv, TypeOK, LocalTypeOK, CpuTypeOK, Goes, Same
<1>7. TypeOK'
  BY <1>4, <1>5 DEF IInv, TypeOK, StoreTypeOK, ChainTypeOK, LockTypeOK,
                    storeVars, chainVars, lockVars
<1>8. CacheInv'
  BY DEF IInv, CacheInv, Emitted, storeVars, chainVars
<1>9. LocalInv(t)'
  BY <1>4, <1>5 DEF LocalInv, HasDst, Emitted, storeVars
<1>10. ~Building(t) /\ ~Building(t)'
  BY <1>4 DEF Building
<1>11. QED
  BY <1>6, <1>7, <1>8, <1>9, <1>10, QuietStep DEF chainVars

\* A direct exit keeps IInv, whether its jump is patched (the thread is then in the
\* code of a TB for the new position) or leaves the code.
LEMMA ExecGotoStep ==
    ASSUME IInv, NEW t \in Threads, exec_goto_tb(t) PROVE IInv'
<1>1. PICK i \in CodeAt(at[t]), s \in Slots :
       /\ HasJump(i, s)
       /\ gpc' = [gpc EXCEPT ![t] = Goto[tb_key[i]][s]]
       /\ \/ /\ host_jmp[i][s] # Reset
             /\ at' = [at EXCEPT ![t] = host_jmp[i][s]]
             /\ UNCHANGED <<loc, why, src_tb, slot>>
          \/ /\ host_jmp[i][s] = Reset
             /\ exit_tb(t, i, s)
             /\ UNCHANGED at
  BY Zenon DEF exec_goto_tb
<1>2. /\ loc[t] = "exec"
      /\ UNCHANGED <<storeVars, invalid, chainVars, buf_offset, lockVars, jump_cache, tb_idx>>
  BY DEF exec_goto_tb
<1>3. i \in Idx /\ Emitted(i) /\ tb_key[i] \in Keys
  BY <1>2, ExecFacts DEF IInv, TypeOK, CpuTypeOK
<1> DEFINE k == Goto[tb_key[i]][s]
<1>4. k \in Keys
  BY <1>1, <1>3, ConstantTypes DEF HasJump
<1>5. CASE host_jmp[i][s] = Reset /\ exit_tb(t, i, s) /\ UNCHANGED at
  BY <1>1, <1>2, <1>3, <1>4, <1>5, ExitChainStep, Zenon
<1>6. CASE /\ host_jmp[i][s] # Reset
           /\ at' = [at EXCEPT ![t] = host_jmp[i][s]]
           /\ UNCHANGED <<loc, why, src_tb, slot>>
  <2>1. PICK j \in Idx : Emitted(j) /\ host_jmp[i][s] = host_offset[j] /\ tb_key[j] = k
    BY <1>3, <1>6 DEF IInv, JumpInv
  <2> HIDE DEF k
  <2>2. host_offset[j] \in Nat
    BY <2>1 DEF IInv, TypeOK, StoreTypeOK
  <2>3. /\ LocalTypeOK' /\ CpuTypeOK'
        /\ at'[t] = host_offset[j] /\ gpc'[t] = k /\ loc'[t] = "exec" /\ why'[t] = why[t]
        /\ \A u \in Threads \ {t} : Same(u)
    BY <1>1, <1>2, <1>4, <1>6, <2>1, <2>2, Zenon
       DEF IInv, TypeOK, LocalTypeOK, CpuTypeOK, Same, k
  <2>4. TypeOK'
    BY <1>2, <2>3, Zenon DEF IInv, TypeOK, StoreTypeOK, ChainTypeOK, LockTypeOK,
                      storeVars, chainVars, lockVars
  <2>5. CacheInv'
    BY <1>2, Zenon DEF IInv, CacheInv, Emitted, storeVars, chainVars
  <2>6. LocalInv(t)'
    <3>1. why[t] = "top"
      BY <1>2, Zenon DEF IInv, LocalInv
    <3>2. QED
      BY <1>2, <2>1, <2>3, <3>1 DEF LocalInv, HasDst, Emitted, storeVars
  <2>7. ~Building(t) /\ ~Building(t)'
    BY <1>2, <2>3 DEF Building
  <2>8. QED
    BY <1>2, <2>3, <2>4, <2>5, <2>6, <2>7, QuietStep DEF chainVars
<1>7. QED
  BY <1>1, <1>5, <1>6

\* An indirect exit keeps IInv.
LEMMA ExecIndirectStep ==
    ASSUME IInv, NEW t \in Threads, exec_indirect(t) PROVE IInv'
<1>1. PICK i \in CodeAt(at[t]) :
       /\ \E k \in Indirect[tb_key[i]] : gpc' = [gpc EXCEPT ![t] = k]
       /\ exit_tb(t, i, TB_EXIT_NOCHAIN)
  BY Zenon DEF exec_indirect
<1>2. /\ loc[t] = "exec"
      /\ UNCHANGED <<storeVars, invalid, chainVars, buf_offset, lockVars, jump_cache, tb_idx, at>>
  BY Zenon DEF exec_indirect
<1>3. i \in Idx /\ Emitted(i) /\ tb_key[i] \in Keys
  BY <1>2, ExecFacts DEF IInv, TypeOK, CpuTypeOK
<1>4. PICK k \in Keys : gpc' = [gpc EXCEPT ![t] = k]
  BY <1>1, <1>3, ConstantTypes, Zenon
<1>5. i # None /\ exit_tb(t, i, TB_EXIT_NOCHAIN)
  BY <1>1, <1>3, NotNone
<1>6. /\ src_tb' = [src_tb EXCEPT ![t] = i]
      /\ why' = [why EXCEPT ![t] = "nochain"]
      /\ Goes(t, "get_target")
      /\ UNCHANGED slot
  BY <1>3, <1>5, ExitCases, ExitKinds, Zenon
<1>7. "get_target" \in Locations
  BY DEF Locations
<1>8. /\ LocalTypeOK'
      /\ src_tb'[t] = i /\ why'[t] = "nochain" /\ loc'[t] = "get_target"
  BY <1>2, <1>3, <1>6, <1>7 DEF IInv, TypeOK, LocalTypeOK, Goes
<1>9. CpuTypeOK'
  BY <1>2, <1>4, Zenon DEF IInv, TypeOK, CpuTypeOK
<1>10. \A u \in Threads \ {t} : Same(u)
  BY <1>2, <1>4, <1>6 DEF IInv, TypeOK, LocalTypeOK, CpuTypeOK, Goes, Same
<1>11. TypeOK'
  BY <1>2, <1>8, <1>9, Zenon DEF IInv, TypeOK, StoreTypeOK, ChainTypeOK, LockTypeOK,
                          storeVars, chainVars, lockVars
<1>12. CacheInv'
  BY <1>2, Zenon DEF IInv, CacheInv, Emitted, storeVars, chainVars
<1>13. LocalInv(t)'
  BY <1>2, <1>3, <1>8 DEF LocalInv, HasDst, Emitted, storeVars
<1>14. ~Building(t) /\ ~Building(t)'
  BY <1>2, <1>8 DEF Building
<1>15. QED
  BY <1>2, <1>10, <1>11, <1>12, <1>13, <1>14, QuietStep, Zenon DEF chainVars

\* A step to or from the caller, which moves the guest position of t while no
\* exit of t is pending.
LEMMA CallerStep ==
    ASSUME IInv, NEW t \in Threads, loc[t] \in {"exec", "trap"},
           NEW l \in {"trap", "find", "done"}, Goes(t, l),
           NEW k \in Keys, gpc' = [gpc EXCEPT ![t] = k],
           UNCHANGED <<storeVars, invalid, chainVars, buf_offset, lockVars,
                       jump_cache, why, tb_idx, src_tb, slot, at>>
    PROVE  IInv'
<1>1. l \in Locations
  BY DEF Locations, Stopped
<1>2. LocalTypeOK' /\ CpuTypeOK' /\ loc'[t] = l /\ \A u \in Threads \ {t} : Same(u)
  BY <1>1, GoesFacts DEF IInv, TypeOK, CpuTypeOK
<1>3. TypeOK'
  BY <1>2, Zenon DEF IInv, TypeOK, StoreTypeOK, ChainTypeOK, LockTypeOK,
              storeVars, chainVars, lockVars
<1>4. CacheInv'
  BY Zenon DEF IInv, CacheInv, Emitted, storeVars, chainVars
<1>5. LocalInv(t)'
  BY <1>2, Zenon DEF IInv, LocalInv, HasDst, Emitted, storeVars
<1>6. ~Building(t) /\ ~Building(t)'
  BY <1>2, Zenon DEF Building
<1>7. QED
  BY <1>2, <1>3, <1>4, <1>5, <1>6, QuietStep, Zenon DEF chainVars

\* A trap keeps IInv: the thread is in the caller, at the position that trapped.
LEMMA ExecTrapStep ==
    ASSUME IInv, NEW t \in Threads, exec_trap(t) PROVE IInv'
<1>1. PICK i \in CodeAt(at[t]) :
        gpc' = [gpc EXCEPT ![t] = tb_key[i]] /\ exit_tb(t, i, EXCP_ECALL)
  BY Zenon DEF exec_trap
<1>2. loc[t] = "exec"
  BY DEF exec_trap
<1>3. i \in Idx /\ tb_key[i] \in Keys
  BY <1>2, ExecFacts DEF IInv, TypeOK, CpuTypeOK
<1>4. Goes(t, "trap") /\ UNCHANGED <<src_tb, slot, why>>
  BY <1>1, <1>3, ExitCases, ExitKinds, Zenon
<1>5. QED
  BY <1>1, <1>2, <1>3, <1>4, CallerStep, Zenon DEF exec_trap

\* The caller's next call of the loop, or its end, keeps IInv.
LEMMA CallerResumeStep ==
    ASSUME IInv, NEW t \in Threads, caller_resume(t) PROVE IInv'
<1>1. loc[t] = "trap" /\ gpc[t] \in Keys
  BY DEF caller_resume, IInv, TypeOK, CpuTypeOK
<1>2. CASE (\E k \in TrapNext[gpc[t]] : gpc' = [gpc EXCEPT ![t] = k]) /\ Goes(t, "find")
  <2>1. PICK k \in Keys : gpc' = [gpc EXCEPT ![t] = k]
    BY <1>1, <1>2, ConstantTypes, Zenon
  <2>2. QED
    BY <1>1, <1>2, <2>1, CallerStep, Zenon DEF caller_resume
<1>3. CASE Goes(t, "done") /\ UNCHANGED gpc
  <2>1. gpc' = [gpc EXCEPT ![t] = gpc[t]]
    BY <1>3 DEF IInv, TypeOK, CpuTypeOK
  <2>2. QED
    BY <1>1, <1>3, <2>1, CallerStep, Zenon DEF caller_resume
<1>4. QED
  BY <1>2, <1>3 DEF caller_resume

\* The exit_target check of cpu_exec_loop_mt keeps IInv.
LEMMA TargetCheckStep ==
    ASSUME IInv, NEW t \in Threads, exit_target_check(t) PROVE IInv'
<1> DEFINE cached == exit_target[src_tb[t]]
<1>1. /\ loc[t] = "get_target" /\ gpc[t] \in Keys
      /\ src_tb[t] \in Idx /\ why[t] # "top"
  BY Zenon DEF exit_target_check, IInv, TypeOK, CpuTypeOK, LocalInv
<1>2. ~Building(t)
  BY <1>1 DEF Building
<1>3. ChainTypeOK' /\ CpuTypeOK' /\ CacheInv'
  BY CachesSame DEF exit_target_check
<1>4. CASE Hit(cached, gpc[t]) /\ Enter(t, cached)
  <2>1. cached \in Idx /\ Emitted(cached) /\ tb_key[cached] = gpc[t]
    BY <1>1, <1>4, HitFacts, Zenon
  <2>2. QED
    BY <1>2, <1>3, <1>4, <2>1, EnterStep, Zenon DEF exit_target_check, chainVars
<1>5. CASE Goes(t, "find") /\ UNCHANGED <<why, tb_idx, src_tb, slot, at>>
  BY <1>2, <1>5, SearchStep, Zenon DEF exit_target_check
<1>6. QED
  BY <1>4, <1>5 DEF exit_target_check

\* The destination a thread carries from tb_find to the code that uses it.
LEMMA DstFacts ==
    ASSUME IInv, NEW t \in Threads, HasDst(t)
    PROVE  /\ tb_idx[t] \in Idx /\ Emitted(tb_idx[t]) /\ tb_key[tb_idx[t]] = gpc[t]
           /\ src_tb[t] \in Idx /\ Emitted(src_tb[t]) /\ slot[t] \in Slots
           /\ loc[t] # "set_target" => Goto[tb_key[src_tb[t]]][slot[t]] = gpc[t]
           /\ ~Building(t)
<1>1. slot[t] \in Slots
  BY DEF IInv, TypeOK, LocalTypeOK
<1>2. why[t] # "top" /\ (loc[t] # "set_target" => why[t] = "chain") /\ ~Building(t)
  BY Zenon DEF HasDst, IInv, LocalInv, Building
<1>3. QED
  BY <1>1, <1>2, Zenon DEF IInv, LocalInv

\* Storing exit_target keeps IInv: the entry names a finished TB.
LEMMA TargetStoreStep ==
    ASSUME IInv, NEW t \in Threads, exit_target_store(t) PROVE IInv'
<1>1. loc[t] = "set_target" /\ HasDst(t)
  BY DEF exit_target_store, HasDst
<1>2. ChainTypeOK'
  BY <1>1, DstFacts, Zenon DEF exit_target_store, IInv, TypeOK, ChainTypeOK
<1>3. CpuTypeOK'
  BY Zenon DEF exit_target_store, IInv, TypeOK, CpuTypeOK
<1>4. \A j \in Idx : exit_target'[j] = IF j = src_tb[t] THEN tb_idx[t] ELSE exit_target[j]
  BY DEF exit_target_store, IInv, TypeOK, ChainTypeOK
<1>5. CacheInv'
  <2>1. UNCHANGED <<storeVars, jump_cache>>
    BY DEF exit_target_store
  <2>2. \A i \in Idx : Emitted(i)' <=> Emitted(i)
    BY <2>1 DEF Emitted, storeVars
  <2>3. \A i \in Idx : exit_target[i] \in Idx \cup {None}
    BY DEF IInv, TypeOK, ChainTypeOK
  <2>4. tb_idx[t] \in Idx /\ Emitted(tb_idx[t])
    BY <1>1, DstFacts
  <2>5. \A i \in Idx : exit_target'[i] # None => host_offset'[exit_target'[i]] # Unset
    BY <1>4, <2>1, <2>3, <2>4 DEF IInv, CacheInv, Emitted, storeVars
  <2>6. QED
    BY <2>1, <2>5 DEF IInv, CacheInv, Emitted, storeVars
<1>6. QED
  BY <1>1, <1>2, <1>3, <1>5, DstFacts, EnterStep DEF exit_target_store

\* A quiet step from one point of tb_add_jump to the next.
LEMMA AddJumpGoes ==
    ASSUME IInv, NEW t \in Threads, loc[t] \in {"add_jump", "lock_src"},
           NEW l \in {"lock_src", "patch"}, Goes(t, l), ChainTypeOK',
           UNCHANGED <<storeVars, invalid, exit_target, host_jmp, buf_offset,
                       lockVars, gpc, jump_cache, why, tb_idx, src_tb, slot, at>>
    PROVE  IInv'
<1>1. l \in Locations
  BY DEF Locations
<1>2. LocalTypeOK' /\ loc'[t] = l /\ \A u \in Threads \ {t} : Same(u)
  BY <1>1, GoesFacts, Zenon DEF IInv, TypeOK
<1>3. TypeOK'
  BY <1>2, Zenon DEF IInv, TypeOK, StoreTypeOK, LockTypeOK, CpuTypeOK, storeVars, lockVars
<1>4. CacheInv'
  BY Zenon DEF IInv, CacheInv, Emitted, storeVars
<1>5. HasDst(t)
  BY DEF HasDst
<1>6. LocalInv(t)'
  BY <1>2, <1>5, Zenon DEF IInv, LocalInv, HasDst, Emitted, storeVars
<1>7. ~Building(t) /\ ~Building(t)'
  BY <1>2, Zenon DEF Building
<1>8. QED
  BY <1>2, <1>3, <1>4, <1>6, <1>7, QuietStep, Zenon

\* The checks of tb_add_jump that precede any lock keep IInv.
LEMMA AddJumpCheckStep ==
    ASSUME IInv, NEW t \in Threads, tb_add_jump_check(t) PROVE IInv'
<1>1. loc[t] = "add_jump" /\ HasDst(t)
  BY Zenon DEF tb_add_jump_check, HasDst
<1>2. ChainTypeOK' /\ CpuTypeOK' /\ CacheInv'
  BY CachesSame DEF tb_add_jump_check
<1>3. CASE Enter(t, tb_idx[t])
  BY <1>1, <1>2, <1>3, DstFacts, EnterStep, Zenon DEF tb_add_jump_check, chainVars
<1>4. CASE Goes(t, "lock_src") /\ UNCHANGED <<why, tb_idx, src_tb, slot, at>>
  BY <1>1, <1>2, <1>4, AddJumpGoes, Zenon DEF tb_add_jump_check, chainVars
<1>5. QED
  BY <1>3, <1>4, Zenon DEF tb_add_jump_check

\* Locking the source in tb_add_jump, or finding the edge made, keeps IInv.
LEMMA LockSrcStep ==
    ASSUME IInv, NEW t \in Threads, tb_add_jump_lock_src(t) PROVE IInv'
<1>1. loc[t] = "lock_src" /\ HasDst(t)
  BY Zenon DEF tb_add_jump_lock_src, HasDst
<1>2. CpuTypeOK' /\ CacheInv'
  BY Zenon DEF tb_add_jump_lock_src, IInv, TypeOK, CpuTypeOK, CacheInv, Emitted, storeVars
<1>3. CASE Enter(t, tb_idx[t]) /\ UNCHANGED jmp_lock
  <2>1. ChainTypeOK'
    BY <1>3, Zenon DEF tb_add_jump_lock_src, IInv, TypeOK, ChainTypeOK
  <2>2. QED
    BY <1>1, <1>2, <1>3, <2>1, DstFacts, EnterStep, Zenon DEF tb_add_jump_lock_src
<1>4. CASE /\ jmp_lock' = [jmp_lock EXCEPT ![src_tb[t]] = t]
           /\ Goes(t, "patch")
           /\ UNCHANGED <<why, tb_idx, src_tb, slot, at>>
  <2>1. ChainTypeOK'
    BY <1>4, Zenon DEF tb_add_jump_lock_src, IInv, TypeOK, ChainTypeOK
  <2>2. QED
    BY <1>1, <1>4, <2>1, AddJumpGoes, Zenon DEF tb_add_jump_lock_src
<1>5. QED
  BY <1>3, <1>4, Zenon DEF tb_add_jump_lock_src

\* Patching keeps IInv: the slot now leads to a TB for the position it stores.
LEMMA PatchStep ==
    ASSUME IInv, NEW t \in Threads, tb_add_jump_patch(t) PROVE IInv'
<1>1. loc[t] = "patch" /\ HasDst(t)
  BY DEF tb_add_jump_patch, HasDst
<1>2. PICK i \in Idx, s \in Slots, j \in Idx :
        /\ i = src_tb[t] /\ s = slot[t] /\ j = tb_idx[t]
        /\ Emitted(i) /\ Emitted(j) /\ tb_key[j] = Goto[tb_key[i]][s]
        /\ ~Building(t)
  BY <1>1, DstFacts
<1>3. /\ host_jmp' = [host_jmp EXCEPT ![i][s] = host_offset[j]]
      /\ jmp_dest' = [jmp_dest EXCEPT ![i][s] = j]
      /\ jmp_lock' = [jmp_lock EXCEPT ![i] = NoThread]
      /\ Goes(t, "lock_dst")
      /\ UNCHANGED <<storeVars, invalid, exit_target, jmp_list, buf_offset, lockVars,
                     gpc, jump_cache, why, tb_idx, src_tb, slot, at>>
  BY <1>2 DEF tb_add_jump_patch
<1>4. host_offset[j] \in Nat /\ host_offset[j] # Reset /\ j # None
  <2>1. host_offset[j] \in Nat
    BY DEF IInv, TypeOK, StoreTypeOK
  <2>2. QED
    BY <2>1, ConstantTypes DEF Reset, None, Idx
<1>5. "lock_dst" \in Locations
  BY DEF Locations
<1>6. LocalTypeOK' /\ loc'[t] = "lock_dst" /\ \A u \in Threads \ {t} : Same(u)
  BY <1>3, <1>5, GoesFacts DEF IInv, TypeOK
<1>7. ~Building(t)'
  BY <1>6 DEF Building
<1>8. TypeOK'
  <2>1. ChainTypeOK'
    BY <1>2, <1>3, <1>4, Zenon DEF IInv, TypeOK, ChainTypeOK
  <2>2. QED
    BY <1>3, <1>6, <2>1 DEF IInv, TypeOK, StoreTypeOK, LockTypeOK, CpuTypeOK, storeVars, lockVars
<1>9. CacheInv'
  BY <1>3 DEF IInv, CacheInv, Emitted, storeVars
<1>10. LocalInv(t)'
  BY <1>1, <1>3, <1>6, Zenon DEF IInv, LocalInv, HasDst, Emitted, storeVars
<1>11. JumpInv'
  <2>1. \A a \in Idx, b \in Slots :
          host_jmp'[a][b] = IF a = i /\ b = s THEN host_offset[j] ELSE host_jmp[a][b]
    BY <1>2, <1>3, Zenon DEF IInv, TypeOK, ChainTypeOK
  <2> SUFFICES ASSUME NEW a \in Idx, NEW b \in Slots, host_jmp'[a][b] # Reset
               PROVE  /\ Emitted(a)'
                      /\ \E d \in Idx : /\ Emitted(d)'
                                        /\ host_jmp'[a][b] = host_offset'[d]
                                        /\ tb_key'[d] = Goto[tb_key'[a]][b]
    BY DEF JumpInv
  <2>2. CASE a = i /\ b = s
    <3>1. host_jmp'[a][b] = host_offset'[j]
      BY <1>3, <2>1, <2>2 DEF storeVars
    <3>2. Emitted(a)' /\ Emitted(j)' /\ tb_key'[j] = Goto[tb_key'[a]][b]
      BY <1>2, <1>3, <2>2 DEF Emitted, storeVars
    <3> QED  BY <3>1, <3>2, Zenon
  <2>3. CASE ~(a = i /\ b = s)
    <3>1. host_jmp'[a][b] = host_jmp[a][b]
      BY <2>1, <2>3
    <3>2. QED
      BY <1>3, <3>1 DEF IInv, JumpInv, Emitted, storeVars
  <2>4. QED
    BY <2>2, <2>3
<1>12. QED
  BY <1>2, <1>3, <1>6, <1>7, <1>8, <1>9, <1>10, <1>11, StoreKept DEF IInv

\* Pushing the edge keeps IInv, and the thread enters the TB it chained to.
LEMMA PushStep ==
    ASSUME IInv, NEW t \in Threads, tb_add_jump_push(t) PROVE IInv'
<1>1. loc[t] = "lock_dst" /\ HasDst(t)
  BY DEF tb_add_jump_push, HasDst
<1>2. PICK i \in Idx, s \in Slots, j \in Idx :
        /\ i = src_tb[t] /\ s = slot[t] /\ j = tb_idx[t]
        /\ Emitted(j) /\ tb_key[j] = gpc[t] /\ ~Building(t)
  BY <1>1, DstFacts
<1>3. /\ jmp_list' = [jmp_list EXCEPT ![j][<<i, s>>] = @ + 1]
      /\ Enter(t, j)
      /\ UNCHANGED <<storeVars, invalid, exit_target, jmp_dest, jmp_lock, host_jmp,
                     buf_offset, lockVars, gpc, jump_cache>>
  BY <1>2 DEF tb_add_jump_push
<1>4. ChainTypeOK'
  <2>1. jmp_list \in [Idx -> [Edges -> Nat]] /\ <<i, s>> \in Edges
    BY <1>2 DEF IInv, TypeOK, ChainTypeOK, Edges
  <2>2. jmp_list' \in [Idx -> [Edges -> Nat]]
    BY <1>3, <2>1
  <2>3. QED
    BY <1>3, <2>2 DEF IInv, TypeOK, ChainTypeOK
<1>5. CpuTypeOK' /\ CacheInv'
  BY <1>3, Zenon DEF IInv, TypeOK, CpuTypeOK, CacheInv, Emitted, storeVars
<1>6. QED
  BY <1>2, <1>3, <1>4, <1>5, EnterStep, Zenon

\* Every step of a thread keeps IInv: one case per action.
LEMMA ThreadIInv ==
    ASSUME IInv, NEW t \in Threads, ThreadStep(t) PROVE IInv'
  BY FindJumpCacheStep, FindHashStep, CheckStep, PoisonedStep, RecheckStep, AllocStep,
     TranslateStep, InsertStep, ExecGotoStep, ExecIndirectStep, ExecTrapStep,
     CallerResumeStep, TargetCheckStep, TargetStoreStep, AddJumpCheckStep,
     LockSrcStep, PatchStep, PushStep, Zenon DEF ThreadStep
-----------------------------------------------------------------------------
(* The invariant, and the theorems that follow from it. *)

\* The empty store and the idle threads satisfy IInv.
LEMMA InitIInv == Init => IInv
<1> SUFFICES ASSUME Init PROVE IInv
  OBVIOUS
<1> USE ConstantTypes
<1>1. StoreTypeOK
  BY DEF Init, StoreTypeOK, Unset
<1>2. ChainTypeOK
  <2>1. jmp_list \in [Idx -> [Edges -> Nat]]
    BY DEF Init, NoEdges
  <2>2. QED
    BY <2>1 DEF Init, ChainTypeOK
<1>3. LockTypeOK
  <2>1. buf_offset \in CodeGenStart..BufSize
    BY DEF Init
  <2>2. QED
    BY <2>1, Zenon DEF Init, LockTypeOK
<1>4. CpuTypeOK
  BY DEF Init, CpuTypeOK
<1>5. LocalTypeOK
  BY DEF Init, LocalTypeOK, Locations, Slots, Unset
<1>6. StoreInv
  BY DEF Init, StoreInv, Idx, Emitted
<1>7. CodeInv /\ CacheInv
  BY DEF Init, CodeInv, CacheInv, Emitted
<1>8. JumpInv
  BY DEF Init, JumpInv
<1>9. UniqueTranslation
  BY DEF Init, UniqueTranslation
<1>10. \A t \in Threads : BuildInv(t) /\ LocalInv(t)
  BY Zenon DEF Init, BuildInv, Building, LocalInv, HasDst
<1>11. QED
  BY <1>1, <1>2, <1>3, <1>4, <1>5, <1>6, <1>7, <1>8, <1>9, <1>10 DEF IInv, TypeOK

\* IInv depends on the variables of TbCache only.
LEMMA StutterIInv ==
    ASSUME IInv, UNCHANGED vars PROVE IInv'
<1>1. UNCHANGED <<len, tb_key, host_offset, published, invalid, exit_target, jmp_dest,
                  jmp_list, jmp_lock, host_jmp, buf_offset, translate_lock, poisoned,
                  gpc, loc, jump_cache, why, tb_idx, src_tb, slot, at>>
  BY DEF vars, storeVars, chainVars, lockVars, cpuVars
<1>2. TypeOK'
  BY <1>1, Zenon DEF IInv, TypeOK, StoreTypeOK, ChainTypeOK, LockTypeOK, CpuTypeOK, LocalTypeOK
<1>3. StoreGrows
  BY <1>1 DEF StoreGrows
<1>4. JumpInv' /\ CacheInv'
  BY <1>1, <1>3, JumpsKept, CachesKept
<1>5. StoreInv'
  BY <1>1, Zenon DEF IInv, StoreInv, Building, Emitted
<1>6. CodeInv' /\ UniqueTranslation'
  BY <1>1 DEF IInv, CodeInv, UniqueTranslation, Emitted
<1>7. \A t \in Threads : BuildInv(t)'
  BY <1>1, Zenon DEF IInv, BuildInv, Building, Emitted
<1>8. \A t \in Threads : LocalInv(t)'
  BY <1>1, <1>3, OthersLocal DEF IInv, Same
<1>9. QED
  BY <1>2, <1>4, <1>5, <1>6, <1>7, <1>8 DEF IInv

\* Every step of the engine keeps IInv.
LEMMA NextIInv == IInv /\ [Next]_vars => IInv'
  BY ThreadIInv, StutterIInv DEF Next, Terminated

\* IInv is an invariant of the engine, for any number of vCPU threads, any guest
\* program, any capacity of the store and of the code buffer.
THEOREM Invariance == Spec => []IInv
  BY InitIInv, NextIInv, PTL DEF Spec

\* Every variable keeps its type: no thread ever indexes the TB store with an
\* index it does not have, although indices travel through caches, jmp_dest,
\* exit words and hints.
THEOREM TypeCorrect == Spec => []TypeOK
<1>1. IInv => TypeOK
  BY DEF IInv
<1>2. QED
  BY Invariance, <1>1, PTL

\* A guest position has at most one valid TB (tb_gen_code's second lookup).
THEOREM UniqueTranslationHolds == Spec => []UniqueTranslation
<1>1. IInv => UniqueTranslation
  BY DEF IInv
<1>2. QED
  BY Invariance, <1>1, PTL

\* IInv gives ExecutesGuestPc: no two TBs start at the same offset.
LEMMA IInvExecutes == IInv => ExecutesGuestPc
<1> SUFFICES ASSUME IInv, NEW t \in Threads, loc[t] = "exec"
             PROVE  \E i \in Idx : CodeAt(at[t]) = {i} /\ tb_key[i] = gpc[t]
  BY DEF ExecutesGuestPc
<1>1. PICK i \in Idx : Emitted(i) /\ host_offset[i] = at[t] /\ tb_key[i] = gpc[t]
  BY DEF IInv, LocalInv
<1>2. CodeAt(at[t]) = {i}
  BY <1>1 DEF IInv, CodeInv, CodeAt, Emitted
<1>3. QED
  BY <1>1, <1>2

\* A thread in host code is in the code of exactly one TB, for the position of
\* its guest CPU, whichever cache, hint or patched jump led it there.
THEOREM ExecutesGuestPcHolds == Spec => []ExecutesGuestPc
  BY Invariance, IInvExecutes, PTL

\* IInv gives ChainSound: the TB a jump leads to is the one at that offset.
LEMMA IInvChainSound == IInv => ChainSound
  BY DEF IInv, JumpInv, ChainSound, CodeAt, Emitted

\* A patched jump leads to the code of a TB for the position its block stored in
\* the guest pc (tb_add_jump after decode_tb_exit).
THEOREM ChainSoundHolds == Spec => []ChainSound
  BY Invariance, IInvChainSound, PTL

-----------------------------------------------------------------------------
(* TbCache implements GuestExec. *)

\* The locations at which GuestExec sees the vCPU running.
Running == Locations \ (Stopped \cup {"trap"})

\* What the refinement mapping makes of a step of thread t that goes to l.
LEMMA StatusFacts ==
    ASSUME IInv, NEW t \in Threads, NEW l \in Locations, Goes(t, l)
    PROVE  /\ loc[t] \in Running => GuestStatus[t] = "run"
           /\ loc[t] = "trap" => GuestStatus[t] = "trap"
           /\ l \in Running => GuestStatus' = [GuestStatus EXCEPT ![t] = "run"]
           /\ l = "trap" => GuestStatus' = [GuestStatus EXCEPT ![t] = "trap"]
           /\ l \in Stopped => GuestStatus' = [GuestStatus EXCEPT ![t] = "stop"]
           /\ loc[t] \in Running /\ l \in Running => GuestStatus' = GuestStatus
<1>1. loc \in [Threads -> Locations] /\ "trap" \notin Stopped
  BY DEF IInv, TypeOK, LocalTypeOK, Stopped
<1>2. loc'[t] = l /\ \A u \in Threads \ {t} : loc'[u] = loc[u]
  BY <1>1 DEF Goes
<1>3. QED
  BY <1>1, <1>2, Zenon DEF GuestStatus, Running

\* A step inside the engine: the vCPU runs before and after it, at the same
\* guest position.
LEMMA InternalStep ==
    ASSUME IInv, NEW t \in Threads, loc[t] \in Running, NEW l \in Running, Goes(t, l),
           UNCHANGED gpc
    PROVE  UNCHANGED Guest!guestVars
<1>1. l \in Locations
  BY DEF Running
<1>2. QED
  BY <1>1, StatusFacts DEF Guest!guestVars

\* A step that takes the vCPU out of the engine for good.
LEMMA StopStep ==
    ASSUME IInv, NEW t \in Threads, loc[t] \in Running \cup {"trap"},
           NEW l \in Stopped, Goes(t, l), UNCHANGED gpc
    PROVE  Guest!Stop(t)
<1>1. l \in Locations
  BY DEF Locations
<1>2. QED
  BY <1>1, StatusFacts DEF Guest!Stop

\* Found leads to a location inside the engine.
LEMMA FoundRuns ==
    ASSUME NEW t \in Threads, NEW i, Found(t, i)
    PROVE  \E l \in Running : Goes(t, l)
<1>1. {"exec", "add_jump", "set_target"} \subseteq Running
  BY DEF Running, Locations, Stopped
<1>2. CASE Enter(t, i)
  BY <1>1, <1>2 DEF Enter
<1>3. CASE Goes(t, IF why[t] = "chain" THEN "add_jump" ELSE "set_target")
  <2>1. Goes(t, "add_jump") \/ Goes(t, "set_target")
    BY <1>3
  <2>2. QED
    BY <1>1, <2>1
<1>4. QED
  BY <1>2, <1>3 DEF Found

\* The locations of the engine's own steps, all Running.
LEMMA RunningLocations ==
    {"find", "lookup", "check_space", "lock", "translate", "insert", "exec", "get_target",
     "set_target", "add_jump", "lock_src", "patch", "lock_dst"} \subseteq Running
  BY DEF Running, Locations, Stopped

\* The steps that only look for a TB, build it or chain it.
LEMMA SearchRefines ==
    ASSUME IInv, NEW t \in Threads,
           \/ tb_find_jump_cache(t) \/ tb_find_hash(t) \/ tb_gen_code_recheck(t)
           \/ tb_gen_code_insert(t) \/ exit_target_check(t) \/ exit_target_store(t)
           \/ tb_add_jump_check(t) \/ tb_add_jump_lock_src(t) \/ tb_add_jump_patch(t)
           \/ tb_add_jump_push(t)
    PROVE  UNCHANGED Guest!guestVars
<1>1. loc[t] \in Running /\ UNCHANGED gpc
  BY RunningLocations, Zenon DEF tb_find_jump_cache, tb_find_hash, tb_gen_code_recheck, tb_gen_code_insert,
     exit_target_check, exit_target_store, tb_add_jump_check, tb_add_jump_lock_src,
     tb_add_jump_patch, tb_add_jump_push
<1>2. \A i : Enter(t, i) => Goes(t, "exec")
  BY DEF Enter
<1>3. \E l \in Running : Goes(t, l)
  <2>1. CASE tb_find_jump_cache(t)
    BY <2>1, FoundRuns, RunningLocations DEF tb_find_jump_cache
  <2>2. CASE tb_find_hash(t)
    BY <2>2, FoundRuns, RunningLocations DEF tb_find_hash
  <2>3. CASE tb_gen_code_recheck(t) \/ tb_gen_code_insert(t)
    BY <2>3, FoundRuns DEF tb_gen_code_recheck, tb_gen_code_insert
  <2>4. CASE exit_target_check(t) \/ exit_target_store(t)
    BY <1>2, <2>4, RunningLocations DEF exit_target_check, exit_target_store
  <2>5. CASE tb_add_jump_check(t) \/ tb_add_jump_lock_src(t)
    BY <1>2, <2>5, RunningLocations, Zenon DEF tb_add_jump_check, tb_add_jump_lock_src
  <2>6. CASE tb_add_jump_patch(t) \/ tb_add_jump_push(t)
    BY <1>2, <2>6, RunningLocations, Zenon DEF tb_add_jump_patch, tb_add_jump_push
  <2>7. QED
    BY <2>1, <2>2, <2>3, <2>4, <2>5, <2>6
<1>4. QED
  BY <1>1, <1>3, InternalStep

\* The steps of tb_gen_code that may give up.
LEMMA GenCodeRefines ==
    ASSUME IInv, NEW t \in Threads,
           \/ tb_gen_code_check(t) \/ tb_gen_code_poisoned(t)
           \/ tb_gen_code_alloc(t) \/ tb_gen_code_translate(t)
    PROVE  Guest!Stop(t) \/ UNCHANGED Guest!guestVars
<1>1. loc[t] \in Running /\ UNCHANGED gpc
  BY RunningLocations DEF tb_gen_code_check, tb_gen_code_poisoned, tb_gen_code_alloc,
                          tb_gen_code_translate
<1>2. \E l \in {"lock", "translate", "insert", "full", "panic"} : Goes(t, l)
  BY DEF tb_gen_code_check, tb_gen_code_poisoned, tb_gen_code_alloc, alloc, tb_gen_code_translate
<1>3. (\E l \in Running : Goes(t, l)) \/ (\E l \in Stopped : Goes(t, l))
  BY <1>2, RunningLocations DEF Stopped
<1>4. QED
  BY <1>1, <1>3, InternalStep, StopStep

\* A block that ends with a branch, direct or indirect, whether the jump was
\* patched or goes through the loop.
LEMMA BranchRefines ==
    ASSUME IInv, NEW t \in Threads, exec_goto_tb(t) \/ exec_indirect(t)
    PROVE  Guest!Branch(t)
<1>1. loc[t] = "exec" /\ loc[t] \in Running
  BY RunningLocations DEF exec_goto_tb, exec_indirect
<1>2. GuestStatus[t] = "run"
  BY <1>1 DEF GuestStatus, Running
<1>3. \A i \in CodeAt(at[t]) : i \in Idx /\ tb_key[i] = gpc[t] /\ gpc[t] \in Keys
  BY <1>1, ExecFacts DEF IInv, TypeOK, CpuTypeOK
<1>4. CASE exec_goto_tb(t)
  <2>1. PICK i \in CodeAt(at[t]), s \in Slots :
         /\ HasJump(i, s)
         /\ gpc' = [gpc EXCEPT ![t] = Goto[tb_key[i]][s]]
         /\ \/ UNCHANGED loc
            \/ exit_tb(t, i, s)
    BY <1>4, Zenon DEF exec_goto_tb
  <2>2. i \in Idx /\ s \in 0..3 /\ s # TB_EXIT_NOCHAIN /\ s # EXCP_ECALL
    BY <1>3, ExitKinds, Zenon
  <2>3. UNCHANGED loc \/ Goes(t, "find")
    BY <2>1, <2>2, ExitCases, Zenon
  <2>4. UNCHANGED GuestStatus
    <3>1. CASE UNCHANGED loc
      BY <3>1 DEF GuestStatus
    <3>2. CASE Goes(t, "find")
      BY <1>1, <3>2, StatusFacts, RunningLocations DEF Running
    <3>3. QED
      BY <2>3, <3>1, <3>2
  <2>5. Goto[gpc[t]][s] # NoKey
    BY <1>3, <2>1 DEF HasJump
  <2>6. Slots = Guest!Slots
    BY DEF Slots, Guest!Slots
  <2>7. QED
    BY <1>2, <1>3, <2>1, <2>4, <2>5, <2>6, Zenon DEF Guest!Branch
<1>5. CASE exec_indirect(t)
  <2>1. PICK i \in CodeAt(at[t]) :
         /\ \E k \in Indirect[tb_key[i]] : gpc' = [gpc EXCEPT ![t] = k]
         /\ exit_tb(t, i, TB_EXIT_NOCHAIN)
    BY <1>5, Zenon DEF exec_indirect
  <2>2. i \in Idx
    BY <1>3
  <2>3. Goes(t, "get_target")
    BY <2>1, <2>2, ExitCases, ExitKinds, Zenon
  <2>4. UNCHANGED GuestStatus
    BY <1>1, <2>3, StatusFacts, RunningLocations DEF Running
  <2>5. QED
    BY <1>2, <1>3, <2>1, <2>4, Zenon DEF Guest!Branch
<1>6. QED
  BY <1>4, <1>5

\* A trap leaves the vCPU at the position of the block that trapped.
LEMMA TrapRefines ==
    ASSUME IInv, NEW t \in Threads, exec_trap(t)
    PROVE  Guest!Trap(t)
<1>1. loc[t] = "exec" /\ loc[t] \in Running
  BY RunningLocations DEF exec_trap
<1>2. PICK i \in CodeAt(at[t]) :
        /\ TrapNext[tb_key[i]] # {}
        /\ gpc' = [gpc EXCEPT ![t] = tb_key[i]]
        /\ exit_tb(t, i, EXCP_ECALL)
  BY Zenon DEF exec_trap
<1>3. i \in Idx /\ tb_key[i] = gpc[t] /\ gpc \in [Threads -> Keys]
  BY <1>1, ExecFacts DEF IInv, TypeOK, CpuTypeOK
<1>4. UNCHANGED gpc
  BY <1>2, <1>3
<1>5. Goes(t, "trap")
  BY <1>2, <1>3, ExitCases, ExitKinds, Zenon
<1>6. "trap" \in Locations
  BY DEF Locations
<1>7. GuestStatus[t] = "run" /\ GuestStatus' = [GuestStatus EXCEPT ![t] = "trap"]
  BY <1>1, <1>5, <1>6, StatusFacts
<1>8. QED
  BY <1>2, <1>3, <1>4, <1>7 DEF Guest!Trap

\* The caller's next call of the loop is a Resume, its end a Stop.
LEMMA ResumeRefines ==
    ASSUME IInv, NEW t \in Threads, caller_resume(t)
    PROVE  Guest!Resume(t) \/ Guest!Stop(t)
<1>1. loc[t] = "trap"
  BY DEF caller_resume
<1>2. CASE (\E k \in TrapNext[gpc[t]] : gpc' = [gpc EXCEPT ![t] = k]) /\ Goes(t, "find")
  <2>1. "find" \in Locations /\ "find" \in Running
    BY RunningLocations DEF Running
  <2>2. GuestStatus[t] = "trap" /\ GuestStatus' = [GuestStatus EXCEPT ![t] = "run"]
    BY <1>1, <1>2, <2>1, StatusFacts
  <2>3. QED
    BY <1>2, <2>2, Zenon DEF Guest!Resume
<1>3. CASE Goes(t, "done") /\ UNCHANGED gpc
  BY <1>1, <1>3, StopStep DEF Stopped
<1>4. QED
  BY <1>2, <1>3 DEF caller_resume

\* Every step of a thread is a step of GuestExec or a stutter.
LEMMA ThreadRefines ==
    ASSUME IInv, NEW t \in Threads, ThreadStep(t)
    PROVE  [Guest!GuestNext]_(Guest!guestVars)
<1>1. \/ Guest!Branch(t) \/ Guest!Trap(t) \/ Guest!Resume(t) \/ Guest!Stop(t)
      \/ UNCHANGED Guest!guestVars
  BY SearchRefines, GenCodeRefines, BranchRefines, TrapRefines, ResumeRefines DEF ThreadStep
<1>2. QED
  BY <1>1 DEF Guest!GuestNext

\* Every step of the engine is a step of GuestExec or a stutter.
LEMMA NextRefines ==
    ASSUME IInv, [Next]_vars
    PROVE  [Guest!GuestNext]_(Guest!guestVars)
<1>1. CASE UNCHANGED vars
  BY <1>1 DEF vars, cpuVars, GuestStatus, Guest!guestVars
<1>2. CASE \E t \in Threads : ThreadStep(t)
  BY <1>2, ThreadRefines
<1>3. QED
  BY <1>1, <1>2 DEF Next, Terminated

\* In the initial states every vCPU is where GuestExec starts.
LEMMA InitRefines == Init => Guest!GuestInit
  BY DEF Init, Guest!GuestInit, GuestStatus, Stopped

\* The code cache is transparent: with any number of threads, whatever caches,
\* hints and patched jumps a vCPU goes through, it executes the guest program.
THEOREM Refinement == Spec => GuestTransparent
<1>1. IInv /\ [Next]_vars => [Guest!GuestNext]_(Guest!guestVars)
  BY NextRefines
<1>2. QED
  BY <1>1, InitRefines, Invariance, PTL DEF Spec, GuestTransparent, Guest!GuestSpec
=============================================================================
