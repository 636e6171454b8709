------------------------------ MODULE TbCache ------------------------------
(***************************************************************************)
(* The execution engine of tcg-rs (crates exec and core/src/tb.rs): vCPU   *)
(* threads that look a translation block (TB) up in a private jump cache   *)
(* and a shared hash table, translate it when it is missing, run its host  *)
(* code, and patch direct jumps between blocks ("chaining").               *)
(*                                                                         *)
(* One action is one step between two points at which another thread can   *)
(* observe or change shared state.  The critical sections of the hash      *)
(* mutex contain nothing another thread can see half done, and are part of *)
(* one action each.  Relaxed and acquire/release accesses are sequentially *)
(* consistent here: the code runs on x86-64 and every access is to a       *)
(* single word.                                                            *)
(*                                                                         *)
(* A definition named after another one with a suffix (Hit_any_key before  *)
(* Hit) is a wrong version of it, a plausible slip in the code, that a     *)
(* property of the project must notice.  No specification uses it.         *)
(***************************************************************************)
EXTENDS GuestProgram, Integers, Sequences, FiniteSets, Functions

CONSTANTS
    NoThread,       \* "no thread", the owner of a free lock
    JcIndex,        \* JcIndex[k]: the jump cache entry of k (JumpCache::index)
    MaxTbs,         \* MAX_TBS, the capacity of the TB store
    BufSize,        \* size of the code buffer
    CodeGenStart,   \* first offset after the prologue and the epilogue
    MinRemaining,   \* MIN_CODE_BUF_REMAINING
    TbSizes         \* the possible sizes of the host code of a TB

ASSUME EngineConstants ==
    /\ NoThread \notin Threads
    /\ JcIndex \in [Keys -> Nat]
    /\ MaxTbs \in Nat
    /\ BufSize \in Nat /\ CodeGenStart \in Nat /\ MinRemaining \in Nat
    /\ 0 < CodeGenStart /\ CodeGenStart <= BufSize
    /\ TbSizes \subseteq Nat \ {0}

ASSUME FiniteThreads == IsFiniteSet(Threads)

None == -1              \* Option::None and EXIT_TARGET_NONE
Idx == 0..(MaxTbs - 1)
Edges == Idx \X Slots    \* an edge: a TB and the slot it leaves through
NoEdges == [e \in Edges |-> 0]
JcEntries == Range(JcIndex)
Reset == -1             \* a goto_tb jump that falls through to its exit_tb
Unset == 0              \* host_offset of a TB whose code is not emitted yet

VARIABLES
    \* TbStore, one function per field of TranslationBlock
    len,            \* number of allocated TBs
    tb_key,         \* the (pc, flags) of a TB
    host_offset,    \* where its host code starts in the code buffer
    published,      \* whether it is linked into the hash table
    invalid,        \* its invalid flag
    exit_target,    \* its cached target for indirect exits
    jmp_dest,       \* jmp.jmp_dest: the TB each slot is chained to
    jmp_list,       \* jmp.jmp_list: how often it holds each edge.  (The order
                    \* of the Vec only decides whose jump invalidate resets first.)
    jmp_lock,       \* owner of the mutex jmp
    \* CodeBuffer
    buf_offset,     \* the write cursor
    host_jmp,       \* where each goto_tb jump in the buffer leads
    \* SharedState::translate_lock
    translate_lock, \* its owner
    poisoned,       \* whether its owner panicked
    \* per vCPU
    gpc,            \* pc and flags in the guest CPU state
    loc,            \* program counter of the thread
    jump_cache,     \* PerCpuState::jump_cache
    why,            \* which tb_find call of cpu_exec_loop_mt is running
    tb_idx,         \* local variables tb_idx and dst
    src_tb, slot,   \* local variables src_tb and slot
    at              \* host code offset the thread executes

storeVars == <<len, tb_key, host_offset, published>>
chainVars == <<exit_target, jmp_dest, jmp_list, jmp_lock, host_jmp>>
lockVars  == <<translate_lock, poisoned>>
cpuVars   == <<gpc, loc, jump_cache, why, tb_idx, src_tb, slot, at>>
vars == <<storeVars, invalid, chainVars, buf_offset, lockVars, cpuVars>>

Init ==
    /\ len = 0
    /\ tb_key = [i \in Idx |-> NoKey]
    /\ host_offset = [i \in Idx |-> Unset]
    /\ published = [i \in Idx |-> FALSE]
    /\ invalid = [i \in Idx |-> FALSE]
    /\ exit_target = [i \in Idx |-> None]
    /\ jmp_dest = [i \in Idx |-> [s \in Slots |-> None]]
    /\ jmp_list = [i \in Idx |-> NoEdges]
    /\ jmp_lock = [i \in Idx |-> NoThread]
    /\ host_jmp = [i \in Idx |-> [s \in Slots |-> Reset]]
    /\ buf_offset = CodeGenStart
    /\ translate_lock = NoThread
    /\ poisoned = FALSE
    /\ gpc = [t \in Threads |-> InitKey]
    /\ loc = [t \in Threads |-> "find"]
    /\ jump_cache = [t \in Threads |-> [e \in JcEntries |-> None]]
    /\ why = [t \in Threads |-> "top"]
    /\ tb_idx = [t \in Threads |-> None]
    /\ src_tb = [t \in Threads |-> None]
    /\ slot = [t \in Threads |-> 0]
    /\ at = [t \in Threads |-> Unset]

-----------------------------------------------------------------------------
(* tb.rs *)

\* A raw exit value is a 64-bit word, here the pair of its 32-bit halves.
\* Chainable exits carry tb_idx + 1 in the upper half.
encode_tb_exit_unbiased(i, val) == IF val < 3 THEN <<i, val>> ELSE <<0, val>>

encode_tb_exit(i, val) == IF val < 3 THEN <<i + 1, val>> ELSE <<0, val>>

decode_tb_exit_unmarked(raw) == <<None, raw[2] % 4>>

decode_tb_exit(raw) ==
    IF raw[1] # 0 THEN <<raw[1] - 1, raw[2] % 4>> ELSE <<None, raw[2]>>

TB_EXIT_NOCHAIN == 2
EXCP_ECALL == 3

Matches_invalid(i, k) == tb_key[i] = k

\* !tb.invalid && tb.pc == pc && tb.flags == flags
Matches(i, k) == ~invalid[i] /\ tb_key[i] = k

\* A cache entry (jump cache or exit_target) that may be used for k.
Hit_any_key(cached, k) == cached # None /\ ~invalid[cached]

Hit(cached, k) == cached # None /\ Matches(cached, k)

\* TbStore::lookup: the valid TBs of k in the hash table.
lookup(k) == {i \in Idx : published[i] /\ Matches(i, k)}

\* Slot s of TB i has a patchable jump: its host code contains a goto_tb for it.
HasJump(i, s) == host_offset[i] # Unset /\ Goto[tb_key[i]][s] # NoKey

\* The TB whose host code starts at offset off.
CodeAt(off) == {i \in Idx : host_offset[i] # Unset /\ host_offset[i] = off}

-----------------------------------------------------------------------------
(* Steps of a thread.  Goes moves the program counter and nothing else of  *)
(* the thread's locals; Enter starts the host code of TB i (cpu_tb_exec);  *)
(* Found returns TB i from tb_find to the call site that why names.        *)

Goes(t, l) == loc' = [loc EXCEPT ![t] = l]

Enter(t, i) ==
    /\ Goes(t, "exec")
    /\ tb_idx' = [tb_idx EXCEPT ![t] = i]
    /\ at' = [at EXCEPT ![t] = host_offset[i]]
    /\ why' = [why EXCEPT ![t] = "top"]
    /\ src_tb' = [src_tb EXCEPT ![t] = None]
    /\ slot' = [slot EXCEPT ![t] = 0]

Found(t, i) ==
    \/ /\ why[t] = "top"
       /\ Enter(t, i)
    \/ /\ why[t] # "top"
       /\ Goes(t, IF why[t] = "chain" THEN "add_jump" ELSE "set_target")
       /\ tb_idx' = [tb_idx EXCEPT ![t] = i]
       /\ UNCHANGED <<at, why, src_tb, slot>>

JcInsert(t, i) ==
    jump_cache' = [jump_cache EXCEPT ![t][JcIndex[gpc[t]]] = i]

\* tb_find, fast path: the thread's own jump cache.
tb_find_jump_cache(t) ==
    /\ loc[t] = "find"
    /\ LET cached == jump_cache[t][JcIndex[gpc[t]]] IN
       \/ /\ Hit(cached, gpc[t])
          /\ Found(t, cached)
       \/ /\ ~Hit(cached, gpc[t])
          /\ Goes(t, "lookup")
          /\ UNCHANGED <<why, tb_idx, src_tb, slot, at>>
    /\ UNCHANGED <<storeVars, invalid, chainVars, buf_offset, lockVars, gpc, jump_cache>>

\* tb_find, slow path: the hash table.
tb_find_hash(t) ==
    /\ loc[t] = "lookup"
    /\ \/ \E i \in lookup(gpc[t]) : JcInsert(t, i) /\ Found(t, i)
       \/ /\ lookup(gpc[t]) = {}
          /\ Goes(t, "check_space")
          /\ UNCHANGED <<jump_cache, why, tb_idx, src_tb, slot, at>>
    /\ UNCHANGED <<storeVars, invalid, chainVars, buf_offset, lockVars, gpc>>

tb_gen_code_check_retry(t) ==
    /\ loc[t] = "check_space"
    /\ Goes(t, IF BufSize - buf_offset < MinRemaining THEN "find" ELSE "lock")
    /\ UNCHANGED <<storeVars, invalid, chainVars, buf_offset, lockVars,
                   gpc, jump_cache, why, tb_idx, src_tb, slot, at>>

tb_gen_code_check_any(t) ==
    /\ loc[t] = "check_space"
    /\ Goes(t, IF BufSize <= buf_offset THEN "full" ELSE "lock")
    /\ UNCHANGED <<storeVars, invalid, chainVars, buf_offset, lockVars,
                   gpc, jump_cache, why, tb_idx, src_tb, slot, at>>

\* tb_gen_code: the space left is read before translate_lock is taken.  (While
\* another thread emits, the value read lies between its cursor before and after;
\* the comparison comes out as with one of the two.)
tb_gen_code_check(t) ==
    /\ loc[t] = "check_space"
    /\ Goes(t, IF BufSize - buf_offset < MinRemaining THEN "full" ELSE "lock")
    /\ UNCHANGED <<storeVars, invalid, chainVars, buf_offset, lockVars,
                   gpc, jump_cache, why, tb_idx, src_tb, slot, at>>

\* tb_gen_code: translate_lock was poisoned by a panic, and unwrap panics too.
tb_gen_code_poisoned(t) ==
    /\ loc[t] = "lock"
    /\ translate_lock = NoThread
    /\ poisoned
    /\ Goes(t, "panic")
    /\ UNCHANGED <<storeVars, invalid, chainVars, buf_offset, lockVars,
                   gpc, jump_cache, why, tb_idx, src_tb, slot, at>>

\* tb_gen_code: the second lookup, under translate_lock, finds the TB that
\* another thread translated meanwhile; the lock is released on return.
tb_gen_code_recheck(t) ==
    /\ loc[t] = "lock"
    /\ translate_lock = NoThread
    /\ ~poisoned
    /\ \E i \in lookup(gpc[t]) : JcInsert(t, i) /\ Found(t, i)
    /\ UNCHANGED <<storeVars, invalid, chainVars, buf_offset, lockVars, gpc>>

\* The assertion of TbStore::alloc.
StoreFull == len >= MaxTbs

\* TbStore::alloc, which panics and poisons translate_lock when the store is
\* full; otherwise the thread keeps the lock and the new index.
alloc(t) ==
    \/ /\ ~StoreFull
       /\ tb_key' = [tb_key EXCEPT ![len] = gpc[t]]
       /\ tb_idx' = [tb_idx EXCEPT ![t] = len]
       /\ len' = len + 1
       /\ translate_lock' = t
       /\ Goes(t, "translate")
       /\ UNCHANGED poisoned
    \/ /\ StoreFull
       /\ poisoned' = TRUE
       /\ Goes(t, "panic")
       /\ UNCHANGED <<tb_key, tb_idx, len, translate_lock>>

tb_gen_code_alloc_blind(t) ==
    /\ loc[t] = "lock"
    /\ translate_lock = NoThread
    /\ ~poisoned
    /\ alloc(t)
    /\ UNCHANGED <<host_offset, published, invalid, chainVars, buf_offset,
                   gpc, jump_cache, why, src_tb, slot, at>>

\* tb_gen_code: the second lookup finds nothing, and a TB is allocated.
tb_gen_code_alloc(t) ==
    /\ loc[t] = "lock"
    /\ translate_lock = NoThread
    /\ ~poisoned
    /\ lookup(gpc[t]) = {}
    /\ alloc(t)
    /\ UNCHANGED <<host_offset, published, invalid, chainVars, buf_offset,
                   gpc, jump_cache, why, src_tb, slot, at>>

tb_gen_code_translate_unrecorded(t) ==
    /\ loc[t] = "translate"
    /\ \E size \in TbSizes :
       /\ buf_offset + size <= BufSize
       /\ buf_offset' = buf_offset + size
    /\ Goes(t, "insert")
    /\ UNCHANGED <<storeVars, invalid, chainVars, lockVars,
                   gpc, jump_cache, why, tb_idx, src_tb, slot, at>>

tb_gen_code_translate_unchecked(t) ==
    /\ loc[t] = "translate"
    /\ \E size \in TbSizes :
       /\ host_offset' = [host_offset EXCEPT ![tb_idx[t]] = buf_offset]
       /\ buf_offset' = buf_offset + size
    /\ Goes(t, "insert")
    /\ UNCHANGED <<len, tb_key, published, invalid, chainVars, lockVars,
                   gpc, jump_cache, why, tb_idx, src_tb, slot, at>>

\* tb_gen_code: gen_code and translate emit the host code at the write cursor;
\* an emit past the end of the buffer panics and poisons translate_lock, with
\* less than one instruction of the buffer left.
tb_gen_code_translate(t) ==
    /\ loc[t] = "translate"
    /\ \E size \in TbSizes :
       \/ /\ buf_offset + size <= BufSize
          /\ host_offset' = [host_offset EXCEPT ![tb_idx[t]] = buf_offset]
          /\ buf_offset' = buf_offset + size
          /\ Goes(t, "insert")
          /\ UNCHANGED lockVars
       \/ /\ buf_offset + size > BufSize
          /\ buf_offset' = BufSize
          /\ translate_lock' = NoThread
          /\ poisoned' = TRUE
          /\ Goes(t, "panic")
          /\ UNCHANGED host_offset
    /\ UNCHANGED <<len, tb_key, published, invalid, chainVars,
                   gpc, jump_cache, why, tb_idx, src_tb, slot, at>>

\* tb_gen_code: TbStore::insert makes the finished TB visible, and returning
\* releases translate_lock.
tb_gen_code_insert(t) ==
    /\ loc[t] = "insert"
    /\ published' = [published EXCEPT ![tb_idx[t]] = TRUE]
    /\ JcInsert(t, tb_idx[t])
    /\ translate_lock' = NoThread
    /\ UNCHANGED <<len, tb_key, host_offset>>
    /\ Found(t, tb_idx[t])
    /\ UNCHANGED <<invalid, chainVars, buf_offset, poisoned, gpc>>

-----------------------------------------------------------------------------
(* Steps in and after the host code of a TB. *)

\* exit_tb(val) of TB i: the word the host code returns is decoded, and
\* cpu_exec_loop_mt continues with the exit it names.
exit_tb(t, i, val) ==
    LET exit == decode_tb_exit(encode_tb_exit(i, val))
        last == IF exit[1] = None THEN tb_idx[t] ELSE exit[1]
    IN  \/ /\ exit[2] \in Slots
           /\ src_tb' = [src_tb EXCEPT ![t] = last]
           /\ slot' = [slot EXCEPT ![t] = exit[2]]
           /\ why' = [why EXCEPT ![t] = "chain"]
           /\ Goes(t, "find")
        \/ /\ exit[2] = TB_EXIT_NOCHAIN
           /\ src_tb' = [src_tb EXCEPT ![t] = last]
           /\ why' = [why EXCEPT ![t] = "nochain"]
           /\ Goes(t, "get_target")
           /\ UNCHANGED slot
        \/ /\ exit[2] > TB_EXIT_NOCHAIN
           /\ Goes(t, "trap")
           /\ UNCHANGED <<src_tb, slot, why>>

\* The block ends at direct exit s: it stores the target in the guest pc, then
\* follows the jump of goto_tb, which falls through to exit_tb until patched.
exec_goto_tb(t) ==
    /\ loc[t] = "exec"
    /\ \E i \in CodeAt(at[t]), s \in Slots :
       /\ HasJump(i, s)
       /\ gpc' = [gpc EXCEPT ![t] = Goto[tb_key[i]][s]]
       /\ \/ /\ host_jmp[i][s] # Reset
             /\ at' = [at EXCEPT ![t] = host_jmp[i][s]]
             /\ UNCHANGED <<loc, why, src_tb, slot>>
          \/ /\ host_jmp[i][s] = Reset
             /\ exit_tb(t, i, s)
             /\ UNCHANGED at
    /\ UNCHANGED <<storeVars, invalid, chainVars, buf_offset, lockVars,
                   jump_cache, tb_idx>>

\* The block ends with an indirect jump (jalr).
exec_indirect(t) ==
    /\ loc[t] = "exec"
    /\ \E i \in CodeAt(at[t]) :
       /\ \E k \in Indirect[tb_key[i]] : gpc' = [gpc EXCEPT ![t] = k]
       /\ exit_tb(t, i, TB_EXIT_NOCHAIN)
    /\ UNCHANGED <<storeVars, invalid, chainVars, buf_offset, lockVars,
                   jump_cache, tb_idx, at>>

\* The block traps (ecall): cpu_exec_loop_mt returns ExitReason::Exit.
exec_trap(t) ==
    /\ loc[t] = "exec"
    /\ \E i \in CodeAt(at[t]) :
       /\ TrapNext[tb_key[i]] # {}
       /\ gpc' = [gpc EXCEPT ![t] = tb_key[i]]
       /\ exit_tb(t, i, EXCP_ECALL)
    /\ UNCHANGED <<storeVars, invalid, chainVars, buf_offset, lockVars,
                   jump_cache, tb_idx, at>>

\* The caller handles the trap and calls the loop again, or ends the vCPU.
caller_resume(t) ==
    /\ loc[t] = "trap"
    /\ \/ /\ \E k \in TrapNext[gpc[t]] : gpc' = [gpc EXCEPT ![t] = k]
          /\ Goes(t, "find")
       \/ /\ Goes(t, "done")
          /\ UNCHANGED gpc
    /\ UNCHANGED <<storeVars, invalid, chainVars, buf_offset, lockVars,
                   jump_cache, why, tb_idx, src_tb, slot, at>>

\* TB_EXIT_NOCHAIN: the single-entry target cache of the block that exited.
\* (invalid only ever rises, so loading the entry and checking the TB it names
\* in one step loses no outcome but a needless trip through tb_find.)
exit_target_check(t) ==
    /\ loc[t] = "get_target"
    /\ LET cached == exit_target[src_tb[t]] IN
       \/ /\ Hit(cached, gpc[t])
          /\ Enter(t, cached)
       \/ /\ ~Hit(cached, gpc[t])
          /\ Goes(t, "find")
          /\ UNCHANGED <<why, tb_idx, src_tb, slot, at>>
    /\ UNCHANGED <<storeVars, invalid, chainVars, buf_offset, lockVars, gpc, jump_cache>>

exit_target_store(t) ==
    /\ loc[t] = "set_target"
    /\ exit_target' = [exit_target EXCEPT ![src_tb[t]] = tb_idx[t]]
    /\ Enter(t, tb_idx[t])
    /\ UNCHANGED <<storeVars, invalid, jmp_dest, jmp_list, jmp_lock, host_jmp,
                   buf_offset, lockVars, gpc, jump_cache>>

-----------------------------------------------------------------------------
(* tb_add_jump(src_tb, slot, tb_idx), then the next iteration of the loop   *)
(* enters tb_idx through next_tb_hint.                                     *)

\* The checks that precede any lock.
tb_add_jump_check(t) ==
    /\ loc[t] = "add_jump"
    /\ \/ /\ ~HasJump(src_tb[t], slot[t]) \/ invalid[tb_idx[t]]
          /\ Enter(t, tb_idx[t])
       \/ /\ HasJump(src_tb[t], slot[t]) /\ ~invalid[tb_idx[t]]
          /\ Goes(t, "lock_src")
          /\ UNCHANGED <<why, tb_idx, src_tb, slot, at>>
    /\ UNCHANGED <<storeVars, invalid, chainVars, buf_offset, lockVars, gpc, jump_cache>>

tb_add_jump_lock_src_always(t) ==
    /\ loc[t] = "lock_src"
    /\ jmp_lock[src_tb[t]] = NoThread
    /\ jmp_lock' = [jmp_lock EXCEPT ![src_tb[t]] = t]
    /\ Goes(t, "patch")
    /\ UNCHANGED <<storeVars, invalid, exit_target, jmp_dest, jmp_list, host_jmp,
                   buf_offset, lockVars, gpc, jump_cache, why, tb_idx, src_tb, slot, at>>

\* Lock the source's jmp; return if the slot already leads to tb_idx.
tb_add_jump_lock_src(t) ==
    /\ loc[t] = "lock_src"
    /\ jmp_lock[src_tb[t]] = NoThread
    /\ \/ /\ jmp_dest[src_tb[t]][slot[t]] = tb_idx[t]
          /\ Enter(t, tb_idx[t])
          /\ UNCHANGED jmp_lock
       \/ /\ jmp_dest[src_tb[t]][slot[t]] # tb_idx[t]
          /\ jmp_lock' = [jmp_lock EXCEPT ![src_tb[t]] = t]
          /\ Goes(t, "patch")
          /\ UNCHANGED <<why, tb_idx, src_tb, slot, at>>
    /\ UNCHANGED <<storeVars, invalid, exit_target, jmp_dest, jmp_list, host_jmp,
                   buf_offset, lockVars, gpc, jump_cache>>

tb_add_jump_patch_unrecorded(t) ==
    /\ loc[t] = "patch"
    /\ host_jmp' = [host_jmp EXCEPT ![src_tb[t]][slot[t]] = host_offset[tb_idx[t]]]
    /\ jmp_lock' = [jmp_lock EXCEPT ![src_tb[t]] = NoThread]
    /\ Goes(t, "lock_dst")
    /\ UNCHANGED <<storeVars, invalid, exit_target, jmp_dest, jmp_list, buf_offset, lockVars,
                   gpc, jump_cache, why, tb_idx, src_tb, slot, at>>

\* Patch the jump, record its destination, drop the source's lock.
tb_add_jump_patch(t) ==
    /\ loc[t] = "patch"
    /\ host_jmp' = [host_jmp EXCEPT ![src_tb[t]][slot[t]] = host_offset[tb_idx[t]]]
    /\ jmp_dest' = [jmp_dest EXCEPT ![src_tb[t]][slot[t]] = tb_idx[t]]
    /\ jmp_lock' = [jmp_lock EXCEPT ![src_tb[t]] = NoThread]
    /\ Goes(t, "lock_dst")
    /\ UNCHANGED <<storeVars, invalid, exit_target, jmp_list, buf_offset, lockVars,
                   gpc, jump_cache, why, tb_idx, src_tb, slot, at>>

tb_add_jump_push_nothing(t) ==
    /\ loc[t] = "lock_dst"
    /\ jmp_lock[tb_idx[t]] = NoThread
    /\ Enter(t, tb_idx[t])
    /\ UNCHANGED <<storeVars, invalid, chainVars, buf_offset, lockVars, gpc, jump_cache>>

\* Add the incoming edge under the destination's lock.
tb_add_jump_push(t) ==
    /\ loc[t] = "lock_dst"
    /\ jmp_lock[tb_idx[t]] = NoThread
    /\ jmp_list' = [jmp_list EXCEPT ![tb_idx[t]][<<src_tb[t], slot[t]>>] = @ + 1]
    /\ Enter(t, tb_idx[t])
    /\ UNCHANGED <<storeVars, invalid, exit_target, jmp_dest, jmp_lock, host_jmp,
                   buf_offset, lockVars, gpc, jump_cache>>

-----------------------------------------------------------------------------
\* One step of vCPU thread t.
ThreadStep(t) ==
    \/ tb_find_jump_cache(t)
    \/ tb_find_hash(t)
    \/ tb_gen_code_check(t)
    \/ tb_gen_code_poisoned(t)
    \/ tb_gen_code_recheck(t)
    \/ tb_gen_code_alloc(t)
    \/ tb_gen_code_translate(t)
    \/ tb_gen_code_insert(t)
    \/ exec_goto_tb(t)
    \/ exec_indirect(t)
    \/ exec_trap(t)
    \/ caller_resume(t)
    \/ exit_target_check(t)
    \/ exit_target_store(t)
    \/ tb_add_jump_check(t)
    \/ tb_add_jump_lock_src(t)
    \/ tb_add_jump_patch(t)
    \/ tb_add_jump_push(t)

Stopped == {"full", "panic", "done"}

\* Every vCPU has left the loop for good.
Terminated ==
    /\ \A t \in Threads : loc[t] \in Stopped
    /\ UNCHANGED vars

Next == (\E t \in Threads : ThreadStep(t)) \/ Terminated

Spec == Init /\ [][Next]_vars

\* The operating system schedules every vCPU thread.
FairSpec == Spec /\ \A t \in Threads : WF_vars(ThreadStep(t))

-----------------------------------------------------------------------------
(* Properties *)

Locations ==
    {"find", "lookup", "check_space", "lock", "translate", "insert", "exec",
     "get_target", "set_target", "add_jump", "lock_src", "patch", "lock_dst",
     "trap"} \cup Stopped

\* The types of the variables, in groups: the TB store, the chaining state, the
\* code buffer and translate_lock, the state of a vCPU, the locals of a thread.
StoreTypeOK ==
    /\ len \in 0..MaxTbs
    /\ tb_key \in [Idx -> Keys \cup {NoKey}]
    /\ host_offset \in [Idx -> Nat]
    /\ published \in [Idx -> BOOLEAN]
    /\ invalid \in [Idx -> BOOLEAN]

ChainTypeOK ==
    /\ exit_target \in [Idx -> Idx \cup {None}]
    /\ jmp_dest \in [Idx -> [Slots -> Idx \cup {None}]]
    /\ jmp_list \in [Idx -> [Edges -> Nat]]
    /\ jmp_lock \in [Idx -> Threads \cup {NoThread}]
    /\ host_jmp \in [Idx -> [Slots -> Nat \cup {Reset}]]

LockTypeOK ==
    /\ buf_offset \in CodeGenStart..BufSize
    /\ translate_lock \in Threads \cup {NoThread}
    /\ poisoned \in BOOLEAN

CpuTypeOK ==
    /\ gpc \in [Threads -> Keys]
    /\ jump_cache \in [Threads -> [JcEntries -> Idx \cup {None}]]

LocalTypeOK ==
    /\ loc \in [Threads -> Locations]
    /\ why \in [Threads -> {"top", "chain", "nochain"}]
    /\ tb_idx \in [Threads -> Idx \cup {None}]
    /\ src_tb \in [Threads -> Idx \cup {None}]
    /\ slot \in [Threads -> Slots]
    /\ at \in [Threads -> Nat]

\* Every variable has its type.
TypeOK == StoreTypeOK /\ ChainTypeOK /\ LockTypeOK /\ CpuTypeOK /\ LocalTypeOK

\* A guest position has at most one valid TB, however many threads missed it at
\* the same time: the second lookup of tb_gen_code, under translate_lock, sees
\* what the first one raced with.
UniqueTranslation ==
    \A i, j \in 0..(len - 1) :
        ~invalid[i] /\ ~invalid[j] /\ tb_key[i] = tb_key[j] => i = j

\* A thread in host code runs the code of exactly one TB, a TB for the position
\* in its guest CPU state, whichever way it got there: jump cache, hash table,
\* exit_target, next_tb_hint or a chain of patched jumps.
ExecutesGuestPc ==
    \A t \in Threads : loc[t] = "exec" =>
        \E i \in Idx : CodeAt(at[t]) = {i} /\ tb_key[i] = gpc[t]

\* A patched jump leads to the start of the code of a TB for the position its
\* block stored in the guest pc: tb_add_jump links the block that really exited
\* (decode_tb_exit), at the slot it exited through.
ChainSound ==
    \A i \in Idx, s \in Slots : host_jmp[i][s] # Reset =>
        \E j \in CodeAt(host_jmp[i][s]) : tb_key[j] = Goto[tb_key[i]][s]

\* Thread t has patched slot s of TB i to TB j and not yet pushed the edge.
Pushing(t, i, s, j) ==
    loc[t] = "lock_dst" /\ src_tb[t] = i /\ slot[t] = s /\ tb_idx[t] = j

\* What invalidate relies on: a patched jump is recorded in jmp_dest, and its
\* edge is in the jmp_list of its destination or about to be pushed there.
ChainRegistered ==
    \A i, j \in Idx, s \in Slots :
        host_jmp[i][s] # Reset /\ j \in CodeAt(host_jmp[i][s]) =>
            /\ jmp_dest[i][s] = j
            /\ \/ jmp_list[j][<<i, s>>] > 0
               \/ \E t \in Threads : Pushing(t, i, s, j)

\* No edge is pushed twice: of several threads that leave the same block through
\* the same slot, one patches it and the others find jmp_dest set.
EdgeOnce ==
    \A i, j \in Idx, s \in Slots :
        jmp_list[j][<<i, s>>] + Cardinality({t \in Threads : Pushing(t, i, s, j)}) <= 1

\* The threads that have passed the space check and not emitted yet
Committed == {t \in Threads : loc[t] \in {"lock", "translate"}}

\* The space is checked before translate_lock is taken, and others may emit
\* in between.  Still, what tb_gen_code checked for is there for every thread
\* that has passed the check, less one TB of every thread that is past its
\* translation: a reserve of one TB for every thread is enough for translation
\* never to run past the end of the code buffer.
ReserveHolds ==
    \A most \in TbSizes :
        Committed # {} /\ (\A size \in TbSizes : size <= most) =>
            BufSize - buf_offset
              >= MinRemaining - most * (Cardinality(Threads) - Cardinality(Committed))

\* While the TB store has room, an exhausted code buffer makes the loop return
\* BufferFull to its caller; no thread panics.
FullIsReported ==
    \A t \in Threads : loc[t] = "panic" => len = MaxTbs

\* A thread that needs a TB gets it, and a thread that is chaining two blocks
\* goes on to execute, unless the engine stops it: nobody waits for ever on
\* translate_lock or on the jmp lock of a block (a block chained to itself
\* included).
LookupCompletes ==
    \A t \in Threads :
        loc[t] \notin {"exec", "trap"} ~> loc[t] \in {"exec"} \cup Stopped

\* The position of vCPU t as GuestExec sees it.
GuestStatus ==
    [t \in Threads |-> IF loc[t] \in Stopped THEN "stop"
                       ELSE IF loc[t] = "trap" THEN "trap" ELSE "run"]

Guest == INSTANCE GuestExec WITH status <- GuestStatus

\* The cache is transparent: every vCPU executes the guest program.
GuestTransparent == Guest!GuestSpec
=============================================================================
