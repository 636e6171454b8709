------------------------------ MODULE TbFlush ------------------------------
(***************************************************************************)
(* TbCache with the two callers it can have when the code buffer is full.  *)
(* linux-user exits.  A caller may also answer ExitReason::BufferFull the  *)
(* way its comment asks: flush and retry.  flush is a public operation of  *)
(* TbStore, and so is the rest of what a retry needs:                      *)
(* CodeBuffer::set_offset(code_gen_start), because flush leaves the write  *)
(* cursor alone, and JumpCache::invalidate, because flush leaves the jump  *)
(* caches of the vCPUs alone.                                              *)
(***************************************************************************)
EXTENDS TbCache

VARIABLE caller     \* what the caller does at BufferFull, "exit" or "flush"

flushVars == <<vars, caller>>

FlushInit == Init /\ caller \in {"exit", "flush"}

\* Outside the loop, where the contract of flush wants every vCPU to be.
Outside(t) == loc[t] \in {"trap"} \cup Stopped

flush_nothing == UNCHANGED <<storeVars, invalid, chainVars>>

\* TbStore::flush: no TB is left, and an index allocated later starts blank.
flush ==
    /\ len' = 0
    /\ tb_key' = [i \in Idx |-> NoKey]
    /\ host_offset' = [i \in Idx |-> Unset]
    /\ published' = [i \in Idx |-> FALSE]
    /\ invalid' = [i \in Idx |-> FALSE]
    /\ exit_target' = [i \in Idx |-> None]
    /\ jmp_dest' = [i \in Idx |-> [s \in Slots |-> None]]
    /\ jmp_list' = [i \in Idx |-> NoEdges]
    /\ jmp_lock' = [i \in Idx |-> NoThread]
    /\ host_jmp' = [i \in Idx |-> [s \in Slots |-> Reset]]

rewind_nothing == UNCHANGED buf_offset

\* CodeBuffer::set_offset(code_gen_start).
rewind == buf_offset' = CodeGenStart

drop_caches_but_one ==
    jump_cache' = [t \in Threads |-> [e \in JcEntries |->
                     IF e = 0 THEN jump_cache[t][e] ELSE None]]

\* JumpCache::invalidate on every vCPU.
drop_caches == jump_cache' = [t \in Threads |-> [e \in JcEntries |-> None]]

\* Every vCPU whose loop returned BufferFull calls it again.
retry ==
    /\ loc' = [t \in Threads |-> IF loc[t] = "full" THEN "find" ELSE loc[t]]
    /\ why' = [t \in Threads |-> "top"]
    /\ tb_idx' = [t \in Threads |-> None]
    /\ src_tb' = [t \in Threads |-> None]
    /\ slot' = [t \in Threads |-> 0]

\* The caller of the loops, once every vCPU has left its loop.
caller_flush ==
    /\ caller = "flush"
    /\ \A t \in Threads : Outside(t)
    /\ \E t \in Threads : loc[t] = "full"
    /\ flush
    /\ rewind
    /\ drop_caches
    /\ retry
    /\ UNCHANGED <<lockVars, gpc, at, caller>>

\* A step of vCPU t.  A caller that flushes does not resume it from a trap while another
\* vCPU waits for the flush.
FlushThreadStep(t) ==
    /\ caller = "flush" /\ loc[t] = "trap" => \A u \in Threads : loc[u] # "full"
    /\ ThreadStep(t)
    /\ UNCHANGED caller

\* Every vCPU has left its loop and is not going to be called again.
FlushTerminated ==
    /\ \A t \in Threads :
         loc[t] \in IF caller = "flush" THEN {"panic", "done"} ELSE Stopped
    /\ UNCHANGED flushVars

FlushNext ==
    \/ \E t \in Threads : FlushThreadStep(t)
    \/ caller_flush
    \/ FlushTerminated

FlushSteps == FlushInit /\ [][FlushNext]_flushVars

\* Every vCPU is scheduled, and the caller does flush.
FlushSpec ==
    /\ FlushSteps
    /\ \A t \in Threads : WF_flushVars(FlushThreadStep(t))
    /\ WF_flushVars(caller_flush)

-----------------------------------------------------------------------------
(* Properties *)

\* No TB index outlives a flush: the assertion of TbStore::get holds for every
\* index the loop may pass to it, from a jump cache, exit_target or a local.
GetInBounds ==
    /\ \A t \in Threads : /\ \A e \in JcEntries : jump_cache[t][e] < len
                          /\ tb_idx[t] < len /\ src_tb[t] < len
    /\ \A i \in Idx : exit_target[i] < len

\* A retry after a flush works: once every vCPU is outside its loop and some
\* loop returned BufferFull, a vCPU executes again, or the engine panics.  (Not
\* each of them: a vCPU may find the buffer full again and again, while others
\* refill a buffer that is smaller than the guest's working set.)
RetryProgresses ==
    caller = "flush" /\ (\A t \in Threads : Outside(t)) /\ (\E t \in Threads : loc[t] = "full")
        ~> \E t \in Threads : loc[t] \in {"exec", "panic"}

\* A vCPU that waits for the flush has not stopped.
FlushStatus ==
    [t \in Threads |-> IF loc[t] \in {"panic", "done"} THEN "stop"
                       ELSE IF loc[t] = "trap" THEN "trap" ELSE "run"]

FlushGuest == INSTANCE GuestExec WITH status <- FlushStatus

\* Flushing is transparent: the vCPUs execute the guest program, although TB
\* indices and code offsets are used again for other blocks.
FlushTransparent == FlushGuest!GuestSpec
=============================================================================
