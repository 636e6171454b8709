----------------------------- MODULE GuestExec -----------------------------
(***************************************************************************)
(* What the execution engine promises: every vCPU executes the guest       *)
(* program, one translation block after the other, as if no code cache     *)
(* existed.  A guest position is a key, the pair (pc, flags) that          *)
(* GuestCpu::get_pc and get_flags return; two positions with equal pc and  *)
(* different flags are two keys.                                           *)
(***************************************************************************)
EXTENDS GuestProgram

VARIABLES
    gpc,        \* gpc[t]: the block vCPU t executes or will execute next
    status      \* status[t]: "run", "trap" (in the caller) or "stop"

guestVars == <<gpc, status>>

GuestInit ==
    /\ gpc = [t \in Threads |-> InitKey]
    /\ status = [t \in Threads |-> "run"]

\* The block ends with a branch, direct or indirect.
Branch(t) ==
    /\ status[t] = "run"
    /\ \E k \in ({Goto[gpc[t]][s] : s \in Slots} \ {NoKey}) \cup Indirect[gpc[t]] :
          gpc' = [gpc EXCEPT ![t] = k]
    /\ UNCHANGED status

\* The block traps to the caller of the execution loop.
Trap(t) ==
    /\ status[t] = "run"
    /\ TrapNext[gpc[t]] # {}
    /\ status' = [status EXCEPT ![t] = "trap"]
    /\ UNCHANGED gpc

\* The caller has handled the trap and calls the loop again.
Resume(t) ==
    /\ status[t] = "trap"
    /\ \E k \in TrapNext[gpc[t]] : gpc' = [gpc EXCEPT ![t] = k]
    /\ status' = [status EXCEPT ![t] = "run"]

\* The vCPU gives up: exit system call, code buffer full, or a panic.
Stop(t) ==
    /\ status[t] \in {"run", "trap"}
    /\ status' = [status EXCEPT ![t] = "stop"]
    /\ UNCHANGED gpc

GuestNext == \E t \in Threads : Branch(t) \/ Trap(t) \/ Resume(t) \/ Stop(t)

GuestSpec == GuestInit /\ [][GuestNext]_guestVars
=============================================================================
