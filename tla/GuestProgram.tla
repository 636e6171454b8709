--------------------------- MODULE GuestProgram ---------------------------
(***************************************************************************)
(* The guest program as the execution engine sees it: a graph of           *)
(* translation blocks.  A guest position is a key, the pair (pc, flags)    *)
(* that GuestCpu::get_pc and get_flags return; two positions with equal pc *)
(* and different flags are two keys.                                       *)
(***************************************************************************)
EXTENDS Naturals

CONSTANTS
    Threads,    \* the vCPU threads
    Keys,       \* the guest positions (pc, flags) a block can start at
    NoKey,      \* "no position"
    InitKey,    \* where every vCPU starts
    Goto,       \* Goto[k][s]: where direct exit s of the block at k leads
    Indirect,   \* Indirect[k]: where an indirect jump at the end of k may lead
    TrapNext    \* TrapNext[k]: where the caller may resume after a trap of k

Slots == 0..1

\* The guest program as the engine sees it: a block has up to two direct exits,
\* numbered from 0 (a branch), any number of indirect targets (jalr), and may
\* trap (ecall).
ASSUME GuestProgram ==
    /\ NoKey \notin Keys
    /\ InitKey \in Keys
    /\ Goto \in [Keys -> [Slots -> Keys \cup {NoKey}]]
    /\ Indirect \in [Keys -> SUBSET Keys]
    /\ TrapNext \in [Keys -> SUBSET Keys]
=============================================================================
