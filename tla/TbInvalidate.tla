---------------------------- MODULE TbInvalidate ----------------------------
(***************************************************************************)
(* TbCache together with TbStore::invalidate.  Nothing in the repository   *)
(* calls invalidate; it is a public, thread-safe (&self) operation of the  *)
(* exec crate, and the invalidators are its callers.  The steps between    *)
(* two lock acquisitions are one action.  The Vec jmp_list is a count per  *)
(* edge, so the loop over it visits the edges in any order.                *)
(***************************************************************************)
EXTENDS TbCache

CONSTANT Invalidators   \* the threads that call invalidate

VARIABLES
    iloc,       \* program counter of an invalidator
    itb,        \* its argument tb_idx
    iedges,     \* the rest of its local jmp_list: how often it holds each edge
    iedge,      \* the edge (src, slot) its first loop is at, or NoEdge
    iout,       \* the rest of its local out: the dst of each slot, or None
    dead,       \* history: the TBs whose invalidation has returned
    quiesced    \* how the callers behave: TRUE if they call invalidate only
                \* while no vCPU is in the loop and no other call is running

invVars == <<iloc, itb, iedges, iedge, iout, dead, quiesced>>
allVars == <<vars, invVars>>

NoEdge == <<None, 0>>

InvInit ==
    /\ Init
    /\ iloc = [p \in Invalidators |-> "idle"]
    /\ itb = [p \in Invalidators |-> None]
    /\ iedges = [p \in Invalidators |-> NoEdges]
    /\ iedge = [p \in Invalidators |-> NoEdge]
    /\ iout = [p \in Invalidators |-> [s \in Slots |-> None]]
    /\ dead = {}
    /\ quiesced \in BOOLEAN

IGoes(p, l) == iloc' = [iloc EXCEPT ![p] = l]

Idle == \A p \in Invalidators : iloc[p] = "idle"

\* Outside cpu_exec_loop_mt.
Outside(t) == loc[t] \in {"trap"} \cup Stopped

\* invalidate(tb_idx): store the flag.  The caller has the index from a lookup;
\* another invalidation of the same TB may have begun since.
invalidate_mark(p) ==
    /\ iloc[p] = "idle"
    /\ quiesced => Idle /\ \A t \in Threads : Outside(t)
    /\ \E i \in Idx :
       /\ published[i]
       /\ itb' = [itb EXCEPT ![p] = i]
       /\ invalid' = [invalid EXCEPT ![i] = TRUE]
    /\ IGoes(p, "take_list")
    /\ UNCHANGED <<storeVars, chainVars, buf_offset, lockVars, cpuVars,
                   iedges, iedge, iout, dead, quiesced>>

\* 1. Take the incoming edges, under the TB's own lock.
invalidate_take_list(p) ==
    /\ iloc[p] = "take_list"
    /\ jmp_lock[itb[p]] = NoThread
    /\ iedges' = [iedges EXCEPT ![p] = jmp_list[itb[p]]]
    /\ jmp_list' = [jmp_list EXCEPT ![itb[p]] = NoEdges]
    /\ IGoes(p, "reset")
    /\ UNCHANGED <<storeVars, invalid, exit_target, jmp_dest, jmp_lock, host_jmp,
                   buf_offset, lockVars, cpuVars, itb, iedge, iout, dead, quiesced>>

\* The first loop takes the next edge e off its list, if there is one.
NextEdge(p, e) ==
    /\ iedges[p][e] > 0
    /\ iedges' = [iedges EXCEPT ![p][e] = @ - 1]
    /\ iedge' = [iedge EXCEPT ![p] = e]
    /\ IGoes(p, "clear_dest")

NoMoreEdges(p) ==
    /\ \A e \in Edges : iedges[p][e] = 0
    /\ IGoes(p, "take_dest")
    /\ UNCHANGED <<iedges, iedge, host_jmp>>

invalidate_reset_unpatched(p) ==
    /\ iloc[p] = "reset"
    /\ \/ \E e \in Edges : NextEdge(p, e) /\ UNCHANGED host_jmp
       \/ NoMoreEdges(p)
    /\ UNCHANGED <<storeVars, invalid, exit_target, jmp_dest, jmp_list, jmp_lock,
                   buf_offset, lockVars, cpuVars, itb, iout, dead, quiesced>>

\* reset_jump on the next incoming edge; no lock is held.
invalidate_reset(p) ==
    /\ iloc[p] = "reset"
    /\ \/ \E e \in Edges :
          /\ NextEdge(p, e)
          /\ host_jmp' = IF HasJump(e[1], e[2])
                         THEN [host_jmp EXCEPT ![e[1]][e[2]] = Reset] ELSE host_jmp
       \/ NoMoreEdges(p)
    /\ UNCHANGED <<storeVars, invalid, exit_target, jmp_dest, jmp_list, jmp_lock,
                   buf_offset, lockVars, cpuVars, itb, iout, dead, quiesced>>

\* Clear jmp_dest of that edge's source, under the source's lock.
invalidate_clear_dest(p) ==
    /\ iloc[p] = "clear_dest"
    /\ jmp_lock[iedge[p][1]] = NoThread
    /\ jmp_dest' = [jmp_dest EXCEPT ![iedge[p][1]][iedge[p][2]] = None]
    /\ iedge' = [iedge EXCEPT ![p] = NoEdge]
    /\ IGoes(p, "reset")
    /\ UNCHANGED <<storeVars, invalid, exit_target, jmp_list, jmp_lock, host_jmp,
                   buf_offset, lockVars, cpuVars, itb, iedges, iout, dead, quiesced>>

\* 2. Take the outgoing edges.
invalidate_take_dest(p) ==
    /\ iloc[p] = "take_dest"
    /\ jmp_lock[itb[p]] = NoThread
    /\ iout' = [iout EXCEPT ![p] = jmp_dest[itb[p]]]
    /\ jmp_dest' = [jmp_dest EXCEPT ![itb[p]] = [s \in Slots |-> None]]
    /\ IGoes(p, "retain")
    /\ UNCHANGED <<storeVars, invalid, exit_target, jmp_list, jmp_lock, host_jmp,
                   buf_offset, lockVars, cpuVars, itb, iedges, iedge, dead, quiesced>>

\* The second loop is at slot s, the first that is left: the edge leaves the
\* jmp_list of its destination, under the destination's lock.
RetainOthers(p, s) ==
    /\ iout[p][s] # None
    /\ \A r \in Slots : r < s => iout[p][r] = None
    /\ jmp_lock[iout[p][s]] = NoThread
    /\ jmp_list' = [jmp_list EXCEPT ![iout[p][s]][<<itb[p], s>>] = 0]

NothingToRetain(p) ==
    /\ \A s \in Slots : iout[p][s] = None
    /\ IGoes(p, "unlink")
    /\ UNCHANGED <<jmp_list, iout>>

invalidate_retain_first(p) ==
    /\ iloc[p] = "retain"
    /\ \/ \E s \in Slots : RetainOthers(p, s) /\ UNCHANGED <<iloc, iout>>
       \/ NothingToRetain(p)
    /\ UNCHANGED <<storeVars, invalid, exit_target, jmp_dest, jmp_lock, host_jmp,
                   buf_offset, lockVars, cpuVars, itb, iedges, iedge, dead, quiesced>>

\* Remove the edges from the jmp_lists of their destinations, slot 0 first.
invalidate_retain(p) ==
    /\ iloc[p] = "retain"
    /\ \/ \E s \in Slots :
          /\ RetainOthers(p, s)
          /\ iout' = [iout EXCEPT ![p][s] = None]
          /\ UNCHANGED iloc
       \/ NothingToRetain(p)
    /\ UNCHANGED <<storeVars, invalid, exit_target, jmp_dest, jmp_lock, host_jmp,
                   buf_offset, lockVars, cpuVars, itb, iedges, iedge, dead, quiesced>>

\* 3. Unlink the TB from its hash chain, if it still is in it, and return.
invalidate_unlink(p) ==
    /\ iloc[p] = "unlink"
    /\ published' = [published EXCEPT ![itb[p]] = FALSE]
    /\ dead' = dead \cup {itb[p]}
    /\ itb' = [itb EXCEPT ![p] = None]
    /\ IGoes(p, "idle")
    /\ UNCHANGED <<len, tb_key, host_offset, invalid, chainVars, buf_offset,
                   lockVars, cpuVars, iedges, iedge, iout, quiesced>>

InvalidatorStep(p) ==
    \/ invalidate_mark(p)
    \/ invalidate_take_list(p)
    \/ invalidate_reset(p)
    \/ invalidate_clear_dest(p)
    \/ invalidate_take_dest(p)
    \/ invalidate_retain(p)
    \/ invalidate_unlink(p)

VcpuStep(t) ==
    /\ quiesced => Idle
    /\ ThreadStep(t)
    /\ UNCHANGED invVars

InvNext ==
    \/ \E t \in Threads : VcpuStep(t)
    \/ \E p \in Invalidators : InvalidatorStep(p)
    \/ /\ Idle /\ Terminated
       /\ UNCHANGED invVars

InvSpec == InvInit /\ [][InvNext]_allVars

\* Every thread is scheduled; nobody is obliged to start an invalidation.
InvFairSpec ==
    /\ InvSpec
    /\ \A t \in Threads : WF_allVars(VcpuStep(t))
    /\ \A p \in Invalidators : WF_allVars(iloc[p] # "idle" /\ InvalidatorStep(p))

-----------------------------------------------------------------------------
(* Properties *)

\* The types of the locals of invalidate.
InvLocalTypeOK ==
    /\ iloc \in [Invalidators -> {"idle", "take_list", "reset", "clear_dest", "take_dest",
                                 "retain", "unlink"}]
    /\ itb \in [Invalidators -> Idx \cup {None}]
    /\ iedges \in [Invalidators -> [Edges -> Nat]]
    /\ iedge \in [Invalidators -> Edges \cup {NoEdge}]
    /\ iout \in [Invalidators -> [Slots -> Idx \cup {None}]]
    /\ dead \subseteq Idx
    /\ quiesced \in BOOLEAN

\* The types of TbCache and of the locals of invalidate.
InvTypeOK == TypeOK /\ InvLocalTypeOK

\* invalidate has unlinked all chained jumps when it returns: no jump of a valid
\* TB leads to the dead one.
DeadUnlinked ==
    \A i \in Idx, s \in Slots, j \in dead :
        ~invalid[i] => j \notin CodeAt(host_jmp[i][s])

\* With callers that wait until no vCPU is in the loop, it has.
QuiescedUnlinked == quiesced => DeadUnlinked

\* With such callers no vCPU executes a TB after its invalidation has returned,
\* whatever jump caches and exit_target still name it.
DeadNotExecuted ==
    quiesced => \A t \in Threads : loc[t] = "exec" => CodeAt(at[t]) \cap dead = {}

\* An invalidation that has started returns, whatever chaining the vCPUs do
\* meanwhile: invalidate and tb_add_jump never hold one jmp lock while they wait
\* for another.
InvalidateReturns == \A p \in Invalidators : iloc[p] # "idle" ~> iloc[p] = "idle"
=============================================================================
