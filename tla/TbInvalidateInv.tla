-------------------------- MODULE TbInvalidateInv --------------------------
(***************************************************************************)
(* The inductive invariants of TbInvalidate: IInv, which invalidations at  *)
(* any time keep, and what holds on top of it with callers that wait until *)
(* no vCPU is in the loop.                                                 *)
(***************************************************************************)
EXTENDS TbInvalidate, TbCacheInv

Active(p) == iloc[p] # "idle"

\* The TB an invalidation works on is finished and marked, and so are those
\* whose invalidation has returned.
MarkedInv ==
    /\ \A p \in Invalidators :
          /\ Active(p) => itb[p] \in Idx /\ Emitted(itb[p]) /\ invalid[itb[p]]
          /\ iloc[p] = "clear_dest" => iedge[p] \in Edges
    /\ \A i \in dead : invalid[i]

\* The inductive invariant for any callers.
InvInv == InvTypeOK /\ IInv /\ MarkedInv

-----------------------------------------------------------------------------
(* Callers that wait until no vCPU is in the loop.                         *)

\* One invalidation runs at a time, all vCPUs are outside the loop meanwhile,
\* and a TB is marked and still in the hash table only while its invalidation runs.
AloneInv ==
    /\ \A p, q \in Invalidators : Active(p) /\ Active(q) => p = q
    /\ \A p \in Invalidators : Active(p) =>
          published[itb[p]] /\ \A t \in Threads : Outside(t)
    /\ \A i \in Idx : published[i] /\ invalid[i] =>
          \E p \in Invalidators : Active(p) /\ itb[p] = i
    /\ \A i \in dead : ~published[i]

\* Invalidation p still has the edge from slot s of TB i in a list.
Queued(p, i, s) ==
    \/ iloc[p] = "take_list" /\ jmp_list[itb[p]][<<i, s>>] > 0
    \/ iloc[p] \in {"reset", "clear_dest"} /\ iedges[p][<<i, s>>] > 0

\* Invalidation p has the edge from slot s of TB i in hand.
InHand(p, i, s) == iloc[p] = "clear_dest" /\ iedge[p] = <<i, s>>

\* The edges invalidation p has to do with lead to its TB, or nowhere any more.
QueueDest(p, i, s) ==
    ~invalid[i] /\ (Queued(p, i, s) \/ InHand(p, i, s)) => jmp_dest[i][s] \in {itb[p], None}

\* Invalidation p will clear slot s of TB i, which leads to its TB.
Unlinking(p, i, s) ==
    /\ jmp_dest[i][s] = itb[p]
    /\ \/ /\ Queued(p, i, s) /\ ~InHand(p, i, s)
          /\ host_jmp[i][s] \in {Reset, host_offset[itb[p]]}
       \/ InHand(p, i, s) /\ host_jmp[i][s] = Reset

\* Slot s of TB i is recorded, or the invalidation that is running will reset it.
Covered(i, s) ==
    Recorded(i, s) \/ \E p \in Invalidators : Active(p) /\ Unlinking(p, i, s)

\* The inductive invariant for quiesced callers.
QuietInv ==
    /\ AloneInv
    /\ \A t \in Threads : ValidInv(t) /\ PushDest(t)
    /\ \A i, j \in Idx, s \in Slots : ListDest(i, s, j)
    /\ \A p \in Invalidators, i \in Idx, s \in Slots : QueueDest(p, i, s)
    /\ \A i \in Idx, s \in Slots : ~invalid[i] => Covered(i, s)

\* What the engine and its invalidations keep between any two steps, the inductive
\* invariant of InvSpec: a vCPU or an invalidation that holds an index holds a
\* finished TB (InvInv); and when invalidate is called only with every vCPU outside
\* cpu_exec_loop_mt, each live edge is recorded or about to be reset (QuietInv).
InvIInv == InvInv /\ (quiesced => QuietInv)
=============================================================================
