----------------------------- MODULE MCTbCache -----------------------------
(* Small guest programs and bounds for TbCache. *)
EXTENDS TbCacheInv

CONSTANTS t1, t2, A, B, C

\* A falls through to B or branches to C; B falls through to C or branches back
\* to itself; C jumps indirectly to A or B, or traps and is resumed at B.
MCGoto ==
    [k \in Keys |->
        CASE k = A -> [s \in Slots |-> IF s = 0 THEN B ELSE C]
          [] k = B -> [s \in Slots |-> IF s = 0 THEN C ELSE B]
          [] k = C -> [s \in Slots |-> NoKey]]
MCIndirect == [k \in Keys |-> IF k = C THEN {A, B} ELSE {}]
MCTrapNext == [k \in Keys |-> IF k = C THEN {B} ELSE {}]

\* A and C share a jump cache entry.
MCJcIndex == [k \in Keys |-> IF k = B THEN 1 ELSE 0]
=============================================================================
