--------------------------- MODULE MCTbInvalidate ---------------------------
(* Small guest programs and bounds for TbInvalidate. *)
EXTENDS TbInvalidateInv

CONSTANTS t1, p1, A, B

\* Two loops: A branches to itself or jumps indirectly to B; B falls through to
\* A, branches to itself, or traps and is resumed at A.
PairGoto ==
    [k \in Keys |-> [s \in Slots |-> IF s = 1 THEN k ELSE IF k = A THEN NoKey ELSE A]]
PairIndirect == [k \in Keys |-> IF k = A THEN {B} ELSE {}]
PairTrapNext == [k \in Keys |-> IF k = B THEN {A} ELSE {}]

PairJcIndex == [k \in Keys |-> IF k = A THEN 0 ELSE 1]
=============================================================================
