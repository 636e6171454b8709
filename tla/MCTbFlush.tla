------------------------------ MODULE MCTbFlush ------------------------------
(* Three blocks of two sizes.  The code buffer is full after one or two, or  *)
(* runs out while two vCPUs translate; after two small ones the TB store is. *)
EXTENDS TbFlush

CONSTANTS t1, t2, A, B, C

\* A falls through to B or branches to C; B goes to C, directly or indirectly; C
\* traps and is resumed at A or B.
FlushGoto ==
    [k \in Keys |->
        CASE k = A -> [s \in Slots |-> IF s = 0 THEN B ELSE C]
          [] k = B -> [s \in Slots |-> IF s = 0 THEN C ELSE NoKey]
          [] k = C -> [s \in Slots |-> NoKey]]
FlushIndirect == [k \in Keys |-> IF k = B THEN {C} ELSE {}]
FlushTrapNext == [k \in Keys |-> IF k = C THEN {A, B} ELSE {}]

\* A and C share a jump cache entry.
FlushJcIndex == [k \in Keys |-> IF k = B THEN 1 ELSE 0]
=============================================================================
