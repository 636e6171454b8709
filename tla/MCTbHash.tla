------------------------------ MODULE MCTbHash ------------------------------
(* Three keys in two buckets, and up to four TBs. *)
EXTENDS TbHash

CONSTANTS A, B, C

MCBucket == [k \in Keys |-> IF k = C THEN 1 ELSE 0]
=============================================================================
