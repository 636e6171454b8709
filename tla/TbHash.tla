------------------------------- MODULE TbHash -------------------------------
(***************************************************************************)
(* The hash table of TbStore as the code builds it: bucket heads and       *)
(* singly linked chains through the field hash_next of the TBs, under one  *)
(* mutex.  TbCache sees the table as the set of its linked TBs; here the   *)
(* pointer surgery of insert and invalidate is shown to implement that.    *)
(***************************************************************************)
EXTENDS Integers, Sequences, FiniteSets, SequencesExt

CONSTANTS
    Keys,       \* the (pc, flags) pairs
    Bucket,     \* Bucket[k]: TranslationBlock::hash
    MaxTbs      \* number of TBs ever allocated

ASSUME HashConstants == DOMAIN Bucket = Keys /\ MaxTbs \in Nat

None == -1
Idx == 0..(MaxTbs - 1)
Buckets == Range(Bucket)

VARIABLES
    hash,       \* the head of every bucket
    hash_next,  \* the next TB of a TB's chain
    tb_key,     \* the (pc, flags) of each TB
    invalid,    \* its invalid flag
    inserted    \* history: the linked TBs, last inserted first

hashVars == <<hash, hash_next, tb_key, invalid, inserted>>

HashInit ==
    /\ hash = [b \in Buckets |-> None]
    /\ hash_next = [i \in Idx |-> None]
    /\ tb_key \in [Idx -> Keys]
    /\ invalid = [i \in Idx |-> FALSE]
    /\ inserted = <<>>

\* The TBs that a walk from cur meets within n steps, in order.
walk[n \in 0..MaxTbs, cur \in Idx \cup {None}] ==
    IF n = 0 \/ cur = None THEN <<>> ELSE <<cur>> \o walk[n - 1, hash_next[cur]]

Chain(b) == walk[MaxTbs, hash[b]]

lookup_invalid(k) ==
    LET hits == SelectSeq(Chain(Bucket[k]), LAMBDA i : tb_key[i] = k)
    IN  IF hits = <<>> THEN None ELSE Head(hits)

\* TbStore::lookup: the first valid TB of k in its chain.
lookup(k) ==
    LET hits == SelectSeq(Chain(Bucket[k]), LAMBDA i : ~invalid[i] /\ tb_key[i] = k)
    IN  IF hits = <<>> THEN None ELSE Head(hits)

\* TbStore::insert: prepend to the bucket.  Each TB is inserted once, by the
\* tb_gen_code call that allocated it.
insert(i) ==
    /\ ~Contains(inserted, i) /\ ~invalid[i]
    /\ hash_next' = [hash_next EXCEPT ![i] = hash[Bucket[tb_key[i]]]]
    /\ hash' = [hash EXCEPT ![Bucket[tb_key[i]]] = i]
    /\ inserted' = <<i>> \o inserted
    /\ UNCHANGED <<tb_key, invalid>>

\* TbStore::invalidate, its first step: the flag rises before the chain is
\* touched, and lookups in between skip the TB.
invalidate_mark(i) ==
    /\ Contains(inserted, i) /\ ~invalid[i]
    /\ invalid' = [invalid EXCEPT ![i] = TRUE]
    /\ UNCHANGED <<hash, hash_next, tb_key, inserted>>

invalidate_unlink_head(i) ==
    LET b == Bucket[tb_key[i]]
    IN  /\ invalid[i]
        /\ i \in Range(Chain(b))
        /\ hash' = [hash EXCEPT ![b] = hash_next[i]]
        /\ hash_next' = [hash_next EXCEPT ![i] = None]
        /\ inserted' = SelectSeq(inserted, LAMBDA j : j # i)
        /\ UNCHANGED <<tb_key, invalid>>

\* TbStore::invalidate, its last step: walk the bucket with a trailing pointer
\* and splice the TB out.
invalidate_unlink(i) ==
    LET b == Bucket[tb_key[i]]
        chain == Chain(b)
        n == CHOOSE m \in DOMAIN chain : chain[m] = i
    IN  /\ invalid[i]
        /\ i \in Range(chain)
        /\ \/ /\ n = 1
              /\ hash' = [hash EXCEPT ![b] = hash_next[i]]
              /\ hash_next' = [hash_next EXCEPT ![i] = None]
           \/ /\ n > 1
              /\ hash_next' = [hash_next EXCEPT ![chain[n - 1]] = hash_next[i], ![i] = None]
              /\ UNCHANGED hash
        /\ inserted' = SelectSeq(inserted, LAMBDA j : j # i)
        /\ UNCHANGED <<tb_key, invalid>>

HashNext == \E i \in Idx : insert(i) \/ invalidate_mark(i) \/ invalidate_unlink(i)

HashSpec == HashInit /\ [][HashNext]_hashVars

-----------------------------------------------------------------------------
(* Properties *)

\* Every chain holds exactly the linked TBs of its bucket, last inserted first:
\* insert and invalidate never lose a TB, link one twice, close a cycle or cross
\* two buckets.
ChainsExact ==
    \A b \in Buckets :
        /\ Chain(b) = SelectSeq(inserted, LAMBDA i : Bucket[tb_key[i]] = b)
        /\ Chain(b) # <<>> => hash_next[Last(Chain(b))] = None

\* A lookup returns the valid TB of the key that was inserted last, and a TB if
\* there is one, whatever else shares the bucket.
LookupExact ==
    \A k \in Keys :
        LET S == {n \in DOMAIN inserted : ~invalid[inserted[n]] /\ tb_key[inserted[n]] = k}
        IN  IF S = {} THEN lookup(k) = None
            ELSE \E n \in S : lookup(k) = inserted[n] /\ \A m \in S : n <= m
=============================================================================
