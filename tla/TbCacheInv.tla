---------------------------- MODULE TbCacheInv ----------------------------
(***************************************************************************)
(* The inductive invariants of TbCache: what every thread may rely on      *)
(* between any two steps.  IInv is also kept by invalidate, at any time    *)
(* (TbInvalidate): it says nothing of the invalid flag but that a TB under *)
(* construction does not have it, and nothing of jmp_dest and jmp_list.    *)
(***************************************************************************)
EXTENDS TbCache

\* The host code of TB i is in the code buffer.
Emitted(i) == host_offset[i] # Unset

\* Thread t holds translate_lock and is building TB tb_idx[t].
Building(t) == loc[t] \in {"translate", "insert"}

\* Thread t holds the index of a finished TB for its guest position, which it
\* has not entered yet.
HasDst(t) == loc[t] \in {"set_target", "add_jump", "lock_src", "patch", "lock_dst"}

\* translate_lock has the owner the locations say, and the TB under
\* construction is the last one allocated, still private to its builder.
BuildInv(t) ==
    /\ Building(t) <=> translate_lock = t
    /\ Building(t) =>
          /\ ~poisoned
          /\ tb_idx[t] \in Idx
          /\ tb_idx[t] = len - 1
          /\ tb_key[tb_idx[t]] = gpc[t]
          /\ ~published[tb_idx[t]] /\ ~invalid[tb_idx[t]]
          /\ Emitted(tb_idx[t]) <=> loc[t] = "insert"

\* The locals of a thread: in host code it is in the code of a TB for its guest
\* position; between an exit and the entry of the next TB it knows the TB it left
\* and, once found, the TB it goes to.
LocalInv(t) ==
    /\ loc[t] \in {"exec", "trap"} => why[t] = "top"
    /\ loc[t] \in {"get_target", "set_target"} => why[t] = "nochain"
    /\ loc[t] \in {"add_jump", "lock_src", "patch", "lock_dst"} => why[t] = "chain"
    /\ HasDst(t) => /\ tb_idx[t] \in Idx
                    /\ Emitted(tb_idx[t])
                    /\ tb_key[tb_idx[t]] = gpc[t]
    /\ why[t] # "top" => src_tb[t] \in Idx /\ Emitted(src_tb[t])
    /\ why[t] = "chain" => Goto[tb_key[src_tb[t]]][slot[t]] = gpc[t]
    /\ loc[t] = "exec" =>
          \E i \in Idx : Emitted(i) /\ host_offset[i] = at[t] /\ tb_key[i] = gpc[t]

\* Entries beyond len are blank; those below it have a key and are published or
\* invalid, but for one under construction or abandoned by a panic.
StoreInv ==
    \A i \in Idx :
        /\ i >= len => ~published[i] /\ ~invalid[i] /\ ~Emitted(i)
        /\ i < len => /\ tb_key[i] \in Keys
                      /\ \/ published[i] \/ invalid[i]
                         \/ poisoned
                         \/ \E t \in Threads : Building(t) /\ tb_idx[t] = i
        /\ published[i] => Emitted(i)

\* Host code lies between the epilogue and the write cursor, and no two TBs
\* start at the same offset.
CodeInv ==
    /\ \A i \in Idx : Emitted(i) =>
          CodeGenStart <= host_offset[i] /\ host_offset[i] < buf_offset
    /\ \A i, j \in Idx :
          Emitted(i) /\ host_offset[i] = host_offset[j] => i = j

\* Caches hold finished TBs only.
CacheInv ==
    /\ \A t \in Threads, e \in JcEntries :
          jump_cache[t][e] # None => Emitted(jump_cache[t][e])
    /\ \A i \in Idx : exit_target[i] # None => Emitted(exit_target[i])

\* A patched jump leads to the start of a TB of the right position.
JumpInv ==
    \A i \in Idx, s \in Slots : host_jmp[i][s] # Reset =>
        /\ Emitted(i)
        /\ \E j \in Idx : /\ Emitted(j)
                          /\ host_jmp[i][s] = host_offset[j]
                          /\ tb_key[j] = Goto[tb_key[i]][s]

\* The inductive invariant, what the execution of the right code rests on between
\* any two steps of the vCPUs: translate_lock protects the one TB under construction,
\* every index that tb_find, a cache or a patched jump gives is that of a finished
\* TB, and a thread's locals name TBs for the positions it left and goes to.
IInv ==
    /\ TypeOK
    /\ StoreInv
    /\ CodeInv
    /\ CacheInv
    /\ JumpInv
    /\ UniqueTranslation
    /\ \A t \in Threads : BuildInv(t) /\ LocalInv(t)

-----------------------------------------------------------------------------
(* What chaining rests on beside IInv, while no TB is being invalidated.   *)

\* The TBs a running thread deals with are valid: the one it left, the one it
\* goes to and the one whose code it executes.
ValidInv(t) ==
    loc[t] \notin Stopped =>
        /\ why[t] # "top" => ~invalid[src_tb[t]]
        /\ HasDst(t) => ~invalid[tb_idx[t]]
        /\ loc[t] = "exec" =>
              \E i \in Idx : Emitted(i) /\ host_offset[i] = at[t] /\ ~invalid[i]

\* The edge from slot s of TB i to TB j is in j's jmp_list or about to be.
Registered(i, s, j) ==
    \/ jmp_list[j][<<i, s>>] > 0
    \/ \E t \in Threads : Pushing(t, i, s, j)

\* Slot s of TB i leads where jmp_dest says, to a valid TB that has the edge
\* registered; without a jmp_dest it is not patched.
Recorded(i, s) ==
    \/ /\ jmp_dest[i][s] = None
       /\ host_jmp[i][s] = Reset
    \/ /\ jmp_dest[i][s] \in Idx
       /\ Emitted(jmp_dest[i][s]) /\ ~invalid[jmp_dest[i][s]]
       /\ host_jmp[i][s] = host_offset[jmp_dest[i][s]]
       /\ Registered(i, s, jmp_dest[i][s])

\* All jumps of valid TBs are recorded.
RecordInv == \A i \in Idx, s \in Slots : ~invalid[i] => Recorded(i, s)

\* The edge thread t is about to push is the one jmp_dest names.
PushDest(t) == loc[t] = "lock_dst" => jmp_dest[src_tb[t]][slot[t]] = tb_idx[t]

\* An edge between valid TBs that is in a jmp_list is the one jmp_dest names.
ListDest(i, s, j) ==
    ~invalid[i] /\ ~invalid[j] /\ jmp_list[j][<<i, s>>] > 0 => jmp_dest[i][s] = j

\* The inductive invariant of chaining: the jumps, jmp_dest and the jmp_lists of
\* the valid TBs agree.
ChainInv ==
    /\ RecordInv
    /\ \A t \in Threads : ValidInv(t) /\ PushDest(t)
    /\ \A i, j \in Idx, s \in Slots : ListDest(i, s, j)

-----------------------------------------------------------------------------
(* What keeps an edge from being pushed twice, where nothing is invalid.   *)

\* Nobody but invalidate sets the flag.
NoneInvalid == \A i \in Idx : ~invalid[i]

\* Thread t, about to patch, holds the lock of the source, and the slot leads
\* nowhere yet.
SlotFree(t) ==
    loc[t] = "patch" => /\ jmp_lock[src_tb[t]] = t
                        /\ jmp_dest[src_tb[t]][slot[t]] = None

\* Thread t is about to push the edge from slot s of TB i.
Pushes(t, i, s) == loc[t] = "lock_dst" /\ src_tb[t] = i /\ slot[t] = s

\* An edge in a jmp_list is there once, and nobody is about to push it again.
ListedOnce(i, s, j) ==
    jmp_list[j][<<i, s>>] > 0 =>
        /\ jmp_list[j][<<i, s>>] = 1
        /\ \A t \in Threads : ~Pushes(t, i, s)

\* No two threads are about to push the same edge.
PushOnce(i, s) ==
    \A t, u \in Threads : Pushes(t, i, s) /\ Pushes(u, i, s) => t = u

\* The inductive invariant behind EdgeOnce.
EdgeInv ==
    /\ NoneInvalid
    /\ ChainInv
    /\ \A t \in Threads : SlotFree(t)
    /\ \A i, j \in Idx, s \in Slots : ListedOnce(i, s, j)
    /\ \A i \in Idx, s \in Slots : PushOnce(i, s)
=============================================================================
