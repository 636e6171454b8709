----------------------------- MODULE LinuxUserInv -----------------------------
(***************************************************************************)
(* The inductive invariant of LinuxUser: what holds between the steps of   *)
(* load_elf and between two system calls, strong enough to carry the       *)
(* properties of the module over every step.                               *)
(***************************************************************************)
EXTENDS LinuxUser

\* The variables of the loader and of main
LocalsInv ==
    /\ <<image, argv, envp>> \in Commands
    /\ ph \in Nat \ {0}
    /\ end \in Nat /\ end % PageSize = 0
    /\ brk \in Nat /\ mmap_next \in Nat
    /\ status = "elf" => ph = 1
    /\ status = "loaded" => ph > Len(Phdrs) /\ brk = end
    /\ status \in {"elf", "load", "loaded"} => mmap_next = 0
    /\ status \in {"run", "outside"} => mmap_next > 0
    /\ status = "run" => MmapBase <= mmap_next

\* Nothing was ever mapped on page q.
Untouched(q) == prot[q] = None /\ \A a \in DOMAIN mem : PageOf(a) # q

\* The pages that are still to be given out: behind the segments while they are
\* loaded, below the stack once it is there, then between the break and the
\* first mapping and between the last mapping and the stack
Free(q) ==
    \/ status \in {"elf", "load"} /\ end <= PageAddr(q)
    \/ status = "loaded" /\ end <= PageAddr(q) /\ PageAddr(q) < StackBase
    \/ status = "run" /\ Apart /\ Unused(q)

\* Nothing is on them but what the guest put there by their address.
FreeInv == \A q \in Pages \ forfeit : Free(q) => Untouched(q)

\* Segment p is in memory as the file says, below the end of the program.
SegLoaded(p) ==
    /\ \A i \in 0 .. p.memsz - 1 :
         Byte(p.vaddr + i) = IF i < p.filesz THEN <<"file", p.offset + i>> ELSE Zero
    /\ \A q \in SegPages(p) :
         q \in Pages /\ prot[q] = p.flags /\ PageAddr(q + 1) <= end

\* The segments the loop of load_elf has passed are loaded.
SegsInv ==
    status \in {"load", "loaded"} /\ WellFormed =>
        \A k \in Loads : k < ph => SegLoaded(Phdrs[k])

\* What load_elf and the memory calls keep between any two steps, the inductive
\* invariant of UserSpec: pages not yet given out hold nothing (FreeInv), the
\* segments passed so far are in memory as the file says (SegsInv), and the
\* program, its heap and its mappings stay there.
UserIInv ==
    /\ UserTypeOK /\ LocalsInv
    /\ FreeInv /\ SegsInv
    /\ MemoryKept /\ HeapMapped
=============================================================================
