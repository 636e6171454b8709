------------------------------ MODULE LinuxUser ------------------------------
(***************************************************************************)
(* The user-mode runner: load_elf, then the loop of main, in which the     *)
(* guest runs (here: writes to its memory) until it traps and              *)
(* handle_syscall serves the call.  One action is one system call, from    *)
(* the trap to the result in a0.                                           *)
(***************************************************************************)
EXTENDS Loader

CONSTANTS
    Gap,            \* the distance from the break to the first mmap
    BrkArgs,        \* the arguments of brk
    Addrs,          \* the addresses given to mmap and mprotect
    MmapLens,       \* the lengths given to them
    Prots,          \* the protections asked for
    Buffers,        \* the <<address, length>> of buffers given to calls
    Iovs,           \* the lengths of all buffers of a writev together
    MaxCalls,       \* how many steps the guest takes
    Tracked         \* the addresses whose contents are followed

ASSUME UserConstants ==
    /\ Gap \in Nat \ {0} /\ Gap % PageSize = 0
    /\ BrkArgs \subseteq Nat /\ Addrs \subseteq Nat /\ MmapLens \subseteq Nat
    /\ Tracked \subseteq Nat
    /\ Prots \subseteq SUBSET {"r", "w", "x"}
    /\ Buffers \subseteq Nat \X Nat

VARIABLES
    mmap_next,      \* where the next mapping without an address goes
    a0,             \* the result of the last call; Errno stands for every -errno
    calls,          \* the steps the guest has taken
    expect,         \* what the guest expects at the Tracked addresses
    named,          \* the pages it has mapped or protected by their address
    forfeit         \* those of them whose contents it cannot count on

Errno == -1

\* What the guest knows of its memory, which no code looks at
ghosts == <<expect, named, forfeit>>

userVars == <<mmap_next, a0, calls, ghosts>>
allVars == <<spaceVars, loadVars, userVars>>

UserInit ==
    /\ LoadInit
    /\ mmap_next = 0 /\ a0 = 0 /\ calls = 0
    /\ expect = [a \in Tracked |-> Zero] /\ named = {} /\ forfeit = {}

Load == LoadStep /\ UNCHANGED userVars

MmapBase == page_align_up(end) + Gap

\* main: the CPU starts at the entry
start ==
    /\ status = "loaded"
    /\ status' = "run"
    /\ mmap_next' = MmapBase
    /\ expect' = [a \in Tracked |-> Byte(a)]
    /\ UNCHANGED <<spaceVars, image, argv, envp, ph, end, phdr_addr, sp, a0, calls,
                   named, forfeit>>

\* The guest runs until it traps.
Guest == status = "run" /\ calls < MaxCalls /\ calls' = calls + 1

\* Result v of a call that left the process alive
Continue(v) == a0' = v /\ UNCHANGED status

\* The process ends: it exits, panics or gets a signal.
Stop(how) == status' = how /\ UNCHANGED a0

\* What a call that fills n addresses from a with v makes of the memory and of
\* what the guest expects there
Fills(a, n, v) ==
    /\ mem' = Filled(mem, a, n, v)
    /\ expect' = [x \in Tracked |-> IF x \in a .. a + n - 1 THEN v[x - a]
                                    ELSE expect[x]]
    /\ UNCHANGED <<named, forfeit>>

\* What the guest and the calls write
Data(n) == [k \in 0 .. n - 1 |-> <<"data">>]
Zeros(n) == [k \in 0 .. n - 1 |-> Zero]

Info == <<image, argv, envp, ph, end, phdr_addr, sp>>

\* The guest stores to memory.
guest_store ==
    /\ Guest
    /\ \E a \in Tracked :
       \/ /\ CanAccess(a, 1, "w")
          /\ Fills(a, 1, Data(1))
          /\ UNCHANGED status
       \/ /\ ~CanAccess(a, 1, "w")
          /\ status' = "segv"
          /\ UNCHANGED <<mem, ghosts>>
    /\ UNCHANGED <<prot, brk, fails, Info, mmap_next, a0>>

-----------------------------------------------------------------------------
(* Memory calls *)

\* Wrong: the page of the old break is mapped again
GrowFrom_page(old) == page_align_down(old)

\* Where the pages that the heap grows by begin
GrowFrom(old) == page_align_up(old)

\* Wrong: the last page is mapped only when it is full
GrowTo_page(new) == page_align_down(new)

GrowTo(new) == page_align_up(new)

sys_brk ==
    /\ Guest
    /\ \E new \in BrkArgs :
       \/ /\ new = 0 \/ new < brk
          /\ Continue(brk)
          /\ UNCHANGED <<prot, mem, brk, fails>>
       \/ /\ new # 0 /\ new >= brk
          /\ GrowTo(new) <= GrowFrom(brk)
          /\ brk' = new
          /\ Continue(new)
          /\ UNCHANGED <<prot, mem, fails>>
       \/ /\ new # 0 /\ new >= brk
          /\ GrowTo(new) > GrowFrom(brk)
          /\ LET size == GrowTo(new) - GrowFrom(brk)
             IN  \E r \in mmap_fixed(GrowFrom(brk), size) :
                 /\ Mapped(r, GrowFrom(brk), size, RW)
                 /\ \/ r \in {"ok", "err"} /\ brk' = new /\ Continue(new)
                    \/ r \in {"panic", "outside"} /\ Stop(r) /\ UNCHANGED brk
    /\ UNCHANGED <<Info, mmap_next, ghosts>>

\* Wrong: what is mapped of the last page is not counted
Bump_down(next, len) == next + page_align_down(len)

\* Wrong: the next mapping starts where this one was asked to end
Bump_len(next, len) == next + len

Bump(next, len) == next + page_align_up(len)

\* mmap of len addresses at a, for a call without an address or with one, when
\* the host answers r
DoMmap(r, a, len, p) ==
    /\ r \in mmap_fixed(a, page_align_up(len))
    /\ Mapped(r, a, page_align_up(len), p)
    /\ \/ r = "ok" /\ Continue(a)
       \/ r = "err" /\ Continue(Errno)
       \/ r \in {"panic", "outside"} /\ Stop(r)

sys_mmap ==
    /\ Guest
    /\ \E len \in MmapLens, p \in Prots, r \in Answers :
         DoMmap(r, mmap_next, len, p) /\ mmap_next' = Bump(mmap_next, len)
    /\ UNCHANGED <<brk, Info, ghosts>>

\* The pages that brk and mmap without an address are still to give out
Unused(q) ==
    \/ brk <= PageAddr(q) /\ PageAddr(q) < MmapBase
    \/ mmap_next <= PageAddr(q) /\ PageAddr(q) < StackBase

\* The guest has named the n addresses from a.  brk and mmap do not know of
\* pages it took among those they give out, and will map them again; where a
\* page was in use, the guest has lost what it held unless it asked for that.
Names(r, a, n, asked) ==
    LET now == {q \in Pages : r = "ok" /\ q \in PagesOf(a, n)}
    IN  /\ named' = named \cup now
        /\ forfeit' = forfeit \cup {q \in now : Unused(q) \/ ~asked}

\* An address is used as it is: the flags are not looked at, so that one given
\* without MAP_FIXED (asked = FALSE) also replaces what is there.
sys_mmap_at ==
    /\ Guest
    /\ \E a \in Addrs \ {0}, len \in MmapLens, p \in Prots, r \in Answers,
          asked \in BOOLEAN :
         /\ DoMmap(r, a, len, p)
         /\ Names(r, a, page_align_up(len), asked)
         /\ expect' = [x \in Tracked |->
                         IF r = "ok" /\ PageOf(x) \in PagesOf(a, page_align_up(len))
                         THEN Zero ELSE expect[x]]
    /\ UNCHANGED <<brk, Info, mmap_next>>

sys_mprotect ==
    /\ Guest
    /\ \E a \in Addrs, len \in MmapLens, p \in Prots :
         \E r \in mprotect(a, len) :
           /\ Protected(r, a, len, p)
           /\ Names(r, a, len, TRUE)
           /\ \/ r = "ok" /\ Continue(0)
              \/ r = "err" /\ Continue(Errno)
              \/ r \in {"panic", "outside"} /\ Stop(r)
    /\ UNCHANGED <<mem, brk, Info, mmap_next, expect>>

-----------------------------------------------------------------------------
(* Calls that fill a buffer of the guest *)

PathLen == 3                        \* the length of elf_path

LinkLen(bufsiz) == IF bufsiz < PathLen THEN bufsiz ELSE PathLen

\* n addresses from a are written by the emulator: g2h, then the bytes
FillBuffer(a, n, v, result) ==
    \/ /\ InSpace(a) /\ CanAccess(a, n, "w")
       /\ Fills(a, n, v) /\ Continue(result)
    \/ /\ ~InSpace(a)
       /\ Stop("panic") /\ UNCHANGED <<mem, ghosts>>
    \/ /\ InSpace(a) /\ ~CanAccess(a, n, "w")
       /\ Stop("segv") /\ UNCHANGED <<mem, ghosts>>

sys_getrandom ==
    /\ Guest
    /\ \E b \in Buffers : FillBuffer(b[1], b[2], Zeros(b[2]), b[2])
    /\ UNCHANGED <<prot, brk, fails, Info, mmap_next>>

\* readlinkat of /proc/self/exe, and of another path
sys_readlinkat ==
    /\ Guest
    /\ \/ \E b \in Buffers :
            FillBuffer(b[1], LinkLen(b[2]), Data(LinkLen(b[2])), LinkLen(b[2]))
       \/ Continue(Errno) /\ UNCHANGED <<mem, ghosts>>
    /\ UNCHANGED <<prot, brk, fails, Info, mmap_next>>

\* fstat of a file the host does not know leaves zeros.
sys_fstat ==
    /\ Guest
    /\ \E b \in Buffers : \/ FillBuffer(b[1], b[2], Data(b[2]), 0)
                         \/ FillBuffer(b[1], b[2], Zeros(b[2]), Errno)
    /\ UNCHANGED <<prot, brk, fails, Info, mmap_next>>

sys_uname ==
    /\ Guest
    /\ \E b \in Buffers : FillBuffer(b[1], b[2], Data(b[2]), 0)
    /\ UNCHANGED <<prot, brk, fails, Info, mmap_next>>

\* clock_gettime asks the host before it looks at the buffer.
sys_clock_gettime ==
    /\ Guest
    /\ \/ \E b \in Buffers : FillBuffer(b[1], b[2], Data(b[2]), 0)
       \/ Continue(Errno) /\ UNCHANGED <<mem, ghosts>>
    /\ UNCHANGED <<prot, brk, fails, Info, mmap_next>>

\* prlimit64 looks at the address first; without one it does nothing.
sys_prlimit64 ==
    /\ Guest
    /\ \/ \E b \in Buffers :
            \/ FillBuffer(b[1], b[2], Data(b[2]), 0)
            \/ InSpace(b[1]) /\ Continue(Errno) /\ UNCHANGED <<mem, ghosts>>
       \/ Continue(0) /\ UNCHANGED <<mem, ghosts>>
    /\ UNCHANGED <<prot, brk, fails, Info, mmap_next>>

-----------------------------------------------------------------------------
(* write and writev *)

\* What write of the host returns for a buffer of len bytes: a count, or an
\* error
HostWrite(len) == (IF len = 0 THEN {0} ELSE 1 .. len) \cup {Errno}

\* do_writev adds up what the host wrote of each buffer, and ends at the first
\* error with that as its result, also when bytes have reached the file.  The
\* loop may also end at a buffer, or at its entry in the guest's array, that is
\* not in the guest's space or not mapped.
sys_writev ==
    /\ Guest
    /\ \/ \E len \in Iovs : \E n \in HostWrite(len) : Continue(n)
       \/ Stop("panic")
       \/ Stop("segv")
    /\ UNCHANGED <<spaceVars, Info, mmap_next, ghosts>>

\* write: g2h looks at the start of the buffer, the host at what it reads.
sys_write ==
    /\ Guest
    /\ \E b \in Buffers :
       \/ /\ InSpace(b[1])
          /\ \E n \in HostWrite(b[2]) :
               (n = Errno \/ CanAccess(b[1], n, "r")) /\ Continue(n)
       \/ ~InSpace(b[1]) /\ Stop("panic")
    /\ UNCHANGED <<spaceVars, Info, mmap_next, ghosts>>

-----------------------------------------------------------------------------
(* Calls without an effect, and the ways out of the loop of main *)

\* futex only looks whether its address is one.
sys_futex ==
    /\ Guest
    /\ \E b \in Buffers :
       \/ InSpace(b[1]) /\ \E v \in {0, Errno} : Continue(v)
       \/ ~InSpace(b[1]) /\ Stop("panic")
    /\ UNCHANGED <<spaceVars, Info, mmap_next, ghosts>>

\* munmap, madvise, close, signals, ids, tgkill, rseq, ioctl, unknown calls
sys_stub ==
    /\ Guest
    /\ \E v \in {0, 1, Errno} : Continue(v)
    /\ UNCHANGED <<spaceVars, Info, mmap_next, ghosts>>

\* exit, exit_group, tgkill(SIGABRT); ebreak, an illegal instruction, another
\* exit of the execution loop, a full code buffer
leave ==
    /\ Guest
    /\ Stop("exit")
    /\ UNCHANGED <<spaceVars, Info, mmap_next, ghosts>>

UserNext ==
    \/ Load \/ start \/ guest_store
    \/ sys_brk \/ sys_mmap \/ sys_mmap_at \/ sys_mprotect
    \/ sys_getrandom \/ sys_readlinkat \/ sys_fstat \/ sys_uname
    \/ sys_clock_gettime \/ sys_prlimit64
    \/ sys_writev \/ sys_write \/ sys_futex \/ sys_stub \/ leave

UserSpec == UserInit /\ [][UserNext]_allVars

(***************************************************************************)
(* Properties                                                              *)
(***************************************************************************)
Alive == {"elf", "load", "loaded", "run"}

\* The types of the variables; the break is never below the segments.
UserTypeOK ==
    /\ status \in Alive \cup LoadErrors \cup {"exit", "segv", "panic", "outside"}
    /\ prot \in [Pages -> SUBSET {"r", "w", "x"}]
    /\ DOMAIN mem \subseteq 0 .. SpaceSize - 1 /\ \A a \in DOMAIN mem : mem[a] # Zero
    /\ fails \in 0 .. MaxFails
    /\ forfeit \subseteq named /\ named \subseteq Pages
    /\ status = "run" => brk >= end /\ mmap_next % PageSize = 0

\* The heap, the mappings and the stack have not grown into each other.
Apart == page_align_up(brk) <= MmapBase /\ mmap_next <= StackBase

\* While they are apart, the memory of the guest holds what the program, the
\* guest and the calls it made put there: growing the heap, mapping, protecting
\* and filling a buffer (syscall.rs) disturb nothing else.  The exceptions are
\* pages that the guest mapped or protected by their address before brk or mmap
\* had given them out, or mapped over without MAP_FIXED.
MemoryKept ==
    status = "run" /\ Apart =>
        \A a \in Tracked : PageOf(a) \in forfeit \/ Byte(a) = expect[a]

\* A page of the heap can be read and written, or the host has refused a mapping
\* and the page is not there at all
HeapPage(q) == prot[q] = RW \/ (fails > 0 /\ prot[q] = None)

\* brk does not tell its caller when the host refuses the pages.  All the same,
\* every page up to the break, the page the break is in included, is either
\* there to be written or, after a refusal, not there: an access is then a
\* signal, it never reaches other data.  The exceptions are pages that the guest
\* mapped or protected by their address.
HeapMapped ==
    status = "run" /\ Apart =>
        \A q \in Pages \ named :
            end <= PageAddr(q) /\ PageAddr(q) < brk => HeapPage(q)

\* load_elf and setup_stack never map anything outside of the reservation,
\* whatever the file says: only a call of the guest can.
LoadInside == status = "outside" => mmap_next > 0

\* A mapping the guest gave no address for is on pages nothing was mapped on
\* before, while the regions are apart, or on some that the guest took by their
\* address ahead of mmap.
FreshMapping ==
    [][mmap_next' > mmap_next /\ mmap_next > 0 /\ a0' = mmap_next
         /\ mmap_next' <= StackBase /\ page_align_up(brk) <= MmapBase =>
           \A q \in PagesOf(mmap_next, mmap_next' - mmap_next) \ forfeit :
               prot[q] = None]_allVars
=============================================================================
