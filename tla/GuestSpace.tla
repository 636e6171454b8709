----------------------------- MODULE GuestSpace -----------------------------
(***************************************************************************)
(* The guest address space of linux-user: a reservation of host memory,    *)
(* page protections, contents and the program break.  A guest address is   *)
(* an offset into the reservation.  Memory that was never written since it *)
(* was mapped is zero and not in the domain of mem.                        *)
(***************************************************************************)
EXTENDS Integers, Sequences

CONSTANTS
    PageSize,
    SpaceSize,      \* GUEST_SPACE_SIZE
    MaxFails        \* how often the host refuses to map memory

ASSUME SpaceConstants ==
    /\ PageSize \in Nat \ {0} /\ SpaceSize \in Nat /\ MaxFails \in Nat
    /\ SpaceSize % PageSize = 0

VARIABLES
    prot,           \* the protection of each page
    mem,            \* what the memory holds
    brk,            \* GuestSpace::brk
    fails           \* mappings the host has refused

spaceVars == <<prot, mem, brk, fails>>

\* The page an address is in, and the address a page begins at
PageOf(a) == a \div PageSize
PageAddr(q) == q * PageSize

Pages == 0 .. (PageOf(SpaceSize) - 1)

\* Protections: sets of "r", "w" and "x", and None for PROT_NONE
None == {}
RW == {"r", "w"}

Zero == <<"zero">>

Byte(a) == IF a \in DOMAIN mem THEN mem[a] ELSE Zero

page_align_down(a) == PageAddr(PageOf(a))

page_align_up(a) == PageAddr(PageOf(a + PageSize - 1))

\* The pages of the size addresses from a
PagesOf(a, size) == PageOf(a) .. PageOf(a + size - 1)

SpaceInit ==
    /\ prot = [q \in Pages |-> None]
    /\ mem = <<>>
    /\ brk = 0
    /\ fails = 0

\* The assertion of g2h
InSpace(a) == a < SpaceSize

\* What a call that maps or protects can come to
Answers == {"ok", "err", "panic", "outside"}

\* What mmap(MAP_FIXED) and mprotect of the host may answer: it wants a page address and a
\* size, and may be out of memory.  "outside" is a range that goes past the
\* end of the reservation, over whatever the host has there.
HostMmap(a, size) ==
    IF a % PageSize # 0 \/ size = 0 THEN {"err"}
    ELSE (IF fails < MaxFails THEN {"err"} ELSE {})
         \cup {IF a + size <= SpaceSize THEN "ok" ELSE "outside"}

\* mmap_fixed: the results it can have
mmap_fixed(a, size) == IF InSpace(a) THEN HostMmap(a, size) ELSE {"panic"}

\* Memory m after new pages were mapped over the size addresses from a
Wiped(m, a, size) ==
    [x \in {y \in DOMAIN m : PageOf(y) \notin PagesOf(a, size)} |-> m[x]]

\* The effect of the result r on the pages and their contents
Mapped(r, a, size, p) ==
    /\ prot' = [q \in Pages |-> IF r = "ok" /\ q \in PagesOf(a, size)
                                THEN p ELSE prot[q]]
    /\ mem' = IF r = "ok" THEN Wiped(mem, a, size) ELSE mem
    /\ fails' = IF r = "err" /\ fails < MaxFails THEN fails + 1 ELSE fails

\* mprotect, with the same answers of the host; a size of 0 changes nothing.
mprotect(a, size) ==
    IF ~InSpace(a) THEN {"panic"}
    ELSE IF size = 0 /\ a % PageSize = 0 THEN {"ok"}
    ELSE HostMmap(a, size)

Protected(r, a, size, p) ==
    /\ prot' = [q \in Pages |-> IF r = "ok" /\ q \in PagesOf(a, size)
                                THEN p ELSE prot[q]]
    /\ fails' = IF r = "err" /\ fails < MaxFails THEN fails + 1 ELSE fails

\* Memory with the n values from a on set to v[0], v[1], ...; Zero is absent
Filled(m, a, n, v) ==
    LET new == {x \in a .. a + n - 1 : v[x - a] # Zero}
    IN  [x \in (DOMAIN m \ (a .. a + n - 1)) \cup new |->
           IF x \in new THEN v[x - a] ELSE m[x]]

\* An access of the host to the n addresses from a, each page of which must
\* allow it; otherwise the process gets a signal.
CanAccess(a, n, what) ==
    n = 0 \/ \A q \in PagesOf(a, n) : q \in Pages /\ what \in prot[q]
=============================================================================
