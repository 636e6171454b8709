---------------------------- MODULE LinuxUserCalls ----------------------------
(***************************************************************************)
(* The steps of a running guest keep UserIInv, for every page size, space, *)
(* file, command and set of calls: what a step that writes memory has to  *)
(* respect, and the memory calls.  The arithmetic of pages is done once,   *)
(* in the first section; afterwards PageOf and PageAddr are not expanded.  *)
(***************************************************************************)
EXTENDS LinuxUserInv, TLAPS

-----------------------------------------------------------------------------
(* Pages and addresses *)

Aligned(a) == a % PageSize = 0

LEMMA PageSizeType == PageSize \in Nat \ {0}
BY SpaceConstants

\* Pages and their addresses are numbers.
LEMMA PageTypes == \A a \in Int : PageOf(a) \in Int /\ PageAddr(a) \in Int
BY PageSizeType DEF PageOf, PageAddr

\* Later pages begin at higher addresses, a page size apart.
LEMMA PageOrder ==
    \A q, r \in Int : /\ q < r <=> PageAddr(q) < PageAddr(r)
                      /\ PageAddr(q + 1) = PageAddr(q) + PageSize
<1>1. \A q, r \in Int : q < r => q * PageSize + PageSize <= r * PageSize
  BY PageSizeType
<1>2. \A q, r \in Int : q <= r => q * PageSize <= r * PageSize
  BY PageSizeType
<1>3. \A q \in Int : (q + 1) * PageSize = q * PageSize + PageSize
  BY PageSizeType
<1> QED  BY <1>1, <1>2, <1>3, PageSizeType DEF PageAddr

\* An address is on the page that begins at or before it.
LEMMA PageBounds ==
    \A a \in Int : PageAddr(PageOf(a)) <= a /\ a < PageAddr(PageOf(a)) + PageSize
BY PageSizeType DEF PageOf, PageAddr

\* A page begins at or before an address if it is not after its page.
LEMMA PageGalois == \A a, q \in Int : PageAddr(q) <= a <=> q <= PageOf(a)
<1> SUFFICES ASSUME NEW a \in Int, NEW q \in Int
             PROVE  PageAddr(q) <= a <=> q <= PageOf(a)
  OBVIOUS
<1>1. /\ PageOf(a) \in Int /\ PageAddr(q) \in Int /\ PageAddr(PageOf(a)) \in Int
      /\ PageAddr(PageOf(a) + 1) \in Int
  BY PageTypes
<1>2. q <= PageOf(a) => PageAddr(q) <= a
  BY <1>1, PageOrder, PageBounds
<1>3. q > PageOf(a) => PageAddr(PageOf(a) + 1) <= PageAddr(q)
  BY <1>1, PageOrder
<1>4. PageAddr(PageOf(a) + 1) = PageAddr(PageOf(a)) + PageSize
  BY <1>1, PageOrder
<1> QED  BY <1>1, <1>2, <1>3, <1>4, PageBounds, PageSizeType

\* The addresses of pages are the aligned ones.
LEMMA AlignedPage ==
    /\ \A a \in Int : Aligned(a) <=> a = PageAddr(PageOf(a))
    /\ \A q \in Int : Aligned(PageAddr(q)) /\ PageOf(PageAddr(q)) = q
<1>1. \A a \in Int : Aligned(a) => a = PageAddr(PageOf(a))
  BY PageSizeType DEF Aligned, PageOf, PageAddr
<1>2. \A q \in Int : Aligned(PageAddr(q))
  <2>1. \A q \in Int : (q * PageSize) % PageSize = 0
    BY PageSizeType
  <2> QED  BY <2>1 DEF Aligned, PageAddr
<1>3. \A q \in Int : PageOf(PageAddr(q)) = q
  <2> TAKE q \in Int
  <2>1. PageAddr(q) \in Int /\ PageOf(PageAddr(q)) \in Int
        /\ PageAddr(PageOf(PageAddr(q))) \in Int
    BY PageTypes
  <2>2. PageAddr(PageOf(PageAddr(q))) = PageAddr(q)
    BY <1>1, <1>2, <2>1
  <2> QED  BY <2>1, <2>2, PageOrder
<1> QED  BY <1>1, <1>2, <1>3, PageTypes

\* Sums and differences of aligned addresses are aligned.
LEMMA AlignedSum ==
    \A a, b \in Int : Aligned(a) /\ Aligned(b) => Aligned(a + b) /\ Aligned(a - b)
<1> SUFFICES ASSUME NEW a \in Int, NEW b \in Int, Aligned(a), Aligned(b)
             PROVE  Aligned(a + b) /\ Aligned(a - b)
  OBVIOUS
<1>1. PICK q \in Int, r \in Int : a = PageAddr(q) /\ b = PageAddr(r)
  BY AlignedPage, PageTypes
<1>2. a + b = PageAddr(q + r) /\ a - b = PageAddr(q - r)
  BY <1>1, PageSizeType DEF PageAddr
<1>3. q + r \in Int /\ q - r \in Int
  OBVIOUS
<1> QED  BY <1>2, <1>3, AlignedPage

\* page_align_down: the last aligned address that is not after a.
LEMMA DownFacts ==
    \A a \in Int : /\ page_align_down(a) \in Int /\ Aligned(page_align_down(a))
                   /\ page_align_down(a) <= a /\ a < page_align_down(a) + PageSize
BY PageTypes, PageBounds, AlignedPage DEF page_align_down

\* page_align_up: the first aligned address that is not before a.
LEMMA UpFacts ==
    \A a \in Int : /\ page_align_up(a) \in Int /\ Aligned(page_align_up(a))
                   /\ a <= page_align_up(a) /\ page_align_up(a) < a + PageSize
<1> TAKE a \in Int
<1> DEFINE b == a + PageSize - 1
<1>1. b \in Int /\ PageOf(b) \in Int /\ PageAddr(PageOf(b)) \in Int
  BY PageTypes, PageSizeType
<1>2. PageAddr(PageOf(b)) <= b /\ b < PageAddr(PageOf(b)) + PageSize
  BY <1>1, PageBounds
<1>3. Aligned(PageAddr(PageOf(b)))
  BY <1>1, AlignedPage
<1>4. page_align_up(a) = PageAddr(PageOf(b))
  BY DEF page_align_up
<1> HIDE DEF b
<1>5. b = a + PageSize - 1
  BY DEF b
<1> QED  BY <1>1, <1>2, <1>3, <1>4, <1>5, PageSizeType

\* An aligned address that is not before a is not before page_align_up(a).
LEMMA UpLeast ==
    \A a, b \in Int : Aligned(b) /\ a <= b => page_align_up(a) <= b
<1> SUFFICES ASSUME NEW a \in Int, NEW b \in Int, Aligned(b), a <= b
             PROVE  page_align_up(a) <= b
  OBVIOUS
<1> DEFINE u == page_align_up(a)
<1>1. u \in Int /\ Aligned(u) /\ u < a + PageSize
  BY UpFacts
<1> HIDE DEF u
<1>2. /\ PageOf(b) \in Int /\ PageOf(u) \in Int
      /\ b = PageAddr(PageOf(b)) /\ u = PageAddr(PageOf(u))
  BY <1>1, AlignedPage, PageTypes
<1>3. PageAddr(PageOf(b) + 1) = b + PageSize
  BY <1>2, PageOrder
<1>4. PageOf(b) + 1 <= PageOf(u) => PageAddr(PageOf(b) + 1) <= u
  BY <1>1, <1>2, PageGalois
<1>5. PageOf(b) < PageOf(u) <=> b < u
  BY <1>2, PageOrder
<1>6. u <= b
  BY <1>1, <1>2, <1>3, <1>4, <1>5, PageSizeType
<1> QED  BY <1>6 DEF u

\* The pages between two aligned addresses, and the addresses on them.
LEMMA PagesIn ==
    ASSUME NEW a \in Int, NEW b \in Int, Aligned(a), Aligned(b)
    PROVE  /\ \A q \in Int : q \in PagesOf(a, b - a) <=> a <= PageAddr(q) /\ PageAddr(q) < b
           /\ \A x \in Int : PageOf(x) \in PagesOf(a, b - a) <=> a <= x /\ x < b
           /\ PagesOf(a, b - a) \subseteq Int
<1> DEFINE i == PageOf(a)
           j == PageOf(b)
<1>1. i \in Int /\ j \in Int /\ a = PageAddr(i) /\ b = PageAddr(j)
  BY PageTypes, AlignedPage
<1>2. PageOf(b - 1) = j - 1
  <2>1. PageOf(b - 1) \in Int
    BY PageTypes
  <2>2. j - 1 <= PageOf(b - 1)
    <3>1. PageAddr(j - 1 + 1) = PageAddr(j - 1) + PageSize
      BY <1>1, PageOrder
    <3>2. PageAddr(j - 1) <= b - 1
      BY <1>1, <3>1, PageTypes, PageSizeType
    <3> QED  BY <1>1, <3>2, PageGalois
  <2>3. ~(j <= PageOf(b - 1))
    BY <1>1, PageGalois
  <2> QED  BY <1>1, <2>1, <2>2, <2>3
<1>3. PagesOf(a, b - a) = i .. (j - 1)
  <2>1. a + (b - a) - 1 = b - 1
    OBVIOUS
  <2> QED  BY <1>2, <2>1 DEF PagesOf
<1> HIDE DEF i, j
<1>4. \A q \in Int : (i <= q <=> a <= PageAddr(q)) /\ (q < j <=> PageAddr(q) < b)
  <2> TAKE q \in Int
  <2>1. PageAddr(q) \in Int
    BY PageTypes
  <2>2. (q < i <=> PageAddr(q) < PageAddr(i)) /\ (q < j <=> PageAddr(q) < PageAddr(j))
    BY <1>1, PageOrder
  <2> QED  BY <1>1, <2>1, <2>2
<1>5. \A x \in Int : PageOf(x) \in Int /\ (a <= x <=> i <= PageOf(x)) /\ (b <= x <=> j <= PageOf(x))
  <2> TAKE x \in Int
  <2>1. PageOf(x) \in Int
    BY PageTypes
  <2>2. (PageAddr(i) <= x <=> i <= PageOf(x)) /\ (PageAddr(j) <= x <=> j <= PageOf(x))
    BY <1>1, PageGalois
  <2> QED  BY <1>1, <2>1, <2>2
<1>6. \A q \in Int : q \in PagesOf(a, b - a) <=> i <= q /\ q < j
  BY <1>1, <1>3
<1>7. PagesOf(a, b - a) \subseteq Int
  BY <1>1, <1>3
<1>8. \A q \in Int : q \in PagesOf(a, b - a) <=> a <= PageAddr(q) /\ PageAddr(q) < b
  BY <1>4, <1>6
<1>9. \A x \in Int : PageOf(x) \in PagesOf(a, b - a) <=> a <= x /\ x < b
  <2> TAKE x \in Int
  <2>1. PageOf(x) \in PagesOf(a, b - a) <=> i <= PageOf(x) /\ PageOf(x) < j
    BY <1>5, <1>6
  <2> QED  BY <1>1, <1>5, <2>1
<1> QED  BY <1>7, <1>8, <1>9

\* The pages of the space, and the constants that are aligned.
LEMMA SpaceFacts ==
    /\ \A q \in Int : q \in Pages <=> 0 <= PageAddr(q) /\ PageAddr(q) < SpaceSize
    /\ Pages \subseteq Int
    /\ Aligned(SpaceSize) /\ Aligned(StackTop) /\ Aligned(StackSize) /\ Aligned(StackBase)
    /\ Aligned(Gap)
    /\ StackBase \in Nat /\ StackBase <= StackTop /\ StackTop <= SpaceSize
<1>1. Aligned(SpaceSize) /\ SpaceSize \in Int
  BY SpaceConstants DEF Aligned
<1>2. PageOf(SpaceSize) \in Int /\ SpaceSize = PageAddr(PageOf(SpaceSize))
  BY <1>1, PageTypes, AlignedPage
<1>3. /\ \A q \in Int : q \in Pages <=> 0 <= PageAddr(q) /\ PageAddr(q) < SpaceSize
      /\ Pages \subseteq Int
  <2>1. PageAddr(0) = 0
    BY PageSizeType DEF PageAddr
  <2>2. \A q \in Int : PageAddr(q) \in Int
    BY PageTypes
  <2>3. \A q \in Int : (q < 0 <=> PageAddr(q) < 0)
                      /\ (q < PageOf(SpaceSize) <=> PageAddr(q) < SpaceSize)
    BY <1>2, <2>1, PageOrder
  <2> QED  BY <1>2, <2>2, <2>3 DEF Pages
<1>4. Aligned(StackTop) /\ Aligned(StackSize) /\ Aligned(Gap)
  BY LoaderConstants, UserConstants DEF Aligned
<1>5. Aligned(StackBase)
  BY <1>4, AlignedSum, LoaderConstants DEF StackBase
<1> QED  BY <1>1, <1>3, <1>4, <1>5, LoaderConstants DEF StackBase

\* A page does not come before that of a lower address.
LEMMA PageOfMono == \A a, b \in Int : a <= b => PageOf(a) <= PageOf(b)
<1> SUFFICES ASSUME NEW a \in Int, NEW b \in Int, a <= b
             PROVE  PageOf(a) <= PageOf(b)
  OBVIOUS
<1>1. PageOf(a) \in Int /\ PageAddr(PageOf(a)) \in Int
  BY PageTypes
<1>2. PageAddr(PageOf(a)) <= b
  BY <1>1, PageBounds
<1> QED  BY <1>1, <1>2, PageGalois

\* The page of an address below an aligned one ends at or below it.
LEMMA DownLeast ==
    \A a, b \in Int : Aligned(b) /\ a < b => page_align_down(a) + PageSize <= b
<1> SUFFICES ASSUME NEW a \in Int, NEW b \in Int, Aligned(b), a < b
             PROVE  page_align_down(a) + PageSize <= b
  OBVIOUS
<1>1. /\ PageOf(a) \in Int /\ PageOf(b) \in Int /\ b = PageAddr(PageOf(b))
      /\ PageAddr(PageOf(a)) \in Int
  BY PageTypes, AlignedPage
<1>2. ~(PageOf(b) <= PageOf(a))
  BY <1>1, PageGalois
<1>3. PageAddr(PageOf(a) + 1) = PageAddr(PageOf(a)) + PageSize
  BY <1>1, PageOrder
<1>4. PageOf(a) + 1 <= PageOf(b) => PageAddr(PageOf(a) + 1) <= b
  BY <1>1, PageGalois
<1> QED  BY <1>1, <1>2, <1>3, <1>4, PageSizeType DEF page_align_down

\* Aligned addresses do not tell an address from the page it is on.
LEMMA OnPage ==
    ASSUME NEW a \in Int, Aligned(a), NEW x \in Int
    PROVE  a <= x <=> a <= PageAddr(PageOf(x))
<1>1. PageOf(x) \in Int /\ PageOf(a) \in Int /\ a = PageAddr(PageOf(a))
  BY PageTypes, AlignedPage
<1>2. a <= x <=> PageOf(a) <= PageOf(x)
  BY <1>1, PageGalois
<1>3. PageOf(x) < PageOf(a) <=> PageAddr(PageOf(x)) < a
  BY <1>1, PageOrder
<1>4. PageAddr(PageOf(x)) \in Int
  BY <1>1, PageTypes
<1> QED  BY <1>1, <1>2, <1>3, <1>4

-----------------------------------------------------------------------------
(* What the memory holds *)

\* The value of memory m at x, and the type of a memory
At(m, x) == IF x \in DOMAIN m THEN m[x] ELSE Zero
MemOK(m) == DOMAIN m \subseteq 0 .. SpaceSize - 1 /\ \A a \in DOMAIN m : m[a] # Zero

\* An address is in the domain of a memory if it does not hold zero.
LEMMA AtDomain ==
    ASSUME NEW m, MemOK(m)
    PROVE  \A x : x \in DOMAIN m <=> At(m, x) # Zero
BY DEF MemOK, At

\* New pages between two aligned addresses hold zero; nothing else changes.
LEMMA WipedFacts ==
    ASSUME NEW m, MemOK(m), NEW a \in Int, NEW b \in Int, Aligned(a), Aligned(b)
    PROVE  /\ MemOK(Wiped(m, a, b - a))
           /\ \A x \in Int : At(Wiped(m, a, b - a), x) =
                             IF a <= x /\ x < b THEN Zero ELSE At(m, x)
<1> DEFINE w == Wiped(m, a, b - a)
<1>1. DOMAIN m \subseteq Int
  BY SpaceConstants DEF MemOK
<1>2. /\ DOMAIN w = {y \in DOMAIN m : PageOf(y) \notin PagesOf(a, b - a)}
      /\ \A x \in DOMAIN w : w[x] = m[x]
  BY DEF Wiped
<1> HIDE DEF w
<1>3. \A x \in Int : PageOf(x) \in PagesOf(a, b - a) <=> a <= x /\ x < b
  BY PagesIn
<1>4. MemOK(w)
  BY <1>2 DEF MemOK
<1>5. \A x \in Int : At(w, x) = IF a <= x /\ x < b THEN Zero ELSE At(m, x)
  BY <1>2, <1>3 DEF At
<1> QED  BY <1>4, <1>5 DEF w

\* The same for any range, page by page.
LEMMA WipedPages ==
    ASSUME NEW m, MemOK(m), NEW a, NEW n
    PROVE  /\ MemOK(Wiped(m, a, n))
           /\ \A x \in Int : At(Wiped(m, a, n), x) =
                             IF PageOf(x) \in PagesOf(a, n) THEN Zero ELSE At(m, x)
<1> DEFINE w == Wiped(m, a, n)
<1>1. /\ DOMAIN w = {y \in DOMAIN m : PageOf(y) \notin PagesOf(a, n)}
      /\ \A x \in DOMAIN w : w[x] = m[x]
  BY DEF Wiped
<1> HIDE DEF w
<1>2. MemOK(w)
  BY <1>1 DEF MemOK
<1>3. \A x \in Int : At(w, x) = IF PageOf(x) \in PagesOf(a, n) THEN Zero ELSE At(m, x)
  BY <1>1 DEF At
<1> QED  BY <1>2, <1>3 DEF w

\* Filling n addresses from a sets these and no others.
LEMMA FilledFacts ==
    ASSUME NEW m, MemOK(m), NEW a \in Int, NEW n \in Nat, NEW v,
           n = 0 \/ (0 <= a /\ a + n <= SpaceSize)
    PROVE  /\ MemOK(Filled(m, a, n, v))
           /\ \A x \in Int : At(Filled(m, a, n, v), x) =
                             IF a <= x /\ x < a + n THEN v[x - a] ELSE At(m, x)
<1> DEFINE w == Filled(m, a, n, v)
           new == {x \in a .. a + n - 1 : v[x - a] # Zero}
<1>1. /\ DOMAIN w = (DOMAIN m \ (a .. a + n - 1)) \cup new
      /\ \A x \in DOMAIN w : w[x] = IF x \in new THEN v[x - a] ELSE m[x]
  BY DEF Filled
<1> HIDE DEF w
<1>2. MemOK(w)
  <2>1. a .. a + n - 1 \subseteq 0 .. SpaceSize - 1
    BY SpaceConstants
  <2>2. DOMAIN w \subseteq 0 .. SpaceSize - 1
    BY <1>1, <2>1 DEF MemOK
  <2>3. \A x \in DOMAIN w : w[x] # Zero
    BY <1>1 DEF MemOK
  <2> QED  BY <2>2, <2>3 DEF MemOK
<1>3. \A x \in Int : At(w, x) = IF a <= x /\ x < a + n THEN v[x - a] ELSE At(m, x)
  <2> TAKE x \in Int
  <2>1. x \in a .. a + n - 1 <=> a <= x /\ x < a + n
    OBVIOUS
  <2> QED  BY <1>1, <2>1 DEF At
<1> QED  BY <1>2, <1>3 DEF w

-----------------------------------------------------------------------------
(* The host's answers, and what they do to the space *)

Flags == SUBSET {"r", "w", "x"}
SpaceOK ==
    prot \in [Pages -> Flags] /\ MemOK(mem) /\ fails \in 0 .. MaxFails

\* What the answer of mmap_fixed says of the range.
LEMMA MmapAnswers ==
    ASSUME NEW a \in Int, NEW size \in Int, fails \in Nat, NEW r \in mmap_fixed(a, size)
    PROVE  /\ r \in Answers
           /\ r = "ok" => a < SpaceSize /\ Aligned(a) /\ size # 0 /\ a + size <= SpaceSize
           /\ r = "err" => fails < MaxFails \/ ~Aligned(a) \/ size = 0
           /\ r = "panic" => a >= SpaceSize
           /\ r = "outside" => a < SpaceSize /\ a + size > SpaceSize
BY SpaceConstants DEF mmap_fixed, HostMmap, InSpace, Aligned, Answers

\* The same for mprotect.
LEMMA MprotectAnswers ==
    ASSUME NEW a \in Int, NEW size \in Int, fails \in Nat, NEW r \in mprotect(a, size)
    PROVE  /\ r \in Answers
           /\ r = "ok" => a < SpaceSize /\ Aligned(a) /\ (size = 0 \/ a + size <= SpaceSize)
           /\ r = "panic" => a >= SpaceSize
           /\ r = "outside" => a < SpaceSize /\ a + size > SpaceSize
BY SpaceConstants DEF mprotect, HostMmap, InSpace, Aligned, Answers

\* The protections that mapping and protecting leave.
LEMMA ProtectedFacts ==
    ASSUME prot \in [Pages -> Flags], fails \in 0 .. MaxFails,
           NEW a \in Int, NEW b \in Int, Aligned(a), Aligned(b),
           NEW p \in Flags, NEW r, Protected(r, a, b - a, p)
    PROVE  /\ prot' \in [Pages -> Flags] /\ fails' \in 0 .. MaxFails
           /\ \A q \in Pages : prot'[q] =
                IF r = "ok" /\ a <= PageAddr(q) /\ PageAddr(q) < b THEN p ELSE prot[q]
           /\ fails' = 0 => fails = 0 /\ (r = "err" => fails >= MaxFails)
<1>1. /\ prot' = [q \in Pages |-> IF r = "ok" /\ q \in PagesOf(a, b - a)
                                  THEN p ELSE prot[q]]
      /\ fails' = IF r = "err" /\ fails < MaxFails THEN fails + 1 ELSE fails
  BY DEF Protected
<1>2. \A q \in Pages : q \in PagesOf(a, b - a) <=> a <= PageAddr(q) /\ PageAddr(q) < b
  BY PagesIn, SpaceFacts
<1>3. prot' \in [Pages -> Flags]
  BY <1>1
<1>4. \A q \in Pages : prot'[q] =
        IF r = "ok" /\ a <= PageAddr(q) /\ PageAddr(q) < b THEN p ELSE prot[q]
  BY <1>1, <1>2
<1>5. fails' \in 0 .. MaxFails /\ (fails' = 0 => fails = 0 /\ (r = "err" => fails >= MaxFails))
  BY <1>1, SpaceConstants
<1> QED  BY <1>3, <1>4, <1>5

\* The answer r to a mapping of the pages between a and b, with protection p.
MapsPages(a, b, p, r) ==
    /\ \A q \in Pages : prot'[q] =
         IF r = "ok" /\ a <= PageAddr(q) /\ PageAddr(q) < b THEN p ELSE prot[q]
    /\ \A x \in Int : At(mem', x) =
         IF r = "ok" /\ a <= x /\ x < b THEN Zero ELSE At(mem, x)
    /\ fails' = 0 => fails = 0 /\ (r = "err" => fails >= MaxFails)

\* Mapping protects the pages and empties them.
LEMMA MappedFacts ==
    ASSUME SpaceOK, NEW a \in Int, NEW b \in Int, Aligned(a), Aligned(b),
           NEW p \in Flags, NEW r, Mapped(r, a, b - a, p)
    PROVE  SpaceOK' /\ MapsPages(a, b, p, r)
<1>1. Protected(r, a, b - a, p)
  BY DEF Mapped, Protected
<1>2. mem' = IF r = "ok" THEN Wiped(mem, a, b - a) ELSE mem
  BY DEF Mapped
<1>3. MemOK(mem) /\ prot \in [Pages -> Flags] /\ fails \in 0 .. MaxFails
  BY DEF SpaceOK
<1>4. /\ MemOK(mem')
      /\ \A x \in Int : At(mem', x) =
           IF r = "ok" /\ a <= x /\ x < b THEN Zero ELSE At(mem, x)
  <2>1. CASE r = "ok"
    BY <1>2, <1>3, <2>1, WipedFacts
  <2>2. CASE r # "ok"
    BY <1>2, <1>3, <2>2
  <2> QED  BY <2>1, <2>2
<1>5. /\ prot' \in [Pages -> Flags] /\ fails' \in 0 .. MaxFails
      /\ \A q \in Pages : prot'[q] =
           IF r = "ok" /\ a <= PageAddr(q) /\ PageAddr(q) < b THEN p ELSE prot[q]
      /\ fails' = 0 => fails = 0 /\ (r = "err" => fails >= MaxFails)
  BY <1>1, <1>3, ProtectedFacts
<1>6. SpaceOK'
  BY <1>4, <1>5 DEF SpaceOK
<1> QED  BY <1>4, <1>5, <1>6, Zenon DEF MapsPages

\* The answer r to mapping (or, with wipe = FALSE, protecting) the n addresses
\* from a, page by page.
ChangesPages(a, n, p, r, wipe) ==
    /\ \A q \in Pages : prot'[q] =
         IF r = "ok" /\ q \in PagesOf(a, n) THEN p ELSE prot[q]
    /\ \A x \in Int : At(mem', x) =
         IF wipe /\ r = "ok" /\ PageOf(x) \in PagesOf(a, n) THEN Zero ELSE At(mem, x)
    /\ fails' = 0 => fails = 0

\* What the guest then expects there
ExpectsPages(a, n, r, wipe) ==
    \A x \in Tracked : expect'[x] =
      IF wipe /\ r = "ok" /\ PageOf(x) \in PagesOf(a, n) THEN Zero ELSE expect[x]

\* mprotect changes the protection of every page that it names, of no other.
LEMMA ProtectedPages ==
    ASSUME SpaceOK, NEW a, NEW n, NEW p \in Flags, NEW r, Protected(r, a, n, p)
    PROVE  /\ prot' \in [Pages -> Flags] /\ fails' \in 0 .. MaxFails
           /\ \A q \in Pages : prot'[q] =
                IF r = "ok" /\ q \in PagesOf(a, n) THEN p ELSE prot[q]
           /\ fails' = 0 => fails = 0
<1>1. prot \in [Pages -> Flags] /\ fails \in 0 .. MaxFails
  BY DEF SpaceOK
<1>2. /\ prot' = [q \in Pages |-> IF r = "ok" /\ q \in PagesOf(a, n) THEN p ELSE prot[q]]
      /\ fails' = IF r = "err" /\ fails < MaxFails THEN fails + 1 ELSE fails
  BY DEF Protected
<1>3. fails' \in 0 .. MaxFails /\ (fails' = 0 => fails = 0)
  BY <1>1, <1>2, SpaceConstants
<1>4. prot' \in [Pages -> Flags]
  BY <1>1, <1>2
<1>5. \A q \in Pages : prot'[q] = IF r = "ok" /\ q \in PagesOf(a, n) THEN p ELSE prot[q]
  BY <1>2
<1> QED  BY <1>3, <1>4, <1>5

\* mmap also empties them, whether it starts on a page or not.
LEMMA MappedPages ==
    ASSUME SpaceOK, NEW a, NEW n, NEW p \in Flags, NEW r, Mapped(r, a, n, p)
    PROVE  SpaceOK' /\ ChangesPages(a, n, p, r, TRUE)
<1>1. Protected(r, a, n, p)
  BY DEF Mapped, Protected
<1>2. mem' = IF r = "ok" THEN Wiped(mem, a, n) ELSE mem
  BY DEF Mapped
<1>3. MemOK(mem)
  BY DEF SpaceOK
<1>4. /\ MemOK(mem')
      /\ \A x \in Int : At(mem', x) =
           IF r = "ok" /\ PageOf(x) \in PagesOf(a, n) THEN Zero ELSE At(mem, x)
  <2>1. CASE r = "ok"
    BY <1>2, <1>3, <2>1, WipedPages
  <2>2. CASE r # "ok"
    BY <1>2, <1>3, <2>2
  <2> QED  BY <2>1, <2>2
<1>5. /\ prot' \in [Pages -> Flags] /\ fails' \in 0 .. MaxFails
      /\ \A q \in Pages : prot'[q] =
           IF r = "ok" /\ q \in PagesOf(a, n) THEN p ELSE prot[q]
      /\ fails' = 0 => fails = 0
  BY <1>1, ProtectedPages
<1>6. SpaceOK'
  BY <1>4, <1>5 DEF SpaceOK
<1> QED  BY <1>4, <1>5, <1>6 DEF ChangesPages

\* A page stays untouched when neither its protection nor its contents change.
LEMMA UntouchedKept ==
    ASSUME MemOK(mem), MemOK(mem'), NEW q, Untouched(q), prot'[q] = prot[q],
           \A x \in Int : PageOf(x) = q => At(mem', x) = At(mem, x)
    PROVE  Untouched(q)'
<1>1. prot'[q] = None /\ \A x \in DOMAIN mem : PageOf(x) # q
  BY DEF Untouched
<1>2. \A x \in DOMAIN mem' : x \in Int
  BY SpaceConstants DEF MemOK
<1>3. \A x \in DOMAIN mem' : PageOf(x) # q
  BY <1>1, <1>2, AtDomain
<1> QED  BY <1>1, <1>3 DEF Untouched

\* An untouched page holds zeros.
LEMMA UntouchedZero ==
    ASSUME NEW x, Untouched(PageOf(x))
    PROVE  At(mem, x) = Zero /\ prot[PageOf(x)] = None
BY DEF Untouched, At

\* Where an access is allowed, it is to pages of the space that allow it.
LEMMA AccessFacts ==
    ASSUME NEW a \in Nat, NEW n \in Nat, CanAccess(a, n, "w")
    PROVE  /\ n = 0 \/ a + n <= SpaceSize
           /\ \A x \in Int : a <= x /\ x < a + n =>
                PageOf(x) \in Pages /\ "w" \in prot[PageOf(x)]
<1>1. ASSUME NEW x \in Int, a <= x, x < a + n
      PROVE  PageOf(x) \in Pages /\ "w" \in prot[PageOf(x)]
  <2>1. PageOf(x) \in Int /\ PageOf(a) \in Int /\ PageOf(a + n - 1) \in Int
    BY PageTypes
  <2>2. PageOf(a) <= PageOf(x) /\ PageOf(x) <= PageOf(a + n - 1)
    BY <1>1, PageOfMono
  <2>3. PageOf(x) \in PagesOf(a, n)
    BY <2>1, <2>2 DEF PagesOf
  <2>4. n # 0
    BY <1>1
  <2> QED  BY <2>3, <2>4 DEF CanAccess
<1>2. CASE n # 0
  <2>1. PageOf(a + n - 1) \in Pages
    BY <1>1, <1>2
  <2>2. PageOf(a + n - 1) \in Int /\ PageAddr(PageOf(a + n - 1)) < SpaceSize
    BY <2>1, SpaceFacts
  <2>3. Aligned(SpaceSize) /\ SpaceSize \in Int
    BY SpaceFacts, SpaceConstants
  <2>4. ~(SpaceSize <= a + n - 1)
    BY <2>2, <2>3, OnPage, PageTypes
  <2> QED  BY <1>1, <2>4, SpaceConstants
<1> QED  BY <1>1, <1>2

-----------------------------------------------------------------------------
(* Steps of a running guest *)

\* The regions of a guest: where they begin, and when they are apart.
LEMMA Regions ==
    ASSUME LocalsInv
    PROVE  /\ end \in Nat /\ Aligned(end) /\ brk \in Nat /\ mmap_next \in Nat
           /\ MmapBase = end + Gap /\ MmapBase \in Nat /\ Aligned(MmapBase)
           /\ end < MmapBase
           /\ Apart <=> brk <= MmapBase /\ mmap_next <= StackBase
<1>1. end \in Nat /\ Aligned(end) /\ brk \in Nat /\ mmap_next \in Nat
  BY DEF LocalsInv, Aligned
<1>2. page_align_up(end) = end
  BY <1>1, UpFacts, UpLeast
<1>3. MmapBase = end + Gap /\ MmapBase \in Nat /\ end < MmapBase
  BY <1>1, <1>2, UserConstants DEF MmapBase
<1>4. Aligned(MmapBase)
  BY <1>1, <1>3, AlignedSum, SpaceFacts, UserConstants
<1>5. page_align_up(brk) <= MmapBase <=> brk <= MmapBase
  BY <1>1, <1>3, <1>4, UpFacts, UpLeast
<1> QED  BY <1>1, <1>3, <1>4, <1>5 DEF Apart

\* The pages the guest has named are pages of the space.
GhostOK == forfeit \subseteq named /\ named \subseteq Pages

\* The types of the variables are those of the space and of the locals.
LEMMA TypeParts ==
    UserTypeOK <=>
        /\ status \in Alive \cup LoadErrors \cup {"exit", "segv", "panic", "outside"}
        /\ SpaceOK /\ GhostOK
        /\ status = "run" => brk >= end /\ Aligned(mmap_next)
BY DEF UserTypeOK, SpaceOK, GhostOK, MemOK, Flags, Aligned

\* The regions only grow: they are apart after a step only if they were before.
LEMMA Growing ==
    ASSUME LocalsInv, LocalsInv', end' = end, brk <= brk', mmap_next <= mmap_next'
    PROVE  /\ MmapBase' = MmapBase
           /\ Apart' <=> brk' <= MmapBase /\ mmap_next' <= StackBase
           /\ Apart' => Apart
<1>1. /\ brk \in Nat /\ mmap_next \in Nat /\ MmapBase \in Nat
      /\ Apart <=> brk <= MmapBase /\ mmap_next <= StackBase
  BY Regions
<1>2. MmapBase' = MmapBase
  BY DEF MmapBase
<1>3. brk' \in Nat /\ mmap_next' \in Nat
  BY DEF LocalsInv
<1>4. page_align_up(brk') <= MmapBase <=> brk' <= MmapBase
  BY <1>1, <1>3, UpFacts, UpLeast, Regions
<1>5. Apart' <=> page_align_up(brk') <= MmapBase /\ mmap_next' <= StackBase
  BY <1>2 DEF Apart, StackBase
<1> QED  BY <1>1, <1>2, <1>3, <1>4, <1>5, SpaceFacts

\* The locals of a guest that runs on.
LEMMA RunLocals ==
    ASSUME LocalsInv, status = "run", status' \in {"run", "exit", "segv", "panic", "outside"},
           UNCHANGED Info, brk' \in Nat, mmap_next' \in Nat, mmap_next <= mmap_next'
    PROVE  LocalsInv'
<1>1. mmap_next \in Nat /\ mmap_next > 0 /\ MmapBase <= mmap_next /\ MmapBase \in Nat
  BY Regions DEF LocalsInv
<1>2. <<image, argv, envp>>' \in Commands /\ ph' \in Nat \ {0} /\ end' \in Nat /\ end' % PageSize = 0
  BY DEF LocalsInv, Info
<1>3. MmapBase' = MmapBase
  BY DEF MmapBase, Info
<1>4. mmap_next' > 0 /\ MmapBase' <= mmap_next'
  BY <1>1, <1>3
<1> QED  BY <1>2, <1>4 DEF LocalsInv

\* A process that has ended is of interest to the types alone.
LEMMA DeadStep ==
    ASSUME UserTypeOK', LocalsInv', status' \notin Alive
    PROVE  UserIInv'
BY DEF UserIInv, FreeInv, Free, SegsInv, MemoryKept, HeapMapped, Alive

\* What a step of a guest that runs on has to keep.
LEMMA RunStep ==
    ASSUME UserIInv, status = "run", status' = "run", UNCHANGED Info, SpaceOK',
           GhostOK', forfeit \subseteq forfeit',
           brk' \in Nat, brk <= brk', mmap_next' \in Nat, mmap_next <= mmap_next',
           Aligned(mmap_next'),
           \A q \in Pages \ forfeit' :
             /\ Apart'
             /\ \/ brk' <= PageAddr(q) /\ PageAddr(q) < MmapBase
                \/ mmap_next' <= PageAddr(q) /\ PageAddr(q) < StackBase
             => /\ prot'[q] = prot[q]
                /\ \A x \in Int : PageOf(x) = q => At(mem', x) = At(mem, x),
           Apart' => \A a \in Tracked : PageOf(a) \in forfeit' \/ At(mem', a) = expect'[a],
           Apart' =>
             \A q \in Pages \ named' : end <= PageAddr(q) /\ PageAddr(q) < brk' => HeapPage(q)'
    PROVE  UserIInv'
<1>1. UserTypeOK /\ LocalsInv /\ FreeInv
  BY DEF UserIInv
<1>2. /\ end \in Nat /\ brk \in Nat /\ mmap_next \in Nat /\ MmapBase \in Nat
      /\ brk >= end /\ SpaceOK
  BY <1>1, Regions, TypeParts
<1>3. LocalsInv'
  BY <1>1, RunLocals
<1>4. end' = end
  BY DEF Info
<1>5. MmapBase' = MmapBase /\ (Apart' => Apart)
  BY <1>1, <1>3, <1>4, Growing
<1>6. UserTypeOK'
  <2>1. brk' >= end'
    BY <1>2, <1>4
  <2>2. /\ status' \in Alive \cup LoadErrors \cup {"exit", "segv", "panic", "outside"}
        /\ SpaceOK' /\ GhostOK'
        /\ status' = "run" => brk' >= end' /\ Aligned(mmap_next')
    BY <2>1 DEF Alive
  <2> QED  BY <2>2 DEF UserTypeOK, SpaceOK, GhostOK, MemOK, Flags, Aligned, Pages
<1>7. FreeInv'
  <2> SUFFICES ASSUME NEW q \in Pages \ forfeit', Free(q)'
               PROVE  Untouched(q)'
    BY DEF FreeInv, Pages
  <2>1. /\ Apart'
        /\ \/ brk' <= PageAddr(q) /\ PageAddr(q) < MmapBase
           \/ mmap_next' <= PageAddr(q) /\ PageAddr(q) < StackBase
    BY <1>5 DEF Free, Unused, PageAddr, StackBase
  <2>2. PageAddr(q) \in Int
    BY SpaceFacts, PageTypes
  <2>a. Unused(q)
    BY <1>2, <2>1, <2>2 DEF Unused
  <2>3. Free(q)
    BY <1>5, <2>1, <2>a, Zenon DEF Free
  <2>4. Untouched(q)
    BY <1>1, <2>3 DEF FreeInv
  <2>5. MemOK(mem) /\ MemOK(mem')
    BY <1>2 DEF SpaceOK, MemOK
  <2> QED  BY <2>1, <2>4, <2>5, UntouchedKept
<1>8. SegsInv'
  BY DEF SegsInv
<1>9. MemoryKept'
  BY DEF MemoryKept, Byte, At, PageOf
<1>10. HeapMapped'
  BY <1>4 DEF HeapMapped, Pages, PageAddr
<1> QED  BY <1>3, <1>6, <1>7, <1>8, <1>9, <1>10 DEF UserIInv

\* The guest ends: what it leaves only has to be of the right type.
LEMMA StopStep ==
    ASSUME UserIInv, status = "run", status' \in {"exit", "segv", "panic", "outside"},
           UNCHANGED Info, SpaceOK', GhostOK', brk' \in Nat, mmap_next' \in Nat,
           mmap_next <= mmap_next'
    PROVE  UserIInv'
<1>1. LocalsInv
  BY DEF UserIInv
<1>2. LocalsInv'
  BY <1>1, RunLocals
<1>3. UserTypeOK'
  BY DEF UserTypeOK, SpaceOK, GhostOK, MemOK, Flags, Pages
<1>4. status' \notin Alive
  BY DEF Alive
<1> QED  BY <1>2, <1>3, <1>4, DeadStep

\* The facts about the state that the steps below start from.
LEMMA RunFacts ==
    ASSUME UserIInv, status = "run"
    PROVE  /\ LocalsInv /\ SpaceOK /\ GhostOK /\ MemOK(mem) /\ fails \in Nat
           /\ brk \in Nat /\ mmap_next \in Nat /\ Aligned(mmap_next)
           /\ MmapBase \in Nat /\ Aligned(MmapBase) /\ MmapBase <= mmap_next
           /\ end \in Nat /\ end <= brk
           /\ Apart => \A a \in Tracked : PageOf(a) \in forfeit \/ At(mem, a) = expect[a]
           /\ Apart =>
                \A q \in Pages \ named : end <= PageAddr(q) /\ PageAddr(q) < brk => HeapPage(q)
           /\ \A q \in Pages \ forfeit :
                /\ Apart
                /\ \/ brk <= PageAddr(q) /\ PageAddr(q) < MmapBase
                   \/ mmap_next <= PageAddr(q) /\ PageAddr(q) < StackBase
                => Untouched(q)
<1>1. LocalsInv /\ UserTypeOK
  BY DEF UserIInv
<1>2. SpaceOK /\ GhostOK /\ end <= brk /\ Aligned(mmap_next)
  BY <1>1, Regions, TypeParts
<1>3. MemOK(mem) /\ fails \in Nat
  BY <1>2, SpaceConstants DEF SpaceOK
<1>4. MmapBase <= mmap_next
  BY <1>1 DEF LocalsInv
<1>5. Apart => \A a \in Tracked : PageOf(a) \in forfeit \/ At(mem, a) = expect[a]
  BY DEF UserIInv, MemoryKept, Byte, At
<1>6. Apart =>
        \A q \in Pages \ named : end <= PageAddr(q) /\ PageAddr(q) < brk => HeapPage(q)
  BY DEF UserIInv, HeapMapped
<1>7. \A q \in Pages \ forfeit :
        /\ Apart
        /\ \/ brk <= PageAddr(q) /\ PageAddr(q) < MmapBase
           \/ mmap_next <= PageAddr(q) /\ PageAddr(q) < StackBase
        => Untouched(q)
  BY DEF UserIInv, FreeInv, Free, Unused
<1> QED  BY <1>1, <1>2, <1>3, <1>4, <1>5, <1>6, <1>7, Regions

\* Most calls leave what the guest knows of its memory as it is.
LEMMA GhostsKept ==
    ASSUME GhostOK, UNCHANGED ghosts
    PROVE  GhostOK' /\ forfeit' = forfeit /\ named' = named /\ expect' = expect
BY DEF GhostOK, ghosts, Pages

\* A page of the heap remains one when its protection does not change.
LEMMA HeapPageKept ==
    ASSUME NEW q, HeapPage(q), prot'[q] = prot[q], fails \in Nat, fails' \in Nat,
           fails' = 0 => fails = 0
    PROVE  HeapPage(q)'
<1>1. fails > 0 => fails' > 0
  OBVIOUS
<1> QED  BY <1>1 DEF HeapPage

\* A call that changes nothing but its result.
LEMMA QuietStep ==
    ASSUME UserIInv, status = "run", status' = "run",
           UNCHANGED <<prot, mem, brk, fails, Info, mmap_next, ghosts>>
    PROVE  UserIInv'
<1>1. /\ LocalsInv /\ SpaceOK /\ GhostOK /\ brk \in Nat /\ mmap_next \in Nat /\ Aligned(mmap_next)
      /\ Apart => \A a \in Tracked : PageOf(a) \in forfeit \/ At(mem, a) = expect[a]
      /\ Apart =>
           \A q \in Pages \ named : end <= PageAddr(q) /\ PageAddr(q) < brk => HeapPage(q)
  BY RunFacts
<1>2. SpaceOK' /\ Apart' = Apart
  BY <1>1 DEF SpaceOK, Apart, MmapBase, MemOK, Info
<1>3. GhostOK' /\ forfeit' = forfeit /\ named' = named /\ expect' = expect
  BY <1>1, GhostsKept
<1>4. \A q \in Pages : HeapPage(q) => HeapPage(q)'
  BY DEF HeapPage
<1> QED  BY <1>1, <1>2, <1>3, <1>4, RunStep

\* Filling addresses that may be written: a store, or a call that fills a buffer.
LEMMA FillStep ==
    ASSUME UserIInv, status = "run", status' = "run",
           UNCHANGED <<prot, brk, fails, Info, mmap_next>>,
           NEW a \in Nat, NEW n \in Nat, NEW v, CanAccess(a, n, "w"), Fills(a, n, v)
    PROVE  UserIInv'
<1>1. /\ LocalsInv /\ SpaceOK /\ GhostOK /\ MemOK(mem) /\ brk \in Nat /\ mmap_next \in Nat
      /\ Aligned(mmap_next)
      /\ Apart => \A x \in Tracked : PageOf(x) \in forfeit \/ At(mem, x) = expect[x]
      /\ Apart =>
           \A q \in Pages \ named : end <= PageAddr(q) /\ PageAddr(q) < brk => HeapPage(q)
  BY RunFacts
<1>2. /\ mem' = Filled(mem, a, n, v)
      /\ expect' = [x \in Tracked |-> IF x \in a .. a + n - 1 THEN v[x - a] ELSE expect[x]]
      /\ forfeit' = forfeit /\ named' = named
  BY DEF Fills
<1>3. /\ n = 0 \/ a + n <= SpaceSize
      /\ \A x \in Int : a <= x /\ x < a + n =>
           PageOf(x) \in Pages /\ "w" \in prot[PageOf(x)]
  BY AccessFacts
<1>4. /\ MemOK(mem')
      /\ \A x \in Int : At(mem', x) = IF a <= x /\ x < a + n THEN v[x - a] ELSE At(mem, x)
  <2>1. n = 0 \/ (0 <= a /\ a + n <= SpaceSize)
    BY <1>3
  <2>2. /\ MemOK(Filled(mem, a, n, v))
        /\ \A x \in Int : At(Filled(mem, a, n, v), x) =
                          IF a <= x /\ x < a + n THEN v[x - a] ELSE At(mem, x)
    BY <1>1, <2>1, FilledFacts
  <2> QED  BY <1>2, <2>2
<1>5. SpaceOK' /\ Apart' = Apart
  BY <1>1, <1>4 DEF SpaceOK, Apart, MmapBase, MemOK, Info
<1>g. GhostOK' /\ forfeit \subseteq forfeit'
  BY <1>1, <1>2 DEF GhostOK, Pages
<1>6. ASSUME NEW q \in Pages \ forfeit', Apart,
             \/ brk <= PageAddr(q) /\ PageAddr(q) < MmapBase
             \/ mmap_next <= PageAddr(q) /\ PageAddr(q) < StackBase
      PROVE  \A x \in Int : PageOf(x) = q => At(mem', x) = At(mem, x)
  <2>1. Untouched(q)
    BY <1>2, <1>6, RunFacts
  <2>2. "w" \notin prot[q]
    BY <2>1 DEF Untouched, None
  <2> QED  BY <1>3, <1>4, <2>2
<1>7. Apart => \A x \in Tracked : PageOf(x) \in forfeit' \/ At(mem', x) = expect'[x]
  <2> SUFFICES ASSUME Apart, NEW x \in Tracked, PageOf(x) \notin forfeit
               PROVE  At(mem', x) = expect'[x]
    BY <1>2
  <2>1. x \in Int
    BY UserConstants
  <2>2. x \in a .. a + n - 1 <=> a <= x /\ x < a + n
    BY <2>1
  <2> QED  BY <1>1, <1>2, <1>4, <2>1, <2>2
<1>8. /\ UNCHANGED Info /\ brk' = brk /\ brk' \in Nat /\ brk <= brk'
      /\ mmap_next' = mmap_next /\ mmap_next' \in Nat /\ mmap_next <= mmap_next'
      /\ Aligned(mmap_next') /\ prot' = prot /\ fails' = fails
  BY <1>1
<1>9. \A q \in Pages \ forfeit' :
        /\ Apart'
        /\ \/ brk' <= PageAddr(q) /\ PageAddr(q) < MmapBase
           \/ mmap_next' <= PageAddr(q) /\ PageAddr(q) < StackBase
        => /\ prot'[q] = prot[q]
           /\ \A x \in Int : PageOf(x) = q => At(mem', x) = At(mem, x)
  BY <1>5, <1>6, <1>8, Zenon
<1>10. Apart' => \A x \in Tracked : PageOf(x) \in forfeit' \/ At(mem', x) = expect'[x]
  BY <1>5, <1>7, Zenon
<1>11. Apart' =>
         \A q \in Pages \ named' : end <= PageAddr(q) /\ PageAddr(q) < brk' => HeapPage(q)'
  <2>1. \A q \in Pages : HeapPage(q) => HeapPage(q)'
    BY <1>8 DEF HeapPage
  <2> QED  BY <1>1, <1>2, <1>5, <1>8, <2>1, Zenon
<1> QED  BY <1>5, <1>8, <1>9, <1>10, <1>11, <1>g, RunStep

\* A call that fills a buffer, whatever becomes of it.
LEMMA BufferStep ==
    ASSUME UserIInv, status = "run", NEW a \in Nat, NEW n \in Nat, NEW v, NEW result,
           FillBuffer(a, n, v, result), UNCHANGED <<prot, brk, fails, Info, mmap_next>>
    PROVE  UserIInv'
<1>1. CASE CanAccess(a, n, "w") /\ Fills(a, n, v) /\ Continue(result)
  BY <1>1, FillStep DEF Continue
<1>2. CASE (Stop("panic") \/ Stop("segv")) /\ UNCHANGED <<mem, ghosts>>
  <2>1. SpaceOK /\ GhostOK /\ brk \in Nat /\ mmap_next \in Nat
    BY RunFacts
  <2>2. SpaceOK' /\ GhostOK'
    BY <1>2, <2>1, GhostsKept DEF SpaceOK, MemOK
  <2> QED  BY <1>2, <2>1, <2>2, StopStep DEF Stop
<1> QED  BY <1>1, <1>2 DEF FillBuffer

\* brk maps the pages between the old and the new break, which are free.
LEMMA BrkStep ==
    ASSUME UserIInv, Guest, sys_brk
    PROVE  UserIInv'
<1> USE DEF GrowTo, GrowFrom
<1>1. status = "run" /\ UNCHANGED <<Info, mmap_next, ghosts>>
  BY DEF Guest, sys_brk
<1>2. /\ LocalsInv /\ SpaceOK /\ GhostOK /\ MemOK(mem) /\ fails \in Nat
      /\ brk \in Nat /\ mmap_next \in Nat /\ Aligned(mmap_next)
      /\ MmapBase \in Nat /\ Aligned(MmapBase) /\ MmapBase <= mmap_next
      /\ end \in Nat /\ end <= brk
      /\ Apart => \A a \in Tracked : PageOf(a) \in forfeit \/ At(mem, a) = expect[a]
      /\ Apart =>
           \A q \in Pages \ named : end <= PageAddr(q) /\ PageAddr(q) < brk => HeapPage(q)
  BY <1>1, RunFacts
<1>g. GhostOK' /\ forfeit' = forfeit /\ named' = named /\ expect' = expect
      /\ forfeit \subseteq forfeit'
  BY <1>1, <1>2, GhostsKept
<1>3. PICK new \in BrkArgs :
       \/ /\ Continue(brk)
          /\ UNCHANGED <<prot, mem, brk, fails>>
       \/ /\ new >= brk /\ page_align_up(new) <= page_align_up(brk)
          /\ brk' = new /\ Continue(new)
          /\ UNCHANGED <<prot, mem, fails>>
       \/ /\ new >= brk /\ page_align_up(new) > page_align_up(brk)
          /\ \E r \in mmap_fixed(page_align_up(brk), page_align_up(new) - page_align_up(brk)) :
                 /\ Mapped(r, page_align_up(brk), page_align_up(new) - page_align_up(brk), RW)
                 /\ \/ r \in {"ok", "err"} /\ brk' = new /\ Continue(new)
                    \/ r \in {"panic", "outside"} /\ Stop(r) /\ UNCHANGED brk
  BY DEF sys_brk
<1> DEFINE a == page_align_up(brk)
           b == page_align_up(new)
<1>4. new \in Nat
  BY UserConstants
<1>5. /\ a \in Int /\ Aligned(a) /\ brk <= a
      /\ b \in Int /\ Aligned(b) /\ new <= b
  BY <1>2, <1>4, UpFacts
<1>6. \A q \in Pages : /\ PageAddr(q) \in Int
                       /\ brk <= PageAddr(q) => a <= PageAddr(q)
                       /\ new <= PageAddr(q) => b <= PageAddr(q)
  BY <1>2, <1>4, SpaceFacts, PageTypes, AlignedPage, UpLeast
<1>7. CASE Continue(brk) /\ UNCHANGED <<prot, mem, brk, fails>>
  BY <1>1, <1>7, QuietStep DEF Continue
<1>8. CASE /\ new >= brk /\ b <= a
           /\ brk' = new /\ Continue(new)
           /\ UNCHANGED <<prot, mem, fails>>
  <2> HIDE DEF a, b
  <2>1. SpaceOK' /\ status' = "run" /\ brk' \in Nat /\ brk <= brk'
    BY <1>1, <1>2, <1>4, <1>8 DEF SpaceOK, MemOK, Continue
  <2>2. LocalsInv'
    BY <1>1, <1>2, <2>1, RunLocals
  <2>3. Apart' => Apart
    BY <1>1, <1>2, <2>1, <2>2, Growing DEF Info
  <2>4. \A q \in Pages : PageAddr(q) < brk' => PageAddr(q) < brk
    BY <1>2, <1>4, <1>5, <1>6, <1>8
  <2>5. \A q \in Pages : HeapPage(q) => HeapPage(q)'
    BY <1>8 DEF HeapPage
  <2> QED  BY <1>1, <1>2, <1>8, <1>g, <2>1, <2>3, <2>4, <2>5, RunStep
<1>9. ASSUME new >= brk, b > a, NEW r \in mmap_fixed(a, b - a), Mapped(r, a, b - a, RW),
             \/ r \in {"ok", "err"} /\ brk' = new /\ Continue(new)
             \/ r \in {"panic", "outside"} /\ Stop(r) /\ UNCHANGED brk
      PROVE  UserIInv'
  <2> HIDE DEF a, b
  <2>1. /\ SpaceOK'
        /\ \A q \in Pages : prot'[q] =
             IF r = "ok" /\ a <= PageAddr(q) /\ PageAddr(q) < b THEN RW ELSE prot[q]
        /\ \A x \in Int : At(mem', x) =
             IF r = "ok" /\ a <= x /\ x < b THEN Zero ELSE At(mem, x)
        /\ fails' = 0 => fails = 0 /\ (r = "err" => fails >= MaxFails)
    <3>1. RW \in Flags
      BY DEF RW, Flags
    <3>2. SpaceOK' /\ MapsPages(a, b, RW, r)
      BY <1>2, <1>5, <1>9, <3>1, MappedFacts
    <3> QED  BY <3>2 DEF MapsPages
  <2>2. /\ r = "ok" => b <= SpaceSize
        /\ r = "err" => fails < MaxFails
    BY <1>2, <1>5, <1>9, MmapAnswers
  <2>3. CASE r \in {"panic", "outside"} /\ Stop(r) /\ UNCHANGED brk
    <3>1. status' \in {"exit", "segv", "panic", "outside"}
      BY <2>3 DEF Stop
    <3>2. /\ UNCHANGED Info /\ brk' \in Nat /\ mmap_next' \in Nat
          /\ mmap_next <= mmap_next'
      BY <1>1, <1>2, <2>3
    <3> QED  BY <1>1, <1>g, <2>1, <3>1, <3>2, StopStep
  <2>4. CASE r \in {"ok", "err"} /\ brk' = new /\ Continue(new)
    <3>1. status' = "run" /\ brk' \in Nat /\ brk <= brk'
      BY <1>1, <1>2, <1>4, <1>9, <2>4 DEF Continue
    <3>2. LocalsInv'
      BY <1>1, <1>2, <3>1, RunLocals
    <3>3. Apart' => Apart /\ new <= MmapBase
      BY <1>1, <1>2, <2>4, <3>1, <3>2, Growing DEF Info
    <3>4. Apart' => b <= MmapBase
      BY <1>2, <1>4, <3>3, UpLeast DEF b
    <3>5. \A q \in Pages \ forfeit' :
            /\ Apart'
            /\ \/ brk' <= PageAddr(q) /\ PageAddr(q) < MmapBase
               \/ mmap_next' <= PageAddr(q) /\ PageAddr(q) < StackBase
            => /\ prot'[q] = prot[q]
               /\ \A x \in Int : PageOf(x) = q => At(mem', x) = At(mem, x)
      <4> SUFFICES ASSUME NEW q \in Pages \ forfeit', Apart',
                          \/ brk' <= PageAddr(q) /\ PageAddr(q) < MmapBase
                          \/ mmap_next' <= PageAddr(q) /\ PageAddr(q) < StackBase
                   PROVE  /\ prot'[q] = prot[q]
                          /\ \A x \in Int : PageOf(x) = q => At(mem', x) = At(mem, x)
        OBVIOUS
      <4>1. b <= PageAddr(q) /\ PageAddr(q) \in Int
        BY <1>1, <1>2, <1>5, <1>6, <2>4, <3>4
      <4>2. prot'[q] = prot[q]
        BY <1>5, <2>1, <4>1
      <4>3. \A x \in Int : PageOf(x) = q => b <= x
        BY <1>5, <4>1, OnPage
      <4>4. \A x \in Int : PageOf(x) = q => At(mem', x) = At(mem, x)
        <5> SUFFICES ASSUME NEW x \in Int, PageOf(x) = q
                     PROVE  At(mem', x) = At(mem, x)
          OBVIOUS
        <5>1. ~(x < b)
          BY <1>5, <4>3
        <5> QED  BY <2>1, <5>1, Zenon
      <4> QED  BY <4>2, <4>4
    <3>6. Apart' => \A x \in Tracked : PageOf(x) \in forfeit' \/ At(mem', x) = expect'[x]
      <4> SUFFICES ASSUME Apart', NEW x \in Tracked, PageOf(x) \notin forfeit
                   PROVE  At(mem', x) = expect[x]
        BY <1>g
      <4>1. x \in Int /\ PageOf(x) \in Int /\ PageAddr(PageOf(x)) \in Int
        BY UserConstants, PageTypes
      <4>2. CASE r = "ok" /\ a <= x /\ x < b
        <5>1. a <= PageAddr(PageOf(x)) /\ ~(b <= PageAddr(PageOf(x)))
          BY <1>5, <4>1, <4>2, OnPage
        <5>2. PageOf(x) \in Pages
          BY <1>2, <1>5, <2>2, <4>1, <4>2, <5>1, SpaceFacts, SpaceConstants
        <5>a. brk <= PageAddr(PageOf(x)) /\ PageAddr(PageOf(x)) < MmapBase
          BY <1>2, <1>5, <3>4, <4>1, <5>1
        <5>3. Untouched(PageOf(x))
          BY <1>1, <3>3, <5>2, <5>a, RunFacts
        <5> QED  BY <1>1, <1>2, <2>1, <3>3, <4>1, <4>2, <5>3, UntouchedZero
      <4>3. CASE ~(r = "ok" /\ a <= x /\ x < b)
        BY <1>1, <1>2, <2>1, <3>3, <4>1, <4>3
      <4> QED  BY <4>2, <4>3
    <3>7. Apart' =>
            \A q \in Pages \ named' : end <= PageAddr(q) /\ PageAddr(q) < brk' => HeapPage(q)'
      <4> SUFFICES ASSUME Apart', NEW q \in Pages \ named',
                          end <= PageAddr(q), PageAddr(q) < brk'
                   PROVE  HeapPage(q)'
        OBVIOUS
      <4>a. /\ fails \in Nat /\ fails' \in Nat /\ MaxFails \in Nat
            /\ fails' = 0 => fails = 0 /\ (r = "err" => fails >= MaxFails)
            /\ r = "err" => fails < MaxFails
        BY <1>2, <2>1, <2>2, SpaceConstants DEF SpaceOK
      <4>1. r = "err" => fails' > 0
        BY <4>a
      <4>2. PageAddr(q) < brk \/ (a <= PageAddr(q) /\ PageAddr(q) < b)
        BY <1>2, <1>4, <1>5, <1>6, <2>4
      <4>3. CASE PageAddr(q) < brk
        <5>1. HeapPage(q)
          BY <1>2, <1>g, <3>3, <4>3
        <5>2. ~(a <= PageAddr(q))
          BY <1>2, <1>5, <1>6, <4>3
        <5>3. prot'[q] = prot[q]
          BY <2>1, <5>2
        <5> QED  BY <4>a, <5>1, <5>3, HeapPageKept
      <4>4. CASE a <= PageAddr(q) /\ PageAddr(q) < b
        <5>1. CASE r = "ok"
          <6>1. prot'[q] = RW
            BY <2>1, <4>4, <5>1
          <6> QED  BY <6>1 DEF HeapPage
        <5>2. CASE r = "err"
          <6>1. prot'[q] = prot[q]
            BY <2>1, <5>2
          <6>2. brk <= PageAddr(q) /\ PageAddr(q) < MmapBase
            BY <1>2, <1>5, <1>6, <3>4, <4>4
          <6>3. q \in Pages \ forfeit
            BY <1>g DEF GhostOK
          <6>4. Untouched(q)
            BY <1>1, <3>3, <6>2, <6>3, RunFacts
          <6>5. prot'[q] = None
            BY <6>1, <6>4 DEF Untouched
          <6> QED  BY <4>1, <5>2, <6>5 DEF HeapPage
        <5> QED  BY <2>4, <5>1, <5>2
      <4> QED  BY <4>2, <4>3, <4>4
    <3>8. UNCHANGED Info /\ mmap_next' = mmap_next /\ mmap_next <= mmap_next'
      BY <1>1, <1>2
    <3>9. mmap_next' \in Nat /\ Aligned(mmap_next')
      BY <1>2, <3>8
    <3> QED  BY <1>1, <1>g, <2>1, <3>1, <3>5, <3>6, <3>7, <3>8, <3>9, RunStep
  <2> QED  BY <1>9, <2>3, <2>4
<1> QED  BY <1>3, <1>7, <1>8, <1>9

\* A mapping of the pages between a and b was answered with r.
Taken(a, b, p, r) ==
    /\ \A q \in Pages : prot'[q] =
         IF r = "ok" /\ a <= PageAddr(q) /\ PageAddr(q) < b THEN p ELSE prot[q]
    /\ \A x \in Int : At(mem', x) =
         IF r = "ok" /\ a <= x /\ x < b THEN Zero ELSE At(mem, x)
    /\ fails' = 0 => fails = 0
    /\ r = "ok" => a < SpaceSize /\ b <= SpaceSize /\ Continue(a)
    /\ r = "err" => Continue(Errno)
    /\ r \in {"panic", "outside"} => Stop(r)

\* What mapping len addresses at an aligned address does to the space.
LEMMA DoMmapFacts ==
    ASSUME SpaceOK, fails \in Nat, NEW a \in Int, Aligned(a), NEW len \in Nat, NEW p \in Prots,
           NEW b \in Int, b = a + page_align_up(len), NEW r, DoMmap(r, a, len, p)
    PROVE  SpaceOK' /\ Aligned(b) /\ r \in Answers /\ Taken(a, b, p, r)
<1>1. /\ r \in mmap_fixed(a, page_align_up(len))
      /\ Mapped(r, a, page_align_up(len), p)
      /\ \/ r = "ok" /\ Continue(a)
         \/ r = "err" /\ Continue(Errno)
         \/ r \in {"panic", "outside"} /\ Stop(r)
  BY DEF DoMmap
<1>2. page_align_up(len) \in Int /\ Aligned(page_align_up(len))
  BY UpFacts
<1>3. Aligned(b)
  BY <1>2, AlignedSum
<1>4. b - a = page_align_up(len)
  BY <1>2
<1>5. p \in Flags
  BY UserConstants DEF Flags
<1>6. Mapped(r, a, b - a, p)
  BY <1>1, <1>4
<1>7. SpaceOK' /\ MapsPages(a, b, p, r)
  BY <1>3, <1>5, <1>6, MappedFacts
<1>8. r \in Answers /\ (r = "ok" => a < SpaceSize /\ b <= SpaceSize)
  BY <1>1, <1>2, MmapAnswers
<1>9. Taken(a, b, p, r)
  BY <1>1, <1>7, <1>8, Zenon DEF Taken, MapsPages
<1> QED  BY <1>3, <1>7, <1>8, <1>9

\* mmap without an address takes the next pages, which are free.
LEMMA MmapStep ==
    ASSUME UserIInv, sys_mmap
    PROVE  UserIInv'
<1>1. status = "run" /\ UNCHANGED <<brk, Info, ghosts>>
  BY DEF Guest, sys_mmap
<1>2. /\ LocalsInv /\ SpaceOK /\ GhostOK /\ MemOK(mem) /\ fails \in Nat
      /\ brk \in Nat /\ mmap_next \in Nat /\ Aligned(mmap_next)
      /\ MmapBase \in Nat /\ Aligned(MmapBase) /\ MmapBase <= mmap_next
      /\ end \in Nat /\ end <= brk
      /\ Apart => \A a \in Tracked : PageOf(a) \in forfeit \/ At(mem, a) = expect[a]
      /\ Apart =>
           \A q \in Pages \ named : end <= PageAddr(q) /\ PageAddr(q) < brk => HeapPage(q)
  BY <1>1, RunFacts
<1>e. mmap_next \in Int /\ MmapBase \in Int /\ Aligned(mmap_next) /\ MmapBase <= mmap_next
      /\ 0 <= mmap_next
  BY <1>2
<1>g. GhostOK' /\ forfeit' = forfeit /\ named' = named /\ expect' = expect
      /\ forfeit \subseteq forfeit'
  BY <1>1, <1>2, GhostsKept
<1>3. PICK len \in MmapLens, p \in Prots, r \in Answers :
        DoMmap(r, mmap_next, len, p) /\ mmap_next' = mmap_next + page_align_up(len)
  BY DEF sys_mmap, Bump
<1>4. len \in Nat
  BY UserConstants
<1>5. page_align_up(len) \in Int /\ 0 <= page_align_up(len)
  BY <1>4, UpFacts
<1> DEFINE b == mmap_next'
<1>8. mmap_next' = b /\ b = mmap_next + page_align_up(len)
  BY <1>3
<1> HIDE DEF b
<1>6. b \in Int /\ mmap_next <= b /\ b \in Nat /\ mmap_next \in Int
  BY <1>2, <1>5, <1>8
<1>7. SpaceOK' /\ Aligned(b) /\ Taken(mmap_next, b, p, r)
  BY <1>2, <1>3, <1>4, <1>6, <1>8, DoMmapFacts
<1>b. /\ \A q \in Pages : prot'[q] =
           IF r = "ok" /\ mmap_next <= PageAddr(q) /\ PageAddr(q) < b THEN p ELSE prot[q]
      /\ \A x \in Int : At(mem', x) =
           IF r = "ok" /\ mmap_next <= x /\ x < b THEN Zero ELSE At(mem, x)
      /\ fails' = 0 => fails = 0
      /\ r = "ok" => mmap_next < SpaceSize /\ b <= SpaceSize
      /\ r \in {"ok", "err"} => status' = status
      /\ r \in {"panic", "outside"} => status' = r
  BY <1>7 DEF Taken, Continue, Stop
<1>9. \A q \in Pages : PageAddr(q) \in Int
  BY SpaceFacts, PageTypes
<1>c. UNCHANGED Info /\ brk' = brk /\ brk' \in Nat /\ mmap_next' \in Nat /\ mmap_next <= mmap_next'
  BY <1>1, <1>2, <1>6, <1>8
<1>d. Aligned(mmap_next')
  BY <1>7, <1>8
<1>10. CASE r \in {"panic", "outside"}
  <2>1. status' \in {"exit", "segv", "panic", "outside"}
    BY <1>b, <1>10
  <2> QED  BY <1>1, <1>7, <1>c, <1>g, <2>1, StopStep
<1>11. CASE r \in {"ok", "err"}
  <2>1. status' = "run"
    BY <1>1, <1>b, <1>11
  <2>2. LocalsInv'
    <3>1. status' \in {"run", "exit", "segv", "panic", "outside"}
      BY <2>1
    <3> QED  BY <1>1, <1>2, <1>c, <3>1, RunLocals
  <2>3. Apart' => Apart /\ brk <= MmapBase /\ b <= StackBase
    <3>1. end' = end /\ brk <= brk'
      BY <1>2, <1>c DEF Info
    <3>2. /\ Apart' <=> brk' <= MmapBase /\ mmap_next' <= StackBase
          /\ Apart' => Apart
      BY <1>2, <1>c, <2>2, <3>1, Growing
    <3> QED  BY <1>8, <1>c, <3>2
  <2>4. \A q \in Pages \ forfeit' :
          /\ Apart'
          /\ \/ brk' <= PageAddr(q) /\ PageAddr(q) < MmapBase
             \/ mmap_next' <= PageAddr(q) /\ PageAddr(q) < StackBase
          => /\ prot'[q] = prot[q]
             /\ \A x \in Int : PageOf(x) = q => At(mem', x) = At(mem, x)
    <3> SUFFICES ASSUME NEW q \in Pages \ forfeit', Apart',
                        \/ brk' <= PageAddr(q) /\ PageAddr(q) < MmapBase
                        \/ mmap_next' <= PageAddr(q) /\ PageAddr(q) < StackBase
                 PROVE  /\ prot'[q] = prot[q]
                        /\ \A x \in Int : PageOf(x) = q => At(mem', x) = At(mem, x)
      OBVIOUS
    <3>1. PageAddr(q) < mmap_next \/ b <= PageAddr(q)
      <4>1. PageAddr(q) \in Int
        BY <1>9
      <4> QED  BY <1>e, <1>6, <1>8, <4>1
    <3>a. ~(mmap_next <= PageAddr(q)) \/ ~(PageAddr(q) < b)
      BY <1>e, <1>6, <1>9, <3>1
    <3>2. prot'[q] = prot[q]
      BY <1>b, <3>a, Zenon
    <3>3. \A x \in Int : PageOf(x) = q => ~(mmap_next <= x) \/ ~(x < b)
      <4> SUFFICES ASSUME NEW x \in Int, PageOf(x) = q
                   PROVE  ~(mmap_next <= x) \/ ~(x < b)
        OBVIOUS
      <4>1. /\ mmap_next <= x <=> mmap_next <= PageAddr(q)
            /\ b <= x <=> b <= PageAddr(q)
        BY <1>e, <1>6, <1>7, OnPage
      <4> QED  BY <1>e, <1>6, <1>9, <3>1, <4>1
    <3>4. \A x \in Int : PageOf(x) = q => At(mem', x) = At(mem, x)
      BY <1>b, <3>3, Zenon
    <3> QED  BY <3>2, <3>4
  <2>5. Apart' => \A x \in Tracked : PageOf(x) \in forfeit' \/ At(mem', x) = expect'[x]
    <3> SUFFICES ASSUME Apart', NEW x \in Tracked, PageOf(x) \notin forfeit
                 PROVE  At(mem', x) = expect[x]
      BY <1>g
    <3>1. x \in Int /\ PageOf(x) \in Int /\ PageAddr(PageOf(x)) \in Int
      BY UserConstants, PageTypes
    <3>a. At(mem, x) = expect[x]
      BY <1>2, <2>3
    <3>2. CASE r = "ok" /\ mmap_next <= x /\ x < b
      <4>1. mmap_next <= PageAddr(PageOf(x)) /\ ~(b <= PageAddr(PageOf(x)))
        BY <1>e, <1>6, <1>7, <3>1, <3>2, OnPage
      <4>2. PageOf(x) \in Pages
        <5>1. b <= SpaceSize
          BY <1>b, <3>2
        <5>2. 0 <= PageAddr(PageOf(x)) /\ PageAddr(PageOf(x)) < SpaceSize
          BY <1>e, <1>6, <3>1, <4>1, <5>1, SpaceConstants
        <5> QED  BY <3>1, <5>2, SpaceFacts
      <4>3. PageAddr(PageOf(x)) < StackBase
        BY <1>6, <2>3, <3>1, <4>1, SpaceFacts
      <4>4. Untouched(PageOf(x))
        BY <1>1, <2>3, <4>1, <4>2, <4>3, RunFacts
      <4>5. At(mem, x) = Zero
        BY <1>2, <3>1, <4>4, UntouchedZero
      <4> QED  BY <1>b, <3>1, <3>2, <3>a, <4>5
    <3>3. CASE ~(r = "ok" /\ mmap_next <= x /\ x < b)
      BY <1>b, <3>1, <3>3, <3>a
    <3> QED  BY <3>2, <3>3
  <2>6. Apart' =>
          \A q \in Pages \ named' : end <= PageAddr(q) /\ PageAddr(q) < brk' => HeapPage(q)'
    <3> SUFFICES ASSUME Apart', NEW q \in Pages \ named',
                        end <= PageAddr(q), PageAddr(q) < brk'
                 PROVE  HeapPage(q)'
      OBVIOUS
    <3>1. ~(mmap_next <= PageAddr(q))
      BY <1>1, <1>2, <1>9, <1>c, <2>3
    <3>2. HeapPage(q)
      BY <1>2, <1>c, <1>g, <2>3
    <3>3. prot'[q] = prot[q]
      BY <1>b, <3>1
    <3>4. fails \in Nat /\ fails' \in Nat /\ (fails' = 0 => fails = 0)
      <4>1. SpaceOK /\ SpaceOK' /\ (fails' = 0 => fails = 0)
        BY <1>2, <1>7, <1>b, Zenon
      <4> QED  BY <4>1, SpaceConstants DEF SpaceOK
    <3> QED  BY <3>2, <3>3, <3>4, HeapPageKept
  <2>7. brk <= brk'
    BY <1>2, <1>c
  <2> QED  BY <1>1, <1>7, <1>c, <1>d, <1>g, <2>1, <2>4, <2>5, <2>6, <2>7, RunStep
<1> QED  BY <1>10, <1>11 DEF Answers

\* Naming pages only adds to what was named, and forfeits those still unused.
LEMMA NamesFacts ==
    ASSUME GhostOK, NEW r, NEW a, NEW n, NEW asked, Names(r, a, n, asked)
    PROVE  /\ GhostOK' /\ forfeit \subseteq forfeit'
           /\ \A q \in Pages : r = "ok" /\ q \in PagesOf(a, n) =>
                q \in named' /\ (Unused(q) => q \in forfeit')
           /\ named \subseteq named'
<1> DEFINE now == {q \in Pages : r = "ok" /\ q \in PagesOf(a, n)}
<1>1. /\ named' = named \cup now
      /\ forfeit' = forfeit \cup {q \in now : Unused(q) \/ ~asked}
  BY DEF Names
<1>2. now \subseteq Pages /\ \A q \in Pages : r = "ok" /\ q \in PagesOf(a, n) => q \in now
  OBVIOUS
<1> HIDE DEF now
<1>3. forfeit' \subseteq named' /\ named' \subseteq Pages
  BY <1>1, <1>2 DEF GhostOK
<1>4. GhostOK'
  BY <1>3 DEF GhostOK, Pages
<1> QED  BY <1>1, <1>2, <1>4

\* A call that names pages changes these and no others.
LEMMA NamedStep ==
    ASSUME UserIInv, status = "run", status' = "run", SpaceOK',
           UNCHANGED <<brk, Info, mmap_next>>,
           NEW r, NEW a, NEW n, NEW asked, Names(r, a, n, asked),
           NEW p, NEW wipe, ChangesPages(a, n, p, r, wipe), ExpectsPages(a, n, r, wipe)
    PROVE  UserIInv'
<1>1. /\ LocalsInv /\ GhostOK /\ brk \in Nat /\ mmap_next \in Nat /\ Aligned(mmap_next)
      /\ Apart => \A x \in Tracked : PageOf(x) \in forfeit \/ At(mem, x) = expect[x]
      /\ Apart =>
           \A q \in Pages \ named : end <= PageAddr(q) /\ PageAddr(q) < brk => HeapPage(q)
  BY RunFacts
<1>2. /\ GhostOK' /\ forfeit \subseteq forfeit' /\ named \subseteq named'
      /\ \A q \in Pages : r = "ok" /\ q \in PagesOf(a, n) =>
           q \in named' /\ (Unused(q) => q \in forfeit')
  BY <1>1, NamesFacts
<1>3. /\ \A q \in Pages : prot'[q] =
           IF r = "ok" /\ q \in PagesOf(a, n) THEN p ELSE prot[q]
      /\ \A x \in Int : At(mem', x) =
           IF wipe /\ r = "ok" /\ PageOf(x) \in PagesOf(a, n) THEN Zero ELSE At(mem, x)
      /\ fails' = 0 => fails = 0
  BY DEF ChangesPages
<1>4. Apart' = Apart
  BY DEF Apart, MmapBase, Info
<1>5. \A q \in Pages \ forfeit' :
        /\ Apart'
        /\ \/ brk' <= PageAddr(q) /\ PageAddr(q) < MmapBase
           \/ mmap_next' <= PageAddr(q) /\ PageAddr(q) < StackBase
        => /\ prot'[q] = prot[q]
           /\ \A x \in Int : PageOf(x) = q => At(mem', x) = At(mem, x)
  <2> SUFFICES ASSUME NEW q \in Pages \ forfeit',
                      \/ brk' <= PageAddr(q) /\ PageAddr(q) < MmapBase
                      \/ mmap_next' <= PageAddr(q) /\ PageAddr(q) < StackBase
               PROVE  /\ prot'[q] = prot[q]
                      /\ \A x \in Int : PageOf(x) = q => At(mem', x) = At(mem, x)
    OBVIOUS
  <2>1. Unused(q)
    BY DEF Unused
  <2>2. ~(r = "ok" /\ q \in PagesOf(a, n))
    BY <1>2, <2>1, Zenon
  <2> QED  BY <1>3, <2>2, Zenon
<1>6. Apart' => \A x \in Tracked : PageOf(x) \in forfeit' \/ At(mem', x) = expect'[x]
  <2> SUFFICES ASSUME Apart, NEW x \in Tracked, PageOf(x) \notin forfeit
               PROVE  At(mem', x) = expect'[x]
    BY <1>2, <1>4
  <2>a. x \in Int
    BY UserConstants
  <2>1. At(mem, x) = expect[x]
    BY <1>1
  <2>2. At(mem', x) =
          IF wipe /\ r = "ok" /\ PageOf(x) \in PagesOf(a, n) THEN Zero ELSE At(mem, x)
    BY <1>3, <2>a, Zenon
  <2>3. expect'[x] =
          IF wipe /\ r = "ok" /\ PageOf(x) \in PagesOf(a, n) THEN Zero ELSE expect[x]
    BY DEF ExpectsPages
  <2>4. CASE wipe /\ r = "ok" /\ PageOf(x) \in PagesOf(a, n)
    <3>1. At(mem', x) = Zero
      BY <2>2, <2>4, Zenon
    <3>2. expect'[x] = Zero
      BY <2>3, <2>4, Zenon
    <3> QED  BY <3>1, <3>2, Zenon
  <2>5. CASE ~(wipe /\ r = "ok" /\ PageOf(x) \in PagesOf(a, n))
    <3>1. At(mem', x) = At(mem, x)
      BY <2>2, <2>5, Zenon
    <3>2. expect'[x] = expect[x]
      BY <2>3, <2>5, Zenon
    <3> QED  BY <2>1, <3>1, <3>2, Zenon
  <2> QED  BY <2>4, <2>5, Zenon
<1>7. Apart' =>
        \A q \in Pages \ named' : end <= PageAddr(q) /\ PageAddr(q) < brk' => HeapPage(q)'
  <2> SUFFICES ASSUME Apart, NEW q \in Pages \ named',
                      end <= PageAddr(q), PageAddr(q) < brk
               PROVE  HeapPage(q)'
    BY <1>4
  <2>1. ~(r = "ok" /\ q \in PagesOf(a, n)) /\ q \in Pages \ named
    BY <1>2
  <2>2. HeapPage(q)
    BY <1>1, <2>1
  <2>3. q \in Pages
    OBVIOUS
  <2>4. prot'[q] = prot[q]
    BY <1>3, <2>1, <2>3, Zenon
  <2>5. fails \in Nat /\ fails' \in Nat /\ (fails' = 0 => fails = 0)
    <3>1. SpaceOK
      BY RunFacts
    <3> QED  BY <1>3, <3>1, SpaceConstants DEF SpaceOK
  <2> QED  BY <2>2, <2>4, <2>5, HeapPageKept
<1>8. /\ UNCHANGED Info /\ brk' \in Nat /\ brk <= brk'
      /\ mmap_next' \in Nat /\ mmap_next <= mmap_next'
  BY <1>1
<1>9. Aligned(mmap_next')
  BY <1>1
<1> QED  BY <1>2, <1>5, <1>6, <1>7, <1>8, <1>9, RunStep

\* mmap with an address, wherever it is and whatever was there.
LEMMA MmapAtStep ==
    ASSUME UserIInv, sys_mmap_at
    PROVE  UserIInv'
<1>1. status = "run" /\ UNCHANGED <<brk, Info, mmap_next>>
  BY DEF Guest, sys_mmap_at
<1>2. SpaceOK /\ GhostOK /\ brk \in Nat /\ mmap_next \in Nat
  BY <1>1, RunFacts
<1>3. PICK a \in Addrs \ {0}, len \in MmapLens, p \in Prots, r \in Answers,
           asked \in BOOLEAN :
        /\ DoMmap(r, a, len, p)
        /\ Names(r, a, page_align_up(len), asked)
        /\ expect' = [x \in Tracked |->
                        IF r = "ok" /\ PageOf(x) \in PagesOf(a, page_align_up(len))
                        THEN Zero ELSE expect[x]]
  BY DEF sys_mmap_at
<1> DEFINE n == page_align_up(len)
<1>4. /\ Mapped(r, a, n, p)
      /\ \/ r = "ok" /\ Continue(a)
         \/ r = "err" /\ Continue(Errno)
         \/ r \in {"panic", "outside"} /\ Stop(r)
  BY <1>3 DEF DoMmap
<1>5. Names(r, a, n, asked) /\ ExpectsPages(a, n, r, TRUE)
  BY <1>3 DEF ExpectsPages
<1> HIDE DEF n
<1>6. SpaceOK' /\ ChangesPages(a, n, p, r, TRUE)
  <2>1. p \in Flags
    BY UserConstants DEF Flags
  <2> QED  BY <1>2, <1>4, <2>1, MappedPages
<1>7. CASE r \in {"ok", "err"}
  <2>1. status' = "run"
    BY <1>1, <1>4, <1>7 DEF Continue
  <2> QED  BY <1>1, <1>5, <1>6, <2>1, NamedStep, Zenon
<1>8. CASE r \in {"panic", "outside"}
  <2>1. status' \in {"exit", "segv", "panic", "outside"}
    BY <1>4, <1>8 DEF Stop
  <2>2. GhostOK'
    BY <1>2, <1>5, NamesFacts
  <2>3. UNCHANGED Info /\ brk' \in Nat /\ mmap_next' \in Nat /\ mmap_next <= mmap_next'
    BY <1>1, <1>2
  <2> QED  BY <1>1, <1>6, <2>1, <2>2, <2>3, StopStep
<1> QED  BY <1>3, <1>7, <1>8 DEF Answers

\* mprotect, of any pages.
LEMMA MprotectStep ==
    ASSUME UserIInv, sys_mprotect
    PROVE  UserIInv'
<1>1. status = "run" /\ UNCHANGED <<mem, brk, Info, mmap_next, expect>>
  BY DEF Guest, sys_mprotect
<1>2. SpaceOK /\ GhostOK /\ MemOK(mem) /\ brk \in Nat /\ mmap_next \in Nat
  BY <1>1, RunFacts
<1>3. PICK a \in Addrs, len \in MmapLens, p \in Prots :
        \E r \in mprotect(a, len) :
          /\ Protected(r, a, len, p)
          /\ Names(r, a, len, TRUE)
          /\ \/ r = "ok" /\ Continue(0)
             \/ r = "err" /\ Continue(Errno)
             \/ r \in {"panic", "outside"} /\ Stop(r)
  BY DEF sys_mprotect
<1>4. PICK r :
        /\ Protected(r, a, len, p)
        /\ Names(r, a, len, TRUE)
        /\ \/ r = "ok" /\ Continue(0)
           \/ r = "err" /\ Continue(Errno)
           \/ r \in {"panic", "outside"} /\ Stop(r)
  BY <1>3
<1>5. /\ prot' \in [Pages -> Flags] /\ fails' \in 0 .. MaxFails
      /\ \A q \in Pages : prot'[q] =
           IF r = "ok" /\ q \in PagesOf(a, len) THEN p ELSE prot[q]
      /\ fails' = 0 => fails = 0
  <2>1. p \in Flags
    BY UserConstants DEF Flags
  <2> QED  BY <1>2, <1>4, <2>1, ProtectedPages
<1>6. SpaceOK'
  BY <1>1, <1>2, <1>5 DEF SpaceOK, MemOK
<1>7. ChangesPages(a, len, p, r, FALSE)
  BY <1>1, <1>5 DEF ChangesPages
<1>8. ExpectsPages(a, len, r, FALSE)
  BY <1>1 DEF ExpectsPages
<1>9. CASE status' = status
  <2>1. status' = "run"
    BY <1>1, <1>9
  <2> QED  BY <1>1, <1>4, <1>6, <1>7, <1>8, <2>1, NamedStep
<1>10. CASE r \in {"panic", "outside"} /\ Stop(r)
  <2>1. status' \in {"exit", "segv", "panic", "outside"}
    BY <1>10 DEF Stop
  <2>2. GhostOK'
    BY <1>2, <1>4, NamesFacts
  <2>3. UNCHANGED Info /\ brk' \in Nat /\ mmap_next' \in Nat /\ mmap_next <= mmap_next'
    BY <1>1, <1>2
  <2> QED  BY <1>1, <1>6, <2>1, <2>2, <2>3, StopStep
<1> QED  BY <1>4, <1>9, <1>10 DEF Continue

=============================================================================
