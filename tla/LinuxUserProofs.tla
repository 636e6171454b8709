--------------------------- MODULE LinuxUserProofs ---------------------------
(***************************************************************************)
(* Theorems about LinuxUser: the steps of load_elf and the start of the    *)
(* guest keep UserIInv as its calls do, so it is an invariant; and what    *)
(* follows from it about loading, the heap, the mappings and the memory.   *)
(***************************************************************************)
EXTENDS LinuxUserCalls

-----------------------------------------------------------------------------
(* The other calls *)

\* The guest ends in a step that leaves its space alone.
LEMMA HaltStep ==
    ASSUME UserIInv, status = "run", status' \in {"exit", "segv", "panic", "outside"},
           UNCHANGED <<prot, mem, brk, fails, Info, mmap_next, ghosts>>
    PROVE  UserIInv'
<1>1. SpaceOK /\ GhostOK /\ brk \in Nat /\ mmap_next \in Nat
  BY RunFacts
<1>2. SpaceOK' /\ GhostOK'
  BY <1>1, GhostsKept DEF SpaceOK, MemOK
<1>3. /\ UNCHANGED Info /\ brk' \in Nat /\ mmap_next' \in Nat
      /\ mmap_next <= mmap_next'
  BY <1>1
<1> QED  BY <1>2, <1>3, StopStep

\* A store of the guest.
LEMMA StoreStep ==
    ASSUME UserIInv, guest_store
    PROVE  UserIInv'
<1>1. status = "run" /\ UNCHANGED <<prot, brk, fails, Info, mmap_next>>
  BY DEF guest_store, Guest
<1>2. PICK a \in Tracked :
        \/ CanAccess(a, 1, "w") /\ Fills(a, 1, Data(1)) /\ UNCHANGED status
        \/ status' = "segv" /\ UNCHANGED <<mem, ghosts>>
  BY DEF guest_store
<1>3. CASE CanAccess(a, 1, "w") /\ Fills(a, 1, Data(1)) /\ UNCHANGED status
  <2>1. a \in Nat /\ 1 \in Nat /\ status' = "run"
    BY <1>1, <1>3, UserConstants
  <2> QED  BY <1>1, <1>3, <2>1, FillStep
<1>4. CASE status' = "segv" /\ UNCHANGED <<mem, ghosts>>
  BY <1>1, <1>4, HaltStep
<1> QED  BY <1>2, <1>3, <1>4

\* A buffer is an address and a length.
LEMMA BufferTypes ==
    ASSUME NEW b \in Buffers
    PROVE  b[1] \in Nat /\ b[2] \in Nat /\ LinkLen(b[2]) \in Nat
<1>1. b[1] \in Nat /\ b[2] \in Nat
  BY UserConstants
<1> QED  BY <1>1 DEF LinkLen, PathLen

\* A call that answers and does nothing else.
LEMMA AnswerStep ==
    ASSUME UserIInv, status = "run", NEW v, Continue(v), UNCHANGED <<mem, ghosts>>,
           UNCHANGED <<prot, brk, fails, Info, mmap_next>>
    PROVE  UserIInv'
<1>1. status' = "run"
  BY DEF Continue
<1> QED  BY <1>1, QuietStep

\* The calls that fill a buffer.
LEMMA FillingStep ==
    ASSUME UserIInv,
           \/ sys_getrandom \/ sys_readlinkat \/ sys_fstat \/ sys_uname
           \/ sys_clock_gettime \/ sys_prlimit64
    PROVE  UserIInv'
<1>1. status = "run" /\ UNCHANGED <<prot, brk, fails, Info, mmap_next>>
  BY DEF Guest, sys_getrandom, sys_readlinkat, sys_fstat, sys_uname, sys_clock_gettime,
         sys_prlimit64
<1>2. \/ \E b \in Buffers, n \in Nat : \E v, result : FillBuffer(b[1], n, v, result)
      \/ \E v : Continue(v) /\ UNCHANGED <<mem, ghosts>>
  <2>1. \A b \in Buffers : b[2] \in Nat /\ LinkLen(b[2]) \in Nat
    BY BufferTypes
  <2>2. CASE sys_getrandom
    BY <2>1, <2>2 DEF sys_getrandom
  <2>3. CASE sys_readlinkat
    BY <2>1, <2>3 DEF sys_readlinkat
  <2>4. CASE sys_fstat
    BY <2>1, <2>4 DEF sys_fstat
  <2>5. CASE sys_uname
    BY <2>1, <2>5 DEF sys_uname
  <2>6. CASE sys_clock_gettime
    BY <2>1, <2>6 DEF sys_clock_gettime
  <2>7. CASE sys_prlimit64
    BY <2>1, <2>7 DEF sys_prlimit64
  <2> QED  BY <2>2, <2>3, <2>4, <2>5, <2>6, <2>7
<1>3. ASSUME NEW b \in Buffers, NEW n \in Nat, NEW v, NEW result,
             FillBuffer(b[1], n, v, result)
      PROVE  UserIInv'
  <2>1. b[1] \in Nat
    BY BufferTypes
  <2> QED  BY <1>1, <1>3, <2>1, BufferStep
<1>4. ASSUME NEW v, Continue(v), UNCHANGED <<mem, ghosts>>
      PROVE  UserIInv'
  BY <1>1, <1>4, AnswerStep
<1> QED  BY <1>2, <1>3, <1>4

\* The calls that leave the space alone, and the end of the process.
LEMMA PlainStep ==
    ASSUME UserIInv, sys_writev \/ sys_write \/ sys_futex \/ sys_stub \/ leave
    PROVE  UserIInv'
<1>1. status = "run" /\ UNCHANGED <<prot, mem, brk, fails, Info, mmap_next, ghosts>>
  BY DEF Guest, sys_writev, sys_write, sys_futex, sys_stub, leave, spaceVars
<1>2. status' \in {"run", "exit", "segv", "panic"}
  <2>1. CASE sys_writev
    BY <1>1, <2>1 DEF sys_writev, Continue, Stop
  <2>2. CASE sys_write
    BY <1>1, <2>2 DEF sys_write, Continue, Stop
  <2>3. CASE sys_futex \/ sys_stub \/ leave
    BY <1>1, <2>3 DEF sys_futex, sys_stub, leave, Continue, Stop
  <2> QED  BY <2>1, <2>2, <2>3
<1>3. CASE status' = "run"
  BY <1>1, <1>3, QuietStep
<1>4. CASE status' \in {"exit", "segv", "panic", "outside"}
  BY <1>1, <1>4, HaltStep
<1> QED  BY <1>2, <1>3, <1>4
-----------------------------------------------------------------------------
(* load_elf, and the start of the guest *)

\* What is known of the file and of the stack the command needs.
LEMMA FileFacts ==
    ASSUME LocalsInv
    PROVE  /\ File.bad \in ElfErrors \cup {"none"} /\ Phdrs \in Seq(Phdr)
           /\ Loads \subseteq DOMAIN Phdrs
           /\ \A k \in DOMAIN Phdrs : k \in Nat \ {0} /\ k <= Len(Phdrs) /\ Phdrs[k] \in Phdr
           /\ StackBottom(argv, envp) \in StackBase .. StackTop
<1> DEFINE c == <<image, argv, envp>>
<1>1. c \in Commands
  BY DEF LocalsInv
<1>2. c[1] = image /\ c[2] = argv /\ c[3] = envp
  OBVIOUS
<1> HIDE DEF c
<1>3. image \in DOMAIN Images /\ StackBottom(argv, envp) \in StackBase .. StackTop
  BY <1>1, <1>2, CommandsFit
<1>4. File.bad \in ElfErrors \cup {"none"} /\ Phdrs \in Seq(Phdr)
  BY <1>3, ImageTypes DEF File, Phdrs
<1>5. \A k \in DOMAIN Phdrs : k \in Nat \ {0} /\ k <= Len(Phdrs) /\ Phdrs[k] \in Phdr
  BY <1>4
<1>6. Loads \subseteq DOMAIN Phdrs
  BY DEF Loads
<1> QED  BY <1>3, <1>4, <1>5, <1>6

\* The fields of a program header.
LEMMA PhdrTypes ==
    ASSUME NEW p \in Phdr
    PROVE  /\ p.vaddr \in Nat /\ p.memsz \in Nat /\ p.filesz \in Nat /\ p.offset \in Nat
           /\ p.flags \in Flags /\ p.filesz <= p.memsz
BY DEF Phdr, Flags

\* The locals after a step of load_elf.
LEMMA LoadLocals ==
    ASSUME LocalsInv, status \in {"elf", "load"}, UNCHANGED <<image, argv, envp, mmap_next>>,
           status' \notin {"elf", "run", "outside"}, ph' \in Nat \ {0}, brk' \in Nat,
           end' \in Nat, Aligned(end'), status' = "loaded" => ph' > Len(Phdrs) /\ brk' = end'
    PROVE  LocalsInv'
<1>1. <<image, argv, envp>>' \in Commands /\ mmap_next' = 0 /\ mmap_next' \in Nat
  BY DEF LocalsInv
<1>2. end' % PageSize = 0
  BY DEF Aligned
<1>3. Phdrs' = Phdrs
  BY DEF Phdrs, File
<1>4. status' = "loaded" => ph' > Len(Phdrs') /\ brk' = end'
  BY <1>3
<1> QED  BY <1>1, <1>2, <1>4 DEF LocalsInv

\* The types after it.
LEMMA LoadTypes ==
    ASSUME SpaceOK', GhostOK', status' # "run",
           status' \in Alive \cup LoadErrors \cup {"exit", "segv", "panic", "outside"}
    PROVE  UserTypeOK'
BY DEF UserTypeOK, SpaceOK, GhostOK, MemOK, Flags, Pages

\* What the guest has named does not change before it runs.
LEMMA LoadGhosts ==
    ASSUME UserIInv, UNCHANGED <<named, forfeit>>
    PROVE  GhostOK'
<1>1. GhostOK
  BY TypeParts DEF UserIInv
<1> QED  BY <1>1 DEF GhostOK, Pages

\* A step with which load_elf fails.
LEMMA LoadFails ==
    ASSUME UserIInv, status \in {"elf", "load"}, UNCHANGED <<image, argv, envp, mmap_next>>,
           UNCHANGED <<named, forfeit>>,
           status' \in LoadErrors \cup {"panic"}, ph' \in Nat \ {0}, brk' \in Nat,
           end' \in Nat, Aligned(end'), SpaceOK'
    PROVE  UserIInv'
<1>1. status' \notin Alive /\ status' \notin {"elf", "run", "outside", "loaded"}
  BY DEF LoadErrors, ElfErrors, Alive
<1>2. LocalsInv
  BY DEF UserIInv
<1>3. LocalsInv'
  BY <1>1, <1>2, LoadLocals
<1>4. UserTypeOK'
  BY <1>1, LoadGhosts, LoadTypes
<1> QED  BY <1>1, <1>3, <1>4, DeadStep

\* A step with which load_elf goes on or succeeds.
LEMMA LoadGoesOn ==
    ASSUME LocalsInv, status \in {"elf", "load"}, UNCHANGED <<image, argv, envp, mmap_next>>,
           GhostOK', status' \in {"load", "loaded"}, ph' \in Nat \ {0}, brk' \in Nat,
           end' \in Nat, Aligned(end'), SpaceOK',
           status' = "loaded" => ph' > Len(Phdrs) /\ brk' = end',
           FreeInv', SegsInv'
    PROVE  UserIInv'
<1>1. LocalsInv'
  BY LoadLocals
<1>2. UserTypeOK'
  BY LoadTypes DEF Alive
<1>3. MemoryKept' /\ HeapMapped'
  BY DEF MemoryKept, HeapMapped
<1> QED  BY <1>1, <1>2, <1>3 DEF UserIInv

\* The state between the steps of load_elf.
LEMMA LoadFacts ==
    ASSUME UserIInv, status \in {"elf", "load"}
    PROVE  /\ LocalsInv /\ SpaceOK /\ MemOK(mem) /\ fails \in Nat
           /\ ph \in Nat \ {0} /\ end \in Nat /\ Aligned(end) /\ brk \in Nat
           /\ \A q \in Pages \ forfeit : end <= PageAddr(q) => Untouched(q)
<1>1. LocalsInv /\ UserTypeOK
  BY DEF UserIInv
<1>2. SpaceOK
  BY <1>1, TypeParts
<1>3. MemOK(mem) /\ fails \in Nat
  BY <1>2, SpaceConstants DEF SpaceOK
<1>4. ph \in Nat \ {0} /\ end \in Nat /\ Aligned(end) /\ brk \in Nat
  BY <1>1, Regions DEF LocalsInv
<1>5. \A q \in Pages \ forfeit : end <= PageAddr(q) => Untouched(q)
  BY DEF UserIInv, FreeInv, Free
<1> QED  BY <1>1, <1>2, <1>3, <1>4, <1>5

\* The headers of the file are read.
LEMMA HeadersStep ==
    ASSUME UserIInv, load_headers, UNCHANGED <<mmap_next, named, forfeit>>
    PROVE  UserIInv'
<1>1. status = "elf" /\ UNCHANGED <<prot, mem, brk, fails, image, argv, envp, ph, end>>
  BY DEF load_headers, spaceVars
<1>2. status' \in {File.bad, "InvalidPhdr", "load"} /\ (status' = File.bad => File.bad # "none")
  BY DEF load_headers
<1>3. /\ LocalsInv /\ SpaceOK /\ ph \in Nat \ {0} /\ end \in Nat /\ Aligned(end)
      /\ brk \in Nat /\ \A q \in Pages \ forfeit : end <= PageAddr(q) => Untouched(q)
  BY <1>1, LoadFacts
<1>4. SpaceOK'
  BY <1>1, <1>3 DEF SpaceOK, MemOK
<1>5. /\ ph' \in Nat \ {0} /\ brk' \in Nat /\ end' \in Nat /\ Aligned(end')
      /\ UNCHANGED <<image, argv, envp, mmap_next>> /\ status \in {"elf", "load"}
  BY <1>1, <1>3
<1>6. CASE status' = "load"
  <2>1. FreeInv'
    <3> SUFFICES ASSUME NEW q \in Pages \ forfeit, Free(q)'
                 PROVE  Untouched(q)'
      BY DEF FreeInv, Pages
    <3>1. end <= PageAddr(q)
      BY <1>1, <1>6 DEF Free, PageAddr
    <3> QED  BY <1>1, <1>3, <3>1 DEF Untouched
  <2>2. SegsInv'
    <3>1. ph' = 1 /\ Phdrs' = Phdrs /\ Loads' = Loads
      BY <1>1, <1>3 DEF LocalsInv, Phdrs, File, Loads
    <3>2. \A k \in Loads : ~(k < 1)
      BY <1>3, FileFacts
    <3> QED  BY <3>1, <3>2 DEF SegsInv
  <2>3. status' \in {"load", "loaded"} /\ status' # "loaded"
    BY <1>6
  <2> QED  BY <1>3, <1>4, <1>5, <2>1, <2>2, <2>3, LoadGhosts, LoadGoesOn
<1>7. CASE status' # "load"
  <2>1. status' \in LoadErrors \cup {"panic"}
    BY <1>2, <1>3, <1>7, FileFacts DEF LoadErrors, ElfErrors
  <2> QED  BY <1>4, <1>5, <2>1, LoadFails
<1> QED  BY <1>6, <1>7

\* The pages of a segment lie between the aligned addresses around it.
LEMMA SegPagesIn ==
    ASSUME NEW p \in Phdr
    PROVE  /\ SegPages(p) \subseteq Int
           /\ \A q \in Int : q \in SegPages(p) <=>
                /\ page_align_down(p.vaddr) <= PageAddr(q)
                /\ PageAddr(q) < page_align_up(p.vaddr + p.memsz)
<1> DEFINE v == p.vaddr
           w == p.vaddr + p.memsz
<1>1. v \in Int /\ w \in Int /\ v + p.memsz - 1 = w - 1 /\ w - 1 \in Int
  BY PhdrTypes
<1>2. PageOf(v) \in Int /\ PageOf(w - 1) \in Int /\ page_align_up(w) \in Int
  BY <1>1, PageTypes, UpFacts
<1>3. SegPages(p) = PageOf(v) .. PageOf(w - 1)
  BY <1>1 DEF SegPages, PagesOf
<1> HIDE DEF v, w
<1>4. ASSUME NEW q \in Int
      PROVE  /\ PageOf(v) <= q <=> page_align_down(v) <= PageAddr(q)
             /\ q <= PageOf(w - 1) <=> PageAddr(q) < page_align_up(w)
  <2>1. PageAddr(q) \in Int /\ PageAddr(PageOf(v)) \in Int /\ Aligned(PageAddr(q))
    BY <1>2, PageTypes, AlignedPage
  <2>2. q < PageOf(v) <=> PageAddr(q) < PageAddr(PageOf(v))
    BY <1>2, PageOrder
  <2>3. PageOf(v) <= q <=> page_align_down(v) <= PageAddr(q)
    BY <1>2, <2>1, <2>2 DEF page_align_down
  <2>4. q <= PageOf(w - 1) <=> PageAddr(q) <= w - 1
    BY <1>1, PageGalois
  <2>5. w <= PageAddr(q) => page_align_up(w) <= PageAddr(q)
    BY <1>1, <2>1, UpLeast
  <2>6. w <= page_align_up(w)
    BY <1>1, UpFacts
  <2>7. q <= PageOf(w - 1) <=> PageAddr(q) < page_align_up(w)
    BY <1>1, <1>2, <2>1, <2>4, <2>5, <2>6
  <2> QED  BY <2>3, <2>7
<1>5. \A q \in Int : q \in SegPages(p) <=>
        page_align_down(v) <= PageAddr(q) /\ PageAddr(q) < page_align_up(w)
  BY <1>2, <1>3, <1>4
<1>6. SegPages(p) \subseteq Int
  BY <1>2, <1>3
<1> QED  BY <1>5, <1>6 DEF v, w

\* The addresses of a segment are on its pages.
LEMMA SegAddrs ==
    ASSUME NEW p \in Phdr, NEW x \in Int, p.vaddr <= x, x < p.vaddr + p.memsz
    PROVE  PageOf(x) \in SegPages(p)
<1>1. p.vaddr \in Int /\ p.memsz \in Int /\ p.vaddr + p.memsz - 1 \in Int
  BY PhdrTypes
<1>2. /\ PageOf(x) \in Int /\ PageOf(p.vaddr) \in Int
      /\ PageOf(p.vaddr + p.memsz - 1) \in Int
  BY <1>1, PageTypes
<1>3. x <= p.vaddr + p.memsz - 1
  BY <1>1
<1>4. PageOf(p.vaddr) <= PageOf(x) /\ PageOf(x) <= PageOf(p.vaddr + p.memsz - 1)
  BY <1>1, <1>3, PageOfMono
<1> QED  BY <1>2, <1>4 DEF SegPages, PagesOf

\* A segment stays loaded when its contents and protection do not change.
LEMMA SegKept ==
    ASSUME NEW p \in Phdr, SegLoaded(p), end \in Nat, end' \in Nat, end <= end',
           \A x \in Int : p.vaddr <= x /\ x < p.vaddr + p.memsz => At(mem', x) = At(mem, x),
           \A q \in SegPages(p) : prot'[q] = prot[q]
    PROVE  SegLoaded(p)'
<1>1. p.vaddr \in Int /\ p.memsz \in Int
  BY PhdrTypes
<1>2. \A i \in 0 .. p.memsz - 1 : At(mem, p.vaddr + i) =
        IF i < p.filesz THEN <<"file", p.offset + i>> ELSE Zero
  BY DEF SegLoaded, Byte, At
<1>3. \A i \in 0 .. p.memsz - 1 : At(mem', p.vaddr + i) = At(mem, p.vaddr + i)
  <2> TAKE i \in 0 .. p.memsz - 1
  <2>1. /\ p.vaddr + i \in Int /\ p.vaddr <= p.vaddr + i
        /\ p.vaddr + i < p.vaddr + p.memsz
    BY <1>1
  <2> QED  BY <2>1
<1>4. \A i \in 0 .. p.memsz - 1 : At(mem', p.vaddr + i) =
        IF i < p.filesz THEN <<"file", p.offset + i>> ELSE Zero
  BY <1>2, <1>3, Zenon
<1>5. \A q \in SegPages(p) : q \in Pages /\ prot[q] = p.flags /\ PageAddr(q + 1) <= end
  BY DEF SegLoaded
<1>6. \A q \in SegPages(p) : PageAddr(q + 1) \in Int
  <2>1. \A q \in SegPages(p) : q + 1 \in Int
    BY SegPagesIn
  <2> QED  BY <2>1, PageTypes
<1>7. \A q \in SegPages(p) : q \in Pages /\ prot'[q] = p.flags /\ PageAddr(q + 1) <= end'
  BY <1>5, <1>6
<1> QED  BY <1>4, <1>7 DEF SegLoaded, Byte, At, SegPages, PagesOf, Pages, PageOf, PageAddr

\* A header that is no segment is passed over.
LEMMA SkipStep ==
    ASSUME UserIInv, skip_header, UNCHANGED <<mmap_next, named, forfeit>>
    PROVE  UserIInv'
<1>1. /\ status = "load" /\ ph \notin Loads /\ ph' = ph + 1 /\ status' = "load"
      /\ UNCHANGED <<prot, mem, brk, fails, image, argv, envp, end>>
  BY DEF skip_header, spaceVars
<1>2. /\ LocalsInv /\ SpaceOK /\ ph \in Nat \ {0} /\ end \in Nat /\ Aligned(end)
      /\ brk \in Nat /\ \A q \in Pages \ forfeit : end <= PageAddr(q) => Untouched(q)
  BY <1>1, LoadFacts
<1>3. SpaceOK'
  BY <1>1, <1>2 DEF SpaceOK, MemOK
<1>4. /\ ph' \in Nat \ {0} /\ brk' \in Nat /\ end' \in Nat /\ Aligned(end')
      /\ UNCHANGED <<image, argv, envp, mmap_next>> /\ status \in {"elf", "load"}
      /\ status' \in {"load", "loaded"} /\ status' # "loaded"
  BY <1>1, <1>2
<1>5. FreeInv'
  <2> SUFFICES ASSUME NEW q \in Pages \ forfeit, Free(q)'
               PROVE  Untouched(q)'
    BY DEF FreeInv, Pages
  <2>1. end <= PageAddr(q)
    BY <1>1 DEF Free, PageAddr
  <2> QED  BY <1>1, <1>2, <2>1 DEF Untouched
<1>6. SegsInv'
  <2>1. Phdrs' = Phdrs /\ Loads' = Loads /\ WellFormed' = WellFormed
    BY <1>1 DEF Phdrs, File, Loads, WellFormed
  <2> SUFFICES ASSUME WellFormed, NEW k \in Loads, k < ph'
               PROVE  SegLoaded(Phdrs[k])'
    BY <2>1 DEF SegsInv
  <2>2. k < ph /\ Phdrs[k] \in Phdr
    BY <1>1, <1>2, FileFacts
  <2>3. SegLoaded(Phdrs[k])
    BY <1>1, <2>2 DEF UserIInv, SegsInv
  <2> QED  BY <1>1, <2>1, <2>3 DEF SegLoaded, Byte
<1> QED  BY <1>2, <1>3, <1>4, <1>5, <1>6, LoadGhosts, LoadGoesOn

\* Where a segment lies, when it is in range.
LEMMA SegBounds ==
    ASSUME NEW p \in Phdr, NEW a, NEW b, a = page_align_down(p.vaddr),
           b = page_align_up(p.vaddr + p.memsz)
    PROVE  /\ a \in Nat /\ b \in Nat /\ Aligned(a) /\ Aligned(b)
           /\ a <= p.vaddr /\ p.vaddr + p.memsz <= b /\ a <= b
<1>1. p.vaddr \in Nat /\ p.memsz \in Nat /\ p.vaddr + p.memsz \in Int
  BY PhdrTypes
<1>2. a \in Int /\ Aligned(a) /\ a <= p.vaddr
  BY <1>1, DownFacts
<1>3. b \in Int /\ Aligned(b) /\ p.vaddr + p.memsz <= b
  BY <1>1, UpFacts
<1>4. 0 <= a
  <2>1. 0 \in Int /\ Aligned(0)
    BY PageSizeType DEF Aligned
  <2> QED  BY <1>1, <2>1, OnPage DEF page_align_down
<1> QED  BY <1>1, <1>2, <1>3, <1>4

\* What load_elf does to the space for segment p, between addresses a and b
Placed(p, a, b) ==
    /\ \A q \in Pages : prot'[q] =
         IF a <= PageAddr(q) /\ PageAddr(q) < b THEN p.flags ELSE prot[q]
    /\ \A x \in Int : At(mem', x) =
         IF p.vaddr <= x /\ x < p.vaddr + p.filesz THEN FileData(p)[x - p.vaddr]
         ELSE IF a <= x /\ x < b THEN Zero ELSE At(mem, x)

\* A segment that was just mapped, copied and protected is loaded.
LEMMA SegNew ==
    ASSUME NEW p \in Phdr, NEW a, NEW b, a = page_align_down(p.vaddr),
           b = page_align_up(p.vaddr + p.memsz), b <= SpaceSize, end' \in Nat, b <= end',
           Placed(p, a, b)
    PROVE  SegLoaded(p)'
<1>a. \A q \in Pages : a <= PageAddr(q) /\ PageAddr(q) < b => prot'[q] = p.flags
  BY DEF Placed
<1>b. \A x \in Int : a <= x /\ x < b =>
        At(mem', x) = IF p.vaddr <= x /\ x < p.vaddr + p.filesz
                      THEN FileData(p)[x - p.vaddr] ELSE Zero
  BY Zenon DEF Placed
<1>1. /\ a \in Nat /\ b \in Nat /\ Aligned(a) /\ Aligned(b)
      /\ a <= p.vaddr /\ p.vaddr + p.memsz <= b
  BY SegBounds
<1>2. /\ p.vaddr \in Nat /\ p.memsz \in Nat /\ p.filesz \in Nat /\ p.offset \in Nat
      /\ p.filesz <= p.memsz
  BY PhdrTypes
<1>3. ASSUME NEW i \in 0 .. p.memsz - 1
      PROVE  At(mem', p.vaddr + i) = IF i < p.filesz THEN <<"file", p.offset + i>> ELSE Zero
  <2> DEFINE x == p.vaddr + i
  <2>1. /\ x \in Int /\ i \in Nat /\ a <= x /\ x < b /\ p.vaddr <= x /\ x - p.vaddr = i
        /\ x < p.vaddr + p.filesz <=> i < p.filesz
    BY <1>1, <1>2
  <2> HIDE DEF x
  <2>2. At(mem', x) = IF i < p.filesz THEN FileData(p)[i] ELSE Zero
    BY <1>b, <2>1
  <2>3. i < p.filesz => FileData(p)[i] = <<"file", p.offset + i>>
    <3>1. i < p.filesz => i \in 0 .. p.filesz - 1
      BY <1>2, <2>1
    <3> QED  BY <3>1 DEF FileData
  <2>4. At(mem', x) = IF i < p.filesz THEN <<"file", p.offset + i>> ELSE Zero
    BY <2>2, <2>3, Zenon
  <2> QED  BY <2>4 DEF x
<1>4. ASSUME NEW q \in SegPages(p)
      PROVE  q \in Pages /\ prot'[q] = p.flags /\ PageAddr(q + 1) <= end'
  <2>1. q \in Int /\ a <= PageAddr(q) /\ PageAddr(q) < b
    BY SegPagesIn
  <2>2. PageAddr(q) \in Int /\ PageOf(PageAddr(q)) = q
    BY <2>1, PageTypes, AlignedPage
  <2>3. q \in Pages
    BY <1>1, <2>1, <2>2, SpaceFacts, SpaceConstants
  <2>4. PageAddr(q) + PageSize <= b
    BY <1>1, <2>1, <2>2, DownLeast DEF page_align_down
  <2>5. PageAddr(q + 1) = PageAddr(q) + PageSize
    BY <2>1, PageOrder
  <2>6. PageAddr(q + 1) <= end'
    BY <1>1, <2>2, <2>4, <2>5, PageSizeType
  <2> QED  BY <1>a, <2>1, <2>3, <2>6
<1> QED  BY <1>3, <1>4 DEF SegLoaded, Byte, At, SegPages, PagesOf, Pages, PageOf, PageAddr

\* The end of the program never moves down.
LEMMA EndGrows ==
    ASSUME NEW e \in Nat, NEW b \in Nat, Aligned(e), Aligned(b),
           NEW f, f = IF b > e THEN b ELSE e
    PROVE  f \in Nat /\ Aligned(f) /\ e <= f /\ b <= f
OBVIOUS

\* What is not below the end is behind everything up to the end.
LEMMA BehindBoth ==
    \A e, b, f, x \in Int : e <= f /\ b <= f /\ f <= x => e <= x /\ b <= x
OBVIOUS

\* The headers passed with header n are those before it, and itself.
LEMMA Passed == \A k, n \in Nat : k < n + 1 /\ k # n => k < n
OBVIOUS

\* What load_elf makes of a segment that could be mapped and protected.
LEMMA SegmentLoads ==
    ASSUME UserIInv, status = "load", status' = "load",
           UNCHANGED <<brk, image, argv, envp, mmap_next>>, UNCHANGED <<named, forfeit>>,
           ph' = ph + 1, SpaceOK',
           ph \in Loads, NEW p \in Phdr, p = Phdrs[ph],
           NEW a, NEW b, a = page_align_down(p.vaddr), b = page_align_up(p.vaddr + p.memsz),
           b <= SpaceSize, end' = IF b > end THEN b ELSE end, Placed(p, a, b)
    PROVE  UserIInv'
<1>a. \A q \in Pages : prot'[q] =
        IF a <= PageAddr(q) /\ PageAddr(q) < b THEN p.flags ELSE prot[q]
  BY DEF Placed
<1>b. \A x \in Int : At(mem', x) =
        IF p.vaddr <= x /\ x < p.vaddr + p.filesz THEN FileData(p)[x - p.vaddr]
        ELSE IF a <= x /\ x < b THEN Zero ELSE At(mem, x)
  BY DEF Placed
<1>1. /\ LocalsInv /\ SpaceOK /\ MemOK(mem) /\ ph \in Nat \ {0} /\ end \in Nat
      /\ Aligned(end) /\ brk \in Nat
  BY LoadFacts
<1>c. \A q \in Pages \ forfeit : end <= PageAddr(q) => Untouched(q)
  BY LoadFacts
<1>2. /\ a \in Nat /\ b \in Nat /\ Aligned(a) /\ Aligned(b)
      /\ a <= p.vaddr /\ p.vaddr + p.memsz <= b
  BY SegBounds
<1>3. p.vaddr \in Nat /\ p.memsz \in Nat /\ p.filesz \in Nat /\ p.filesz <= p.memsz
  BY PhdrTypes
<1>4. end' \in Nat /\ Aligned(end') /\ end <= end' /\ b <= end'
  BY <1>1, <1>2, EndGrows
<1>5. \A x \in Int : ~(a <= x /\ x < b) => At(mem', x) = At(mem, x)
  <2> SUFFICES ASSUME NEW x \in Int, ~(a <= x /\ x < b)
               PROVE  At(mem', x) = At(mem, x)
    OBVIOUS
  <2>1. ~(p.vaddr <= x /\ x < p.vaddr + p.filesz)
    BY <1>2, <1>3
  <2> QED  BY <1>b, <2>1
<1>6. FreeInv'
  <2> SUFFICES ASSUME NEW q \in Pages \ forfeit, Free(q)'
               PROVE  Untouched(q)'
    BY DEF FreeInv, Pages
  <2>1. end' <= PageAddr(q)
    BY DEF Free, PageAddr
  <2>2. PageAddr(q) \in Int
    BY SpaceFacts, PageTypes
  <2>a. end \in Int /\ b \in Int /\ end' \in Int /\ end <= end' /\ b <= end'
    BY <1>1, <1>2, <1>4
  <2>3. end <= PageAddr(q) /\ b <= PageAddr(q)
    BY <2>1, <2>2, <2>a, BehindBoth, Zenon
  <2>4. Untouched(q)
    BY <1>c, <2>3
  <2>5. prot'[q] = prot[q]
    BY <1>2, <1>a, <2>2, <2>3
  <2>6. \A x \in Int : PageOf(x) = q => At(mem', x) = At(mem, x)
    <3> SUFFICES ASSUME NEW x \in Int, PageOf(x) = q
                 PROVE  At(mem', x) = At(mem, x)
      OBVIOUS
    <3>1. b <= x
      BY <1>2, <2>3, OnPage
    <3> QED  BY <1>2, <1>5, <3>1
  <2>7. MemOK(mem')
    BY DEF SpaceOK, MemOK
  <2> QED  BY <1>1, <2>4, <2>5, <2>6, <2>7, UntouchedKept
<1>7. SegsInv'
  <2>1. Phdrs' = Phdrs /\ Loads' = Loads /\ WellFormed' = WellFormed
    BY DEF Phdrs, File, Loads, WellFormed
  <2>2. ASSUME WellFormed, NEW k \in Loads, k < ph'
        PROVE  \E s \in Phdr : s = Phdrs[k] /\ SegLoaded(s)'
    <3>1. k \in Nat /\ Phdrs[k] \in Phdr
      BY <1>1, FileFacts
    <3>2. PICK s \in Phdr : s = Phdrs[k]
      BY <3>1
    <3>3. CASE k = ph
      <4>1. s = p
        BY <3>2, <3>3
      <4>4. SegLoaded(p)'
        BY <1>4, SegNew
      <4> QED  BY <3>2, <4>1, <4>4
    <3>4. CASE k # ph
      <4>a. ph \in Nat /\ k < ph + 1
        BY <1>1, <2>2
      <4>1. k < ph
        BY <3>1, <3>4, <4>a, Passed
      <4>2. SegLoaded(s)
        BY <2>2, <3>2, <4>1 DEF UserIInv, SegsInv
      <4>3. SegPages(s) \cap SegPages(p) = {}
        BY <2>2, <3>2, <4>1 DEF WellFormed
      <4>4. \A q \in SegPages(s) : prot'[q] = prot[q]
        <5> TAKE q \in SegPages(s)
        <5>1. q \in Pages
          BY <4>2 DEF SegLoaded
        <5>2. q \in Int /\ q \notin SegPages(p)
          BY <4>3, <5>1, SpaceFacts
        <5> QED  BY <1>a, <5>1, <5>2, SegPagesIn
      <4>5. \A x \in Int : s.vaddr <= x /\ x < s.vaddr + s.memsz => At(mem', x) = At(mem, x)
        <5> SUFFICES ASSUME NEW x \in Int, s.vaddr <= x, x < s.vaddr + s.memsz
                     PROVE  At(mem', x) = At(mem, x)
          OBVIOUS
        <5>1. PageOf(x) \in SegPages(s) /\ PageOf(x) \in Int /\ PageAddr(PageOf(x)) \in Int
          BY SegAddrs, PageTypes
        <5>2. ~(a <= PageAddr(PageOf(x)) /\ PageAddr(PageOf(x)) < b)
          BY <4>3, <5>1, SegPagesIn
        <5>3. ~(a <= x /\ x < b)
          BY <1>2, <5>1, <5>2, OnPage
        <5> QED  BY <1>5, <5>3
      <4>6. SegLoaded(s)'
        BY <1>1, <1>4, <4>2, <4>4, <4>5, SegKept
      <4> QED  BY <3>2, <4>6
    <3> QED  BY <3>3, <3>4
  <2> SUFFICES ASSUME WellFormed, NEW k \in Loads, k < ph'
               PROVE  SegLoaded(Phdrs[k])'
    BY <2>1 DEF SegsInv
  <2>3. PICK s \in Phdr : s = Phdrs[k] /\ SegLoaded(s)'
    BY <2>2
  <2>4. Phdrs'[k] = s
    BY <2>1, <2>3
  <2> QED  BY <2>3, <2>4 DEF SegLoaded, SegPages, PagesOf, Byte, Pages
<1>8. /\ ph' \in Nat \ {0} /\ brk' \in Nat /\ UNCHANGED <<image, argv, envp, mmap_next>>
      /\ status \in {"elf", "load"} /\ status' \in {"load", "loaded"} /\ status' # "loaded"
  BY <1>1
<1> QED  BY <1>1, <1>4, <1>6, <1>7, <1>8, LoadGhosts, LoadGoesOn

\* load_elf loads one segment, or fails.
LEMMA SegmentStep ==
    ASSUME UserIInv, load_segment, UNCHANGED <<mmap_next, named, forfeit>>
    PROVE  UserIInv'
<1>1. /\ status = "load" /\ ph \in Loads /\ status \in {"elf", "load"}
      /\ UNCHANGED <<brk, image, argv, envp, mmap_next>>
  BY DEF load_segment
<1>2. /\ LocalsInv /\ SpaceOK /\ MemOK(mem) /\ fails \in Nat /\ ph \in Nat \ {0}
      /\ end \in Nat /\ Aligned(end) /\ brk \in Nat
  BY <1>1, LoadFacts
<1>3. PICK p \in Phdr : p = Phdrs[ph]
  BY <1>1, <1>2, FileFacts
<1>4. PICK a, b : a = page_align_down(p.vaddr) /\ b = page_align_up(p.vaddr + p.memsz)
  OBVIOUS
<1>5. /\ a \in Nat /\ b \in Nat /\ Aligned(a) /\ Aligned(b)
      /\ a <= p.vaddr /\ p.vaddr + p.memsz <= b /\ a <= b
  BY <1>4, SegBounds
<1>6. /\ p.vaddr \in Nat /\ p.memsz \in Nat /\ p.filesz \in Nat /\ p.flags \in Flags
      /\ p.filesz <= p.memsz
  BY PhdrTypes
<1>7. \/ /\ status' = "SegmentOutOfRange"
         /\ UNCHANGED <<prot, mem, fails, ph, end>>
      \/ /\ ~OutOfRange(p)
         /\ \E r \in mmap_fixed(a, b - a) :
            \/ /\ r # "ok" /\ status' = Failed(r)
               /\ Mapped(r, a, b - a, RW) /\ UNCHANGED <<ph, end>>
            \/ /\ r = "ok" /\ status' = "InvalidPhdr"
               /\ Mapped(r, a, b - a, RW) /\ UNCHANGED <<ph, end>>
            \/ /\ r = "ok"
               /\ \E s \in IF p.flags = RW THEN {"ok"} ELSE mprotect(a, b - a) :
                    /\ Protected(s, a, b - a, p.flags)
                    /\ status' = IF s = "ok" THEN status ELSE Failed(s)
               /\ mem' = Copied(Wiped(mem, a, b - a), p)
               /\ ph' = ph + 1
               /\ end' = IF a + (b - a) > end THEN a + (b - a) ELSE end
  BY <1>3, <1>4, Zenon DEF load_segment
<1>8. CASE status' = "SegmentOutOfRange" /\ UNCHANGED <<prot, mem, fails, ph, end>>
  <2>1. SpaceOK' /\ status' \in LoadErrors \cup {"panic"}
    BY <1>2, <1>8 DEF SpaceOK, MemOK, LoadErrors
  <2>2. ph' \in Nat \ {0} /\ brk' \in Nat /\ end' \in Nat /\ Aligned(end')
    BY <1>1, <1>2, <1>8
  <2> QED  BY <1>1, <2>1, <2>2, LoadFails
<1>9. ASSUME ~OutOfRange(p)
      PROVE  b <= SpaceSize /\ a + (b - a) = b /\ b - a \in Int
  BY <1>4, <1>5, <1>9, LoaderConstants, SpaceConstants DEF OutOfRange
<1>10. ASSUME ~OutOfRange(p), NEW r \in mmap_fixed(a, b - a), Mapped(r, a, b - a, RW),
              (r # "ok" /\ status' = Failed(r)) \/ (r = "ok" /\ status' = "InvalidPhdr"),
              UNCHANGED <<ph, end>>
       PROVE  UserIInv'
  <2>1. r \in {"ok", "err", "panic"}
    <3>1. r \in Answers /\ (r = "outside" => a + (b - a) > SpaceSize)
      BY <1>2, <1>5, <1>9, <1>10, MmapAnswers
    <3> QED  BY <1>5, <1>9, <1>10, <3>1, SpaceConstants DEF Answers
  <2>2. status' \in LoadErrors \cup {"panic"}
    BY <1>10, <2>1 DEF Failed, LoadErrors, ElfErrors
  <2>3. RW \in Flags
    BY DEF RW, Flags
  <2>4. SpaceOK'
    BY <1>2, <1>5, <1>10, <2>3, MappedFacts
  <2>5. ph' \in Nat \ {0} /\ brk' \in Nat /\ end' \in Nat /\ Aligned(end')
    BY <1>1, <1>2, <1>10
  <2> QED  BY <1>1, <2>2, <2>4, <2>5, LoadFails
<1>11. ASSUME ~OutOfRange(p),
              NEW s \in IF p.flags = RW THEN {"ok"} ELSE mprotect(a, b - a),
              Protected(s, a, b - a, p.flags),
              status' = IF s = "ok" THEN status ELSE Failed(s),
              mem' = Copied(Wiped(mem, a, b - a), p), ph' = ph + 1,
              end' = IF a + (b - a) > end THEN a + (b - a) ELSE end
       PROVE  UserIInv'
  <2> DEFINE w == Wiped(mem, a, b - a)
  <2>1. /\ MemOK(w)
        /\ \A x \in Int : At(w, x) = IF a <= x /\ x < b THEN Zero ELSE At(mem, x)
    BY <1>2, <1>5, WipedFacts
  <2>2. mem' = Filled(w, p.vaddr, p.filesz, FileData(p))
    BY <1>11 DEF Copied
  <2> HIDE DEF w
  <2>3. p.filesz = 0 \/ (0 <= p.vaddr /\ p.vaddr + p.filesz <= SpaceSize)
    BY <1>5, <1>6, <1>9, <1>11, SpaceConstants
  <2>4. p.vaddr \in Int
    BY <1>6
  <2>5. /\ MemOK(mem')
        /\ \A x \in Int : At(mem', x) =
             IF p.vaddr <= x /\ x < p.vaddr + p.filesz THEN FileData(p)[x - p.vaddr]
             ELSE At(w, x)
    <3>1. PICK va \in Int, n \in Nat : va = p.vaddr /\ n = p.filesz
      BY <1>6, <2>4
    <3>2. n = 0 \/ (0 <= va /\ va + n <= SpaceSize)
      BY <2>3, <3>1
    <3>3. PICK v : v = FileData(p)
      OBVIOUS
    <3>4. /\ MemOK(Filled(w, va, n, v))
          /\ \A x \in Int : At(Filled(w, va, n, v), x) =
               IF va <= x /\ x < va + n THEN v[x - va] ELSE At(w, x)
      <4>1. MemOK(w)
        BY <2>1
      <4> QED  BY <3>2, <4>1, FilledFacts
    <3> QED  BY <2>2, <3>1, <3>3, <3>4, Zenon
  <2>6. \A x \in Int : At(mem', x) =
          IF p.vaddr <= x /\ x < p.vaddr + p.filesz THEN FileData(p)[x - p.vaddr]
          ELSE IF a <= x /\ x < b THEN Zero ELSE At(mem, x)
    BY <2>1, <2>5, Zenon
  <2>7. prot \in [Pages -> Flags] /\ fails \in 0 .. MaxFails /\ a \in Int /\ b \in Int
    BY <1>2, <1>5 DEF SpaceOK
  <2>8. /\ prot' \in [Pages -> Flags] /\ fails' \in 0 .. MaxFails
        /\ \A q \in Pages : prot'[q] =
             IF s = "ok" /\ a <= PageAddr(q) /\ PageAddr(q) < b THEN p.flags ELSE prot[q]
    BY <1>5, <1>6, <1>11, <2>7, ProtectedFacts
  <2>9. SpaceOK'
    BY <2>5, <2>8 DEF SpaceOK, MemOK
  <2>10. end' = IF b > end THEN b ELSE end
    BY <1>9, <1>11
  <2>11. /\ ph' \in Nat \ {0} /\ brk' \in Nat /\ end' \in Nat
    BY <1>1, <1>2, <1>5, <1>11, <2>10
  <2>12. Aligned(end')
    BY <1>2, <1>5, <2>10
  <2>13. CASE s = "ok"
    <3>1. status' = "load" /\ b <= SpaceSize
      BY <1>1, <1>9, <1>11, <2>13
    <3>2. \A q \in Pages : prot'[q] =
            IF a <= PageAddr(q) /\ PageAddr(q) < b THEN p.flags ELSE prot[q]
      BY <2>8, <2>13
    <3>3. ph' = ph + 1 /\ UNCHANGED <<brk, image, argv, envp, mmap_next>>
      BY <1>1, <1>11
    <3>4. Placed(p, a, b)
      BY <2>6, <3>2 DEF Placed
    <3> QED  BY <1>1, <1>3, <1>4, <2>9, <2>10, <3>1, <3>3, <3>4, SegmentLoads
  <2>14. CASE s # "ok"
    <3>1. s \in mprotect(a, b - a)
      BY <1>11, <2>14
    <3>2. s \in Answers /\ (s = "outside" => a + (b - a) > SpaceSize)
      BY <1>2, <1>9, <1>11, <2>7, <3>1, MprotectAnswers
    <3>3. s \in {"err", "panic"}
      BY <1>5, <1>9, <1>11, <2>14, <3>2, SpaceConstants DEF Answers
    <3>4. status' \in LoadErrors \cup {"panic"}
      BY <1>11, <2>14, <3>3 DEF Failed, LoadErrors
    <3> QED  BY <1>1, <2>9, <2>11, <2>12, <3>4, LoadFails
  <2> QED  BY <2>13, <2>14
<1>12. CASE ~OutOfRange(p) /\ \E r \in mmap_fixed(a, b - a) :
            \/ /\ r # "ok" /\ status' = Failed(r)
               /\ Mapped(r, a, b - a, RW) /\ UNCHANGED <<ph, end>>
            \/ /\ r = "ok" /\ status' = "InvalidPhdr"
               /\ Mapped(r, a, b - a, RW) /\ UNCHANGED <<ph, end>>
  BY <1>10, <1>12
<1>13. CASE /\ ~OutOfRange(p)
            /\ \E s \in IF p.flags = RW THEN {"ok"} ELSE mprotect(a, b - a) :
                 /\ Protected(s, a, b - a, p.flags)
                 /\ status' = IF s = "ok" THEN status ELSE Failed(s)
            /\ mem' = Copied(Wiped(mem, a, b - a), p)
            /\ ph' = ph + 1
            /\ end' = IF a + (b - a) > end THEN a + (b - a) ELSE end
  BY <1>11, <1>13
<1> QED  BY <1>7, <1>8, <1>12, <1>13, Zenon

\* The stack is set up.
LEMMA StackStep ==
    ASSUME UserIInv, setup_stack, UNCHANGED <<mmap_next, named, forfeit>>
    PROVE  UserIInv'
<1>1. /\ status = "load" /\ status \in {"elf", "load"} /\ ph > Len(Phdrs)
      /\ UNCHANGED <<image, argv, envp, ph, end, mmap_next>>
  BY DEF setup_stack
<1>2. /\ LocalsInv /\ SpaceOK /\ MemOK(mem) /\ fails \in Nat /\ ph \in Nat \ {0}
      /\ end \in Nat /\ Aligned(end) /\ brk \in Nat
      /\ \A q \in Pages \ forfeit : end <= PageAddr(q) => Untouched(q)
  BY <1>1, LoadFacts
<1>3. ph' \in Nat \ {0} /\ end' \in Nat /\ Aligned(end')
  BY <1>1, <1>2
<1>4. PICK bottom, v : /\ bottom = StackBottom(argv, envp)
        /\ \/ /\ status' = "NoLoadSegment" /\ UNCHANGED <<prot, mem, brk, fails>>
           \/ /\ brk' = end
              /\ \E r \in mmap_fixed(StackBase, StackSize) :
                 \/ /\ r # "ok" /\ status' = Failed(r)
                    /\ Mapped(r, StackBase, StackSize, RW)
                 \/ /\ r = "ok" /\ status' = "loaded"
                    /\ Protected(r, StackBase, StackSize, RW)
                    /\ mem' = Filled(Wiped(mem, StackBase, StackSize), bottom,
                                     StackTop - bottom, v)
  BY Zenon DEF setup_stack, NewStack
<1>5. bottom \in StackBase .. StackTop
  BY <1>2, <1>4, FileFacts
<1>6. /\ StackBase \in Nat /\ StackTop \in Nat /\ StackSize = StackTop - StackBase
      /\ Aligned(StackBase) /\ Aligned(StackTop) /\ StackTop <= SpaceSize
      /\ StackBase + StackSize = StackTop
  BY SpaceFacts, LoaderConstants DEF StackBase
<1>7. RW \in Flags
  BY DEF RW, Flags
<1>8. CASE status' = "NoLoadSegment" /\ UNCHANGED <<prot, mem, brk, fails>>
  <2>1. SpaceOK' /\ status' \in LoadErrors \cup {"panic"} /\ brk' \in Nat
    BY <1>2, <1>8 DEF SpaceOK, MemOK, LoadErrors
  <2> QED  BY <1>1, <1>3, <2>1, LoadFails
<1>9. ASSUME brk' = end, NEW r \in mmap_fixed(StackBase, StackSize), r # "ok",
             status' = Failed(r), Mapped(r, StackBase, StackSize, RW)
      PROVE  UserIInv'
  <2>1. r \in {"err", "panic"}
    <3>1. r \in Answers /\ (r = "outside" => StackBase + StackSize > SpaceSize)
      BY <1>2, <1>6, <1>9, MmapAnswers, LoaderConstants
    <3> QED  BY <1>6, <1>9, <3>1, SpaceConstants DEF Answers
  <2>2. status' \in LoadErrors \cup {"panic"} /\ brk' \in Nat
    BY <1>2, <1>9, <2>1 DEF Failed, LoadErrors
  <2>3. Mapped(r, StackBase, StackTop - StackBase, RW) /\ StackBase \in Int /\ StackTop \in Int
    BY <1>6, <1>9
  <2>4. SpaceOK'
    BY <1>2, <1>6, <1>7, <2>3, MappedFacts
  <2> QED  BY <1>1, <1>3, <2>2, <2>4, LoadFails
<1>10. ASSUME brk' = end, status' = "loaded", Protected("ok", StackBase, StackSize, RW),
              mem' = Filled(Wiped(mem, StackBase, StackSize), bottom, StackTop - bottom, v)
       PROVE  UserIInv'
  <2> DEFINE w == Wiped(mem, StackBase, StackTop - StackBase)
  <2>1. /\ MemOK(w)
        /\ \A x \in Int : At(w, x) =
             IF StackBase <= x /\ x < StackTop THEN Zero ELSE At(mem, x)
    BY <1>2, <1>6, WipedFacts
  <2>2. mem' = Filled(w, bottom, StackTop - bottom, v)
    BY <1>6, <1>10
  <2> HIDE DEF w
  <2>3. /\ bottom \in Int /\ StackBase <= bottom /\ bottom <= StackTop /\ 0 <= bottom
        /\ StackTop - bottom \in Nat /\ bottom + (StackTop - bottom) = StackTop
    BY <1>5, <1>6
  <2>4. bottom + (StackTop - bottom) <= SpaceSize
    BY <1>6, <2>3
  <2>5. /\ MemOK(mem')
        /\ \A x \in Int : At(mem', x) =
             IF bottom <= x /\ x < bottom + (StackTop - bottom) THEN v[x - bottom]
             ELSE At(w, x)
    <3>1. /\ MemOK(w) /\ bottom \in Int /\ StackTop - bottom \in Nat
          /\ 0 <= bottom /\ bottom + (StackTop - bottom) <= SpaceSize
      BY <2>1, <2>3, <2>4, Zenon
    <3>2. /\ MemOK(Filled(w, bottom, StackTop - bottom, v))
          /\ \A x \in Int : At(Filled(w, bottom, StackTop - bottom, v), x) =
               IF bottom <= x /\ x < bottom + (StackTop - bottom) THEN v[x - bottom]
               ELSE At(w, x)
      BY <3>1, FilledFacts
    <3> QED  BY <2>2, <3>2, Zenon
  <2>6. \A x \in Int : x < StackBase => At(mem', x) = At(mem, x)
    <3> SUFFICES ASSUME NEW x \in Int, x < StackBase
                 PROVE  At(mem', x) = At(mem, x)
      OBVIOUS
    <3>1. ~(bottom <= x) /\ ~(StackBase <= x)
      BY <1>6, <2>3
    <3> QED  BY <2>1, <2>5, <3>1, Zenon
  <2>7. /\ prot \in [Pages -> Flags] /\ fails \in 0 .. MaxFails
        /\ StackBase \in Int /\ StackTop \in Int
        /\ Protected("ok", StackBase, StackTop - StackBase, RW)
    BY <1>2, <1>6, <1>10 DEF SpaceOK
  <2>8. /\ prot' \in [Pages -> Flags] /\ fails' \in 0 .. MaxFails
        /\ \A q \in Pages : prot'[q] =
             IF StackBase <= PageAddr(q) /\ PageAddr(q) < StackTop THEN RW ELSE prot[q]
    BY <1>6, <1>7, <2>7, ProtectedFacts
  <2>9. SpaceOK'
    BY <2>5, <2>8 DEF SpaceOK, MemOK
  <2>10. \A q \in Pages : PageAddr(q) \in Int
    BY SpaceFacts, PageTypes
  <2>11. \A q \in Pages : PageAddr(q) < StackBase => prot'[q] = prot[q]
    BY <1>6, <2>8, <2>10
  <2>12. FreeInv'
    <3> SUFFICES ASSUME NEW q \in Pages \ forfeit, Free(q)'
                 PROVE  Untouched(q)'
      BY DEF FreeInv, Pages
    <3>1. end <= PageAddr(q) /\ PageAddr(q) < StackBase
      BY <1>1, <1>10 DEF Free, PageAddr, StackBase
    <3>2. Untouched(q) /\ prot'[q] = prot[q]
      BY <1>2, <2>11, <3>1
    <3>3. \A x \in Int : PageOf(x) = q => At(mem', x) = At(mem, x)
      <4> SUFFICES ASSUME NEW x \in Int, PageOf(x) = q
                   PROVE  At(mem', x) = At(mem, x)
        OBVIOUS
      <4>1. x < StackBase
        BY <1>6, <2>10, <3>1, OnPage
      <4> QED  BY <2>6, <4>1
    <3> QED  BY <1>2, <2>5, <3>2, <3>3, UntouchedKept
  <2>13. SegsInv'
    <3>1. Phdrs' = Phdrs /\ Loads' = Loads /\ WellFormed' = WellFormed
      BY <1>1 DEF Phdrs, File, Loads, WellFormed
    <3> SUFFICES ASSUME WellFormed, NEW k \in Loads, k < ph
                 PROVE  SegLoaded(Phdrs[k])'
      BY <1>1, <3>1 DEF SegsInv
    <3>2. PICK s \in Phdr : s = Phdrs[k]
      BY <1>2, FileFacts
    <3>3. SegLoaded(s)
      BY <1>1, <3>2 DEF UserIInv, SegsInv
    <3>4. PICK a, b : a = page_align_down(s.vaddr) /\ b = page_align_up(s.vaddr + s.memsz)
      OBVIOUS
    <3>5. b \in Nat /\ s.vaddr + s.memsz <= b /\ s.vaddr \in Nat /\ s.memsz \in Nat
      BY <3>4, SegBounds, PhdrTypes
    <3>6. b <= StackBase
      BY <3>2, <3>4 DEF WellFormed
    <3>7. \A x \in Int : s.vaddr <= x /\ x < s.vaddr + s.memsz => At(mem', x) = At(mem, x)
      <4> SUFFICES ASSUME NEW x \in Int, s.vaddr <= x, x < s.vaddr + s.memsz
                   PROVE  At(mem', x) = At(mem, x)
        OBVIOUS
      <4>1. x < StackBase
        BY <1>6, <3>5, <3>6
      <4> QED  BY <2>6, <4>1
    <3>8. \A q \in SegPages(s) : prot'[q] = prot[q]
      <4> TAKE q \in SegPages(s)
      <4>1. q \in Pages /\ q \in Int
        BY <3>3, SpaceFacts DEF SegLoaded
      <4>2. PageAddr(q) < b
        BY <3>4, <4>1, SegPagesIn
      <4>3. PageAddr(q) < StackBase
        BY <1>6, <2>10, <3>5, <3>6, <4>1, <4>2
      <4> QED  BY <2>11, <4>1, <4>3
    <3>9. end <= end'
      BY <1>1, <1>2
    <3>10. SegLoaded(s)'
      BY <1>2, <1>3, <3>3, <3>7, <3>8, <3>9, SegKept
    <3>11. Phdrs'[k] = s
      BY <3>1, <3>2
    <3> QED  BY <3>10, <3>11 DEF SegLoaded, SegPages, PagesOf, Byte, Pages
  <2>14. /\ status' \in {"load", "loaded"} /\ brk' \in Nat
         /\ status' = "loaded" => ph' > Len(Phdrs) /\ brk' = end'
    BY <1>1, <1>2, <1>10
  <2> QED  BY <1>1, <1>2, <1>3, <2>9, <2>12, <2>13, <2>14, LoadGhosts, LoadGoesOn
<1> QED  BY <1>4, <1>8, <1>9, <1>10

\* The guest starts with what load_elf left.
LEMMA StartStep ==
    ASSUME UserIInv, start
    PROVE  UserIInv'
<1>1. /\ status = "loaded" /\ status' = "run" /\ mmap_next' = MmapBase
      /\ expect' = [a \in Tracked |-> Byte(a)]
      /\ UNCHANGED <<prot, mem, brk, fails, image, argv, envp, ph, end, named, forfeit>>
  BY DEF start, spaceVars
<1>2. LocalsInv /\ UserTypeOK
  BY DEF UserIInv
<1>3. SpaceOK /\ GhostOK /\ brk = end
  BY <1>1, <1>2, TypeParts DEF LocalsInv
<1>4. /\ end \in Nat /\ Aligned(end) /\ brk \in Nat /\ MmapBase \in Nat /\ Aligned(MmapBase)
      /\ end < MmapBase
  BY <1>2, Regions
<1>5. MmapBase' = MmapBase
  BY <1>1 DEF MmapBase
<1>6. LocalsInv'
  <2>1. /\ <<image, argv, envp>>' \in Commands /\ ph' \in Nat \ {0} /\ end' \in Nat
        /\ end' % PageSize = 0 /\ brk' \in Nat
    BY <1>1, <1>2 DEF LocalsInv
  <2>2. mmap_next' \in Nat /\ mmap_next' > 0 /\ MmapBase' <= mmap_next'
    BY <1>1, <1>4, <1>5
  <2> QED  BY <1>1, <2>1, <2>2 DEF LocalsInv
<1>7. UserTypeOK'
  <2>1. /\ brk' >= end' /\ mmap_next' % PageSize = 0
    BY <1>1, <1>3, <1>4 DEF Aligned
  <2>2. /\ prot' \in [Pages -> SUBSET {"r", "w", "x"}] /\ fails' \in 0 .. MaxFails
        /\ DOMAIN mem' \subseteq 0 .. SpaceSize - 1 /\ \A a \in DOMAIN mem' : mem'[a] # Zero
    BY <1>1, <1>3 DEF SpaceOK, MemOK, Flags
  <2>3. status' \in Alive
    BY <1>1 DEF Alive
  <2>4. forfeit' \subseteq named' /\ named' \subseteq Pages
    BY <1>1, <1>3 DEF GhostOK
  <2> QED  BY <2>1, <2>2, <2>3, <2>4 DEF UserTypeOK, Pages, Alive
<1>8. FreeInv'
  <2> SUFFICES ASSUME NEW q \in Pages \ forfeit, Free(q)'
               PROVE  Untouched(q)'
    BY <1>1 DEF FreeInv, Pages
  <2>1. /\ Apart'
        /\ \/ brk' <= PageAddr(q) /\ PageAddr(q) < MmapBase
           \/ mmap_next' <= PageAddr(q) /\ PageAddr(q) < StackBase
    BY <1>1, <1>5 DEF Free, Unused, PageAddr, StackBase
  <2>2. MmapBase <= StackBase
    BY <1>1, <2>1 DEF Apart, StackBase
  <2>3. PageAddr(q) \in Int /\ StackBase \in Int
    BY SpaceFacts, PageTypes
  <2>4. end <= PageAddr(q) /\ PageAddr(q) < StackBase
    <3>1. brk' = end /\ mmap_next' = MmapBase
      BY <1>1, <1>3
    <3> QED  BY <1>4, <2>1, <2>2, <2>3, <3>1
  <2>5. Untouched(q)
    BY <1>1, <2>4 DEF UserIInv, FreeInv, Free
  <2> QED  BY <1>1, <2>5 DEF Untouched
<1>9. SegsInv'
  BY <1>1 DEF SegsInv
<1>10. MemoryKept'
  <2>1. \A a \in Tracked : Byte(a)' = Byte(a)
    BY <1>1 DEF Byte
  <2> QED  BY <1>1, <2>1 DEF MemoryKept
<1>11. HeapMapped'
  <2>1. \A q \in Pages : ~(end <= PageAddr(q) /\ PageAddr(q) < brk)
    <3>1. \A q \in Pages : PageAddr(q) \in Int
      BY SpaceFacts, PageTypes
    <3> QED  BY <1>3, <1>4, <3>1
  <2> QED  BY <1>1, <2>1 DEF HeapMapped, Pages, PageAddr
<1> QED  BY <1>6, <1>7, <1>8, <1>9, <1>10, <1>11 DEF UserIInv

-----------------------------------------------------------------------------
(* The invariant and what follows from it *)

\* Before load_elf nothing is mapped.
LEMMA UserStarts == UserInit => UserIInv
<1> SUFFICES ASSUME UserInit PROVE UserIInv
  OBVIOUS
<1>1. /\ prot = [q \in Pages |-> None] /\ mem = <<>> /\ brk = 0 /\ fails = 0
      /\ status = "elf" /\ ph = 1 /\ end = 0 /\ mmap_next = 0 /\ named = {} /\ forfeit = {}
  BY DEF UserInit, LoadInit, SpaceInit
<1>2. <<image, argv, envp>> \in Commands
  <2>1. PICK c \in Commands : image = c[1] /\ argv = c[2] /\ envp = c[3]
    BY DEF UserInit, LoadInit
  <2>2. c = <<c[1], c[2], c[3]>>
    BY CommandsFit
  <2> QED  BY <2>1, <2>2, Zenon
<1>3. LocalsInv
  <2>1. 0 % PageSize = 0
    BY PageSizeType
  <2> QED  BY <1>1, <1>2, <2>1 DEF LocalsInv
<1>4. DOMAIN mem = {}
  BY <1>1
<1>5. UserTypeOK
  <2>1. prot \in [Pages -> SUBSET {"r", "w", "x"}] /\ fails \in 0 .. MaxFails
    BY <1>1, SpaceConstants DEF None
  <2> QED  BY <1>1, <1>4, <2>1 DEF UserTypeOK, Alive
<1>6. FreeInv
  BY <1>1, <1>4 DEF FreeInv, Untouched
<1>7. SegsInv /\ MemoryKept /\ HeapMapped
  BY <1>1 DEF SegsInv, MemoryKept, HeapMapped
<1> QED  BY <1>3, <1>5, <1>6, <1>7 DEF UserIInv

\* Every step of the loader and every call keeps the invariant.
LEMMA UserSteps == UserIInv /\ [UserNext]_allVars => UserIInv'
<1> SUFFICES ASSUME UserIInv, [UserNext]_allVars PROVE UserIInv'
  OBVIOUS
<1>1. CASE Load
  <2>1. /\ UNCHANGED <<mmap_next, named, forfeit>>
        /\ load_headers \/ load_segment \/ skip_header \/ setup_stack
    BY <1>1 DEF Load, LoadStep, userVars, ghosts
  <2> QED  BY <2>1, HeadersStep, SegmentStep, SkipStep, StackStep
<1>2. CASE start
  BY <1>2, StartStep
<1>3. CASE guest_store
  BY <1>3, StoreStep
<1>4. CASE sys_brk
  <2>1. Guest
    BY <1>4 DEF sys_brk
  <2> QED  BY <1>4, <2>1, BrkStep
<1>5. CASE sys_mmap
  BY <1>5, MmapStep
<1>6. CASE sys_mmap_at
  BY <1>6, MmapAtStep
<1>7. CASE sys_mprotect
  BY <1>7, MprotectStep
<1>8. CASE \/ sys_getrandom \/ sys_readlinkat \/ sys_fstat \/ sys_uname
           \/ sys_clock_gettime \/ sys_prlimit64
  BY <1>8, FillingStep
<1>9. CASE sys_writev \/ sys_write \/ sys_futex \/ sys_stub \/ leave
  BY <1>9, PlainStep
<1>10. CASE UNCHANGED allVars
  <2>1. UNCHANGED <<prot, mem, brk, fails, status, image, argv, envp, ph, end, mmap_next,
                    expect, named, forfeit>>
    BY <1>10 DEF allVars, spaceVars, loadVars, userVars, ghosts
  <2>2. UserTypeOK' /\ LocalsInv'
    BY <2>1 DEF UserIInv, UserTypeOK, LocalsInv, Pages, Phdrs, File, MmapBase
  <2>3. FreeInv'
    BY <2>1 DEF UserIInv, FreeInv, Free, Unused, Untouched, Pages, PageAddr, PageOf, Apart,
                MmapBase, StackBase
  <2>a. SegsInv /\ UNCHANGED <<prot, mem, status, image, ph, end>>
    BY <2>1 DEF UserIInv
  <2>4. SegsInv'
    <3>1. Phdrs' = Phdrs /\ Loads' = Loads
      BY <2>a DEF Loads, Phdrs, File
    <3>2. WellFormed' => WellFormed
      BY <3>1 DEF WellFormed
    <3>3. ASSUME NEW k \in Loads, SegLoaded(Phdrs[k])
          PROVE  SegLoaded(Phdrs[k])'
      BY <2>a, <3>1, <3>3 DEF SegLoaded, Byte
    <3> QED  BY <2>a, <3>1, <3>2, <3>3 DEF SegsInv
  <2>5. MemoryKept'
    BY <2>1 DEF UserIInv, MemoryKept, Apart, MmapBase, Byte, Pages
  <2>6. HeapMapped'
    BY <2>1 DEF UserIInv, HeapMapped, HeapPage, Apart, MmapBase, Pages
  <2> QED  BY <2>2, <2>3, <2>4, <2>5, <2>6 DEF UserIInv
<1> QED  BY <1>1, <1>2, <1>3, <1>4, <1>5, <1>6, <1>7, <1>8, <1>9, <1>10 DEF UserNext

\* From the empty space through load_elf and every system call of syscall.rs, with
\* mmap and mprotect at any address, the inductive invariant holds: what was never
\* mapped stays untouched, and what was loaded, mapped or written stays as it is,
\* but for the pages that the guest took ahead of brk and mmap or mapped over
\* without MAP_FIXED.
THEOREM UserInvariance == UserSpec => []UserIInv
<1>1. UserInit => UserIInv
  BY UserStarts
<1>2. UserIInv /\ [UserNext]_allVars => UserIInv'
  BY UserSteps
<1> QED  BY <1>1, <1>2, PTL DEF UserSpec

\* The variables of the runner have their types, and the break is never below the
\* segments, for every file and every sequence of calls.
THEOREM UserTypeCorrect == UserSpec => []UserTypeOK
<1>1. UserIInv => UserTypeOK
  BY DEF UserIInv
<1> QED  BY <1>1, UserInvariance, PTL

\* load_elf and setup_stack (loader.rs) never reach outside of the reservation: only
\* a call of the running guest can.
THEOREM LoadInsideHolds == UserSpec => []LoadInside
<1>1. UserIInv => LoadInside
  BY DEF UserIInv, LocalsInv, LoadInside
<1> QED  BY <1>1, UserInvariance, PTL

\* After load_elf every segment of a well-formed file is in memory with its
\* bytes, its zeros and its protection, and the break is behind all of them.
THEOREM LoadFaithfulHolds == UserSpec => []LoadFaithful
<1>1. UserIInv => LoadFaithful
  <2> SUFFICES ASSUME UserIInv, status = "loaded", WellFormed, NEW k \in Loads
               PROVE  /\ \A i \in 0 .. Phdrs[k].memsz - 1 : Byte(Phdrs[k].vaddr + i) =
                           IF i < Phdrs[k].filesz THEN <<"file", Phdrs[k].offset + i>> ELSE Zero
                      /\ \A q \in SegPages(Phdrs[k]) :
                           prot[q] = Phdrs[k].flags /\ PageAddr(q + 1) <= brk
    BY Zenon DEF LoadFaithful
  <2>1. LocalsInv /\ ph \in Nat /\ ph > Len(Phdrs) /\ brk = end
    BY DEF UserIInv, LocalsInv
  <2>2. k \in Nat /\ k <= Len(Phdrs) /\ Phdrs \in Seq(Phdr)
    BY <2>1, FileFacts
  <2>3. k < ph
    BY <2>1, <2>2
  <2>4. SegLoaded(Phdrs[k])
    BY <2>3 DEF UserIInv, SegsInv
  <2> QED  BY <2>1, <2>4, Zenon DEF SegLoaded
<1> QED  BY <1>1, UserInvariance, PTL

\* While the regions are apart, no call disturbs what the program, the guest and
\* its calls put into memory, on any page but those that the guest took by their
\* address before brk or mmap had given them out, or mapped over without
\* MAP_FIXED (SYS_MMAP takes every address it is given).
THEOREM MemoryKeptHolds == UserSpec => []MemoryKept
<1>1. UserIInv => MemoryKept
  BY DEF UserIInv
<1> QED  BY <1>1, UserInvariance, PTL

\* Every page of the heap up to the break can be written or, once the host has
\* refused a mapping (which brk does not report), is not there at all, unless the
\* guest mapped or protected it by its address.
THEOREM HeapMappedHolds == UserSpec => []HeapMapped
<1>1. UserIInv => HeapMapped
  BY DEF UserIInv
<1> QED  BY <1>1, UserInvariance, PTL

\* Only mmap without an address moves mmap_next of a guest that has started, and
\* by whole pages.
LEMMA OnlyMmapMoves ==
    ASSUME UserIInv, [UserNext]_allVars, mmap_next' > mmap_next, mmap_next > 0
    PROVE  /\ status = "run" /\ mmap_next \in Nat /\ Aligned(mmap_next)
           /\ mmap_next' \in Int /\ Aligned(mmap_next')
<1>1. mmap_next \in Nat
  BY DEF UserIInv, LocalsInv
<1>2. mmap_next' # mmap_next
  BY <1>1
<1>3. status # "loaded"
  BY DEF UserIInv, LocalsInv
<1>4. sys_mmap
  <2>1. ~Load /\ ~start /\ ~(UNCHANGED allVars)
    BY <1>2, <1>3 DEF Load, start, allVars, userVars
  <2>2. ~guest_store /\ ~sys_brk /\ ~sys_mmap_at /\ ~sys_mprotect
    BY <1>2 DEF guest_store, sys_brk, sys_mmap_at, sys_mprotect
  <2>3. /\ ~sys_getrandom /\ ~sys_readlinkat /\ ~sys_fstat /\ ~sys_uname
        /\ ~sys_clock_gettime /\ ~sys_prlimit64
    BY <1>2 DEF sys_getrandom, sys_readlinkat, sys_fstat, sys_uname, sys_clock_gettime,
                sys_prlimit64
  <2>4. ~sys_writev /\ ~sys_write /\ ~sys_futex /\ ~sys_stub /\ ~leave
    BY <1>2 DEF sys_writev, sys_write, sys_futex, sys_stub, leave
  <2> QED  BY <2>1, <2>2, <2>3, <2>4 DEF UserNext
<1>5. status = "run"
  BY <1>4 DEF sys_mmap, Guest
<1>6. mmap_next \in Int /\ Aligned(mmap_next)
  BY <1>5, RunFacts
<1>7. PICK len \in MmapLens : mmap_next' = mmap_next + page_align_up(len)
  BY <1>4 DEF sys_mmap, Bump
<1>8. page_align_up(len) \in Int /\ Aligned(page_align_up(len))
  BY UserConstants, UpFacts
<1>9. mmap_next' \in Int
  BY <1>6, <1>7, <1>8
<1>10. Aligned(mmap_next')
  BY <1>6, <1>7, <1>8, AlignedSum
<1> QED  BY <1>1, <1>5, <1>6, <1>9, <1>10

\* A mapping without an address (SYS_MMAP) is on pages that nothing was mapped on
\* before, while the regions are apart, or on some that the guest took ahead of it.
THEOREM FreshMappingHolds == UserSpec => FreshMapping
<1> DEFINE Fresh ==
      mmap_next' > mmap_next /\ mmap_next > 0 /\ a0' = mmap_next
        /\ mmap_next' <= StackBase /\ page_align_up(brk) <= MmapBase =>
          \A q \in PagesOf(mmap_next, mmap_next' - mmap_next) \ forfeit : prot[q] = None
<1>1. UserIInv /\ [UserNext]_allVars => [Fresh]_allVars
  <2> SUFFICES ASSUME UserIInv, [UserNext]_allVars, mmap_next' > mmap_next, mmap_next > 0,
                      mmap_next' <= StackBase, page_align_up(brk) <= MmapBase,
                      NEW q \in PagesOf(mmap_next, mmap_next' - mmap_next) \ forfeit
               PROVE  prot[q] = None
    OBVIOUS
  <2>1. /\ status = "run" /\ mmap_next \in Nat /\ Aligned(mmap_next)
        /\ mmap_next' \in Int /\ Aligned(mmap_next')
    BY OnlyMmapMoves
  <2>2. PICK b \in Int : b = mmap_next'
    BY <2>1
  <2>3. PagesOf(mmap_next, b - mmap_next) \subseteq Int
        /\ \A p \in Int : p \in PagesOf(mmap_next, b - mmap_next) <=>
             mmap_next <= PageAddr(p) /\ PageAddr(p) < b
    <3>1. mmap_next \in Int /\ Aligned(b)
      BY <2>1, <2>2
    <3> QED  BY <2>1, <3>1, PagesIn
  <2>4. q \in Int /\ mmap_next <= PageAddr(q) /\ PageAddr(q) < b
    BY <2>2, <2>3
  <2>5. PageAddr(q) \in Int /\ StackBase \in Int /\ StackBase <= SpaceSize
    BY <2>4, PageTypes, SpaceFacts, LoaderConstants, SpaceConstants
  <2>6. PageAddr(q) < StackBase /\ 0 <= PageAddr(q) /\ PageAddr(q) < SpaceSize
    BY <2>1, <2>2, <2>4, <2>5, SpaceConstants
  <2>7. q \in Pages
    BY <2>4, <2>6, SpaceFacts
  <2>8. Apart
    BY <2>1, <2>2, <2>5 DEF Apart
  <2>9. Untouched(q)
    BY <2>1, <2>4, <2>6, <2>7, <2>8, RunFacts
  <2> QED  BY <2>9 DEF Untouched
<1>2. UserSpec => [][Fresh]_allVars
  BY <1>1, UserInvariance, PTL DEF UserSpec
<1> QED  BY <1>2 DEF FreshMapping
=============================================================================
