------------------------------- MODULE Loader -------------------------------
(***************************************************************************)
(* load_elf and setup_stack.  A file is a record of what the loader reads: *)
(* bad (the ElfError of its header, or "none"), size, phoff, phentsize and *)
(* the program headers; its byte at offset k is <<"file", k>>.  A word has *)
(* WordSize addresses and the stack is aligned to two words.  A string is  *)
(* a record of a name and a length, and its j-th byte is <<name, j>>.      *)
(***************************************************************************)
EXTENDS GuestSpace

CONSTANTS
    WordSize,
    PhdrSize,           \* size of a program header
    StackTop,           \* GUEST_STACK_TOP
    StackSize,          \* GUEST_STACK_SIZE
    Images,             \* the files that are loaded, by name
    Commands            \* the <<file, argv, envp>> that load_elf is called with

ASSUME LoaderConstants ==
    /\ WordSize \in Nat \ {0} /\ PhdrSize \in Nat \ {0}
    /\ StackTop \in Nat /\ StackTop % PageSize = 0
    /\ StackSize \in Nat /\ StackSize % PageSize = 0
    /\ StackSize <= StackTop /\ StackTop <= SpaceSize

VARIABLES
    status,             \* what the process is doing, or why it ended
    image, argv, envp,  \* the arguments of load_elf
    ph,                 \* the program header the loop is at
    end,                \* the local variable brk of load_elf
    phdr_addr, sp       \* ElfInfo

loadVars == <<status, image, argv, envp, ph, end, phdr_addr, sp>>

File == Images[image]
Phdrs == File.phdrs
Loads == {k \in DOMAIN Phdrs : Phdrs[k].type = "LOAD"}

LoadInit ==
    /\ SpaceInit
    /\ status = "elf"
    /\ \E c \in Commands : image = c[1] /\ argv = c[2] /\ envp = c[3]
    /\ ph = 1 /\ end = 0 /\ phdr_addr = 0 /\ sp = 0

ElfErrors == {"TooSmall", "InvalidMagic", "UnsupportedClass", "UnsupportedEndian",
              "UnsupportedMachine", "UnsupportedType", "InvalidPhdr"}
LoadErrors == ElfErrors \cup {"Io", "NoLoadSegment", "SegmentOutOfRange"}

\* A program header.  The ELF format requires that the data in the file is no longer
\* than the segment; load_elf relies on it.
Phdr == {p \in [type : STRING, vaddr : Nat, memsz : Nat, filesz : Nat, offset : Nat,
                flags : SUBSET {"r", "w", "x"}] : p.filesz <= p.memsz}

ASSUME ImageTypes ==
    \A f \in DOMAIN Images :
        Images[f].bad \in ElfErrors \cup {"none"} /\ Images[f].phdrs \in Seq(Phdr)

\* The status the process gets when a call to the host had result r
Failed(r) == CASE r = "err" -> "Io" [] OTHER -> r

StackBase == StackTop - StackSize

\* from_bytes, validate_riscv64 and program_headers; then the address of the
\* program headers, from the last PT_PHDR or from the first PT_LOAD
load_headers ==
    LET own == {k \in DOMAIN Phdrs : Phdrs[k].type = "PHDR"}
        at == IF own = {} THEN 0 ELSE Phdrs[CHOOSE k \in own : \A j \in own : j <= k].vaddr
        first == CHOOSE k \in Loads : \A j \in Loads : k <= j
    IN
    /\ status = "elf"
    /\ \/ /\ File.bad # "none"
          /\ status' = File.bad
          /\ UNCHANGED phdr_addr
       \/ /\ File.bad = "none"
          /\ File.phentsize < PhdrSize
             \/ File.phoff + Len(Phdrs) * File.phentsize > File.size
          /\ status' = "InvalidPhdr"
          /\ UNCHANGED phdr_addr
       \/ /\ File.bad = "none"
          /\ File.phentsize >= PhdrSize
          /\ File.phoff + Len(Phdrs) * File.phentsize <= File.size
          /\ status' = "load"
          /\ phdr_addr' = IF at # 0 THEN at
                          ELSE IF Loads # {} THEN Phdrs[first].vaddr + File.phoff
                          ELSE 0
    /\ UNCHANGED <<spaceVars, image, argv, envp, ph, end, sp>>

\* Wrong: the range is not checked
OutOfRange_never(p) == FALSE

OutOfRange(p) == page_align_up(p.vaddr + p.memsz) > StackTop

\* The data of a segment
FileData(p) == [k \in 0 .. p.filesz - 1 |-> <<"file", p.offset + k>>]

\* Wrong: the data goes to the start of the page
Copied_aligned(m, p) ==
    Filled(m, page_align_down(p.vaddr), p.filesz, FileData(p))

Copied(m, p) == Filled(m, p.vaddr, p.filesz, FileData(p))

\* A segment: map its pages, copy the data from the file, protect the pages.
\* (mmap and mprotect of the host act on the same pages; here the second
\* replaces the protection that the first gave them.)
load_segment ==
    LET p == Phdrs[ph]
        start == page_align_down(p.vaddr)
        size == page_align_up(p.vaddr + p.memsz) - start
    IN
    /\ status = "load" /\ ph \in Loads
    /\ \/ /\ OutOfRange(p)
          /\ status' = "SegmentOutOfRange"
          /\ UNCHANGED <<prot, mem, fails, ph, end>>
       \/ /\ ~OutOfRange(p)
          /\ \E r \in mmap_fixed(start, size) :
             \/ /\ r # "ok"
                /\ status' = Failed(r)
                /\ Mapped(r, start, size, RW)
                /\ UNCHANGED <<ph, end>>
             \/ /\ r = "ok" /\ p.filesz > 0 /\ p.offset + p.filesz > File.size
                /\ status' = "InvalidPhdr"
                /\ Mapped(r, start, size, RW)
                /\ UNCHANGED <<ph, end>>
             \/ /\ r = "ok" /\ ~(p.filesz > 0 /\ p.offset + p.filesz > File.size)
                /\ \E s \in IF p.flags = RW THEN {"ok"} ELSE mprotect(start, size) :
                     /\ Protected(s, start, size, p.flags)
                     /\ status' = IF s = "ok" THEN status ELSE Failed(s)
                /\ mem' = Copied(Wiped(mem, start, size), p)
                /\ ph' = ph + 1
                /\ end' = IF start + size > end THEN start + size ELSE end
    /\ UNCHANGED <<brk, image, argv, envp, phdr_addr, sp>>

\* A header that is not PT_LOAD is passed over.
skip_header ==
    /\ status = "load" /\ ph \in DOMAIN Phdrs \ Loads
    /\ ph' = ph + 1
    /\ UNCHANGED <<spaceVars, status, image, argv, envp, end, phdr_addr, sp>>

(***************************************************************************)
(* setup_stack                                                             *)
(***************************************************************************)
Random == 2 * WordSize                  \* the size of the AT_RANDOM data
ExecFn == [name |-> "execfn", len |-> 2]

\* Wrong: no room for the terminating zero
StringSize_bare(s) == s.len

StringSize(s) == s.len + 1

\* The strings from the top of the stack down, and the address of each
Backwards(s) == [i \in 1 .. Len(s) |-> s[Len(s) - i + 1]]
Strings(args, env) == <<ExecFn>> \o Backwards(env) \o Backwards(args)
StringAddr(strings) ==
    LET addr[k \in 0 .. Len(strings)] ==
            IF k = 0 THEN StackTop - Random
            ELSE addr[k - 1] - StringSize(strings[k])
    IN  addr

AlignDown(a) == (a \div (2 * WordSize)) * (2 * WordSize)

\* argc, the pointers and their terminators, eight auxiliary entries
FrameLen(args, env) == 1 + Len(args) + 1 + Len(env) + 1 + 8 * 2

\* Where the frame goes: the stack pointer
StackBottom(args, env) ==
    LET strings == Strings(args, env)
    IN  AlignDown(AlignDown(StringAddr(strings)[Len(strings)])
                  - FrameLen(args, env) * WordSize)

\* setup_stack does not look whether the strings and the frame fit in the stack
\* it mapped: a command is taken to be small enough.
ASSUME CommandsFit ==
    \A c \in Commands :
        /\ c = <<c[1], c[2], c[3]>> /\ c[1] \in DOMAIN Images
        /\ StackBottom(c[2], c[3]) \in StackBase .. StackTop

\* The words of the initial frame, from sp up
Frame(addr) ==
    LET ne == Len(envp)
        na == Len(argv)
    IN  <<na>> \o [i \in 1 .. na |-> addr[1 + ne + na - i + 1]] \o <<0>>
        \o [i \in 1 .. ne |-> addr[1 + ne - i + 1]] \o <<0>>
        \o <<3, phdr_addr, 4, PhdrSize, 5, Len(Phdrs), 6, PageSize, 9, File.entry,
             25, StackTop - Random, 31, addr[1], 0, 0>>

\* write_u64 and write_bytes: what is written last is on top
WordAt(w, k) ==
    IF w[k \div WordSize + 1] = 0 THEN Zero
    ELSE <<"word", w[k \div WordSize + 1], k % WordSize>>
StackByte(addr, frame, bottom, a) ==
    LET S == Strings(argv, envp)
        over == {i \in DOMAIN S : addr[i] <= a /\ a < addr[i] + S[i].len}
        last == CHOOSE i \in over : \A j \in over : j <= i
    IN  CASE a < bottom + Len(frame) * WordSize -> WordAt(frame, a - bottom)
          [] OTHER -> IF over # {} THEN <<S[last].name, a - addr[last] + 1>>
                      ELSE IF a >= StackTop - Random
                      THEN <<"random", a - (StackTop - Random)>>
                      ELSE Zero

NewStack(m, addr, frame, bottom) ==
    Filled(m, bottom, StackTop - bottom,
           [k \in 0 .. StackTop - bottom - 1 |->
              StackByte(addr, frame, bottom, bottom + k)])

\* The end of load_elf: the break, the stack, ElfInfo
setup_stack ==
    LET addr == StringAddr(Strings(argv, envp))
        bottom == StackBottom(argv, envp)
    IN
    /\ status = "load" /\ ph > Len(Phdrs)
    /\ \/ /\ Loads = {}
          /\ status' = "NoLoadSegment"
          /\ UNCHANGED <<prot, mem, brk, fails, sp>>
       \/ /\ Loads # {}
          /\ brk' = end
          /\ \E r \in mmap_fixed(StackBase, StackSize) :
             \/ /\ r # "ok"
                /\ status' = Failed(r)
                /\ Mapped(r, StackBase, StackSize, RW)
                /\ UNCHANGED sp
             \/ /\ r = "ok"
                /\ status' = "loaded"
                /\ Protected(r, StackBase, StackSize, RW)
                /\ mem' = NewStack(Wiped(mem, StackBase, StackSize), addr, Frame(addr),
                                   bottom)
                /\ sp' = bottom
    /\ UNCHANGED <<image, argv, envp, ph, end, phdr_addr>>

LoadStep == load_headers \/ load_segment \/ skip_header \/ setup_stack

(***************************************************************************)
(* Properties                                                              *)
(***************************************************************************)
\* The pages of a segment
SegPages(p) == PagesOf(p.vaddr, p.memsz)

\* What linkers produce: segments in pages of their own, below the stack
WellFormed ==
    /\ \A j, k \in Loads : j < k => SegPages(Phdrs[j]) \cap SegPages(Phdrs[k]) = {}
    /\ \A k \in Loads : page_align_up(Phdrs[k].vaddr + Phdrs[k].memsz) <= StackBase

\* After load_elf, every segment of a well-formed file is in memory as the file
\* says: its bytes, zeros up to its size in memory, and its protection.  The
\* heap starts on a page behind all of them.
LoadFaithful ==
    status = "loaded" /\ WellFormed =>
        \A k \in Loads : LET p == Phdrs[k] IN
            /\ \A i \in 0 .. p.memsz - 1 :
                 Byte(p.vaddr + i) = IF i < p.filesz THEN <<"file", p.offset + i>>
                                     ELSE Zero
            /\ \A q \in SegPages(p) : prot[q] = p.flags /\ PageAddr(q + 1) <= brk

\* How a program reads its stack: words, and strings up to a zero
Word(a) == LET b == Byte(a) IN IF b = Zero THEN 0 ELSE b[2]
CString(a) ==
    LET n == CHOOSE n \in 0 .. StackTop - a :
               /\ Byte(a + n) = Zero
               /\ \A i \in 0 .. n - 1 : Byte(a + i) # Zero
    IN  [i \in 1 .. n |-> Byte(a + i - 1)]
StringIs(a, s) == CString(a) = [i \in 1 .. s.len |-> <<s.name, i>>]
Arg(k) == Word(sp + k * WordSize)
\* The value of auxiliary vector entry key, looked for behind the environment
Aux(key) ==
    LET first == Len(argv) + Len(envp) + 3
        n == CHOOSE n \in 0 .. 8 : Arg(first + 2 * n) = key
    IN  Arg(first + 2 * n + 1)

\* setup_stack leaves what the ABI promises the program at its entry: an aligned
\* sp, argc, the arguments and the environment in order and terminated, and the
\* auxiliary vector.
StackAbi ==
    status = "loaded" =>
        /\ sp % (2 * WordSize) = 0 /\ sp >= StackBase
        /\ Arg(0) = Len(argv)
        /\ \A i \in DOMAIN argv : StringIs(Arg(i), argv[i])
        /\ Arg(Len(argv) + 1) = 0
        /\ \A i \in DOMAIN envp : StringIs(Arg(Len(argv) + 1 + i), envp[i])
        /\ Arg(Len(argv) + Len(envp) + 2) = 0
        /\ Aux(9) = File.entry /\ Aux(5) = Len(Phdrs) /\ Aux(3) = phdr_addr
        /\ StringIs(Aux(31), ExecFn)
        /\ \A i \in 0 .. Random - 1 : Byte(Aux(25) + i) = <<"random", i>>
=============================================================================
