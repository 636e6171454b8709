----------------------------- MODULE MCLinuxUser -----------------------------
(***************************************************************************)
(* Small programs for LinuxUser: pages of 16 addresses, words of 2, and a  *)
(* space of 16 pages with the stack below page 14.                         *)
(***************************************************************************)
EXTENDS LinuxUserInv

Seg(vaddr, memsz, filesz, offset, flags) ==
    [type |-> "LOAD", vaddr |-> vaddr, memsz |-> memsz, filesz |-> filesz,
     offset |-> offset, flags |-> flags]
Other(type, vaddr) ==
    [type |-> type, vaddr |-> vaddr, memsz |-> 0, filesz |-> 0, offset |-> 0,
     flags |-> {"r"}]
Elf(phdrs) ==
    [bad |-> "none", size |-> 40, phoff |-> 4, phentsize |-> 3, entry |-> 18,
     phdrs |-> phdrs]

RX == {"r", "x"}
Text == Seg(16, 10, 10, 0, RX)
DataSeg == Seg(36, 16, 6, 20, RW)

MCImages ==
    [hello |-> Elf(<<Text, DataSeg>>),
     phdr |-> Elf(<<Other("PHDR", 20), Text, Other("NOTE", 0), DataSeg>>),
     bss_first |-> Elf(<<Seg(34, 30, 0, 0, RW), Seg(16, 16, 16, 8, RX)>>),
     shared_page |-> Elf(<<Text, Seg(28, 10, 6, 20, RW)>>),
     in_stack |-> Elf(<<Text, Seg(170, 20, 6, 20, RW)>>),
     too_high |-> Elf(<<Text, Seg(250, 30, 6, 20, RW)>>),
     cut_off |-> Elf(<<Text, Seg(36, 16, 16, 30, RW)>>),
     nothing |-> Elf(<<Other("NOTE", 0)>>),
     short_table |-> [Elf(<<Text>>) EXCEPT !.size = 6],
     small_entry |-> [Elf(<<Text>>) EXCEPT !.phentsize = 2],
     not_riscv |-> [Elf(<<>>) EXCEPT !.bad = "UnsupportedMachine"]]

Str(name, len) == [name |-> name, len |-> len]
Argv == <<Str("prog", 3), Str("arg", 2), Str("empty", 0)>>
Envp == <<Str("home", 2), Str("path", 1)>>
MCCommands ==
    {<<"hello", Argv, Envp>>, <<"hello", <<>>, <<>>>>, <<"phdr", Argv, <<>>>>,
     <<"bss_first", Tail(Argv), Tail(Envp)>>}
    \cup {<<f, <<Argv[1]>>, <<>>>> : f \in DOMAIN MCImages \ {"hello", "phdr", "bss_first"}}

MCBrkArgs == {0, 70, 90, 100, 256, 272}
\* On a segment, in the gap, not on a page, where the mappings begin, at the end
\* of the space and behind it
MCAddrs == {32, 80, 90, 96, 240, 256}
MCProts == {RW, {"r"}}
MCBuffers == {<<60, 8>>, <<110, 8>>, <<300, 1>>}
=============================================================================
