# A TLA+ verification of tcg-rs

tcg-rs is a reimplementation of QEMU's TCG in Rust: it translates blocks of guest
(RISC-V) code through an intermediate representation into x86-64 code, keeps the
translated blocks in a shared code cache and runs them on several vCPU threads.
This directory holds TLA+ models of its parts, the TLC configurations that check
them on small instances, and proofs, checked by TLAPS, of what matters most.

Run a model with `tlc -config <file>.cfg <module>` and the proofs with
`tlapm <module>.tla`, in this directory. `PROJECT.json` lists the runs, maps every
definition to the source lines it models, and lists the hazards, findings and
theorems.

## The system and its parts

| Part | Source | Modelled by |
|---|---|---|
| execution loop: lookup, translation, execution, direct chaining | `exec/src/exec_loop.rs`, `exec/src/lib.rs` | `TbCache` |
| TB store: allocation, hash table, invalidation, flush | `exec/src/tb_store.rs` | `TbCache`, `TbHash`, `TbInvalidate`, `TbFlush` |
| TB types: exit words, jump cache, chaining state | `core/src/tb.rs` | `TbCache` |
| code buffer | `backend/src/code_buffer.rs` | the write cursor and patched jumps, in `TbCache` and `TbFlush`; the bytes, in `Emitter` |
| what the engine promises its guest | (abstract) | `GuestProgram`, `GuestExec` |
| translation pipeline | `backend/src/translate.rs` | `Pipeline` |
| optimizer | `backend/src/optimize.rs` | `Optimize` |
| liveness analysis | `backend/src/liveness.rs` | `Liveness` |
| register allocator, operand constraints | `backend/src/regalloc.rs`, `constraint.rs`, `x86_64/constraints.rs` | `RegAlloc` |
| x86-64 code generator | `backend/src/x86_64/codegen.rs` | `Codegen`: the instructions of every op, prologue and epilogue |
| x86-64 emitter | `backend/src/x86_64/emitter.rs` | `Emitter`: the bytes of an instruction, and how x86-64 reads them |
| the host processor | (x86-64, System V ABI) | `HostMachine` |
| IR: context, temps, ops, labels, opcodes | `core/src/` | `Words`, `Ir` |
| IR builder | `core/src/ir_builder.rs` | `IrBuilder` |
| translator loop, RISC-V translation | `frontend/src/` | `Pipeline`, `RiscvTrans` |
| what the guest instructions mean | (the RISC-V ISA) | `GuestIsa` |
| floating point helpers | `frontend/src/riscv/fpu.rs` | only which arguments, rounding mode and flags they use (`HelperResult` in `Ir`) |
| linux-user address space | `linux-user/src/guest_space.rs` | `GuestSpace` |
| linux-user loader | `linux-user/src/loader.rs`, `elf.rs` | `Loader` |
| linux-user system calls, main loop | `linux-user/src/syscall.rs`, `main.rs` | `LinuxUser` |
| IR serialisation and dump, decoder generator, disassembler, tools | `core/src/serialize.rs`, `core/src/dump.rs`, `decode/`, `disas/`, `tools/` | not modelled, see the end |

How they interact: the main loop calls `cpu_exec_loop` on a vCPU. The loop finds a
TB for the guest position (jump cache, hash table, or translation: frontend →
optimizer → liveness → register allocation and code generation into the code
buffer, all under `translate_lock`), runs it, and looks at the word the host code
returns: a direct exit is chained (`tb_add_jump` patches the jump in the host code
so that the next time the loop is not entered at all), an indirect exit goes
through the single-entry cache `exit_target` of the block, and any other value is
returned to the caller.

## The execution engine: `TbCache`

State. One function per field of `TranslationBlock`, indexed by TB; the code buffer
as a write cursor and the target of every `goto_tb` jump; `translate_lock` with its
poison flag; per vCPU the guest position (the key, a pair of pc and flags), the
jump cache and the local variables of the loop. `loc[t]` is the point of the code
the thread is at. Host code is abstracted to where it starts, how long it is and
where each of its jumps leads; executing it is one step per block. A `jmp_list` is
kept as how often it holds each edge: nothing in the code looks at its order.

Actions. One action is one step between two points at which another thread can
observe or change shared state:

| Code | Actions |
|---|---|
| `tb_find` | `tb_find_jump_cache`, `tb_find_hash` |
| `tb_gen_code` | `tb_gen_code_check` (space, unlocked), `_poisoned`, `_recheck` (second lookup, under the lock), `_alloc`, `_translate`, `_insert` |
| host code, `encode_tb_exit`/`decode_tb_exit` | `exec_goto_tb`, `exec_indirect`, `exec_trap` (with `exit_tb`) |
| `cpu_exec_loop_mt`, indirect exits | `exit_target_check`, `exit_target_store` |
| `tb_add_jump` | `tb_add_jump_check`, `_lock_src`, `_patch`, `_push` |
| the caller | `caller_resume` |

The critical sections of the hash mutex are parts of single actions, because
nothing inside them is visible half done. Panics are modelled: a full TB store and
an emit past the end of the buffer poison `translate_lock`, and whoever takes it
next panics too. Memory accesses are sequentially consistent (x86-64, single
words). `remaining()` is read while another thread may be emitting; the value read
lies between the cursor before and after that translation, and the comparison with
the reserve then comes out as one of the two, so a translation can move the cursor
in one step.

`GuestExec` is the abstract specification: a vCPU is at a guest position and
branches, traps, resumes or stops; there is no cache. `TbCache` implements it under
the mapping that keeps `gpc` and makes `status` of the thread's location
(`GuestTransparent`).

What is shown beyond that:
- `UniqueTranslation`: one valid TB per position (the second lookup).
- `ExecutesGuestPc`: a thread in host code is in the code of the TB of its position.
- `ChainSound`, `ChainRegistered`, `EdgeOnce`: a patched jump leads where its block
  wants to go, is known to both of its ends, and is registered once.
- `ReserveHolds`: while some vCPU is past the unlocked space check and has not emitted
  yet, the reserve is still free, less at most one TB of every vCPU that is not. The
  code's reserve is a constant, see the findings.
- `LookupCompletes`: nobody waits for ever on `translate_lock` or a jump lock.

## Around the engine

- `TbInvalidate` adds threads that call `TbStore::invalidate`, split where it takes
  a lock. Two kinds of callers are in the initial states: with `quiesced` they wait
  until every vCPU is outside its loop, without it they call at any time. Nothing in
  the repository calls `invalidate`; it is public and takes `&self`. The list and the
  `jmp_dest` it has taken out of the TBs are its own variables, worked off edge by edge.
- `TbHash` models the bucket chains pointer by pointer and shows that they hold
  exactly the linked TBs, newest first, which is the set `TbCache` uses.
- `TbFlush` has the two callers a full buffer can meet: linux-user, which exits, and
  one that answers `BufferFull` with a flush and a retry, as the comment on that exit
  reason asks. `TbStore::flush` alone is not enough: it leaves the write cursor and the
  jump caches as they were, so the caller also rewinds the buffer and drops the caches,
  while every vCPU is outside its loop. (Without the rewind the retry returns
  `BufferFull` for ever; without the drop `get` panics on an index the flush removed,
  or a stale entry names a TB that another vCPU has allocated and not translated yet:
  `RetryProgresses`, `GetInBounds`, `FlushTransparent`.)

## The compiler: `Pipeline`

One behaviour of `Pipeline` translates blocks one after the other with one context.
`phase` says which loop runs, and every turn of that loop is a step:

| Code | Actions |
|---|---|
| `translator_loop` | `TranslateInsn` (one guest instruction, ops from `RiscvTrans`), `TbStop` |
| `optimize` | `OptimizeOp` (`OptStep` of `Optimize`) |
| `liveness_analysis` | `LivenessOp` (`LiveStep` of `Liveness`, backwards) |
| `regalloc_and_codegen` | `RegAllocOp` (`RaStep` of `RegAlloc`) |
| `Context::reset` | `Reset` |

A block is guest code (`Shapes`) or a list of ops made directly, as another user of the
IR would (`IrBlocks`, constructors in `IrBuilder`); `translate_and_execute` takes both.
Temps, ops, `TempInfo`, `LifeData`, `reg_to_temp`, the free set, the spill frame and
the labels are kept as the code has them. `Codegen` turns an op with registers into
x86-64 instructions, `Emitter` an instruction into bytes.

Three interpreters give the lists a meaning: `IrRun` (`Ir`) for ops, `HostRun`
(`HostMachine`) for x86-64 instructions, with flags, stack and callee-saved registers,
and `IsaRun` (`GuestIsa`), written from the ISA and not from the code, for the guest
instructions. Each ends with the CPU state, the guest memory and the exit code, and the
properties compare them:
- `FrontendCorrect`, `OptimizerCorrect`, `HostCorrect`: the ops, the optimized ops
  and the host code do what the guest instructions do;
- `PatchedCorrect`: so does the host code with its `goto_tb` jumps patched, and it
  leaves through the slot whose target it stored. This is what `TbCache` assumes of a
  block when it follows a patched jump;
- `AbiKept`: callee-saved registers and the stack pointer come back, helpers are called
  with an aligned stack;
- `EncodingFaithful`: the bytes are read by the processor as the instruction meant,
  whichever registers were allocated, and the displacement of a `goto_tb` is aligned;
- `DeadNeverRead`: an argument that is called dead is not read before it is written;
- `RegistersAgree`: no two temps are in one register, a free register is nobody's;
- `NoPanic`: no assertion of the allocation is reached;
- `FreshContext`: a context that was reset is like a new one.

Scale. An I32 has 4 bits, an I64 8 and a guest byte 1 (`W = 4`): the ratios of the
code, with every boundary (sign, overflow, shift count, division overflow) within
reach. There are three integer and three float registers, but all thirteen host
registers and the real spill area. Each instruction is compiled alone, with operands
that alias each other and x0; 38 representative ones in all pairs; and 30 of them
followed by 16 that want particular registers, behind eleven instructions that leave
the host registers occupied. Ops made directly are compiled alone, with inputs that
die or live on, and with up to twelve other temps alive. The code is run from five CPU
states of boundary values, with two values for what unwritten registers and stack slots
hold.

Left out of the comparison, and why:
- the host code of signed divisions (a finding, run `compile_div`);
- the host code of `mulh`, `mulhu` and `mulhsu` of a register by itself: one temp
  would have to be in RAX and in another register, loading it a second time moves it
  away, and the result is wrong. Adding `high_square` to `HostShapes` shows it.
  `RegistersAgree` leaves out blocks with such an op (a `divu` of x0 is another);
- `amomin.w`, `amomax.w` and their unsigned forms compare all of rs2 with the loaded
  word and so differ from the ISA when rs2 is not a sign-extended word; they are
  compared behind an instruction that makes it one;
- SC without a reservation (a finding, run `compile_sc`). In `IsaRun` an SC succeeds if
  there is a reservation, which covers all of memory (the ISA allows a reservation set
  to be larger than what was loaded), and otherwise stores nothing and sets rd to 1. In
  the blocks of `compile` an SC has one, from the CPU state or from an LR before it, so no
  SC follows another;
- AMOs beside other vCPUs: the comments on `gen_amo` and `gen_sc` say single-thread;
- the host code of a helper call whose guest register argument is held in RDI:
  `regalloc_call` fills the argument registers one by one, and env into RDI overwrites it.
  `CallShapes` in place of `LoopShapes` shows it;
- ops that the translator never makes and that the backend gets wrong, noticed while
  modelling: one-byte `Extract` and `SExtract` of a value in RSI or RDI lack the REX
  prefix that names SIL and DIL; `Clz` and `Ctz` ignore the value for a zero input
  (`docs/ir-ops.md:143`); loading the constant 0 between `AddCO` and `AddCI` is an XOR
  that clears the carry; `eval_cond` compares I32 constants as signed I64; the
  conditions Always and Never have no x86 code; a copy recorded before its source is
  redefined is still used (`optimize.rs:226`). The blocks of ops keep away from these.

What floats compute is abstracted to a sum that tells the helpers' arguments apart.
Instructions are given decoded.

## The user-mode runner: `LinuxUser`

`GuestSpace` is the reservation: the protection of every page, what memory holds, and
the break. `mmap_fixed` and `mprotect` may succeed, be refused by the host, panic in
`g2h`, or reach past the end of the reservation (`outside`). `Loader` is `load_elf`, one
program header per step, and `setup_stack`. `LinuxUser` is the loop of `main`: the guest
stores to memory or makes a call, and each of `handle_syscall`'s calls is one action,
from the trap to the result in a0; calls without an effect are one action together
(`sys_stub`). What is checked:
- `LoadFaithful`, `StackAbi`: after loading, memory is what the headers of a well-formed
  file say (file bytes, zeroed rest, protections), and the stack holds argc, argv, envp
  and the auxiliary vector, the strings they point to, aligned;
- `LoadInside`: loading never maps outside the reservation, whatever the file;
- `MemoryKept`: calls disturb nothing but what they are for;
- `HeapMapped`: the heap is mapped up to the break, and where the host refused the pages,
  which `brk` does not tell its caller, they are not there at all;
- `FreshMapping`: a mapping without an address is on fresh pages.

The last three hold while heap, mappings and stack are apart (`Apart`). Nothing in the
code keeps them apart: the guest's own calls can grow one into another, and then brk maps
over live pages.

An address given to `mmap` is used as it is, wherever it points: the code reads no flags
and neither `brk` nor `mmap_next` learns of the pages. Two variables that the code does
not have remember this. `named` are the pages that the guest mapped or protected by their
address: of these `HeapMapped` says nothing. `forfeit` are those of them that lose their
contents where Linux would keep them: pages that `brk` or `mmap` had not given out yet and
will map again, and pages in use that were mapped over by an address without MAP_FIXED,
which is to be a hint. `MemoryKept` and `FreshMapping` leave out `forfeit` and nothing
else; a page replaced on request has the contents the call gave it.

A page has 16 addresses, a word 2; files are given by their headers, eleven of them,
well formed, refused, or with segments that overlap each other or the stack. Each run of
the guest takes at most three steps (`MaxCalls`), enough to take pages by their address,
have brk or mmap give them out, and store; a mapping is one page or one address more, its
address on a segment, in the gap above the break, off a page boundary, where the mappings
begin, or at or behind the end of the space (`Addrs`). The host refuses at most one mapping
(`MaxFails`). A process that has ended
takes no step, so deadlock checking is off.

## Runs

| Run | Configuration | Shows | Distinct states |
|---|---|---|---|
| `chain_three_blocks` | `TbCacheChain` | the inductive invariant, all safety properties and the refinement; 2 vCPUs, 3 blocks with every kind of exit, two of them sharing a jump cache entry, and translations too large for the buffer | 228,931 |
| `buffer_full` | `TbFlush` | both answers to a full buffer: types, bounds, the reserve, the refinement, progress; 2 vCPUs, 3 blocks of one of two sizes, a store for 2 of them and a buffer for 1 or 2: either can run out first, and a panic poisons the lock others wait for | 110,103 |
| `invalidate` | `TbInvalidate` | the inductive invariant; invalidation at any time returns and never runs a wrong block; a quiesced one unlinks the TB for good; one vCPU and one invalidator, two loops with edges to themselves and to each other, 3 TBs | 444,838 |
| `hash_chains` | `TbHash` | the bucket chains, 3 keys in 2 buckets, 4 TBs | 84,240 |
| `compile` | `Pipeline` | the compiler, all eleven properties | 220,092 |
| `linux_user` | `LinuxUser` | loading, system calls and memory of a user program, and the inductive invariant behind them | 264,229 |
| `compile_div`, `compile_loop`, `compile_sc`, `compile_long` | `PipelineDiv`, `-Loop`, `-Sc`, `-Long` | violated: see the findings | |
| `space_check_race` | `TbCacheRace` | violated: see the findings | |
| `invalidate_race` | `TbInvalidateRace` | violated: see the findings | |

Bounds. Two vCPUs show every race of two steps; one vCPU and one invalidator show
those of chaining with invalidation. Three blocks give a
direct edge, a self edge, an edge back, an indirect edge with two targets and a
trap, and more blocks than fit in the smaller stores and buffers. Two bucket heads
and chains of up to four cover first, middle and last position. `TbSizes` measures
host code in units of the smallest block. `TbHash` switches deadlock checking off because its supply of TBs ends, `LinuxUser`
because its process does; everywhere else a state without a step is an error, and ending is a step.

Fairness. `FairSpec` is weak fairness of every vCPU thread (the operating system
schedules it), `InvFairSpec` adds that of an invalidation that has begun, and
`FlushSpec` that of the caller's flush. Weak fairness of a waiting thread is enough: a
mutex is handed to one waiter at a time, its critical section is finite, and in the
checked programs no other thread takes it for ever (once a slot is patched or a
block translated, the lock is not taken for it again). In `TbFlush` the caller
resumes no vCPU from a trap while another waits for the flush, and every loop of the
guest program passes a trap.

A definition named after another with a suffix (`Hit_any_key` before `Hit`) is a
wrong version of it that some property must notice; no specification uses it.

## Proofs

Proved are the safety properties of the execution engine, with and without invalidation
and flushing, and those of loading and running a user program.

| Module | Theorem | |
|---|---|---|
| `TbCacheProofs` | `Invariance` | `Spec => []IInv` |
| | `TypeCorrect`, `UniqueTranslationHolds`, `ExecutesGuestPcHolds`, `ChainSoundHolds` | what `IInv` implies |
| | `Refinement` | `Spec => GuestTransparent` |
| `TbCacheEdges` | `ChainRegisteredHolds` | `Spec => []ChainRegistered` |
| `TbFlushProofs` | `EdgeOnceHolds`, `ReserveHoldsAlways` | `Spec => []EdgeOnce`, `Spec => []ReserveHolds` |
| | `FullIsReportedWithReserve` | with `EnoughReserve`, `Spec => []FullIsReported` |
| | `FlushTypeCorrect`, `FlushChainRegistered`, `FlushReserve`, `GetInBoundsHolds` | the invariants, with a caller that flushes |
| | `FlushRefinement` | `FlushSteps => FlushTransparent` |
| `TbInvalidateProofs` | `InvInvariance` | `InvSpec => []InvIInv` |
| | `InvTypeCorrect`, `InvUniqueTranslation`, `InvExecutesGuestPc`, `InvChainSound` | with invalidations at any time |
| | `QuiescedUnlinkedHolds`, `DeadNotExecutedHolds` | what quiesced callers get |
| | `InvRefinement` | `InvSpec => GuestTransparent` |
| `LinuxUserProofs` | `UserInvariance` | `UserSpec => []UserIInv` |
| | `UserTypeCorrect`, `LoadInsideHolds`, `LoadFaithfulHolds`, `MemoryKeptHolds`, `HeapMappedHolds`, `FreshMappingHolds` | the safety properties of `LinuxUser` but `StackAbi` |

`TbCacheFacts`, `TbInvalidateSteps` and `LinuxUserCalls` hold the lemmas these rest on:
one for each action, and what the helpers return and preserve.

Assumptions. The engine's results hold for every set of threads, guest program and
capacity allowed by `GuestProgram` and `EngineConstants`; what counts threads also
assumes that there are finitely many (`FiniteThreads`). Those of `LinuxUser` hold for
every page size, address space and stack made of whole pages (`SpaceConstants`,
`LoaderConstants`), every file, well formed or not, whose headers have the types of the
ELF format (`ImageTypes`; with it, that a segment has no more data in the file than
memory), every command that fits in the stack (`CommandsFit`, which `setup_stack` does
not check) and every set of calls (`UserConstants`).

The engine. None of the properties is inductive alone. `IInv` (`TbCacheInv`) adds what
each relies on: the only TB that is neither published nor invalid is the last one, built
by the owner of `translate_lock`, unless a panic poisoned the lock (`StoreInv`,
`BuildInv`; this is why the second lookup makes translations unique); code lies below the
cursor and no two TBs start at the same offset (`CodeInv`; this identifies the TB a
thread is in); caches and patched jumps name finished TBs, a jump one of the right key
(`CacheInv`, `JumpInv`); and a thread between an exit and the next entry knows the block
it left, the slot, and a TB for where it goes (`LocalInv`). `IInv` says nothing of
`jmp_dest` and `jmp_list` and does not need a TB to stay published: to run the right code
the engine needs neither, and so `IInv` survives an `invalidate` at any time.

Edges. `ChainRegistered` rests on `ChainInv`, which does speak of them: the jump of a
valid TB, its `jmp_dest` and the lists agree (`RecordInv`, `PushDest`, `ListDest`), and
the TBs a thread deals with are valid (`ValidInv`). `EdgeOnce` counts, and a count is not
inductive. `EdgeInv` says why it is at most one: an edge in a list occurs there once and
is in nobody's hands; two threads never hold the same edge, because the first to take the
source's lock sets `jmp_dest` and the second finds it set.

The reserve. `ReserveHolds` is proved by counting the threads past the space check: a
step either leaves the cursor alone, and a thread joins them only with the reserve
free, or takes the thread out and at most one TB off the buffer (`CommitStep`). Then
with one largest TB per vCPU in reserve (`EnoughReserve`) a translation always fits and
the only panics left are a full store and a lock poisoned by one. The run
`space_check_race` shows that a constant reserve is not enough.

Flushing. `FlushSteps` is `FlushSpec` without fairness. A flush takes `IInv` to `IInv`
because every vCPU is outside its loop: no local variable is in use, and the caller has
dropped the caches, which are the only other places that keep a TB index. To the guest
it is a stutter.

Invalidation. `InvInv` is `IInv` and that every invalidation works on a finished TB that
is marked (`MarkedInv`); it holds whatever the callers do, and with it the right code
runs. `QuietInv` is what quiesced callers add. One invalidation runs at a time, with all
vCPUs outside (`AloneInv`), so `ChainInv` may be broken in the middle, but only at slots
that the running invalidation still has in its list or in its hand and will reset
(`Covered`, `QueueDest`). When it returns nothing is left to reset and `ChainInv` holds
again, without the dead TB. `InvIInv`, of both, is an invariant of the run `invalidate`;
`invalidate_race` shows that the second part is lost without quiesced callers.

User programs. `UserIInv` (`LinuxUserInv`) says which pages have not been given out
yet (`Free`) and that nothing was ever mapped there (`FreeInv`): behind the segments while
they are loaded, below the stack when it is there, then above the break and above the last
mapping. The guest may take such pages by their address, so `FreeInv` leaves out `forfeit`;
that every page taken ahead is there is what the proof of `NamedStep` (`LinuxUserCalls`) is
about. This is why a call that maps pages touches nothing a property speaks of. While
the loop of `load_elf` runs, the segments it has passed are in memory as the file says and
below `end` (`SegsInv`); a later segment of a well-formed file is on other pages.
`MemoryKept` and `HeapMapped` are then inductive with the types of the locals
(`LocalsInv`): a heap page the host refused is one that was still free.

Only model-checked: liveness, out of the prover's reach (`LookupCompletes`,
`RetryProgresses`, `InvalidateReturns`); the bucket chains, which are a recursive walk, and
`StackAbi`, where the address of each string is computed from that of the one before it:
both need induction over data; and the compiler, whose words rest on `Bitwise`.

## Findings

1. `space_check_race`: the space is checked before `translate_lock` is taken and not
   again; two vCPUs can use the same reserve, and the second panics with a buffer
   overflow instead of returning `BufferFull`. (One TB can also be larger than the
   reserve: up to 512 guest instructions against 4096 bytes.
   `FullIsReportedWithReserve` proves what reserve would do.)
2. `invalidate_race`: `tb_add_jump` checks `invalid` before it takes a lock; an
   `invalidate` in between leaves a jump to the dead block.
3. `compile_div`: an op whose output is also an input reads the output's register,
   because `regalloc_op` looks the inputs up again after the outputs were assigned.
   In `gen_div_rem` that is the last `movcond`: `div` and `divw` give the negated
   dividend, `rem` and `remw` give 0. No test of the repository executes one.
4. `compile_loop`: a constant loaded on the path that falls into a label is taken to
   be in its register by the code behind the label, which a jump reaches without
   loading it. A block of a float load and a branch back to it stores a wrong pc.
5. `compile_sc`: `gen_sc` stores, sets rd to 0 and clears `load_res` without looking at
   it, so an SC succeeds without a reservation, for example the second of two after one
   LR. The comment on it says that SC succeeds "if there is a valid reservation".
6. `compile_long`: spill slots are not reused; a straight block of 140 additions
   fills the spill area and panics, with a limit of 512 instructions per block.

Findings 3 to 6 are behaviours of the model; the code was read along each
counterexample, and not run.

## Not modelled

- Several vCPUs that share guest memory: `gen_amo` and `gen_sc` are written for one
  thread and say so. `TbCache` has the threads, `Pipeline` the memory.
- The decoder generator (`decode/src/lib.rs`): a build-time program from `.decode` text to
  Rust. `RiscvTrans` starts from decoded instructions, and the checks of extensions and
  of reserved encodings that come with decoding are not modelled.
- IR serialisation (`core/src/serialize.rs`): a file format between the tools, written and
  read field by field by sequential code. The dump, the disassembler and the
  tools produce text.
- The arithmetic of the floating point helpers (`fpu.rs`): IEEE operations of the host
  on 32 and 64 bits.
- Vector ops: no frontend makes them and the backend accepts none.
- The protection of the code buffer: `set_executable` and `set_writable` are called by
  tests only. (The buffer is mapped readable, writable and executable, although the
  comment on `CodeBuffer` says "either writable or executable, never both".)
- Weak memory: the engine's accesses are single words on x86-64, and the models
  interleave them.
