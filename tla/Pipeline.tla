------------------------------ MODULE Pipeline ------------------------------
(***************************************************************************)
(* The translation of one block: translator_loop appends the ops of guest  *)
(* instructions, then translate runs the optimizer, the liveness analysis  *)
(* and the register allocator over them, and the context is reset for the  *)
(* next block.  Shapes gives, for each name of a block of guest code, the  *)
(* set of instructions that can be at each of its places; IrBlocks gives,  *)
(* for other names, lists of ops that a user of the IR made without the    *)
(* RISC-V frontend.                                                        *)
(***************************************************************************)
EXTENDS HostMachine, Emitter, GuestIsa, Optimize

CONSTANTS Shapes,     \* the blocks that are translated
          IrBlocks,   \* the lists of ops that are compiled as they are
          StartPc,    \* the address a block starts at
          Envs,       \* the CPU states the code is run from
          Junk,       \* what an unwritten host register may hold
          HostShapes  \* the blocks whose host code is run

VARIABLES phase,      \* which loop of the translation is running
          shape,      \* the block to be translated
          insns,      \* the guest instructions translated so far, or the ops
          pc_next, is_jmp,
          ops,        \* Context::ops
          oi,         \* the op the running pass is at
          info,       \* the optimizer's temp infos
          live,       \* temp_state of the liveness analysis
          life,       \* Op::life
          ra          \* what register allocation changes

vars == <<phase, shape, insns, pc_next, is_jmp, ops, oi, info, live, life, ra>>

Init ==
    /\ phase = "gen"
    /\ shape \in DOMAIN Shapes \cup DOMAIN IrBlocks
    /\ insns = <<>> /\ pc_next = StartPc /\ is_jmp = "Next"
    /\ ops = <<>> /\ oi = 1 /\ info = <<>> /\ live = AllGlobals /\ life = <<>>
    /\ ra = RaInit(ALLOCATABLE_REGS)

max_insns == Len(Shapes[shape])

\* One turn of translator_loop
TranslateInsn ==
    /\ phase = "gen" /\ shape \in DOMAIN Shapes /\ is_jmp = "Next"
    /\ \E a \in Shapes[shape][Len(insns) + 1] :
         /\ ops' = ops \o translate_insn(Len(insns) + 1, pc_next, a)
         /\ insns' = Append(insns, a)
         /\ pc_next' = Low(pc_next + a.len, "I64")
         /\ is_jmp' = IF NoReturn(a) THEN "NoReturn"
                      ELSE IF Len(insns) + 1 >= max_insns THEN "TooMany"
                      ELSE "Next"
    /\ UNCHANGED <<phase, shape, oi, info, live, life, ra>>

TbStop ==
    /\ phase = "gen" /\ is_jmp # "Next"
    /\ ops' = IF is_jmp = "NoReturn" THEN ops ELSE ops \o tb_stop(pc_next)
    /\ phase' = "optimize"
    /\ UNCHANGED <<shape, insns, pc_next, is_jmp, oi, info, live, life, ra>>

\* A block made with the constructors of ir_builder.rs
BuildOps ==
    /\ phase = "gen" /\ shape \in DOMAIN IrBlocks
    /\ ops' \in IrBlocks[shape] /\ insns' = ops'
    /\ phase' = "optimize"
    /\ UNCHANGED <<shape, pc_next, is_jmp, oi, info, live, life, ra>>

\* The loop of optimize; the liveness analysis starts at the last op.
OptimizeOp ==
    /\ phase = "optimize"
    /\ LET s == OptStep(info, ops[oi])
       IN  ops' = [ops EXCEPT ![oi] = s.op] /\ info' = s.info
    /\ IF oi = Len(ops)
       THEN phase' = "liveness" /\ life' = [k \in DOMAIN ops |-> NoLife]
            /\ UNCHANGED oi
       ELSE oi' = oi + 1 /\ UNCHANGED <<phase, life>>
    /\ UNCHANGED <<shape, insns, pc_next, is_jmp, live, ra>>

LivenessOp ==
    /\ phase = "liveness"
    /\ LET s == LiveStep(live, ops[oi])
       IN  life' = [life EXCEPT ![oi] = s.life] /\ live' = s.live
    /\ IF oi = 1 THEN phase' = "regalloc" /\ UNCHANGED oi
       ELSE oi' = oi - 1 /\ UNCHANGED phase
    /\ UNCHANGED <<shape, insns, pc_next, is_jmp, ops, info, ra>>

RegAllocOp ==
    /\ phase = "regalloc" /\ ~ra.panic
    /\ ra' = RaStep(ra, ops[oi], life[oi])
    /\ IF oi = Len(ops) THEN phase' = "done" /\ UNCHANGED oi
       ELSE oi' = oi + 1 /\ UNCHANGED phase
    /\ UNCHANGED <<shape, insns, pc_next, is_jmp, ops, info, live, life>>

\* Wrong: a global is still said to be where the last translation had it
reset_keeps(loc) == [t \in DOMAIN loc \cap AllGlobals |-> loc[t]]

\* Context::reset: the globals are back in memory, the other temps are gone
reset(loc) ==
    [t \in DOMAIN loc \cap AllGlobals |->
       IF is_fixed(t) THEN [loc[t] EXCEPT !.coh = FALSE]
       ELSE LocOf("Mem", NoReg, TRUE, NoSlot)]

\* The next translation with the same context
Reset ==
    /\ phase = "done"
    /\ phase' = "gen"
    /\ shape' \in DOMAIN Shapes \cup DOMAIN IrBlocks
    /\ insns' = <<>> /\ pc_next' = StartPc /\ is_jmp' = "Next"
    /\ ops' = <<>> /\ oi' = 1 /\ info' = <<>> /\ live' = AllGlobals /\ life' = <<>>
    /\ ra' = [RaInit(ALLOCATABLE_REGS) EXCEPT !.loc = reset(ra.loc)]

Next ==
    \/ TranslateInsn \/ TbStop \/ BuildOps
    \/ OptimizeOp \/ LivenessOp \/ RegAllocOp \/ Reset

Spec == Init /\ [][Next]_vars

(***************************************************************************)
(* Properties                                                              *)
(***************************************************************************)
\* The types of the variables: a temp in a register names it, and RBP has the
\* CPU state between any two ops and is never in the free set.
TypeOK ==
    /\ phase \in {"gen", "optimize", "liveness", "regalloc", "done"}
    /\ shape \in DOMAIN Shapes \cup DOMAIN IrBlocks
    /\ shape \in DOMAIN Shapes => Len(insns) <= max_insns
    /\ pc_next \in Word
    /\ is_jmp \in {"Next", "NoReturn", "TooMany"}
    /\ oi \in 1 .. Len(ops) + 1
    /\ phase = "optimize" => \A t \in DOMAIN info : info[t].val \in Word
    /\ ra.free \subseteq ALLOCATABLE_REGS /\ ra.loc[Env].reg = RBP
    /\ \A t \in DOMAIN ra.loc :
         /\ ra.loc[t].vt \in {"Dead", "Reg", "Mem", "Const"}
         /\ ra.loc[t].vt = "Reg" => ra.loc[t].reg \in Regs

Reads(op, t) == \E k \in DOMAIN op.i : op.i[k] = t
Writes(op, t) == \E k \in DOMAIN op.o : op.o[k] = t

\* The instructions of every op that was emitted
Lowered(code) == [k \in DOMAIN code |-> tcg_out_op(code[k], 0)]

\* The code with its direct jumps patched.  The jumps are recorded in the
\* order they were emitted, and the first two are taken for the slots 0 and 1:
\* a jump that goes to the next block leaves like the exit of its slot.
Sites(code) == {k \in DOMAIN code : code[k].opc = "GotoTb"}
Slot(code, k) == Cardinality({j \in Sites(code) : j < k})
Patched(code) ==
    [k \in DOMAIN code |->
       IF k \in Sites(code) /\ Slot(code, k) < 2
       THEN Op("ExitTb", "I64", <<>>, <<>>,
               Field(<<"TB_EXIT_IDX0", "TB_EXIT_IDX1">>[Slot(code, k) + 1]))
       ELSE code[k]]

\* What the guest architecture, or the IR, says the block does from a CPU state
Meant(env) == IF shape \in DOMAIN IrBlocks THEN IrRun(insns, env, <<>>)
              ELSE IsaRun(insns, env, <<>>)

RunsAs(code) ==
    \A env \in Envs :
        {Seen(HostRun(code, env, <<>>, junk)) : junk \in Junk} = {Meant(env)}

\* The ops that translator_loop makes of a block (trans.rs) do what the
\* instructions do: registers, memory, pc and exit code.
FrontendCorrect ==
    phase = "optimize" /\ oi = 1 =>
        \A env \in Envs : IrRun(ops, env, <<>>) = Meant(env)

\* Constant folding, copy propagation and simplification (optimize.rs) do
\* not change what the ops do.
OptimizerCorrect ==
    phase = "liveness" /\ oi = Len(ops) =>
        \A env \in Envs : IrRun(ops, env, <<>>) = Meant(env)

\* The host code of the block (regalloc.rs, codegen.rs) does what the guest
\* instructions do, whatever the registers and the stack hold on entry.
HostCorrect ==
    phase = "done" /\ shape \in HostShapes =>
        RunsAs(Lowered(ra.code))

\* Once tb_add_jump has patched its jumps a block still leaves the CPU state
\* and the memory its instructions ask for, through the slot whose target they
\* go to: everything is written back before the jump (regalloc.rs), and the
\* order of goto_tb_offsets is that of the slots (exec_loop.rs).
PatchedCorrect ==
    phase = "done" /\ shape \in HostShapes /\ Sites(ra.code) # {} =>
        RunsAs(Lowered(Patched(ra.code)))

\* A block returns to the caller of the prologue with the callee-saved
\* registers and the stack pointer it was called with, and calls helpers with
\* an aligned stack (emit_prologue, emit_epilogue).
AbiKept ==
    phase = "done" /\ shape \in HostShapes =>
        \A junk \in Junk :
            HostRun(Lowered(ra.code), CHOOSE env \in Envs : TRUE, <<>>, junk).abi

\* The bytes that emitter.rs writes for an instruction are read by x86-64 as
\* that instruction, whichever registers were allocated: prefixes, byte
\* registers, bases that need a SIB byte or a displacement.  The displacement
\* of a jump to be patched is aligned wherever the jump comes to be.
EncodingFaithful ==
    phase = "done" =>
        /\ \A k \in DOMAIN ra.code :
             LET s == tcg_out_op(ra.code[k], 0)
             IN  \A j \in DOMAIN s : Encodes(s[j])
        /\ Sites(ra.code) # {} =>
             \A offset \in 0 .. 3 :
               LET pad == IF NopPad(offset) = 0 THEN 0
                          ELSE Len(Encode(Head(emit_goto_tb(offset))))
               IN  (offset + pad + 1) % 4 = 0
        /\ \A j \in DOMAIN emit_prologue : Encodes(emit_prologue[j])
        /\ \A j \in DOMAIN emit_epilogue : Encodes(emit_epilogue[j])

\* liveness_analysis calls an argument dead only when nothing reads the temp
\* again before it is written: regalloc_op gives its register away there.
DeadNeverRead ==
    phase = "regalloc" /\ oi = 1 =>
        \A j \in DOMAIN ops :
          LET args == ops[j].o \o ops[j].i
              After(p) == IF p <= Len(ops[j].o) THEN j + 1 ELSE j
          IN  \A p \in {q \in life[j].dead : args[q].kind \in {"Ebb", "Const"}} :
                \A k \in j + 1 .. Len(ops) :
                    Reads(ops[k], args[p]) =>
                        \E m \in After(p) .. k - 1 : Writes(ops[m], args[p])

\* One temp at two inputs of an op that wants them in different registers
SameTempTwice(op) ==
    op.opc \in {"MulS2", "MulU2", "DivS2", "DivU2"} /\ op.i[1] = op.i[2]

\* The two views of the allocation agree at every op: a temp that is said to
\* be in a register (Temp::reg) is the one reg_to_temp has for it, so no two
\* temps share a register, and a free register belongs to nobody.  An op
\* with one temp at two fixed inputs breaks this in regalloc_op.
RegistersAgree ==
    (\A k \in DOMAIN ops : ~SameTempTwice(ops[k])) =>
        /\ \A t \in DOMAIN ra.loc :
             ra.loc[t].vt = "Reg" => ra.own[ra.loc[t].reg] = t
        /\ \A r \in ra.free : ra.own[r] = NoTemp

\* None of the assertions of the allocation is reached: no dead temp is
\* loaded, a register is always found, the base of a slot is in a register
\* and the spill area (alloc_temp_frame) suffices.
NoPanic == ~ra.panic

\* Context::reset leaves the temps as those of a new context, whatever the
\* last translation did to them.
FreshContext == phase = "gen" => ra = RaInit(ALLOCATABLE_REGS)
=============================================================================
