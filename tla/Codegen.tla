------------------------------ MODULE Codegen ------------------------------
(***************************************************************************)
(* The x86-64 instructions that tcg_out_op makes of an op whose registers  *)
(* are allocated, and the ones around a block: prologue and epilogue.      *)
(*                                                                         *)
(* An instruction has the opcode constant of emitter.rs without its OPC_   *)
(* (the 16 and 8 bit forms of an opcode have names of their own), the      *)
(* number n added to it, REX.W, the reg and r/m fields and, by mode, an    *)
(* index register and a displacement.  A byte count or an offset is that   *)
(* of the code; an immediate is a word of the instance.                    *)
(***************************************************************************)
EXTENDS RegAlloc
LOCAL INSTANCE SequencesExt

Insn(opc, n, w, r, rm) ==
    [opc |-> opc, n |-> n, w |-> w, mode |-> "reg", r |-> r, rm |-> rm,
     idx |-> 0, disp |-> 0, imm |-> 0]
Mem(x, disp) == [x EXCEPT !.mode = "mem", !.disp = disp]
Sib(x, idx) == [x EXCEPT !.mode = "sib", !.idx = idx]
Imm(x, v) == [x EXCEPT !.imm = v]

\* No ModR/M byte; the register, if there is one, is in the opcode byte.
Bare(opc, n, w, rm) == [Insn(opc, n, w, 0, rm) EXCEPT !.mode = "none"]

ArithCode == [Add |-> 0, Or |-> 1, Adc |-> 2, Sbb |-> 3,
              And |-> 4, Sub |-> 5, Xor |-> 6, Cmp |-> 7]
ShiftCode == [RotL |-> 0, RotR |-> 1, Shl |-> 4, Shr |-> 5, Sar |-> 7]
Ext3Code == [Not |-> 2, Neg |-> 3, MulU2 |-> 4, MulS2 |-> 5,
             DivU2 |-> 6, DivS2 |-> 7]
CallN == 2
JmpN == 4

from_tcg(cond) ==
    CASE cond \in {"Eq", "TstEq"} -> 4 [] cond \in {"Ne", "TstNe"} -> 5
      [] cond = "Lt"  -> 12 [] cond = "Ge"  -> 13
      [] cond = "Le"  -> 14 [] cond = "Gt"  -> 15
      [] cond = "Ltu" -> 2  [] cond = "Geu" -> 3
      [] cond = "Leu" -> 6  [] cond = "Gtu" -> 7

invert(cc) == IF cc % 2 = 0 THEN cc + 1 ELSE cc - 1

R11 == 11
R14 == 14
CALLEE_SAVED == <<5, 3, 12, 13, 14, 15>>
STATIC_CALL_ARGS_SIZE == 128
PUSH_SIZE == (1 + Len(CALLEE_SAVED)) * 8
STACK_ADDEND ==
    LET raw == PUSH_SIZE + STATIC_CALL_ARGS_SIZE + FrameSize
    IN  ((raw + 15) \div 16) * 16 - PUSH_SIZE

\* The offset of a field of RiscvCpu, or of a spill slot from RSP; the last
\* element of a field is a number of bytes into it.
FieldOffset == [pc |-> 512, load_res |-> 528, load_val |-> 536, fflags |-> 544,
                frm |-> 552, ustatus |-> 560, uie |-> 568, utvec |-> 576,
                uscratch |-> 584, uepc |-> 592, ucause |-> 600,
                utval |-> 608, uip |-> 616]
GUEST_BASE_OFFSET == 520

Offset(c) == CASE c[1] = "frame" -> STATIC_CALL_ARGS_SIZE + c[2]
               [] c[1] = "gpr"   -> 8 * c[2] + c[3]
               [] c[1] = "fpr"   -> 256 + 8 * c[2] + c[3]
               [] OTHER          -> FieldOffset[c[1]] + c[3]

(***************************************************************************)
(* The functions of emitter.rs that choose an instruction                  *)
(***************************************************************************)
emit_arith_rr(op, w, d, s) == Insn("ARITH_GvEv", ArithCode[op], w, d, s)

\* An immediate that fits a byte is encoded in one.
emit_arith_ri(op, w, d, imm) ==
    Imm(Insn(IF imm \in -128 .. 127 THEN "ARITH_EvIb" ELSE "ARITH_EvIz",
             0, w, ArithCode[op], d), imm)

emit_shift_ri(op, w, d, imm) ==
    IF imm = 1 THEN Insn("SHIFT_1", 0, w, ShiftCode[op], d)
    ELSE Imm(Insn("SHIFT_Ib", 0, w, ShiftCode[op], d), imm)

emit_mov_rr(w, d, s) == Insn("MOVL_EvGv", 0, w, s, d)

\* xor, mov of a zero-extended or of a sign-extended imm32, mov of an imm64
emit_mov_ri(w, d, v) ==
    LET short == ~w \/ v <= type_mask("I32")
    IN  CASE v = 0 -> Insn("ARITH_EvGv", ArithCode["Xor"], FALSE, d, d)
          [] v # 0 /\ short ->
               Imm(Bare("MOVL_Iv", 0, FALSE, d), Low(v, "I32"))
          [] ~short /\ SignExtend(v, "I32") = v ->
               Imm(Insn("MOVL_EvIz", 0, TRUE, 0, d), Low(v, "I32"))
          [] ~short /\ SignExtend(v, "I32") # v ->
               Imm(Bare("MOVL_Iv", 0, TRUE, d), v)

emit_load(w, d, base, off) == Mem(Insn("MOVL_GvEv", 0, w, d, base), off)

\* The flags a condition is read from
emit_cmp(cond, w, a, b) == IF cond \in {"TstEq", "TstNe"}
                           THEN Insn("TESTL", 0, w, a, b)
                           ELSE emit_arith_rr("Cmp", w, a, b)

\* The target of a jump is a position in the code, 0 for the instruction behind
\* it (a displacement that is not patched), or an entry of the epilogue.
tb_ret == -1
epilogue_return_zero == -2
emit_jcc(cc, target) == Imm(Bare("JCC_long", cc, FALSE, 0), target)
emit_jmp(target) == Imm(Bare("JMP_long", 0, FALSE, 0), target)

\* The value exit_tb returns: chainable exits carry the index of the block
TbIdx == 2
ExitCode == [TB_EXIT_IDX0 |-> 0, TB_EXIT_IDX1 |-> 1, TB_EXIT_NOCHAIN |-> 2,
             EXCP_ECALL |-> 3, EXCP_EBREAK |-> 4, EXCP_UNDEF |-> 5]
TB_EXIT_MAX == 3

encode_tb_exit(val) ==
    IF val < TB_EXIT_MAX THEN (TbIdx + 1) * 2^W + val ELSE val

\* A real exit, or one below TB_EXIT_MAX with the block it is from
decode_tb_exit(raw) ==
    IF raw \div 2^W # 0 THEN [tb |-> raw \div 2^W - 1, code |-> raw % 4]
    ELSE [tb |-> NoSlot, code |-> raw]

emit_exit_tb(val) ==
    IF val = 0 THEN <<emit_jmp(epilogue_return_zero)>>
    ELSE <<emit_mov_ri(TRUE, RAX, val), emit_jmp(tb_ret)>>

\* Padding that aligns the 4-byte displacement, then the jump to be patched
NopPad(offset) == LET disp == offset + 1 IN ((disp + 3) \div 4) * 4 - disp

emit_goto_tb(offset) ==
    (IF NopPad(offset) = 0 THEN <<>>
     ELSE <<Bare("NOP", NopPad(offset), FALSE, 0)>>) \o <<emit_jmp(0)>>

(***************************************************************************)
(* tcg_out_op                                                              *)
(***************************************************************************)
\* Two-operand instructions whose destination is the first input
Destructive == [Sub |-> "Sub", And |-> "And", Or |-> "Or", Xor |-> "Xor",
                AddCO |-> "Add", AddCI |-> "Adc", AddCIO |-> "Adc",
                AddC1O |-> "Adc", SubBO |-> "Sub", SubBI |-> "Sbb",
                SubBIO |-> "Sbb", SubB1O |-> "Sbb"]

\* Opcode and REX.W of an extending move of so many bytes
Extending(size, sign, w) ==
    CASE size = 1 /\ ~sign -> <<"MOVZBL", FALSE>>
      [] size = 2 /\ ~sign -> <<"MOVZWL", FALSE>>
      [] size = 4 /\ ~sign -> <<"MOVL_GvEv", FALSE>>
      [] size = 1 /\ sign  -> <<"MOVSBL", w>>
      [] size = 2 /\ sign  -> <<"MOVSWL", w>>
      [] size = 4 /\ sign  -> <<"MOVSLQ", TRUE>>
      [] size = 8          -> <<"MOVL_GvEv", TRUE>>

Storing(size) == CASE size = 1 -> <<"MOVB_EvGv", FALSE>>
                   [] size = 2 -> <<"MOVW_EvGv", FALSE>>
                   [] size = 4 -> <<"MOVL_EvGv", FALSE>>
                   [] size = 8 -> <<"MOVL_EvGv", TRUE>>

\* Loads and stores of the CPU state and of the frame
LdOp(p, w) ==
    LET e == Extending(Bytes(LdSize[p.opc], p.ty), p.opc \in LdSigned, w)
    IN  <<Mem(Insn(e[1], 0, e[2], p.o[1], p.i[1]), Offset(p.c))>>

StOp(p) ==
    LET e == Storing(Bytes(StSize[p.opc], p.ty))
    IN  <<Mem(Insn(e[1], 0, e[2], p.i[1], p.i[2]), Offset(p.c))>>

\* Guest loads and stores, indexed from the guest base in R14
QemuLdOp(p, w) ==
    LET e == Extending(MemBytes[p.c[1]], p.c[1] \in {"sb", "sw", "sl"}, w)
    IN  <<Sib(Insn(e[1], 0, e[2], p.o[1], R14), p.i[1])>>

QemuStOp(p) ==
    LET e == Storing(MemBytes[p.c[1]])
    IN  <<Sib(Insn(e[1], 0, e[2], p.i[1], R14), p.i[2])>>

\* Bit fields of 8, 16 and 32 bits at offset 0
ExtractOp(p, w) ==
    LET e == Extending(p.c[3] \div 8, p.opc = "SExtract", w)
    IN  IF e[1] = "MOVL_GvEv" THEN <<emit_mov_rr(FALSE, p.o[1], p.i[1])>>
        ELSE <<Insn(e[1], 0, e[2], p.o[1], p.i[1])>>

DepositOp(p) == <<Insn(Storing(p.c[3] \div 8)[1], 0, FALSE, p.i[2], p.o[1])>>

\* The flags of a byte swap: 4 to extend the sign of the result, 2 for zeros
\* above it, 1 for zeros above the input
Bswap16Op(d, flags, w) ==
    CASE flags >= 4 -> <<Bare("BSWAP", 0, w, d),
                         emit_shift_ri("Sar", w, d, IF w THEN 48 ELSE 16)>>
      [] flags = 2  -> <<Bare("BSWAP", 0, FALSE, d),
                         emit_shift_ri("Shr", FALSE, d, 16)>>
      [] flags \in {0, 1, 3} -> <<Imm(Insn("SHIFTW_Ib", 0, FALSE, 0, d), 8)>>

\* setcc writes a byte; any of the sixteen registers has one with a REX prefix
SetCondOp(p, w) ==
    <<emit_cmp(p.c[1], w, p.i[1], p.i[2]),
      Insn("SETCC", from_tcg(p.c[1]), FALSE, 0, p.o[1]),
      Insn("MOVZBL_REXB", 0, FALSE, p.o[1], p.o[1])>>

AddOp(p, w) ==
    LET d == p.o[1]  a == p.i[1]  b == p.i[2]
    IN  CASE d = a            -> emit_arith_rr("Add", w, d, b)
          [] d # a /\ d = b   -> emit_arith_rr("Add", w, d, a)
          [] d # a /\ d # b   -> Sib(Insn("LEA", 0, w, d, a), b)

Group3(name, w, rm) == Insn("GRP3_Ev", 0, w, Ext3Code[name], rm)

\* Arithmetic with a carry in or out
CarryOp(p, w) ==
    (IF p.opc \in {"AddC1O", "SubB1O"} THEN <<Bare("STC", 0, FALSE, 0)>> ELSE <<>>)
    \o <<emit_arith_rr(Destructive[p.opc], w, p.o[1], p.i[2])>>

\* RDX:RAX and a factor, or a divisor
WideOp(p, w) ==
    <<Group3(p.opc, w, p.i[IF p.opc \in {"MulS2", "MulU2"} THEN 2 ELSE 3])>>

\* The first two inputs are compared; the third is in the output already.
MovCondOp(p, w) ==
    <<emit_cmp(p.c[1], w, p.i[1], p.i[2]),
      Insn("CMOVCC", invert(from_tcg(p.c[1])), w, p.o[1], p.i[4])>>

ConvertOp(p) ==
    CASE p.opc = "ExtI32I64" -> <<Insn("MOVSLQ", 0, TRUE, p.o[1], p.i[1])>>
      [] p.opc \in {"ExtUI32I64", "ExtrlI64I32"} ->
           IF p.o[1] = p.i[1] THEN <<>>
           ELSE <<emit_mov_rr(FALSE, p.o[1], p.i[1])>>
      [] p.opc = "ExtrhI64I32" -> <<emit_shift_ri("Shr", TRUE, p.o[1], 32)>>

\* Bits are counted by one instruction, which has its own answer for zero.
CountOp(p, w) ==
    <<Insn([Clz |-> "LZCNT", Ctz |-> "TZCNT", CtPop |-> "POPCNT"][p.opc],
           0, w, p.o[1], p.i[1])>>

BswapOp(p, w) ==
    LET d == p.o[1]
    IN  CASE p.opc = "Bswap16" -> Bswap16Op(d, p.c[2], w)
          [] p.opc = "Bswap32" ->
               <<Bare("BSWAP", 0, FALSE, d)>> \o
               (IF p.c[2] >= 4 THEN <<Insn("MOVSLQ", 0, TRUE, d, d)>> ELSE <<>>)
          [] p.opc = "Bswap64" -> <<Bare("BSWAP", 0, TRUE, d)>>

\* The instructions of an op that starts at an offset of the buffer
tcg_out_op(p, offset) ==
    LET w == p.ty = "I64"
        d == p.o[1]
    IN
    CASE p.opc = "Add" -> <<AddOp(p, w)>>
      [] p.opc \in {"Sub", "And", "Or", "Xor"} ->
           <<emit_arith_rr(Destructive[p.opc], w, d, p.i[2])>>
      [] p.opc \in CarryOps -> CarryOp(p, w)
      [] p.opc = "Mul" -> <<Insn("IMUL_GvEv", 0, w, d, p.i[2])>>
      [] p.opc \in {"Neg", "Not"} -> <<Group3(p.opc, w, d)>>
      [] p.opc \in DOMAIN ShiftCode ->
           <<Insn("SHIFT_cl", 0, w, ShiftCode[p.opc], d)>>
      [] p.opc = "SetCond" -> SetCondOp(p, w)
      [] p.opc = "NegSetCond" -> Append(SetCondOp(p, w), Group3("Neg", w, d))
      [] p.opc = "MovCond" -> MovCondOp(p, w)
      [] p.opc = "BrCond" -> <<emit_cmp(p.c[1], w, p.i[1], p.i[2]),
                               emit_jcc(from_tcg(p.c[1]), p.c[3])>>
      [] p.opc \in DOMAIN LdSize -> LdOp(p, w)
      [] p.opc \in DOMAIN StSize -> StOp(p)
      [] p.opc \in {"ExtI32I64", "ExtUI32I64", "ExtrlI64I32", "ExtrhI64I32"} ->
           ConvertOp(p)
      [] p.opc \in {"MulS2", "MulU2", "DivS2", "DivU2"} -> WideOp(p, w)
      [] p.opc = "AndC" -> <<[Insn("ANDN", 0, w, d, p.i[1]) EXCEPT !.idx = p.i[2]]>>
      [] p.opc \in {"Extract", "SExtract"} -> ExtractOp(p, w)
      [] p.opc = "Deposit" -> DepositOp(p)
      [] p.opc = "Extract2" -> <<Imm(Insn("SHRD_Ib", 0, w, p.i[2], d), p.c[2])>>
      [] p.opc \in {"Bswap16", "Bswap32", "Bswap64"} -> BswapOp(p, w)
      [] p.opc \in {"Clz", "Ctz", "CtPop"} -> CountOp(p, w)
      [] p.opc = "QemuLd" -> QemuLdOp(p, w)
      [] p.opc = "QemuSt" -> QemuStOp(p)
      \* the address of a helper is its name, beyond any imm32
      [] p.opc = "Call" -> <<Imm(Bare("MOVL_Iv", 0, TRUE, R11), p.c),
                             Insn("GRP5", 0, FALSE, CallN, R11)>>
      [] p.opc = "GotoPtr" -> <<Insn("GRP5", 0, FALSE, JmpN, p.i[1])>>
      [] p.opc = "ExitTb" -> emit_exit_tb(encode_tb_exit(ExitCode[p.c[1]]))
      [] p.opc = "GotoTb" -> emit_goto_tb(offset)
      \* emitted by the register allocator itself
      [] p.opc = "Mov" -> <<emit_mov_rr(w, d, p.i[1])>>
      [] p.opc = "Movi" -> <<emit_mov_ri(w, d, p.c[2])>>
      [] p.opc = "Br" -> <<emit_jmp(p.c[3])>>
      [] p.opc = "Mb" -> <<Bare("MFENCE", 0, FALSE, 0)>>

(***************************************************************************)
(* Prologue and epilogue                                                   *)
(***************************************************************************)
Pushes(regs) == [k \in DOMAIN regs |-> Bare("PUSH_r32", 0, FALSE, regs[k])]
Pops(regs) == [k \in DOMAIN regs |-> Bare("POP_r32", 0, FALSE, regs[k])]

emit_prologue ==
    Pushes(CALLEE_SAVED) \o
    <<emit_mov_rr(TRUE, RBP, CallArgRegs[1]),
      emit_load(TRUE, R14, RBP, GUEST_BASE_OFFSET),
      emit_arith_ri("Sub", TRUE, RSP, STACK_ADDEND),
      Insn("GRP5", 0, FALSE, JmpN, CallArgRegs[2])>>

\* Wrong: the registers are popped in the order they were pushed
emit_epilogue_unreversed ==
    <<emit_mov_ri(FALSE, RAX, 0), emit_arith_ri("Add", TRUE, RSP, STACK_ADDEND)>>
    \o Pops(CALLEE_SAVED) \o <<Bare("RET", 0, FALSE, 0)>>

\* epilogue_return_zero is its first instruction, tb_ret its second.
emit_epilogue ==
    <<emit_mov_ri(FALSE, RAX, 0), emit_arith_ri("Add", TRUE, RSP, STACK_ADDEND)>>
    \o Pops(Reverse(CALLEE_SAVED)) \o <<Bare("RET", 0, FALSE, 0)>>

=============================================================================
