----------------------------- MODULE RiscvTrans -----------------------------
(***************************************************************************)
(* The RISC-V frontend: the ops each instruction is translated to.         *)
(*                                                                         *)
(* A decoded instruction is a record of its name, its register numbers,    *)
(* imm, csr and len, its length in bytes.  imm is the immediate as an I64  *)
(* word, the rm field of a float instruction, or the aq and rl bits of an  *)
(* atomic.  An instruction of an extension the CPU does not have is        *)
(* "illegal": require_ext returns before any op is made.  An operator      *)
(* gen_x(n, a, ...) is the list of ops the function gen_x appends for a,   *)
(* the n-th instruction of the block; the temps it makes with new_temp are *)
(* T64(n, k) and T32(n, k), and its one label, if any, is number n.        *)
(***************************************************************************)
EXTENDS IrBuilder

T64(n, k) == Temp("I64", n, k)
T32(n, k) == Temp("I32", n, k)
C64(v) == Const("I64", v)
C32(v) == Const("I32", v)
Label(n) == <<"label", n, 0>>

rl(a) == a.imm % 2
aq(a) == a.imm \div 2

Pc == Global(Field("pc"))
SetPcAndExit(pc, val) == Mov(Pc, C64(pc)) \o ExitTb(val)
SetPcAndGoto(pc, slot) ==
    Mov(Pc, C64(pc)) \o GotoTb(slot)
    \o ExitTb(IF slot = 0 THEN "TB_EXIT_IDX0" ELSE "TB_EXIT_IDX1")

gpr_or_zero(r) == IF r = 0 THEN C64(0) ELSE Global(gpr(r))

gen_set_gpr(rd, v) == IF rd = 0 THEN <<>> ELSE Mov(Global(gpr(rd)), v)

gen_set_gpr_sx32(rd, v) == IF rd = 0 THEN <<>> ELSE Ext32(Global(gpr(rd)), v)

(***************************************************************************)
(* Integer instructions                                                    *)
(***************************************************************************)
gen_arith(n, a, opc) ==
    Bin(opc, "I64", T64(n, 1), gpr_or_zero(a.rs1), gpr_or_zero(a.rs2))
    \o gen_set_gpr(a.rd, T64(n, 1))

gen_arith_imm(n, a, opc) ==
    Bin(opc, "I64", T64(n, 1), gpr_or_zero(a.rs1), C64(a.imm))
    \o gen_set_gpr(a.rd, T64(n, 1))

gen_setcond(n, a, cond, src2) ==
    <<Op("SetCond", "I64", <<T64(n, 1)>>, <<gpr_or_zero(a.rs1), src2>>,
         Field(cond))>>
    \o gen_set_gpr(a.rd, T64(n, 1))

gen_arith_w(n, a, opc, src2) ==
    Bin(opc, "I64", T64(n, 1), gpr_or_zero(a.rs1), src2)
    \o gen_set_gpr_sx32(a.rd, T64(n, 1))

gen_shiftw(n, a, opc) ==
    Extrl(T32(n, 1), gpr_or_zero(a.rs1))
    \o Extrl(T32(n, 2), gpr_or_zero(a.rs2))
    \o Bin(opc, "I32", T32(n, 3), T32(n, 1), T32(n, 2))
    \o gen_set_gpr_sx32(a.rd, T32(n, 3))

gen_shift_imm_w(n, a, opc) ==
    Extrl(T32(n, 1), gpr_or_zero(a.rs1))
    \o Bin(opc, "I32", T32(n, 2), T32(n, 1), C32(a.imm))
    \o gen_set_gpr_sx32(a.rd, T32(n, 2))

\* The ops that the division of s1 by s2 in type ty is made of.  Temp
\* numbers from 3 on, because the W forms use 1 and 2 for their operands.
DivTemps(ty, n) == [k \in 3 .. 8 |-> Temp(ty, n, k)]

\* Wrong: the overflow of the division is not guarded against
DivRemOps_overflow(ty, n, s1, s2, want_rem) ==
    LET t == DivTemps(ty, n)
        safe == t[3]  ah == t[4]  quot == t[5]  rem == t[6]  r == t[7]
        zero == Const(ty, 0)  one == Const(ty, 1)
        neg1 == Const(ty, type_mask(ty))
        sign == Const(ty, size_bits(ty) - 1)
    IN  MovCond(ty, safe, s2, zero, one, s2)
        \o Bin("Sar", ty, ah, s1, sign)
        \o <<Op("DivS2", ty, <<quot, rem>>, <<s1, ah, safe>>, NoArg)>>
        \o (IF want_rem THEN MovCond(ty, r, s2, zero, s1, rem)
                        ELSE MovCond(ty, r, s2, zero, neg1, quot))

\* The body shared by gen_div_rem and gen_div_rem_w
DivRemOps(ty, n, s1, s2, want_rem) ==
    LET t == DivTemps(ty, n)
        safe == t[3]  ah == t[4]  quot == t[5]  rem == t[6]
        r == t[7]  neg == t[8]
        zero == Const(ty, 0)  one == Const(ty, 1)
        neg1 == Const(ty, type_mask(ty))
        sign == Const(ty, size_bits(ty) - 1)
    IN  MovCond(ty, safe, s2, zero, one, s2)
        \o MovCond(ty, safe, safe, neg1, one, safe)
        \o Bin("Sar", ty, ah, s1, sign)
        \o <<Op("DivS2", ty, <<quot, rem>>, <<s1, ah, safe>>, NoArg)>>
        \o (IF want_rem
            THEN MovCond(ty, r, s2, zero, s1, rem)
                 \o MovCond(ty, r, s2, neg1, zero, r)
            ELSE <<Op("Neg", ty, <<neg>>, <<s1>>, NoArg)>>
                 \o MovCond(ty, r, s2, zero, neg1, quot)
                 \o MovCond(ty, r, s2, neg1, neg, r))

\* The body shared by gen_divu_remu and gen_divu_remu_w
DivuRemuOps(ty, n, s1, s2, want_rem) ==
    LET t == DivTemps(ty, n)
        safe == t[3]  quot == t[5]  rem == t[6]  r == t[7]
        zero == Const(ty, 0)  one == Const(ty, 1)
        max == Const(ty, type_mask(ty))
    IN  MovCond(ty, safe, s2, zero, one, s2)
        \o <<Op("DivU2", ty, <<quot, rem>>, <<s1, zero, safe>>, NoArg)>>
        \o (IF want_rem THEN MovCond(ty, r, s2, zero, s1, rem)
                        ELSE MovCond(ty, r, s2, zero, max, quot))

gen_div_rem(n, a, signed, want_rem) ==
    LET s1 == gpr_or_zero(a.rs1)  s2 == gpr_or_zero(a.rs2)
    IN  (IF signed THEN DivRemOps("I64", n, s1, s2, want_rem)
                   ELSE DivuRemuOps("I64", n, s1, s2, want_rem))
        \o gen_set_gpr(a.rd, T64(n, 7))

gen_div_rem_w(n, a, signed, want_rem) ==
    LET a32 == T32(n, 1)  b32 == T32(n, 2)
    IN  Extrl(a32, gpr_or_zero(a.rs1)) \o Extrl(b32, gpr_or_zero(a.rs2))
        \o (IF signed THEN DivRemOps("I32", n, a32, b32, want_rem)
                      ELSE DivuRemuOps("I32", n, a32, b32, want_rem))
        \o gen_set_gpr_sx32(a.rd, T32(n, 7))

gen_mulh(n, a, opc) ==
    <<Op(opc, "I64", <<T64(n, 1), T64(n, 2)>>,
         <<gpr_or_zero(a.rs1), gpr_or_zero(a.rs2)>>, NoArg)>>
    \o gen_set_gpr(a.rd, T64(n, 2))

trans_mulhsu(n, a) ==
    LET s1 == gpr_or_zero(a.rs1)  s2 == gpr_or_zero(a.rs2)  hi == T64(n, 2)
    IN  <<Op("MulU2", "I64", <<T64(n, 1), hi>>, <<s1, s2>>, NoArg)>>
        \o Bin("Sar", "I64", T64(n, 3), s1, C64(2 * W - 1))
        \o Bin("And", "I64", T64(n, 4), T64(n, 3), s2)
        \o Bin("Sub", "I64", hi, hi, T64(n, 4))
        \o gen_set_gpr(a.rd, hi)

(***************************************************************************)
(* Memory and atomics                                                      *)
(***************************************************************************)
AddrOps(n, a) ==
    IF a.imm = 0 THEN <<>>
    ELSE Bin("Add", "I64", T64(n, 1), gpr_or_zero(a.rs1), C64(a.imm))
Addr(n, a) == IF a.imm = 0 THEN gpr_or_zero(a.rs1) ELSE T64(n, 1)

gen_load(n, a, memop) ==
    AddrOps(n, a) \o QemuLd(T64(n, 2), Addr(n, a), memop)
    \o gen_set_gpr(a.rd, T64(n, 2))

gen_store(n, a, memop) ==
    AddrOps(n, a) \o QemuSt(gpr_or_zero(a.rs2), Addr(n, a), memop)

gen_lr(n, a, memop) ==
    LET addr == gpr_or_zero(a.rs1)  val == T64(n, 1)
    IN  Mb(rl(a)) \o QemuLd(val, addr, memop) \o Mb(aq(a))
        \o Mov(Global(Field("load_res")), addr)
        \o Mov(Global(Field("load_val")), val)
        \o gen_set_gpr(a.rd, val)

gen_sc(n, a, memop) ==
    QemuSt(gpr_or_zero(a.rs2), gpr_or_zero(a.rs1), memop)
    \o gen_set_gpr(a.rd, C64(0))
    \o Mov(Global(Field("load_res")), C64(type_mask("I64")))

\* gen_amo, gen_amo_swap and gen_amo_minmax; compute makes the new value
AmoOps(n, a, memop, compute, new) ==
    LET addr == gpr_or_zero(a.rs1)  old == T64(n, 1)
    IN  Mb(rl(a)) \o QemuLd(old, addr, memop) \o compute
        \o QemuSt(new, addr, memop) \o Mb(aq(a)) \o gen_set_gpr(a.rd, old)

gen_amo(n, a, opc, memop) ==
    AmoOps(n, a, memop,
           Bin(opc, "I64", T64(n, 2), T64(n, 1), gpr_or_zero(a.rs2)),
           T64(n, 2))

gen_amo_swap(n, a, memop) ==
    AmoOps(n, a, memop, <<>>, gpr_or_zero(a.rs2))

gen_amo_minmax(n, a, cond, memop) ==
    LET old == T64(n, 1)  src2 == gpr_or_zero(a.rs2)
    IN  AmoOps(n, a, memop,
               <<Op("MovCond", "I64", <<T64(n, 2)>>, <<old, src2, old, src2>>,
                    Field(cond))>>,
               T64(n, 2))

(***************************************************************************)
(* Float state, loads, stores and helper calls                             *)
(***************************************************************************)
USTATUS_FS_MASK == 3 * 2^(2 * W - 3)
USTATUS_FS_DIRTY == USTATUS_FS_MASK
NanBox == 2^(2 * W) - 2^W

gen_fp_check(n, pc) ==
    Ld(T64(n, 11), Field("ustatus"))
    \o Bin("And", "I64", T64(n, 12), T64(n, 11), C64(USTATUS_FS_MASK))
    \o <<Op("BrCond", "I64", <<>>, <<T64(n, 12), C64(0)>>, <<"Ne", n, 0>>)>>
    \o SetPcAndExit(pc, "EXCP_UNDEF")
    \o <<Op("SetLabel", "I64", <<>>, <<>>, Label(n))>>

gen_set_fs_dirty(n) ==
    Ld(T64(n, 13), Field("ustatus"))
    \o Bin("And", "I64", T64(n, 14), T64(n, 13),
           C64(type_mask("I64") - USTATUS_FS_MASK))
    \o Bin("Or", "I64", T64(n, 15), T64(n, 14), C64(USTATUS_FS_DIRTY))
    \o St(T64(n, 15), Field("ustatus"))

gen_fp_load(n, pc, a, memop, is_single) ==
    gen_fp_check(n, pc) \o gen_set_fs_dirty(n) \o AddrOps(n, a)
    \o QemuLd(T64(n, 2), Addr(n, a), memop)
    \o (IF is_single
        THEN Bin("Or", "I64", T64(n, 3), T64(n, 2), C64(NanBox))
             \o St(T64(n, 3), fpr(a.rd))
        ELSE St(T64(n, 2), fpr(a.rd)))

gen_fp_store(n, pc, a, memop, is_single) ==
    gen_fp_check(n, pc) \o AddrOps(n, a) \o Ld(T64(n, 2), fpr(a.rs2))
    \o (IF is_single
        THEN Extrl(T32(n, 3), T64(n, 2)) \o Ext32(T64(n, 4), T32(n, 3))
             \o QemuSt(T64(n, 4), Addr(n, a), memop)
        ELSE QemuSt(T64(n, 2), Addr(n, a), memop))

\* gen_call pads the arguments to six with the constant zero.
gen_call(dst, name, args) ==
    <<Op("Call", "I64", <<dst>>,
         [k \in 1 .. 6 |-> IF k <= Len(args) THEN args[k] ELSE C64(0)],
         name)>>

\* The float instructions that call a helper: the sources are float
\* registers, or one integer register; rm tells whether the rounding mode is
\* an argument.  The result goes to a float register, with the float state
\* marked dirty, or to an integer register.
gen_fp_call(n, pc, a, srcs, rm, toFpr) ==
    LET isFpr(k) == srcs[k][1] = "fpr"
        loads[k \in 0 .. Len(srcs)] ==
            IF k = 0 THEN <<>>
            ELSE loads[k - 1]
                 \o (IF isFpr(k) THEN Ld(T64(n, k), srcs[k]) ELSE <<>>)
        args == <<Env>>
                \o [k \in 1 .. Len(srcs) |-> IF isFpr(k) THEN T64(n, k)
                                             ELSE gpr_or_zero(srcs[k][2])]
                \o (IF rm THEN <<C64(a.imm)>> ELSE <<>>)
        name == <<a.name, IF rm THEN 1 ELSE 0, Len(args)>>
        res == T64(n, 5)
    IN  gen_fp_check(n, pc)
        \o (IF toFpr THEN gen_set_fs_dirty(n) ELSE <<>>)
        \o loads[Len(srcs)] \o gen_call(res, name, args)
        \o (IF toFpr THEN St(res, fpr(a.rd)) ELSE gen_set_gpr(a.rd, res))

\* Single and double forms differ in the helper they name only.
FmaS == {"fmadd_s", "fmsub_s", "fnmsub_s", "fnmadd_s"}
FmaD == {"fmadd_d", "fmsub_d", "fnmsub_d", "fnmadd_d"}
FArithS == {"fadd_s", "fsub_s", "fmul_s", "fdiv_s"}
FArithD == {"fadd_d", "fsub_d", "fmul_d", "fdiv_d"}
FSignS == {"fsgnj_s", "fsgnjn_s", "fsgnjx_s", "fmin_s", "fmax_s"}
FSignD == {"fsgnj_d", "fsgnjn_d", "fsgnjx_d", "fmin_d", "fmax_d"}
FCmpS == {"feq_s", "flt_s", "fle_s"}
FCmpD == {"feq_d", "flt_d", "fle_d"}
FClass == {"fclass_s", "fclass_d"}
FUnary == {"fsqrt_s", "fsqrt_d", "fcvt_s_d", "fcvt_d_s"}
FcvtToX == {"fcvt_w_s", "fcvt_wu_s", "fcvt_l_s", "fcvt_lu_s",
            "fcvt_w_d", "fcvt_wu_d", "fcvt_l_d", "fcvt_lu_d"}
FcvtFromX == {"fcvt_s_w", "fcvt_s_wu", "fcvt_s_l", "fcvt_s_lu",
              "fcvt_d_w", "fcvt_d_wu", "fcvt_d_l", "fcvt_d_lu"}

trans_fmv_x_w(n, pc, a) ==
    gen_fp_check(n, pc) \o Ld(T64(n, 1), fpr(a.rs1))
    \o Extrl(T32(n, 2), T64(n, 1)) \o gen_set_gpr_sx32(a.rd, T32(n, 2))

trans_fmv_w_x(n, pc, a) ==
    gen_fp_check(n, pc) \o gen_set_fs_dirty(n)
    \o Extrl(T32(n, 1), gpr_or_zero(a.rs1))
    \o <<Op("ExtUI32I64", "I64", <<T64(n, 2)>>, <<T32(n, 1)>>, NoArg)>>
    \o Bin("Or", "I64", T64(n, 3), T64(n, 2), C64(NanBox))
    \o St(T64(n, 3), fpr(a.rd))

trans_fmv_x_d(n, pc, a) ==
    gen_fp_check(n, pc) \o Ld(T64(n, 1), fpr(a.rs1))
    \o gen_set_gpr(a.rd, T64(n, 1))

trans_fmv_d_x(n, pc, a) ==
    gen_fp_check(n, pc) \o gen_set_fs_dirty(n)
    \o St(gpr_or_zero(a.rs1), fpr(a.rd))

(***************************************************************************)
(* CSR instructions                                                        *)
(***************************************************************************)
\* The value read is in T64(n, 1), except for the counters, which are the
\* constant zero.
CsrOut(n, csr) == IF csr = "cycle" THEN C64(0) ELSE T64(n, 1)

gen_csr_read(n, csr) ==
    CASE csr \in {"fflags", "frm"} ->
           Ld(T64(n, 2), Field(csr))
           \o Bin("And", "I64", T64(n, 1), T64(n, 2),
                  C64(IF csr = "frm" THEN FRM_MASK ELSE FFLAGS_MASK))
      [] csr = "fcsr" ->
           Ld(T64(n, 2), Field("fflags"))
           \o Bin("And", "I64", T64(n, 2), T64(n, 2), C64(FFLAGS_MASK))
           \o Ld(T64(n, 3), Field("frm"))
           \o Bin("And", "I64", T64(n, 3), T64(n, 3), C64(FRM_MASK))
           \o Bin("Shl", "I64", T64(n, 4), T64(n, 3), C64(5))
           \o Bin("Or", "I64", T64(n, 1), T64(n, 2), T64(n, 4))
      [] csr \in PlainCsr -> Ld(T64(n, 1), Field(csr))
      [] OTHER -> <<>>

gen_csr_write(n, csr, val) ==
    CASE csr \in {"fflags", "frm"} ->
           Bin("And", "I64", T64(n, 6), val,
               C64(IF csr = "frm" THEN FRM_MASK ELSE FFLAGS_MASK))
           \o St(T64(n, 6), Field(csr)) \o gen_set_fs_dirty(n)
      [] csr = "fcsr" ->
           Bin("And", "I64", T64(n, 6), val, C64(FFLAGS_MASK))
           \o St(T64(n, 6), Field("fflags"))
           \o Bin("Shr", "I64", T64(n, 7), val, C64(5))
           \o Bin("And", "I64", T64(n, 7), T64(n, 7), C64(FRM_MASK))
           \o St(T64(n, 7), Field("frm")) \o gen_set_fs_dirty(n)
      [] csr \in PlainCsr -> St(val, Field(csr))
      [] OTHER -> <<>>

readable(csr) == csr \in PlainCsr \cup {"fflags", "frm", "fcsr", "cycle"}
writable(csr) == readable(csr) /\ csr # "cycle"

\* The six trans_csrr* functions.  A csrrs or csrrc of x0 does not write.
CsrWrites(a) == a.name \in {"csrrw", "csrrwi"} \/ a.rs1 # 0

CsrOps(n, a) ==
    LET old == CsrOut(n, a.csr)
        src == IF a.name \in {"csrrwi", "csrrsi", "csrrci"}
               THEN C64(a.rs1) ELSE gpr_or_zero(a.rs1)
    IN  gen_csr_read(n, a.csr)
        \o (CASE ~CsrWrites(a) \/ ~readable(a.csr) -> <<>>
              [] a.name \in {"csrrw", "csrrwi"} ->
                   gen_csr_write(n, a.csr, src)
              [] a.name \in {"csrrs", "csrrsi"} ->
                   Bin("Or", "I64", T64(n, 8), old, src)
                   \o gen_csr_write(n, a.csr, T64(n, 8))
              [] a.name \in {"csrrc", "csrrci"} ->
                   <<Op("Not", "I64", <<T64(n, 9)>>, <<src>>, NoArg)>>
                   \o Bin("And", "I64", T64(n, 8), old, T64(n, 9))
                   \o gen_csr_write(n, a.csr, T64(n, 8)))
        \o (IF readable(a.csr) /\ (CsrWrites(a) => writable(a.csr))
            THEN gen_set_gpr(a.rd, old) ELSE <<>>)

(***************************************************************************)
(* Jumps                                                                   *)
(***************************************************************************)
gen_branch(n, pc, a, cond) ==
    <<Op("BrCond", "I64", <<>>, <<gpr_or_zero(a.rs1), gpr_or_zero(a.rs2)>>,
         <<cond, n, 0>>)>>
    \o SetPcAndGoto(Low(pc + a.len, "I64"), 0)
    \o <<Op("SetLabel", "I64", <<>>, <<>>, Label(n))>>
    \o SetPcAndGoto(Low(pc + a.imm, "I64"), 1)

trans_jal(pc, a) ==
    gen_set_gpr(a.rd, C64(Low(pc + a.len, "I64")))
    \o SetPcAndGoto(Low(pc + a.imm, "I64"), 0)

trans_jalr(n, pc, a) ==
    LET tmp == T64(n, 1)
    IN  Bin("Add", "I64", tmp, gpr_or_zero(a.rs1), C64(a.imm))
        \o Bin("And", "I64", tmp, tmp, C64(type_mask("I64") - 1))
        \o gen_set_gpr(a.rd, C64(Low(pc + a.len, "I64")))
        \o Mov(Pc, tmp) \o ExitTb("TB_EXIT_NOCHAIN")

(***************************************************************************)
(* Dispatch: which gen function, with which op, an instruction takes.      *)
(***************************************************************************)
ArithOp == [add |-> "Add", sub |-> "Sub", sll |-> "Shl", xor |-> "Xor",
            srl |-> "Shr", sra |-> "Sar", or |-> "Or", and |-> "And",
            mul |-> "Mul"]
ArithImmOp == [addi |-> "Add", xori |-> "Xor", ori |-> "Or", andi |-> "And",
               slli |-> "Shl", srli |-> "Shr", srai |-> "Sar"]
ArithWOp == [addw |-> "Add", subw |-> "Sub", mulw |-> "Mul"]
ShiftWOp == [sllw |-> "Shl", srlw |-> "Shr", sraw |-> "Sar"]
ShiftImmWOp == [slliw |-> "Shl", srliw |-> "Shr", sraiw |-> "Sar"]
BranchCond == [beq |-> "Eq", bne |-> "Ne", blt |-> "Lt", bge |-> "Ge",
               bltu |-> "Ltu", bgeu |-> "Geu"]
LoadOp == [lb |-> "sb", lh |-> "sw", lw |-> "sl", lbu |-> "ub", lhu |-> "uw",
           lwu |-> "ul", ld |-> "uq"]
StoreOp == [sb |-> "ub", sh |-> "uw", sw |-> "ul", sd |-> "uq"]
DivOp == [div |-> <<TRUE, FALSE>>, rem |-> <<TRUE, TRUE>>,
          divu |-> <<FALSE, FALSE>>, remu |-> <<FALSE, TRUE>>]
DivWOp == [divw |-> <<TRUE, FALSE>>, remw |-> <<TRUE, TRUE>>,
           divuw |-> <<FALSE, FALSE>>, remuw |-> <<FALSE, TRUE>>]
AmoOp == [amoadd_w |-> <<"Add", "sl">>, amoxor_w |-> <<"Xor", "sl">>,
          amoand_w |-> <<"And", "sl">>, amoor_w |-> <<"Or", "sl">>,
          amoadd_d |-> <<"Add", "uq">>, amoxor_d |-> <<"Xor", "uq">>,
          amoand_d |-> <<"And", "uq">>, amoor_d |-> <<"Or", "uq">>]
AmoCond == [amomin_w |-> <<"Lt", "sl">>, amomax_w |-> <<"Gt", "sl">>,
            amominu_w |-> <<"Ltu", "sl">>, amomaxu_w |-> <<"Gtu", "sl">>,
            amomin_d |-> <<"Lt", "uq">>, amomax_d |-> <<"Gt", "uq">>,
            amominu_d |-> <<"Ltu", "uq">>, amomaxu_d |-> <<"Gtu", "uq">>]
CsrNames == {"csrrw", "csrrs", "csrrc", "csrrwi", "csrrsi", "csrrci"}

\* The instructions with a compressed form, which decode16 hands on
Rvc == {"addi", "lw", "ld", "fld", "flw", "sw", "sd", "fsd", "fsw", "lui",
        "srli", "srai", "andi", "sub", "xor", "or", "and", "jal", "beq", "bne",
        "addiw", "subw", "addw", "slli", "jalr", "ebreak", "add"}

\* decoded is what decode() or decode16() returns
decoded(a) ==
    /\ a.name # "illegal"
    /\ a.len = 2 => a.name \in Rvc
    /\ a.name \in CsrNames =>
         readable(a.csr) /\ (CsrWrites(a) => writable(a.csr))

NoReturn(a) ==
    \/ ~decoded(a)
    \/ a.name \in DOMAIN BranchCond \cup {"jal", "jalr", "ecall", "ebreak"}

trans(n, pc, a) ==
    CASE a.name = "lui" -> gen_set_gpr(a.rd, C64(a.imm))
      [] a.name = "auipc" -> gen_set_gpr(a.rd, C64(Low(pc + a.imm, "I64")))
      [] a.name \in DOMAIN ArithOp -> gen_arith(n, a, ArithOp[a.name])
      [] a.name \in DOMAIN ArithImmOp -> gen_arith_imm(n, a, ArithImmOp[a.name])
      [] a.name = "slt" -> gen_setcond(n, a, "Lt", gpr_or_zero(a.rs2))
      [] a.name = "sltu" -> gen_setcond(n, a, "Ltu", gpr_or_zero(a.rs2))
      [] a.name = "slti" -> gen_setcond(n, a, "Lt", C64(a.imm))
      [] a.name = "sltiu" -> gen_setcond(n, a, "Ltu", C64(a.imm))
      [] a.name \in DOMAIN ArithWOp ->
           gen_arith_w(n, a, ArithWOp[a.name], gpr_or_zero(a.rs2))
      [] a.name = "addiw" -> gen_arith_w(n, a, "Add", C64(a.imm))
      [] a.name \in DOMAIN ShiftWOp -> gen_shiftw(n, a, ShiftWOp[a.name])
      [] a.name \in DOMAIN ShiftImmWOp ->
           gen_shift_imm_w(n, a, ShiftImmWOp[a.name])
      [] a.name = "mulh" -> gen_mulh(n, a, "MulS2")
      [] a.name = "mulhu" -> gen_mulh(n, a, "MulU2")
      [] a.name = "mulhsu" -> trans_mulhsu(n, a)
      [] a.name \in DOMAIN DivOp ->
           gen_div_rem(n, a, DivOp[a.name][1], DivOp[a.name][2])
      [] a.name \in DOMAIN DivWOp ->
           gen_div_rem_w(n, a, DivWOp[a.name][1], DivWOp[a.name][2])
      [] a.name \in DOMAIN LoadOp -> gen_load(n, a, LoadOp[a.name])
      [] a.name \in DOMAIN StoreOp -> gen_store(n, a, StoreOp[a.name])
      [] a.name = "lr_w" -> gen_lr(n, a, "sl")
      [] a.name = "lr_d" -> gen_lr(n, a, "uq")
      [] a.name = "sc_w" -> gen_sc(n, a, "ul")
      [] a.name = "sc_d" -> gen_sc(n, a, "uq")
      [] a.name = "amoswap_w" -> gen_amo_swap(n, a, "sl")
      [] a.name = "amoswap_d" -> gen_amo_swap(n, a, "uq")
      [] a.name \in DOMAIN AmoOp ->
           gen_amo(n, a, AmoOp[a.name][1], AmoOp[a.name][2])
      [] a.name \in DOMAIN AmoCond ->
           gen_amo_minmax(n, a, AmoCond[a.name][1], AmoCond[a.name][2])
      [] a.name \in CsrNames -> CsrOps(n, a)
      [] a.name = "flw" -> gen_fp_load(n, pc, a, "ul", TRUE)
      [] a.name = "fld" -> gen_fp_load(n, pc, a, "uq", FALSE)
      [] a.name = "fsw" -> gen_fp_store(n, pc, a, "ul", TRUE)
      [] a.name = "fsd" -> gen_fp_store(n, pc, a, "uq", FALSE)
      [] a.name \in FmaS \cup FmaD ->
           gen_fp_call(n, pc, a, <<fpr(a.rs1), fpr(a.rs2), fpr(a.rs3)>>,
                       TRUE, TRUE)
      [] a.name \in FArithS \cup FArithD ->
           gen_fp_call(n, pc, a, <<fpr(a.rs1), fpr(a.rs2)>>, TRUE, TRUE)
      [] a.name \in FSignS \cup FSignD ->
           gen_fp_call(n, pc, a, <<fpr(a.rs1), fpr(a.rs2)>>, FALSE, TRUE)
      [] a.name \in FCmpS \cup FCmpD ->
           gen_fp_call(n, pc, a, <<fpr(a.rs1), fpr(a.rs2)>>, FALSE, FALSE)
      [] a.name \in FClass ->
           gen_fp_call(n, pc, a, <<fpr(a.rs1)>>, FALSE, FALSE)
      [] a.name \in FUnary -> gen_fp_call(n, pc, a, <<fpr(a.rs1)>>, TRUE, TRUE)
      [] a.name \in FcvtToX ->
           gen_fp_call(n, pc, a, <<fpr(a.rs1)>>, TRUE, FALSE)
      [] a.name \in FcvtFromX ->
           gen_fp_call(n, pc, a, <<gpr(a.rs1)>>, TRUE, TRUE)
      [] a.name = "fmv_x_w" -> trans_fmv_x_w(n, pc, a)
      [] a.name = "fmv_w_x" -> trans_fmv_w_x(n, pc, a)
      [] a.name = "fmv_x_d" -> trans_fmv_x_d(n, pc, a)
      [] a.name = "fmv_d_x" -> trans_fmv_d_x(n, pc, a)
      [] a.name \in DOMAIN BranchCond -> gen_branch(n, pc, a, BranchCond[a.name])
      [] a.name = "jal" -> trans_jal(pc, a)
      [] a.name = "jalr" -> trans_jalr(n, pc, a)
      [] a.name = "ecall" -> SetPcAndExit(pc, "EXCP_ECALL")
      [] a.name = "ebreak" -> SetPcAndExit(pc, "EXCP_EBREAK")
      [] a.name \in {"fence", "illegal"} -> <<>>

\* insn_start and translate_insn for one instruction
translate_insn(n, pc, a) ==
    <<Op("InsnStart", "I64", <<>>, <<>>, <<"pc", pc, 0>>)>>
    \o trans(n, pc, a)
    \o (IF decoded(a) THEN <<>> ELSE SetPcAndExit(pc, "EXCP_UNDEF"))

\* tb_stop for a block no instruction has ended
tb_stop(pc) == SetPcAndGoto(pc, 0)

=============================================================================
