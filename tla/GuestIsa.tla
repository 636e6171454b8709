------------------------------ MODULE GuestIsa ------------------------------
(***************************************************************************)
(* What the guest instructions are meant to do: the RISC-V user-level      *)
(* semantics, written as arithmetic on the architectural state, with no    *)
(* reference to how an instruction is translated.  It is the reference the *)
(* translation is checked against.                                         *)
(***************************************************************************)
EXTENDS RiscvTrans

S(x) == Signed(x, "I64")
Bool(b) == IF b THEN 1 ELSE 0
Sx(v) == SignExtend(v, "I32")

\* Division of the ISA: no traps; the quotient is truncated.
Quot(n, d) == IF d = 0 THEN -1 ELSE DivRem(n, d)[1]
Remainder(n, d) == IF d = 0 THEN n ELSE DivRem(n, d)[2]

\* The integer value an instruction computes from two operands, before it
\* is reduced to a word
IsaValue(name, x, y) ==
    LET sh == y % (2 * W)  shw == y % W
        sx == Signed(x, "I32")  sy == Signed(y, "I32")
        ux == Low(x, "I32")  uy == Low(y, "I32")
    IN
    CASE name \in {"add", "addi"} -> x + y
      [] name = "sub" -> x - y
      [] name \in {"sll", "slli"} -> x * 2^sh
      [] name \in {"srl", "srli"} -> x \div 2^sh
      [] name \in {"sra", "srai"} -> S(x) \div 2^sh
      [] name \in {"slt", "slti"} -> Bool(S(x) < S(y))
      [] name \in {"sltu", "sltiu"} -> Bool(x < y)
      [] name \in {"xor", "xori"} -> Alu("Xor", x, y, "I64")
      [] name \in {"or", "ori"} -> Alu("Or", x, y, "I64")
      [] name \in {"and", "andi"} -> Alu("And", x, y, "I64")
      [] name = "mul" -> S(x) * S(y)
      [] name = "mulh" -> (S(x) * S(y)) \div 2^(2 * W)
      [] name = "mulhsu" -> (S(x) * y) \div 2^(2 * W)
      [] name = "mulhu" -> (x * y) \div 2^(2 * W)
      [] name = "div" -> Quot(S(x), S(y))
      [] name = "rem" -> Remainder(S(x), S(y))
      [] name = "divu" -> Quot(x, y)
      [] name = "remu" -> Remainder(x, y)
      [] name \in {"addw", "addiw"} -> Sx(x + y)
      [] name = "subw" -> Sx(x - y)
      [] name = "mulw" -> Sx(x * y)
      [] name \in {"sllw", "slliw"} -> Sx(ux * 2^shw)
      [] name \in {"srlw", "srliw"} -> Sx(ux \div 2^shw)
      [] name \in {"sraw", "sraiw"} -> Sx(sx \div 2^shw)
      [] name = "divw" -> Sx(Quot(sx, sy))
      [] name = "remw" -> Sx(Remainder(sx, sy))
      [] name = "divuw" -> Sx(Quot(ux, uy))
      [] name = "remuw" -> Sx(Remainder(ux, uy))

RegReg == DOMAIN ArithOp \cup DOMAIN ArithWOp \cup DOMAIN ShiftWOp
          \cup DOMAIN DivOp \cup DOMAIN DivWOp
          \cup {"slt", "sltu", "mulh", "mulhu", "mulhsu"}
RegImm == DOMAIN ArithImmOp \cup DOMAIN ShiftImmWOp
          \cup {"slti", "sltiu", "addiw"}

BranchTaken(name, x, y) ==
    CASE name = "beq" -> x = y
      [] name = "bne" -> x # y
      [] name = "blt" -> S(x) < S(y)
      [] name = "bge" -> S(x) >= S(y)
      [] name = "bltu" -> x < y
      [] name = "bgeu" -> x >= y

\* The new memory value of an AMO, for the old one, both of the access size
AmoValue(name, old, y, w) ==
    LET Less(p, q) == IF name \in {"amomin_w", "amomin_d", "amomax_w",
                                   "amomax_d"}
                      THEN Signed(p, w) < Signed(q, w) ELSE Low(p, w) < Low(q, w)
    IN
    CASE name \in {"amoswap_w", "amoswap_d"} -> y
      [] name \in {"amoadd_w", "amoadd_d"} -> Low(old + y, "I64")
      [] name \in {"amoxor_w", "amoxor_d"} -> Alu("Xor", old, y, "I64")
      [] name \in {"amoand_w", "amoand_d"} -> Alu("And", old, y, "I64")
      [] name \in {"amoor_w", "amoor_d"} -> Alu("Or", old, y, "I64")
      [] name \in {"amomin_w", "amomin_d", "amominu_w", "amominu_d"} ->
           IF Less(old, y) THEN old ELSE y
      [] OTHER -> IF Less(y, old) THEN old ELSE y

AmoW == {"amoswap_w", "amoadd_w", "amoxor_w", "amoand_w", "amoor_w",
         "amomin_w", "amomax_w", "amominu_w", "amomaxu_w"}
AmoD == {"amoswap_d", "amoadd_d", "amoxor_d", "amoand_d", "amoor_d",
         "amomin_d", "amomax_d", "amominu_d", "amomaxu_d"}

\* A CSR as a field of the architectural state; fcsr is a view of two.
CsrGet(env, csr) ==
    CASE csr = "fcsr" ->
           (env[Field("frm")] % 8) * 32 + (env[Field("fflags")] % 32)
      [] csr = "fflags" -> env[Field("fflags")] % 32
      [] csr = "frm" -> env[Field("frm")] % 8
      [] csr = "cycle" -> 0
      [] OTHER -> env[Field(csr)]

Dirty(env) ==
    LET u == env[Field("ustatus")]
    IN  [env EXCEPT ![Field("ustatus")] =
           Low(u - Alu("And", u, USTATUS_FS_MASK, "I64") + USTATUS_FS_DIRTY,
               "I64")]

CsrSet(env, csr, v) ==
    CASE csr = "fcsr" ->
           Dirty([env EXCEPT ![Field("fflags")] = v % 32,
                             ![Field("frm")] = (v \div 32) % 8])
      [] csr = "fflags" -> Dirty([env EXCEPT ![Field("fflags")] = v % 32])
      [] csr = "frm" -> Dirty([env EXCEPT ![Field("frm")] = v % 8])
      [] OTHER -> [env EXCEPT ![Field(csr)] = v]

FpToFpr == FmaS \cup FmaD \cup FArithS \cup FArithD \cup FSignS \cup FSignD
           \cup FUnary \cup FcvtFromX
FpToX == FCmpS \cup FCmpD \cup FClass \cup FcvtToX
FpRm == FmaS \cup FmaD \cup FArithS \cup FArithD \cup FUnary
        \cup FcvtFromX \cup FcvtToX
FpInsns == FpToFpr \cup FpToX
           \cup {"flw", "fld", "fsw", "fsd", "fmv_x_w", "fmv_w_x", "fmv_x_d",
                 "fmv_d_x"}

FpArgs(env, x, a) ==
    CASE a.name \in FcvtFromX -> <<x>>
      [] a.name \in FmaS \cup FmaD ->
           <<env[fpr(a.rs1)], env[fpr(a.rs2)], env[fpr(a.rs3)]>>
      [] a.name \in FUnary \cup FClass \cup FcvtToX -> <<env[fpr(a.rs1)]>>
      [] OTHER -> <<env[fpr(a.rs1)], env[fpr(a.rs2)]>>

\* load_res without a reservation: -1
NoReservation == type_mask("I64")

(***************************************************************************)
(* One instruction: the state after it, with exit set when it ends the     *)
(* block.  env holds the registers; pc is the address of the instruction.  *)
(***************************************************************************)
IsaStep(st, a) ==
    LET env == st.env
        pc == env[Field("pc")]
        next == Low(pc + a.len, "I64")
        x == IF a.rs1 = 0 THEN 0 ELSE env[gpr(a.rs1)]
        y == IF a.rs2 = 0 THEN 0 ELSE env[gpr(a.rs2)]
        addr == Low(x + a.imm, "I64")
        At(e, p) == [e EXCEPT ![Field("pc")] = p]
        X(e, v) == IF a.rd = 0 THEN e
                   ELSE [e EXCEPT ![gpr(a.rd)] = Low(v, "I64")]
        Go(e) == [st EXCEPT !.env = At(e, next)]
        Exit(e, p, code) == [st EXCEPT !.env = At(e, p), !.exit = Field(code)]
        F(e, v) == Dirty([e EXCEPT ![fpr(a.rd)] = v])
    IN
    CASE st.exit # NoArg -> st
      [] ~decoded(a) -> Exit(env, pc, "EXCP_UNDEF")
      [] a.name \in FpInsns /\ Alu("And", env[Field("ustatus")],
                                   USTATUS_FS_MASK, "I64") = 0 ->
           Exit(env, pc, "EXCP_UNDEF")
      [] a.name = "lui" -> Go(X(env, a.imm))
      [] a.name = "auipc" -> Go(X(env, pc + a.imm))
      [] a.name \in RegReg -> Go(X(env, IsaValue(a.name, x, y)))
      [] a.name \in RegImm -> Go(X(env, IsaValue(a.name, x, a.imm)))
      [] a.name \in DOMAIN LoadOp ->
           Go(X(env, Load(st.mem, addr, LoadOp[a.name])))
      [] a.name \in DOMAIN StoreOp ->
           [Go(env) EXCEPT !.mem = Store(@, addr, y, StoreOp[a.name])]
      [] a.name \in {"lr_w", "lr_d"} ->
           LET v == Load(st.mem, x, IF a.name = "lr_w" THEN "sl" ELSE "uq")
           IN  Go(X([env EXCEPT ![Field("load_res")] = x,
                                ![Field("load_val")] = v], v))
      \* SC needs a reservation, which it ends; the set of addresses reserved
      \* by LR may be all of the memory.
      [] a.name \in {"sc_w", "sc_d"} ->
           LET reserved == env[Field("load_res")] # NoReservation
               e == [env EXCEPT ![Field("load_res")] = NoReservation]
           IN  IF reserved
               THEN [Go(X(e, 0)) EXCEPT
                       !.mem = Store(@, x, y, IF a.name = "sc_w" THEN "ul" ELSE "uq")]
               ELSE Go(X(e, 1))
      [] a.name \in AmoW \cup AmoD ->
           LET m == IF a.name \in AmoW THEN "sl" ELSE "uq"
               old == Load(st.mem, x, m)
               new == AmoValue(a.name, old, y,
                               IF a.name \in AmoW THEN "I32" ELSE "I64")
           IN  [Go(X(env, old)) EXCEPT !.mem = Store(@, x, new, m)]
      [] a.name \in CsrNames ->
           LET old == CsrGet(env, a.csr)
               src == IF a.name \in {"csrrwi", "csrrsi", "csrrci"}
                      THEN a.rs1 ELSE x
               new == CASE a.name \in {"csrrw", "csrrwi"} -> src
                        [] a.name \in {"csrrs", "csrrsi"} ->
                             Alu("Or", old, src, "I64")
                        [] OTHER -> Alu("AndC", old, src, "I64")
           IN  Go(X(IF CsrWrites(a) THEN CsrSet(env, a.csr, new) ELSE env, old))
      [] a.name = "flw" -> Go(F(env, Load(st.mem, addr, "ul") + NanBox))
      [] a.name = "fld" -> Go(F(env, Load(st.mem, addr, "uq")))
      [] a.name = "fsw" ->
           [Go(env) EXCEPT !.mem = Store(@, addr, env[fpr(a.rs2)], "ul")]
      [] a.name = "fsd" ->
           [Go(env) EXCEPT !.mem = Store(@, addr, env[fpr(a.rs2)], "uq")]
      [] a.name \in FpToFpr \cup FpToX ->
           LET rm == a.name \in FpRm
               args == <<0>> \o FpArgs(env, x, a)
                       \o (IF rm THEN <<a.imm>> ELSE <<>>)
               r == HelperResult(env, <<"", Bool(rm), Len(args)>>,
                      [k \in 1 .. 6 |-> IF k <= Len(args) THEN args[k] ELSE 0])
               e == [env EXCEPT ![Field("fflags")] = r.fflags]
           IN  Go(IF a.name \in FpToX THEN X(e, r.val) ELSE F(e, r.val))
      [] a.name = "fmv_x_w" -> Go(X(env, Sx(env[fpr(a.rs1)])))
      [] a.name = "fmv_w_x" -> Go(F(env, Low(x, "I32") + NanBox))
      [] a.name = "fmv_x_d" -> Go(X(env, env[fpr(a.rs1)]))
      [] a.name = "fmv_d_x" -> Go(F(env, x))
      [] a.name \in DOMAIN BranchCond ->
           IF BranchTaken(a.name, x, y)
           THEN Exit(env, Low(pc + a.imm, "I64"), "TB_EXIT_IDX1")
           ELSE Exit(env, next, "TB_EXIT_IDX0")
      [] a.name = "jal" ->
           Exit(X(env, next), Low(pc + a.imm, "I64"), "TB_EXIT_IDX0")
      [] a.name = "jalr" ->
           Exit(X(env, next), addr - (addr % 2), "TB_EXIT_NOCHAIN")
      [] a.name = "ecall" -> Exit(env, pc, "EXCP_ECALL")
      [] a.name = "ebreak" -> Exit(env, pc, "EXCP_EBREAK")
      [] a.name = "fence" -> Go(env)

Ended(st) == [st EXCEPT !.exit = IF @ = NoArg THEN Field("TB_EXIT_IDX0") ELSE @]

\* A block: its instructions in order, then exit slot 0 at the next one
IsaRun(insns, env, mem) ==
    LET run[k \in 0 .. Len(insns)] ==
            IF k = 0 THEN [env |-> env, mem |-> mem, exit |-> NoArg]
            ELSE IsaStep(run[k - 1], insns[k])
    IN  Ended(run[Len(insns)])

=============================================================================
