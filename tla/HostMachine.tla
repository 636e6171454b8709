---------------------------- MODULE HostMachine ----------------------------
(***************************************************************************)
(* The x86-64 that runs the emitted instructions, from the call of the     *)
(* prologue to its return: registers, flags, the stack, the CPU state and  *)
(* guest memory.  A pointer is a number above all words; RSP counts real   *)
(* bytes.  A register, flag or stack slot that nothing was written to, or  *)
(* that a call leaves undefined, holds junk the caller chooses.            *)
(***************************************************************************)
EXTENDS Codegen

\* The address of the block's code, of guest memory, where the caller goes on
CodePtr == 32 * EnvPtr
ReturnPtr == 33 * EnvPtr
GuestPtr == 64 * EnvPtr
EntryRsp == 256 * EnvPtr + 8

(***************************************************************************)
(* Memory                                                                  *)
(***************************************************************************)
Fault(st) == [st EXCEPT !.exit = Field("fault")]

\* The field of the CPU state at an offset
CellAt == [off \in {Offset(c) : c \in Cells} |->
             CHOOSE c \in Cells : Offset(c) = off]
InCell(a) == a - EnvPtr - (a % 8) \in DOMAIN CellAt
InGuest(a) == a - GuestPtr \in Word
MemOpOf == [n \in {1, 2, 4, 8} |-> CHOOSE m \in {"ub", "uw", "ul", "uq"} :
                                     MemBytes[m] = n]

\* What the code may access: nothing below the stack pointer
Mapped(st, a) == \/ a = EnvPtr + GUEST_BASE_OFFSET
                 \/ InCell(a) \/ InGuest(a)
                 \/ a >= st.r[RSP] /\ a <= EntryRsp

\* The stack is kept in units of four bytes.
StackHalf(st, a) == IF a \in DOMAIN st.stack THEN st.stack[a] ELSE st.junk % 2^W

ReadMem(st, a, n) ==
    CASE a = EnvPtr + GUEST_BASE_OFFSET -> GuestPtr
      [] InCell(a) -> Part(st.env[CellAt[a - EnvPtr - (a % 8)]], a % 8, n)
      [] InGuest(a) -> Load(st.mem, a - GuestPtr, MemOpOf[n])
      [] OTHER -> StackHalf(st, a) +
                  (IF n = 8 THEN StackHalf(st, a + 4) * 2^W ELSE 0)

WriteMem(st, a, n, v) ==
    CASE InCell(a) -> [st EXCEPT !.env[CellAt[a - EnvPtr - (a % 8)]] =
                         WithPart(@, a % 8, n, v)]
      [] InGuest(a) -> [st EXCEPT !.mem = Store(@, a - GuestPtr, v, MemOpOf[n])]
      [] OTHER ->
           [st EXCEPT !.stack =
              (IF n = 8 THEN (a :> v % 2^W) @@ (a + 4 :> v \div 2^W)
               ELSE a :> v % 2^W) @@ @]

(***************************************************************************)
(* Operands                                                                *)
(***************************************************************************)
OperandSize(x) ==
    CASE x.opc \in {"MOVZBL", "MOVZBL_REXB", "MOVSBL", "MOVB_EvGv", "SETCC"} -> 1
      [] x.opc \in {"MOVZWL", "MOVSWL", "MOVW_EvGv", "SHIFTW_Ib"} -> 2
      [] x.opc = "MOVSLQ" -> 4
      [] OTHER -> IF x.w THEN 8 ELSE 4

Address(st, x) ==
    st.r[x.rm] + x.disp + IF x.mode = "sib" THEN st.r[x.idx] ELSE 0

LowBytes(v, n) == IF n = 8 THEN v ELSE v % 2^(ByteBits * n)

\* The r/m operand
Source(st, x, n) == IF x.mode = "reg" THEN LowBytes(st.r[x.rm], n)
                    ELSE ReadMem(st, Address(st, x), n)

\* A write of four bytes clears the upper half, a smaller one keeps the rest.
SetReg(st, q, v, n) ==
    [st EXCEPT !.r[q] = CASE n = 8 -> v
                          [] n = 4 -> v % 2^W
                          [] n < 4 -> WithPart(@, 0, n, v)]

Target(st, x, v, n) == IF x.mode = "reg" THEN SetReg(st, x.rm, v, n)
                       ELSE WriteMem(st, Address(st, x), n, v)

(***************************************************************************)
(* Flags                                                                   *)
(***************************************************************************)
Flags(c, z, s, o) == [c |-> c, z |-> z, s |-> s, o |-> o]
Undefined(st) == LET j == st.junk # 0 IN [st EXCEPT !.fl = Flags(j, j, j, j)]

CondHolds(fl, cc) ==
    LET even == CASE cc \div 2 = 0 -> fl.o
                  [] cc \div 2 = 1 -> fl.c
                  [] cc \div 2 = 2 -> fl.z
                  [] cc \div 2 = 3 -> fl.c \/ fl.z
                  [] cc \div 2 = 4 -> fl.s
                  [] cc \div 2 = 6 -> fl.s # fl.o
                  [] cc \div 2 = 7 -> fl.z \/ fl.s # fl.o
    IN  IF cc % 2 = 0 THEN even ELSE ~even

\* The eight arithmetic instructions: the value, as if without a limit, of the
\* unsigned and of the signed operands
ArithValue(code, a, b, cin, logic) ==
    CASE code = ArithCode["Add"] -> a + b
      [] code = ArithCode["Adc"] -> a + b + cin
      [] code \in {ArithCode["Sub"], ArithCode["Cmp"]} -> a - b
      [] code = ArithCode["Sbb"] -> a - b - cin
      [] OTHER -> logic

\* u and s are the unsigned and the signed value.
ArithSet(st, name, d, ty, u, s) ==
    [st EXCEPT !.fl = Flags(u # Low(u, ty), Low(u, ty) = 0, Signed(u, ty) < 0,
                            s # Signed(u, ty)),
               !.r[d] = IF name = "Cmp" THEN @ ELSE Low(u, ty)]

Arith(st, code, d, b, ty) ==
    LET a == st.r[d]
        cin == IF st.fl.c THEN 1 ELSE 0
        name == CHOOSE n \in DOMAIN ArithCode : ArithCode[n] = code
        bits == IF name \in {"And", "Or", "Xor"} THEN Alu(name, a, b, ty) ELSE 0
    IN  IF d = RSP THEN [st EXCEPT !.r[RSP] = ArithValue(code, a, b, cin, a)]
        ELSE ArithSet(st, name, d, ty,
                      ArithValue(code, Low(a, ty), Low(b, ty), cin, bits),
                      ArithValue(code, Signed(a, ty), Signed(b, ty), cin,
                                 Signed(bits, ty)))

Shift(st, code, q, count, ty) ==
    LET name == CHOOSE n \in DOMAIN ShiftCode : ShiftCode[n] = code
    IN  [Undefined(st) EXCEPT !.r[q] = Alu(name, st.r[q], count, ty)]

(***************************************************************************)
(* Instructions                                                            *)
(***************************************************************************)
\* Multiplication and division of RDX:RAX; the others change the operand.
Group3Step(st, code, q, ty) ==
    LET name == CHOOSE n \in DOMAIN Ext3Code : Ext3Code[n] = code
        a == CASE name \in {"Not", "Neg"}     -> <<st.r[q]>>
               [] name \in {"MulU2", "MulS2"} -> <<st.r[RAX], st.r[q]>>
               [] name \in {"DivU2", "DivS2"} -> <<st.r[RAX], st.r[RDX], st.r[q]>>
        v == Result(name, ty, NoArg, a)
    IN  CASE Faults(name, ty, a) -> [st EXCEPT !.exit = Field("#DE")]
          [] name \in {"Not", "Neg"} -> [Undefined(st) EXCEPT !.r[q] = v[1]]
          [] OTHER -> [Undefined(st) EXCEPT !.r[RAX] = v[1], !.r[RDX] = v[2]]

\* A helper, called with an aligned stack, returns in RAX.  It may use every
\* register the ABI does not make it save and the stack below its frame.
HelperCall(st, name) ==
    LET h == HelperResult(st.env, name, [k \in 1 .. 6 |-> st.r[CallArgRegs[k]]])
        saved == {RSP} \cup {CALLEE_SAVED[k] : k \in DOMAIN CALLEE_SAVED}
    IN  IF st.r[RDI] # EnvPtr THEN Fault(st)
        ELSE [Undefined(st) EXCEPT
                !.env[Field("fflags")] = h.fflags,
                !.abi = @ /\ st.r[RSP] % 16 = 0,
                !.stack = [a \in {b \in DOMAIN @ : b >= st.r[RSP]} |-> @[a]],
                !.r = [q \in Regs |-> IF q = RAX THEN h.val
                                      ELSE IF q \in saved THEN @[q] ELSE st.junk]]

\* Back in the caller of the prologue
Return(st) ==
    LET d == decode_tb_exit(st.r[RAX])
        names == {n \in DOMAIN ExitCode : ExitCode[n] = d.code
                                          /\ d.tb = (IF d.code < TB_EXIT_MAX
                                                     THEN TbIdx ELSE NoSlot)}
    IN  [st EXCEPT !.exit = IF names = {} THEN Field("bad exit")
                            ELSE Field(CHOOSE n \in names : TRUE),
                   !.abi = /\ @ /\ st.r[RSP] = EntryRsp
                           /\ ReadMem(st, EntryRsp, 8) = ReturnPtr
                           /\ \A k \in DOMAIN CALLEE_SAVED :
                                st.r[CALLEE_SAVED[k]] = st.entry[CALLEE_SAVED[k]]]

MoveStep(st, x, n) ==
    LET size == IF x.w THEN 8 ELSE 4
        ty == IF x.w THEN "I64" ELSE "I32"
    IN
    CASE x.opc \in {"MOVL_EvGv", "MOVW_EvGv", "MOVB_EvGv"} ->
           Target(st, x, st.r[x.r], n)
      [] x.opc \in {"MOVL_GvEv", "MOVZBL", "MOVZBL_REXB", "MOVZWL"} ->
           SetReg(st, x.r, Source(st, x, n), size)
      [] x.opc \in {"MOVSBL", "MOVSWL", "MOVSLQ"} ->
           SetReg(st, x.r, Extended(Source(st, x, n), ByteBits * n, ty), size)
      [] x.opc = "MOVL_Iv" -> [st EXCEPT !.r[x.rm] = x.imm]
      [] x.opc = "MOVL_EvIz" -> [st EXCEPT !.r[x.rm] = SignExtend(x.imm, "I32")]
      [] x.opc = "CMOVCC" ->
           SetReg(st, x.r, IF CondHolds(st.fl, x.n) THEN st.r[x.rm] ELSE st.r[x.r],
                  size)
      [] x.opc = "SETCC" ->
           SetReg(st, x.rm, IF CondHolds(st.fl, x.n) THEN 1 ELSE 0, 1)
      [] x.opc = "LEA" -> SetReg(st, x.r, Low(Address(st, x), ty), size)

Moves == {"MOVL_EvGv", "MOVW_EvGv", "MOVB_EvGv", "MOVL_GvEv", "MOVZBL",
          "MOVZBL_REXB", "MOVZWL", "MOVSBL", "MOVSWL", "MOVSLQ", "MOVL_Iv",
          "MOVL_EvIz", "CMOVCC", "SETCC", "LEA"}

\* The instructions that compute what an op does, in a register of their own
Computes == [IMUL_GvEv |-> "Mul", SHRD_Ib |-> "Extract2", ANDN |-> "AndC",
             LZCNT |-> "Clz", TZCNT |-> "Ctz", POPCNT |-> "CtPop"]

Inputs(st, x, ty) ==
    CASE x.opc = "IMUL_GvEv" -> <<st.r[x.r], st.r[x.rm]>>
      [] x.opc = "SHRD_Ib" -> <<st.r[x.rm], st.r[x.r]>>
      [] x.opc = "ANDN" -> <<st.r[x.rm], st.r[x.idx]>>
      [] OTHER -> <<st.r[x.rm], size_bits(ty)>>

\* TEST is an AND that writes no register.
ArithStep(st, x, ty) ==
    CASE x.opc = "TESTL" ->
           [Arith(st, ArithCode["And"], x.r, st.r[x.rm], ty) EXCEPT !.r = st.r]
      [] x.opc = "ARITH_GvEv" -> Arith(st, x.n, x.r, st.r[x.rm], ty)
      [] x.opc = "ARITH_EvGv" -> Arith(st, x.n, x.rm, st.r[x.r], ty)
      [] OTHER -> Arith(st, x.r, x.rm, x.imm, ty)

ShiftCount(st, x) == CASE x.opc = "SHIFT_cl" -> st.r[RCX]
                       [] x.opc = "SHIFT_1" -> 1
                       [] x.opc = "SHIFT_Ib" -> Bits(x.imm)

ComputeStep(st, x) ==
    LET ty == IF x.w THEN "I64" ELSE "I32"
        size == IF x.w THEN 8 ELSE 4
    IN
    CASE x.opc \in {"ARITH_GvEv", "ARITH_EvGv", "ARITH_EvIb", "ARITH_EvIz", "TESTL"} ->
           ArithStep(st, x, ty)
      [] x.opc \in {"SHIFT_cl", "SHIFT_1", "SHIFT_Ib"} ->
           Shift(st, x.r, x.rm, ShiftCount(st, x), ty)
      [] x.opc \in DOMAIN Computes ->
           [Undefined(st) EXCEPT !.r[IF x.opc = "SHRD_Ib" THEN x.rm ELSE x.r] =
              Result(Computes[x.opc], ty, <<"", x.imm, 0>>, Inputs(st, x, ty))[1]]
      [] x.opc = "SHIFTW_Ib" ->
           SetReg(Undefined(st), x.rm, SwapBytes(st.r[x.rm], 2), 2)
      [] x.opc = "BSWAP" -> SetReg(st, x.rm, SwapBytes(st.r[x.rm], size), size)
      [] x.opc = "STC" -> [st EXCEPT !.fl.c = TRUE]
      [] x.opc = "GRP3_Ev" -> Group3Step(st, x.r, x.rm, ty)

Push(st, v) == WriteMem([st EXCEPT !.r[RSP] = @ - 8], st.r[RSP] - 8, 8, v)

ControlStep(st, x) ==
    CASE x.opc = "JCC_long" ->
           IF CondHolds(st.fl, x.n) THEN [st EXCEPT !.to = x.imm] ELSE st
      [] x.opc = "JMP_long" -> [st EXCEPT !.to = x.imm]
      [] x.opc \in {"NOP", "MFENCE"} -> st
      [] x.opc = "PUSH_r32" -> Push(st, st.r[x.rm])
      [] x.opc = "POP_r32" -> [st EXCEPT !.r[x.rm] = ReadMem(st, st.r[RSP], 8),
                                         !.r[RSP] = @ + 8]
      [] x.opc = "RET" -> Return(st)
      [] x.opc = "GRP5" /\ x.r = CallN -> HelperCall(st, st.r[x.rm])
      [] x.opc = "GRP5" /\ x.r = JmpN ->
           IF st.r[x.rm] = CodePtr THEN st
           ELSE [st EXCEPT !.exit = <<"goto_ptr", st.r[x.rm], 0>>]

Controls == {"JCC_long", "JMP_long", "NOP", "MFENCE", "PUSH_r32", "POP_r32",
             "RET", "GRP5"}

HostStep(st, x) ==
    CASE st.exit # NoArg \/ st.to # 0 -> st
      [] OTHER ->
           CASE /\ x.mode \in {"mem", "sib"} /\ x.opc # "LEA"
                /\ ~Mapped(st, Address(st, x)) -> Fault(st)
             [] x.opc \in Moves -> MoveStep(st, x, OperandSize(x))
             [] x.opc \in Controls -> ControlStep(st, x)
             [] OTHER -> ComputeStep(st, x)

\* The instructions of one op.  A jump leaves them.
HostSteps(start, s) ==
    LET f[k \in 0 .. Len(s)] == IF k = 0 THEN start ELSE HostStep(f[k - 1], s[k])
    IN  f[Len(s)]

\* A call of the prologue.  The callee-saved registers hold values of the
\* caller's that no word equals.
Entry(env, mem, junk) ==
    LET r == [q \in Regs |-> CASE q = RDI -> EnvPtr
                               [] q = RSI -> CodePtr
                               [] q = RSP -> EntryRsp
                               [] q \in {RAX, RCX, RDX} \cup 8 .. 11 -> junk
                               [] OTHER -> junk + (q + 4) * EnvPtr]
    IN  [r |-> r, entry |-> r, fl |-> Flags(junk # 0, junk # 0, junk # 0, junk # 0),
         stack |-> (EntryRsp :> ReturnPtr % 2^W) @@ (EntryRsp + 4 :> ReturnPtr \div 2^W),
         env |-> env, mem |-> mem, junk |-> junk, to |-> 0, exit |-> NoArg,
         abi |-> TRUE]

\* The epilogue from the entry that was jumped to
Epilogue(to) == CASE to = tb_ret -> Tail(emit_epilogue)
                  [] to < 0 /\ to # tb_ret -> emit_epilogue
                  [] OTHER -> <<>>

\* What runs at position k: the prologue, then the instructions of every op
\* that no jump goes past, then the epilogue
At(code, to, k) == CASE k = 0 -> emit_prologue
                     [] k \in DOMAIN code ->
                          IF to < 0 \/ to > k THEN <<>> ELSE code[k]
                     [] OTHER -> Epilogue(to)

HostOp(st, s) == IF s = <<>> THEN st ELSE HostSteps([st EXCEPT !.to = 0], s)

\* The positions lo to hi, one half after the other
RECURSIVE HostOps(_, _, _, _)
HostOps(st, code, lo, hi) ==
    LET mid == (lo + hi) \div 2
    IN  CASE st.exit # NoArg -> st
          [] st.exit = NoArg /\ lo = hi -> HostOp(st, At(code, st.to, lo))
          [] st.exit = NoArg /\ lo # hi ->
               HostOps(HostOps(st, code, lo, mid), code, mid + 1, hi)

\* code has the instructions of every op; its jumps are forward.
HostRun(code, env, mem, junk) ==
    HostOps(Entry(env, mem, junk), code, 0, Len(code) + 1)

=============================================================================
