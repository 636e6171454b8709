--------------------------------- MODULE Ir ---------------------------------
(***************************************************************************)
(* The TCG intermediate representation: temps, ops, and what a list of ops *)
(* computes.                                                               *)
(*                                                                         *)
(* A temp is a record: kind is its TempKind, ty its type, id a triple that *)
(* tells it from the other temps of the context.  For a global, id is the  *)
(* field of the CPU state that backs it; for a constant, id[2] is its      *)
(* value, so that Context::new_const, which returns one temp per type and  *)
(* value, is simply the record.  An op is a record of opcode, type, output *)
(* temps, input temps and constant arguments; c is always a triple.        *)
(***************************************************************************)
EXTENDS Words, Sequences, FiniteSets, TLC

CONSTANTS NGpr,     \* guest integer registers are x0 .. xNGpr
          NFpr      \* guest float registers are f0 .. f(NFpr - 1)

Env == [kind |-> "Fixed", ty |-> "I64", id |-> <<"env", 0, 0>>]
Global(cell) == [kind |-> "Global", ty |-> "I64", id |-> cell]
Const(ty, v) == [kind |-> "Const", ty |-> ty, id |-> <<"const", v, 0>>]
Temp(ty, insn, n) == [kind |-> "Ebb", ty |-> ty, id |-> <<"temp", insn, n>>]

\* The fields of RiscvCpu
gpr(r) == <<"gpr", r, 0>>
fpr(r) == <<"fpr", r, 0>>
Field(name) == <<name, 0, 0>>

\* The field at a place, whose last element is a number of bytes into it
CellOf(c) == <<c[1], c[2], 0>>
PlainCsr == {"ustatus", "uie", "utvec", "uscratch",
             "uepc", "ucause", "utval", "uip"}
Cells == {gpr(r) : r \in 1 .. NGpr} \cup {fpr(r) : r \in 0 .. NFpr - 1}
         \cup {Field(f) : f \in PlainCsr \cup
                  {"pc", "load_res", "load_val", "fflags", "frm"}}

\* The global temps in the order init_disas_context registers them
Globals == [k \in 1 .. NGpr + 3 |->
              Global(IF k <= NGpr THEN gpr(k)
                     ELSE <<Field("pc"), Field("load_res"),
                            Field("load_val")>>[k - NGpr])]

is_const(t) == t.kind = "Const"
is_fixed(t) == t.kind = "Fixed"
is_global_or_fixed(t) == t.kind \in {"Global", "Fixed"}

NoArg == <<"", 0, 0>>
NoTemp == [kind |-> "None", ty |-> "I64", id |-> NoArg]

Op(opc, ty, o, i, c) == [opc |-> opc, ty |-> ty, o |-> o, i |-> i, c |-> c]

\* The flags of OPCODE_DEFS that a pass looks at
BB_END == {"Br", "BrCond", "SetLabel", "GotoTb", "ExitTb", "GotoPtr"}
SIDE_EFFECTS == {"QemuLd", "QemuSt"}

(***************************************************************************)
(* What an op computes.  EnvPtr is the address of the CPU state, a value   *)
(* no word has.                                                            *)
(***************************************************************************)
EnvPtr == 2^(2 * W)
ByteBits == Bits(8)

Trunc(v, ty) == IF ty = "I64" THEN v ELSE Low(v, ty)

Faults(opc, ty, a) ==
    \/ opc = "DivU2" /\ \/ Low(a[3], ty) = 0
                        \/ Low(a[2], ty) >= Low(a[3], ty)
    \/ opc = "DivS2" /\
         LET n == Signed(a[2], ty) * 2^size_bits(ty) + Low(a[1], ty)
             d == Signed(a[3], ty)
             Abs(x) == IF x < 0 THEN -x ELSE x
             q == Abs(n) \div Abs(d)
         IN  \/ d = 0
             \/ q > type_mask(ty) \div 2 + (IF (n < 0) # (d < 0) THEN 1 ELSE 0)

\* Quotient and remainder truncate towards zero.
DivRem(n, d) ==
    LET Abs(x) == IF x < 0 THEN -x ELSE x
        q == Abs(n) \div Abs(d)
        s == IF (n < 0) = (d < 0) THEN q ELSE -q
    IN  <<s, n - s * d>>

\* n bytes of v in reverse order
SwapBytes(v, n) ==
    LET byte(k) == (v \div 2^(ByteBits * k)) % 2^ByteBits
        f[k \in 0 .. n] == IF k = 0 THEN 0 ELSE f[k - 1] * 2^ByteBits + byte(k - 1)
    IN  f[n]

\* The zeros above all ones, those below, and the ones among n bits of v
Counts(v, n) ==
    LET ones == {k \in 0 .. n - 1 : (v \div 2^k) % 2 = 1}
    IN  [Clz |-> Cardinality({k \in 0 .. n - 1 : \A j \in ones : j < k}),
         Ctz |-> Cardinality({k \in 0 .. n - 1 : \A j \in ones : j > k}),
         CtPop |-> Cardinality(ones)]

\* v as a two's complement number of n bits, in the type ty
Extended(v, n, ty) == Low(IF 2 * v >= 2^n THEN v - 2^n ELSE v, ty)

\* Extract to ExtrhI64I32; offsets, lengths and flags are those of the code.
FieldResult(opc, ty, c, a) ==
    LET two == 2^size_bits(ty)
        v == Low(a[1], ty)
        n == Bits(c[3])
        at == 2^Bits(c[2])
        bits == (v \div at) % 2^n
        Swapped(k) == LET s == SwapBytes(v, k)
                      IN  IF c[2] >= 4 THEN Extended(s, ByteBits * k, ty) ELSE s
    IN
    CASE opc = "Extract"  -> bits
      [] opc = "SExtract" -> Extended(bits, n, ty)
      [] opc = "Deposit"  -> v + ((a[2] % 2^n) - bits) * at
      [] opc = "Extract2" -> ((Low(a[2], ty) * two + v) \div at) % two
      [] opc = "Bswap16"  -> Swapped(2)
      [] opc = "Bswap32"  -> Swapped(4)
      [] opc = "Bswap64"  -> Swapped(8)
      [] opc \in {"Clz", "Ctz"} ->
           IF v = 0 THEN a[2] ELSE Counts(v, size_bits(ty))[opc]
      [] opc = "CtPop" -> Counts(v, size_bits(ty))[opc]
      [] opc = "ExtrhI64I32" -> Low(a[1] \div 2^W, "I32")

FieldOps == {"Extract", "SExtract", "Deposit", "Extract2", "Bswap16", "Bswap32",
             "Bswap64", "Clz", "Ctz", "CtPop", "ExtrhI64I32"}

\* The output values of an op for the input values a
Result(opc, ty, c, a) ==
    LET two == 2^size_bits(ty)
        cond == c[1]
        Pair(p) == <<Low(p, ty), Low(p \div two, ty)>>
        Lows(p) == <<Low(p[1], ty), Low(p[2], ty)>>
    IN
    CASE opc \in Binary -> <<Alu(opc, a[1], a[2], ty)>>
      [] opc = "Mov"  -> <<Trunc(a[1], ty)>>
      [] opc = "Neg"  -> <<Low(-a[1], ty)>>
      [] opc = "Not"  -> <<Low(-1 - a[1], ty)>>
      [] opc = "SetCond" -> <<IF Holds(cond, a[1], a[2], ty) THEN 1 ELSE 0>>
      [] opc = "NegSetCond" ->
           <<IF Holds(cond, a[1], a[2], ty) THEN type_mask(ty) ELSE 0>>
      [] opc = "MovCond" ->
           <<Low(IF Holds(cond, a[1], a[2], ty) THEN a[3] ELSE a[4], ty)>>
      [] opc = "ExtI32I64" -> <<SignExtend(a[1], "I32")>>
      [] opc \in {"ExtUI32I64", "ExtrlI64I32"} -> <<Low(a[1], "I32")>>
      [] opc = "MulU2" -> Pair(Low(a[1], ty) * Low(a[2], ty))
      [] opc = "MulS2" -> Pair(Signed(a[1], ty) * Signed(a[2], ty))
      [] opc = "DivU2" ->
           Lows(DivRem(Low(a[2], ty) * two + Low(a[1], ty), Low(a[3], ty)))
      [] opc = "DivS2" ->
           Lows(DivRem(Signed(a[2], ty) * two + Low(a[1], ty),
                       Signed(a[3], ty)))
      [] opc \in FieldOps -> <<FieldResult(opc, ty, c, a)>>

Pure == Binary \cup FieldOps \cup
        {"Mov", "Neg", "Not", "SetCond", "NegSetCond", "MovCond", "ExtI32I64",
         "ExtUI32I64", "ExtrlI64I32", "MulU2", "MulS2", "DivU2", "DivS2"}

\* The ops with a carry or borrow in and out: op, carry in, carry out
CARRY_IN == {"AddCI", "AddCIO", "SubBI", "SubBIO"}
CARRY_OUT == {"AddCO", "AddCIO", "AddC1O", "SubBO", "SubBIO", "SubB1O"}
CarryOps == CARRY_IN \cup CARRY_OUT

\* Value and carry for the inputs a and the carry cf
CarryResult(opc, ty, a, cf) ==
    LET in == IF opc \in {"AddC1O", "SubB1O"} \/ (opc \in CARRY_IN /\ cf) THEN 1
              ELSE 0
        x == Low(a[1], ty)
        y == Low(a[2], ty) + in
        v == IF opc \in {"AddCO", "AddCI", "AddCIO", "AddC1O"} THEN x + y ELSE x - y
    IN  [val |-> Low(v, ty), cf |-> v # Low(v, ty)]

\* Loads and stores of part of a field of the CPU state: how many bytes (0 for
\* as many as the type has), and which ones extend the sign
LdSize == [Ld |-> 0, Ld8U |-> 1, Ld8S |-> 1, Ld16U |-> 2, Ld16S |-> 2,
           Ld32U |-> 4, Ld32S |-> 4]
StSize == [St |-> 0, St8 |-> 1, St16 |-> 2, St32 |-> 4]
LdSigned == {"Ld8S", "Ld16S", "Ld32S"}
Bytes(size, ty) == IF size > 0 THEN size ELSE IF ty = "I64" THEN 8 ELSE 4

\* n bytes of the word v from byte k on, and v with x in their place
Part(v, k, n) == (v \div 2^(ByteBits * k)) % 2^(ByteBits * n)
WithPart(v, k, n, x) ==
    v + ((x % 2^(ByteBits * n)) - Part(v, k, n)) * 2^(ByteBits * k)

(***************************************************************************)
(* Guest memory.  A byte has W \div 4 bits, an eighth of an I64.  mem is   *)
(* what has been stored; an address nothing was stored to holds InitByte.  *)
(***************************************************************************)
InitByte(a) == (a \div 3 + a) % 2^ByteBits
MemBytes == [ub |-> 1, sb |-> 1, uw |-> 2, sw |-> 2,
             ul |-> 4, sl |-> 4, uq |-> 8]

Load(mem, addr, memop) ==
    LET byte(k) == LET a == Low(addr + k, "I64")
                   IN  IF a \in DOMAIN mem THEN mem[a] ELSE InitByte(a)
        word[k \in 0 .. MemBytes[memop]] ==
            IF k = 0 THEN 0
            ELSE word[k - 1] + byte(k - 1) * 2^(ByteBits * (k - 1))
        v == word[MemBytes[memop]]
        range == 2^(ByteBits * MemBytes[memop])
    IN  IF memop \in {"sb", "sw", "sl"} /\ 2 * v >= range
        THEN Low(v - range, "I64") ELSE v

Store(mem, addr, v, memop) ==
    [a \in {Low(addr + k, "I64") : k \in 0 .. MemBytes[memop] - 1} |->
        (v \div 2^(ByteBits * Low(a - addr, "I64"))) % 2^ByteBits] @@ mem

(***************************************************************************)
(* A helper called from translated code: a fixed function of its arguments *)
(* and of the rounding mode in the CPU state when it is dynamic, which     *)
(* accumulates exception flags in the CPU state.  What it computes on      *)
(* floats is abstracted to a sum that tells the arguments apart.           *)
(***************************************************************************)
FFLAGS_MASK == 31
FRM_MASK == 7
FRM_DYN == 7

HelperResult(cpu, name, a) ==
    LET frm == cpu[Field("frm")] % 8
        rm == IF name[2] = 1 /\ a[name[3]] % 8 # FRM_DYN
              THEN a[name[3]] % 8 ELSE frm
        v == a[2] + 3 * a[3] + 5 * a[4] + 7 * a[5]
             + (IF name[2] = 1 THEN 11 * rm ELSE 0)
    IN  [val |-> Low(v, "I64"),
         fflags |-> LET new == v % 3  old == cpu[Field("fflags")]
                    IN  Alu("And", Alu("Or", old, new, "I64"),
                            FFLAGS_MASK, "I64")]

(***************************************************************************)
(* The execution of a list of ops from a CPU state and a memory.           *)
(***************************************************************************)
Value(st, t) == CASE t.kind = "Const"  -> t.id[2]
                  [] t.kind = "Fixed"  -> EnvPtr
                  [] t.kind = "Global" -> st.env[t.id]
                  [] t.kind = "Ebb"    -> st.t[t]

SetValue(st, t, v) ==
    IF t.kind = "Global" THEN [st EXCEPT !.env[t.id] = v]
    ELSE [st EXCEPT !.t = (t :> v) @@ @]

\* An op has one output or two.
SetValues(st, o, v) ==
    IF Len(v) = 1 THEN SetValue(st, o[1], v[1])
    ELSE SetValue(SetValue(st, o[1], v[1]), o[2], v[2])

IrStep(st, op) ==
    LET a == [k \in 1 .. Len(op.i) |-> Value(st, op.i[k])]
    IN
    CASE st.exit # NoArg -> st
      [] st.skip # NoArg ->
           IF op.opc = "SetLabel" /\ op.c = st.skip
           THEN [st EXCEPT !.skip = NoArg] ELSE st
      [] op.opc \in Pure ->
           IF Faults(op.opc, op.ty, a) THEN [st EXCEPT !.exit = Field("#DE")]
           ELSE SetValues(st, op.o, Result(op.opc, op.ty, op.c, a))
      [] op.opc \in CarryOps ->
           LET r == CarryResult(op.opc, op.ty, a, st.cf)
           IN  SetValue([st EXCEPT !.cf = IF op.opc \in CARRY_OUT THEN r.cf ELSE @],
                        op.o[1], r.val)
      [] op.opc \in DOMAIN LdSize ->
           LET n == Bytes(LdSize[op.opc], op.ty)
               v == Part(st.env[CellOf(op.c)], op.c[3], n)
           IN  SetValue(st, op.o[1], IF op.opc \in LdSigned
                                     THEN Extended(v, ByteBits * n, op.ty) ELSE v)
      [] op.opc \in DOMAIN StSize ->
           [st EXCEPT !.env[CellOf(op.c)] =
              WithPart(@, op.c[3], Bytes(StSize[op.opc], op.ty), a[1])]
      [] op.opc = "QemuLd" ->
           SetValue(st, op.o[1], Load(st.mem, a[1], op.c[1]))
      [] op.opc = "QemuSt" ->
           [st EXCEPT !.mem = Store(@, a[2], a[1], op.c[1])]
      [] op.opc = "Call" ->
           LET r == HelperResult(st.env, op.c, a)
           IN  SetValue([st EXCEPT !.env[Field("fflags")] = r.fflags],
                        op.o[1], r.val)
      [] op.opc = "BrCond" ->
           IF Holds(op.c[1], a[1], a[2], op.ty)
           THEN [st EXCEPT !.skip = <<"label", op.c[2], 0>>] ELSE st
      [] op.opc = "Br" -> [st EXCEPT !.skip = op.c]
      [] op.opc = "ExitTb" -> [st EXCEPT !.exit = op.c]
      [] op.opc = "GotoPtr" -> [st EXCEPT !.exit = <<"goto_ptr", a[1], 0>>]
      [] OTHER -> st

\* What is seen of a run from outside
Seen(st) == [env |-> st.env, mem |-> st.mem, exit |-> st.exit]

IrRun(ops, env, mem) ==
    LET run[k \in 0 .. Len(ops)] ==
            IF k = 0 THEN [t |-> <<>>, env |-> env, mem |-> mem,
                           cf |-> FALSE, skip |-> NoArg, exit |-> NoArg]
            ELSE IrStep(run[k - 1], ops[k])
    IN  Seen(run[Len(ops)])

=============================================================================
