----------------------------- MODULE MCPipeline -----------------------------
(***************************************************************************)
(* Instances of Pipeline.  The instructions are compiled alone, with       *)
(* operands that alias each other and x0; representative ones are compiled *)
(* in pairs, from an empty register file and behind a prefix that fills    *)
(* all thirteen allocatable registers.  The four word forms of AMOMIN and  *)
(* AMOMAX come behind an instruction that makes rs2 a sign-extended word:  *)
(* they compare all of rs2 with the loaded word, and so differ from the    *)
(* ISA when it is not.  An SC has a reservation, from an earlier block or  *)
(* from an LR before it: without one it differs from the ISA, too.         *)
(***************************************************************************)
EXTENDS Pipeline

\* An instruction; some of the ones with a compressed form are two bytes
I(name, rd, rs1, rs2, imm) ==
    [name |-> name, rd |-> rd, rs1 |-> rs1, rs2 |-> rs2, rs3 |-> 0,
     imm |-> imm, csr |-> "", len |-> IF name \in Rvc /\ imm = 3 THEN 2 ELSE 4]

C(name, rd, rs1, csr) == [I(name, rd, rs1, 0, 0) EXCEPT !.csr = csr]

\* CPU states: boundary values in the registers, FS off, initial and dirty, and
\* a reservation (load_res is not -1)
EnvOf(x1, x2, x3, fs) ==
    [c \in Cells |->
       CASE c = gpr(1) -> x1 [] c = gpr(2) -> x2 [] c = gpr(3) -> x3
         [] c = Field("pc") -> StartPc
         [] c = Field("ustatus") -> fs
         [] c[1] = "fpr" -> 37 + 64 * c[2]
         [] c = Field("frm") -> 3
         [] OTHER -> 9]

MCEnvs == {EnvOf(0, 255, 128, 96), EnvOf(128, 255, 1, 0), EnvOf(5, 250, 77, 32),
           EnvOf(127, 127, 200, 33), EnvOf(16, 2, 248, 64)}

\* rd, rs1, rs2
RRR == {<<1, 2, 3>>, <<1, 1, 2>>, <<2, 1, 1>>, <<0, 1, 2>>, <<1, 0, 2>>,
        <<1, 2, 0>>, <<3, 3, 3>>, <<2, 0, 0>>}
RR == {<<1, 1>>, <<1, 2>>, <<0, 1>>, <<2, 0>>}
Imms == {0, 1, 3, 200, 255}

RType(names) == {I(n, r[1], r[2], r[3], 0) : n \in names, r \in RRR}
IType(names, imms) == {I(n, r[1], r[2], 0, m) : n \in names, r \in RR, m \in imms}
SType(names, imms) == {I(n, 0, r[1], r[2], m) : n \in names,
                         r \in {<<1, 2>>, <<2, 2>>, <<0, 1>>, <<1, 0>>}, m \in imms}

SignedDiv == {"div", "rem", "divw", "remw"}
MulHigh == {"mulh", "mulhu", "mulhsu"}
HighSquare == {a \in RType(MulHigh) : a.rs1 = a.rs2}
AmoMinMaxW == {"amomin_w", "amomax_w", "amominu_w", "amomaxu_w"}

IntInsns == (RType(RegReg \ SignedDiv) \ HighSquare) \cup IType(RegImm, Imms)

MemInsns == IType(DOMAIN LoadOp, Imms) \cup SType(DOMAIN StoreOp, Imms)
    \cup {I(n, r[1], r[2], r[3], m) : r \in RRR, m \in 0 .. 2,
            n \in (AmoW \ AmoMinMaxW) \cup AmoD
                  \cup {"lr_w", "lr_d", "sc_w", "sc_d"}}

CsrInsns == {C(n, r[1], r[2], c) : n \in CsrNames, r \in RR \cup {<<1, 0>>},
               c \in {"fcsr", "fflags", "frm", "cycle", "uscratch", "none"}}

JumpInsns == SType(DOMAIN BranchCond, {0, 8, 3, 200})
    \cup IType({"jal", "jalr", "lui", "auipc"}, {0, 3, 200})
    \cup {I(n, 0, 0, 0, 0) : n \in {"ecall", "ebreak", "fence", "illegal"}}

FloatInsns == {[I(n, r[1], r[2], r[3], m) EXCEPT !.rs3 = 2] : n \in FpInsns,
                 r \in {<<1, 2, 0>>, <<1, 1, 2>>, <<0, 1, 1>>}, m \in {0, 3, 7}}

\* One instruction for every way of using registers, memory and helpers
Rep == {I("add", 1, 2, 3, 0), I("sub", 2, 1, 1, 0), I("addi", 3, 3, 0, 1),
        I("sll", 1, 2, 3, 0), I("sra", 3, 1, 3, 0), I("slt", 2, 3, 1, 0),
        I("mulh", 1, 2, 3, 0), I("mulhsu", 3, 3, 2, 0), I("divu", 2, 1, 3, 0),
        I("remuw", 1, 1, 2, 0), I("sraw", 3, 2, 1, 0), I("srliw", 1, 3, 0, 2),
        I("addiw", 2, 2, 0, 255), I("lui", 3, 0, 0, 200), I("xor", 1, 1, 1, 0),
        I("andi", 2, 0, 0, 3), I("lw", 1, 2, 0, 3), I("sd", 0, 2, 1, 3),
        I("amoadd_w", 3, 1, 2, 3), I("amomax_d", 1, 2, 3, 0),
        I("amoswap_d", 2, 2, 2, 0), I("lr_d", 1, 3, 0, 0), I("sc_w", 2, 1, 3, 0),
        C("csrrw", 1, 2, "fcsr"), C("csrrc", 2, 3, "frm"),
        C("csrrsi", 1, 3, "uscratch"), I("beq", 0, 1, 2, 200),
        I("blt", 0, 3, 1, 8), I("jal", 1, 0, 0, 8), I("jalr", 1, 1, 0, 3)}

RepFloat == {I("fadd_d", 1, 2, 0, 7), I("fcvt_w_s", 1, 1, 0, 0),
             I("flw", 1, 2, 0, 3), I("fsw", 0, 1, 2, 0), I("fmv_w_x", 2, 1, 0, 0),
             I("fmv_x_w", 2, 1, 0, 0), I("feq_d", 3, 1, 2, 0),
             [I("fmadd_s", 1, 0, 2, 3) EXCEPT !.rs3 = 2]}

\* Those that need many registers, or some in particular
RepFixed == {a \in Rep : a.name \in {"sll", "sra", "slt", "mulh", "mulhsu", "divu",
               "remuw", "sraw", "lw", "sd", "amoadd_w", "amomax_d", "sc_w",
               "csrrw", "beq", "jalr"}}

Sc == {a \in Rep : a.name = "sc_w"}

\* Two instructions, of which not both are an SC
NotTwice(S1, S2) == <<S1, S2 \ Sc>>
ScSecond(S1) == <<S1 \ Sc, Sc>>

\* k instructions each of which leaves another register occupied
Fill(k) == [j \in 1 .. k |-> {I("addi", 1 + (j % 3), 1 + ((j + 1) % 3), 0, 1)}]

\* Word forms of AMOMIN and AMOMAX behind addiw x2, x2, 0
MinMaxWord == <<{I("addiw", 2, 2, 0, 0)},
                {I(n, r[1], r[2], r[3], 0) : n \in AmoMinMaxW,
                   r \in {<<1, 3, 2>>, <<2, 1, 2>>, <<1, 2, 2>>, <<0, 1, 2>>, <<3, 1, 0>>}}>>

MCShapes == [int |-> <<IntInsns>>, mem |-> <<MemInsns>>, csr |-> <<CsrInsns>>,
             jump |-> <<JumpInsns>>, float |-> <<FloatInsns>>,
             pair |-> NotTwice(Rep \cup RepFloat, Rep \cup RepFloat),
             pair_sc |-> ScSecond(Rep \cup RepFloat),
             minmax |-> MinMaxWord, full |-> Fill(11) \o NotTwice(Rep, RepFixed),
             full_sc |-> Fill(11) \o ScSecond(Rep),
             signed_div |-> <<RType(SignedDiv)>>, high_square |-> <<HighSquare>>]

MCHostShapes == (DOMAIN MCShapes \ {"signed_div", "high_square"})
                \cup {"ops", "pressed", "ptr"}

(***************************************************************************)
(* Blocks of ops that the RISC-V frontend does not make.  A and B are two  *)
(* temps of a type, D a third for the result, which goes to x1.            *)
(***************************************************************************)
X(k) == Global(gpr(k))
T(ty, k) == Temp(ty, 1, k)
A(ty) == T(ty, 1)
B(ty) == T(ty, 2)
D(ty) == T(ty, 3)
Types == {"I32", "I64"}

\* Not with Mov: fold_mov keeps what is known of the copies of a temp that
\* another Mov changes, which no instruction of the frontend meets.
FromGpr(ty, d, k) == IF ty = "I64" THEN Bin("Add", ty, d, X(k), C64(0))
                     ELSE Extrl(d, X(k))
ToGpr(k, s) == IF s.ty = "I64" THEN Mov(X(k), s)
               ELSE Unary("ExtUI32I64", "I64", X(k), s)

\* o between the loads of A and B and the use of D.  Both inputs are used
\* again when keep is set, and so must not lose their values.
Around(ty, o, keep) ==
    FromGpr(ty, A(ty), 1) \o FromGpr(ty, B(ty), 2) \o o \o ToGpr(1, D(ty))
    \o (IF keep THEN ToGpr(2, A(ty)) \o ToGpr(3, B(ty)) ELSE <<>>)
    \o ExitTb("TB_EXIT_NOCHAIN")

\* k temps that live across o
Pressed(ty, o, k) ==
    LET L(j) == Temp("I64", 2, j)
        Each2(F(_)) == LET f[j \in 0 .. k] == IF j = 0 THEN <<>>
                                              ELSE f[j - 1] \o F(j) IN f[k]
        Make(j) == Bin("Add", "I64", L(j), X(3), C64(j))
        Use(j) == Bin("Xor", "I64", X(3), X(3), L(j))
    IN  Each2(Make) \o FromGpr(ty, A(ty), 1) \o FromGpr(ty, B(ty), 2) \o o
        \o ToGpr(1, D(ty)) \o Each2(Use) \o ToGpr(2, B(ty))
        \o ExitTb("TB_EXIT_NOCHAIN")

Pairs(ty) == {<<A(ty), B(ty)>>, <<B(ty), A(ty)>>, <<A(ty), A(ty)>>,
              <<A(ty), Const(ty, 3)>>, <<Const(ty, 6), B(ty)>>}

BinBlocks(ty) == {Bin(o, ty, D(ty), p[1], p[2]) : o \in Binary, p \in Pairs(ty)}
CarryBlocks(ty) ==
    {Carry(c[1], ty, T(ty, 4), A(ty), B(ty)) \o Carry(c[2], ty, T(ty, 5), p[1], p[2])
     \o Carry(c[3], ty, D(ty), T(ty, 4), T(ty, 5)) : p \in {<<A(ty), B(ty)>>, <<B(ty), A(ty)>>},
       c \in {"AddCO", "AddC1O"} \X {"AddCIO"} \X {"AddCI"} \cup
            {"SubBO", "SubB1O"} \X {"SubBIO"} \X {"SubBI"}}
CondBlocks(ty) ==
    {CondOp(o, ty, D(ty), p[1], p[2], c) : o \in {"SetCond", "NegSetCond"},
       c \in Cond, p \in {<<A(ty), B(ty)>>, <<A(ty), Const(ty, 3)>>}}
    \cup {<<Op("MovCond", ty, <<D(ty)>>, <<A(ty), B(ty), v[1], v[2]>>, Field(c))>> :
            c \in Cond, v \in Pairs(ty)}
FieldBlocks(ty) ==
    {Deposit(ty, D(ty), p[1], p[2], 0, n) : n \in {8, 16}, p \in Pairs(ty)}
    \cup {Extract2(ty, D(ty), p[1], p[2], n) : n \in {8, 16, 24}, p \in Pairs(ty)}
    \cup {Bswap(o, ty, D(ty), A(ty), g) : o \in {"Bswap16", "Bswap32"}, g \in {2, 4}}
    \cup {Extract("Extract", ty, T(ty, 4), A(ty), 0, 16)
           \o Bswap("Bswap16", ty, D(ty), T(ty, 4), 3)}
    \cup {Extract(o, ty, D(ty), A(ty), 0, 16) : o \in {"Extract", "SExtract"}}
    \cup {Bin(o, ty, D(ty), s, Const(ty, size_bits(ty))) : o \in {"Clz", "Ctz"},
            s \in {A(ty), B(ty)}}
    \cup {Unary(o, ty, D(ty), A(ty)) : o \in {"CtPop", "Neg", "Not"}}

\* Fields of four bytes of an I64, and of one byte: the source of the latter
\* is not in RSI or RDI.
WideBlocks ==
    {Extract(o, "I64", D("I64"), A("I64"), 0, 32) : o \in {"Extract", "SExtract"}}
    \cup {Bswap("Bswap64", "I64", D("I64"), A("I64"), 0)}
    \cup {Unary("ExtrhI64I32", "I32", T("I32", 4), A("I64"))
           \o Unary(o, "I64", D("I64"), T("I32", 4)) : o \in {"ExtI32I64", "ExtUI32I64"}}
ByteBlocks(ty) ==
    {Extract(o, ty, D(ty), A(ty), 0, 8) : o \in {"Extract", "SExtract"}}

Places(size) == {<<"uscratch", 0, k>> : k \in {j \in 0 .. 7 : j % size = 0}}
                \cup {<<"fpr", 1, 0>>}
LoadBlocks(ty) == UNION {{SizedLoad(o, ty, D(ty), p) : p \in Places(Bytes(LdSize[o], ty))} :
                           o \in DOMAIN LdSize}
StoreBlocks(ty) ==
    UNION {{SizedStore(o, ty, v, p) \o Unary("Mov", ty, D(ty), B(ty)) :
              p \in Places(Bytes(StSize[o], ty)), v \in {A(ty), Const(ty, 2)}} :
             o \in DOMAIN StSize}

Small(ty) == BinBlocks(ty) \cup CarryBlocks(ty) \cup CondBlocks(ty)
             \cup FieldBlocks(ty) \cup LoadBlocks(ty) \cup StoreBlocks(ty)
Typed(S32, S64) == {<<"I32", o>> : o \in S32} \cup {<<"I64", o>> : o \in S64}
AllSmall == Typed(Small("I32") \cup ByteBlocks("I32"),
                  Small("I64") \cup ByteBlocks("I64") \cup WideBlocks)
SomeSmall(ty) == {Bin("Mul", ty, D(ty), B(ty), A(ty)), Bin("RotL", ty, D(ty), A(ty), B(ty)),
                  CondOp("NegSetCond", ty, D(ty), A(ty), B(ty), "Lt"),
                  Deposit(ty, D(ty), A(ty), B(ty), 0, 8),
                  Bswap("Bswap16", ty, D(ty), A(ty), 4),
                  Bin("AndC", ty, D(ty), A(ty), B(ty)),
                  SizedStore("St8", ty, B(ty), <<"uscratch", 0, 3>>) \o
                    SizedLoad("Ld8S", ty, D(ty), <<"uscratch", 0, 3>>)}
                 \cup CarryBlocks(ty)

BranchBlocks(ty) ==
    {FromGpr(ty, A(ty), 1) \o FromGpr(ty, B(ty), 2)
     \o Bin("Add", ty, D(ty), A(ty), B(ty)) \o ToGpr(1, D(ty))
     \o BrCond(ty, A(ty), B(ty), c, 1) \o Mov(X(2), C64(7))
     \o Bin("Sub", ty, T(ty, 4), A(ty), B(ty)) \o ToGpr(3, T(ty, 4))
     \o <<Op("SetLabel", "I64", <<>>, <<>>, Label(1))>>
     \o ExitTb("TB_EXIT_NOCHAIN") : c \in Cond}

OpsBlocks == {Around(p[1], p[2], k) : p \in AllSmall, k \in BOOLEAN}
             \cup BranchBlocks("I32") \cup BranchBlocks("I64")
PressedBlocks == {Pressed(p[1], p[2], k) : k \in {6, 9, 12},
                    p \in Typed(SomeSmall("I32"), SomeSmall("I64"))}
PtrBlocks == {Mov(X(1), C64(5)) \o JumpPtr(X(k)) : k \in 1 .. 3}
             \cup {Mov(X(1), C64(5)) \o Bin("Add", "I64", D("I64"), X(1), X(2))
                    \o JumpPtr(D("I64"))}
MCIrBlocks == [ops |-> OpsBlocks, pressed |-> PressedBlocks, ptr |-> PtrBlocks]

NoBlocks == <<>>

\* One signed division
DivShapes == [div |-> <<{I("div", 1, 1, 2, 0), I("rem", 1, 1, 2, 0)}>>]

\* A loop of a floating point load and a branch back to it
LoopShapes == [loop |-> <<{I("fld", 1, 1, 0, 0)}, {I("bne", 0, 1, 2, 252)}>>]

\* An LR, the SC that uses its reservation, and a second SC
ScShapes == [sc |-> <<{I("lr_w", 1, 3, 0, 0)}, {I("sc_w", 2, 3, 1, 0)},
                      {I("sc_w", 2, 3, 1, 0)}>>]

\* A conversion whose operand has been left in RDI
CallShapes == [call |-> Fill(3) \o <<{I("fcvt_d_l", 1, 3, 0, 0)}>>]

\* A long block without a branch
LongShapes == [long |-> Fill(140)]
=============================================================================
