----------------------------- MODULE IrBuilder -----------------------------
(***************************************************************************)
(* The constructors of ops in ir_builder.rs: each is the list of the one   *)
(* op that is appended to the context.                                     *)
(***************************************************************************)
EXTENDS Ir

Bin(opc, ty, d, a, b) == <<Op(opc, ty, <<d>>, <<a, b>>, NoArg)>>
Mov(d, s) == <<Op("Mov", "I64", <<d>>, <<s>>, NoArg)>>
Ld(d, cell) == <<Op("Ld", "I64", <<d>>, <<Env>>, cell)>>
St(v, cell) == <<Op("St", "I64", <<>>, <<v, Env>>, cell)>>
QemuLd(d, addr, memop) == <<Op("QemuLd", "I64", <<d>>, <<addr>>, Field(memop))>>
QemuSt(v, addr, memop) ==
    <<Op("QemuSt", "I64", <<>>, <<v, addr>>, Field(memop))>>
Extrl(d, s) == <<Op("ExtrlI64I32", "I32", <<d>>, <<s>>, NoArg)>>
Ext32(d, s) == <<Op("ExtI32I64", "I64", <<d>>, <<s>>, NoArg)>>
MovCond(ty, d, c1, c2, v1, v2) ==
    <<Op("MovCond", ty, <<d>>, <<c1, c2, v1, v2>>, Field("Eq"))>>
ExitTb(val) == <<Op("ExitTb", "I64", <<>>, <<>>, Field(val))>>
GotoTb(slot) == <<Op("GotoTb", "I64", <<>>, <<>>, <<"slot", slot, 0>>)>>
Mb(bit) == IF bit # 0 THEN <<Op("Mb", "I64", <<>>, <<>>, NoArg)>> ELSE <<>>

Unary(opc, ty, d, s) == <<Op(opc, ty, <<d>>, <<s>>, NoArg)>>
Carry(opc, ty, d, a, b) == Bin(opc, ty, d, a, b)
CondOp(opc, ty, d, a, b, cond) == <<Op(opc, ty, <<d>>, <<a, b>>, Field(cond))>>
BrCond(ty, a, b, cond, label) ==
    <<Op("BrCond", ty, <<>>, <<a, b>>, <<cond, label, 0>>)>>

\* Offset, length and flags of a bit field or a byte swap
Extract(opc, ty, d, s, ofs, len) == <<Op(opc, ty, <<d>>, <<s>>, <<"", ofs, len>>)>>
Deposit(ty, d, a, b, ofs, len) ==
    <<Op("Deposit", ty, <<d>>, <<a, b>>, <<"", ofs, len>>)>>
Extract2(ty, d, al, ah, ofs) ==
    <<Op("Extract2", ty, <<d>>, <<al, ah>>, <<"", ofs, 0>>)>>
Bswap(opc, ty, d, s, flags) == <<Op(opc, ty, <<d>>, <<s>>, <<"", flags, 0>>)>>

SizedLoad(opc, ty, d, place) == <<Op(opc, ty, <<d>>, <<Env>>, place)>>
SizedStore(opc, ty, v, place) == <<Op(opc, ty, <<>>, <<v, Env>>, place)>>

JumpPtr(ptr) == <<Op("GotoPtr", "I64", <<>>, <<ptr>>, NoArg)>>

=============================================================================
