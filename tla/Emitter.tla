------------------------------ MODULE Emitter ------------------------------
(***************************************************************************)
(* The bytes of an instruction: Encode is what the functions of emitter.rs *)
(* write into the code buffer, Decode what x86-64 reads there.  An         *)
(* immediate or displacement of several bytes is its value in the first of *)
(* its places and Filler in the others.                                    *)
(***************************************************************************)
EXTENDS Codegen

Filler == -9
Field4(v) == <<v, Filler, Filler, Filler>>
Field8(v) == Field4(v) \o [k \in 1 .. 4 |-> Filler]

(***************************************************************************)
(* The OPC_* constants                                                     *)
(***************************************************************************)
OpcByte == [
    ARITH_EvIb |-> 131, ARITH_EvIz |-> 129, ARITH_GvEv |-> 3, ARITH_EvGv |-> 1,
    SHIFT_1 |-> 209, SHIFT_Ib |-> 193, SHIFTW_Ib |-> 193, SHIFT_cl |-> 211,
    MOVB_EvGv |-> 136, MOVL_EvGv |-> 137, MOVW_EvGv |-> 137, MOVL_GvEv |-> 139,
    MOVL_EvIz |-> 199, MOVL_Iv |-> 184, MOVZBL |-> 182, MOVZBL_REXB |-> 182,
    MOVZWL |-> 183, MOVSBL |-> 190, MOVSWL |-> 191, MOVSLQ |-> 99,
    JCC_long |-> 128, JMP_long |-> 233, LZCNT |-> 189, TZCNT |-> 188,
    POPCNT |-> 184, BSWAP |-> 200, ANDN |-> 242, CMOVCC |-> 64, SETCC |-> 144,
    TESTL |-> 133, GRP3_Ev |-> 247, GRP5 |-> 255, IMUL_GvEv |-> 175,
    LEA |-> 141, PUSH_r32 |-> 80, POP_r32 |-> 88, RET |-> 195,
    SHRD_Ib |-> 172, STC |-> 249]
P_EXT == {"MOVZBL", "MOVZBL_REXB", "MOVZWL", "MOVSBL", "MOVSWL", "JCC_long",
          "LZCNT", "TZCNT", "POPCNT", "BSWAP", "CMOVCC", "SETCC", "IMUL_GvEv",
          "SHRD_Ib"}
P_DATA16 == {"MOVW_EvGv", "SHIFTW_Ib"}
P_SIMDF3 == {"LZCNT", "TZCNT", "POPCNT"}
P_REXB_R == {"MOVB_EvGv"}
P_REXB_RM == {"SETCC", "MOVZBL_REXB"}

low3(q) == q % 8

\* The opcode byte with the sub-opcode or the register added to it
OpcodeByte(x) ==
    OpcByte[x.opc] +
    CASE x.opc \in {"ARITH_GvEv", "ARITH_EvGv"} -> 8 * x.n
      [] x.opc \in {"JCC_long", "CMOVCC", "SETCC"} -> x.n
      [] x.opc \in {"MOVL_Iv", "BSWAP", "PUSH_r32", "POP_r32"} -> low3(x.rm)
      [] OTHER -> 0

Rex(x) ==
    (IF x.w THEN 8 ELSE 0) + (IF x.r >= 8 THEN 4 ELSE 0)
    + (IF x.mode = "sib" /\ x.idx >= 8 THEN 2 ELSE 0) + (IF x.rm >= 8 THEN 1 ELSE 0)

\* Wrong: no prefix for the sake of a byte register
ForcedRex_never(x) == FALSE

\* A byte register needs a REX prefix from the fourth on.
ForcedRex(x) ==
    \/ x.opc \in P_REXB_R /\ x.r >= 4
    \/ (x.opc \in P_REXB_RM \/ (x.opc = "MOVB_EvGv" /\ x.mode = "reg")) /\ x.rm >= 4

emit_opc(x) ==
    (IF x.opc \in P_DATA16 THEN <<102>> ELSE <<>>)
    \o (IF x.opc \in P_SIMDF3 THEN <<243>> ELSE <<>>)
    \o (IF Rex(x) # 0 \/ ForcedRex(x) THEN <<64 + Rex(x)>> ELSE <<>>)
    \o (IF x.opc \in P_EXT THEN <<15>> ELSE <<>>)
    \o <<OpcodeByte(x)>>

\* ModR/M, SIB and displacement of [base + disp].  R12 and RSP as a base need
\* a SIB byte, R13 and RBP a displacement.
emit_modrm_offset(x) ==
    LET r3 == low3(x.r) * 8
        b3 == low3(x.rm)
        rm == IF b3 = 4 THEN <<4, 36>> ELSE <<b3>>
        At(mod) == <<64 * mod + r3 + rm[1]>> \o Tail(rm)
    IN  CASE x.disp = 0 /\ b3 # 5 -> At(0)
          [] (x.disp # 0 \/ b3 = 5) /\ x.disp \in -128 .. 127 ->
               At(1) \o <<x.disp % 256>>
          [] x.disp \notin -128 .. 127 -> At(2) \o Field4(x.disp)

\* [base + index], scale 1; no caller has a displacement
emit_modrm_sib(x) ==
    LET sib == low3(x.idx) * 8 + low3(x.rm)
    IN  IF low3(x.rm) # 5 THEN <<low3(x.r) * 8 + 4, sib>>
        ELSE <<64 + low3(x.r) * 8 + 4, sib, 0>>

emit_modrm(x) == CASE x.mode = "reg"  -> <<192 + low3(x.r) * 8 + low3(x.rm)>>
                   [] x.mode = "mem"  -> emit_modrm_offset(x)
                   [] x.mode = "sib"  -> emit_modrm_sib(x)
                   [] x.mode = "none" -> <<>>

\* Inverted register bits; the map is 0F38, and neither 66, F3 nor F2 is set.
emit_vex_modrm(x) ==
    <<196, (IF x.r >= 8 THEN 0 ELSE 128) + 64 + (IF x.rm >= 8 THEN 0 ELSE 32) + 2,
      (IF x.w THEN 128 ELSE 0) + (15 - x.idx) * 8, OpcByte[x.opc],
      192 + low3(x.r) * 8 + low3(x.rm)>>

ImmBytes(x) ==
    CASE x.opc \in {"ARITH_EvIb", "SHIFT_Ib", "SHIFTW_Ib", "SHRD_Ib"} ->
           <<x.imm % 256>>
      [] x.opc \in {"ARITH_EvIz", "MOVL_EvIz", "JCC_long", "JMP_long"} ->
           Field4(x.imm)
      [] x.opc = "MOVL_Iv" -> IF x.w THEN Field8(x.imm) ELSE Field4(x.imm)
      [] OTHER -> <<>>

emit_nops == <<<<144>>, <<102, 144>>, <<15, 31, 0>>>>

Encode(x) == CASE x.opc = "NOP"    -> emit_nops[x.n]
               [] x.opc = "MFENCE" -> <<15, 174, 240>>
               [] x.opc = "ANDN"   -> emit_vex_modrm(x)
               [] OTHER -> emit_opc(x) \o emit_modrm(x) \o ImmBytes(x)

(***************************************************************************)
(* x86-64                                                                  *)
(***************************************************************************)
\* What an opcode is: its name and sub-opcode, whether a ModR/M byte follows
\* or a register is in its low bits, and how many bytes of immediate follow
Known(opc, n, form, imm) == [opc |-> opc, n |-> n, form |-> form, imm |-> imm]

OneByte(o, pre, w) ==
    CASE o < 64 /\ o % 8 = 3 -> Known("ARITH_GvEv", o \div 8, "modrm", 0)
      [] o < 64 /\ o % 8 = 1 -> Known("ARITH_EvGv", o \div 8, "modrm", 0)
      [] o \in 80 .. 87  -> Known("PUSH_r32", 0, "plus", 0)
      [] o \in 88 .. 95  -> Known("POP_r32", 0, "plus", 0)
      [] o = 99  -> Known("MOVSLQ", 0, "modrm", 0)
      [] o = 129 -> Known("ARITH_EvIz", 0, "modrm", 4)
      [] o = 131 -> Known("ARITH_EvIb", 0, "modrm", 1)
      [] o = 133 -> Known("TESTL", 0, "modrm", 0)
      [] o = 136 -> Known("MOVB_EvGv", 0, "modrm", 0)
      [] o = 137 -> Known(IF pre = 102 THEN "MOVW_EvGv" ELSE "MOVL_EvGv", 0, "modrm", 0)
      [] o = 139 -> Known("MOVL_GvEv", 0, "modrm", 0)
      [] o = 141 -> Known("LEA", 0, "modrm", 0)
      [] o = 144 -> Known("NOP", IF pre = 102 THEN 2 ELSE 1, "none", 0)
      [] o \in 184 .. 191 -> Known("MOVL_Iv", 0, "plus", IF w THEN 8 ELSE 4)
      [] o = 193 -> Known(IF pre = 102 THEN "SHIFTW_Ib" ELSE "SHIFT_Ib", 0, "modrm", 1)
      [] o = 195 -> Known("RET", 0, "none", 0)
      [] o = 199 -> Known("MOVL_EvIz", 0, "modrm", 4)
      [] o = 209 -> Known("SHIFT_1", 0, "modrm", 0)
      [] o = 211 -> Known("SHIFT_cl", 0, "modrm", 0)
      [] o = 233 -> Known("JMP_long", 0, "none", 4)
      [] o = 247 -> Known("GRP3_Ev", 0, "modrm", 0)
      [] o = 249 -> Known("STC", 0, "none", 0)
      [] o = 255 -> Known("GRP5", 0, "modrm", 0)

\* Behind 0F.  Without F3, BC and BD are bit scans.
TwoByte(o, pre) ==
    CASE o = 31 -> Known("NOP", 3, "skip", 0)
      [] o \in 64 .. 79   -> Known("CMOVCC", o - 64, "modrm", 0)
      [] o \in 128 .. 143 -> Known("JCC_long", o - 128, "none", 4)
      [] o \in 144 .. 159 -> Known("SETCC", o - 144, "modrm", 0)
      [] o = 172 -> Known("SHRD_Ib", 0, "modrm", 1)
      [] o = 174 -> Known("MFENCE", 0, "skip", 0)
      [] o = 175 -> Known("IMUL_GvEv", 0, "modrm", 0)
      [] o = 182 -> Known("MOVZBL", 0, "modrm", 0)
      [] o = 183 -> Known("MOVZWL", 0, "modrm", 0)
      [] o = 190 -> Known("MOVSBL", 0, "modrm", 0)
      [] o = 191 -> Known("MOVSWL", 0, "modrm", 0)
      [] o \in 200 .. 207 -> Known("BSWAP", 0, "plus", 0)
      [] o = 184 /\ pre = 243 -> Known("POPCNT", 0, "modrm", 0)
      [] o = 188 -> Known(IF pre = 243 THEN "TZCNT" ELSE "BSF", 0, "modrm", 0)
      [] o = 189 -> Known(IF pre = 243 THEN "LZCNT" ELSE "BSR", 0, "modrm", 0)

Bit(v, k) == (v \div 2^k) % 2

\* Without a REX prefix the byte registers from the fourth on are AH to BH.
ByteReg(q, rex) == IF rex = 0 /\ q \in 4 .. 7 THEN q + 16 ELSE q

\* A ModR/M byte at k: the instruction so far and the place behind it
ModRm(x, rex, b, k) ==
    LET mod == b[k] \div 64
        rm == b[k] % 8
        sib == mod # 3 /\ rm = 4
        base == IF sib THEN b[k + 1] % 8 ELSE rm
        idx == IF sib THEN ((b[k + 1] \div 8) % 8) + 8 * Bit(rex, 1) ELSE 0
        d == IF sib THEN k + 2 ELSE k + 1
        disp == CASE mod = 1 -> IF b[d] > 127 THEN b[d] - 256 ELSE b[d]
                  [] mod = 2 -> b[d]
                  [] mod \in {0, 3} -> 0
        mode == CASE mod = 3 -> "reg"
                  [] mod = 0 /\ base = 5 -> "absolute"
                  [] sib /\ idx # 4 -> "sib"
                  [] OTHER -> "mem"
        r == ((b[k] \div 8) % 8) + 8 * Bit(rex, 2)
        q == base + 8 * Bit(rex, 0)
    IN  [x |-> [x EXCEPT !.mode = mode, !.disp = disp,
                  !.r = IF x.opc = "MOVB_EvGv" THEN ByteReg(r, rex) ELSE r,
                  !.rm = IF mode = "reg"
                            /\ x.opc \in {"MOVB_EvGv", "MOVZBL", "MOVSBL", "SETCC"}
                         THEN ByteReg(q, rex) ELSE q,
                  !.idx = IF mode = "sib" THEN idx ELSE 0],
         at |-> d + CASE mod = 1 -> 1 [] mod = 2 -> 4 [] mod \in {0, 3} -> 0]

\* The immediate, and whether the instruction ends where its bytes do
Decoded(p, b, n) ==
    [x |-> CASE n = 0 -> p.x
             [] n = 1 -> [p.x EXCEPT !.imm = IF /\ p.x.opc = "ARITH_EvIb"
                                                /\ b[p.at] > 127
                                             THEN b[p.at] - 256 ELSE b[p.at]]
             [] n > 1 -> [p.x EXCEPT !.imm = b[p.at]],
     whole |-> p.at + n = Len(b) + 1]

\* Opcode o with the prefixes before it; k is the place behind it.
WithOpcode(known, o, rex, b, k) ==
    LET w == Bit(rex, 3) = 1
        x == Bare(known.opc, known.n, w, IF known.form = "plus"
                                         THEN (o % 8) + 8 * Bit(rex, 0) ELSE 0)
    IN  Decoded(CASE known.form = "modrm" -> ModRm(x, rex, b, k)
                  [] known.form = "skip"  -> [x |-> x, at |-> k + 1]
                  [] OTHER                -> [x |-> x, at |-> k], b, known.imm)

BehindRex(pre, rex, b, k) ==
    IF b[k] = 15 THEN WithOpcode(TwoByte(b[k + 1], pre), b[k + 1], rex, b, k + 2)
    ELSE WithOpcode(OneByte(b[k], pre, Bit(rex, 3) = 1), b[k], rex, b, k + 1)

BehindPrefix(pre, b, k) ==
    IF b[k] \in 64 .. 79 THEN BehindRex(pre, b[k], b, k + 1)
    ELSE BehindRex(pre, 0, b, k)

\* Three bytes of VEX: only ANDN, F2 of map 2, is used
Vex(b) ==
    LET rex == 8 * Bit(b[3], 7) + 4 * (1 - Bit(b[2], 7)) + (1 - Bit(b[2], 5))
        x == Insn(IF b[4] = 242 /\ b[2] % 32 = 2 /\ b[3] % 8 = 0
                  THEN "ANDN" ELSE "other", 0, Bit(rex, 3) = 1, 0, 0)
        p == ModRm(x, rex, b, 5)
    IN  Decoded([p EXCEPT !.x.idx = 15 - ((b[3] \div 8) % 16)], b, 0)

Decode(b) == CASE b[1] = 196 -> Vex(b)
               [] b[1] \in {102, 243} -> BehindPrefix(b[1], b, 2)
               [] OTHER -> BehindPrefix(0, b, 1)

\* The flag for byte registers is not part of an instruction.
Plain(x) == IF x.opc = "MOVZBL_REXB" THEN [x EXCEPT !.opc = "MOVZBL"] ELSE x

\* The bytes of an instruction are that instruction and no other.
Encodes(x) == Decode(Encode(x)) = [x |-> Plain(x), whole |-> TRUE]

=============================================================================
