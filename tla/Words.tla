------------------------------- MODULE Words -------------------------------
(***************************************************************************)
(* The integer types of the IR and what the x86-64 instructions of the     *)
(* backend compute on them.  An I32 has W bits and an I64 has 2 * W, so    *)
(* that every word of a small instance can be enumerated; the ratio of the *)
(* two widths is the one of the code.                                      *)
(***************************************************************************)
EXTENDS Integers
LOCAL INSTANCE Bitwise

CONSTANT W

ASSUME WAssumption == W \in Nat \ {0}

size_bits(ty) == IF ty = "I32" THEN W ELSE 2 * W

\* How many bits of an instance stand for n bits of the code
Bits(n) == (n * W) \div 32

Word == 0 .. 2^(2 * W) - 1

type_mask(ty) == 2^size_bits(ty) - 1

\* x & type_mask(ty), also for a negative x in two's complement
Low(x, ty) == x % 2^size_bits(ty)

\* v read as a two's complement number
Twos(v, ty) == IF 2 * v <= type_mask(ty) THEN v ELSE v - 2^size_bits(ty)
Signed(x, ty) == Twos(Low(x, ty), ty)

SignExtend(x, ty) == Low(Signed(x, ty), "I64")

\* Always and Never are left out: no op of the translator has them.
Cond == {"Eq", "Ne", "Lt", "Ge", "Le", "Gt",
         "Ltu", "Geu", "Leu", "Gtu", "TstEq", "TstNe"}

\* A condition on two numbers, s and t when they are signed
Compare(cond, a, b, s, t) ==
    CASE cond = "Eq"     -> a = b
      [] cond = "Ne"     -> a # b
      [] cond = "Lt"     -> s < t
      [] cond = "Ge"     -> s >= t
      [] cond = "Le"     -> s <= t
      [] cond = "Gt"     -> s > t
      [] cond = "Ltu"    -> a < b
      [] cond = "Geu"    -> a >= b
      [] cond = "Leu"    -> a <= b
      [] cond = "Gtu"    -> a > b
      [] cond = "TstEq"  -> a & b = 0
      [] cond = "TstNe"  -> a & b # 0

\* The flags of CMP (or TEST) on two registers, as setcc, jcc and cmovcc
\* read them.
Holds(cond, x, y, ty) ==
    Compare(cond, Low(x, ty), Low(y, ty), Signed(x, ty), Signed(y, ty))

Binary == {"Add", "Sub", "Mul", "And", "Or", "Xor", "AndC",
           "Shl", "Shr", "Sar", "RotL", "RotR"}

\* A two-operand ALU instruction of operand size ty.  The shifter takes its
\* count modulo the operand size.
Alu(opc, x, y, ty) ==
    LET a == Low(x, ty)  b == Low(y, ty)
        n == size_bits(ty)  sh == y % n
        Rotate(k) == (a * 2^k) + (a \div 2^(n - k))
        v == CASE opc = "Add"  -> a + b
               [] opc = "Sub"  -> a - b
               [] opc = "Mul"  -> a * b
               [] opc = "And"  -> a & b
               [] opc = "Or"   -> a | b
               [] opc = "Xor"  -> a ^^ b
               [] opc = "AndC" -> a - (a & b)
               [] opc = "Shl"  -> a * 2^sh
               [] opc = "Shr"  -> a \div 2^sh
               [] opc = "Sar"  -> Signed(a, ty) \div 2^sh
               [] opc = "RotL" -> Rotate(sh)
               [] opc = "RotR" -> Rotate(n - sh)
    IN  Low(v, ty)

=============================================================================
