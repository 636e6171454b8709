------------------------------ MODULE Optimize ------------------------------
(***************************************************************************)
(* The optimizer: one forward pass over the ops with what is known of each *)
(* temp.  info maps the temps something was recorded of to a TempInfo: the *)
(* value of a constant, or the temp it is a copy of.  OptStep is the body  *)
(* of the loop: the new info and the op as it is left.                     *)
(***************************************************************************)
EXTENDS Ir

TempInfo(c, v, of) == [is_const |-> c, val |-> v, copy_of |-> of]

\* ti(): constants are seeded, anything else starts unknown
ti(info, t) ==
    IF t \in DOMAIN info THEN info[t]
    ELSE IF is_const(t) THEN TempInfo(TRUE, t.id[2], NoTemp)
    ELSE TempInfo(FALSE, 0, NoTemp)

reset_copies(info) == [t \in DOMAIN info |-> [info[t] EXCEPT !.copy_of = NoTemp]]

\* dst is redefined: forget it and the copies of it
invalidate_one(info, dst) ==
    (dst :> TempInfo(FALSE, 0, NoTemp)) @@
    [t \in DOMAIN info |-> IF info[t].copy_of = dst
                           THEN [info[t] EXCEPT !.copy_of = NoTemp]
                           ELSE info[t]]

invalidate_outputs(info, o) ==
    CASE Len(o) = 0 -> info
      [] Len(o) = 1 -> invalidate_one(info, o[1])
      [] Len(o) = 2 -> invalidate_one(invalidate_one(info, o[1]), o[2])

set_const(info, dst, v) == (dst :> TempInfo(TRUE, v, NoTemp)) @@ info

set_copy(info, dst, src) == (dst :> TempInfo(FALSE, 0, src)) @@ info

replace_with_const(info, op, v, ty) ==
    LET masked == Low(v, ty)
    IN  [info |-> set_const(info, op.o[1], masked),
         op |-> Op("Mov", op.ty, op.o, <<Const(ty, masked)>>, NoArg)]

replace_with_mov(info, op, src) ==
    [info |-> invalidate_one(info, op.o[1]),
     op |-> Op("Mov", op.ty, op.o, <<src>>, NoArg)]

\* Wrong: what was known of the outputs is kept
Unfolded_stale(info, op) == [info |-> info, op |-> op]

Unfolded(info, op) == [info |-> invalidate_outputs(info, op.o), op |-> op]

fold_mov(info, op) ==
    LET si == ti(info, op.i[1])
    IN  [info |-> IF si.is_const THEN set_const(info, op.o[1], Low(si.val, op.ty))
                                 ELSE set_copy(info, op.o[1], op.i[1]),
         op |-> op]

fold_unary(info, op) ==
    LET si == ti(info, op.i[1])
    IN  IF ~si.is_const THEN Unfolded(info, op)
        ELSE replace_with_const(info, op,
               IF op.opc = "Neg" THEN -si.val ELSE -1 - si.val, op.ty)

fold_ext(info, op) ==
    LET si == ti(info, op.i[1])
        val == CASE op.opc = "ExtI32I64" -> SignExtend(si.val, "I32")
                 [] op.opc \in {"ExtUI32I64", "ExtrlI64I32"} ->
                      Low(si.val, "I32")
                 [] op.opc = "ExtrhI64I32" -> Low(si.val, "I64") \div 2^W
    IN  IF ~si.is_const THEN Unfolded(info, op)
        ELSE replace_with_const(info, op, val,
               IF op.opc \in {"ExtrlI64I32", "ExtrhI64I32"} THEN "I32" ELSE "I64")

\* Evaluation of a binary op on two constants, both below 2^size_bits(ty)
eval_binary(opc, a, b, ty) ==
    LET sh == b % size_bits(ty)
    IN  CASE opc = "Add" -> Low(a + b, ty)
          [] opc = "Sub" -> Low(a - b, ty)
          [] opc = "Mul" -> Low(a * b, ty)
          [] opc = "Shl" -> Low(a * 2^sh, ty)
          [] opc = "Shr" -> a \div 2^sh
          [] opc = "Sar" -> Low(Signed(a, ty) \div 2^sh, ty)
          [] OTHER -> Alu(opc, a, b, ty)

\* x op b for a constant b
SimplifyRight(info, op, a, b) ==
    LET ones == type_mask(op.ty)
    IN  CASE b = 0 /\ op.opc \in Binary \ {"Mul", "And", "AndC"} ->
               <<replace_with_mov(info, op, a)>>
          [] b = 0 /\ op.opc \in {"Mul", "And"} ->
               <<replace_with_const(info, op, 0, op.ty)>>
          [] b = 1 /\ op.opc = "Mul" -> <<replace_with_mov(info, op, a)>>
          [] b = ones /\ op.opc = "And" -> <<replace_with_mov(info, op, a)>>
          [] b = ones /\ op.opc = "Or" ->
               <<replace_with_const(info, op, ones, op.ty)>>
          [] b = ones /\ op.opc = "AndC" ->
               <<replace_with_const(info, op, 0, op.ty)>>
          [] OTHER -> <<>>

\* a op x for a constant a
SimplifyLeft(info, op, a, b) ==
    LET ones == type_mask(op.ty)
    IN  CASE a = 0 /\ op.opc = "Add" -> <<replace_with_mov(info, op, b)>>
          [] a = 0 /\ op.opc = "Sub" ->
               <<[info |-> invalidate_one(info, op.o[1]),
                  op |-> Op("Neg", op.ty, op.o, <<b>>, NoArg)]>>
          [] a = 0 /\ op.opc \in {"Mul", "And"} ->
               <<replace_with_const(info, op, 0, op.ty)>>
          [] a = ones /\ op.opc = "Or" ->
               <<replace_with_const(info, op, ones, op.ty)>>
          [] OTHER -> <<>>

\* The simplified op in a sequence of one, or none
try_simplify(info, op, ai, bi) ==
    LET right == IF bi.is_const
                 THEN SimplifyRight(info, op, op.i[1], Low(bi.val, op.ty))
                 ELSE <<>>
        left == IF ai.is_const
                THEN SimplifyLeft(info, op, Low(ai.val, op.ty), op.i[2])
                ELSE <<>>
    IN  IF right # <<>> THEN right ELSE left

fold_binary(info, op) ==
    LET ai == ti(info, op.i[1])
        bi == ti(info, op.i[2])
        simple == try_simplify(info, op, ai, bi)
    IN  CASE ai.is_const /\ bi.is_const ->
               replace_with_const(info, op,
                 eval_binary(op.opc, Low(ai.val, op.ty), Low(bi.val, op.ty),
                             op.ty), op.ty)
          [] ~(ai.is_const /\ bi.is_const) /\ simple # <<>> -> simple[1]
          [] OTHER ->
               IF op.i[1] # op.i[2] THEN Unfolded(info, op)
               ELSE CASE op.opc \in {"And", "Or"} ->
                           replace_with_mov(info, op, op.i[1])
                      [] op.opc \in {"Xor", "Sub"} ->
                           replace_with_const(info, op, 0, op.ty)
                      [] OTHER -> Unfolded(info, op)

\* eval_cond: signed conditions compare the values as I64
eval_cond(a, b, cond, ty) ==
    IF cond \in {"Lt", "Ge", "Le", "Gt"}
    THEN Holds(cond, Low(a, ty), Low(b, ty), "I64")
    ELSE Holds(cond, a, b, ty)

fold_brcond(info, op) ==
    LET ai == ti(info, op.i[1])
        bi == ti(info, op.i[2])
    IN  [info |-> info,
         op |-> CASE ~(ai.is_const /\ bi.is_const) -> op
                  [] eval_cond(ai.val, bi.val, op.c[1], op.ty) ->
                       Op("Br", op.ty, <<>>, <<>>, <<"label", op.c[2], 0>>)
                  [] OTHER -> Op("Nop", op.ty, <<>>, <<>>, NoArg)]

Boundary == {"SetLabel", "Br", "ExitTb", "GotoTb", "GotoPtr", "Call"}

OptStep(info, op) ==
    LET Source(t) == LET of == ti(info, t).copy_of
                     IN  IF of = NoTemp THEN t ELSE of
        p == [op EXCEPT !.i = [k \in DOMAIN op.i |-> Source(op.i[k])]]
    IN  CASE op.opc \in Boundary ->
               [info |-> reset_copies(invalidate_outputs(info, op.o)), op |-> op]
          [] op.opc \in SIDE_EFFECTS \cup {"Nop", "InsnStart"} ->
               Unfolded(info, op)
          [] op.opc = "Mov" -> fold_mov(info, p)
          [] op.opc \in {"Neg", "Not"} -> fold_unary(info, p)
          [] op.opc \in {"ExtI32I64", "ExtUI32I64", "ExtrlI64I32",
                         "ExtrhI64I32"} -> fold_ext(info, p)
          [] op.opc \in Binary -> fold_binary(info, p)
          [] op.opc = "BrCond" -> fold_brcond(info, p)
          [] OTHER -> Unfolded(info, p)

=============================================================================
