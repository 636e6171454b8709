------------------------------ MODULE RegAlloc ------------------------------
(***************************************************************************)
(* Register allocation and code generation: one forward pass over the ops. *)
(*                                                                         *)
(* ra is everything the pass changes: loc, the allocation state of the     *)
(* temps; own, reg_to_temp; free, free_regs; code, the host instructions   *)
(* emitted; at and uses, the labels' values and the jumps to patch; frame, *)
(* frame_alloc_end; and panic, set where the code would stop; pool is the  *)
(* set of allocatable registers.  A host instruction is an op whose        *)
(* arguments are register numbers; code positions stand for offsets.       *)
(***************************************************************************)
EXTENDS Liveness

CONSTANT FrameSize    \* bytes of the spill area

Regs == 0 .. 15
NoReg == 16
RAX == 0
RCX == 1
RDX == 2
RSP == 4
RBP == 5
RSI == 6
RDI == 7
CALLER_SAVED == <<0, 1, 2, 6, 7, 8, 9, 10, 11>>
ALLOCATABLE_REGS == Regs \ {RSP, RBP, 14}
CallArgRegs == <<RDI, RSI, RDX, RCX, 8, 9>>

NoSlot == -1
LocOf(vt, reg, coh, slot) ==
    [vt |-> vt, reg |-> reg, coh |-> coh, slot |-> slot]

\* Temp::new_global, new_fixed, new_const and new_ebb, as reset leaves them
NewLoc(t) == CASE t.kind = "Global" -> LocOf("Mem", NoReg, TRUE, NoSlot)
               [] t.kind = "Fixed"  -> LocOf("Reg", RBP, FALSE, NoSlot)
               [] t.kind = "Const"  -> LocOf("Const", NoReg, FALSE, NoSlot)
               [] t.kind = "Ebb"    -> LocOf("Dead", NoReg, FALSE, NoSlot)

Loc(ra, t) == IF t \in DOMAIN ra.loc THEN ra.loc[t] ELSE NewLoc(t)

SetLoc(ra, t, l) == [ra EXCEPT !.loc = (t :> l) @@ @]

RaInit(pool) ==
    [loc |-> [t \in AllGlobals |-> NewLoc(t)],
     own |-> [r \in Regs |-> IF r = RBP THEN Env ELSE NoTemp],
     free |-> pool, pool |-> pool, code |-> <<>>, at |-> <<>>, uses |-> {},
     frame |-> 0, panic |-> FALSE]

Emit(ra, insn) == [ra EXCEPT !.code = Append(@, insn)]

Panic(ra) == [ra EXCEPT !.panic = TRUE]

first(S) == CHOOSE r \in S : \A q \in S : r <= q

free_reg(ra, r) == [ra EXCEPT !.own[r] = NoTemp,
                              !.free = IF r \in ra.pool THEN @ \cup {r} ELSE @]

assign(ra, r, t) == [ra EXCEPT !.own[r] = t, !.free = @ \ {r}]

tcg_out_mov(ra, ty, d, s) ==
    IF d = s THEN ra ELSE Emit(ra, Op("Mov", ty, <<d>>, <<s>>, NoArg))

tcg_out_movi(ra, t, r) ==
    Emit(ra, Op("Movi", t.ty, <<r>>, <<>>, <<"imm", t.id[2], 0>>))

\* Whether t has a memory slot, the slot, and the register it is based on
mem_allocated(ra, t) == t.kind = "Global" \/ Loc(ra, t).slot # NoSlot
MemSlot(ra, t) ==
    IF t.kind = "Global" THEN t.id ELSE <<"frame", Loc(ra, t).slot, 0>>
MemBase(ra, t) == IF t.kind = "Global" THEN Loc(ra, Env).reg ELSE RSP

tcg_out_ld(ra, t, r) ==
    IF MemBase(ra, t) = NoReg THEN Panic(ra)
    ELSE Emit(ra, Op("Ld", t.ty, <<r>>, <<MemBase(ra, t)>>, MemSlot(ra, t)))

tcg_out_st(ra, t, r) ==
    IF MemBase(ra, t) = NoReg THEN Panic(ra)
    ELSE Emit(ra, Op("St", t.ty, <<>>, <<r, MemBase(ra, t)>>, MemSlot(ra, t)))

temp_sync(ra, t) ==
    LET l == Loc(ra, t)
    IN  IF l.coh \/ l.reg = NoReg \/ ~mem_allocated(ra, t) THEN ra
        ELSE tcg_out_st(ra, t, l.reg)

GlobalOrder == <<Env>> \o Globals

\* Apply step to the elements of a sequence in turn, until one panics
Each(step(_, _), ra, s) ==
    LET f[k \in 0 .. Len(s)] ==
            IF k = 0 THEN ra
            ELSE LET a == f[k - 1] IN IF a.panic THEN a ELSE step(a, s[k])
    IN  f[Len(s)]

sync_globals(ra) ==
    LET Sync(a, t) == IF Loc(a, t).vt = "Reg" /\ ~Loc(a, t).coh
                      THEN LET b == temp_sync(a, t)
                           IN  SetLoc(b, t, [Loc(b, t) EXCEPT !.coh = TRUE])
                      ELSE a
    IN  Each(Sync, ra, GlobalOrder)

alloc_temp_frame(ra, t) ==
    LET size == IF t.ty = "I32" THEN 4 ELSE 8
        offset == ((ra.frame + size - 1) \div size) * size
    IN  IF Loc(ra, t).slot # NoSlot THEN ra
        ELSE SetLoc([ra EXCEPT !.frame = offset + size,
                               !.panic = @ \/ offset + size > FrameSize],
                    t, [Loc(ra, t) EXCEPT !.slot = offset])

\* What an eviction writes back: a global to the CPU state, a local to the frame
Save(ra, t, r) ==
    IF is_global_or_fixed(t) THEN temp_sync(ra, t)
    ELSE tcg_out_st(alloc_temp_frame(ra, t), t, r)

InMemory(ra, t) == SetLoc(ra, t, LocOf("Mem", NoReg, TRUE, Loc(ra, t).slot))

\* Wrong: the temp is not told that it lost its register
evict_reg_untold(ra, r) ==
    IF ra.own[r] = NoTemp THEN ra ELSE free_reg(Save(ra, ra.own[r], r), r)

evict_reg(ra, r) ==
    IF ra.own[r] = NoTemp THEN ra
    ELSE free_reg(InMemory(Save(ra, ra.own[r], r), ra.own[r]), r)

\* The register and the state.  output_pref is never set, so there is no
\* preferred register.
reg_alloc(ra, required, forbidden) ==
    LET forced == required \cap ra.pool
        candidates == forced \ forbidden
        any_free == candidates \cap ra.free
        victim == first(IF candidates # {} THEN candidates ELSE forced)
    IN  CASE any_free # {} -> [r |-> first(any_free), ra |-> ra]
          [] any_free = {} /\ forced # {} ->
               [r |-> victim, ra |-> evict_reg(ra, victim)]
          [] forced = {} -> [r |-> NoReg, ra |-> Panic(ra)]

\* A temp in another register is moved; n is what reg_alloc returned.
MoveTo(t, cur, n) ==
    LET a == assign(free_reg(tcg_out_mov(n.ra, t.ty, n.r, cur), cur), n.r, t)
    IN  [r |-> n.r, ra |-> SetLoc(a, t, [Loc(n.ra, t) EXCEPT !.reg = n.r])]

\* A constant, or a temp in memory if it has any, is loaded.
LoadInto(t, l, n) ==
    LET held == assign(n.ra, n.r, t)
        Held(a, coh) ==
            SetLoc(a, t, LocOf("Reg", n.r, coh, Loc(n.ra, t).slot))
    IN  [r |-> n.r,
         ra |-> CASE l.vt = "Const" ->
                       Held(tcg_out_movi(held, t, n.r), Loc(n.ra, t).coh)
                  [] l.vt = "Mem" ->
                       Held(IF t.kind = "Global" \/ l.slot # NoSlot
                            THEN tcg_out_ld(held, t, n.r) ELSE held, TRUE)]

temp_load_to(ra, t, required, forbidden) ==
    LET l == Loc(ra, t)
    IN  CASE l.vt = "Reg" /\ l.reg \in required \ forbidden ->
               [r |-> l.reg, ra |-> ra]
          [] l.vt = "Reg" /\ l.reg \notin required \ forbidden ->
               MoveTo(t, l.reg, reg_alloc(ra, required, forbidden))
          [] l.vt \in {"Const", "Mem"} ->
               LoadInto(t, l, reg_alloc(ra, required, forbidden))
          [] l.vt = "Dead" -> [r |-> NoReg, ra |-> Panic(ra)]

Kill(ra, t) == SetLoc(ra, t, [Loc(ra, t) EXCEPT !.vt = "Dead", !.reg = NoReg])

temp_dead(ra, t) ==
    LET r == Loc(ra, t).reg
    IN  IF is_global_or_fixed(t) THEN ra
        ELSE Kill(IF r # NoReg THEN free_reg(ra, r) ELSE ra, t)

temp_dead_input(ra, t) ==
    LET r == Loc(ra, t).reg
    IN  IF is_global_or_fixed(t) THEN ra
        ELSE Kill(IF r # NoReg /\ ra.own[r] = t THEN free_reg(ra, r) ELSE ra, t)

(***************************************************************************)
(* The register constraints of x86-64.  An output has the registers it may *)
(* be in, the input it aliases (0 for none) and newreg; an input has its   *)
(* registers and ialias.                                                   *)
(***************************************************************************)
Out(regs, alias, newreg) == [regs |-> regs, alias |-> alias, newreg |-> newreg]
In(regs, ialias) == [regs |-> regs, ialias |-> ialias]

op_constraint(opc, pool) ==
    LET R == pool
        any == In(R, FALSE)
        noRcx == R \ {RCX}
        noMul == R \ {RAX, RDX}
    IN
    CASE opc \in {"Add", "AndC"} ->
           [o |-> <<Out(R, 0, FALSE)>>, i |-> <<any, any>>]
      [] opc \in {"Sub", "Mul", "And", "Or", "Xor", "Deposit", "Extract2"}
                 \cup CarryOps ->
           [o |-> <<Out(R, 1, FALSE)>>, i |-> <<In(R, TRUE), any>>]
      [] opc \in {"Neg", "Not", "Bswap16", "Bswap32", "Bswap64", "ExtrhI64I32"} ->
           [o |-> <<Out(R, 1, FALSE)>>, i |-> <<In(R, TRUE)>>]
      [] opc \in {"Shl", "Shr", "Sar", "RotL", "RotR"} ->
           [o |-> <<Out(noRcx, 1, FALSE)>>,
            i |-> <<In(noRcx, TRUE), In({RCX}, FALSE)>>]
      [] opc \in {"SetCond", "NegSetCond", "Clz", "Ctz"} ->
           [o |-> <<Out(R, 0, TRUE)>>, i |-> <<any, any>>]
      [] opc = "MovCond" ->
           [o |-> <<Out(R, 3, FALSE)>>, i |-> <<any, any, In(R, TRUE), any>>]
      [] opc \in {"MulS2", "MulU2"} ->
           [o |-> <<Out({RAX}, 1, FALSE), Out({RDX}, 0, FALSE)>>,
            i |-> <<In({RAX}, TRUE), In(noMul, FALSE)>>]
      [] opc \in {"DivS2", "DivU2"} ->
           [o |-> <<Out({RAX}, 1, FALSE), Out({RDX}, 2, FALSE)>>,
            i |-> <<In({RAX}, TRUE), In({RDX}, TRUE), In(noMul, FALSE)>>]
      [] opc \in {"BrCond", "QemuSt"} \cup DOMAIN StSize ->
           [o |-> <<>>, i |-> <<any, any>>]
      [] opc = "GotoPtr" -> [o |-> <<>>, i |-> <<any>>]
      [] opc \in {"QemuLd", "ExtI32I64", "ExtUI32I64", "ExtrlI64I32",
                  "Extract", "SExtract", "CtPop"} \cup DOMAIN LdSize ->
           [o |-> <<Out(R, 0, FALSE)>>, i |-> <<any>>]

(***************************************************************************)
(* regalloc_op                                                             *)
(***************************************************************************)
\* 1. the inputs, left to right: the state, the registers, and the fixed
\* temps moved out of their home register
AddInput(p, t, n) ==
    [ra |-> n.ra, regs |-> Append(p.regs, n.r),
     moves |-> IF is_fixed(t) /\ Loc(p.ra, t).reg # n.r
               THEN p.moves \cup {<<t, Loc(p.ra, t).reg, n.r>>}
               ELSE p.moves]

LoadInputs(ra, op, ct) ==
    LET Used(regs) == {regs[j] : j \in DOMAIN regs}
        f[k \in 0 .. Len(op.i)] ==
            IF k = 0 THEN [ra |-> ra, regs |-> <<>>, moves |-> {}]
            ELSE LET p == f[k - 1]
                 IN  AddInput(p, op.i[k], temp_load_to(p.ra, op.i[k],
                                            ct.i[k].regs, Used(p.regs)))
    IN  f[Len(op.i)]

\* The registers the inputs are in now
Reread(ra, op, regs) ==
    [k \in DOMAIN op.i |-> IF Loc(ra, op.i[k]).vt = "Reg"
                           THEN Loc(ra, op.i[k]).reg ELSE regs[k]]

\* A live input is copied to the register of n; its own, r, is the output's.
CopyAway(src, r, n) ==
    LET a == assign(tcg_out_mov(n.ra, src.ty, n.r, r), n.r, src)
    IN  [r |-> r, ra |-> SetLoc(a, src, [Loc(n.ra, src) EXCEPT !.reg = n.r])]

AddOutput(p, t, n) ==
    [ra |-> SetLoc(assign(n.ra, n.r, t), t,
                   LocOf("Reg", n.r, FALSE, Loc(n.ra, t).slot)),
     regs |-> Append(p.regs, n.r)]

\* 2. the outputs: an alias takes the register of its input
AllocOutputs(ra0, op, ct, iregs, reusable) ==
    LET i_allocated == {iregs[k] : k \in {j \in DOMAIN op.i :
                                            Loc(ra0, op.i[j]).vt = "Reg"}}
        Choose(ra, c, done) ==
            CASE c.alias # 0 /\ c.alias \in reusable ->
                   [r |-> iregs[c.alias], ra |-> ra]
              [] c.alias # 0 /\ c.alias \notin reusable ->
                   CopyAway(op.i[c.alias], iregs[c.alias],
                            reg_alloc(ra, ra.pool, i_allocated \cup done))
              [] c.alias = 0 ->
                   reg_alloc(ra, c.regs, IF c.newreg THEN i_allocated \cup done
                                         ELSE done)
        f[k \in 0 .. Len(op.o)] ==
            IF k = 0 THEN [ra |-> ra0, regs |-> <<>>]
            ELSE LET p == f[k - 1]
                 IN  AddOutput(p, op.o[k],
                       Choose(p.ra, ct.o[k], {p.regs[j] : j \in 1 .. k - 1}))
    IN  f[Len(op.o)]

\* Wrong: a fixed temp stays in the register it was moved to
RestoreFixed_skipped(ra, moves) == ra

\* 6. restore the fixed temps
RestoreFixed(ra, moves) ==
    IF moves = {} THEN ra
    ELSE LET m == CHOOSE x \in moves : TRUE
             a == assign(SetLoc(ra, m[1], [Loc(ra, m[1]) EXCEPT
                                             !.vt = "Reg", !.reg = m[2]]),
                         m[2], m[1])
         IN  IF a.own[m[3]] = m[1] THEN free_reg(a, m[3]) ELSE a

\* 5. to 8. free the dead inputs, restore, free the dead outputs and sync
Finish(emitted, op, life, moves) ==
    LET no == Len(op.o)
        FreeInput(a, k) == IF no + k \in life.dead
                              /\ \A j \in 1 .. no : op.o[j] # op.i[k]
                           THEN temp_dead_input(a, op.i[k]) ELSE a
        FreeOutput(a, k) == IF k \in life.dead THEN temp_dead(a, op.o[k]) ELSE a
        Coherent(a, t) == SetLoc(a, t, [Loc(a, t) EXCEPT !.coh = TRUE])
        SyncInput(a, k) ==
            IF no + k \in life.sync
            THEN Coherent(temp_sync(a, op.i[k]), op.i[k]) ELSE a
        ks == [k \in DOMAIN op.i |-> k]
    IN  Each(SyncInput,
          Each(FreeOutput,
            RestoreFixed(Each(FreeInput, emitted, ks), moves),
            [k \in DOMAIN op.o |-> k]), ks)

\* 3. and 4. emit the instruction, with the inputs where they are by now
EmitOp(outs, op, life, iregs, moves) ==
    IF outs.ra.panic THEN outs.ra
    ELSE Finish(Emit(outs.ra, Op(op.opc, op.ty, outs.regs,
                                 Reread(outs.ra, op, iregs), op.c)),
                op, life, moves)

WithInputs(ins, op, life, ct, iregs) ==
    LET reusable == {k \in DOMAIN op.i : /\ ct.i[k].ialias
                                         /\ Len(op.o) + k \in life.dead
                                         /\ op.i[k].kind = "Ebb"}
    IN  IF ins.ra.panic THEN ins.ra
        ELSE EmitOp(AllocOutputs(ins.ra, op, ct, iregs, reusable),
                    op, life, iregs, ins.moves)

Fixup(ins, op, life, ct) ==
    WithInputs(ins, op, life, ct, Reread(ins.ra, op, ins.regs))

regalloc_op(ra, op, life) ==
    LET ct == op_constraint(op.opc, ra.pool)
    IN  Fixup(LoadInputs(ra, op, ct), op, life, ct)

(***************************************************************************)
(* regalloc_call                                                           *)
(***************************************************************************)
regalloc_call(ra, op, life) ==
    LET Spill(a, r) == IF a.own[r] # NoTemp /\ ~is_global_or_fixed(a.own[r])
                       THEN evict_reg(a, r) ELSE a
        LoadArg(a, k) ==
            LET t == op.i[k]
                l == Loc(a, t)
                r == CallArgRegs[k]
            IN  CASE l.vt = "Reg" -> tcg_out_mov(a, t.ty, r, l.reg)
                  [] l.vt = "Const" -> tcg_out_movi(a, t, r)
                  [] l.vt = "Mem" ->
                       IF mem_allocated(a, t) THEN tcg_out_ld(a, t, r) ELSE a
                  [] l.vt = "Dead" -> tcg_out_movi(a, Const(t.ty, 0), r)
        FreeArg(a, k) == IF 1 + k \in life.dead THEN temp_dead_input(a, op.i[k])
                         ELSE a
        Clobber(a, r) ==
            LET t == a.own[r]
            IN  IF t = NoTemp THEN a
                ELSE free_reg(IF is_global_or_fixed(t)
                              THEN SetLoc(a, t, LocOf("Mem", NoReg, TRUE, NoSlot))
                              ELSE a, r)
        ks == [k \in 1 .. 6 |-> k]
        spilled == Each(Spill, sync_globals(ra), CALLER_SAVED)
        freed == Each(FreeArg, Each(LoadArg, spilled, ks), ks)
        called == Emit(Each(Clobber, freed, CALLER_SAVED),
                       Op("Call", op.ty, <<RAX>>, CallArgRegs, op.c))
        done == SetLoc(assign(called, RAX, op.o[1]), op.o[1],
                       LocOf("Reg", RAX, FALSE, Loc(called, op.o[1]).slot))
    IN  IF 1 \in life.dead THEN temp_dead(done, op.o[1]) ELSE done

(***************************************************************************)
(* The arms of the main loop                                               *)
(***************************************************************************)
\* The source is in s.r; the register of the destination is chosen in n.
MovTo(n, s, op, life) ==
    LET a == SetLoc(assign(n.ra, n.r, op.o[1]), op.o[1],
                    LocOf("Reg", n.r, FALSE, Loc(n.ra, op.o[1]).slot))
        Dead(b) == IF 1 \in life.dead THEN temp_dead(b, op.o[1]) ELSE b
    IN  Dead(tcg_out_mov(a, op.ty, n.r, s.r))

MovFrom(s, op, life) ==
    IF s.ra.panic THEN s.ra
    ELSE MovTo(reg_alloc(IF 2 \in life.dead THEN temp_dead(s.ra, op.i[1])
                         ELSE s.ra, s.ra.pool, {}), s, op, life)

regalloc_mov(ra, op, life) ==
    MovFrom(temp_load_to(ra, op.i[1], ra.pool, {}), op, life)

LabelPos(ra, label) == IF label \in DOMAIN ra.at THEN ra.at[label] ELSE 0

\* Emit a jump to label n: its target is 0 until it is patched
EmitJump(ra, insn, n) ==
    LET to == LabelPos(ra, n)
    IN  [Emit(ra, [insn EXCEPT !.c[3] = to]) EXCEPT
           !.uses = IF to = 0 THEN @ \cup {<<n, Len(ra.code) + 1>>} ELSE @]

FreeBoth(ra, op, life) ==
    LET FreeInput(a, k) == IF k \in life.dead THEN temp_dead(a, op.i[k]) ELSE a
    IN  Each(FreeInput, ra, <<1, 2>>)

CondJump(op, regs) == Op("BrCond", op.ty, <<>>, regs, op.c)

BranchOn(i, op, life) ==
    IF i.ra.panic THEN i.ra
    ELSE EmitJump(sync_globals(FreeBoth(i.ra, op, life)),
                  CondJump(op, i.regs), op.c[2])

\* Wrong: the globals are synced behind the jump
regalloc_brcond_late(ra, op, life) ==
    LET i == LoadInputs(ra, op, op_constraint("BrCond", ra.pool))
    IN  sync_globals(EmitJump(FreeBoth(i.ra, op, life),
                              CondJump(op, i.regs), op.c[2]))

regalloc_brcond(ra, op, life) ==
    BranchOn(LoadInputs(ra, op, op_constraint("BrCond", ra.pool)), op, life)

\* Give the label its value and patch the jumps to it
SetLabel(ra, n) ==
    LET here == Len(ra.code) + 1
        mine == {u \in ra.uses : u[1] = n}
    IN  [ra EXCEPT !.at = (n :> here) @@ @,
                   !.uses = @ \ mine,
                   !.code = [k \in DOMAIN @ |->
                               IF \E u \in mine : u[2] = k
                               THEN [@[k] EXCEPT !.c[3] = here] ELSE @[k]]]

\* The jump through a register, with the globals written back before it
GotoPtr(n, op, life) ==
    IF n.ra.panic THEN n.ra
    ELSE Emit(sync_globals(IF 1 \in life.dead THEN temp_dead(n.ra, op.i[1])
                           ELSE n.ra),
              Op("GotoPtr", "I64", <<>>, <<n.r>>, NoArg))

regalloc_goto_ptr(ra, op, life) ==
    GotoPtr(temp_load_to(ra, op.i[1], ra.pool, {}), op, life)

\* Wrong: what a jump that is not patched falls through to writes them back
BlockEnd_late(ra, op) ==
    Emit(IF op.opc = "GotoTb" THEN ra ELSE sync_globals(ra),
         Op(op.opc, "I64", <<>>, <<>>, op.c))

\* exit_tb and goto_tb: the globals are in memory before either jump.
BlockEnd(ra, op) ==
    Emit(sync_globals(ra), Op(op.opc, "I64", <<>>, <<>>, op.c))

RaStep(ra, op, life) ==
    CASE op.opc \in {"Nop", "InsnStart"} -> ra
      [] op.opc = "Mov" -> regalloc_mov(ra, op, life)
      [] op.opc = "SetLabel" -> SetLabel(sync_globals(ra), op.c[2])
      [] op.opc = "Br" ->
           EmitJump(sync_globals(ra), Op("Br", "I64", <<>>, <<>>, op.c), op.c[2])
      [] op.opc \in {"ExitTb", "GotoTb"} -> BlockEnd(ra, op)
      [] op.opc = "Call" -> regalloc_call(ra, op, life)
      [] op.opc = "GotoPtr" -> regalloc_goto_ptr(ra, op, life)
      [] op.opc = "Mb" -> Emit(ra, Op("Mb", "I64", <<>>, <<>>, NoArg))
      [] op.opc = "BrCond" -> regalloc_brcond(ra, op, life)
      [] OTHER -> regalloc_op(ra, op, life)

=============================================================================
