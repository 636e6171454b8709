--------------------------- MODULE TbInvalidateSteps -------------------------
(***************************************************************************)
(* Invalidation while the vCPUs run: every step keeps the engine's         *)
(* inductive invariant and that of the invalidations (InvInv), and the     *)
(* steps of the vCPUs keep what a lone invalidation relies on (QuietInv).  *)
(***************************************************************************)
EXTENDS TbInvalidateInv, TbCacheEdges

-----------------------------------------------------------------------------
(* IInv is kept by the steps of invalidate, at any time. *)

\* What the steps of an invalidation do to the engine: a published TB may get
\* its flag, a flagged one may leave the hash table, jumps may be reset, and
\* jmp_dest and jmp_list may change in any way.
InvalidatorEffect ==
    /\ UNCHANGED <<len, tb_key, host_offset, exit_target, jmp_lock,
                   buf_offset, lockVars, cpuVars>>
    /\ published' \in [Idx -> BOOLEAN] /\ invalid' \in [Idx -> BOOLEAN]
    /\ jmp_dest' \in [Idx -> [Slots -> Idx \cup {None}]]
    /\ jmp_list' \in [Idx -> [Edges -> Nat]]
    /\ host_jmp' \in [Idx -> [Slots -> Nat \cup {Reset}]]
    /\ \A i \in Idx : /\ published'[i] => published[i]
                      /\ published[i] => published'[i] \/ invalid'[i]
                      /\ invalid[i] => invalid'[i]
                      /\ invalid'[i] => invalid[i] \/ published[i]
    /\ \A i \in Idx, s \in Slots : host_jmp'[i][s] \in {Reset, host_jmp[i][s]}

\* Such a step keeps IInv: it takes away what a thread may find, and nothing a
\* thread already relies on.
LEMMA EffectIInv == ASSUME IInv, InvalidatorEffect PROVE IInv'
<1>1. UNCHANGED <<len, tb_key, host_offset, exit_target, jmp_lock, buf_offset,
                  translate_lock, poisoned, gpc, loc, jump_cache, why, tb_idx, src_tb,
                  slot, at>>
  BY DEF InvalidatorEffect, lockVars, cpuVars
<1>2. \A i \in Idx : Emitted(i)' <=> Emitted(i)
  BY <1>1 DEF Emitted
<1>3. \A t \in Threads : Building(t)' <=> Building(t)
  BY <1>1 DEF Building
<1>4. TypeOK'
  <2>1. StoreTypeOK'
    BY <1>1 DEF IInv, TypeOK, StoreTypeOK, InvalidatorEffect
  <2>2. ChainTypeOK'
    BY <1>1 DEF IInv, TypeOK, ChainTypeOK, InvalidatorEffect
  <2>3. LockTypeOK' /\ CpuTypeOK' /\ LocalTypeOK'
    BY <1>1 DEF IInv, TypeOK, LockTypeOK, CpuTypeOK, LocalTypeOK
  <2>4. QED
    BY <2>1, <2>2, <2>3 DEF TypeOK
<1>5. StoreInv'
  <2> SUFFICES ASSUME NEW i \in Idx
               PROVE  /\ i >= len => ~published'[i] /\ ~invalid'[i] /\ ~Emitted(i)
                      /\ i < len => /\ tb_key[i] \in Keys
                                    /\ \/ published'[i] \/ invalid'[i]
                                       \/ poisoned
                                       \/ \E t \in Threads : Building(t) /\ tb_idx[t] = i
                      /\ published'[i] => Emitted(i)
    BY <1>1, <1>2, <1>3 DEF StoreInv
  <2>1. /\ published'[i] => published[i]
        /\ published[i] => published'[i] \/ invalid'[i]
        /\ invalid[i] => invalid'[i]
        /\ invalid'[i] => invalid[i] \/ published[i]
    BY DEF InvalidatorEffect
  <2>2. /\ i >= len => ~published[i] /\ ~invalid[i] /\ ~Emitted(i)
        /\ i < len => /\ tb_key[i] \in Keys
                      /\ \/ published[i] \/ invalid[i]
                         \/ poisoned
                         \/ \E t \in Threads : Building(t) /\ tb_idx[t] = i
        /\ published[i] => Emitted(i)
    BY DEF IInv, StoreInv
  <2>3. QED
    BY <2>1, <2>2, Zenon
<1>6. CodeInv'
  BY <1>1, <1>2 DEF IInv, CodeInv
<1>7. CacheInv'
  BY <1>1 DEF IInv, CacheInv, Emitted
<1>8. JumpInv'
  <2> SUFFICES ASSUME NEW i \in Idx, NEW s \in Slots, host_jmp'[i][s] # Reset
               PROVE  /\ Emitted(i)
                      /\ \E j \in Idx : /\ Emitted(j)
                                        /\ host_jmp'[i][s] = host_offset[j]
                                        /\ tb_key[j] = Goto[tb_key[i]][s]
    BY <1>1, <1>2 DEF JumpInv
  <2>1. host_jmp'[i][s] = host_jmp[i][s]
    BY DEF InvalidatorEffect
  <2>2. QED
    BY <2>1 DEF IInv, JumpInv
<1>9. UniqueTranslation'
  <2> SUFFICES ASSUME NEW i \in 0..(len - 1), NEW j \in 0..(len - 1),
                      ~invalid'[i], ~invalid'[j], tb_key[i] = tb_key[j]
               PROVE  i = j
    BY <1>1 DEF UniqueTranslation
  <2>1. i \in Idx /\ j \in Idx
    BY ConstantTypes DEF IInv, TypeOK, StoreTypeOK, Idx
  <2>2. ~invalid[i] /\ ~invalid[j]
    BY <2>1 DEF InvalidatorEffect
  <2>3. QED
    BY <2>2 DEF IInv, UniqueTranslation
<1>10. ASSUME NEW t \in Threads PROVE BuildInv(t)' /\ LocalInv(t)'
  <2>1. BuildInv(t) /\ LocalInv(t)
    BY DEF IInv
  <2>2. Building(t) => ~published'[tb_idx[t]] /\ ~invalid'[tb_idx[t]]
    BY <2>1, Zenon DEF BuildInv, InvalidatorEffect
  <2>3. BuildInv(t)'
    BY <1>1, <2>1, <2>2, Zenon DEF BuildInv, Building, Emitted
  <2>4. LocalInv(t)'
    BY <1>1, <2>1, Zenon DEF LocalInv, HasDst, Emitted
  <2>5. QED
    BY <2>3, <2>4
<1>11. QED
  BY <1>4, <1>5, <1>6, <1>7, <1>8, <1>9, <1>10 DEF IInv

-----------------------------------------------------------------------------
(* InvInv is kept by the steps of invalidate. *)

\* The other invalidators do not move.
IOthers(p) ==
    \A q \in Invalidators \ {p} :
        /\ iloc'[q] = iloc[q] /\ itb'[q] = itb[q]
        /\ iedges'[q] = iedges[q] /\ iedge'[q] = iedge[q]

\* An invalidation that has begun works on a finished, marked TB.
LEMMA ActiveFacts ==
    ASSUME InvInv, NEW p \in Invalidators, Active(p)
    PROVE  \E i \in Idx : i = itb[p] /\ Emitted(i) /\ invalid[i] /\ i # None
  BY NotNone DEF InvInv, MarkedInv

\* The step keeps InvInv if it does to the engine what an invalidation may, and
\* its own TB stays marked.
LEMMA MarkedStep ==
    ASSUME InvInv, NEW p \in Invalidators, InvalidatorEffect, IOthers(p), InvLocalTypeOK',
           Active(p)' => itb'[p] \in Idx /\ host_offset[itb'[p]] # Unset /\ invalid'[itb'[p]],
           iloc'[p] = "clear_dest" => iedge'[p] \in Edges,
           \A i \in dead' : invalid'[i]
    PROVE  InvInv'
<1>1. IInv'
  BY EffectIInv DEF InvInv
<1>2. UNCHANGED host_offset /\ \A i \in Idx : invalid[i] => invalid'[i]
  BY DEF InvalidatorEffect
<1>3. ASSUME NEW q \in Invalidators
      PROVE  /\ iloc'[q] # "idle" =>
                  itb'[q] \in Idx /\ host_offset'[itb'[q]] # Unset /\ invalid'[itb'[q]]
             /\ iloc'[q] = "clear_dest" => iedge'[q] \in Edges
  <2>1. CASE q = p
    BY <1>2, <2>1 DEF Active
  <2>2. CASE q # p
    <3>1. iloc'[q] = iloc[q] /\ itb'[q] = itb[q] /\ iedge'[q] = iedge[q]
      BY <2>2 DEF IOthers
    <3>2. /\ iloc[q] # "idle" => itb[q] \in Idx /\ host_offset[itb[q]] # Unset /\ invalid[itb[q]]
          /\ iloc[q] = "clear_dest" => iedge[q] \in Edges
      BY DEF InvInv, MarkedInv, Active, Emitted
    <3>3. QED
      BY <1>2, <3>1, <3>2
  <2>3. QED
    BY <2>1, <2>2
<1>4. MarkedInv'
  BY <1>3, Zenon DEF MarkedInv, Active, Emitted
<1>5. QED
  BY <1>1, <1>4 DEF InvInv, InvTypeOK, IInv

\* Storing the flag keeps InvInv.
LEMMA MarkStep ==
    ASSUME InvInv, NEW p \in Invalidators, invalidate_mark(p) PROVE InvInv' /\ IOthers(p)
<1>1. PICK i \in Idx : /\ published[i]
                       /\ itb' = [itb EXCEPT ![p] = i]
                       /\ invalid' = [invalid EXCEPT ![i] = TRUE]
  BY DEF invalidate_mark
<1>2. iloc' = [iloc EXCEPT ![p] = "take_list"]
  BY DEF invalidate_mark, IGoes
<1>3. UNCHANGED <<storeVars, chainVars, buf_offset, lockVars, cpuVars, iedges, iedge, iout,
                  dead, quiesced>>
  BY DEF invalidate_mark
<1>4. TypeOK /\ InvLocalTypeOK
  BY DEF InvInv, InvTypeOK
<1>5. invalid' \in [Idx -> BOOLEAN] /\ invalid'[i] /\ \A k \in Idx \ {i} : invalid'[k] = invalid[k]
  BY <1>1, <1>4 DEF TypeOK, StoreTypeOK
<1>6. InvalidatorEffect
  <2>1. /\ published' \in [Idx -> BOOLEAN]
        /\ jmp_dest' \in [Idx -> [Slots -> Idx \cup {None}]]
        /\ jmp_list' \in [Idx -> [Edges -> Nat]]
        /\ host_jmp' \in [Idx -> [Slots -> Nat \cup {Reset}]]
    BY <1>3, <1>4 DEF TypeOK, StoreTypeOK, ChainTypeOK, storeVars, chainVars
  <2>2. UNCHANGED <<len, tb_key, host_offset, exit_target, jmp_lock, buf_offset, lockVars,
                    cpuVars, published, host_jmp>>
    BY <1>3 DEF storeVars, chainVars
  <2>3. \A k \in Idx : /\ invalid[k] => invalid'[k]
                       /\ invalid'[k] => invalid[k] \/ published[k]
    BY <1>1, <1>5, Zenon
  <2>4. QED
    BY <1>5, <2>1, <2>2, <2>3 DEF InvalidatorEffect
<1>7. InvLocalTypeOK'
  BY <1>1, <1>2, <1>3, <1>4 DEF InvLocalTypeOK
<1>8. iloc'[p] = "take_list" /\ itb'[p] = i
  BY <1>1, <1>2, <1>4 DEF InvLocalTypeOK
<1>9. IOthers(p)
  BY <1>1, <1>2, <1>3, <1>4 DEF InvLocalTypeOK, IOthers
<1>10. host_offset[i] # Unset
  BY <1>1 DEF InvInv, IInv, StoreInv, Emitted
<1>11. \A k \in dead' : invalid'[k]
  BY <1>3, <1>4, <1>5 DEF InvInv, MarkedInv, InvLocalTypeOK
<1>12. QED
  BY <1>5, <1>6, <1>7, <1>8, <1>9, <1>10, <1>11, MarkedStep

\* The steps between the first and the last touch edges and jumps only.
LEMMA EdgeEffect ==
    ASSUME InvInv,
           UNCHANGED <<storeVars, invalid, exit_target, jmp_lock, buf_offset, lockVars, cpuVars>>,
           jmp_dest' \in [Idx -> [Slots -> Idx \cup {None}]],
           jmp_list' \in [Idx -> [Edges -> Nat]],
           host_jmp' \in [Idx -> [Slots -> Nat \cup {Reset}]],
           \A i \in Idx, s \in Slots : host_jmp'[i][s] \in {Reset, host_jmp[i][s]}
    PROVE  InvalidatorEffect
<1>1. published' \in [Idx -> BOOLEAN] /\ invalid' \in [Idx -> BOOLEAN]
  BY DEF InvInv, InvTypeOK, TypeOK, StoreTypeOK, storeVars
<1>2. \A i \in Idx : published'[i] = published[i] /\ invalid'[i] = invalid[i]
  BY DEF storeVars
<1>3. \A i \in Idx : /\ published'[i] => published[i]
                     /\ published[i] => published'[i] \/ invalid'[i]
                     /\ invalid[i] => invalid'[i]
                     /\ invalid'[i] => invalid[i] \/ published[i]
  BY <1>2, Zenon
<1>4. UNCHANGED <<len, tb_key, host_offset>>
  BY DEF storeVars
<1>5. QED
  BY <1>1, <1>3, <1>4 DEF InvalidatorEffect

\* The invalidator goes on with the TB it has.
LEMMA EdgeStep ==
    ASSUME InvInv, NEW p \in Invalidators, Active(p), InvalidatorEffect, IOthers(p),
           InvLocalTypeOK', UNCHANGED <<itb, invalid, dead>>,
           iloc'[p] = "clear_dest" => iedge'[p] \in Edges
    PROVE  InvInv'
<1>1. PICK i \in Idx : i = itb[p] /\ Emitted(i) /\ invalid[i]
  BY ActiveFacts
<1>2. itb'[p] \in Idx /\ host_offset[itb'[p]] # Unset /\ invalid'[itb'[p]]
  BY <1>1 DEF Emitted
<1>3. \A k \in dead' : invalid'[k]
  BY DEF InvInv, MarkedInv
<1>4. QED
  BY <1>2, <1>3, MarkedStep

\* Taking the incoming edges keeps InvInv.
LEMMA TakeListStep ==
    ASSUME InvInv, NEW p \in Invalidators, invalidate_take_list(p) PROVE InvInv' /\ IOthers(p)
<1>1. PICK i \in Idx : i = itb[p] /\ i # None
  BY ActiveFacts DEF invalidate_take_list, Active
<1>2. TypeOK /\ InvLocalTypeOK
  BY DEF InvInv, InvTypeOK
<1>3. /\ iedges' = [iedges EXCEPT ![p] = jmp_list[i]]
      /\ jmp_list' = [jmp_list EXCEPT ![i] = NoEdges]
      /\ iloc' = [iloc EXCEPT ![p] = "reset"]
      /\ UNCHANGED <<storeVars, invalid, exit_target, jmp_dest, jmp_lock, host_jmp,
                     buf_offset, lockVars, cpuVars, itb, iedge, iout, dead, quiesced>>
  BY <1>1 DEF invalidate_take_list, IGoes
<1>4. InvalidatorEffect
  <2>1. NoEdges \in [Edges -> Nat]
    BY DEF NoEdges
  <2>2. jmp_list' \in [Idx -> [Edges -> Nat]]
    BY <1>2, <1>3, <2>1 DEF TypeOK, ChainTypeOK
  <2>3. /\ jmp_dest' \in [Idx -> [Slots -> Idx \cup {None}]]
        /\ host_jmp' \in [Idx -> [Slots -> Nat \cup {Reset}]]
    BY <1>2, <1>3 DEF TypeOK, ChainTypeOK
  <2>4. QED
    BY <1>3, <2>2, <2>3, EdgeEffect
<1>5. InvLocalTypeOK'
  <2>1. jmp_list[i] \in [Edges -> Nat]
    BY <1>2 DEF TypeOK, ChainTypeOK
  <2>2. QED
    BY <1>2, <1>3, <2>1 DEF InvLocalTypeOK
<1>6. IOthers(p) /\ iloc'[p] = "reset"
  BY <1>2, <1>3 DEF InvLocalTypeOK, IOthers
<1>7. QED
  BY <1>3, <1>4, <1>5, <1>6, EdgeStep DEF Active, invalidate_take_list

\* The first loop goes on to its next edge, whose jump is reset, or is done.
LEMMA ResetCases ==
    ASSUME InvInv, NEW p \in Invalidators, invalidate_reset(p)
    PROVE  \/ /\ \E a \in Idx, b \in Slots :
                    /\ iedges[p][<<a, b>>] > 0
                    /\ iedges' = [iedges EXCEPT ![p][<<a, b>>] = @ - 1]
                    /\ iedge' = [iedge EXCEPT ![p] = <<a, b>>]
                    /\ iloc' = [iloc EXCEPT ![p] = "clear_dest"]
                    /\ host_jmp' = IF HasJump(a, b)
                                   THEN [host_jmp EXCEPT ![a][b] = Reset] ELSE host_jmp
           \/ /\ \A e \in Edges : iedges[p][e] = 0
              /\ iloc' = [iloc EXCEPT ![p] = "take_dest"]
              /\ UNCHANGED <<iedges, iedge, host_jmp>>
<1>1. CASE NoMoreEdges(p)
  BY <1>1 DEF NoMoreEdges, IGoes
<1>2. CASE \E e \in Edges :
              /\ NextEdge(p, e)
              /\ host_jmp' = IF HasJump(e[1], e[2])
                             THEN [host_jmp EXCEPT ![e[1]][e[2]] = Reset] ELSE host_jmp
  <2>1. PICK e \in Edges :
              /\ NextEdge(p, e)
              /\ host_jmp' = IF HasJump(e[1], e[2])
                             THEN [host_jmp EXCEPT ![e[1]][e[2]] = Reset] ELSE host_jmp
    BY <1>2
  <2>2. PICK a \in Idx, b \in Slots : e = <<a, b>>
    BY DEF Edges
  <2>3. e[1] = a /\ e[2] = b
    BY <2>2
  <2>4. QED
    BY <2>1, <2>2, <2>3 DEF NextEdge, IGoes
<1>3. QED
  BY <1>1, <1>2 DEF invalidate_reset

\* Resetting the next jump keeps InvInv.
LEMMA ResetStep ==
    ASSUME InvInv, NEW p \in Invalidators, invalidate_reset(p) PROVE InvInv' /\ IOthers(p)
<1>1. /\ UNCHANGED <<storeVars, invalid, exit_target, jmp_dest, jmp_list, jmp_lock,
                     buf_offset, lockVars, cpuVars, itb, iout, dead, quiesced>>
      /\ Active(p)
  BY DEF invalidate_reset, Active
<1>2. TypeOK /\ InvLocalTypeOK
  BY DEF InvInv, InvTypeOK
<1>3. /\ jmp_dest' \in [Idx -> [Slots -> Idx \cup {None}]]
      /\ jmp_list' \in [Idx -> [Edges -> Nat]]
  BY <1>1, <1>2 DEF TypeOK, ChainTypeOK
<1>4. CASE \E a \in Idx, b \in Slots :
              /\ iedges[p][<<a, b>>] > 0
              /\ iedges' = [iedges EXCEPT ![p][<<a, b>>] = @ - 1]
              /\ iedge' = [iedge EXCEPT ![p] = <<a, b>>]
              /\ iloc' = [iloc EXCEPT ![p] = "clear_dest"]
              /\ host_jmp' = IF HasJump(a, b)
                             THEN [host_jmp EXCEPT ![a][b] = Reset] ELSE host_jmp
  <2>1. PICK a \in Idx, b \in Slots :
              /\ iedges[p][<<a, b>>] > 0
              /\ iedges' = [iedges EXCEPT ![p][<<a, b>>] = @ - 1]
              /\ iedge' = [iedge EXCEPT ![p] = <<a, b>>]
              /\ iloc' = [iloc EXCEPT ![p] = "clear_dest"]
              /\ host_jmp' = IF HasJump(a, b)
                             THEN [host_jmp EXCEPT ![a][b] = Reset] ELSE host_jmp
    BY <1>4
  <2>2. <<a, b>> \in Edges
    BY DEF Edges
  <2>3. /\ host_jmp' \in [Idx -> [Slots -> Nat \cup {Reset}]]
        /\ \A i \in Idx, s \in Slots : host_jmp'[i][s] \in {Reset, host_jmp[i][s]}
    BY <1>2, <2>1 DEF TypeOK, ChainTypeOK
  <2>4. iedges[p][<<a, b>>] - 1 \in Nat
    BY <1>2, <2>1, <2>2 DEF InvLocalTypeOK
  <2>5. InvLocalTypeOK'
    <3>1. iedges' \in [Invalidators -> [Edges -> Nat]]
      BY <1>2, <2>1, <2>4 DEF InvLocalTypeOK
    <3>2. QED
      BY <1>1, <1>2, <2>1, <2>2, <3>1 DEF InvLocalTypeOK
  <2>6. IOthers(p) /\ iedge'[p] \in Edges
    BY <1>1, <1>2, <2>1, <2>2 DEF InvLocalTypeOK, IOthers
  <2>7. InvalidatorEffect
    BY <1>1, <1>3, <2>3, EdgeEffect
  <2>8. QED
    BY <1>1, <2>5, <2>6, <2>7, EdgeStep
<1>5. CASE /\ \A e \in Edges : iedges[p][e] = 0
           /\ iloc' = [iloc EXCEPT ![p] = "take_dest"]
           /\ UNCHANGED <<iedges, iedge, host_jmp>>
  <2>1. /\ host_jmp' \in [Idx -> [Slots -> Nat \cup {Reset}]]
        /\ \A i \in Idx, s \in Slots : host_jmp'[i][s] \in {Reset, host_jmp[i][s]}
    BY <1>2, <1>5 DEF TypeOK, ChainTypeOK
  <2>2. InvalidatorEffect
    BY <1>1, <1>3, <2>1, EdgeEffect
  <2>3. InvLocalTypeOK'
    BY <1>1, <1>2, <1>5 DEF InvLocalTypeOK
  <2>4. IOthers(p) /\ iloc'[p] = "take_dest"
    BY <1>1, <1>2, <1>5 DEF InvLocalTypeOK, IOthers
  <2>5. QED
    BY <1>1, <2>2, <2>3, <2>4, EdgeStep
<1>6. QED
  BY <1>4, <1>5, ResetCases

\* The edge an invalidation has in hand.
LEMMA HandFacts ==
    ASSUME InvInv, NEW p \in Invalidators, invalidate_clear_dest(p)
    PROVE  \E a \in Idx, b \in Slots :
              /\ iedge[p] = <<a, b>>
              /\ jmp_dest' = [jmp_dest EXCEPT ![a][b] = None]
<1>1. iedge[p] \in Edges
  BY DEF InvInv, MarkedInv, invalidate_clear_dest
<1>2. PICK a \in Idx, b \in Slots : iedge[p] = <<a, b>>
  BY <1>1 DEF Edges
<1>3. iedge[p][1] = a /\ iedge[p][2] = b
  BY <1>2
<1>4. QED
  BY <1>2, <1>3 DEF invalidate_clear_dest

\* Clearing jmp_dest of the source keeps InvInv.
LEMMA ClearDestStep ==
    ASSUME InvInv, NEW p \in Invalidators, invalidate_clear_dest(p) PROVE InvInv' /\ IOthers(p)
<1>1. PICK a \in Idx, b \in Slots : jmp_dest' = [jmp_dest EXCEPT ![a][b] = None]
  BY HandFacts
<1>2. TypeOK /\ InvLocalTypeOK /\ Active(p)
  BY DEF InvInv, InvTypeOK, Active, invalidate_clear_dest
<1>3. /\ iedge' = [iedge EXCEPT ![p] = NoEdge]
      /\ iloc' = [iloc EXCEPT ![p] = "reset"]
      /\ UNCHANGED <<storeVars, invalid, exit_target, jmp_list, jmp_lock, host_jmp,
                     buf_offset, lockVars, cpuVars, itb, iedges, iout, dead, quiesced>>
  BY DEF invalidate_clear_dest, IGoes
<1>4. InvalidatorEffect
  <2>1. jmp_dest' \in [Idx -> [Slots -> Idx \cup {None}]]
    BY <1>1, <1>2 DEF TypeOK, ChainTypeOK
  <2>2. /\ jmp_list' \in [Idx -> [Edges -> Nat]]
        /\ host_jmp' \in [Idx -> [Slots -> Nat \cup {Reset}]]
    BY <1>2, <1>3 DEF TypeOK, ChainTypeOK
  <2>3. QED
    BY <1>3, <2>1, <2>2, EdgeEffect
<1>5. InvLocalTypeOK'
  BY <1>2, <1>3 DEF InvLocalTypeOK
<1>6. IOthers(p) /\ iloc'[p] = "reset"
  BY <1>2, <1>3 DEF InvLocalTypeOK, IOthers
<1>7. QED
  BY <1>2, <1>3, <1>4, <1>5, <1>6, EdgeStep

\* Taking the outgoing edges keeps InvInv.
LEMMA TakeDestStep ==
    ASSUME InvInv, NEW p \in Invalidators, invalidate_take_dest(p) PROVE InvInv' /\ IOthers(p)
<1>1. PICK i \in Idx : i = itb[p]
  BY ActiveFacts DEF invalidate_take_dest, Active
<1>2. TypeOK /\ InvLocalTypeOK /\ Active(p)
  BY DEF InvInv, InvTypeOK, Active, invalidate_take_dest
<1>3. /\ iout' = [iout EXCEPT ![p] = jmp_dest[i]]
      /\ jmp_dest' = [jmp_dest EXCEPT ![i] = [s \in Slots |-> None]]
      /\ iloc' = [iloc EXCEPT ![p] = "retain"]
      /\ UNCHANGED <<storeVars, invalid, exit_target, jmp_list, jmp_lock, host_jmp,
                     buf_offset, lockVars, cpuVars, itb, iedges, iedge, dead, quiesced>>
  BY <1>1 DEF invalidate_take_dest, IGoes
<1>4. InvalidatorEffect
  <2>1. jmp_dest' \in [Idx -> [Slots -> Idx \cup {None}]]
    BY <1>2, <1>3 DEF TypeOK, ChainTypeOK
  <2>2. /\ jmp_list' \in [Idx -> [Edges -> Nat]]
        /\ host_jmp' \in [Idx -> [Slots -> Nat \cup {Reset}]]
    BY <1>2, <1>3 DEF TypeOK, ChainTypeOK
  <2>3. QED
    BY <1>3, <2>1, <2>2, EdgeEffect
<1>5. InvLocalTypeOK'
  <2>1. jmp_dest[i] \in [Slots -> Idx \cup {None}]
    BY <1>2 DEF TypeOK, ChainTypeOK
  <2>2. QED
    BY <1>2, <1>3, <2>1 DEF InvLocalTypeOK
<1>6. IOthers(p) /\ iloc'[p] = "retain"
  BY <1>2, <1>3 DEF InvLocalTypeOK, IOthers
<1>7. QED
  BY <1>2, <1>3, <1>4, <1>5, <1>6, EdgeStep

\* The second loop takes an edge of the invalidated TB off the list of its
\* destination, or is done.
LEMMA RetainCases ==
    ASSUME InvInv, NEW p \in Invalidators, invalidate_retain(p)
    PROVE  \/ /\ \E d \in Idx, s \in Slots :
                    jmp_list' = [jmp_list EXCEPT ![d][<<itb[p], s>>] = 0]
              /\ UNCHANGED iloc
              /\ \E s \in Slots : iout' = [iout EXCEPT ![p][s] = None]
           \/ /\ iloc' = [iloc EXCEPT ![p] = "unlink"]
              /\ UNCHANGED <<jmp_list, iout>>
<1>1. CASE NothingToRetain(p)
  BY <1>1 DEF NothingToRetain, IGoes
<1>2. CASE \E s \in Slots : /\ RetainOthers(p, s)
                            /\ iout' = [iout EXCEPT ![p][s] = None]
                            /\ UNCHANGED iloc
  <2>1. PICK s \in Slots : /\ RetainOthers(p, s)
                           /\ iout' = [iout EXCEPT ![p][s] = None]
                           /\ UNCHANGED iloc
    BY <1>2
  <2>2. iout[p][s] \in Idx
    BY <2>1 DEF RetainOthers, InvInv, InvTypeOK, InvLocalTypeOK
  <2>3. QED
    BY <2>1, <2>2 DEF RetainOthers
<1>3. QED
  BY <1>1, <1>2 DEF invalidate_retain

\* Removing an outgoing edge keeps InvInv.
LEMMA RetainStep ==
    ASSUME InvInv, NEW p \in Invalidators, invalidate_retain(p) PROVE InvInv' /\ IOthers(p)
<1>1. PICK i \in Idx : i = itb[p]
  BY ActiveFacts DEF invalidate_retain, Active
<1>2. TypeOK /\ InvLocalTypeOK /\ Active(p)
  BY DEF InvInv, InvTypeOK, Active, invalidate_retain
<1>3. UNCHANGED <<storeVars, invalid, exit_target, jmp_dest, jmp_lock, host_jmp,
                  buf_offset, lockVars, cpuVars, itb, iedges, iedge, dead, quiesced>>
  BY DEF invalidate_retain
<1>4. /\ jmp_list' \in [Idx -> [Edges -> Nat]]
      /\ iloc' = iloc \/ iloc' = [iloc EXCEPT ![p] = "unlink"]
      /\ iout' \in [Invalidators -> [Slots -> Idx \cup {None}]]
  <2>1. \A s \in Slots : <<itb[p], s>> \in Edges
    BY <1>1 DEF Edges
  <2>2. CASE /\ \E d \in Idx, s \in Slots :
                   jmp_list' = [jmp_list EXCEPT ![d][<<itb[p], s>>] = 0]
             /\ UNCHANGED iloc
             /\ \E s \in Slots : iout' = [iout EXCEPT ![p][s] = None]
    <3>1. jmp_list' \in [Idx -> [Edges -> Nat]]
      BY <1>2, <2>1, <2>2 DEF TypeOK, ChainTypeOK
    <3>2. iout' \in [Invalidators -> [Slots -> Idx \cup {None}]]
      BY <1>2, <2>2 DEF InvLocalTypeOK
    <3>3. QED
      BY <2>2, <3>1, <3>2
  <2>3. CASE iloc' = [iloc EXCEPT ![p] = "unlink"] /\ UNCHANGED <<jmp_list, iout>>
    BY <1>2, <2>3 DEF TypeOK, ChainTypeOK, InvLocalTypeOK
  <2>4. QED
    BY <2>2, <2>3, RetainCases
<1>5. InvalidatorEffect
  <2>1. /\ jmp_dest' \in [Idx -> [Slots -> Idx \cup {None}]]
        /\ host_jmp' \in [Idx -> [Slots -> Nat \cup {Reset}]]
    BY <1>2, <1>3 DEF TypeOK, ChainTypeOK
  <2>2. QED
    BY <1>3, <1>4, <2>1, EdgeEffect
<1>6. InvLocalTypeOK'
  BY <1>2, <1>3, <1>4 DEF InvLocalTypeOK
<1>7. IOthers(p) /\ iloc'[p] \in {"retain", "unlink"}
  BY <1>2, <1>3, <1>4 DEF InvLocalTypeOK, IOthers, invalidate_retain
<1>8. QED
  BY <1>2, <1>3, <1>5, <1>6, <1>7, EdgeStep

\* Leaving the hash table keeps InvInv: the TB has its flag.
LEMMA UnlinkStep ==
    ASSUME InvInv, NEW p \in Invalidators, invalidate_unlink(p) PROVE InvInv' /\ IOthers(p)
<1>1. PICK i \in Idx : i = itb[p] /\ invalid[i]
  BY ActiveFacts DEF invalidate_unlink, Active
<1>2. TypeOK /\ InvLocalTypeOK
  BY DEF InvInv, InvTypeOK
<1>3. /\ published' = [published EXCEPT ![i] = FALSE]
      /\ dead' = dead \cup {i}
      /\ itb' = [itb EXCEPT ![p] = None]
      /\ iloc' = [iloc EXCEPT ![p] = "idle"]
      /\ UNCHANGED <<len, tb_key, host_offset, invalid, chainVars, buf_offset,
                     lockVars, cpuVars, iedges, iedge, iout, quiesced>>
  BY <1>1 DEF invalidate_unlink, IGoes
<1>4. /\ published' \in [Idx -> BOOLEAN] /\ ~published'[i]
      /\ \A k \in Idx \ {i} : published'[k] = published[k]
  BY <1>2, <1>3 DEF TypeOK, StoreTypeOK
<1>5. InvalidatorEffect
  <2>1. /\ invalid' \in [Idx -> BOOLEAN]
        /\ jmp_dest' \in [Idx -> [Slots -> Idx \cup {None}]]
        /\ jmp_list' \in [Idx -> [Edges -> Nat]]
        /\ host_jmp' \in [Idx -> [Slots -> Nat \cup {Reset}]]
    BY <1>2, <1>3 DEF TypeOK, StoreTypeOK, ChainTypeOK, chainVars
  <2>2. UNCHANGED <<len, tb_key, host_offset, exit_target, jmp_lock, buf_offset, lockVars,
                    cpuVars, host_jmp>>
    BY <1>3 DEF chainVars
  <2>3. \A k \in Idx : /\ published'[k] => published[k]
                       /\ published[k] => published'[k] \/ invalid'[k]
                       /\ invalid[k] => invalid'[k]
                       /\ invalid'[k] => invalid[k] \/ published[k]
    BY <1>1, <1>3, <1>4, Zenon
  <2>4. QED
    BY <1>4, <2>1, <2>2, <2>3 DEF InvalidatorEffect
<1>6. InvLocalTypeOK'
  BY <1>2, <1>3 DEF InvLocalTypeOK
<1>7. IOthers(p) /\ ~Active(p)' /\ iloc'[p] = "idle"
  BY <1>2, <1>3 DEF InvLocalTypeOK, IOthers, Active
<1>8. \A k \in dead' : invalid'[k]
  BY <1>1, <1>3 DEF InvInv, MarkedInv
<1>9. QED
  BY <1>5, <1>6, <1>7, <1>8, MarkedStep

\* Every step of an invalidation keeps InvInv.
LEMMA InvalidatorInv ==
    ASSUME InvInv, NEW p \in Invalidators, InvalidatorStep(p) PROVE InvInv' /\ IOthers(p)
  BY MarkStep, TakeListStep, ResetStep, ClearDestStep, TakeDestStep, RetainStep, UnlinkStep,
     Zenon DEF InvalidatorStep

\* Nothing a thread builds is marked, and finished TBs keep their code: a step of a
\* vCPU keeps InvInv whatever invalidations are running.
LEMMA VcpuInv ==
    ASSUME InvInv, IInv', StoreGrows, UNCHANGED <<invVars, invalid>>
    PROVE  InvInv'
<1>1. UNCHANGED <<iloc, itb, iedges, iedge, iout, dead, quiesced>>
  BY DEF invVars
<1>2. InvTypeOK'
  <2>1. InvLocalTypeOK
    BY DEF InvInv, InvTypeOK
  <2>2. InvLocalTypeOK'
    BY <1>1, <2>1 DEF InvLocalTypeOK
  <2>3. QED
    BY <2>2 DEF InvTypeOK, IInv
<1>3. \A i \in Idx : host_offset[i] # Unset => host_offset'[i] # Unset
  BY DEF StoreGrows, Emitted
<1>4. ASSUME NEW q \in Invalidators
      PROVE  /\ iloc[q] # "idle" =>
                  itb[q] \in Idx /\ host_offset'[itb[q]] # Unset /\ invalid[itb[q]]
             /\ iloc[q] = "clear_dest" => iedge[q] \in Edges
  <2>1. /\ iloc[q] # "idle" => itb[q] \in Idx /\ host_offset[itb[q]] # Unset /\ invalid[itb[q]]
        /\ iloc[q] = "clear_dest" => iedge[q] \in Edges
    BY DEF InvInv, MarkedInv, Active, Emitted
  <2>2. QED
    BY <1>3, <2>1
<1>5. \A i \in dead : invalid[i]
  BY DEF InvInv, MarkedInv
<1>6. MarkedInv'
  BY <1>1, <1>4, <1>5, Zenon DEF MarkedInv, Active, Emitted
<1>7. QED
  BY <1>2, <1>6 DEF InvInv

\* InvInv holds initially.
LEMMA InitInvInv == ASSUME InvInit PROVE InvInv
<1>1. IInv
  BY InitIInv DEF InvInit
<1>2. /\ iloc = [p \in Invalidators |-> "idle"]
      /\ itb = [p \in Invalidators |-> None]
      /\ iedges = [p \in Invalidators |-> NoEdges]
      /\ iedge = [p \in Invalidators |-> NoEdge]
      /\ iout = [p \in Invalidators |-> [s \in Slots |-> None]]
      /\ dead = {} /\ quiesced \in BOOLEAN
  BY DEF InvInit
<1>3. NoEdges \in [Edges -> Nat]
  BY DEF NoEdges
<1>4. InvLocalTypeOK
  BY <1>2, <1>3 DEF InvLocalTypeOK
<1>5. MarkedInv
  BY <1>2 DEF MarkedInv, Active
<1>6. QED
  BY <1>1, <1>4, <1>5 DEF InvInv, InvTypeOK, IInv

-----------------------------------------------------------------------------
(* A step of the one invalidation that is running, and QuietInv. *)

\* All vCPUs are outside the loop.
AllOutside == \A t \in Threads : Outside(t)

\* Nobody but p is in invalidate.
OnlyOne(p) == \A q \in Invalidators \ {p} : iloc[q] = "idle"

\* While an invalidation runs, nothing else does.
LEMMA AloneFacts ==
    ASSUME InvInv, AloneInv, NEW p \in Invalidators, Active(p)
    PROVE  AllOutside /\ OnlyOne(p) /\ published[itb[p]]
  BY DEF AloneInv, AllOutside, OnlyOne, Active

\* With all vCPUs outside the loop, a recorded jump is in the jmp_list.
LEMMA RecordedFacts ==
    ASSUME AllOutside, NEW a \in Idx, NEW b \in Slots, Recorded(a, b)
    PROVE  \/ jmp_dest[a][b] = None /\ host_jmp[a][b] = Reset
           \/ \E d \in Idx : /\ jmp_dest[a][b] = d
                             /\ host_offset[d] # Unset /\ ~invalid[d]
                             /\ host_jmp[a][b] = host_offset[d]
                             /\ jmp_list[d][<<a, b>>] > 0
<1>1. \A t \in Threads : loc[t] # "lock_dst"
  BY DEF AllOutside, Outside, Stopped
<1>2. \A d : Registered(a, b, d) => jmp_list[d][<<a, b>>] > 0
  BY <1>1, Zenon DEF Registered, Pushing
<1>3. QED
  BY <1>2, Zenon DEF Recorded, Emitted

\* What makes a jump recorded after a step.
LEMMA RecordedAfter ==
    ASSUME NEW a \in Idx, NEW b \in Slots,
           \/ jmp_dest'[a][b] = None /\ host_jmp'[a][b] = Reset
           \/ \E d \in Idx : /\ jmp_dest'[a][b] = d
                             /\ host_offset'[d] # Unset /\ ~invalid'[d]
                             /\ host_jmp'[a][b] = host_offset'[d]
                             /\ jmp_list'[d][<<a, b>>] > 0
    PROVE  Recorded(a, b)'
  BY Zenon DEF Recorded, Emitted, Registered, Pushing

\* A jump that stays as it is stays recorded if its edge stays where it is.
LEMMA RecordedKept ==
    ASSUME AllOutside, NEW a \in Idx, NEW b \in Slots, Recorded(a, b),
           UNCHANGED host_offset,
           jmp_dest'[a][b] = jmp_dest[a][b], host_jmp'[a][b] = host_jmp[a][b],
           \A d \in Idx : ~invalid[d] /\ jmp_list[d][<<a, b>>] > 0 =>
                              ~invalid'[d] /\ jmp_list'[d][<<a, b>>] > 0
    PROVE  Recorded(a, b)'
<1>1. CASE jmp_dest[a][b] = None /\ host_jmp[a][b] = Reset
  BY <1>1, RecordedAfter
<1>2. CASE \E d \in Idx : /\ jmp_dest[a][b] = d
                          /\ host_offset[d] # Unset /\ ~invalid[d]
                          /\ host_jmp[a][b] = host_offset[d]
                          /\ jmp_list[d][<<a, b>>] > 0
  <2>1. PICK d \in Idx : /\ jmp_dest[a][b] = d
                         /\ host_offset[d] # Unset /\ ~invalid[d]
                         /\ host_jmp[a][b] = host_offset[d]
                         /\ jmp_list[d][<<a, b>>] > 0
    BY <1>2
  <2>2. /\ jmp_dest'[a][b] = d /\ host_offset'[d] # Unset /\ ~invalid'[d]
        /\ host_jmp'[a][b] = host_offset'[d] /\ jmp_list'[d][<<a, b>>] > 0
    BY <2>1
  <2>3. QED
    BY <2>2, RecordedAfter
<1>3. QED
  BY <1>1, <1>2, RecordedFacts

\* The parts of QuietInv that have to do with the vCPUs and the other invalidators
\* come for free; the rest is what p has to see to.
LEMMA QuietStepInv ==
    ASSUME InvInv', NEW p \in Invalidators, IOthers(p), AllOutside, OnlyOne(p),
           UNCHANGED cpuVars,
           Active(p)' => published'[itb'[p]],
           \A i \in Idx : published'[i] /\ invalid'[i] => Active(p)' /\ itb'[p] = i,
           \A i \in dead' : ~published'[i],
           \A i, j \in Idx, s \in Slots : ListDest(i, s, j)',
           \A i \in Idx, s \in Slots : QueueDest(p, i, s)',
           \A i \in Idx, s \in Slots : ~invalid'[i] =>
               Recorded(i, s)' \/ (Active(p)' /\ Unlinking(p, i, s)')
    PROVE  QuietInv'
<1>1. \A q \in Invalidators \ {p} : iloc'[q] = "idle"
  BY DEF IOthers, OnlyOne
<1>2. \A t \in Threads : loc'[t] = loc[t] /\ why'[t] = why[t]
  BY DEF cpuVars
<1>3. \A t \in Threads : Outside(t)'
  BY <1>2 DEF AllOutside, Outside
<1>4. AloneInv'
  BY <1>1, <1>3 DEF AloneInv, Active
<1>5. ASSUME NEW t \in Threads PROVE ValidInv(t)' /\ PushDest(t)'
  <2>1. loc'[t] \in Stopped \/ loc'[t] = "trap"
    BY <1>3 DEF Outside
  <2>2. loc'[t] # "lock_dst" /\ ~HasDst(t)' /\ loc'[t] # "exec"
    BY <2>1 DEF HasDst, Stopped
  <2>3. loc'[t] = "trap" => why'[t] = "top"
    BY Zenon DEF InvInv, IInv, LocalInv
  <2>4. QED
    BY <2>1, <2>2, <2>3 DEF ValidInv, PushDest
<1>6. ASSUME NEW q \in Invalidators, NEW i \in Idx, NEW s \in Slots
      PROVE  QueueDest(q, i, s)'
  <2>1. CASE q = p
    BY <2>1
  <2>2. CASE q # p
    <3>1. iloc'[q] = "idle"
      BY <1>1, <2>2
    <3>2. ~Queued(q, i, s)' /\ ~InHand(q, i, s)'
      BY <3>1 DEF Queued, InHand
    <3>3. QED
      BY <3>2 DEF QueueDest
  <2>3. QED
    BY <2>1, <2>2
<1>7. \A i \in Idx, s \in Slots : ~invalid'[i] => Covered(i, s)'
  BY Zenon DEF Covered
<1>8. QED
  BY <1>4, <1>5, <1>6, <1>7 DEF QuietInv

\* The steps between the first and the last leave the flags and the hash table
\* alone.
LEMMA QuietEdgeStep ==
    ASSUME InvInv, QuietInv, InvInv', NEW p \in Invalidators, Active(p), Active(p)', IOthers(p),
           UNCHANGED <<published, invalid, itb, dead, cpuVars>>,
           \A i, j \in Idx, s \in Slots : ListDest(i, s, j)',
           \A i \in Idx, s \in Slots : QueueDest(p, i, s)',
           \A i \in Idx, s \in Slots : ~invalid[i] => Recorded(i, s)' \/ Unlinking(p, i, s)'
    PROVE  QuietInv'
<1>1. AllOutside /\ OnlyOne(p) /\ published[itb[p]]
  BY AloneFacts DEF QuietInv
<1>2. \A i \in Idx : published'[i] /\ invalid'[i] => itb'[p] = i
  BY <1>1 DEF QuietInv, AloneInv, OnlyOne, Active
<1>3. \A i \in dead' : ~published'[i]
  BY DEF QuietInv, AloneInv
<1>4. \A i \in Idx, s \in Slots : ~invalid'[i] =>
               Recorded(i, s)' \/ (Active(p)' /\ Unlinking(p, i, s)')
  OBVIOUS
<1>5. Active(p)' => published'[itb'[p]]
  BY <1>1
<1>6. QED
  BY <1>1, <1>2, <1>3, <1>4, <1>5, QuietStepInv

-----------------------------------------------------------------------------
(* QuietInv is kept by the steps of the vCPUs, which run while nobody is in  *)
(* invalidate.                                                               *)

\* Between two invalidations QuietInv is ChainInv.
LEMMA IdleChain ==
    ASSUME QuietInv, Idle
    PROVE  ChainInv /\ \A i \in Idx : published[i] => ~invalid[i]
<1>1. \A i \in Idx, s \in Slots : ~invalid[i] => Recorded(i, s)
  BY DEF QuietInv, Covered, Idle, Active
<1>2. \A i \in Idx : published[i] => ~invalid[i]
  BY DEF QuietInv, AloneInv, Idle, Active
<1>3. QED
  BY <1>1, <1>2 DEF QuietInv, ChainInv, RecordInv

\* And the other way round.
LEMMA ChainIdle ==
    ASSUME ChainInv', Idle',
           \A i \in Idx : published'[i] => ~invalid'[i],
           \A i \in dead' : ~published'[i]
    PROVE  QuietInv'
<1>1. \A p \in Invalidators : iloc'[p] = "idle"
  BY DEF Idle
<1>2. AloneInv'
  BY <1>1 DEF AloneInv, Active
<1>3. \A p \in Invalidators, i \in Idx, s \in Slots : QueueDest(p, i, s)'
  BY <1>1 DEF QueueDest, Queued, InHand
<1>4. \A i \in Idx, s \in Slots : ~invalid'[i] => Covered(i, s)'
  BY Zenon DEF ChainInv, RecordInv, Covered
<1>5. QED
  BY <1>2, <1>3, <1>4 DEF QuietInv, ChainInv

\* A vCPU publishes only the TB it has built, which nobody has marked.
LEMMA ThreadPublishes ==
    ASSUME IInv, NEW t \in Threads, ThreadStep(t)
    PROVE  \A i \in Idx : published'[i] => published[i] \/ ~invalid[i]
<1>1. CASE tb_gen_code_insert(t)
  <2>1. published' = [published EXCEPT ![tb_idx[t]] = TRUE]
    BY <1>1 DEF tb_gen_code_insert
  <2>2. ~invalid[tb_idx[t]]
    BY <1>1, Zenon DEF tb_gen_code_insert, IInv, BuildInv, Building
  <2>3. \A i \in Idx : i # tb_idx[t] => published'[i] = published[i]
    BY <2>1 DEF IInv, TypeOK, StoreTypeOK
  <2>4. QED
    BY <2>2, <2>3
<1>2. CASE UNCHANGED published
  BY <1>2
<1>3. CASE \/ tb_find_jump_cache(t) \/ tb_find_hash(t) \/ tb_gen_code_check(t)
           \/ tb_gen_code_poisoned(t) \/ tb_gen_code_recheck(t) \/ tb_gen_code_alloc(t)
           \/ tb_gen_code_translate(t)
  <2>1. UNCHANGED published
    BY <1>3 DEF tb_find_jump_cache, tb_find_hash, tb_gen_code_check, tb_gen_code_poisoned,
                tb_gen_code_recheck, tb_gen_code_alloc, tb_gen_code_translate, storeVars
  <2>2. QED
    BY <1>2, <2>1
<1>4. CASE \/ exec_goto_tb(t) \/ exec_indirect(t) \/ exec_trap(t) \/ caller_resume(t)
           \/ exit_target_check(t) \/ exit_target_store(t)
  <2>1. UNCHANGED published
    BY <1>4 DEF exec_goto_tb, exec_indirect, exec_trap, caller_resume,
                exit_target_check, exit_target_store, storeVars
  <2>2. QED
    BY <1>2, <2>1
<1>5. CASE \/ tb_add_jump_check(t) \/ tb_add_jump_lock_src(t) \/ tb_add_jump_patch(t)
           \/ tb_add_jump_push(t)
  <2>1. UNCHANGED published
    BY <1>5 DEF tb_add_jump_check, tb_add_jump_lock_src, tb_add_jump_patch,
                tb_add_jump_push, storeVars
  <2>2. QED
    BY <1>2, <2>1
<1>6. QED
  BY <1>1, <1>3, <1>4, <1>5, Zenon DEF ThreadStep

\* Every step of a vCPU keeps QuietInv.
LEMMA VcpuQuiet ==
    ASSUME InvInv, QuietInv, quiesced, NEW t \in Threads, VcpuStep(t)
    PROVE  QuietInv'
<1>1. Idle /\ ThreadStep(t) /\ UNCHANGED <<iloc, dead>>
  BY DEF VcpuStep, invVars
<1>2. ChainInv /\ \A i \in Idx : published[i] => ~invalid[i]
  BY <1>1, IdleChain
<1>3. ChainInv' /\ UNCHANGED invalid
  BY <1>1, <1>2, ThreadChainInv, ThreadStore DEF InvInv
<1>4. \A i \in Idx : published'[i] => published[i] \/ ~invalid[i]
  BY <1>1, ThreadPublishes DEF InvInv
<1>5. Idle'
  BY <1>1 DEF Idle
<1>6. \A i \in Idx : published'[i] => ~invalid'[i]
  BY <1>2, <1>3, <1>4, Zenon
<1>7. \A i \in dead : i \in Idx /\ invalid[i] /\ ~published[i]
  BY DEF InvInv, InvTypeOK, InvLocalTypeOK, MarkedInv, QuietInv, AloneInv
<1>8. \A i \in dead' : ~published'[i]
  BY <1>1, <1>4, <1>7
<1>9. QED
  BY <1>3, <1>5, <1>6, <1>8, ChainIdle
=============================================================================
