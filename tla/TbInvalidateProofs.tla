-------------------------- MODULE TbInvalidateProofs -------------------------
(***************************************************************************)
(* Invalidation while the vCPUs run: what survives it at any time, and     *)
(* what holds with callers that wait until no vCPU is in the loop.         *)
(***************************************************************************)
EXTENDS TbInvalidateSteps

-----------------------------------------------------------------------------
(* QuietInv is kept by the steps of the one invalidation that is running.  *)

\* Before the step, too, it is p that covers what is not recorded.
LEMMA CoveredFacts ==
    ASSUME QuietInv, NEW p \in Invalidators, OnlyOne(p), NEW a \in Idx, NEW b \in Slots,
           ~invalid[a]
    PROVE  Recorded(a, b) \/ (Active(p) /\ Unlinking(p, a, b))
  BY DEF QuietInv, Covered, OnlyOne, Active

\* Marking a TB keeps QuietInv: the jumps that lead to it are in its jmp_list,
\* which the invalidation will take.
LEMMA MarkQuiet ==
    ASSUME InvInv, QuietInv, quiesced, NEW p \in Invalidators, invalidate_mark(p)
    PROVE  QuietInv'
<1>1. PICK i \in Idx : /\ published[i]
                       /\ itb' = [itb EXCEPT ![p] = i]
                       /\ invalid' = [invalid EXCEPT ![i] = TRUE]
  BY DEF invalidate_mark
<1>2. /\ iloc' = [iloc EXCEPT ![p] = "take_list"]
      /\ UNCHANGED <<published, host_offset, jmp_dest, jmp_list, host_jmp, cpuVars, dead>>
  BY DEF invalidate_mark, IGoes, storeVars, chainVars
<1>3. Idle /\ AllOutside /\ OnlyOne(p)
  BY DEF invalidate_mark, AllOutside, OnlyOne, Idle
<1>4. TypeOK /\ InvLocalTypeOK
  BY DEF InvInv, InvTypeOK
<1>5. iloc'[p] = "take_list" /\ itb'[p] = i
  BY <1>1, <1>2, <1>4 DEF InvLocalTypeOK
<1>6. invalid'[i] /\ \A k \in Idx \ {i} : invalid'[k] = invalid[k]
  BY <1>1, <1>4 DEF TypeOK, StoreTypeOK
<1>7. \A k \in Idx : published[k] => ~invalid[k]
  BY <1>3 DEF QuietInv, AloneInv, Idle, Active
<1>8. InvInv' /\ IOthers(p)
  BY MarkStep
<1>9. \A k \in Idx : ~invalid'[k] => k # i /\ ~invalid[k]
  BY <1>6, Zenon
<1>10. \A a, j \in Idx, b \in Slots : ListDest(a, b, j)'
  BY <1>2, <1>9 DEF QuietInv, ListDest
<1>11. ASSUME NEW a \in Idx, NEW b \in Slots PROVE QueueDest(p, a, b)'
  <2>1. SUFFICES ASSUME ~invalid'[a], jmp_list[i][<<a, b>>] > 0
                 PROVE  jmp_dest[a][b] = i
    BY <1>2, <1>5 DEF QueueDest, Queued, InHand
  <2>2. ~invalid[a] /\ ~invalid[i]
    BY <1>1, <1>7, <1>9, <2>1
  <2>3. QED
    BY <2>1, <2>2 DEF QuietInv, ListDest
<1>12. ASSUME NEW a \in Idx, NEW b \in Slots, ~invalid'[a]
       PROVE  Recorded(a, b)' \/ (Active(p)' /\ Unlinking(p, a, b)')
  <2>1. ~invalid[a] /\ Recorded(a, b)
    BY <1>3, <1>9, <1>12, CoveredFacts DEF Idle, Active
  <2>2. CASE jmp_dest[a][b] = None /\ host_jmp[a][b] = Reset
    BY <1>2, <2>2, RecordedAfter
  <2>3. CASE \E d \in Idx : /\ jmp_dest[a][b] = d
                            /\ host_offset[d] # Unset /\ ~invalid[d]
                            /\ host_jmp[a][b] = host_offset[d]
                            /\ jmp_list[d][<<a, b>>] > 0
    <3>1. PICK d \in Idx : /\ jmp_dest[a][b] = d
                           /\ host_offset[d] # Unset /\ ~invalid[d]
                           /\ host_jmp[a][b] = host_offset[d]
                           /\ jmp_list[d][<<a, b>>] > 0
      BY <2>3
    <3>2. CASE d = i
      <4>1. /\ jmp_dest'[a][b] = itb'[p]
            /\ iloc'[p] = "take_list" /\ jmp_list'[itb'[p]][<<a, b>>] > 0
            /\ host_jmp'[a][b] = host_offset'[itb'[p]]
        BY <1>2, <1>5, <3>1, <3>2
      <4>2. QED
        BY <4>1 DEF Unlinking, Queued, InHand, Active
    <3>3. CASE d # i
      <4>1. /\ jmp_dest'[a][b] = d /\ host_offset'[d] # Unset /\ ~invalid'[d]
            /\ host_jmp'[a][b] = host_offset'[d] /\ jmp_list'[d][<<a, b>>] > 0
        BY <1>2, <1>6, <3>1, <3>3
      <4>2. QED
        BY <4>1, RecordedAfter
    <3>4. QED
      BY <3>2, <3>3
  <2>4. QED
    BY <1>3, <2>1, <2>2, <2>3, RecordedFacts
<1>13. \A k \in Idx : published'[k] /\ invalid'[k] => Active(p)' /\ itb'[p] = k
  BY <1>2, <1>5, <1>6, <1>7 DEF Active
<1>14. \A k \in dead' : ~published'[k]
  BY <1>2 DEF QuietInv, AloneInv
<1>15. Active(p)' => published'[itb'[p]]
  BY <1>1, <1>2, <1>5
<1>16. QED
  BY <1>2, <1>3, <1>8, <1>10, <1>11, <1>12, <1>13, <1>14, <1>15, QuietStepInv

\* Taking the list keeps QuietInv: the edges move from the TB to the invalidation.
LEMMA TakeListQuiet ==
    ASSUME InvInv, QuietInv, NEW p \in Invalidators, invalidate_take_list(p)
    PROVE  QuietInv'
<1>1. Active(p) /\ iloc[p] = "take_list"
  BY DEF invalidate_take_list, Active
<1>2. PICK i \in Idx : i = itb[p] /\ invalid[i]
  BY <1>1, ActiveFacts
<1>3. /\ iedges' = [iedges EXCEPT ![p] = jmp_list[i]]
      /\ jmp_list' = [jmp_list EXCEPT ![i] = NoEdges]
      /\ iloc' = [iloc EXCEPT ![p] = "reset"]
      /\ UNCHANGED <<published, host_offset, invalid, jmp_dest, host_jmp, cpuVars, itb, dead>>
  BY <1>2 DEF invalidate_take_list, IGoes, storeVars
<1>4. TypeOK /\ InvLocalTypeOK
  BY DEF InvInv, InvTypeOK
<1>5. AllOutside /\ OnlyOne(p) /\ InvInv' /\ IOthers(p)
  BY <1>1, AloneFacts, TakeListStep DEF QuietInv
<1>6. iloc'[p] = "reset" /\ iedges'[p] = jmp_list[i] /\ itb'[p] = i
  BY <1>2, <1>3, <1>4 DEF InvLocalTypeOK
<1>7. \A d \in Idx \ {i} : jmp_list'[d] = jmp_list[d]
  BY <1>3, <1>4 DEF TypeOK, ChainTypeOK
<1>8. \A a, j \in Idx, b \in Slots : ListDest(a, b, j)'
  BY <1>2, <1>3, <1>7 DEF QuietInv, ListDest
<1>9. \A a \in Idx, b \in Slots : QueueDest(p, a, b)'
  BY <1>1, <1>2, <1>3, <1>6 DEF QuietInv, QueueDest, Queued, InHand
<1>10. ASSUME NEW a \in Idx, NEW b \in Slots, ~invalid[a]
       PROVE  Recorded(a, b)' \/ Unlinking(p, a, b)'
  <2>1. CASE Recorded(a, b)
    <3>1. \A d \in Idx : ~invalid[d] /\ jmp_list[d][<<a, b>>] > 0 =>
                             ~invalid'[d] /\ jmp_list'[d][<<a, b>>] > 0
      BY <1>2, <1>3, <1>7
    <3>2. QED
      BY <1>3, <1>5, <2>1, <3>1, RecordedKept
  <2>2. CASE Unlinking(p, a, b)
    <3>1. /\ jmp_dest[a][b] = i /\ jmp_list[i][<<a, b>>] > 0
          /\ host_jmp[a][b] \in {Reset, host_offset[i]}
      BY <1>1, <1>2, <2>2 DEF Unlinking, Queued, InHand
    <3>2. /\ jmp_dest'[a][b] = itb'[p] /\ iedges'[p][<<a, b>>] > 0
          /\ host_jmp'[a][b] \in {Reset, host_offset'[itb'[p]]}
      BY <1>3, <1>6, <3>1
    <3>3. QED
      BY <1>6, <3>2 DEF Unlinking, Queued, InHand
  <2>3. QED
    BY <1>5, <1>10, <2>1, <2>2, CoveredFacts
<1>11. Active(p)'
  BY <1>6 DEF Active
<1>12. QED
  BY <1>1, <1>3, <1>5, <1>8, <1>9, <1>10, <1>11, QuietEdgeStep

\* A jump that is patched is there.
LEMMA PatchedHasJump ==
    ASSUME IInv, NEW a \in Idx, NEW b \in Slots, host_jmp[a][b] # Reset
    PROVE  HasJump(a, b)
<1>1. Emitted(a) /\ \E j \in Idx : Emitted(j) /\ tb_key[j] = Goto[tb_key[a]][b]
  BY DEF IInv, JumpInv
<1>2. ASSUME NEW j \in Idx, Emitted(j) PROVE tb_key[j] \in Keys
  <2>1. j \in Int /\ len \in Int
    BY ConstantTypes DEF IInv, TypeOK, StoreTypeOK, Idx
  <2>2. (j >= len => ~Emitted(j)) /\ (j < len => tb_key[j] \in Keys)
    BY Zenon DEF IInv, StoreInv
  <2>3. QED
    BY <1>2, <2>1, <2>2
<1>3. QED
  BY <1>1, <1>2, ConstantTypes DEF HasJump, Emitted

\* Resetting the next jump keeps QuietInv: the edge goes from the list to the hand,
\* and its jump no longer leads to the TB.
LEMMA ResetQuiet ==
    ASSUME InvInv, QuietInv, NEW p \in Invalidators, invalidate_reset(p)
    PROVE  QuietInv'
<1>1. Active(p) /\ iloc[p] = "reset"
  BY DEF invalidate_reset, Active
<1>2. PICK i \in Idx : i = itb[p] /\ invalid[i] /\ i # None
  BY <1>1, ActiveFacts
<1>3. UNCHANGED <<published, host_offset, invalid, jmp_dest, jmp_list, cpuVars, itb, dead>>
  BY DEF invalidate_reset, storeVars
<1>4. TypeOK /\ InvLocalTypeOK /\ IInv
  BY DEF InvInv, InvTypeOK
<1>5. AllOutside /\ OnlyOne(p) /\ InvInv' /\ IOthers(p)
  BY <1>1, AloneFacts, ResetStep DEF QuietInv
<1>6. \A a, j \in Idx, b \in Slots : ListDest(a, b, j)'
  BY <1>3 DEF QuietInv, ListDest
<1>7. CASE \E x \in Idx, y \in Slots :
              /\ iedges[p][<<x, y>>] > 0
              /\ iedges' = [iedges EXCEPT ![p][<<x, y>>] = @ - 1]
              /\ iedge' = [iedge EXCEPT ![p] = <<x, y>>]
              /\ iloc' = [iloc EXCEPT ![p] = "clear_dest"]
              /\ host_jmp' = IF HasJump(x, y)
                             THEN [host_jmp EXCEPT ![x][y] = Reset] ELSE host_jmp
  <2>1. PICK x \in Idx, y \in Slots :
              /\ iedges[p][<<x, y>>] > 0
              /\ iedges' = [iedges EXCEPT ![p][<<x, y>>] = @ - 1]
              /\ iedge' = [iedge EXCEPT ![p] = <<x, y>>]
              /\ iloc' = [iloc EXCEPT ![p] = "clear_dest"]
              /\ host_jmp' = IF HasJump(x, y)
                             THEN [host_jmp EXCEPT ![x][y] = Reset] ELSE host_jmp
    BY <1>7
  <2>2. \A a \in Idx, b \in Slots : <<a, b>> \in Edges
    BY DEF Edges
  <2>3. iloc'[p] = "clear_dest" /\ iedge'[p] = <<x, y>> /\ itb'[p] = i
    BY <1>2, <1>3, <1>4, <2>1 DEF InvLocalTypeOK
  <2>4. \A a \in Idx, b \in Slots :
            /\ iedges'[p][<<a, b>>] > 0 => iedges[p][<<a, b>>] > 0
            /\ ~(a = x /\ b = y) => iedges'[p][<<a, b>>] = iedges[p][<<a, b>>]
    BY <1>4, <2>1, <2>2 DEF InvLocalTypeOK
  <2>5. host_jmp'[x][y] = Reset
    <3>1. CASE HasJump(x, y)
      BY <1>4, <2>1, <3>1 DEF TypeOK, ChainTypeOK
    <3>2. CASE ~HasJump(x, y)
      BY <1>4, <2>1, <3>2, PatchedHasJump
    <3>3. QED
      BY <3>1, <3>2
  <2>6. \A a \in Idx, b \in Slots : ~(a = x /\ b = y) => host_jmp'[a][b] = host_jmp[a][b]
    BY <1>4, <2>1 DEF TypeOK, ChainTypeOK
  <2>7. ASSUME NEW a \in Idx, NEW b \in Slots, ~invalid[a], iedges[p][<<a, b>>] > 0
        PROVE  jmp_dest[a][b] \in {i, None}
    BY <1>1, <1>2, <2>7 DEF QuietInv, QueueDest, Queued
  <2>8. ASSUME NEW a \in Idx, NEW b \in Slots PROVE QueueDest(p, a, b)'
    <3>1. SUFFICES ASSUME ~invalid[a], iedges'[p][<<a, b>>] > 0 \/ <<a, b>> = <<x, y>>
                   PROVE  jmp_dest[a][b] \in {i, None}
      BY <1>3, <2>3 DEF QueueDest, Queued, InHand
    <3>2. iedges[p][<<a, b>>] > 0
      BY <2>1, <2>4, <3>1
    <3>3. QED
      BY <2>7, <3>1, <3>2
  <2>9. ASSUME NEW a \in Idx, NEW b \in Slots, ~invalid[a], ~(a = x /\ b = y)
        PROVE  Recorded(a, b)' \/ Unlinking(p, a, b)'
    <3>1. CASE Recorded(a, b)
      BY <1>3, <1>5, <2>6, <2>9, <3>1, RecordedKept
    <3>2. CASE Unlinking(p, a, b)
      <4>1. /\ jmp_dest[a][b] = i /\ iedges[p][<<a, b>>] > 0
            /\ host_jmp[a][b] \in {Reset, host_offset[i]}
        BY <1>1, <1>2, <3>2 DEF Unlinking, Queued, InHand
      <4>2. /\ jmp_dest'[a][b] = itb'[p] /\ iedges'[p][<<a, b>>] > 0
            /\ host_jmp'[a][b] \in {Reset, host_offset'[itb'[p]]}
            /\ iedge'[p] # <<a, b>>
        <5>1. jmp_dest'[a][b] = itb'[p]
          BY <1>3, <2>3, <4>1
        <5>2. iedges'[p][<<a, b>>] > 0
          BY <2>4, <2>9, <4>1
        <5>3. host_jmp'[a][b] = host_jmp[a][b]
          BY <2>6, <2>9
        <5>4. host_jmp'[a][b] \in {Reset, host_offset'[itb'[p]]}
          BY <1>3, <2>3, <4>1, <5>3
        <5>5. iedge'[p] # <<a, b>>
          BY <2>3, <2>9
        <5>6. QED
          BY <5>1, <5>2, <5>4, <5>5
      <4>3. QED
        BY <2>3, <4>2 DEF Unlinking, Queued, InHand
    <3>3. QED
      BY <1>5, <2>9, <3>1, <3>2, CoveredFacts
  <2>10. ASSUME ~invalid[x] PROVE Recorded(x, y)' \/ Unlinking(p, x, y)'
    <3>1. jmp_dest[x][y] \in {i, None}
      BY <2>1, <2>7, <2>10
    <3>2. CASE jmp_dest[x][y] = None
      BY <1>3, <2>5, <3>2, RecordedAfter
    <3>3. CASE jmp_dest[x][y] = i
      <4>1. jmp_dest'[x][y] = itb'[p] /\ InHand(p, x, y)'
        BY <1>3, <2>3, <3>3 DEF InHand
      <4>2. QED
        BY <2>5, <4>1 DEF Unlinking
    <3>4. QED
      BY <3>1, <3>2, <3>3
  <2>11. \A a \in Idx, b \in Slots : ~invalid[a] => Recorded(a, b)' \/ Unlinking(p, a, b)'
    BY <2>9, <2>10
  <2>12. Active(p)'
    BY <2>3 DEF Active
  <2>13. QED
    BY <1>1, <1>3, <1>5, <1>6, <2>8, <2>11, <2>12, QuietEdgeStep
<1>8. CASE /\ \A e \in Edges : iedges[p][e] = 0
           /\ iloc' = [iloc EXCEPT ![p] = "take_dest"]
           /\ UNCHANGED <<iedges, iedge, host_jmp>>
  <2>1. iloc'[p] = "take_dest" /\ Active(p)'
    BY <1>4, <1>8 DEF InvLocalTypeOK, Active
  <2>2. \A a \in Idx, b \in Slots : QueueDest(p, a, b)'
    BY <2>1 DEF QueueDest, Queued, InHand
  <2>3. ASSUME NEW a \in Idx, NEW b \in Slots, ~invalid[a] PROVE Recorded(a, b)'
    <3>1. ~(iedges[p][<<a, b>>] > 0)
      <4>1. <<a, b>> \in Edges
        BY DEF Edges
      <4>2. iedges[p][<<a, b>>] = 0
        BY <1>8, <4>1
      <4>3. QED
        BY <4>2
    <3>2. ~Unlinking(p, a, b)
      BY <1>1, <3>1 DEF Unlinking, Queued, InHand
    <3>3. Recorded(a, b)
      BY <1>5, <2>3, <3>2, CoveredFacts
    <3>4. QED
      BY <1>3, <1>5, <1>8, <3>3, RecordedKept
  <2>4. QED
    BY <1>1, <1>3, <1>5, <1>6, <2>1, <2>2, <2>3, QuietEdgeStep
<1>9. QED
  BY <1>7, <1>8, ResetCases

\* Clearing jmp_dest keeps QuietInv: the jump was reset before, so the slot is
\* recorded as leading nowhere.
LEMMA ClearDestQuiet ==
    ASSUME InvInv, QuietInv, NEW p \in Invalidators, invalidate_clear_dest(p)
    PROVE  QuietInv'
<1>1. Active(p) /\ iloc[p] = "clear_dest"
  BY DEF invalidate_clear_dest, Active
<1>2. PICK i \in Idx : i = itb[p] /\ invalid[i] /\ i # None
  BY <1>1, ActiveFacts
<1>3. PICK x \in Idx, y \in Slots :
        iedge[p] = <<x, y>> /\ jmp_dest' = [jmp_dest EXCEPT ![x][y] = None]
  BY HandFacts
<1>4. /\ iloc' = [iloc EXCEPT ![p] = "reset"]
      /\ UNCHANGED <<published, host_offset, invalid, jmp_list, host_jmp, cpuVars,
                     itb, iedges, dead>>
  BY DEF invalidate_clear_dest, IGoes, storeVars
<1>5. TypeOK /\ InvLocalTypeOK
  BY DEF InvInv, InvTypeOK
<1>6. AllOutside /\ OnlyOne(p) /\ InvInv' /\ IOthers(p)
  BY <1>1, AloneFacts, ClearDestStep DEF QuietInv
<1>7. iloc'[p] = "reset" /\ itb'[p] = i /\ iedges'[p] = iedges[p]
  BY <1>2, <1>4, <1>5 DEF InvLocalTypeOK
<1>8. /\ jmp_dest'[x][y] = None
      /\ \A a \in Idx, b \in Slots : ~(a = x /\ b = y) => jmp_dest'[a][b] = jmp_dest[a][b]
  BY <1>3, <1>5 DEF TypeOK, ChainTypeOK
<1>9. ~invalid[x] => jmp_dest[x][y] \in {i, None}
  BY <1>1, <1>2, <1>3 DEF QuietInv, QueueDest, InHand
<1>10. ASSUME NEW a \in Idx, NEW j \in Idx, NEW b \in Slots PROVE ListDest(a, b, j)'
  <2>1. SUFFICES ASSUME ~invalid[a], ~invalid[j], jmp_list[j][<<a, b>>] > 0
                 PROVE  jmp_dest'[a][b] = j
    BY <1>4 DEF ListDest
  <2>2. jmp_dest[a][b] = j /\ j # i /\ j # None
    BY <1>2, <2>1, NotNone DEF QuietInv, ListDest
  <2>3. QED
    BY <1>8, <1>9, <2>1, <2>2
<1>11. ASSUME NEW a \in Idx, NEW b \in Slots PROVE QueueDest(p, a, b)'
  <2>1. SUFFICES ASSUME ~invalid[a], iedges[p][<<a, b>>] > 0
                 PROVE  jmp_dest'[a][b] \in {i, None}
    BY <1>4, <1>7 DEF QueueDest, Queued, InHand
  <2>2. jmp_dest[a][b] \in {i, None}
    BY <1>1, <1>2, <2>1 DEF QuietInv, QueueDest, Queued
  <2>3. QED
    BY <1>8, <2>2
<1>12. ASSUME NEW a \in Idx, NEW b \in Slots, ~invalid[a], ~(a = x /\ b = y)
       PROVE  Recorded(a, b)' \/ Unlinking(p, a, b)'
  <2>1. CASE Recorded(a, b)
    BY <1>4, <1>6, <1>8, <1>12, <2>1, RecordedKept
  <2>2. CASE Unlinking(p, a, b)
    <3>1. iedge[p] # <<a, b>>
      BY <1>3, <1>12
    <3>2. /\ jmp_dest[a][b] = i /\ iedges[p][<<a, b>>] > 0
          /\ host_jmp[a][b] \in {Reset, host_offset[i]}
      BY <1>1, <1>2, <2>2, <3>1 DEF Unlinking, Queued, InHand
    <3>3. /\ jmp_dest'[a][b] = itb'[p] /\ iedges'[p][<<a, b>>] > 0
          /\ host_jmp'[a][b] \in {Reset, host_offset'[itb'[p]]}
      BY <1>4, <1>7, <1>8, <1>12, <3>2
    <3>4. QED
      BY <1>7, <3>3 DEF Unlinking, Queued, InHand
  <2>3. QED
    BY <1>6, <1>12, <2>1, <2>2, CoveredFacts
<1>13. ASSUME ~invalid[x] PROVE Recorded(x, y)'
  <2>1. host_jmp[x][y] = Reset
    <3>1. CASE Recorded(x, y)
      <4>1. \A d \in Idx : jmp_dest[x][y] = d => invalid[d]
        BY <1>2, <1>9, <1>13, NotNone
      <4>2. CASE jmp_dest[x][y] = None /\ host_jmp[x][y] = Reset
        BY <4>2
      <4>3. CASE \E d \in Idx : /\ jmp_dest[x][y] = d
                                /\ host_offset[d] # Unset /\ ~invalid[d]
                                /\ host_jmp[x][y] = host_offset[d]
                                /\ jmp_list[d][<<x, y>>] > 0
        BY <4>1, <4>3
      <4>4. QED
        BY <1>6, <3>1, <4>2, <4>3, RecordedFacts
    <3>2. CASE Unlinking(p, x, y)
      BY <1>1, <1>3, <3>2 DEF Unlinking, InHand
    <3>3. QED
      BY <1>6, <1>13, <3>1, <3>2, CoveredFacts
  <2>2. QED
    BY <1>4, <1>8, <2>1, RecordedAfter
<1>14. \A a \in Idx, b \in Slots : ~invalid[a] => Recorded(a, b)' \/ Unlinking(p, a, b)'
  BY <1>12, <1>13
<1>15. Active(p)'
  BY <1>7 DEF Active
<1>16. QED
  BY <1>1, <1>4, <1>6, <1>10, <1>11, <1>14, <1>15, QuietEdgeStep

\* Past the first loop everything is recorded.
LEMMA AllRecorded ==
    ASSUME QuietInv, NEW p \in Invalidators, OnlyOne(p),
           iloc[p] \in {"idle", "take_dest", "retain", "unlink"}
    PROVE  \A a \in Idx, b \in Slots : ~invalid[a] => Recorded(a, b)
<1>1. \A a \in Idx, b \in Slots : ~Unlinking(p, a, b)
  BY DEF Unlinking, Queued, InHand
<1>2. QED
  BY <1>1, CoveredFacts

\* The second half touches edges of the invalidated TB itself only.
LEMMA OutgoingQuiet ==
    ASSUME InvInv, QuietInv, InvInv', NEW p \in Invalidators, IOthers(p),
           iloc[p] \in {"take_dest", "retain"}, iloc'[p] \in {"retain", "unlink"},
           UNCHANGED <<published, host_offset, invalid, host_jmp, cpuVars, itb, dead>>,
           \A a \in Idx \ {itb[p]}, b \in Slots :
              /\ jmp_dest'[a][b] = jmp_dest[a][b]
              /\ \A j \in Idx : jmp_list'[j][<<a, b>>] = jmp_list[j][<<a, b>>]
    PROVE  QuietInv'
<1>1. Active(p) /\ Active(p)'
  BY DEF Active
<1>2. PICK i \in Idx : i = itb[p] /\ invalid[i]
  BY <1>1, ActiveFacts
<1>3. AllOutside /\ OnlyOne(p)
  BY <1>1, AloneFacts DEF QuietInv
<1>4. \A a, j \in Idx, b \in Slots : ListDest(a, b, j)'
  <2> SUFFICES ASSUME NEW a \in Idx, NEW j \in Idx, NEW b \in Slots
               PROVE  ListDest(a, b, j)'
    OBVIOUS
  <2>1. ListDest(a, b, j)
    BY DEF QuietInv
  <2>2. CASE a = i
    BY <1>2, <2>2 DEF ListDest
  <2>3. CASE a # i
    <3>1. /\ jmp_dest'[a][b] = jmp_dest[a][b]
          /\ jmp_list'[j][<<a, b>>] = jmp_list[j][<<a, b>>]
      BY <1>2, <2>3
    <3>2. QED
      BY <2>1, <3>1 DEF ListDest
  <2>4. QED
    BY <2>2, <2>3
<1>5. \A a \in Idx, b \in Slots : QueueDest(p, a, b)'
  BY DEF QueueDest, Queued, InHand
<1>6. ASSUME NEW a \in Idx, NEW b \in Slots, ~invalid[a] PROVE Recorded(a, b)'
  <2>1. Recorded(a, b)
    BY <1>3, <1>6, AllRecorded
  <2>2. a # itb[p]
    BY <1>2, <1>6
  <2>3. /\ jmp_dest'[a][b] = jmp_dest[a][b] /\ host_jmp'[a][b] = host_jmp[a][b]
        /\ \A d \in Idx : ~invalid[d] /\ jmp_list[d][<<a, b>>] > 0 =>
                              ~invalid'[d] /\ jmp_list'[d][<<a, b>>] > 0
    BY <2>2
  <2>4. QED
    BY <1>3, <2>1, <2>3, RecordedKept
<1>7. QED
  BY <1>1, <1>4, <1>5, <1>6, QuietEdgeStep

\* Taking the outgoing edges keeps QuietInv.
LEMMA TakeDestQuiet ==
    ASSUME InvInv, QuietInv, NEW p \in Invalidators, invalidate_take_dest(p)
    PROVE  QuietInv'
<1>1. PICK i \in Idx : i = itb[p]
  BY ActiveFacts DEF invalidate_take_dest, Active
<1>2. /\ iloc[p] = "take_dest" /\ iloc' = [iloc EXCEPT ![p] = "retain"]
      /\ jmp_dest' = [jmp_dest EXCEPT ![i] = [s \in Slots |-> None]]
      /\ UNCHANGED <<published, host_offset, invalid, jmp_list, host_jmp, cpuVars, itb, dead>>
  BY <1>1 DEF invalidate_take_dest, IGoes, storeVars
<1>3. TypeOK /\ InvLocalTypeOK
  BY DEF InvInv, InvTypeOK
<1>4. iloc'[p] = "retain"
  BY <1>2, <1>3 DEF InvLocalTypeOK
<1>5. \A a \in Idx \ {itb[p]}, b \in Slots : jmp_dest'[a][b] = jmp_dest[a][b]
  BY <1>1, <1>2, <1>3 DEF TypeOK, ChainTypeOK
<1>6. InvInv' /\ IOthers(p)
  BY TakeDestStep
<1>7. QED
  BY <1>2, <1>4, <1>5, <1>6, OutgoingQuiet

\* Removing an outgoing edge keeps QuietInv.
LEMMA RetainQuiet ==
    ASSUME InvInv, QuietInv, NEW p \in Invalidators, invalidate_retain(p)
    PROVE  QuietInv'
<1>1. PICK i \in Idx : i = itb[p]
  BY ActiveFacts DEF invalidate_retain, Active
<1>2. /\ iloc[p] = "retain"
      /\ UNCHANGED <<published, host_offset, invalid, jmp_dest, host_jmp, cpuVars, itb, dead>>
  BY DEF invalidate_retain, storeVars
<1>3. TypeOK /\ InvLocalTypeOK
  BY DEF InvInv, InvTypeOK
<1>4. iloc'[p] \in {"retain", "unlink"}
  BY <1>2, <1>3, RetainCases DEF InvLocalTypeOK
<1>5. \A a \in Idx \ {itb[p]}, b \in Slots, j \in Idx :
          jmp_list'[j][<<a, b>>] = jmp_list[j][<<a, b>>]
  <2>1. CASE \E d \in Idx, s \in Slots : jmp_list' = [jmp_list EXCEPT ![d][<<itb[p], s>>] = 0]
    <3>1. PICK d \in Idx, s \in Slots : jmp_list' = [jmp_list EXCEPT ![d][<<itb[p], s>>] = 0]
      BY <2>1
    <3>2. ASSUME NEW a \in Idx \ {itb[p]}, NEW b \in Slots, NEW j \in Idx
          PROVE  jmp_list'[j][<<a, b>>] = jmp_list[j][<<a, b>>]
      <4>1. <<a, b>> # <<itb[p], s>> /\ <<a, b>> \in Edges /\ jmp_list \in [Idx -> [Edges -> Nat]]
        BY <1>3 DEF Edges, TypeOK, ChainTypeOK
      <4>2. QED
        BY <3>1, <4>1
    <3>3. QED
      BY <3>2
  <2>2. CASE UNCHANGED jmp_list
    BY <2>2
  <2>3. QED
    BY <2>1, <2>2, RetainCases
<1>6. InvInv' /\ IOthers(p)
  BY RetainStep
<1>7. QED
  BY <1>2, <1>4, <1>5, <1>6, OutgoingQuiet

\* Leaving the hash table keeps QuietInv.
LEMMA UnlinkQuiet ==
    ASSUME InvInv, QuietInv, NEW p \in Invalidators, invalidate_unlink(p)
    PROVE  QuietInv'
<1>1. Active(p) /\ iloc[p] = "unlink"
  BY DEF invalidate_unlink, Active
<1>2. PICK i \in Idx : i = itb[p] /\ invalid[i]
  BY <1>1, ActiveFacts
<1>3. /\ published' = [published EXCEPT ![i] = FALSE]
      /\ dead' = dead \cup {i}
      /\ iloc' = [iloc EXCEPT ![p] = "idle"]
      /\ UNCHANGED <<host_offset, invalid, jmp_dest, jmp_list, host_jmp, cpuVars>>
  BY <1>2 DEF invalidate_unlink, IGoes, chainVars
<1>4. TypeOK /\ InvLocalTypeOK
  BY DEF InvInv, InvTypeOK
<1>5. AllOutside /\ OnlyOne(p) /\ InvInv' /\ IOthers(p)
  BY <1>1, AloneFacts, UnlinkStep DEF QuietInv
<1>6. iloc'[p] = "idle" /\ ~Active(p)'
  BY <1>3, <1>4 DEF InvLocalTypeOK, Active
<1>7. ~published'[i] /\ \A k \in Idx \ {i} : published'[k] = published[k]
  BY <1>3, <1>4 DEF TypeOK, StoreTypeOK
<1>8. \A k \in Idx : published[k] /\ invalid[k] => k = i
  BY <1>2, <1>5 DEF QuietInv, AloneInv, OnlyOne, Active
<1>9. \A k \in Idx : ~(published'[k] /\ invalid'[k])
  BY <1>3, <1>7, <1>8, Zenon
<1>10. \A k \in dead' : ~published'[k]
  <2>1. \A k \in dead : k \in Idx /\ ~published[k]
    BY <1>4 DEF QuietInv, AloneInv, InvLocalTypeOK
  <2>2. QED
    BY <1>3, <1>7, <2>1
<1>11. \A a, j \in Idx, b \in Slots : ListDest(a, b, j)'
  BY <1>3 DEF QuietInv, ListDest
<1>12. \A a \in Idx, b \in Slots : QueueDest(p, a, b)'
  BY <1>6 DEF QueueDest, Queued, InHand
<1>13. ASSUME NEW a \in Idx, NEW b \in Slots, ~invalid'[a] PROVE Recorded(a, b)'
  <2>1. Recorded(a, b)
    BY <1>1, <1>3, <1>5, <1>13, AllRecorded
  <2>2. QED
    BY <1>3, <1>5, <2>1, RecordedKept
<1>14. QED
  BY <1>3, <1>5, <1>6, <1>9, <1>10, <1>11, <1>12, <1>13, QuietStepInv

\* Every step of an invalidation keeps QuietInv, with callers that wait.
LEMMA InvalidatorQuiet ==
    ASSUME InvInv, QuietInv, quiesced, NEW p \in Invalidators, InvalidatorStep(p)
    PROVE  QuietInv'
  BY MarkQuiet, TakeListQuiet, ResetQuiet, ClearDestQuiet, TakeDestQuiet, RetainQuiet,
     UnlinkQuiet, Zenon DEF InvalidatorStep

-----------------------------------------------------------------------------
(* The theorems. *)

\* Every step keeps InvIInv.
LEMMA NextInvIInv == InvIInv /\ [InvNext]_allVars => InvIInv'
<1> SUFFICES ASSUME InvIInv, [InvNext]_allVars PROVE InvIInv'
  OBVIOUS
<1>1. InvInv /\ (quiesced => QuietInv)
  BY DEF InvIInv
<1>2. CASE \E t \in Threads : VcpuStep(t)
  <2>1. PICK t \in Threads : VcpuStep(t)
    BY <1>2
  <2>2. ThreadStep(t) /\ UNCHANGED invVars /\ UNCHANGED quiesced
    BY <2>1 DEF VcpuStep, invVars
  <2>3. IInv' /\ StoreGrows /\ UNCHANGED invalid
    BY <1>1, <2>2, ThreadIInv, ThreadStore DEF InvInv
  <2>4. InvInv'
    BY <1>1, <2>2, <2>3, VcpuInv
  <2>5. quiesced => QuietInv'
    BY <1>1, <2>1, VcpuQuiet
  <2>6. QED
    BY <2>2, <2>4, <2>5, Zenon DEF InvIInv
<1>3. CASE \E p \in Invalidators : InvalidatorStep(p)
  <2>1. PICK p \in Invalidators : InvalidatorStep(p)
    BY <1>3
  <2>2. InvInv'
    BY <1>1, <2>1, InvalidatorInv
  <2>3. quiesced => QuietInv'
    BY <1>1, <2>1, InvalidatorQuiet
  <2>4. UNCHANGED quiesced
    BY <2>1 DEF InvalidatorStep, invalidate_mark, invalidate_take_list, invalidate_reset,
                invalidate_clear_dest, invalidate_take_dest, invalidate_retain,
                invalidate_unlink
  <2>5. QED
    BY <2>2, <2>3, <2>4, Zenon DEF InvIInv
<1>4. CASE UNCHANGED <<vars, invVars>>
  <2>1. UNCHANGED <<iloc, itb, iedges, iedge, iout, dead, quiesced>>
    BY <1>4 DEF invVars
  <2>2. UNCHANGED <<len, tb_key, host_offset, published, invalid, jmp_dest, jmp_list, host_jmp,
                    loc, why, tb_idx, src_tb, slot, at>>
    BY <1>4 DEF vars, storeVars, chainVars, cpuVars
  <2>3. IInv' /\ StoreGrows
    BY <1>1, <1>4, <2>2, StutterIInv DEF InvInv, StoreGrows
  <2>4. InvInv'
    BY <1>1, <1>4, <2>2, <2>3, VcpuInv
  <2>5. QuietInv => QuietInv'
    <3>1. AloneInv => AloneInv'
      BY <2>1, <2>2, Zenon DEF AloneInv, Active, Outside
    <3>2. \A t \in Threads : ValidInv(t) /\ PushDest(t) => ValidInv(t)' /\ PushDest(t)'
      BY <2>2, Zenon DEF ValidInv, PushDest, HasDst, Emitted
    <3>3. \A i, j \in Idx, s \in Slots : ListDest(i, s, j) => ListDest(i, s, j)'
      BY <2>2, Zenon DEF ListDest
    <3>a. \A p \in Invalidators, i \in Idx, s \in Slots :
              (Queued(p, i, s) <=> Queued(p, i, s)') /\ (InHand(p, i, s) <=> InHand(p, i, s)')
      BY <2>1, <2>2, Zenon DEF Queued, InHand
    <3>4. \A p \in Invalidators, i \in Idx, s \in Slots :
              QueueDest(p, i, s) => QueueDest(p, i, s)'
      BY <2>1, <2>2, <3>a, Zenon DEF QueueDest
    <3>5. \A i \in Idx, s \in Slots : Recorded(i, s) => Recorded(i, s)'
      BY <2>2, Zenon DEF Recorded, Registered, Pushing, Emitted
    <3>6. \A p \in Invalidators, i \in Idx, s \in Slots :
              Active(p) /\ Unlinking(p, i, s) => Active(p)' /\ Unlinking(p, i, s)'
      <4> TAKE p \in Invalidators, i \in Idx, s \in Slots
      <4>1. /\ jmp_dest'[i][s] = jmp_dest[i][s] /\ host_jmp'[i][s] = host_jmp[i][s]
            /\ itb'[p] = itb[p] /\ host_offset'[itb'[p]] = host_offset[itb[p]]
            /\ iloc'[p] = iloc[p]
        BY <2>1, <2>2
      <4>2. (Queued(p, i, s) <=> Queued(p, i, s)') /\ (InHand(p, i, s) <=> InHand(p, i, s)')
        BY <3>a
      <4>3. QED
        BY <4>1, <4>2 DEF Active, Unlinking
    <3>7. \A i \in Idx, s \in Slots : Covered(i, s) => Covered(i, s)'
      BY <3>5, <3>6, Zenon DEF Covered
    <3>8. QED
      BY <2>2, <3>1, <3>2, <3>3, <3>4, <3>7 DEF QuietInv
  <2>6. QED
    BY <1>1, <2>1, <2>4, <2>5, Zenon DEF InvIInv
<1>5. QED
  BY <1>2, <1>3, <1>4, Zenon DEF InvNext, Terminated, allVars

\* InvIInv holds initially.
LEMMA InitInvIInv == InvInit => InvIInv
<1> SUFFICES ASSUME InvInit PROVE InvIInv
  OBVIOUS
<1>1. InvInv
  BY InitInvInv
<1>2. EdgeInv
  BY InitEdgeInv DEF InvInit
<1>3. \A p \in Invalidators : iloc[p] = "idle"
  BY DEF InvInit
<1>4. /\ \A i \in Idx : ~published[i]
      /\ dead = {}
  BY DEF InvInit, Init
<1>5. AloneInv
  BY <1>3, <1>4 DEF AloneInv, Active
<1>6. \A p \in Invalidators, i \in Idx, s \in Slots : QueueDest(p, i, s)
  BY <1>3 DEF QueueDest, Queued, InHand
<1>7. \A i \in Idx, s \in Slots : ~invalid[i] => Covered(i, s)
  BY <1>2, Zenon DEF EdgeInv, ChainInv, RecordInv, Covered
<1>8. QuietInv
  BY <1>2, <1>5, <1>6, <1>7 DEF QuietInv, EdgeInv, ChainInv
<1>9. QED
  BY <1>1, <1>8 DEF InvIInv

\* InvIInv is an invariant with any number of vCPUs and of callers of invalidate.
THEOREM InvInvariance == InvSpec => []InvIInv
  BY InitInvIInv, NextInvIInv, PTL DEF InvSpec

\* Every variable keeps its type, whatever is invalidated while the vCPUs run:
\* the edges invalidate visits and the indices it takes out of them are there.
THEOREM InvTypeCorrect == InvSpec => []InvTypeOK
<1>1. InvIInv => InvTypeOK
  BY DEF InvIInv, InvInv
<1>2. QED
  BY <1>1, InvInvariance, PTL

\* Invalidation at any moment leaves a guest position with at most one valid TB:
\* marking, unlinking and tb_gen_code's second lookup do not race.
THEOREM InvUniqueTranslation == InvSpec => []UniqueTranslation
<1>1. InvIInv => UniqueTranslation
  BY DEF InvIInv, InvInv, IInv
<1>2. QED
  BY <1>1, InvInvariance, PTL

\* A thread in host code runs the code of a TB for its guest pc, even if that TB
\* is being invalidated under it.
THEOREM InvExecutesGuestPc == InvSpec => []ExecutesGuestPc
<1>1. InvIInv => ExecutesGuestPc
  BY IInvExecutes DEF InvIInv, InvInv
<1>2. QED
  BY <1>1, InvInvariance, PTL

\* A jump that is patched leads to a TB for the right position, however reset_jump
\* and patch_jump interleave (invalidate resets jumps without a lock).
THEOREM InvChainSound == InvSpec => []ChainSound
<1>1. InvIInv => ChainSound
  BY IInvChainSound DEF InvIInv, InvInv
<1>2. QED
  BY <1>1, InvInvariance, PTL

\* InvIInv gives QuiescedUnlinked: a jump of a valid TB is recorded, hence leads to a
\* valid TB, or leads to the TB of the running invalidation, which has not returned.
LEMMA QuietUnlinked == InvIInv => QuiescedUnlinked
<1> SUFFICES ASSUME InvIInv, quiesced, NEW i \in Idx, NEW s \in Slots, NEW j \in dead,
                    ~invalid[i], j \in CodeAt(host_jmp[i][s])
             PROVE  FALSE
  BY DEF QuiescedUnlinked, DeadUnlinked
<1>1. InvInv /\ QuietInv
  BY DEF InvIInv
<1>2. j \in Idx /\ Emitted(j) /\ host_offset[j] = host_jmp[i][s]
  BY DEF CodeAt, Emitted
<1>3. invalid[j] /\ ~published[j]
  BY <1>1 DEF InvInv, MarkedInv, QuietInv, AloneInv
<1>4. host_jmp[i][s] # Reset
  <2>1. host_offset[j] \in Nat
    BY <1>1, <1>2 DEF InvInv, IInv, TypeOK, StoreTypeOK
  <2>2. QED
    BY <1>2, <2>1 DEF Reset
<1>5. \A d \in Idx : host_jmp[i][s] = host_offset[d] => d = j
  BY <1>1, <1>2 DEF InvInv, IInv, CodeInv
<1>6. CASE Recorded(i, s)
  <2>1. PICK d \in Idx : host_jmp[i][s] = host_offset[d] /\ ~invalid[d]
    BY <1>4, <1>6, Zenon DEF Recorded
  <2>2. QED
    BY <1>3, <1>5, <2>1
<1>7. CASE \E p \in Invalidators : Active(p) /\ Unlinking(p, i, s)
  <2>1. PICK p \in Invalidators : Active(p) /\ Unlinking(p, i, s)
    BY <1>7
  <2>2. itb[p] \in Idx /\ published[itb[p]]
    <3>1. itb[p] \in Idx
      BY <1>1, <2>1, ActiveFacts
    <3>2. published[itb[p]]
      BY <1>1, <2>1, AloneFacts DEF QuietInv
    <3>3. QED
      BY <3>1, <3>2
  <2>3. host_jmp[i][s] = host_offset[itb[p]]
    BY <1>4, <2>1 DEF Unlinking
  <2>4. QED
    BY <1>3, <1>5, <2>2, <2>3
<1>8. QED
  BY <1>1, <1>6, <1>7 DEF QuietInv, Covered

\* With callers that wait until no vCPU is in the loop, no jump of a valid TB leads
\* to a TB whose invalidation has returned: the jmp_list invalidate takes names
\* every jump to it, and step 1 undoes them all.
THEOREM QuiescedUnlinkedHolds == InvSpec => []QuiescedUnlinked
  BY InvInvariance, QuietUnlinked, PTL

\* InvIInv gives DeadNotExecuted: a thread in host code is in that of a valid TB.
LEMMA QuietNotExecuted == InvIInv => DeadNotExecuted
<1> SUFFICES ASSUME InvIInv, quiesced, NEW t \in Threads, loc[t] = "exec",
                    NEW j \in CodeAt(at[t]), j \in dead
             PROVE  FALSE
  BY DEF DeadNotExecuted
<1>1. InvInv /\ QuietInv
  BY DEF InvIInv
<1>2. invalid[j] /\ j \in Idx /\ Emitted(j) /\ host_offset[j] = at[t]
  BY <1>1 DEF InvInv, MarkedInv, CodeAt, Emitted
<1>3. PICK i \in Idx : host_offset[i] = at[t] /\ ~invalid[i]
  BY <1>1 DEF QuietInv, ValidInv, Stopped
<1>4. i = j
  BY <1>1, <1>2, <1>3 DEF InvInv, IInv, CodeInv
<1>5. QED
  BY <1>2, <1>3, <1>4

\* With such callers no vCPU executes a TB after its invalidation has returned,
\* although jump caches, exit_target and the hash of other threads' lookups may have
\* named it before (tb_find and the exit_target check test the flag).
THEOREM DeadNotExecutedHolds == InvSpec => []DeadNotExecuted
  BY InvInvariance, QuietNotExecuted, PTL

\* Every step of the engine under invalidation is a step of the guest or none.
LEMMA InvNextRefines ==
    ASSUME IInv, [InvNext]_allVars
    PROVE  [Guest!GuestNext]_(Guest!guestVars)
<1>1. CASE \E t \in Threads : VcpuStep(t)
  BY <1>1, ThreadRefines DEF VcpuStep
<1>2. CASE UNCHANGED cpuVars
  BY <1>2 DEF cpuVars, Guest!guestVars, GuestStatus
<1>3. CASE \E p \in Invalidators : InvalidatorStep(p)
  <2>1. UNCHANGED cpuVars
    BY <1>3 DEF InvalidatorStep, invalidate_mark, invalidate_take_list, invalidate_reset,
                invalidate_clear_dest, invalidate_take_dest, invalidate_retain,
                invalidate_unlink
  <2>2. QED
    BY <1>2, <2>1
<1>4. CASE UNCHANGED vars
  BY <1>2, <1>4 DEF vars
<1>5. QED
  BY <1>1, <1>3, <1>4, Zenon DEF InvNext, Terminated, allVars

\* The code cache stays transparent while TBs are invalidated, at any moment and by
\* any number of callers: every vCPU executes the guest program.
THEOREM InvRefinement == InvSpec => GuestTransparent
<1>1. InvInit => Guest!GuestInit
  BY InitRefines DEF InvInit
<1>2. InvIInv /\ [InvNext]_allVars => [Guest!GuestNext]_(Guest!guestVars)
  BY InvNextRefines DEF InvIInv, InvInv
<1>3. QED
  BY <1>1, <1>2, InvInvariance, PTL DEF InvSpec, GuestTransparent, Guest!GuestSpec
=============================================================================
