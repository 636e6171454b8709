------------------------------ MODULE Liveness ------------------------------
(***************************************************************************)
(* Liveness analysis: one backward pass over the ops.  live is the set of  *)
(* temps whose temp_state is true; the life of an op is the set of its     *)
(* argument positions (outputs, then inputs) that are dead after it, and   *)
(* the set of those to be synced.                                          *)
(***************************************************************************)
EXTENDS Ir

AllGlobals == {Env} \cup {Globals[k] : k \in DOMAIN Globals}

NoLife == [dead |-> {}, sync |-> {}]

\* Wrong: the outputs are taken out after the inputs were put in
LiveStep_outputs_last(live, op) ==
    LET before == IF op.opc \in BB_END THEN live \cup AllGlobals ELSE live
        no == Len(op.o)
        outs == {op.o[k] : k \in 1 .. no}
        last == {k \in DOMAIN op.i : op.i[k] \notin before}
    IN  IF op.opc \in {"Nop", "InsnStart"}
        THEN [live |-> before, life |-> NoLife]
        ELSE [live |-> (before \cup {op.i[k] : k \in DOMAIN op.i}) \ outs,
              life |-> [dead |-> {k \in 1 .. no : op.o[k] \notin before}
                                 \cup {no + k : k \in last},
                        sync |-> {}]]

\* Wrong: an input that is dead after the op is not live before it
LiveStep_not_revived(live, op) ==
    LET no == Len(op.o)
        inner == live \ {op.o[k] : k \in 1 .. no}
    IN  [live |-> IF op.opc \in BB_END THEN inner \cup AllGlobals ELSE inner,
         life |-> [dead |-> {no + k : k \in {j \in DOMAIN op.i :
                                               op.i[j] \notin inner}},
                   sync |-> {}]]

LiveStep(live, op) ==
    LET before == IF op.opc \in BB_END THEN live \cup AllGlobals ELSE live
        no == Len(op.o)
        outs == {op.o[k] : k \in 1 .. no}
        inner == before \ outs
        \* the first occurrence of an input that is not live any more
        last == {k \in DOMAIN op.i : /\ op.i[k] \notin inner
                                     /\ \A j \in 1 .. k - 1 : op.i[j] # op.i[k]}
    IN  IF op.opc \in {"Nop", "InsnStart"}
        THEN [live |-> before, life |-> NoLife]
        ELSE [live |-> inner \cup {op.i[k] : k \in DOMAIN op.i},
              life |-> [dead |-> {k \in 1 .. no : op.o[k] \notin before}
                                 \cup {no + k : k \in last},
                        sync |-> {no + k : k \in {j \in last :
                                            op.i[j].kind = "Global"}}]]

=============================================================================
