----------------------------- MODULE MCRemoteCall -----------------------------
(***************************************************************************)
(* Two behaviours to call, of which one calls the other, an ABL program     *)
(* that calls, and a function that does its work at once.  The calls keep   *)
(* the rules of BehaviourDiscipline, which the proofs about remote calls    *)
(* build on.                                                                *)
(***************************************************************************)
EXTENDS RemoteCall, BehaviourDiscipline, TLC

CONSTANTS turn, goto_pos, push_actpos

RealPrio == (remotecall :> 254) @@ (turn :> 150) @@ (goto_pos :> 146) @@ (abl :> 35)
MCPrio == [b \in Behaviours |-> RealPrio[b]]

MCFg == {<<goto_pos, turn>>}
=============================================================================
