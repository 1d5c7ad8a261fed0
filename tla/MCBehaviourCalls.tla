--------------------------- MODULE MCBehaviourCalls ---------------------------
(***************************************************************************)
(* A call graph that keeps the rules of BehaviourDiscipline, with the       *)
(* priorities of bot_behave_init().                                         *)
(***************************************************************************)
EXTENDS BehaviourDiscipline, TLC

CONSTANTS save_waypos, turn, goto_pos, drive_stack

RealPrio == (save_waypos :> 190) @@ (turn :> 150)
              @@ (goto_pos :> 146) @@ (drive_stack :> 33)
MCPrio == [b \in Behaviours |-> RealPrio[b]]

(* bot_drive_stack drives to each stored position with bot_goto_pos, which  *)
(* turns with bot_turn; it stops bot_save_waypos and starts it again.  One  *)
(* routine that bot_goto_pos calls is not compiled in.                      *)
DriveFg == {<<drive_stack, goto_pos>>, <<goto_pos, turn>>, <<goto_pos, Unlisted>>}
DriveBg == {<<drive_stack, save_waypos>>}
DriveStops == {<<drive_stack, save_waypos>>, <<NoBeh, save_waypos>>}
=============================================================================
