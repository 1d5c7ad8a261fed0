---------------------------- MODULE MCBehaviourList ----------------------------
(***************************************************************************)
(* A call of bot_drive_stack from bot_remotecall with its behaviours in the *)
(* list: bot_drive_stack is called and has callees in fore- and background. *)
(***************************************************************************)
EXTENDS BehaviourList, TLC

CONSTANTS remotecall, save_waypos, goto_pos, drive_stack

RealPrio == (remotecall :> 254) @@ (save_waypos :> 190)
              @@ (goto_pos :> 146) @@ (drive_stack :> 33)
MCPrio == [b \in Behaviours |-> RealPrio[b]]

DriveFg == {<<remotecall, drive_stack>>, <<drive_stack, goto_pos>>}
DriveBg == {<<drive_stack, save_waypos>>}
DriveStops == {<<drive_stack, save_waypos>>}
=============================================================================
