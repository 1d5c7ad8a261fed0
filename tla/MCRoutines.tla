----------------------------- MODULE MCRoutines -----------------------------
(***************************************************************************)
(* The state machines of single behaviours, each with those it calls.  They *)
(* are told apart by part: a behaviour of one part never meets one of       *)
(* another in a run, since the robot has one task at a time.  Driving over    *)
(* an area has variables of its own, beh and st, the others share b and s.   *)
(***************************************************************************)
EXTENDS DriveArea, Integers, FiniteSets

VARIABLES
    part,   \* which of the modules below runs
    b,      \* the records of its behaviours
    s,      \* their static variables
    way     \* the store of crossings of the line behaviours

area == <<beh, st>>
vars == <<part, b, s, way, area>>

Drive == INSTANCE DriveRoutines WITH beh <- b, st <- s, MAX_JOBS <- 3
Door  == INSTANCE Pillars WITH beh <- b, st <- s
Line  == INSTANCE LineRoutines WITH beh <- b, st <- s, STACK_SIZE <- 2
Maze  == INSTANCE MazeRoutines WITH beh <- b, st <- s
Trial == INSTANCE Trials WITH beh <- b, st <- s,
                              STEPS <- 3, READINGS <- 2, MAX_KI <- 1, MAX_KD <- 1, NO_PAIRS <- 2

Small == INSTANCE SmallRoutines WITH beh <- b, st <- s, MEASURES <- 3, REACH <- 3, INT_MAX <- 2147483647,
                                     ANGLES <- 4, TURNS <- 2, SIGHT <- 3

(* A room of fifteen cells with two or three obstacles in its midst. *)
Grid == (1 .. 5) \X (1 .. 3)
Obstacles == {h \in SUBSET ((2 .. 4) \X (1 .. 3) \ {<<4, 1>>, <<4, 3>>}) : Cardinality(h) \in {2, 3}}

Plan == INSTANCE PathPlanning WITH
            plan <- s, MAX_X <- 5, MAX_Y <- 3, QUEUE_SIZE <- 4, MAX_WAVECOUNTER <- 10,
            Destinations <- {<<1, 2>>}, Hazards <- Obstacles

None == <<>>

Starts ==
    \/ part = "area"  /\ way = None /\ b = None /\ s = None
    \/ part = "drive" /\ way = None /\ Drive!DriveInit
    \/ part = "door"  /\ way = None /\ Door!PillarsInit
    \/ part = "line"  /\ Line!LineInit
    \/ part = "corners" /\ Line!FollowInit
    \/ part = "maze"  /\ way = None /\ Maze!MazeInit
    \/ part = "plan"  /\ way = None /\ b = None /\ Plan!PlanInit
    \/ /\ way = None
       /\ \/ part = "sharps"  /\ Trial!SharpsInit
          \/ part = "pid"     /\ Trial!PidInit
          \/ part = "beacons" /\ Trial!BeaconsInit
          \/ part = "net"     /\ Trial!NetInit
          \/ part = "olympic" /\ Trial!OlympicInit
          \/ part = "check"   /\ Small!CheckInit
          \/ part = "object"  /\ Small!ObjectInit
          \/ part = "guard"   /\ Small!GuardInit
          \/ part = "places"  /\ Small!PlacesInit
          \/ part = "wheels"  /\ Small!WheelsInit
          \/ part = "steps"   /\ Small!StepsInit

Init == AreaInit /\ Starts

Others ==
    \/ part = "drive" /\ Drive!DriveNext     /\ UNCHANGED way
    \/ part = "door"  /\ Door!PillarsNext    /\ UNCHANGED way
    \/ part = "line"  /\ Line!LineNext
    \/ part = "corners" /\ Line!FollowNext
    \/ part = "maze"  /\ Maze!MazeNext       /\ UNCHANGED way
    \/ part = "plan"  /\ Plan!PlanNext       /\ UNCHANGED <<way, b>>
    \/ part = "sharps"  /\ Trial!SharpsNext  /\ UNCHANGED way
    \/ part = "pid"     /\ Trial!PidNext     /\ UNCHANGED way
    \/ part = "beacons" /\ Trial!BeaconsNext /\ UNCHANGED way
    \/ part = "net"     /\ Trial!NetNext     /\ UNCHANGED way
    \/ part = "olympic" /\ Trial!OlympicNext /\ UNCHANGED way
    \/ part = "check"   /\ Small!CheckNext   /\ UNCHANGED way
    \/ part = "object"  /\ Small!ObjectNext  /\ UNCHANGED way
    \/ part = "guard"   /\ Small!GuardNext   /\ UNCHANGED way
    \/ part = "places"  /\ Small!PlacesNext  /\ UNCHANGED way
    \/ part = "wheels"  /\ Small!WheelsNext  /\ UNCHANGED way
    \/ part = "steps"   /\ Small!StepsNext   /\ UNCHANGED way

Next ==
    \/ part = "area" /\ AreaNext /\ UNCHANGED <<part, b, s, way>>
    \/ Others /\ UNCHANGED <<part, area>>

Spec == Init /\ [][Next]_vars

(* The records and the static variables of each part. *)
RoutinesTypeOK ==
    /\ AreaTypeOK
    /\ part = "drive" => Drive!DriveTypeOK
    /\ part = "door" => Door!PillarsTypeOK
    /\ part = "line" => Line!LineTypeOK
    /\ part = "maze" => Maze!MazeTypeOK
    /\ part = "plan" => Plan!PlanTypeOK
    /\ part \in {"sharps", "pid", "beacons", "net", "olympic"} => Trial!TrialsTypeOK
    /\ part \in {"check", "object", "guard", "places", "wheels", "steps"} => Small!SmallTypeOK

(* behaviour_cancel_behaviour.c: a drive with a condition stays watched.     *)
WatchedDriveIsWatched == part = "drive" => Drive!WatchedDriveIsWatched

(* behaviour_transport_pillar.c and its kin: a pillar is carried behind the  *)
(* closed door, and from one pad to the other one.                          *)
CarriedBehindDoor == part = "door" => Door!CarriedBehindDoor /\ Door!PillarsChangePads

(* behaviour_line_shortest_way.c: the crossings in the store lead from the   *)
(* start to the robot.  behaviour_follow_line.c: a corner is turned to the   *)
(* side where it was seen.  behaviour_solve_maze.c: a wall is measured by    *)
(* readings that agree, and the robot keeps to the wall it follows.          *)
KeepsToItsWay ==
    /\ part = "line" => Line!CrossingsAreTheWay
    /\ part = "corners" => Line!CornersAreTurned
    /\ part = "maze" => Maze!WallIsMeasured /\ Maze!KeepsToAWall

(* behaviour_calibrate_sharps.c, _calibrate_pid.c, _scan_beacons.c,          *)
(* _drive_neuralnet.c, _olympic.c, _measure_distance.c, _turn_test.c and     *)
(* _simple.c: what is kept of a measurement was measured where, and with     *)
(* what, it says.  _gotoxy.c, _follow_object.c, _drive_square.c: a way does  *)
(* not end before its place, nor begin before its time.                     *)
TrialsCount ==
    /\ part = "sharps" => Trial!TableIsMeasured
    /\ part = "pid" => Trial!ParametersAreTried
    /\ part = "beacons" => Trial!BeaconsAsSeen
    /\ part = "net" => Trial!PatternsAsTaught
    /\ part = "olympic" => Trial!SlalomTurnsBack
    /\ part = "check" => Small!CheckIsMeasured
    /\ part = "object" => Small!BackAfterSight
    /\ part = "guard" => Small!ZonesSettle
    /\ part = "places" => Small!ArrivesThere
    /\ part = "steps" => Small!StepsAsMeant

(* behaviour_pathplanning.c: the planned places lead over free cells to the  *)
(* destination.                                                             *)
RouteIsPassable == part = "plan" => Plan!RouteIsPassable
=============================================================================
