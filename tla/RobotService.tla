---------------------------- MODULE RobotService ----------------------------
(***************************************************************************)
(* What a program built on robot.c promises about the wheels, with no      *)
(* threads and no frames: while it is up it may drive them at any speeds;  *)
(* it stops them once, for good; and it leaves only with the wheels at     *)
(* rest.                                                                   *)
(***************************************************************************)
EXTENDS Integers

CONSTANTS Wheels, Speeds

VARIABLES motor, phase

serviceVars == <<motor, phase>>

Rest == [w \in Wheels |-> 0]

ServiceInit == motor = Rest /\ phase = "up"

Drive ==
  /\ phase = "up"
  /\ motor' \in [Wheels -> Speeds]
  /\ UNCHANGED phase

Stop ==
  /\ phase = "up"
  /\ motor' = Rest
  /\ phase' = "stopped"

Leave ==
  /\ phase \in {"up", "stopped"}
  /\ motor = Rest
  /\ phase' = "gone"
  /\ UNCHANGED motor

ServiceNext == Drive \/ Stop \/ Leave

ServiceSpec == ServiceInit /\ [][ServiceNext]_serviceVars
=============================================================================
