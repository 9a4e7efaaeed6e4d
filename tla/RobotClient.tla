---------------------------- MODULE RobotClient ----------------------------
(***************************************************************************)
(* The update thread of robot.c under any controller that uses it through  *)
(* robot.h: once initRobot has returned, the controller stores the wheel   *)
(* speeds it wants, one field at a time.  It ends as the C++ wrapper does  *)
(* (Robot.cpp, Diffuse.cpp): the destructor clears alive, joins the thread *)
(* and frees the struct, a member of an object on main's stack; main then  *)
(* deletes the object, and its end runs the destructor once more.  What    *)
(* free and delete do to memory that is not theirs is undefined: they go   *)
(* on or abort the process.                                                *)
(*                                                                         *)
(* With no lock in the struct the stores fall at any step of the thread.   *)
(* It reads a speed more than once to relay it, so a store in between is   *)
(* one it never sees: raced remembers the wheels this has happened to.     *)
(***************************************************************************)
EXTENDS Robot

CONSTANT MaxWrites \* stores the controller makes before it leaves the robot be

ASSUME ClientAssumption == MaxWrites \in Nat

VARIABLES
  writes,      (* stores made so far                                        *)
  raced        (* the wheels stored since the thread loaded the argument it *)
               (* relays, and before its copy: what it copies it never sent *)

ObjectPcs == {"control", "join", "free", "delete", "again", "dead", "aborted"}

vars == <<spiVars, robotVars, controlVars, writes, raced>>

TypeOK ==
  /\ RobotTypeOK
  /\ pc \in [Thread -> LoopPcs \cup ClosePcs \cup ObjectPcs]
  /\ pending \in [Thread -> SUBSET Wheel]
  /\ writes \in 0..MaxWrites
  /\ raced \subseteq Wheel

(* The state initRobot leaves: the device is open, the thread is created   *)
(* and has done nothing yet, and alive is set.                             *)
Init ==
  /\ msgTX = [set_motor |-> FALSE, reset |-> FALSE, motor |-> AtRest]
  /\ spi = TRUE
  /\ dsPIC = [motor |-> AtRest, reset |-> FALSE]
  /\ alive = TRUE
  /\ speed = AtRest /\ prestate = AtRest /\ arg = AtRest
  /\ board_led = FALSE
  /\ pc = [t \in Thread |-> IF t = "main" THEN "control" ELSE "boot"]
  /\ pending = [t \in Thread |-> Wheel]
  /\ writes = 0
  /\ raced = {}

(* The wheels whose speed the thread will copy without having sent it. *)
Window ==
  LET left == pending["update"]
  IN CASE pc["update"] \in {"boot", "save"} -> left
       [] pc["update"] = "args" -> Wheel \ left
       [] pc["update"] = "set" -> Wheel
       [] OTHER -> {}

(* The controller stores a speed. *)
Write(w, s) ==
  /\ pc["main"] = "control" /\ alive
  /\ writes < MaxWrites
  /\ writes' = writes + 1
  /\ speed' = [speed EXCEPT ![w] = s]
  /\ raced' = raced \cup (Window \cap {w})
  /\ UNCHANGED <<alive, prestate, arg, board_led, spiVars, controlVars>>

(* The destructor: bot.alive = false ... *)
Destroy ==
  /\ Step("main", "control", "join")
  /\ alive' = FALSE
  /\ UNCHANGED <<speed, prestate, arg, board_led, spiVars, writes, raced>>

(* Faulty: the thread is left to end by itself. *)
JoinUpdateNot ==
  /\ Step("main", "join", "free")
  /\ UNCHANGED <<robotVars, spiVars, writes, raced>>

(* ... pthread_join ... *)
JoinUpdate ==
  /\ pc["update"] = "dead"
  /\ Step("main", "join", "free")
  /\ UNCHANGED <<robotVars, spiVars, writes, raced>>

(* ... and free(&bot); then delete &epuck, if the process is still there.  *)
FreeBot ==
  /\ \E next \in {"delete", "aborted"} : Step("main", "free", next)
  /\ UNCHANGED <<robotVars, spiVars, writes, raced>>

DeleteStack ==
  /\ \E next \in {"again", "aborted"} : Step("main", "delete", next)
  /\ UNCHANGED <<robotVars, spiVars, writes, raced>>

(* The destructor at the end of main, which joins a thread that has been   *)
(* joined (undefined, too) and frees once more.                            *)
DestroyAgain ==
  /\ \E next \in {"dead", "aborted"} : Step("main", "again", next)
  /\ alive' = FALSE
  /\ UNCHANGED <<speed, prestate, arg, board_led, spiVars, writes, raced>>

ControllerStep ==
  \/ \E w \in Wheel, s \in Speeds : Write(w, s)
  \/ Destroy \/ JoinUpdate \/ FreeBot \/ DeleteStack \/ DestroyAgain

(* A new relay of a wheel loads its speed again. *)
Reload == \E w \in Wheel : LoadArg(w) /\ raced' = raced \ {w}

UpdateStep ==
  /\ \/ Reload
     \/ pc["update"] # "args" /\ UpdateLoop /\ UNCHANGED raced
     \/ CloseRobot("update", "dead") /\ UNCHANGED raced
  /\ UNCHANGED writes

Ended == pc["update"] = "dead" /\ UNCHANGED vars

Next == ControllerStep \/ UpdateStep \/ Ended

Spec == Init /\ [][Next]_vars

(* Only the thread is scheduled fairly: a controller may do nothing.       *)
FairSpec == Spec /\ WF_vars(UpdateStep)

-----------------------------------------------------------------------------
(* The thread decides whether to send by comparing the struct with         *)
(* prestate, so prestate must be what the dsPIC was told: between two      *)
(* rounds of the loop they agree on every wheel but the raced ones, those  *)
(* stored between the load and the copy of their last relay.               *)
RelayCoherent ==
  pc["update"] \in {"test", "cmp", "sense"} =>
    \A w \in Wheel \ raced : dsPIC.motor[w] = prestate[w]

(* The relay does its job: once the controller's stores are over, the      *)
(* dsPIC has and keeps the speeds of the struct, unless the robot is being *)
(* closed.  A store is missed only if it raced the last relay of its own   *)
(* wheel, and the next relay, of either wheel, makes up for it.            *)
Relayed == <>[](alive => \A w \in Wheel \ raced : dsPIC.motor[w] = speed[w])

(* Whatever free and delete do to the process, they do it to a robot at    *)
(* rest, and no thread looks at the struct any more.                       *)
FreedAfterLoop ==
  pc["main"] \notin {"control", "join"} =>
    /\ pc["update"] = "dead" /\ ~alive
    /\ ~SpiMayFail => dsPIC = [motor |-> AtRest, reset |-> TRUE]

(* A retired robot comes to rest and stays there. *)
ComesToRest == (~alive) ~> [](dsPIC.motor = AtRest)
=============================================================================
