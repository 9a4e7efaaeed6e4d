------------------------------- MODULE Robot -------------------------------
(***************************************************************************)
(* robot.c: the robot struct shared between a controller and the update    *)
(* thread, the loop of that thread, and closeRobot.                        *)
(*                                                                         *)
(* The struct has no lock.  Wherever the code touches the speeds of both   *)
(* wheels in one call or struct copy, the two accesses are two steps in    *)
(* either order (the order is the compiler's): pending[t] holds the wheels *)
(* that thread t has still to access at its present step.                  *)
(*                                                                         *)
(* The sensor fields, which getRobotIR, getRobotAcc and getRobotSteps fill *)
(* from msgRX, feed back into none of the state below; Sense is the step   *)
(* at which the thread passes them.                                        *)
(***************************************************************************)
EXTENDS Spicomm

VARIABLES
  alive,       (* bot->alive                                                *)
  speed,       (* bot->l_wheel_speed and bot->r_wheel_speed                 *)
  prestate,    (* the thread's copy of the speeds it last acted on          *)
  arg,         (* the arguments of the thread's call of setSpeed            *)
  board_led,   (* user LED 1 of the Linux board                             *)
  pc,          (* where each thread is                                      *)
  pending      (* the wheels left to access at the present step             *)

robotVars == <<alive, speed, prestate, arg, board_led>>
controlVars == <<pc, pending>>

Thread == {"main", "update"}

(* Where the update thread is in updateRobotState, and any thread in       *)
(* closeRobot; a thread that closes from the handler ends in "exit".       *)
LoopPcs  == {"boot", "led_on", "test", "cmp", "args", "set", "save", "send", "sense"}
ClosePcs == {"c_alive", "c_speed", "c_send", "c_led", "c_reset", "c_resend"}

RobotTypeOK ==
  /\ SpiTypeOK
  /\ alive \in BOOLEAN
  /\ speed \in [Wheel -> Speeds]
  /\ prestate \in [Wheel -> Speeds]
  /\ arg \in [Wheel -> Speeds]
  /\ board_led \in BOOLEAN

RobotInit ==
  /\ SpiInit
  /\ alive = FALSE
  /\ speed = AtRest
  /\ prestate = AtRest
  /\ arg = AtRest
  /\ board_led = FALSE

-----------------------------------------------------------------------------
(* Steps of a thread. *)

Step(t, here, next) ==
  /\ pc[t] = here
  /\ pc' = [pc EXCEPT ![t] = next]
  /\ UNCHANGED pending

(* One of the two accesses made at here; the second one moves on. *)
StepWheel(t, w, here, next) ==
  /\ pc[t] = here
  /\ w \in pending[t]
  /\ IF pending[t] = {w}
     THEN /\ pc' = [pc EXCEPT ![t] = next]
          /\ pending' = [pending EXCEPT ![t] = Wheel]
     ELSE /\ pending' = [pending EXCEPT ![t] = @ \ {w}]
          /\ UNCHANGED pc

(* Thread t is sent to here, whatever it was doing. *)
Jump(t, here) ==
  /\ pc' = [pc EXCEPT ![t] = here]
  /\ pending' = [pending EXCEPT ![t] = Wheel]

-----------------------------------------------------------------------------
(* updateRobotState. *)

(* prestate = *bot, on entry. *)
Boot(w) ==
  /\ StepWheel("update", w, "boot", "led_on")
  /\ prestate' = [prestate EXCEPT ![w] = speed[w]]
  /\ UNCHANGED <<alive, speed, arg, board_led, spiVars>>

LedOn ==
  /\ Step("update", "led_on", "test")
  /\ board_led' = TRUE
  /\ UNCHANGED <<alive, speed, prestate, arg, spiVars>>

(* Faulty: the thread returns without closeRobot. *)
TestAliveLeaves ==
  /\ Step("update", "test", IF alive THEN "cmp" ELSE "dead")
  /\ UNCHANGED <<robotVars, spiVars>>

(* while (bot->alive) *)
TestAlive ==
  /\ Step("update", "test", IF alive THEN "cmp" ELSE "c_alive")
  /\ UNCHANGED <<robotVars, spiVars>>

(* Faulty: the right wheel is forgotten. *)
CompareLeft(w) ==
  /\ IF speed["left"] # prestate["left"]
     THEN pc["update"] = "cmp" /\ w \in pending["update"] /\ Jump("update", "args")
     ELSE StepWheel("update", w, "cmp", "sense")
  /\ UNCHANGED <<robotVars, spiVars>>

(* The condition of the if: the left wheel first, and the first that       *)
(* differs decides.                                                        *)
Compare(w) ==
  /\ w = "right" => pending["update"] = {"right"}
  /\ IF speed[w] # prestate[w]
     THEN pc["update"] = "cmp" /\ w \in pending["update"] /\ Jump("update", "args")
     ELSE StepWheel("update", w, "cmp", "sense")
  /\ UNCHANGED <<robotVars, spiVars>>

(* Faulty: adds to the last arguments. *)
LoadArgAdding(w) ==
  /\ StepWheel("update", w, "args", "set")
  /\ arg' = [arg EXCEPT ![w] = @ + speed[w]]
  /\ UNCHANGED <<alive, speed, prestate, board_led, spiVars>>

(* setSpeed(bot->l_wheel_speed, bot->r_wheel_speed): the arguments ...     *)
LoadArg(w) ==
  /\ StepWheel("update", w, "args", "set")
  /\ arg' = [arg EXCEPT ![w] = speed[w]]
  /\ UNCHANGED <<alive, speed, prestate, board_led, spiVars>>

(* ... and the stores of the call. *)
SetSpeed(w) ==
  /\ StepWheel("update", w, "set", "save")
  /\ setSpeed(w, arg[w])
  /\ UNCHANGED robotVars

(* Faulty: prestate is left as it was. *)
SaveNothing(w) ==
  /\ StepWheel("update", w, "save", "send")
  /\ UNCHANGED <<robotVars, spiVars>>

(* prestate = *bot reads the struct again, after the call. *)
Save(w) ==
  /\ StepWheel("update", w, "save", "send")
  /\ prestate' = [prestate EXCEPT ![w] = speed[w]]
  /\ UNCHANGED <<alive, speed, arg, board_led, spiVars>>

Send ==
  /\ Step("update", "send", "sense")
  /\ update
  /\ UNCHANGED robotVars

Sense ==
  /\ Step("update", "sense", "test")
  /\ UNCHANGED <<robotVars, spiVars>>

UpdateLoop ==
  \/ LedOn \/ TestAlive \/ Send \/ Sense
  \/ \E w \in Wheel : Boot(w) \/ Compare(w) \/ LoadArg(w) \/ SetSpeed(w) \/ Save(w)

-----------------------------------------------------------------------------
(* closeRobot, run by thread t; done is where t goes when it returns.      *)

CloseAlive(t) ==
  /\ Step(t, "c_alive", "c_speed")
  /\ alive' = FALSE
  /\ UNCHANGED <<speed, prestate, arg, board_led, spiVars>>

(* Faulty: one wheel only. *)
CloseSpeedOnce(t, w) ==
  /\ pc[t] = "c_speed" /\ Jump(t, "c_send")
  /\ setSpeed(w, 0)
  /\ UNCHANGED robotVars

(* Faulty: the speeds of the struct. *)
CloseSpeedKept(t, w) ==
  /\ StepWheel(t, w, "c_speed", "c_send")
  /\ setSpeed(w, speed[w])
  /\ UNCHANGED robotVars

(* setSpeed(0,0) *)
CloseSpeed(t, w) ==
  /\ StepWheel(t, w, "c_speed", "c_send")
  /\ setSpeed(w, 0)
  /\ UNCHANGED robotVars

CloseSend(t) ==
  /\ Step(t, "c_send", "c_led")
  /\ update
  /\ UNCHANGED robotVars

CloseLed(t) ==
  /\ Step(t, "c_led", "c_reset")
  /\ board_led' = FALSE
  /\ UNCHANGED <<alive, speed, prestate, arg, spiVars>>

CloseReset(t) ==
  /\ Step(t, "c_reset", "c_resend")
  /\ reset_robot
  /\ UNCHANGED robotVars

CloseResend(t, done) ==
  /\ Step(t, "c_resend", done)
  /\ update
  /\ UNCHANGED robotVars

CloseRobot(t, done) ==
  \/ CloseAlive(t) \/ CloseSend(t) \/ CloseLed(t) \/ CloseReset(t)
  \/ CloseResend(t, done)
  \/ \E w \in Wheel : CloseSpeed(t, w)
=============================================================================
