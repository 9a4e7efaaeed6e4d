------------------------------- MODULE Rwalk -------------------------------
(***************************************************************************)
(* The program rwalk: diffuse.c's main thread and signal handlers, linked  *)
(* with the update thread of robot.c and the SPI frames of spicomm.c.      *)
(*                                                                         *)
(* main turns and goes straight until lapsed_time reaches a deadline, then *)
(* clears epuck.alive, joins the update thread and exits.  The interval    *)
(* timer delivers SIGALRM every Tick; SIGINT or SIGTERM may be delivered,  *)
(* once, to any thread of SigHosts, which then runs closeRobot and exit.   *)
(*                                                                         *)
(* No step takes a known time: usleep(2000000) in main is cut short by the *)
(* first SIGALRM, and a thread may be preempted anywhere.                  *)
(*                                                                         *)
(* lapsed_time is only ever compared with the deadline and with the wake-  *)
(* up time of waitFor, so it is kept up to Deadline, and the wake-up time  *)
(* as the time left until then.                                            *)
(***************************************************************************)
EXTENDS Robot

CONSTANTS
  Speed,       (* 600: the speed of every motion of the walk                *)
  TurnTime,    (* 100: the interval of a turn, in ms                        *)
  Durations,   (* 100..499: the intervals of a straight leg                 *)
  Tick,        (* 10: what one SIGALRM adds to lapsed_time                  *)
  Deadline,    (* 10000: lapsed_time at which the walk ends                 *)
  SigHosts     (* threads that SIGINT/SIGTERM may be delivered to           *)

ASSUME RwalkAssumption ==
  /\ Speed \in Int /\ Speeds = {Speed, -Speed, 0}
  /\ TurnTime \in Nat /\ Durations \subseteq Nat
  /\ Tick \in Nat \ {0} /\ Deadline \in Nat
  /\ SigHosts \subseteq Thread

VARIABLES
  proc,        (* the process: running, exited or aborted                   *)
  handler,     (* the thread that runs handlerSigTerm, or "none"            *)
  lapsed_time, (* ms counted by SIGALRM, up to Deadline                     *)
  left         (* what waitFor has left to wait; negative when it returns   *)

timeVars == <<lapsed_time, left>>
vars == <<spiVars, robotVars, controlVars, proc, handler, timeVars>>

(* The motions of the walk, as main stores them in the struct. *)
Turns == {"turn_right", "turn_left"}

(* Faulty: the left wheel twice as fast. *)
MotionDoubled(m) ==
  CASE m = "turn_right" -> [left |-> Speed,  right |-> -Speed]
    [] m = "turn_left"  -> [left |-> -Speed, right |-> Speed]
    [] m = "straight"   -> [left |-> Speed + Speed, right |-> Speed]

Motion(m) ==
  CASE m = "turn_right" -> [left |-> Speed,  right |-> -Speed]
    [] m = "turn_left"  -> [left |-> -Speed, right |-> Speed]
    [] m = "straight"   -> [left |-> Speed,  right |-> Speed]

MainPcs ==
  {"init", "create", "set_alive", "settle"} \cup Turns \cup
  {"wait_turn", "turning", "straight", "wait_go", "going",
   "check", "kill", "join", "exit"} \cup ClosePcs

UpdatePcs == {"none", "dead", "exit"} \cup LoopPcs \cup ClosePcs

TypeOK ==
  /\ RobotTypeOK
  /\ pc \in [Thread -> MainPcs \cup UpdatePcs]
  /\ pc["main"] \in MainPcs /\ pc["update"] \in UpdatePcs
  /\ pending \in [Thread -> SUBSET Wheel]
  /\ proc \in {"running", "exited", "aborted"}
  /\ handler \in SigHosts \cup {"none"}
  /\ lapsed_time \in 0..Deadline
  /\ left \in Int

Init ==
  /\ RobotInit
  /\ pc = [t \in Thread |-> IF t = "main" THEN "init" ELSE "none"]
  /\ pending = [t \in Thread |-> Wheel]
  /\ proc = "running"
  /\ handler = "none"
  /\ lapsed_time = 0
  /\ left = -1

-----------------------------------------------------------------------------
(* initRobot, called by main. *)

OpenSpi ==
  /\ Step("main", "init", "create")
  /\ init_spi
  /\ UNCHANGED <<robotVars, proc, handler, timeVars>>

(* pabort in init_spi. *)
Abort ==
  /\ pc["main"] = "init"
  /\ proc' = "aborted"
  /\ UNCHANGED <<spiVars, robotVars, controlVars, handler, timeVars>>

CreateThread ==
  /\ pc["main"] = "create"
  /\ pc' = [pc EXCEPT !["main"] = "set_alive", !["update"] = "boot"]
  /\ UNCHANGED <<spiVars, robotVars, pending, proc, handler, timeVars>>

(* pthread_create fails: initRobot returns false and main gives up. *)
CreateFails ==
  /\ Step("main", "create", "exit")
  /\ UNCHANGED <<spiVars, robotVars, proc, handler, timeVars>>

(* bot->alive = true, only after the thread was created. *)
SetAlive ==
  /\ Step("main", "set_alive", "settle")
  /\ alive' = TRUE
  /\ UNCHANGED <<speed, prestate, arg, board_led, spiVars, proc, handler, timeVars>>

-----------------------------------------------------------------------------
(* The walk. *)

ChooseTurn ==
  /\ \E m \in Turns : Step("main", "settle", m)
  /\ UNCHANGED <<spiVars, robotVars, proc, handler, timeVars>>

(* The two stores of a motion. *)
Steer(m, w, next) ==
  /\ StepWheel("main", w, m, next)
  /\ speed' = [speed EXCEPT ![w] = Motion(m)[w]]
  /\ UNCHANGED <<alive, prestate, arg, board_led, spiVars, proc, handler, timeVars>>

(* waitFor(interval): returns once lapsed_time has passed the wake-up time. *)
BeginWait(here, next, intervals) ==
  /\ Step("main", here, next)
  /\ left' \in intervals
  /\ UNCHANGED <<spiVars, robotVars, proc, handler, lapsed_time>>

(* Faulty: waits for one value of lapsed_time, which the ticks may skip. *)
EndWaitExact(here, next) ==
  /\ left = 0
  /\ Step("main", here, next)
  /\ UNCHANGED <<spiVars, robotVars, proc, handler, timeVars>>

EndWait(here, next) ==
  /\ left < 0
  /\ Step("main", here, next)
  /\ UNCHANGED <<spiVars, robotVars, proc, handler, timeVars>>

CheckTime ==
  /\ Step("main", "check", IF lapsed_time >= Deadline THEN "kill" ELSE "settle")
  /\ UNCHANGED <<spiVars, robotVars, proc, handler, timeVars>>

Kill ==
  /\ Step("main", "kill", "join")
  /\ alive' = FALSE
  /\ UNCHANGED <<speed, prestate, arg, board_led, spiVars, proc, handler, timeVars>>

(* Faulty: does not wait. *)
JoinAtOnce ==
  /\ Step("main", "join", "exit")
  /\ UNCHANGED <<spiVars, robotVars, proc, handler, timeVars>>

(* pthread_join blocks until the update thread has ended. *)
Join ==
  /\ pc["update"] = "dead"
  /\ Step("main", "join", "exit")
  /\ UNCHANGED <<spiVars, robotVars, proc, handler, timeVars>>

Walk ==
  \/ OpenSpi \/ Abort \/ CreateThread \/ CreateFails \/ SetAlive \/ ChooseTurn
  \/ \E m \in Turns, w \in Wheel : Steer(m, w, "wait_turn")
  \/ \E w \in Wheel : Steer("straight", w, "wait_go")
  \/ BeginWait("wait_turn", "turning", {TurnTime})
  \/ EndWait("turning", "straight")
  \/ BeginWait("wait_go", "going", Durations)
  \/ EndWait("going", "check")
  \/ CheckTime \/ Kill \/ Join

-----------------------------------------------------------------------------
(* Signals and the end of the process. *)

(* handlerSigAlarm *)
Alarm ==
  /\ lapsed_time' = IF lapsed_time + Tick < Deadline THEN lapsed_time + Tick ELSE Deadline
  /\ left' = IF left < 0 THEN left ELSE left - Tick
  /\ UNCHANGED <<spiVars, robotVars, controlVars, proc, handler>>

(* handlerSigTerm starts on thread t, which never resumes what it did.     *)
Terminate(t) ==
  /\ handler = "none"
  /\ pc[t] \notin {"none", "dead"}
  /\ handler' = t
  /\ Jump(t, "c_alive")
  /\ UNCHANGED <<spiVars, robotVars, proc, timeVars>>

(* Where closeRobot returns to: the end of the thread when the update      *)
(* thread called it from its loop, exit(3) in the handler.                 *)
AfterClose(t) == IF t = "update" /\ handler # t THEN "dead" ELSE "exit"

Close(t) ==
  /\ CloseRobot(t, AfterClose(t))
  /\ UNCHANGED <<proc, handler, timeVars>>

Exit(t) ==
  /\ pc[t] = "exit"
  /\ proc' = "exited"
  /\ UNCHANGED <<spiVars, robotVars, controlVars, handler, timeVars>>

MainStep ==
  proc = "running" /\ (Walk \/ Close("main") \/ Exit("main"))

UpdateStep ==
  /\ proc = "running"
  /\ \/ UpdateLoop /\ UNCHANGED <<proc, handler, timeVars>>
     \/ Close("update")
     \/ Exit("update")

AlarmStep == proc = "running" /\ Alarm

TerminateStep == proc = "running" /\ \E t \in SigHosts : Terminate(t)

(* The process is gone. *)
Ended == proc # "running" /\ UNCHANGED vars

Next == MainStep \/ UpdateStep \/ AlarmStep \/ TerminateStep \/ Ended

(* The scheduler runs every thread that can run, and the interval timer    *)
(* keeps firing.  Nobody has to press ctrl+c.                              *)
Fairness == WF_vars(MainStep) /\ WF_vars(UpdateStep) /\ WF_vars(AlarmStep)

Spec == Init /\ [][Next]_vars

FairSpec == Spec /\ Fairness

-----------------------------------------------------------------------------
(* "Should be safe to exit here, dsPIC will have stopped motors"           *)
(* (diffuse.c:143): when the process ends, on whatever path, the last      *)
(* speeds the dsPIC was given are zero.                                    *)
SafeExit == proc # "running" => dsPIC.motor = AtRest

(* The reset frame of closeRobot and every frame after it, msgTX.cmd.reset *)
(* being sticky, tells the dsPIC to stand still: a reset never comes with  *)
(* a speed.                                                                *)
ResetAtRest == dsPIC.reset => dsPIC.motor = AtRest

(* main returns only when the update thread is past closeRobot: no thread  *)
(* touches the frame any more, it holds a stop and a reset, and the LED is *)
(* off, whether or not the SPI transfers succeeded.                        *)
OrderlyEnd ==
  proc = "exited" /\ handler = "none" /\ pc["update"] # "none" =>
    /\ pc["update"] = "dead" /\ ~alive /\ ~board_led
    /\ msgTX.motor = AtRest /\ msgTX.reset

(* "Setup the epuck struct and get the update thread running"              *)
(* (diffuse.c:85): from the return of initRobot until somebody asks it to  *)
(* end, the update thread is in its loop.                                  *)
UpdateThreadRuns ==
  pc["main"] \in {"settle"} \cup Turns \cup
                {"wait_turn", "turning", "straight", "wait_go", "going", "check", "kill"}
    => pc["update"] \in LoopPcs \/ handler # "none"

(* The program keeps the promise of RobotService.                          *)
Phase ==
  IF proc # "running" THEN "gone"
  ELSE IF pc["update"] \in ClosePcs \cup {"dead", "exit"} /\ dsPIC.motor = AtRest
       THEN "stopped"
       ELSE "up"

Service == INSTANCE RobotService WITH
  Wheels <- Wheel, motor <- dsPIC.motor, phase <- Phase

ImplementsService == Service!ServiceSpec

(* How far the update thread's closeRobot has got, as seen in the shared   *)
(* state, as long as main is not in the handler: it stores both speeds     *)
(* before it sends, nobody stores others behind its back, and only it sets *)
(* the reset bit.  This is what SafeExit, ResetAtRest and OrderlyEnd rest  *)
(* on.                                                                     *)
WheelPcs == {"boot", "cmp", "args", "set", "save", "c_speed"}

StopStored  == {"c_send", "c_led", "c_reset", "c_resend", "dead", "exit"}
StopSent    == StopStored \ {"c_send"}
LedCleared  == StopSent \ {"c_led"}
ResetStored == LedCleared \ {"c_reset"}

UpdateCloses ==
  LET u == pc["update"] IN
  /\ u \notin WheelPcs => pending["update"] = Wheel
  /\ u = "c_speed" =>
       \A w \in Wheel \ pending["update"] : msgTX.set_motor /\ msgTX.motor[w] = 0
  /\ u \in StopStored => msgTX.set_motor /\ msgTX.motor = AtRest
  /\ u \in LedCleared => ~board_led
  /\ u \in ResetStored => msgTX.reset
  /\ msgTX.reset => u \in ClosePcs \cup {"dead", "exit"}
  /\ u = "exit" => handler = "update"

MainWaits ==
  LET m == pc["main"] u == pc["update"] IN
  /\ m \notin ClosePcs
  /\ m \in {"init", "create"} => u = "none"
  /\ u = "none" => m \in {"init", "create", "exit"}
  /\ m = "exit" => u \in {"none", "dead"}
  /\ m \in {"init", "create", "set_alive", "join", "exit"} => ~alive
  /\ proc = "exited" => m = "exit" \/ handler = "update"

Shutdown == handler # "main" => UpdateCloses /\ MainWaits /\ ResetAtRest

(* The walk ends by itself: the threads never wait for one another for     *)
(* ever, whichever way the update thread came to its end.                  *)
Terminates == <>(proc # "running")
=============================================================================
