---------------------------- MODULE RwalkProofs ----------------------------
(***************************************************************************)
(* Proofs about Rwalk, for every speed, interval, deadline and set of      *)
(* threads the termination signal may be delivered to.                     *)
(***************************************************************************)
EXTENDS Rwalk, TLAPS

(* The types that every step preserves. *)
LEMMA InitTypes == Init => TypeOK
<1> SUFFICES ASSUME Init PROVE TypeOK
  OBVIOUS
<1>1. AtRest \in [Wheel -> Speeds]
  BY SpeedsAssumption DEF AtRest
<1>2. RobotTypeOK
  BY <1>1 DEF Init, RobotInit, SpiInit, RobotTypeOK, SpiTypeOK
<1>3. pc["main"] = "init" /\ pc["update"] = "none" /\ pc \in [Thread -> MainPcs \cup UpdatePcs]
  BY DEF Init, Thread, MainPcs, UpdatePcs
<1>4. pending \in [Thread -> SUBSET Wheel]
  BY DEF Init
<1>5. lapsed_time \in 0..Deadline /\ left \in Int
  BY RwalkAssumption DEF Init
<1>. QED
  BY <1>2, <1>3, <1>4, <1>5 DEF Init, TypeOK, MainPcs, UpdatePcs

LEMMA MotionType ==
  ASSUME NEW m \in Turns \cup {"straight"}, NEW w \in Wheel
  PROVE  Motion(m)[w] \in Speeds
BY RwalkAssumption DEF Motion, Turns, Wheel

LEMMA IntervalType == {TurnTime} \subseteq Int /\ Durations \subseteq Int
BY RwalkAssumption

(* closeRobot takes the thread that runs it to a place that thread has.    *)
LEMMA ClosePcType ==
  ASSUME TypeOK, NEW t \in Thread, NEW next \in ClosePcs \cup {AfterClose(t)},
         pc' = [pc EXCEPT ![t] = next]
  PROVE  /\ pc' \in [Thread -> MainPcs \cup UpdatePcs]
         /\ pc'["main"] \in MainPcs /\ pc'["update"] \in UpdatePcs
<1>1. CASE t = "main"
  BY <1>1 DEF TypeOK, Thread, MainPcs, UpdatePcs, AfterClose
<1>2. CASE t = "update"
  BY <1>2 DEF TypeOK, Thread, MainPcs, UpdatePcs, AfterClose
<1>. QED
  BY <1>1, <1>2 DEF Thread

LEMMA WalkTypes == TypeOK /\ Walk => TypeOK'
<1> SUFFICES ASSUME TypeOK, Walk PROVE TypeOK'
  OBVIOUS
<1> USE DEF TypeOK, RobotTypeOK, SpiTypeOK, Thread, robotVars, spiVars, timeVars, Step
<1>1. CASE OpenSpi
  BY <1>1 DEF OpenSpi, init_spi, MainPcs
<1>2. CASE Abort
  BY <1>2 DEF Abort, controlVars
<1>3. CASE CreateThread
  BY <1>3 DEF CreateThread, MainPcs, UpdatePcs, LoopPcs
<1>4. CASE CreateFails \/ SetAlive \/ Kill \/ Join
  BY <1>4 DEF CreateFails, SetAlive, Kill, Join, MainPcs
<1>5. CASE ChooseTurn
  BY <1>5 DEF ChooseTurn, Turns, MainPcs
<1>6. ASSUME NEW m \in Turns \cup {"straight"}, NEW w \in Wheel,
             NEW next \in {"wait_turn", "wait_go"}, Steer(m, w, next)
      PROVE  TypeOK'
  <2>1. Motion(m)[w] \in Speeds
    BY MotionType
  <2>. QED
    BY <1>6, <2>1 DEF Steer, StepWheel, Wheel, MainPcs
<1>7. CASE BeginWait("wait_turn", "turning", {TurnTime})
           \/ BeginWait("wait_go", "going", Durations)
  <2>1. left' \in Int
    BY <1>7, IntervalType DEF BeginWait
  <2>. QED
    BY <1>7, <2>1 DEF BeginWait, MainPcs
<1>8. CASE EndWait("turning", "straight") \/ EndWait("going", "check") \/ CheckTime
  BY <1>8 DEF EndWait, CheckTime, MainPcs
<1>. QED
  BY <1>1, <1>2, <1>3, <1>4, <1>5, <1>6, <1>7, <1>8 DEF Walk

LEMMA LoopTypes ==
  TypeOK /\ UpdateLoop /\ UNCHANGED <<proc, handler, timeVars>> => TypeOK'
<1> SUFFICES ASSUME TypeOK, UpdateLoop, UNCHANGED <<proc, handler, timeVars>>
             PROVE  TypeOK'
  OBVIOUS
<1> USE DEF TypeOK, RobotTypeOK, SpiTypeOK, Thread, robotVars, spiVars, timeVars, Step
<1>1. CASE LedOn \/ TestAlive \/ Sense
  BY <1>1 DEF LedOn, TestAlive, Sense, UpdatePcs, LoopPcs, ClosePcs
<1>2. CASE Send
  BY <1>2 DEF Send, update, Deliver, UpdatePcs, LoopPcs
<1>3. ASSUME NEW w \in Wheel, Boot(w) \/ LoadArg(w) \/ Save(w)
      PROVE  TypeOK'
  BY <1>3 DEF Boot, LoadArg, Save, StepWheel, Wheel, UpdatePcs, LoopPcs
<1>4. ASSUME NEW w \in Wheel, Compare(w)
      PROVE  TypeOK'
  <2>1. CASE speed[w] # prestate[w]
    BY <1>4, <2>1 DEF Compare, Jump, UpdatePcs, LoopPcs
  <2>2. CASE speed[w] = prestate[w]
    BY <1>4, <2>2 DEF Compare, StepWheel, Wheel, UpdatePcs, LoopPcs
  <2>. QED
    BY <2>1, <2>2
<1>5. ASSUME NEW w \in Wheel, SetSpeed(w)
      PROVE  TypeOK'
  <2>1. msgTX' \in [set_motor : BOOLEAN, reset : BOOLEAN, motor : [Wheel -> Speeds]]
    BY <1>5 DEF SetSpeed, setSpeed
  <2>. QED
    BY <1>5, <2>1 DEF SetSpeed, setSpeed, StepWheel, UpdatePcs, LoopPcs
<1>. QED
  BY <1>1, <1>2, <1>3, <1>4, <1>5 DEF UpdateLoop

LEMMA CloseTypes ==
  ASSUME TypeOK, NEW t \in Thread, Close(t)
  PROVE  TypeOK'
<1> DEFINE Rest == RobotTypeOK' /\ pending' \in [Thread -> SUBSET Wheel]
           Next1 == \E next \in ClosePcs \cup {AfterClose(t)} : pc' = [pc EXCEPT ![t] = next]
<1> USE DEF RobotTypeOK, SpiTypeOK, robotVars, spiVars, Step
<1>1. ASSUME CloseAlive(t) \/ CloseLed(t)
      PROVE  Next1 /\ Rest
  <2>1. Next1
    BY <1>1 DEF CloseAlive, CloseLed, ClosePcs
  <2>2. Rest
    BY <1>1 DEF TypeOK, CloseAlive, CloseLed
  <2>. QED
    BY <2>1, <2>2
<1>2. ASSUME CloseSend(t) \/ CloseResend(t, AfterClose(t))
      PROVE  Next1 /\ Rest
  <2>1. Next1
    BY <1>2 DEF CloseSend, CloseResend, ClosePcs
  <2>2. Rest
    BY <1>2 DEF TypeOK, CloseSend, CloseResend, update, Deliver
  <2>. QED
    BY <2>1, <2>2
<1>3. ASSUME CloseReset(t)
      PROVE  Next1 /\ Rest
  <2>1. Next1
    BY <1>3 DEF CloseReset, ClosePcs
  <2>2. Rest
    BY <1>3 DEF TypeOK, CloseReset, reset_robot
  <2>. QED
    BY <2>1, <2>2
<1>4. ASSUME NEW w \in Wheel, CloseSpeed(t, w)
      PROVE  Next1 /\ Rest
  <2>1. Next1
    BY <1>4 DEF TypeOK, CloseSpeed, StepWheel, ClosePcs
  <2>2. pending' \in [Thread -> SUBSET Wheel]
    BY <1>4 DEF TypeOK, CloseSpeed, StepWheel
  <2>3. msgTX' \in [set_motor : BOOLEAN, reset : BOOLEAN, motor : [Wheel -> Speeds]]
    BY <1>4, SpeedsAssumption DEF TypeOK, CloseSpeed, setSpeed
  <2>. QED
    BY <1>4, <2>1, <2>2, <2>3 DEF TypeOK, CloseSpeed, setSpeed
<1>5. Next1 /\ Rest
  BY <1>1, <1>2, <1>3, <1>4 DEF Close, CloseRobot
<1>6. UNCHANGED <<proc, handler, lapsed_time, left>>
  BY DEF Close, timeVars
<1>. QED
  BY <1>5, <1>6, ClosePcType DEF TypeOK

LEMMA SignalTypes ==
  ASSUME TypeOK,
         Alarm \/ (\E t \in SigHosts : Terminate(t)) \/ (\E t \in Thread : Exit(t))
  PROVE  TypeOK'
<1> USE DEF TypeOK, RobotTypeOK, SpiTypeOK, Thread, robotVars, spiVars, timeVars, controlVars
<1>1. CASE Alarm
  BY <1>1, RwalkAssumption DEF Alarm
<1>2. ASSUME NEW t \in SigHosts, Terminate(t)
      PROVE  TypeOK'
  BY <1>2, RwalkAssumption DEF Terminate, Jump, Wheel, UpdatePcs, MainPcs, ClosePcs
<1>3. ASSUME NEW t \in Thread, Exit(t)
      PROVE  TypeOK'
  BY <1>3 DEF Exit
<1>. QED
  BY <1>1, <1>2, <1>3

(* The type invariant of the program, whatever the constants. *)
THEOREM TypeCorrect == Spec => []TypeOK
<1>1. Init => TypeOK
  BY InitTypes
<1>2. TypeOK /\ [Next]_vars => TypeOK'
  <2> SUFFICES ASSUME TypeOK, [Next]_vars PROVE TypeOK'
    OBVIOUS
  <2>1. CASE MainStep
    BY <2>1, WalkTypes, CloseTypes, SignalTypes DEF MainStep, Thread
  <2>2. CASE UpdateStep
    BY <2>2, LoopTypes, CloseTypes, SignalTypes DEF UpdateStep, Thread
  <2>3. CASE AlarmStep \/ TerminateStep
    BY <2>3, SignalTypes DEF AlarmStep, TerminateStep
  <2>4. CASE UNCHANGED vars
    BY <2>4 DEF vars, TypeOK, RobotTypeOK, SpiTypeOK, robotVars, spiVars, controlVars, timeVars
  <2>. QED
    BY <2>1, <2>2, <2>3, <2>4 DEF Next, Ended
<1>. QED
  BY <1>1, <1>2, PTL DEF Spec

-----------------------------------------------------------------------------
(* The shutdown, while main is not in the termination handler.             *)

ShutdownInv == UpdateCloses /\ MainWaits /\ ResetAtRest

LEMMA ShutdownInit == Init => ShutdownInv
BY DEF Init, RobotInit, SpiInit, ShutdownInv, UpdateCloses, MainWaits, ResetAtRest,
       Thread, WheelPcs, StopStored, StopSent, LedCleared, ResetStored, ClosePcs

(* main's own steps change neither the frame nor the dsPIC. *)
LEMMA WalkShutdown ==
  ASSUME TypeOK, ShutdownInv, Walk
  PROVE  ShutdownInv'
<1> USE DEF ShutdownInv, robotVars, spiVars, timeVars, controlVars
<1>1. /\ UNCHANGED <<msgTX, dsPIC, board_led, handler>>
      /\ pending'["update"] = pending["update"]
  BY DEF Walk, OpenSpi, init_spi, Abort, CreateThread, CreateFails, SetAlive, ChooseTurn,
         Steer, StepWheel, BeginWait, EndWait, CheckTime, Kill, Join, Step, TypeOK, Thread, Turns
<1>2. ResetAtRest'
  BY <1>1 DEF ResetAtRest
<1>3. CASE CreateThread
  <2>1. pc["update"] = "none" /\ pc'["update"] = "boot" /\ pc'["main"] = "set_alive"
    BY <1>3 DEF CreateThread, MainWaits, TypeOK, Thread
  <2>2. UpdateCloses'
    BY <1>1, <2>1 DEF UpdateCloses, WheelPcs, StopStored, StopSent, LedCleared, ResetStored, ClosePcs
  <2>3. MainWaits'
    BY <1>3, <2>1 DEF CreateThread, MainWaits, ClosePcs
  <2>. QED
    BY <1>2, <2>2, <2>3
<1>4. CASE ~CreateThread
  <2>1. pc'["update"] = pc["update"]
    BY <1>4 DEF Walk, OpenSpi, Abort, CreateFails, SetAlive, ChooseTurn,
         Steer, StepWheel, BeginWait, EndWait, CheckTime, Kill, Join, Step, TypeOK, Thread
  <2>2. UpdateCloses'
    BY <1>1, <2>1 DEF UpdateCloses
  <2>3. MainWaits'
    BY <1>4, <1>1, <2>1 DEF MainWaits, Walk, OpenSpi, Abort, CreateFails, SetAlive, ChooseTurn,
         Steer, StepWheel, BeginWait, EndWait, CheckTime, Kill, Join, Step, TypeOK, Thread,
         Turns, ClosePcs
  <2>. QED
    BY <1>2, <2>2, <2>3
<1>. QED
  BY <1>3, <1>4

(* In its loop the update thread sends frames without a reset bit. *)
LEMMA LoopShutdown ==
  ASSUME TypeOK, ShutdownInv, UpdateLoop, UNCHANGED <<proc, handler, timeVars>>
  PROVE  ShutdownInv'
<1> USE DEF ShutdownInv, robotVars, spiVars, Thread
<1>1. pc["update"] \in LoopPcs /\ pc'["update"] \in LoopPcs \cup {"c_alive"}
  BY DEF UpdateLoop, LedOn, TestAlive, Send, Sense, Boot, Compare, LoadArg, SetSpeed, Save,
         Step, StepWheel, Jump, LoopPcs, TypeOK
<1>2. pc'["main"] = pc["main"] /\ UNCHANGED <<alive, proc, handler>>
  BY DEF UpdateLoop, LedOn, TestAlive, Send, Sense, Boot, Compare, LoadArg, SetSpeed, Save,
         Step, StepWheel, Jump, TypeOK
<1>3. ~msgTX.reset /\ ~msgTX'.reset
  BY <1>1 DEF UpdateCloses, LoopPcs, ClosePcs, UpdateLoop, LedOn, TestAlive, Send, Sense, Boot,
              Compare, LoadArg, SetSpeed, Save, setSpeed, update
<1>4. pc'["update"] \notin WheelPcs => pending'["update"] = Wheel
  BY <1>1 DEF UpdateCloses, WheelPcs, LoopPcs, UpdateLoop, LedOn, TestAlive, Send, Sense, Boot,
              Compare, LoadArg, SetSpeed, Save, Step, StepWheel, Jump, TypeOK
<1>5. UpdateCloses'
  BY <1>1, <1>3, <1>4 DEF UpdateCloses, LoopPcs, StopStored, StopSent, LedCleared, ResetStored
<1>6. MainWaits'
  BY <1>1, <1>2 DEF MainWaits, LoopPcs
<1>7. ResetAtRest'
  BY <1>3 DEF ResetAtRest, UpdateLoop, LedOn, TestAlive, Send, Sense, Boot,
              Compare, LoadArg, SetSpeed, Save, setSpeed, update, Deliver
<1>. QED
  BY <1>5, <1>6, <1>7

(* closeRobot on the update thread, whether from its loop or in the handler. *)
LEMMA CloseShutdown ==
  ASSUME TypeOK, ShutdownInv, Close("update")
  PROVE  ShutdownInv'
<1> USE DEF ShutdownInv, Close, robotVars, spiVars, timeVars, Thread
<1>1. /\ pc["update"] \in ClosePcs
      /\ pc'["update"] \in ClosePcs \cup {AfterClose("update")}
      /\ pc'["main"] = pc["main"]
      /\ UNCHANGED <<proc, handler>>
      /\ ~alive => ~alive'
  <2>1. UNCHANGED <<proc, handler>>
    OBVIOUS
  <2>2. ~alive => ~alive'
    BY DEF CloseRobot, CloseAlive, CloseSpeed, CloseSend, CloseLed, CloseReset, CloseResend
  <2>3. ASSUME NEW here \in ClosePcs, NEW next \in ClosePcs \cup {AfterClose("update")},
               Step("update", here, next)
        PROVE  /\ pc["update"] \in ClosePcs /\ pc'["main"] = pc["main"]
               /\ pc'["update"] \in ClosePcs \cup {AfterClose("update")}
    BY <2>3 DEF Step, TypeOK
  <2>4. ASSUME NEW w \in Wheel, StepWheel("update", w, "c_speed", "c_send")
        PROVE  /\ pc["update"] \in ClosePcs /\ pc'["main"] = pc["main"]
               /\ pc'["update"] \in ClosePcs
    BY <2>4 DEF StepWheel, ClosePcs, TypeOK
  <2>5. /\ pc["update"] \in ClosePcs /\ pc'["main"] = pc["main"]
        /\ pc'["update"] \in ClosePcs \cup {AfterClose("update")}
    BY <2>3, <2>4 DEF CloseRobot, CloseAlive, CloseSpeed, CloseSend, CloseLed, CloseReset,
                      CloseResend, ClosePcs
  <2>. QED
    BY <2>1, <2>2, <2>5
<1>2. MainWaits'
  <2>1. pc["update"] \notin {"none", "dead"} /\ pc'["update"] # "none"
    BY <1>1 DEF ClosePcs, AfterClose
  <2>2. pc["main"] \notin {"init", "create", "exit"} \cup ClosePcs
    BY <2>1 DEF MainWaits
  <2>3. pc'["main"] \in {"set_alive", "join"} => ~alive'
    BY <1>1 DEF MainWaits
  <2>4. proc' = "exited" => handler' = "update"
    BY <1>1, <2>2 DEF MainWaits
  <2>. QED
    BY <1>1, <2>1, <2>2, <2>3, <2>4 DEF MainWaits
<1>3. ASSUME NEW w \in Wheel, CloseSpeed("update", w)
      PROVE  UpdateCloses' /\ ResetAtRest'
  <2>1. /\ msgTX'.set_motor /\ msgTX'.motor = [msgTX.motor EXCEPT ![w] = 0]
        /\ msgTX'.reset = msgTX.reset /\ dsPIC' = dsPIC
    BY <1>3 DEF CloseSpeed, setSpeed
  <2>2. CASE pending["update"] = {w}
    <3>1. pc["update"] = "c_speed" /\ pc'["update"] = "c_send" /\ pending'["update"] = Wheel
      BY <1>3, <2>2 DEF CloseSpeed, StepWheel, TypeOK
    <3>2. msgTX'.motor = AtRest
      BY <2>1, <2>2, <3>1 DEF UpdateCloses, AtRest, TypeOK, RobotTypeOK, SpiTypeOK
    <3>. QED
      BY <2>1, <3>1, <3>2 DEF UpdateCloses, ResetAtRest, StopStored, StopSent, LedCleared,
                              ResetStored, ClosePcs
  <2>3. CASE pending["update"] # {w}
    <3>1. /\ pc["update"] = "c_speed" /\ pc'["update"] = "c_speed"
          /\ pending'["update"] = pending["update"] \ {w}
      BY <1>3, <2>3 DEF CloseSpeed, StepWheel, TypeOK
    <3>2. \A v \in Wheel \ pending'["update"] : msgTX'.motor[v] = 0
      BY <2>1, <3>1 DEF UpdateCloses, TypeOK, RobotTypeOK, SpiTypeOK
    <3>. QED
      BY <2>1, <3>1, <3>2 DEF UpdateCloses, ResetAtRest, StopStored, StopSent, LedCleared,
                              ResetStored, ClosePcs, WheelPcs
  <2>. QED
    BY <2>2, <2>3
<1>4. CASE CloseAlive("update") \/ CloseLed("update") \/ CloseReset("update")
  BY <1>4, <1>1, <1>2 DEF CloseAlive, CloseLed, CloseReset, reset_robot, Step, UpdateCloses, ResetAtRest,
       WheelPcs, StopStored, StopSent, LedCleared, ResetStored, ClosePcs, TypeOK, RobotTypeOK, SpiTypeOK
<1>5. CASE CloseSend("update") \/ CloseResend("update", AfterClose("update"))
  BY <1>5, <1>1, <1>2 DEF CloseSend, CloseResend, update, Deliver, AfterClose, Step, UpdateCloses,
       ResetAtRest, WheelPcs, StopStored, StopSent, LedCleared, ResetStored, ClosePcs, TypeOK
<1>. QED
  BY <1>2, <1>3, <1>4, <1>5 DEF CloseRobot

(* The signals and the end of the process. *)
LEMMA SignalShutdown ==
  ASSUME TypeOK, ShutdownInv, handler' # "main",
         \/ Alarm
         \/ \E t \in SigHosts : Terminate(t)
         \/ \E t \in Thread : Exit(t)
  PROVE  ShutdownInv'
<1> USE DEF ShutdownInv, robotVars, spiVars, timeVars, controlVars, Thread
<1>1. CASE Alarm
  BY <1>1 DEF Alarm, UpdateCloses, MainWaits, ResetAtRest
<1>2. ASSUME NEW t \in SigHosts, Terminate(t)
      PROVE  ShutdownInv'
  <2>1. t = "update" /\ handler' = "update"
    BY <1>2, RwalkAssumption DEF Terminate
  <2>2. /\ pc["update"] \notin {"none", "dead"} /\ pc'["update"] = "c_alive"
        /\ pc'["main"] = pc["main"] /\ pending'["update"] = Wheel
        /\ UNCHANGED <<msgTX, dsPIC, board_led, alive, proc>>
    BY <1>2, <2>1 DEF Terminate, Jump, TypeOK
  <2>3. UpdateCloses'
    BY <2>2 DEF UpdateCloses, WheelPcs, StopStored, StopSent, LedCleared, ResetStored, ClosePcs
  <2>4. MainWaits'
    BY <2>1, <2>2 DEF MainWaits
  <2>. QED
    BY <2>2, <2>3, <2>4 DEF ResetAtRest
<1>3. ASSUME NEW t \in Thread, Exit(t)
      PROVE  ShutdownInv'
  BY <1>3 DEF Exit, UpdateCloses, MainWaits, ResetAtRest
<1>. QED
  BY <1>1, <1>2, <1>3

(* Main leaves the inductive part only through the handler, for good.      *)
LEMMA ShutdownStep == TypeOK /\ Shutdown /\ [Next]_vars => Shutdown'
<1> SUFFICES ASSUME TypeOK, Shutdown, [Next]_vars, handler' # "main"
             PROVE  ShutdownInv'
  BY DEF Shutdown, ShutdownInv
<1>1. handler # "main" /\ ShutdownInv
  <2>1. handler' # handler => handler = "none"
    BY DEF Next, MainStep, UpdateStep, AlarmStep, TerminateStep, Ended, Walk, vars, Terminate,
           OpenSpi, Abort, CreateThread, CreateFails, SetAlive, ChooseTurn, Steer, BeginWait,
           EndWait, CheckTime, Kill, Join, Close, Exit, Alarm
  <2>. QED
    BY <2>1 DEF Shutdown, ShutdownInv
<1>2. CASE MainStep
  <2>1. ~Close("main")
    BY <1>1 DEF ShutdownInv, MainWaits, Close, CloseRobot, CloseAlive, CloseSpeed, CloseSend,
                CloseLed, CloseReset, CloseResend, Step, StepWheel, ClosePcs
  <2>. QED
    BY <1>1, <1>2, <2>1, WalkShutdown, SignalShutdown DEF MainStep, Thread
<1>3. CASE UpdateStep
  BY <1>1, <1>3, LoopShutdown, CloseShutdown, SignalShutdown DEF UpdateStep, Thread
<1>4. CASE AlarmStep \/ TerminateStep
  BY <1>1, <1>4, SignalShutdown DEF AlarmStep, TerminateStep
<1>5. CASE UNCHANGED vars
  BY <1>1, <1>5 DEF vars, ShutdownInv, UpdateCloses, MainWaits, ResetAtRest, robotVars, spiVars,
                    controlVars, timeVars
<1>. QED
  BY <1>2, <1>3, <1>4, <1>5 DEF Next, Ended

(* The inductive invariant of the shutdown holds for every constant,       *)
(* failing SPI transfers and any delivery of the signals included.         *)
THEOREM ShutdownCorrect == Spec => []Shutdown
<1>1. Init => Shutdown
  BY ShutdownInit DEF Shutdown, ShutdownInv
<1>. QED
  BY <1>1, ShutdownStep, TypeCorrect, PTL DEF Spec

(* main returns only when no thread touches the robot any more, with a     *)
(* stop and a reset in the frame, the LED off and alive cleared            *)
(* (diffuse.c:136-145), even if transfers fail and whoever takes signals.  *)
THEOREM OrderlyEndCorrect == Spec => []OrderlyEnd
<1>1. TypeOK /\ Shutdown => OrderlyEnd
  BY DEF Shutdown, UpdateCloses, MainWaits, OrderlyEnd, StopStored, StopSent, LedCleared,
         ResetStored
<1>. QED
  BY <1>1, TypeCorrect, ShutdownCorrect, PTL

(* The reset frame of closeRobot never carries a speed (spicomm.c:120),    *)
(* if main does not run the termination handler.                           *)
THEOREM ResetAtRestCorrect ==
  ASSUME "main" \notin SigHosts
  PROVE  Spec => []ResetAtRest
<1>1. TypeOK /\ Shutdown => ResetAtRest
  BY DEF TypeOK, Shutdown
<1>. QED
  BY <1>1, TypeCorrect, ShutdownCorrect, PTL

-----------------------------------------------------------------------------
(* With transfers that succeed, a stop that was sent has arrived.          *)

StopArrived ==
  /\ pc["update"] # "none" => spi
  /\ pc["main"] \notin ClosePcs \cup {"init"} => spi
  /\ pc["update"] \in StopSent \cup {"none"} => dsPIC.motor = AtRest
  /\ proc # "running" => dsPIC.motor = AtRest

ExitInv == handler # "main" => ShutdownInv /\ StopArrived

LEMMA MainArrived ==
  ASSUME TypeOK, ShutdownInv, StopArrived, Walk
  PROVE  StopArrived'
<1>1. dsPIC' = dsPIC
  BY DEF Walk, OpenSpi, init_spi, Abort, CreateThread, CreateFails, SetAlive, ChooseTurn,
         Steer, BeginWait, EndWait, CheckTime, Kill, Join, spiVars
<1>2. CASE Abort
  BY <1>1, <1>2 DEF Abort, StopArrived, ShutdownInv, MainWaits, spiVars, controlVars
<1>3. CASE OpenSpi
  BY <1>1, <1>3 DEF OpenSpi, init_spi, Step, StopArrived, TypeOK, Thread
<1>4. CASE CreateThread
  BY <1>1, <1>4 DEF CreateThread, StopArrived, ShutdownInv, MainWaits, StopSent, StopStored,
                    TypeOK, Thread, spiVars, ClosePcs
<1>5. CASE ~Abort /\ ~OpenSpi /\ ~CreateThread
  <2>1. pc'["update"] = pc["update"] /\ UNCHANGED <<spi, proc>>
    BY <1>5 DEF Walk, CreateFails, SetAlive, ChooseTurn, Steer, StepWheel, BeginWait, EndWait,
                CheckTime, Kill, Join, Step, TypeOK, Thread, spiVars
  <2>2. pc["main"] \notin ClosePcs \cup {"init"}
    BY <1>5 DEF Walk, CreateFails, SetAlive, ChooseTurn, Steer, StepWheel, BeginWait, EndWait,
                CheckTime, Kill, Join, Step, ShutdownInv, MainWaits, Turns
  <2>. QED
    BY <1>1, <2>1, <2>2 DEF StopArrived
<1>. QED
  BY <1>2, <1>3, <1>4, <1>5

LEMMA UpdateArrived ==
  ASSUME TypeOK, ShutdownInv, StopArrived, ~SpiMayFail, proc = "running",
         \/ UpdateLoop /\ UNCHANGED <<proc, handler, timeVars>>
         \/ Close("update")
  PROVE  StopArrived'
<1> USE DEF ShutdownInv, StopArrived, robotVars, spiVars, Thread
<1>1. pc["update"] \in LoopPcs \cup ClosePcs /\ pc'["main"] = pc["main"] /\ spi
  BY DEF UpdateLoop, LedOn, TestAlive, Send, Sense, Boot, Compare, LoadArg, SetSpeed, Save, Jump,
         Close, CloseRobot, CloseAlive, CloseSpeed, CloseSend, CloseLed, CloseReset, CloseResend,
         Step, StepWheel, LoopPcs, ClosePcs, TypeOK
<1>2. spi' = spi /\ proc' = proc
  BY DEF UpdateLoop, LedOn, TestAlive, Send, Sense, Boot, Compare, LoadArg, SetSpeed, Save,
         Close, CloseRobot, CloseAlive, CloseSpeed, CloseSend, CloseLed, CloseReset, CloseResend,
         setSpeed, update, reset_robot
<1>3. ASSUME pc'["update"] \in StopSent \cup {"none"}
      PROVE  dsPIC'.motor = AtRest
  <2>1. CASE UpdateLoop
    BY <1>3, <2>1 DEF UpdateLoop, LedOn, TestAlive, Send, Sense, Boot, Compare, LoadArg, SetSpeed,
                 Save, Jump, Step, StepWheel, StopSent, StopStored, TypeOK
  <2>2. CASE CloseAlive("update") \/ CloseLed("update") \/ CloseReset("update")
             \/ \E w \in Wheel : CloseSpeed("update", w)
    BY <1>3, <2>2 DEF CloseAlive, CloseLed, CloseReset, CloseSpeed, setSpeed, reset_robot, Step,
                 StepWheel, StopSent, StopStored, TypeOK
  <2>3. CASE CloseSend("update") \/ CloseResend("update", AfterClose("update"))
    <3>1. msgTX.set_motor /\ msgTX.motor = AtRest
      BY <2>3 DEF CloseSend, CloseResend, Step, UpdateCloses, StopStored
    <3>2. Deliver
      BY <2>3, <1>1 DEF CloseSend, CloseResend, update
    <3>. QED
      BY <3>1, <3>2 DEF Deliver
  <2>. QED
    BY <2>1, <2>2, <2>3 DEF Close, CloseRobot
<1>. QED
  BY <1>1, <1>2, <1>3

LEMMA ExitStep ==
  ASSUME ~SpiMayFail
  PROVE  TypeOK /\ ExitInv /\ Shutdown' /\ [Next]_vars => ExitInv'
<1> SUFFICES ASSUME TypeOK, ExitInv, Shutdown', [Next]_vars, handler' # "main"
             PROVE  StopArrived'
  BY DEF ExitInv, Shutdown, ShutdownInv
<1>1. handler # "main" /\ ShutdownInv /\ StopArrived
  <2>1. handler' # handler => handler = "none"
    BY DEF Next, MainStep, UpdateStep, AlarmStep, TerminateStep, Ended, Walk, vars, Terminate,
           OpenSpi, Abort, CreateThread, CreateFails, SetAlive, ChooseTurn, Steer, BeginWait,
           EndWait, CheckTime, Kill, Join, Close, Exit, Alarm
  <2>. QED
    BY <2>1 DEF ExitInv
<1>2. ASSUME NEW t \in Thread, Exit(t)
      PROVE  StopArrived'
  <2>1. pc["main"] = "exit" \/ pc["update"] = "exit"
    BY <1>2 DEF Exit, Thread
  <2>2. dsPIC.motor = AtRest
    BY <1>1, <2>1 DEF ShutdownInv, MainWaits, StopArrived, StopSent, StopStored
  <2>. QED
    BY <1>1, <1>2, <2>2 DEF Exit, StopArrived, spiVars, controlVars
<1>3. CASE MainStep
  <2>1. ~Close("main")
    BY <1>1 DEF ShutdownInv, MainWaits, Close, CloseRobot, CloseAlive, CloseSpeed, CloseSend,
                CloseLed, CloseReset, CloseResend, Step, StepWheel, ClosePcs
  <2>. QED
    BY <1>1, <1>2, <1>3, <2>1, MainArrived DEF MainStep, Thread
<1>4. CASE UpdateStep
  BY <1>1, <1>2, <1>4, UpdateArrived DEF UpdateStep, Thread
<1>5. CASE AlarmStep
  BY <1>1, <1>5 DEF AlarmStep, Alarm, StopArrived, spiVars, controlVars
<1>6. CASE TerminateStep
  <2>1. /\ pc'["update"] = "c_alive" /\ pc["update"] # "none" /\ pc'["main"] = pc["main"]
        /\ UNCHANGED <<spi, dsPIC, proc>>
    BY <1>6, RwalkAssumption DEF TerminateStep, Terminate, Jump, TypeOK, spiVars, Thread
  <2>. QED
    BY <1>1, <2>1 DEF StopArrived, StopSent, StopStored
<1>7. CASE UNCHANGED vars
  BY <1>1, <1>7 DEF vars, StopArrived, spiVars, controlVars
<1>. QED
  BY <1>3, <1>4, <1>5, <1>6, <1>7 DEF Next, Ended

LEMMA ExitInvCorrect ==
  ASSUME ~SpiMayFail
  PROVE  Spec => []ExitInv
<1>1. Init => ExitInv
  BY ShutdownInit DEF Init, RobotInit, SpiInit, ExitInv, StopArrived, Thread
<1>. QED
  BY <1>1, ExitStep, TypeCorrect, ShutdownCorrect, PTL DEF Spec

(* The robot is at rest whenever the program has ended (diffuse.c:143),    *)
(* provided that transfers succeed (do_msg ignores the ones that fail,     *)
(* spicomm.c:79) and that main does not run the termination handler (the   *)
(* run rwalk_sigterm_main shows why).                                      *)
THEOREM SafeExitCorrect ==
  ASSUME ~SpiMayFail, "main" \notin SigHosts
  PROVE  Spec => []SafeExit
<1>1. TypeOK /\ ExitInv => SafeExit
  BY DEF TypeOK, ExitInv, StopArrived, SafeExit
<1>. QED
  BY <1>1, ExitInvCorrect, TypeCorrect, PTL

-----------------------------------------------------------------------------
(* The program implements RobotService.                                    *)

LEMMA StoppedStays ==
  ASSUME TypeOK, ExitInv, handler # "main", handler' # "main", Next, proc' = "running",
         Phase = "stopped"
  PROVE  Phase' = "stopped"
<1> DEFINE Closed == ClosePcs \cup {"dead", "exit"}
<1>1. /\ proc = "running" /\ pc["update"] \in Closed /\ dsPIC.motor = AtRest
      /\ UpdateCloses /\ MainWaits
  BY DEF Phase, ExitInv, ShutdownInv
<1>2. CASE MainStep
  <2>1. Walk
    BY <1>1, <1>2 DEF MainStep, Exit, MainWaits, Close, CloseRobot, CloseAlive, CloseSpeed, CloseSend,
                 CloseLed, CloseReset, CloseResend, Step, StepWheel, ClosePcs
  <2>2. ~CreateThread
    BY <1>1 DEF CreateThread, MainWaits, ClosePcs
  <2>3. dsPIC' = dsPIC
    BY <2>1 DEF Walk, OpenSpi, init_spi, Abort, CreateThread, CreateFails, SetAlive, ChooseTurn,
         Steer, BeginWait, EndWait, CheckTime, Kill, Join, spiVars
  <2>4. pc'["update"] = pc["update"]
    BY <2>1, <2>2 DEF Walk, OpenSpi, Abort, CreateFails, SetAlive, ChooseTurn, Steer, StepWheel,
                BeginWait, EndWait, CheckTime, Kill, Join, Step, TypeOK, Thread, controlVars
  <2>. QED
    BY <1>1, <2>3, <2>4 DEF Phase
<1>3. CASE UpdateStep
  <2>1. Close("update")
    BY <1>1, <1>3 DEF UpdateStep, Exit, UpdateLoop, LedOn, TestAlive, Send, Sense, Boot, Compare,
                 LoadArg, SetSpeed, Save, Step, StepWheel, ClosePcs
  <2>2. pc'["update"] \in Closed
    BY <2>1 DEF Close, CloseRobot, CloseAlive, CloseSpeed, CloseSend, CloseLed, CloseReset,
                CloseResend, AfterClose, Step, StepWheel, ClosePcs, TypeOK, Thread
  <2>3. dsPIC'.motor = AtRest
    BY <1>1, <2>1 DEF Close, CloseRobot, CloseAlive, CloseSpeed, CloseSend, CloseLed, CloseReset,
                CloseResend, Step, UpdateCloses, StopStored, setSpeed, update, Deliver,
                reset_robot, spiVars
  <2>. QED
    BY <2>2, <2>3 DEF Phase
<1>4. CASE AlarmStep \/ Ended
  BY <1>1, <1>4 DEF AlarmStep, Alarm, Ended, vars, spiVars, controlVars, Phase
<1>5. CASE TerminateStep
  <2>1. pc'["update"] = "c_alive" /\ dsPIC' = dsPIC
    BY <1>5, RwalkAssumption DEF TerminateStep, Terminate, Jump, TypeOK, spiVars, Thread
  <2>. QED
    BY <1>1, <2>1 DEF Phase, ClosePcs
<1>. QED
  BY <1>2, <1>3, <1>4, <1>5 DEF Next

LEMMA ServiceStep ==
  ASSUME TypeOK, TypeOK', ExitInv, ExitInv', handler # "main", handler' # "main", [Next]_vars
  PROVE  [Service!ServiceNext]_Service!serviceVars
<1> USE DEF Service!ServiceNext, Service!serviceVars
<1>1. CASE UNCHANGED vars
  BY <1>1 DEF vars, spiVars, controlVars, Phase
<1>2. CASE Next /\ proc # "running"
  BY <1>2 DEF Next, MainStep, UpdateStep, AlarmStep, TerminateStep, Ended, vars, spiVars,
              controlVars, Phase
<1>3. CASE Next /\ proc = "running" /\ proc' # "running"
  <2>1. Abort \/ \E t \in Thread : Exit(t)
    BY <1>3 DEF Next, MainStep, UpdateStep, AlarmStep, TerminateStep, Ended, Walk, Terminate,
           OpenSpi, CreateThread, CreateFails, SetAlive, ChooseTurn, Steer, BeginWait,
           EndWait, CheckTime, Kill, Join, Close, Alarm, Thread, vars
  <2>2. dsPIC' = dsPIC
    BY <2>1 DEF Abort, Exit, spiVars
  <2>3. dsPIC'.motor = AtRest
    BY <1>3 DEF ExitInv, StopArrived
  <2>4. Phase \in {"up", "stopped"} /\ Phase' = "gone"
    BY <1>3 DEF Phase
  <2>5. Service!Leave
    BY <2>2, <2>3, <2>4 DEF Service!Leave, Service!Rest, AtRest
  <2>. QED
    BY <2>5
<1>4. CASE Next /\ proc = "running" /\ proc' = "running"
  <2>1. dsPIC'.motor \in [Wheel -> Speeds]
    BY DEF TypeOK, RobotTypeOK, SpiTypeOK
  <2>2. CASE Phase = "stopped"
    <3>1. Phase' = "stopped"
      BY <1>4, <2>2, StoppedStays
    <3>2. dsPIC'.motor = AtRest /\ dsPIC.motor = AtRest
      BY <2>2, <3>1 DEF Phase
    <3>. QED
      BY <2>2, <3>1, <3>2
  <2>3. CASE Phase = "up" /\ Phase' = "up"
    BY <2>1, <2>3 DEF Service!Drive
  <2>4. CASE Phase = "up" /\ Phase' = "stopped"
    <3>1. dsPIC'.motor = AtRest
      BY <2>4 DEF Phase
    <3>. QED
      BY <2>4, <3>1 DEF Service!Stop, Service!Rest, AtRest
  <2>. QED
    BY <1>4, <2>2, <2>3, <2>4 DEF Phase
<1>. QED
  BY <1>1, <1>2, <1>3, <1>4

(* Under the same provisos as SafeExitCorrect, the program implements      *)
(* RobotService: it stops the wheels once and for good, and ends at rest.  *)
THEOREM ImplementsServiceCorrect ==
  ASSUME ~SpiMayFail, "main" \notin SigHosts
  PROVE  Spec => ImplementsService
<1>1. Init => Service!ServiceInit
  BY DEF Init, RobotInit, SpiInit, Phase, Thread, AtRest, ClosePcs,
         Service!ServiceInit, Service!Rest
<1>2. TypeOK => handler # "main"
  BY DEF TypeOK
<1>3. TypeOK /\ TypeOK' /\ ExitInv /\ ExitInv' /\ [Next]_vars
        => [Service!ServiceNext]_Service!serviceVars
  <2>1. TypeOK' => handler' # "main"
    BY DEF TypeOK
  <2>. QED
    BY <1>2, <2>1, ServiceStep
<1>. QED
  BY <1>1, <1>3, TypeCorrect, ExitInvCorrect, PTL
     DEF Spec, ImplementsService, Service!ServiceSpec
=============================================================================
