------------------------- MODULE RobotClientProofs -------------------------
(***************************************************************************)
(* Proofs about the relay of RobotClient, for every set of speeds and any  *)
(* number of stores of the controller.                                     *)
(***************************************************************************)
EXTENDS RobotClient, TLAPS

LEMMA InitTypes == Init => TypeOK
<1> SUFFICES ASSUME Init PROVE TypeOK
  OBVIOUS
<1>1. AtRest \in [Wheel -> Speeds]
  BY SpeedsAssumption DEF AtRest
<1>2. RobotTypeOK
  BY <1>1 DEF Init, RobotTypeOK, SpiTypeOK
<1>3. pc \in [Thread -> LoopPcs \cup ClosePcs \cup ObjectPcs]
  BY DEF Init, LoopPcs, ObjectPcs
<1>. QED
  BY <1>2, <1>3, ClientAssumption DEF Init, TypeOK

LEMMA ControllerTypes == TypeOK /\ ControllerStep => TypeOK'
<1> SUFFICES ASSUME TypeOK, ControllerStep PROVE TypeOK'
  OBVIOUS
<1> USE DEF TypeOK, RobotTypeOK, SpiTypeOK, robotVars, spiVars, controlVars
<1>1. CASE Destroy \/ JoinUpdate \/ FreeBot \/ DeleteStack \/ DestroyAgain
  BY <1>1 DEF Destroy, JoinUpdate, FreeBot, DeleteStack, DestroyAgain, Step, ObjectPcs
<1>2. ASSUME NEW w \in Wheel, NEW s \in Speeds, Write(w, s)
      PROVE  TypeOK'
  <2>1. raced' \subseteq Wheel
    BY <1>2 DEF Write
  <2>. QED
    BY <1>2, <2>1, ClientAssumption DEF Write
<1>. QED
  BY <1>1, <1>2 DEF ControllerStep

(* The three ways the update thread moves. *)
LEMMA UpdateSteps ==
  ASSUME UpdateStep
  PROVE  /\ \/ UpdateLoop /\ (pc["update"] # "args" => UNCHANGED raced)
            \/ CloseRobot("update", "dead") /\ UNCHANGED raced
         /\ pc["update"] = "args" /\ UpdateLoop => Reload
         /\ raced' \subseteq raced /\ UNCHANGED writes
<1>1. Reload => UpdateLoop /\ pc["update"] = "args" /\ raced' \subseteq raced
  BY DEF Reload, LoadArg, StepWheel, UpdateLoop
<1>2. CloseRobot("update", "dead") => pc["update"] # "args"
  BY DEF CloseRobot, CloseAlive, CloseSpeed, CloseSend, CloseLed, CloseReset, CloseResend, Step,
         StepWheel
<1>. QED
  BY <1>1, <1>2 DEF UpdateStep

LEMMA UpdateTypes == TypeOK /\ UpdateStep => TypeOK'
<1> SUFFICES ASSUME TypeOK, UpdateStep PROVE TypeOK'
  OBVIOUS
<1> USE DEF TypeOK, RobotTypeOK, SpiTypeOK, robotVars, spiVars
<1>0. writes' = writes /\ raced' \subseteq Wheel
  BY UpdateSteps
<1>1. CASE LedOn \/ TestAlive \/ Sense \/ CloseAlive("update") \/ CloseLed("update")
  BY <1>0, <1>1 DEF LedOn, TestAlive, Sense, CloseAlive, CloseLed, Step, LoopPcs, ClosePcs
<1>2. CASE Send \/ CloseSend("update") \/ CloseResend("update", "dead")
  BY <1>0, <1>2 DEF Send, CloseSend, CloseResend, update, Deliver, Step, LoopPcs, ClosePcs, ObjectPcs
<1>3. CASE CloseReset("update")
  BY <1>0, <1>3 DEF CloseReset, reset_robot, Step, ClosePcs
<1>4. ASSUME NEW w \in Wheel, Boot(w) \/ LoadArg(w) \/ Save(w)
      PROVE  TypeOK'
  BY <1>0, <1>4 DEF Boot, LoadArg, Save, StepWheel, Wheel, LoopPcs
<1>5. ASSUME NEW w \in Wheel, Compare(w)
      PROVE  TypeOK'
  <2>1. CASE speed[w] # prestate[w]
    BY <1>0, <1>5, <2>1 DEF Compare, Jump, LoopPcs
  <2>2. CASE speed[w] = prestate[w]
    BY <1>0, <1>5, <2>2 DEF Compare, StepWheel, Wheel, LoopPcs
  <2>. QED
    BY <2>1, <2>2
<1>6. ASSUME NEW w \in Wheel, SetSpeed(w) \/ CloseSpeed("update", w)
      PROVE  TypeOK'
  <2>1. msgTX' \in [set_motor : BOOLEAN, reset : BOOLEAN, motor : [Wheel -> Speeds]]
    <3>1. CASE SetSpeed(w)
      BY <3>1 DEF SetSpeed, setSpeed
    <3>2. CASE CloseSpeed("update", w)
      BY <3>2, SpeedsAssumption DEF CloseSpeed, setSpeed
    <3>. QED
      BY <1>6, <3>1, <3>2
  <2>2. pc' \in [Thread -> LoopPcs \cup ClosePcs \cup ObjectPcs]
        /\ pending' \in [Thread -> SUBSET Wheel]
    BY <1>6 DEF SetSpeed, CloseSpeed, StepWheel, LoopPcs, ClosePcs
  <2>. QED
    BY <1>0, <1>6, <2>1, <2>2 DEF SetSpeed, CloseSpeed, setSpeed
<1>. QED
  BY <1>1, <1>2, <1>3, <1>4, <1>5, <1>6, UpdateSteps DEF UpdateLoop, CloseRobot

(* The type invariant of the relay. *)
THEOREM TypeCorrect == Spec => []TypeOK
<1>1. TypeOK /\ [Next]_vars => TypeOK'
  <2>1. TypeOK /\ UNCHANGED vars => TypeOK'
    BY DEF TypeOK, RobotTypeOK, SpiTypeOK, vars, robotVars, spiVars, controlVars
  <2>. QED
    BY <2>1, ControllerTypes, UpdateTypes DEF Next, Ended
<1>. QED
  BY <1>1, InitTypes, PTL DEF Spec

-----------------------------------------------------------------------------
(* How far the relay of a changed speed has got, for each wheel that no    *)
(* store of the controller has raced: the argument, the frame and the copy *)
(* of the struct are the same speed.                                       *)

RelayInv ==
  LET u == pc["update"]
      left == pending["update"]
      kept == Wheel \ raced
  IN
  /\ spi
  /\ u \in {"led_on", "test", "send", "sense"} => left = Wheel
  /\ u = "boot" => /\ dsPIC.motor = AtRest
                   /\ \A w \in kept : prestate[w] = 0 /\ (w \in left => speed[w] = 0)
  /\ u \in {"led_on", "test", "cmp", "sense"} => \A w \in kept : dsPIC.motor[w] = prestate[w]
  /\ u = "args" => \A w \in kept \ left : arg[w] = speed[w]
  /\ u = "set" => /\ \A w \in kept : arg[w] = speed[w]
                  /\ \A w \in Wheel \ left : msgTX.set_motor /\ msgTX.motor[w] = arg[w]
  /\ u = "save" => /\ msgTX.set_motor
                   /\ \A w \in kept : msgTX.motor[w] = IF w \in left THEN speed[w] ELSE prestate[w]
  /\ u = "send" => msgTX.set_motor /\ \A w \in kept : msgTX.motor[w] = prestate[w]

LEMMA RelayInit == Init => RelayInv
BY DEF Init, RelayInv, Thread, Wheel, AtRest

LEMMA RelayController ==
  ASSUME TypeOK, RelayInv, ControllerStep
  PROVE  RelayInv'
<1> USE DEF spiVars, controlVars
<1>1. CASE Destroy \/ JoinUpdate \/ FreeBot \/ DeleteStack \/ DestroyAgain
  <2> USE DEF Destroy, JoinUpdate, FreeBot, DeleteStack, DestroyAgain
  <2>1. pc'["update"] = pc["update"] /\ pending' = pending
    BY <1>1 DEF Step, TypeOK, Thread
  <2>2. UNCHANGED <<speed, prestate, arg, spiVars, raced>>
    BY <1>1 DEF robotVars
  <2>. QED
    BY <2>1, <2>2 DEF RelayInv
<1>2. ASSUME NEW w \in Wheel, NEW s \in Speeds, Write(w, s)
      PROVE  RelayInv'
  <2>1. UNCHANGED <<prestate, arg, spiVars, controlVars>>
        /\ speed' = [speed EXCEPT ![w] = s] /\ raced' = raced \cup (Window \cap {w})
    BY <1>2 DEF Write
  <2>2. \A v \in Wheel \ raced' : v \in Wheel \ raced /\ (v \in Window => speed'[v] = speed[v])
    BY <2>1 DEF TypeOK, RobotTypeOK
  <2>. QED
    BY <2>1, <2>2 DEF RelayInv, Window
<1>. QED
  BY <1>1, <1>2 DEF ControllerStep

LEMMA RelayUpdate ==
  ASSUME ~SpiMayFail, TypeOK, RelayInv, UpdateStep
  PROVE  RelayInv'
<1> USE DEF robotVars, spiVars, RelayInv
<1>0. pc["update"] # "args" => UNCHANGED raced
  BY UpdateSteps DEF UpdateStep, Reload, LoadArg, StepWheel
<1>1. CASE CloseRobot("update", "dead")
  <2>1. pc'["update"] \in ClosePcs \cup {"dead"} /\ UNCHANGED spi
    BY <1>1 DEF CloseRobot, CloseAlive, CloseSpeed, CloseSend, CloseLed, CloseReset,
                CloseResend, Step, StepWheel, setSpeed, update, reset_robot, TypeOK, Thread, ClosePcs
  <2>. QED
    BY <2>1 DEF ClosePcs
<1>2. CASE LedOn \/ TestAlive \/ Sense
  BY <1>0, <1>2 DEF LedOn, TestAlive, Sense, Step, TypeOK, Thread, Wheel
<1>3. CASE Send
  BY <1>0, <1>3 DEF Send, Step, update, Deliver, TypeOK, Thread
<1>4. ASSUME NEW w \in Wheel, Boot(w)
      PROVE  RelayInv'
  BY <1>0, <1>4 DEF Boot, StepWheel, AtRest, TypeOK, RobotTypeOK, Thread
<1>5. ASSUME NEW w \in Wheel, Compare(w)
      PROVE  RelayInv'
  BY <1>0, <1>5 DEF Compare, Jump, StepWheel, TypeOK, Thread
<1>6. CASE pc["update"] = "args" /\ Reload
  <2>1. PICK w \in Wheel : LoadArg(w) /\ raced' = raced \ {w}
    BY <1>6 DEF Reload
  <2>. QED
    BY <2>1 DEF LoadArg, StepWheel, TypeOK, RobotTypeOK, Thread
<1>7. ASSUME NEW w \in Wheel, SetSpeed(w)
      PROVE  RelayInv'
  BY <1>0, <1>7 DEF SetSpeed, setSpeed, StepWheel, TypeOK, RobotTypeOK, SpiTypeOK, Thread
<1>8. ASSUME NEW w \in Wheel, Save(w)
      PROVE  RelayInv'
  BY <1>0, <1>8 DEF Save, StepWheel, TypeOK, RobotTypeOK, SpiTypeOK, Thread
<1>9. ASSUME NEW w \in Wheel, LoadArg(w)
      PROVE  pc["update"] = "args" /\ UpdateLoop
  BY <1>9 DEF LoadArg, StepWheel, UpdateLoop
<1>. QED
  BY <1>1, <1>2, <1>3, <1>4, <1>5, <1>6, <1>7, <1>8, <1>9, UpdateSteps DEF UpdateLoop

(* prestate is what the dsPIC was last told, at every loop test, whatever  *)
(* the controller stores and wherever its stores fall, on every wheel but  *)
(* one stored between the load of its argument and its copy, and on that   *)
(* one again from its next relay on; as long as no transfer fails.         *)
THEOREM RelayCoherentCorrect ==
  ASSUME ~SpiMayFail
  PROVE  Spec => []RelayCoherent
<1>1. TypeOK /\ RelayInv /\ [Next]_vars => RelayInv'
  <2>1. RelayInv /\ UNCHANGED vars => RelayInv'
    BY DEF RelayInv, vars, robotVars, spiVars, controlVars
  <2>. QED
    BY <2>1, RelayController, RelayUpdate DEF Next, Ended
<1>2. RelayInv => RelayCoherent
  BY DEF RelayInv, RelayCoherent
<1>. QED
  BY <1>1, <1>2, TypeCorrect, RelayInit, PTL DEF Spec

-----------------------------------------------------------------------------
(* What the update thread has stored at each place of its closeRobot; the  *)
(* object's thread gets past its join only when all of it is done.         *)

ClosingInv ==
  LET u == pc["update"]
      done == Wheel \ pending["update"]
  IN
  /\ spi
  /\ u \in {"led_on", "test", "send", "sense", "c_alive"} => pending["update"] = Wheel
  /\ u \in {"c_speed", "c_send", "c_led", "c_reset", "c_resend", "dead"} => ~alive
  /\ u = "c_speed" => \A w \in done : msgTX.set_motor /\ msgTX.motor[w] = 0
  /\ u \in {"c_send", "c_led", "c_reset", "c_resend", "dead"} =>
       msgTX.set_motor /\ msgTX.motor = AtRest
  /\ u \in {"c_resend", "dead"} => msgTX.reset
  /\ u = "dead" /\ ~SpiMayFail => dsPIC = [motor |-> AtRest, reset |-> TRUE]
  /\ pc["main"] \notin {"control", "join"} => u = "dead"

LEMMA ClosingInit == Init => ClosingInv
BY DEF Init, ClosingInv, Thread

LEMMA ClosingController ==
  ASSUME TypeOK, ClosingInv, ControllerStep
  PROVE  ClosingInv'
<1> USE DEF robotVars, spiVars, controlVars
<1>1. UNCHANGED <<msgTX, spi, dsPIC, pending>> /\ (~alive => ~alive')
  BY DEF ControllerStep, Write, Destroy, JoinUpdate, FreeBot, DeleteStack, DestroyAgain, Step
<1>2. pc'["update"] = pc["update"]
  BY DEF ControllerStep, Write, Destroy, JoinUpdate, FreeBot, DeleteStack, DestroyAgain, Step,
         TypeOK, Thread
<1>3. \/ pc'["main"] \in {"control", "join"}
      \/ pc["update"] = "dead"
  BY DEF ControllerStep, Write, Destroy, JoinUpdate, FreeBot, DeleteStack, DestroyAgain, Step,
         TypeOK, Thread, ClosingInv
<1>. QED
  BY <1>1, <1>2, <1>3 DEF ClosingInv

LEMMA ClosingUpdate ==
  ASSUME TypeOK, ClosingInv, UpdateStep
  PROVE  ClosingInv'
<1> USE DEF robotVars, spiVars
<1>1. pc'["main"] = pc["main"] /\ pc["update"] \in LoopPcs \cup ClosePcs
      /\ (pc["main"] \notin {"control", "join"} => FALSE)
  <2>1. pc'["main"] = pc["main"] /\ pc["update"] \in LoopPcs \cup ClosePcs
    BY UpdateSteps DEF UpdateLoop, CloseRobot, LedOn, TestAlive, Send, Sense, Boot, Compare,
           LoadArg, SetSpeed, Save, CloseAlive, CloseSpeed, CloseSend, CloseLed, CloseReset,
           CloseResend, Step, StepWheel, Jump, TypeOK, Thread, LoopPcs, ClosePcs
  <2>2. pc["update"] # "dead"
    BY <2>1 DEF LoopPcs, ClosePcs
  <2>. QED
    BY <2>1, <2>2 DEF ClosingInv
<1>2. CASE LedOn \/ TestAlive \/ Sense
  BY <1>1, <1>2 DEF LedOn, TestAlive, Sense, Step, TypeOK, Thread, ClosingInv
<1>3. CASE Send
  BY <1>1, <1>3 DEF Send, Step, update, TypeOK, Thread, ClosingInv
<1>4. ASSUME NEW w \in Wheel, Boot(w) \/ LoadArg(w) \/ Save(w) \/ Compare(w) \/ SetSpeed(w)
      PROVE  ClosingInv'
  <2>1. UNCHANGED <<spi, alive>> /\ pc'["update"] \in LoopPcs \ {"test"}
        /\ (pc'["update"] \in {"led_on", "send", "sense"} => pending'["update"] = Wheel)
    BY <1>4 DEF Boot, LoadArg, Save, Compare, SetSpeed, setSpeed, Jump, StepWheel, TypeOK, Thread,
                LoopPcs
  <2>. QED
    BY <1>1, <2>1 DEF ClosingInv, LoopPcs
<1>5. CASE CloseAlive("update") \/ CloseLed("update")
  <2>1. UNCHANGED <<msgTX, spi, dsPIC, pending>> /\ ~alive'
    <3>1. CASE CloseAlive("update")
      BY <3>1 DEF CloseAlive, Step
    <3>2. CASE CloseLed("update")
      <4>1. pc["update"] = "c_led" /\ UNCHANGED <<msgTX, spi, dsPIC, pending, alive>>
        BY <3>2 DEF CloseLed, Step
      <4>. QED
        BY <4>1 DEF ClosingInv
    <3>. QED
      BY <1>5, <3>1, <3>2
  <2>2. \/ pc["update"] = "c_alive" /\ pc'["update"] = "c_speed"
        \/ pc["update"] = "c_led" /\ pc'["update"] = "c_reset"
    BY <1>5 DEF CloseAlive, CloseLed, Step, TypeOK, Thread
  <2>. QED
    BY <1>1, <2>1, <2>2 DEF ClosingInv
<1>6. ASSUME NEW w \in Wheel, CloseSpeed("update", w)
      PROVE  ClosingInv'
  <2>1. /\ pc["update"] = "c_speed" /\ w \in pending["update"] /\ UNCHANGED <<spi, alive>>
        /\ msgTX'.set_motor /\ msgTX'.motor = [msgTX.motor EXCEPT ![w] = 0]
    BY <1>6 DEF CloseSpeed, StepWheel, setSpeed
  <2>2. msgTX.motor \in [Wheel -> Speeds] /\ pending["update"] \subseteq Wheel
    BY DEF TypeOK, RobotTypeOK, SpiTypeOK, Thread
  <2>3. CASE pending["update"] = {w}
    <3>1. pc'["update"] = "c_send"
      BY <1>6, <2>3 DEF CloseSpeed, StepWheel, TypeOK, Thread
    <3>2. msgTX'.motor = AtRest
      BY <2>1, <2>2, <2>3 DEF ClosingInv, AtRest
    <3>. QED
      BY <1>1, <2>1, <3>1, <3>2 DEF ClosingInv
  <2>4. CASE pending["update"] # {w}
    <3>1. pc'["update"] = "c_speed" /\ pending'["update"] = pending["update"] \ {w}
      BY <1>6, <2>1, <2>4 DEF CloseSpeed, StepWheel, TypeOK, Thread
    <3>2. \A v \in Wheel \ pending'["update"] : msgTX'.motor[v] = 0
      BY <2>1, <2>2, <3>1 DEF ClosingInv
    <3>. QED
      BY <1>1, <2>1, <3>1, <3>2 DEF ClosingInv
  <2>. QED
    BY <2>3, <2>4
<1>7. CASE CloseSend("update")
  BY <1>1, <1>7 DEF CloseSend, Step, update, TypeOK, Thread, ClosingInv
<1>8. CASE CloseReset("update")
  BY <1>1, <1>8 DEF CloseReset, reset_robot, Step, TypeOK, RobotTypeOK, SpiTypeOK, Thread, ClosingInv
<1>9. CASE CloseResend("update", "dead")
  BY <1>1, <1>9 DEF CloseResend, Step, update, Deliver, TypeOK, Thread, ClosingInv
<1>. QED
  BY <1>2, <1>3, <1>4, <1>5, <1>6, <1>7, <1>8, <1>9, UpdateSteps DEF UpdateLoop, CloseRobot

(* The object's memory is given up only when the robot is at rest and its  *)
(* thread gone.                                                            *)
THEOREM FreedAfterLoopCorrect == Spec => []FreedAfterLoop
<1>1. TypeOK /\ ClosingInv /\ [Next]_vars => ClosingInv'
  <2>1. ClosingInv /\ UNCHANGED vars => ClosingInv'
    BY DEF ClosingInv, vars, robotVars, spiVars, controlVars
  <2>. QED
    BY <2>1, ClosingController, ClosingUpdate DEF Next, Ended
<1>2. ClosingInv => FreedAfterLoop
  BY DEF ClosingInv, FreedAfterLoop
<1>. QED
  BY <1>1, <1>2, TypeCorrect, ClosingInit, PTL DEF Spec
=============================================================================
