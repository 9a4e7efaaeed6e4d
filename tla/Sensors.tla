------------------------------ MODULE Sensors ------------------------------
(***************************************************************************)
(* The sensor side of robot.c and spicomm.c: the update thread copies the  *)
(* last received frame, msgRX, into the robot struct field by field, and a *)
(* controller reads the struct meanwhile, here in waitWhileCrowded.        *)
(*                                                                         *)
(* The update thread calls update only when the controller has changed a   *)
(* wheel speed, which may be at any round or never; it senses every round. *)
(* The eight words of ir_range are followed in the struct by ir_amb, which *)
(* initRobot zeroes and nothing writes.                                    *)
(*                                                                         *)
(* The accelerometer is one word here; getRobotAcc copies all three alike. *)
(***************************************************************************)
EXTENDS Integers

CONSTANTS
  Frames,     (* frames the dsPIC may answer with                           *)
  CopyWords,  (* words that memset(rxbuf, 0, sizeof rxbuf) clears           *)
  Waits,      (* what rand() % 1000 may be                                  *)
  MaxRounds   (* bound: rounds of the update thread                         *)

IrIndex == 0..7
Word == {x \in Int : -32768 <= x /\ x <= 32767}
FrameType == [ir : [IrIndex -> Word], acc : Word, tac : Word]

ASSUME SensorsAssumption ==
  /\ Frames \subseteq FrameType
  /\ CopyWords \in 0..8
  /\ Waits \subseteq 0..999
  /\ MaxRounds \in Nat

VARIABLES
  msgRX,         (* the last frame                                          *)
  ir_range, ir_crowding, ir_front_right, ir_rear_right, ir_rear_left,
  ir_front_left, acl, last_steps, steps,       (* the struct                *)
  upc, i, rounds,                              (* the update thread         *)
  cpc, wait, result                            (* the controller            *)

irVars == <<ir_range, ir_crowding, ir_front_right, ir_rear_right, ir_rear_left, ir_front_left>>
robotVars == <<irVars, acl, last_steps, steps>>
controllerVars == <<cpc, wait, result>>
vars == <<msgRX, robotVars, upc, i, rounds, controllerVars>>

Int16(x) == ((x + 32768) % 65536) - 32768
Divide(n, d) == IF n >= 0 THEN n \div d ELSE -((-n) \div d)

TypeOK ==
  /\ msgRX \in FrameType
  /\ ir_range \in [IrIndex -> Word] /\ ir_crowding \in Word
  /\ {ir_front_right, ir_rear_right, ir_rear_left, ir_front_left} \subseteq Word
  /\ acl \in Word /\ last_steps \in Word /\ steps \in Int
  /\ upc \in {"test", "ir", "add", "divide", "means", "acc", "steps", "end"}
  /\ i \in 0..8 /\ rounds \in 0..MaxRounds
  /\ cpc \in {"idle", "test_wait", "test_ir", "decay", "return"}
  /\ wait \in -1..999 /\ result \in Word

Init ==
  /\ msgRX = [ir |-> [j \in IrIndex |-> 0], acc |-> 0, tac |-> 0]
  /\ ir_range = [j \in IrIndex |-> 0]
  /\ ir_crowding = 0 /\ ir_front_right = 0 /\ ir_rear_right = 0
  /\ ir_rear_left = 0 /\ ir_front_left = 0
  /\ acl = 0 /\ last_steps = 0 /\ steps = 0
  /\ upc = "test" /\ i = 0 /\ rounds = 0
  /\ cpc = "idle" /\ wait = -1 /\ result = 0

-----------------------------------------------------------------------------
(* The update thread. *)

Round ==
  /\ upc = "test" /\ rounds < MaxRounds
  /\ rounds' = rounds + 1 /\ upc' = "ir"
  /\ UNCHANGED <<robotVars, i, controllerVars>>

(* update: a frame comes back, or the ioctl fails and the memset clears    *)
(* only as many words as a pointer has.                                    *)
Transfer ==
  /\ Round
  /\ \/ msgRX' \in Frames
     \/ msgRX' = [msgRX EXCEPT !.ir = [j \in IrIndex |-> IF j < CopyWords THEN 0 ELSE @[j]]]

(* No speed has changed. *)
NoTransfer == Round /\ UNCHANGED msgRX

(* Faulty: the sum goes on from the last mean. *)
ClearCrowdingNot ==
  /\ upc = "ir" /\ upc' = "add"
  /\ i' = 0
  /\ UNCHANGED <<irVars, msgRX, acl, last_steps, steps, rounds, controllerVars>>

(* getRobotIR *)
ClearCrowding ==
  /\ upc = "ir" /\ upc' = "add"
  /\ ir_crowding' = 0 /\ i' = 0
  /\ UNCHANGED <<ir_range, ir_front_right, ir_rear_right, ir_rear_left, ir_front_left,
                 msgRX, acl, last_steps, steps, rounds, controllerVars>>

(* Faulty: adds the range before it is stored. *)
AddRangeEarly ==
  /\ upc = "add"
  /\ ir_range' = [ir_range EXCEPT ![i] = msgRX.ir[i]]
  /\ ir_crowding' = Int16(ir_crowding + ir_range[i])
  /\ i' = i + 1
  /\ upc' = IF i = 7 THEN "divide" ELSE "add"
  /\ UNCHANGED <<ir_front_right, ir_rear_right, ir_rear_left, ir_front_left,
                 msgRX, acl, last_steps, steps, rounds, controllerVars>>

AddRange ==
  /\ upc = "add"
  /\ ir_range' = [ir_range EXCEPT ![i] = msgRX.ir[i]]
  /\ ir_crowding' = Int16(ir_crowding + msgRX.ir[i])
  /\ i' = i + 1
  /\ upc' = IF i = 7 THEN "divide" ELSE "add"
  /\ UNCHANGED <<ir_front_right, ir_rear_right, ir_rear_left, ir_front_left,
                 msgRX, acl, last_steps, steps, rounds, controllerVars>>

DivideCrowding ==
  /\ upc = "divide" /\ upc' = "means"
  /\ ir_crowding' = Divide(ir_crowding, 8)
  /\ UNCHANGED <<ir_range, ir_front_right, ir_rear_right, ir_rear_left, ir_front_left,
                 msgRX, acl, last_steps, steps, i, rounds, controllerVars>>

(* Faulty: one more range than the mean is divided by. *)
MeansWide ==
  /\ upc = "means" /\ upc' = "acc"
  /\ ir_front_right' = Divide(ir_range[1] + ir_range[2] + ir_range[3], 3)
  /\ ir_rear_right' = Divide(ir_range[3] + ir_range[4], 2)
  /\ ir_rear_left' = Divide(ir_range[4] + ir_range[5] + ir_range[6], 2)
  /\ ir_front_left' = Divide(ir_range[6] + ir_range[7], 3)
  /\ UNCHANGED <<ir_range, ir_crowding, msgRX, acl, last_steps, steps, i, rounds,
                 controllerVars>>

(* ir_range[8] is ir_amb[0], which is 0. *)
ir_amb == 0

Means ==
  /\ upc = "means" /\ upc' = "acc"
  /\ ir_front_right' = Divide(ir_range[1] + ir_range[2] + ir_range[3], 3)
  /\ ir_rear_right' = Divide(ir_range[3] + ir_range[4], 2)
  /\ ir_rear_left' = Divide(ir_range[5] + ir_range[6], 2)
  /\ ir_front_left' = Divide(ir_range[6] + ir_range[7] + ir_amb, 3)
  /\ UNCHANGED <<ir_range, ir_crowding, msgRX, acl, last_steps, steps, i, rounds,
                 controllerVars>>

getRobotAcc ==
  /\ upc = "acc" /\ upc' = "steps"
  /\ acl' = msgRX.acc
  /\ UNCHANGED <<irVars, msgRX, last_steps, steps, i, rounds, controllerVars>>

(* The steps of a frame are added again in every round without a new one.  *)
getRobotSteps ==
  /\ upc = "steps" /\ upc' = "test"
  /\ last_steps' = msgRX.tac
  /\ steps' = steps + msgRX.tac
  /\ UNCHANGED <<irVars, acl, msgRX, i, rounds, controllerVars>>

UpdateStep ==
  \/ Transfer \/ NoTransfer \/ ClearCrowding \/ AddRange \/ DivideCrowding \/ Means
  \/ getRobotAcc \/ getRobotSteps

-----------------------------------------------------------------------------
(* The controller's waitWhileCrowded. *)

Controller(here, next) ==
  /\ cpc = here /\ cpc' = next
  /\ UNCHANGED <<msgRX, robotVars, upc, i, rounds>>

Call == Controller("idle", "test_wait") /\ wait' = -1 /\ UNCHANGED result

TestWait ==
  /\ Controller("test_wait", IF wait # 0 THEN "test_ir" ELSE "return")
  /\ UNCHANGED <<wait, result>>

TestIr ==
  /\ Controller("test_ir", IF ir_crowding > 0 THEN "decay" ELSE "return")
  /\ UNCHANGED <<wait, result>>

(* Faulty: growth, no decay. *)
Doubled(ticks) == IF ticks = -1 THEN Waits ELSE {2 * ticks}

(* ticks *= expf(-2*ticks) is less than 1 for every ticks: truncated, 0.   *)
Decayed(ticks) == IF ticks = -1 THEN Waits ELSE {0}

waitForRandDecay ==
  /\ Controller("decay", "test_wait")
  /\ wait' \in Decayed(wait)
  /\ UNCHANGED result

Return == Controller("return", "idle") /\ result' = ir_crowding /\ UNCHANGED wait

InWait == TestWait \/ TestIr \/ waitForRandDecay \/ Return

Ended == rounds = MaxRounds /\ upc = "test" /\ cpc = "idle" /\ UNCHANGED vars

Next == UpdateStep \/ Call \/ InWait \/ Ended

Spec == Init /\ [][Next]_vars

-----------------------------------------------------------------------------
(* Whatever a reader without a lock catches in ir_crowding, in the middle  *)
(* of the sum too, it is a sum or a mean of ranges: 8 ranges of 12 bits    *)
(* never overflow its int16_t, so "crowded" never reads as negative.       *)
CrowdingInRange == 0 <= ir_crowding /\ ir_crowding <= 32760

RangeSum == ir_range[0] + ir_range[1] + ir_range[2] + ir_range[3]
              + ir_range[4] + ir_range[5] + ir_range[6] + ir_range[7]

(* Once summed, it is the mean of the eight ranges, whatever it was before *)
(* and whatever part of the frame the last transfer left stale.            *)
CrowdingIsMean ==
  upc \in {"means", "acc", "steps", "test"} => ir_crowding = Divide(RangeSum, 8)

Between(mean, js) ==
  /\ \E j \in js : ir_range[j] <= mean
  /\ \E j \in js : mean <= ir_range[j]

(* The mean of a side lies between the ranges of that side.  The word past *)
(* the array makes the front left one a third too small, and no worse.     *)
MeansOfSides ==
  upc \in {"acc", "steps", "test"} =>
    /\ Between(ir_front_right, {1, 2, 3})
    /\ Between(ir_rear_right, {3, 4})
    /\ Between(ir_rear_left, {5, 6})
    /\ \E low \in {6, 7} : 2 * ir_range[low] < 3 * (ir_front_left + 1)
    /\ \E high \in {6, 7} : 3 * ir_front_left <= 2 * ir_range[high]
=============================================================================
