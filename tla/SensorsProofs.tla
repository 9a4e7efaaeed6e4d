--------------------------- MODULE SensorsProofs ---------------------------
(***************************************************************************)
(* Proofs about Sensors, for every set of frames whose ranges have the 12  *)
(* bits of the IR converters, and any number of rounds.                    *)
(***************************************************************************)
EXTENDS Sensors, TLAPS

IndexInv == upc = "add" => i \in IrIndex

(* What the 16-bit words of the struct come from stays in 16 bits.         *)
LEMMA WordOfInt16 ==
  ASSUME NEW x \in Int
  PROVE  Int16(x) \in Word
<1> DEFINE y == x + 32768
<1>1. y \in Int
  OBVIOUS
<1>. HIDE DEF y
<1>2. y % 65536 \in Int /\ 0 <= y % 65536 /\ y % 65536 <= 65535
  BY <1>1
<1>3. Int16(x) = (y % 65536) - 32768
  BY DEF Int16, y
<1>. QED
  BY <1>2, <1>3 DEF Word

LEMMA WordOfMean ==
  ASSUME NEW x \in Int, NEW d \in {2, 3, 8}, -32768 * d <= x, x <= 32767 * d
  PROVE  Divide(x, d) \in Word
<1>1. CASE d = 2
  BY <1>1 DEF Divide, Word
<1>2. CASE d = 3
  BY <1>2 DEF Divide, Word
<1>3. CASE d = 8
  BY <1>3 DEF Divide, Word
<1>. QED
  BY <1>1, <1>2, <1>3

LEMMA TypeTransfer ==
  ASSUME TypeOK, Transfer \/ NoTransfer
  PROVE  TypeOK'
<1>1. msgRX' \in FrameType
  <2>1. CASE msgRX' \in Frames
    BY <2>1, SensorsAssumption
  <2>2. ASSUME NEW ir, ir = [j \in IrIndex |-> IF j < CopyWords THEN 0 ELSE msgRX.ir[j]],
               msgRX' = [msgRX EXCEPT !.ir = ir]
        PROVE  msgRX' \in FrameType
    <3>1. ir \in [IrIndex -> Word]
      BY <2>2 DEF TypeOK, FrameType, Word
    <3>. QED
      BY <2>2, <3>1 DEF TypeOK, FrameType
  <2>. QED
    BY <2>1, <2>2 DEF Transfer, NoTransfer, TypeOK
<1>2. Round
  BY DEF Transfer, NoTransfer
<1>3. rounds' \in 0..MaxRounds
  BY <1>2, SensorsAssumption DEF Round, TypeOK
<1>. QED
  BY <1>1, <1>2, <1>3 DEF Round, TypeOK, robotVars, irVars, controllerVars

LEMMA TypeSum ==
  ASSUME TypeOK, IndexInv, ClearCrowding \/ AddRange \/ DivideCrowding
  PROVE  TypeOK'
<1>1. CASE AddRange
  <2>1. i \in IrIndex /\ msgRX.ir[i] \in Word
    BY <1>1 DEF AddRange, IndexInv, TypeOK, FrameType
  <2>2. ir_range' \in [IrIndex -> Word]
    BY <1>1, <2>1 DEF AddRange, TypeOK
  <2>3. ir_crowding' \in Word
    <3>1. ir_crowding + msgRX.ir[i] \in Int
      BY <2>1 DEF TypeOK, Word
    <3>. QED
      BY <1>1, <3>1, WordOfInt16 DEF AddRange
  <2>4. i' \in 0..8
    BY <1>1, <2>1 DEF AddRange, IrIndex
  <2>. QED
    BY <1>1, <2>2, <2>3, <2>4 DEF AddRange, TypeOK, controllerVars
<1>2. CASE ClearCrowding
  BY <1>2 DEF ClearCrowding, TypeOK, Word, controllerVars
<1>3. CASE DivideCrowding
  <2>1. ir_crowding \in Int /\ -32768 * 8 <= ir_crowding /\ ir_crowding <= 32767 * 8
    BY DEF TypeOK, Word
  <2>2. ir_crowding' \in Word
    BY <1>3, <2>1, WordOfMean DEF DivideCrowding
  <2>. QED
    BY <1>3, <2>2 DEF DivideCrowding, TypeOK, controllerVars
<1>. QED
  BY <1>1, <1>2, <1>3

LEMMA TypeMeans ==
  ASSUME TypeOK, Means
  PROVE  TypeOK'
<1>1. \A j \in IrIndex : ir_range[j] \in Int /\ -32768 <= ir_range[j] /\ ir_range[j] <= 32767
  BY DEF TypeOK, Word
<1>2. {1, 2, 3, 4, 5, 6, 7} \subseteq IrIndex
  BY DEF IrIndex
<1>3. ir_front_right' \in Word
  BY <1>1, <1>2, WordOfMean DEF Means
<1>4. ir_rear_right' \in Word
  BY <1>1, <1>2, WordOfMean DEF Means
<1>5. ir_rear_left' \in Word
  BY <1>1, <1>2, WordOfMean DEF Means
<1>6. ir_front_left' \in Word
  BY <1>1, <1>2, WordOfMean DEF Means, ir_amb
<1>. QED
  BY <1>3, <1>4, <1>5, <1>6 DEF Means, TypeOK, controllerVars

LEMMA TypeController ==
  ASSUME TypeOK, Call \/ InWait
  PROVE  TypeOK'
<1>1. cpc' \in {"idle", "test_wait", "test_ir", "decay", "return"}
  BY DEF Call, InWait, TestWait, TestIr, waitForRandDecay, Return, Controller
<1>2. wait' \in -1..999
  <2>1. Decayed(wait) \subseteq -1..999
    BY SensorsAssumption DEF Decayed
  <2>. QED
    BY <2>1 DEF Call, InWait, TestWait, TestIr, waitForRandDecay, Return, TypeOK
<1>3. result' \in Word
  BY DEF Call, InWait, TestWait, TestIr, waitForRandDecay, Return, TypeOK
<1>4. UNCHANGED <<msgRX, robotVars, upc, i, rounds>>
  BY DEF Call, InWait, TestWait, TestIr, waitForRandDecay, Return, Controller
<1>. QED
  BY <1>1, <1>2, <1>3, <1>4 DEF TypeOK, robotVars, irVars

(* The types, for any frames the dsPIC may answer with. *)
THEOREM TypeCorrect == Spec => []TypeOK
<1>1. Init => TypeOK /\ IndexInv
  BY SensorsAssumption DEF Init, TypeOK, IndexInv, FrameType, Word
<1>2. TypeOK /\ IndexInv /\ [Next]_vars => TypeOK'
  <2> SUFFICES ASSUME TypeOK, IndexInv, [Next]_vars PROVE TypeOK'
    OBVIOUS
  <2>1. CASE Transfer \/ NoTransfer
    BY <2>1, TypeTransfer
  <2>2. CASE ClearCrowding \/ AddRange \/ DivideCrowding
    BY <2>2, TypeSum
  <2>3. CASE Means
    BY <2>3, TypeMeans
  <2>4. CASE getRobotAcc
    BY <2>4 DEF getRobotAcc, TypeOK, FrameType, irVars, controllerVars
  <2>5. CASE getRobotSteps
    BY <2>5 DEF getRobotSteps, TypeOK, FrameType, Word, irVars, controllerVars
  <2>6. CASE Call \/ InWait
    BY <2>6, TypeController
  <2>7. CASE UNCHANGED vars
    BY <2>7 DEF vars, robotVars, irVars, controllerVars, TypeOK
  <2>. QED
    BY <2>1, <2>2, <2>3, <2>4, <2>5, <2>6, <2>7 DEF Next, UpdateStep, Ended
<1>3. TypeOK /\ IndexInv /\ [Next]_vars => IndexInv'
  BY DEF TypeOK, IndexInv, IrIndex, Next, UpdateStep, Transfer, NoTransfer, Round, ClearCrowding,
         AddRange, DivideCrowding, Means, getRobotAcc, getRobotSteps, Call, InWait, TestWait,
         TestIr, waitForRandDecay, Return, Controller, Ended, vars, robotVars, irVars
<1>. QED
  BY <1>1, <1>2, <1>3, PTL DEF Spec

-----------------------------------------------------------------------------
TwelveBit(word) == word \in Int /\ 0 <= word /\ word <= 4095

TwelveBits == \A f \in Frames : \A j \in IrIndex : TwelveBit(f.ir[j])

RangesInv == \A j \in IrIndex : TwelveBit(msgRX.ir[j])

(* The sum grows by at most 4095 with each range added.                    *)
SumInv ==
  /\ ir_crowding \in Int /\ i \in Int
  /\ upc = "add" => 0 <= i /\ i <= 7 /\ 0 <= ir_crowding /\ ir_crowding <= 4095 * i
  /\ upc = "divide" => 0 <= ir_crowding /\ ir_crowding <= 32760
  /\ upc \notin {"add", "divide"} => 0 <= ir_crowding /\ ir_crowding <= 4095

LEMMA NoOverflow ==
  ASSUME NEW x \in Int, 0 <= x, x <= 32760
  PROVE  Int16(x) = x
BY DEF Int16

LEMMA Eighth ==
  ASSUME NEW x \in Int, 0 <= x, x <= 32760
  PROVE  /\ Divide(x, 8) \in Int
         /\ 0 <= Divide(x, 8) /\ Divide(x, 8) <= 4095
BY DEF Divide

(* Whatever part of a failed transfer's buffer is cleared, the rest is the *)
(* last frame's, so the ranges stay ranges.                                *)
LEMMA RangesKept ==
  ASSUME TwelveBits, RangesInv, [Next]_vars
  PROVE  RangesInv'
<1>1. CASE Transfer
  <2>1. CASE \E f \in Frames : msgRX' = f
    BY <2>1 DEF TwelveBits, RangesInv
  <2>2. CASE msgRX' = [msgRX EXCEPT !.ir =
                         [j \in IrIndex |-> IF j < CopyWords THEN 0 ELSE msgRX.ir[j]]]
    <3>1. \A j \in IrIndex : msgRX'.ir[j] = IF j < CopyWords THEN 0 ELSE msgRX.ir[j]
      BY <2>2
    <3>. QED
      BY <3>1 DEF RangesInv, TwelveBit
  <2>. QED
    BY <1>1, <2>1, <2>2 DEF Transfer
<1>2. ASSUME ~Transfer PROVE UNCHANGED msgRX
  BY <1>2 DEF Next, UpdateStep, NoTransfer, ClearCrowding, AddRange, DivideCrowding, Means,
              getRobotAcc, getRobotSteps, Call, InWait, TestWait, TestIr, waitForRandDecay,
              Return, Controller, Ended, vars
<1>. QED
  BY <1>1, <1>2 DEF RangesInv

(* The sum takes in the range exactly. *)
LEMMA AddExact ==
  ASSUME RangesInv, SumInv, AddRange
  PROVE  /\ i \in Int /\ 0 <= i /\ i <= 7
         /\ TwelveBit(msgRX.ir[i])
         /\ ir_crowding' = ir_crowding + msgRX.ir[i]
         /\ ir_crowding' \in Int /\ 0 <= ir_crowding' /\ ir_crowding' <= 4095 * (i + 1)
<1> DEFINE sum == ir_crowding + msgRX.ir[i]
<1>1. i \in Int /\ 0 <= i /\ i <= 7
  BY DEF SumInv, AddRange
<1>2. ir_crowding \in Int /\ 0 <= ir_crowding /\ ir_crowding <= 4095 * i
  BY DEF SumInv, AddRange
<1>3. i \in IrIndex /\ TwelveBit(msgRX.ir[i])
  BY <1>1 DEF RangesInv, IrIndex
<1>4. sum \in Int /\ 0 <= sum /\ sum <= 4095 * (i + 1) /\ sum <= 32760
  BY <1>1, <1>2, <1>3 DEF TwelveBit
<1>5. ir_crowding' = sum
  BY <1>4, NoOverflow DEF AddRange
<1>. QED
  BY <1>1, <1>3, <1>4, <1>5

LEMMA SumAdd ==
  ASSUME RangesInv, SumInv, AddRange
  PROVE  SumInv'
<1>1. i' = i + 1 /\ upc' = IF i = 7 THEN "divide" ELSE "add"
  BY DEF AddRange
<1>2. CASE i = 7
  BY <1>1, <1>2, AddExact DEF SumInv
<1>3. CASE i # 7
  BY <1>1, <1>3, AddExact DEF SumInv
<1>. QED
  BY <1>2, <1>3

LEMMA SumKept ==
  ASSUME RangesInv, SumInv, [Next]_vars
  PROVE  SumInv'
<1>1. CASE Transfer \/ NoTransfer
  BY <1>1 DEF Transfer, NoTransfer, Round, SumInv, robotVars, irVars
<1>2. CASE AddRange
  BY <1>2, SumAdd
<1>3. CASE ClearCrowding
  BY <1>3 DEF ClearCrowding, SumInv
<1>4. CASE DivideCrowding
  <2>1. ir_crowding \in Int /\ 0 <= ir_crowding /\ ir_crowding <= 32760
    BY <1>4 DEF DivideCrowding, SumInv
  <2>2. ir_crowding' = Divide(ir_crowding, 8) /\ UNCHANGED i /\ upc' = "means"
    BY <1>4 DEF DivideCrowding
  <2>. QED
    BY <2>1, <2>2, Eighth DEF SumInv
<1>5. CASE Means \/ getRobotAcc \/ getRobotSteps
  BY <1>5 DEF Means, getRobotAcc, getRobotSteps, SumInv, robotVars, irVars
<1>6. CASE Call \/ InWait \/ UNCHANGED vars
  BY <1>6 DEF Call, InWait, TestWait, TestIr, waitForRandDecay, Return, Controller, SumInv,
              vars, robotVars, irVars
<1>. QED
  BY <1>1, <1>2, <1>3, <1>4, <1>5, <1>6 DEF Next, UpdateStep, Ended

(* Every range has 12 bits, whatever a failed transfer left of a frame, and*)
(* the crowding is no more than the ranges added so far allow.             *)
THEOREM RangesAndSum ==
  ASSUME TwelveBits
  PROVE  Spec => [](RangesInv /\ SumInv)
<1>1. Init => RangesInv /\ SumInv
  BY DEF Init, RangesInv, SumInv, TwelveBit
<1>2. RangesInv /\ SumInv /\ [Next]_vars => (RangesInv /\ SumInv)'
  BY RangesKept, SumKept
<1>. QED
  BY <1>1, <1>2, PTL DEF Spec

(* A reader never catches the crowding out of 0..32760, however the thread *)
(* and the controller interleave: the int16_t sum cannot overflow.         *)
THEOREM CrowdingInRangeCorrect ==
  ASSUME TwelveBits
  PROVE  Spec => []CrowdingInRange
<1>1. SumInv => CrowdingInRange
  <2> SUFFICES ASSUME SumInv PROVE CrowdingInRange
    OBVIOUS
  <2>1. ir_crowding \in Int /\ 0 <= ir_crowding /\ ir_crowding <= 32760
    BY DEF SumInv
  <2>. QED
    BY <2>1 DEF CrowdingInRange
<1>. QED
  BY <1>1, RangesAndSum, PTL

-----------------------------------------------------------------------------
(* The sum of the ranges before k. *)
Partial(k) ==
  LET upTo(j) == IF j < k THEN ir_range[j] ELSE 0
  IN  upTo(0) + upTo(1) + upTo(2) + upTo(3) + upTo(4) + upTo(5) + upTo(6) + upTo(7)

MeanInv ==
  /\ upc = "add" => ir_crowding = Partial(i)
  /\ upc = "divide" => ir_crowding = RangeSum
  /\ CrowdingIsMean

LEMMA MeanAdd ==
  ASSUME TypeOK, RangesInv, SumInv, MeanInv, AddRange
  PROVE  MeanInv'
<1>1. /\ i \in IrIndex /\ msgRX.ir[i] \in Int /\ ir_crowding = Partial(i)
      /\ ir_crowding' = ir_crowding + msgRX.ir[i]
      /\ i' = i + 1 /\ upc' = IF i = 7 THEN "divide" ELSE "add"
  BY AddExact DEF AddRange, MeanInv, IrIndex, TwelveBit
<1>2. \A j \in IrIndex : ir_range[j] \in Int
  BY DEF TypeOK, Word
<1>3. \A j \in IrIndex : ir_range'[j] = IF j = i THEN msgRX.ir[i] ELSE ir_range[j]
  BY DEF AddRange, TypeOK
<1>. QED
  BY <1>1, <1>2, <1>3 DEF MeanInv, Partial, RangeSum, CrowdingIsMean, IrIndex

(* The crowding is the mean of the eight ranges, for any frames whose      *)
(* ranges have 12 bits and any part of msgRX a failed transfer cleared.    *)
THEOREM CrowdingIsMeanCorrect ==
  ASSUME TwelveBits
  PROVE  Spec => []CrowdingIsMean
<1>1. Init => MeanInv
  BY DEF Init, MeanInv, CrowdingIsMean, RangeSum, Divide, IrIndex
<1>2. TypeOK /\ RangesInv /\ SumInv /\ MeanInv /\ [Next]_vars => MeanInv'
  <2> SUFFICES ASSUME TypeOK, RangesInv, SumInv, MeanInv, [Next]_vars PROVE MeanInv'
    OBVIOUS
  <2>1. CASE AddRange
    BY <2>1, MeanAdd
  <2>2. CASE ClearCrowding
    BY <2>2 DEF ClearCrowding, MeanInv, CrowdingIsMean, Partial
  <2>3. CASE DivideCrowding
    BY <2>3 DEF DivideCrowding, MeanInv, CrowdingIsMean, RangeSum
  <2>4. CASE Transfer \/ NoTransfer
    BY <2>4 DEF Transfer, NoTransfer, Round, MeanInv, CrowdingIsMean, RangeSum, robotVars, irVars
  <2>5. CASE Means
    BY <2>5 DEF Means, MeanInv, CrowdingIsMean, RangeSum
  <2>6. CASE getRobotAcc \/ getRobotSteps
    BY <2>6 DEF getRobotAcc, getRobotSteps, MeanInv, CrowdingIsMean, RangeSum, irVars
  <2>7. CASE Call \/ InWait \/ UNCHANGED vars
    BY <2>7 DEF Call, InWait, TestWait, TestIr, waitForRandDecay, Return, Controller, MeanInv,
                CrowdingIsMean, RangeSum, Partial, vars, robotVars, irVars
  <2>. QED
    BY <2>1, <2>2, <2>3, <2>4, <2>5, <2>6, <2>7 DEF Next, UpdateStep, Ended
<1>3. MeanInv => CrowdingIsMean
  BY DEF MeanInv
<1>. QED
  BY <1>1, <1>2, <1>3, TypeCorrect, RangesAndSum, PTL DEF Spec

-----------------------------------------------------------------------------
(* The struct's own ranges have 12 bits, too. *)
StructInv == \A j \in IrIndex : TwelveBit(ir_range[j])

LEMMA StructKept ==
  ASSUME TypeOK, RangesInv, SumInv, StructInv, [Next]_vars
  PROVE  StructInv'
<1>1. CASE AddRange
  BY <1>1, AddExact DEF AddRange, StructInv, TypeOK
<1>2. ASSUME ~AddRange PROVE UNCHANGED ir_range
  BY <1>2 DEF Next, UpdateStep, Transfer, NoTransfer, Round, ClearCrowding, DivideCrowding, Means,
              getRobotAcc, getRobotSteps, Call, InWait, TestWait, TestIr, waitForRandDecay,
              Return, Controller, Ended, vars, robotVars, irVars
<1>. QED
  BY <1>1, <1>2 DEF StructInv

(* Each mean is where its ranges are; the front left one where two thirds  *)
(* of its ranges are.                                                      *)
LEMMA MeansRight ==
  ASSUME StructInv, Means
  PROVE  MeansOfSides'
<1>1. \A j \in IrIndex : ir_range[j] \in Int /\ 0 <= ir_range[j]
  BY DEF StructInv, TwelveBit
<1>2. {1, 2, 3, 4, 5, 6, 7} \subseteq IrIndex /\ UNCHANGED ir_range
  BY DEF IrIndex, Means
<1>3. Between(ir_front_right, {1, 2, 3})'
  <2>1. ir_front_right' = (ir_range[1] + ir_range[2] + ir_range[3]) \div 3
    BY <1>1, <1>2 DEF Means, Divide
  <2>. QED
    BY <1>1, <1>2, <2>1 DEF Between
<1>4. Between(ir_rear_right, {3, 4})'
  <2>1. ir_rear_right' = (ir_range[3] + ir_range[4]) \div 2
    BY <1>1, <1>2 DEF Means, Divide
  <2>. QED
    BY <1>1, <1>2, <2>1 DEF Between
<1>5. Between(ir_rear_left, {5, 6})'
  <2>1. ir_rear_left' = (ir_range[5] + ir_range[6]) \div 2
    BY <1>1, <1>2 DEF Means, Divide
  <2>. QED
    BY <1>1, <1>2, <2>1 DEF Between
<1>6. /\ \E low \in {6, 7} : 2 * ir_range'[low] < 3 * (ir_front_left' + 1)
      /\ \E high \in {6, 7} : 3 * ir_front_left' <= 2 * ir_range'[high]
  <2>1. ir_front_left' = (ir_range[6] + ir_range[7]) \div 3
    BY <1>1, <1>2 DEF Means, Divide, ir_amb
  <2>. QED
    BY <1>1, <1>2, <2>1
<1>. QED
  BY <1>3, <1>4, <1>5, <1>6 DEF MeansOfSides

(* The four means stay among the ranges of their sides. *)
THEOREM MeansOfSidesCorrect ==
  ASSUME TwelveBits
  PROVE  Spec => []MeansOfSides
<1>1. Init => StructInv /\ MeansOfSides
  BY DEF Init, StructInv, TwelveBit, MeansOfSides, Between, IrIndex
<1>2. TypeOK /\ RangesInv /\ SumInv /\ StructInv /\ [Next]_vars => StructInv'
  BY StructKept
<1>3. StructInv /\ MeansOfSides /\ [Next]_vars => MeansOfSides'
  <2> SUFFICES ASSUME StructInv, MeansOfSides, [Next]_vars PROVE MeansOfSides'
    OBVIOUS
  <2>1. CASE Means
    BY <2>1, MeansRight
  <2>2. CASE Transfer \/ NoTransfer
    BY <2>2 DEF Transfer, NoTransfer, Round, MeansOfSides
  <2>3. CASE ClearCrowding \/ AddRange \/ DivideCrowding
    BY <2>3 DEF ClearCrowding, AddRange, DivideCrowding, MeansOfSides
  <2>4. CASE getRobotAcc \/ getRobotSteps
    BY <2>4 DEF getRobotAcc, getRobotSteps, MeansOfSides, Between, irVars
  <2>5. CASE Call \/ InWait \/ UNCHANGED vars
    BY <2>5 DEF Call, InWait, TestWait, TestIr, waitForRandDecay, Return, Controller,
                MeansOfSides, Between, vars, robotVars, irVars
  <2>. QED
    BY <2>1, <2>2, <2>3, <2>4, <2>5 DEF Next, UpdateStep, Ended
<1>. QED
  BY <1>1, <1>2, <1>3, TypeCorrect, RangesAndSum, PTL DEF Spec

=============================================================================
