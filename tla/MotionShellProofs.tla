------------------------- MODULE MotionShellProofs -------------------------
(***************************************************************************)
(* Proofs about MotionShell, for every size of the ring, every set of      *)
(* commands, and ticks and commands at any moment.                         *)
(***************************************************************************)
EXTENDS MotionShell, TLAPS

Setup == {"init", "led", "thread"}

(* Every step of main or of signalHandler, with what it leaves alone.      *)
MainActions ==
  \/ Connect \/ Abort \/ StartTimer \/ Poll \/ NewCommand \/ StopMotion \/ Handler

-----------------------------------------------------------------------------
(* The indices.  header is past the list only between its increment and    *)
(* its wrap-around, which main never sees, and tail likewise.              *)

IndexInv ==
  /\ header \in 0..MAX_MOTION /\ tail \in 0..MAX_MOTION
  /\ tpc \notin {"wrap", "cut"} => header \in Slot
  /\ spc # "wrap_tail" => tail \in Slot
  /\ tpc = "cut" => mpc \in HandlerPcs
  /\ mpc \in Setup => spc = "none"

LEMMA RingSize == MAX_MOTION \in Nat /\ MAX_MOTION >= 2
<1>1. MAX_MOTION \in Nat \ {0, 1}
  BY ShellAssumption, SMTT(60)
<1>. QED
  BY <1>1

LEMMA IndexInit == Init => IndexInv
BY RingSize DEF Init, IndexInv, HandlerPcs, Slot

LEMMA MainIndices ==
  ASSUME IndexInv, MainActions
  PROVE  IndexInv'
<1> USE DEF ringVars, IndexInv, HandlerPcs, Setup, Main
<1>1. CASE Connect
  BY <1>1 DEF Connect, InitSpi, LightLed, CreateThread
<1>2. CASE Abort \/ StartTimer \/ Poll \/ LastIndex \/ Unflag \/ LoadDrive \/ TestStopped
           \/ MarkStopped \/ Resume \/ HandlerLed \/ HandlerExit
  BY <1>2 DEF Abort, StartTimer, Poll, LastIndex, Unflag, LoadDrive, TestStopped,
              MarkStopped, Resume, HandlerLed, HandlerExit
<1>3. ASSUME NEW here \in {"set", "s_set"}, NEW next \in {"send", "s_send"}, NEW speeds,
             SetWheel(here, next, speeds)
      PROVE  IndexInv'
  BY <1>3 DEF SetWheel
<1>4. CASE SetWheel("i_set", "i_send", AtRest) \/ SendFrame("i_send", "i_exit")
  BY <1>4 DEF SetWheel, SendFrame
<1>5. CASE SendFrame("send", "zero_speed") \/ SendFrame("s_send", "s_zero_speed")
  BY <1>5 DEF SendFrame
<1>6. ASSUME NEW here, NEW next, NEW i, NEW field, Zero(here, next, i, field),
             here \notin HandlerPcs \cup Setup, next \notin Setup
      PROVE  IndexInv'
  BY <1>6 DEF Zero
<1>7. CASE NewCommand
  BY <1>2, <1>3, <1>5, <1>6, <1>7 DEF NewCommand
<1>8. CASE StopMotion
  BY <1>2, <1>3, <1>5, <1>6, <1>8 DEF StopMotion
<1>. QED
  BY <1>1, <1>2, <1>4, <1>7, <1>8 DEF MainActions, Handler

LEMMA OtherIndices ==
  ASSUME IndexInv, Interrupt \/ TimerStep \/ ParseStep \/ TypeStep \/ Ended
  PROVE  IndexInv'
<1> USE RingSize DEF ringVars, IndexInv, HandlerPcs, Setup, Slot
<1>1. CASE Interrupt
  BY <1>1 DEF Interrupt
<1>2. CASE TimerStep
  <2>1. CASE Tick \/ Idle \/ MotionOver
    BY <2>1 DEF Tick, Idle, MotionOver
  <2>2. CASE MoveHeader \/ WrapHeader
    BY <2>2 DEF MoveHeader, WrapHeader
  <2>. QED
    BY <1>2, <2>1, <2>2 DEF TimerStep
<1>3. CASE ParseStep
  <2>1. CASE WrapTail \/ ResetHeader
    BY <2>1 DEF WrapTail, ResetHeader, Shell
  <2>2. CASE TestFull
    BY <2>2 DEF TestFull, Shell, Before
  <2>3. ASSUME NEW here \in {"put_speed", "put_turn", "put_duration"},
               NEW next \in {"put_turn", "put_duration", "prompt"}, NEW field,
               Put(here, next, field)
        PROVE  IndexInv'
    BY <2>3 DEF Put, Shell
  <2>. QED
    BY <1>3, <2>1, <2>2, <2>3 DEF ParseStep
<1>4. CASE TypeStep
  BY <1>4 DEF TypeStep, TypeMotion, TypeReset, TypeExit, Type
<1>5. CASE Ended
  BY <1>5 DEF Ended, vars
<1>. QED
  BY <1>1, <1>2, <1>3, <1>4, <1>5

(* main and cmdShell index the list in its bounds. *)
THEOREM IndicesInBoundsCorrect == Spec => []IndicesInBounds
<1>1. IndexInv /\ [Next]_vars => IndexInv'
  <2>1. IndexInv /\ UNCHANGED vars => IndexInv'
    BY DEF IndexInv, vars, ringVars
  <2>. QED
    BY <2>1, MainIndices, OtherIndices DEF Next, MainStep, MainActions
<1>2. IndexInv => IndicesInBounds
  BY DEF IndexInv, IndicesInBounds, Free, HandlerPcs
<1>. QED
  BY <1>1, <1>2, IndexInit, PTL DEF Spec

-----------------------------------------------------------------------------
(* Ctrl+C.  Once signalHandler runs, no other step touches the frame, the  *)
(* dsPIC or the LED; before init_spi nothing was ever sent.                *)

Frame == msgTX.motor = [w \in Wheel |-> msgTX.motor[w]]

StopInv ==
  /\ Frame
  /\ ~spi => dsPIC.motor = AtRest
  /\ mpc = "init" => ~spi
  /\ mpc \in {"i_set", "i_send", "i_exit"} => ~board_led
  /\ mpc = "i_set" =>
       \A w \in Wheel \ toSet : msgTX.set_motor /\ msgTX.motor[w] = 0
  /\ mpc = "i_send" => msgTX.set_motor /\ msgTX.motor = AtRest
  /\ mpc = "i_exit" => dsPIC.motor = AtRest
  /\ toSet \subseteq Wheel
  /\ mpc \notin {"set", "s_set", "i_set"} => toSet = Wheel
  /\ proc = "interrupted" => mpc = "i_exit"

LEMMA StopInit == Init => StopInv
BY DEF Init, SpiInit, StopInv, Frame, AtRest

LEMMA FrameKept ==
  ASSUME Frame, NEW w \in Wheel, NEW value, setSpeed(w, value)
  PROVE  /\ Frame'
         /\ msgTX'.set_motor /\ msgTX'.motor[w] = value
         /\ \A v \in Wheel \ {w} : msgTX'.motor[v] = msgTX.motor[v]
BY DEF Frame, setSpeed

LEMMA MainStop ==
  ASSUME StopInv, proc = "running", ~SpiMayFail, MainActions, ~Handler
  PROVE  StopInv'
<1> USE DEF StopInv, spiVars, ringVars, mainVars, Main
<1>1. CASE Connect
  BY <1>1 DEF Connect, InitSpi, LightLed, CreateThread, init_spi, Frame
<1>2. CASE Abort \/ StartTimer \/ Poll \/ LastIndex \/ Unflag \/ LoadDrive \/ TestStopped
           \/ MarkStopped \/ Resume
  BY <1>2 DEF Abort, StartTimer, Poll, LastIndex, Unflag, LoadDrive, TestStopped,
              MarkStopped, Resume, Frame
<1>3. ASSUME NEW here \in {"set", "s_set"}, NEW next \in {"send", "s_send"}, NEW speeds,
             SetWheel(here, next, speeds)
      PROVE  StopInv'
  <2>1. PICK w \in toSet : setSpeed(w, speeds[w]) /\ IF toSet = {w}
          THEN mpc' = next /\ toSet' = Wheel
          ELSE mpc' = mpc /\ toSet' = toSet \ {w}
    BY <1>3 DEF SetWheel
  <2>2. Frame' /\ UNCHANGED <<spi, dsPIC>>
    BY <2>1, FrameKept DEF setSpeed
  <2>. QED
    BY <1>3, <2>1, <2>2 DEF SetWheel
<1>4. ASSUME NEW here \in {"send", "s_send"}, NEW next \in {"zero_speed", "s_zero_speed"},
             SendFrame(here, next)
      PROVE  StopInv'
  BY <1>4 DEF SendFrame, update, Frame
<1>5. ASSUME NEW here \in {"zero_speed", "zero_turn", "zero_duration", "s_zero_speed",
                           "s_zero_turn", "s_zero_duration"},
             NEW next \in {"zero_turn", "zero_duration", "poll", "s_zero_turn",
                           "s_zero_duration", "resume"},
             NEW i, NEW field, Zero(here, next, i, field)
      PROVE  StopInv'
  BY <1>5 DEF Zero, Frame
<1>6. CASE NewCommand
  <2>1. CASE LastIndex \/ Unflag \/ LoadDrive
    BY <1>2, <2>1
  <2>2. CASE SetWheel("set", "send", WheelSpeeds(drive)) \/ SendFrame("send", "zero_speed")
    BY <1>3, <1>4, <2>2
  <2>3. CASE \/ Zero("zero_speed", "zero_turn", lastcmdIndex, "speed")
             \/ Zero("zero_turn", "zero_duration", lastcmdIndex, "turnrate")
             \/ Zero("zero_duration", "poll", lastcmdIndex, "duration")
    BY <1>5, <2>3
  <2>. QED
    BY <1>6, <2>1, <2>2, <2>3 DEF NewCommand
<1>7. CASE StopMotion
  <2>1. CASE TestStopped \/ MarkStopped \/ Resume
    BY <1>2, <2>1
  <2>2. CASE SetWheel("s_set", "s_send", WheelSpeeds(Blank)) \/ SendFrame("s_send", "s_zero_speed")
    BY <1>3, <1>4, <2>2
  <2>3. CASE \/ Zero("s_zero_speed", "s_zero_turn", header, "speed")
             \/ Zero("s_zero_turn", "s_zero_duration", header, "turnrate")
             \/ Zero("s_zero_duration", "resume", header, "duration")
    BY <1>5, <2>3
  <2>. QED
    BY <1>7, <2>1, <2>2, <2>3 DEF StopMotion
<1>. QED
  BY <1>1, <1>2, <1>6, <1>7 DEF MainActions

LEMMA HandlerStop ==
  ASSUME StopInv, proc = "running", ~SpiMayFail, Handler
  PROVE  StopInv'
<1> USE DEF StopInv, spiVars, mainVars, Main
<1>1. CASE HandlerLed
  BY <1>1 DEF HandlerLed, Frame
<1>2. CASE HandlerExit
  BY <1>2 DEF HandlerExit, Frame
<1>3. CASE SetWheel("i_set", "i_send", AtRest)
  <2>1. PICK w \in toSet : setSpeed(w, AtRest[w]) /\ IF toSet = {w}
          THEN mpc' = "i_send" /\ toSet' = Wheel
          ELSE mpc' = mpc /\ toSet' = toSet \ {w}
    BY <1>3 DEF SetWheel
  <2>2. w \in Wheel /\ AtRest[w] = 0
    BY <2>1 DEF AtRest
  <2>3. /\ Frame' /\ UNCHANGED <<spi, dsPIC>>
        /\ msgTX'.set_motor /\ msgTX'.motor[w] = 0
        /\ \A v \in Wheel \ {w} : msgTX'.motor[v] = msgTX.motor[v]
    BY <2>1, <2>2, FrameKept DEF setSpeed
  <2>4. mpc = "i_set" /\ UNCHANGED <<board_led, proc>>
    BY <1>3 DEF SetWheel
  <2>5. CASE toSet = {w}
    <3>1. \A v \in Wheel : msgTX'.motor[v] = 0
      BY <2>3, <2>4, <2>5
    <3>2. msgTX'.motor = AtRest
      BY <2>3, <3>1 DEF Frame, AtRest
    <3>. QED
      BY <2>1, <2>3, <2>4, <2>5, <3>2
  <2>6. CASE toSet # {w}
    BY <2>1, <2>3, <2>4, <2>6
  <2>. QED
    BY <2>5, <2>6
<1>4. CASE SendFrame("i_send", "i_exit")
  BY <1>4 DEF SendFrame, update, Deliver, Frame
<1>. QED
  BY <1>1, <1>2, <1>3, <1>4 DEF Handler

LEMMA OtherStop ==
  ASSUME StopInv, Interrupt \/ TimerStep \/ ParseStep \/ TypeStep \/ Ended
  PROVE  StopInv'
<1> USE DEF StopInv, Frame, spiVars, mainVars
<1>1. CASE Interrupt
  BY <1>1 DEF Interrupt
<1>2. CASE TimerStep
  BY <1>2 DEF TimerStep, Tick, Idle, MotionOver, MoveHeader, WrapHeader
<1>3. CASE ParseStep
  BY <1>3 DEF ParseStep, WrapTail, TestFull, ResetHeader, Put
<1>4. CASE TypeStep
  BY <1>4 DEF TypeStep, MayParse, TypeMotion, TypeReset, TypeExit, Type
<1>5. CASE Ended
  BY <1>5 DEF Ended, vars
<1>. QED
  BY <1>1, <1>2, <1>3, <1>4, <1>5

(* Ctrl+C stops the robot and turns the LED off whenever it comes, if the  *)
(* SPI device obeys.                                                       *)
THEOREM SafeInterruptCorrect ==
  ASSUME ~SpiMayFail
  PROVE  Spec => []SafeInterrupt
<1>1. StopInv /\ [Next]_vars => StopInv'
  <2>1. StopInv /\ UNCHANGED vars => StopInv'
    BY DEF StopInv, Frame, vars, spiVars, mainVars
  <2>. QED
    BY <2>1, MainStop, HandlerStop, OtherStop DEF Next, MainStep, MainActions
<1>2. StopInv => SafeInterrupt
  BY DEF StopInv, SafeInterrupt
<1>. QED
  BY <1>1, <1>2, StopInit, PTL DEF Spec

-----------------------------------------------------------------------------
(* The types.  Main's indices and stores need what IndexInv says of header *)
(* and tail; the rest is arithmetic of one step.                           *)

LEMMA Between ==
  ASSUME NEW a \in Int, NEW b \in Int, NEW x \in Int, a <= x, x <= b
  PROVE  x \in a..b
OBVIOUS

(* An int16_t takes any speed that setSpeed2 computes.                     *)
LEMMA Int16Typed ==
  ASSUME NEW x \in Int
  PROVE  Int16(x) \in Speeds
<1> DEFINE y == x + 32768
<1>1. y \in Int
  OBVIOUS
<1>2. (y % 65536) \in Int /\ 0 <= y % 65536 /\ y % 65536 < 65536
  BY <1>1
<1>3. Int16(x) = (y % 65536) - 32768
  BY DEF Int16
<1> HIDE DEF y
<1>4. Int16(x) \in Int /\ -32768 <= Int16(x) /\ Int16(x) <= 32767
  BY <1>2, <1>3
<1> DEFINE least == -32768
           greatest == 32767
<1>5. Speeds = least..greatest
  BY ShellAssumption
<1>6. least \in Int /\ greatest \in Int /\ least <= Int16(x) /\ Int16(x) <= greatest
  BY <1>4
<1> HIDE DEF least, greatest
<1>7. Int16(x) \in least..greatest
  BY <1>4, <1>6, Between
<1>. QED
  BY <1>5, <1>7

LEMMA TruncateTyped ==
  ASSUME NEW n \in Int
  PROVE  Truncate(n, 18) \in Int
BY DEF Truncate

LEMMA WheelSpeedsTyped ==
  ASSUME NEW m, m.speed \in Int, m.turnrate \in Int
  PROVE  WheelSpeeds(m) \in [Wheel -> Speeds]
<1>1. ASSUME NEW w \in Wheel PROVE WheelSpeed(m, w) \in Speeds
  <2> DEFINE turn == IF w = "left" THEN 65 * m.turnrate ELSE -(65 * m.turnrate)
  <2>1. 18 * m.speed + turn \in Int
    OBVIOUS
  <2>2. WheelSpeed(m, w) = Int16(Truncate(18 * m.speed + turn, 18))
    BY DEF WheelSpeed
  <2> HIDE DEF turn
  <2>. QED
    BY <2>1, <2>2, TruncateTyped, Int16Typed
<1>. QED
  BY <1>1 DEF WheelSpeeds

Field == {"speed", "turnrate", "duration"}

(* A store of one field of one slot, by main or by the shell.              *)
LEMMA FieldStored ==
  ASSUME NEW m \in Motion, NEW field \in Field, NEW value \in Int
  PROVE  [m EXCEPT ![field] = value] \in Motion
<1>1. CASE field = "speed"
  BY <1>1 DEF Motion
<1>2. CASE field = "turnrate"
  BY <1>2 DEF Motion
<1>3. CASE field = "duration"
  BY <1>3 DEF Motion
<1>. QED
  BY <1>1, <1>2, <1>3 DEF Field

LEMMA SlotStored ==
  ASSUME motionList \in [Slot -> Motion], NEW i \in Slot, NEW field \in Field, NEW value \in Int,
         motionList' = [motionList EXCEPT ![i] = [@ EXCEPT ![field] = value]]
  PROVE  motionList' \in [Slot -> Motion]
<1> DEFINE m == [motionList[i] EXCEPT ![field] = value]
<1>1. m \in Motion
  BY FieldStored
<1>2. motionList' = [motionList EXCEPT ![i] = m]
  OBVIOUS
<1> HIDE DEF m
<1>. QED
  BY <1>1, <1>2

ShellInv == TypeOK /\ IndexInv

LEMMA Bounds == MaxElapsed \in Nat /\ MaxCommands \in Nat /\ Commands \subseteq Motion
BY OperatorAssumption

LEMMA TypeInit == Init => TypeOK
<1> SUFFICES ASSUME Init PROVE TypeOK
  OBVIOUS
<1>1. AtRest \in [Wheel -> Speeds]
  BY SpeedsAssumption DEF AtRest
<1>2. SpiTypeOK
  BY <1>1 DEF Init, SpiInit, SpiTypeOK
<1>3. motionList \in [Slot -> Motion] /\ drive \in [speed : Int, turnrate : Int]
  BY DEF Init, Motion, Blank
<1>4. 0 \in Slot /\ 0 \in 0..MAX_MOTION /\ 0 \in 0..MaxElapsed /\ 0 \in 0..MaxCommands
  BY RingSize, Bounds DEF Slot
<1>. QED
  BY <1>2, <1>3, <1>4 DEF Init, TypeOK, MainPcs, HandlerPcs, TimerPcs, ShellPcs

LEMMA MainTypes ==
  ASSUME ShellInv, MainActions
  PROVE  TypeOK'
<1> USE DEF ShellInv, TypeOK, ringVars, flagVars, mainVars, shellVars, Main, MainPcs, HandlerPcs, TimerPcs, ShellPcs
<1>0. UNCHANGED spiVars => SpiTypeOK'
  BY DEF spiVars, SpiTypeOK
<1>1. CASE Connect
  <2>1. CASE InitSpi
    BY <2>1 DEF InitSpi, init_spi, SpiTypeOK
  <2>2. CASE LightLed
    BY <1>0, <2>2 DEF LightLed
  <2>3. CASE CreateThread
    BY <1>0, <2>3 DEF CreateThread
  <2>. QED
    BY <1>1, <2>1, <2>2, <2>3 DEF Connect
<1>2. CASE Abort \/ StartTimer \/ Poll \/ Unflag \/ TestStopped \/ MarkStopped \/ Resume
           \/ HandlerLed \/ HandlerExit
  <2>1. CASE Abort \/ StartTimer \/ Poll
    BY <1>0, <2>1 DEF Abort, StartTimer, Poll
  <2>2. CASE Unflag
    <3>1. newCommand' \in BOOLEAN
      BY <2>2, Zenon DEF Unflag
    <3>. QED
      BY <1>0, <2>2, <3>1 DEF Unflag
  <2>3. CASE TestStopped
    BY <1>0, <2>3 DEF TestStopped
  <2>4. CASE MarkStopped
    <3>1. robotStoped' \in BOOLEAN
      BY <2>4, Zenon DEF MarkStopped
    <3>. QED
      BY <1>0, <2>4, <3>1 DEF MarkStopped
  <2>5. CASE Resume
    <3>1. userQuit' \in BOOLEAN
      BY <2>5, Zenon DEF Resume
    <3>. QED
      BY <1>0, <2>5, <3>1 DEF Resume
  <2>6. CASE HandlerLed
    <3>1. board_led' \in BOOLEAN
      BY <2>6, Zenon DEF HandlerLed
    <3>. QED
      BY <1>0, <2>6, <3>1 DEF HandlerLed
  <2>7. CASE HandlerExit
    <3>1. userQuit' \in BOOLEAN
      BY <2>7, Zenon DEF HandlerExit
    <3>. QED
      BY <1>0, <2>7, <3>1 DEF HandlerExit
  <2>. QED
    BY <1>2, <2>1, <2>2, <2>3, <2>4, <2>5, <2>6, <2>7
<1>3. CASE LastIndex
  <2>1. header \in Slot
    BY <1>3 DEF LastIndex, IndexInv, Free, HandlerPcs
  <2>2. Before(header) \in Slot
    BY <2>1, RingSize DEF Before, Slot
  <2>. QED
    BY <1>0, <1>3, <2>2 DEF LastIndex
<1>4. CASE LoadDrive
  <2>1. header \in Slot
    BY <1>4 DEF LoadDrive, IndexInv, Free, HandlerPcs
  <2>2. motionList[header].speed \in Int /\ motionList[header].turnrate \in Int
    BY <2>1 DEF Motion
  <2>3. drive' \in [speed : Int, turnrate : Int]
    BY <1>4, <2>2 DEF LoadDrive
  <2>. QED
    BY <1>0, <1>4, <2>3 DEF LoadDrive
<1>5. ASSUME NEW here, NEW next \in MainPcs, NEW speeds \in [Wheel -> Speeds],
             SetWheel(here, next, speeds)
      PROVE  TypeOK'
  <2>1. PICK w \in toSet : setSpeed(w, speeds[w]) /\ IF toSet = {w}
          THEN mpc' = next /\ toSet' = Wheel
          ELSE mpc' = mpc /\ toSet' = toSet \ {w}
    BY <1>5 DEF SetWheel
  <2>2. w \in Wheel /\ speeds[w] \in Speeds
    BY <2>1
  <2>3. SpiTypeOK'
    BY <2>1, <2>2 DEF setSpeed, SpiTypeOK
  <2>4. mpc' \in MainPcs /\ toSet' \subseteq Wheel
    BY <2>1, <1>5
  <2>. QED
    BY <1>5, <2>3, <2>4 DEF SetWheel
<1>6. ASSUME NEW here, NEW next \in MainPcs, SendFrame(here, next)
      PROVE  TypeOK'
  <2>1. SpiTypeOK'
    BY <1>6 DEF SendFrame, update, Deliver, SpiTypeOK
  <2>. QED
    BY <1>6, <2>1 DEF SendFrame
<1>7. ASSUME NEW here, NEW next \in MainPcs, NEW i \in Slot, NEW field \in Field,
             Zero(here, next, i, field)
      PROVE  TypeOK'
  <2>1. motionList' \in [Slot -> Motion]
    <3>1. 0 \in Int
      OBVIOUS
    <3>. QED
      BY <1>7, <3>1, SlotStored DEF Zero
  <2>. QED
    BY <1>0, <1>7, <2>1 DEF Zero
<1>8. CASE NewCommand
  <2>1. WheelSpeeds(drive) \in [Wheel -> Speeds]
    BY WheelSpeedsTyped
  <2>. QED
    BY <1>2, <1>3, <1>4, <1>5, <1>6, <1>7, <1>8, <2>1 DEF NewCommand, Field
<1>9. CASE StopMotion
  <2>1. WheelSpeeds(Blank) \in [Wheel -> Speeds]
    BY WheelSpeedsTyped DEF Blank
  <2>2. CASE TestStopped \/ MarkStopped \/ Resume \/ SetWheel("s_set", "s_send", WheelSpeeds(Blank))
             \/ SendFrame("s_send", "s_zero_speed")
    BY <1>2, <1>5, <1>6, <2>1, <2>2
  <2>3. ASSUME NEW here \in {"s_zero_speed", "s_zero_turn", "s_zero_duration"},
               NEW next \in MainPcs, NEW field \in Field, Zero(here, next, header, field)
        PROVE  TypeOK'
    <3>1. header \in Slot
      BY <2>3 DEF Zero, IndexInv, Free, HandlerPcs
    <3>. QED
      BY <1>7, <2>3, <3>1
  <2>. QED
    BY <1>9, <2>2, <2>3 DEF StopMotion, Field
<1>10. CASE Handler
  <2>1. AtRest \in [Wheel -> Speeds]
    BY SpeedsAssumption DEF AtRest
  <2>. QED
    BY <1>2, <1>5, <1>6, <1>10, <2>1 DEF Handler
<1>. QED
  BY <1>1, <1>2, <1>8, <1>9, <1>10 DEF MainActions

LEMMA OtherTypes ==
  ASSUME ShellInv, Interrupt \/ TimerStep \/ ParseStep \/ TypeStep \/ Ended
  PROVE  TypeOK'
<1> USE DEF ShellInv, TypeOK, ringVars, flagVars, mainVars, shellVars, MainPcs, HandlerPcs, TimerPcs, ShellPcs
<1>0. UNCHANGED spiVars => SpiTypeOK'
  BY DEF spiVars, SpiTypeOK
<1>1. header' \in 0..MAX_MOTION /\ tail' \in 0..MAX_MOTION
  BY OtherIndices DEF IndexInv
<1>2. MaxElapsed \in Nat /\ MaxCommands \in Nat /\ Commands \subseteq Motion
  BY Bounds
<1>3. CASE Interrupt
  BY <1>0, <1>3 DEF Interrupt
<1>4. CASE TimerStep
  <2>1. elapsed' \in 0..MaxElapsed
    BY <1>2, <1>4 DEF TimerStep, Tick, Idle, MotionOver, MoveHeader, WrapHeader
  <2>. QED
    <3>1. CASE Tick
      BY <1>0, <1>1, <2>1, <3>1 DEF Tick
    <3>2. CASE Idle
      <4>1. userQuit' \in BOOLEAN /\ newCommand' \in BOOLEAN
        BY <3>2, Zenon DEF Idle
      <4>2. tpc' \in TimerPcs
        BY <3>2, Zenon DEF Idle
      <4>. QED
        BY <4>1, <4>2, <1>0, <1>1, <2>1, <3>2 DEF Idle
    <3>3. CASE MotionOver
      <4>1. newCommand' \in BOOLEAN /\ robotStoped' \in BOOLEAN
        BY <3>3, Zenon DEF MotionOver
      <4>2. tpc' \in TimerPcs
        BY <3>3, Zenon DEF MotionOver
      <4>. QED
        BY <4>1, <4>2, <1>0, <1>1, <2>1, <3>3 DEF MotionOver
    <3>4. CASE MoveHeader \/ WrapHeader
      BY <1>0, <1>1, <2>1, <3>4 DEF MoveHeader, WrapHeader
    <3>. QED
      BY <1>4, <3>1, <3>2, <3>3, <3>4 DEF TimerStep
<1>5. CASE ParseStep
  <2>1. CASE WrapTail \/ TestFull \/ ResetHeader
    BY <1>0, <1>1, <2>1 DEF WrapTail, TestFull, ResetHeader, Shell
  <2>2. ASSUME NEW here \in {"put_speed", "put_turn", "put_duration"},
               NEW next \in {"put_turn", "put_duration", "prompt"}, NEW field \in Field,
               Put(here, next, field)
        PROVE  TypeOK'
    <3>1. command \in Motion
      BY <1>2 DEF Motion, Blank
    <3>2. command[field] \in Int
      BY <3>1 DEF Motion, Field
    <3>3. tail \in Slot
      BY <2>2 DEF Put, Shell, IndexInv
    <3>4. motionList' \in [Slot -> Motion]
      BY <2>2, <3>2, <3>3, SlotStored DEF Put
    <3>. QED
      BY <1>0, <1>1, <2>2, <3>4 DEF Put, Shell
  <2>. QED
    BY <1>5, <2>1, <2>2 DEF ParseStep, Field
<1>6. CASE TypeStep
  <2>1. ASSUME NEW next \in ShellPcs, Type(next),
               command' \in Commands \cup {Blank}, proc' \in {"running", "left"}
        PROVE  TypeOK'
    <3>1. typed' \in 0..MaxCommands
      BY <1>2, <2>1 DEF Type
    <3>. QED
      BY <1>0, <1>1, <2>1, <3>1 DEF Type
  <2>2. proc = "running"
    BY <1>6 DEF TypeStep, MayParse
  <2>. QED
    BY <1>6, <2>1, <2>2 DEF TypeStep, TypeMotion, TypeReset, TypeExit
<1>7. CASE Ended
  BY <1>0, <1>7 DEF Ended, vars
<1>. QED
  BY <1>3, <1>4, <1>5, <1>6, <1>7

LEMMA ShellInit == Init => ShellInv
BY TypeInit, IndexInit DEF ShellInv

LEMMA ShellInductive == ShellInv /\ [Next]_vars => ShellInv'
<1>1. ShellInv /\ UNCHANGED vars => ShellInv'
  BY DEF ShellInv, IndexInv, TypeOK, SpiTypeOK, vars, spiVars, ringVars, flagVars, mainVars, shellVars
<1>. QED
  BY <1>1, MainTypes, OtherTypes, MainIndices, OtherIndices
  DEF Next, MainStep, MainActions, ShellInv

(* The types of the shell's state: no motion, however fast, brings a wheel *)
(* speed out of 16 bits, and no step of the three activities a word of the *)
(* list out of the list.                                                   *)
THEOREM TypeCorrect == Spec => []TypeOK
<1>1. ShellInv => TypeOK
  BY DEF ShellInv
<1>. QED
  BY <1>1, ShellInit, ShellInductive, PTL DEF Spec
=============================================================================
