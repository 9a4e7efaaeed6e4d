------------------------- MODULE MotionQueueProofs -------------------------
(***************************************************************************)
(* The command shell of main.c implements the queue of MotionQueue when    *)
(* ticks come while main and cmdShell wait and resets while main does: for *)
(* every size of the ring, every list of commands, as many motions waiting *)
(* as the ring takes, ctrl+c at any step, and transfers that may fail.     *)
(***************************************************************************)
EXTENDS MotionShellProofs, Sequences

-----------------------------------------------------------------------------
(* What holds when ticks and resets come at the pace of the shell.         *)

Putting == {"put_speed", "put_turn", "put_duration"}
Typing == {"wrap_tail", "full?"} \cup Putting
Loading == {"load_speed", "load_turn", "set", "send"}
Sending == {"unflag"} \cup Loading
Blanking == {"zero_speed", "zero_turn", "zero_duration"}
LastStop == {"s_set", "s_send", "s_zero_speed", "s_zero_turn", "s_zero_duration"}
LastBlank == {"s_zero_speed", "s_zero_turn", "s_zero_duration"}
Early == {"init", "led", "thread", "start"}

(* While timerHandler runs, main sleeps, having seen the flags, and        *)
(* cmdShell waits for its operator.  Main sends what newCommand asked for, *)
(* and stops because of userQuit.                                          *)
PaceInv ==
  /\ mpc \notin HandlerPcs
  /\ tpc # "off" => mpc = "poll" /\ spc = "prompt" /\ ~userQuit
  /\ tpc \in {"idle?", "over?"} => ~newCommand
  /\ tpc = "over?" => header # tail \/ ~Over
  /\ tpc = "advance" => header # tail
  /\ tpc \in {"advance", "wrap"} => newCommand /\ elapsed = 0
  /\ mpc # "init" => spi
  /\ mpc \in Early => ~userQuit
  /\ mpc \in {"index", "unflag"} => newCommand
  /\ mpc \in Loading => ~newCommand
  /\ mpc \in {"stopped?", "mark"} \cup LastStop => userQuit
  /\ mpc = "mark" => ~robotStoped
  /\ mpc \in LastStop => robotStoped
  /\ mpc = "resume" => robotStoped \/ ~userQuit
  /\ userQuit => ~newCommand

(* The slot that is filled is never the one at header; the slot that main  *)
(* blanks is the one before it, the last place of the queue.               *)
RoomInv ==
  /\ spc = "reset" => tail = 0
  /\ spc \in Typing => command \in Commands
  /\ spc \in Putting => tail # header
  /\ mpc \in Sending \cup Blanking => lastcmdIndex = Before(header)

(* What is stored of the motion that is put into the list: main may have   *)
(* blanked it if it takes the last place.                                  *)
Stored(field) ==
  \/ motionList[tail][field] = command[field]
  \/ motionList[tail][field] = 0 /\ tail = Before(header)

PutInv ==
  /\ spc \in {"put_turn", "put_duration"} => Stored("speed")
  /\ spc = "put_duration" => Stored("turnrate")

(* What is blanked of the last motion, at its end.                         *)
BlankInv ==
  /\ mpc \in {"s_zero_turn", "s_zero_duration"} => motionList[header].speed = 0
  /\ mpc = "s_zero_duration" => motionList[header].turnrate = 0

LengthInv == \A i \in Slot : motionList[i].duration <= MaxElapsed

ListInv == RoomInv /\ PutInv /\ BlankInv /\ LengthInv

(* What main has read, and stored in the frame, of the motion it sends;    *)
(* what it and signalHandler store to stop the wheels.                     *)
SendInv ==
  /\ mpc \in {"load_turn", "set", "send"} => drive.speed = motionList[header].speed
  /\ mpc \in {"set", "send"} => drive.turnrate = motionList[header].turnrate
  /\ mpc = "set" =>
       \A w \in Wheel \ toSet : msgTX.set_motor /\ msgTX.motor[w] = WheelSpeeds(drive)[w]
  /\ mpc = "send" => msgTX.set_motor /\ msgTX.motor = WheelSpeeds(drive)
  /\ mpc \in {"s_set", "i_set"} =>
       \A w \in Wheel \ toSet : msgTX.set_motor /\ msgTX.motor[w] = 0
  /\ mpc \in {"s_send", "i_send"} => msgTX.set_motor /\ msgTX.motor = AtRest
  /\ ~spi => dsPIC.motor = AtRest
  /\ toSet \subseteq Wheel
  /\ mpc \notin {"set", "s_set", "i_set"} => toSet = Wheel

QueueInv == ShellInv /\ SendInv /\ (Interrupted \/ (PaceInv /\ ListInv))

-----------------------------------------------------------------------------
(* Distances round the ring. *)

LEMMA Sum ==
  ASSUME NEW n \in Nat \ {0}, NEW h \in Int, NEW i \in Int, 0 <= h + i, h + i < 2 * n
  PROVE  (h + i) % n = IF h + i < n THEN h + i ELSE h + i - n
OBVIOUS

LEMMA Around ==
  ASSUME NEW h \in 0..MAX_MOTION, NEW f \in -1..MAX_MOTION - 1, f - h >= -MAX_MOTION
  PROVE  /\ (f - h) % MAX_MOTION \in 0..MAX_MOTION - 1
         /\ (f - h) % MAX_MOTION = IF f >= h THEN f - h ELSE f - h + MAX_MOTION
         /\ \A i \in 0..MAX_MOTION - 1 :
              /\ (h + i) % MAX_MOTION = IF h + i < MAX_MOTION THEN h + i ELSE h + i - MAX_MOTION
              /\ (h + i) % MAX_MOTION \in Slot
<1>1. MAX_MOTION \in Nat \ {0} /\ f \in Int /\ h \in Int
  BY RingSize
<1>2. (f - h) % MAX_MOTION = IF f >= h THEN f - h ELSE f - h + MAX_MOTION
  <2> DEFINE x == f - h
  <2>1. x \in Int /\ -MAX_MOTION <= x /\ x < MAX_MOTION /\ (f >= h <=> 0 <= x)
    BY <1>1
  <2>. HIDE DEF x
  <2>2. x % MAX_MOTION = IF 0 <= x THEN x ELSE x + MAX_MOTION
    BY <1>1, <2>1
  <2>. QED
    BY <2>1, <2>2 DEF x
<1>3. ASSUME NEW i \in 0..MAX_MOTION - 1
      PROVE  (h + i) % MAX_MOTION = IF h + i < MAX_MOTION THEN h + i ELSE h + i - MAX_MOTION
  <2>1. i \in Int /\ 0 <= h + i /\ h + i < 2 * MAX_MOTION
    BY <1>1
  <2>. QED
    BY <1>1, <2>1, Sum
<1>. QED
  BY <1>1, <1>2, <1>3 DEF Slot

(* Where header, tail and what is filled may be. *)
LEMMA Ranges ==
  ASSUME ShellInv, PaceInv
  PROVE  /\ header \in 0..MAX_MOTION /\ tail \in 0..MAX_MOTION
         /\ tpc # "wrap" => header \in Slot
         /\ spc # "wrap_tail" => tail \in Slot
         /\ Filled = IF spc \in Typing THEN tail - 1 ELSE tail
         /\ Filled \in -1..MAX_MOTION - 1 /\ Filled - header >= -MAX_MOTION
         /\ motionList \in [Slot -> Motion] /\ lastcmdIndex \in Slot
         /\ command \in Motion
<1>1. header \in 0..MAX_MOTION /\ tail \in 0..MAX_MOTION
  BY DEF ShellInv, IndexInv
<1>2. tpc # "wrap" => header \in Slot
  BY DEF ShellInv, IndexInv, PaceInv
<1>3. spc # "wrap_tail" => tail \in Slot
  BY DEF ShellInv, IndexInv
<1>4. Filled = IF spc \in Typing THEN tail - 1 ELSE tail
  BY DEF Filled, Typing, Putting
<1>5. spc \in Typing => header \in Slot
  BY <1>2 DEF PaceInv, Typing, Putting
<1>6. Filled \in -1..MAX_MOTION - 1 /\ Filled - header >= -MAX_MOTION
  BY <1>1, <1>3, <1>4, <1>5, RingSize DEF Slot, Typing
<1>7. command \in Motion
  BY Bounds DEF ShellInv, TypeOK, Motion, Blank
<1>. QED
  BY <1>1, <1>2, <1>3, <1>4, <1>6, <1>7 DEF ShellInv, TypeOK

LEMMA BacklogIs ==
  ASSUME ShellInv, PaceInv
  PROVE  /\ Backlog \in 0..MAX_MOTION - 1
         /\ Backlog = IF Filled >= header THEN Filled - header ELSE Filled - header + MAX_MOTION
         /\ \A i \in 0..MAX_MOTION - 1 :
              /\ (header + i) % MAX_MOTION
                   = IF header + i < MAX_MOTION THEN header + i ELSE header + i - MAX_MOTION
              /\ (header + i) % MAX_MOTION \in Slot
BY Ranges, Around DEF Backlog

(* The slot that main blanks is the last place of the queue; the one that  *)
(* is filled is the next place to take.                                    *)
LEMMA Apart ==
  ASSUME ShellInv, PaceInv, RoomInv, header \in Slot, spc # "reset"
  PROVE  /\ \A i \in 1..Backlog : /\ (header + i) % MAX_MOTION # header
                                  /\ spc \in Putting => (header + i) % MAX_MOTION # tail
                                  /\ (header + i) % MAX_MOTION = Before(header)
                                       <=> i = MAX_MOTION - 1
         /\ spc \in Putting => /\ (tail - header) % MAX_MOTION = Backlog + 1
                               /\ Backlog + 1 \in 1..MAX_MOTION - 1
                               /\ tail = Before(header) <=> Backlog + 1 = MAX_MOTION - 1
<1>1. Backlog \in 0..MAX_MOTION - 1 /\ MAX_MOTION \in Nat /\ MAX_MOTION >= 2
  BY BacklogIs, RingSize
<1>2. header \in 0..MAX_MOTION - 1 /\ tail \in 0..MAX_MOTION
  BY Ranges DEF Slot
<1>3. ASSUME NEW i \in 1..Backlog
      PROVE  /\ (header + i) % MAX_MOTION # header
             /\ (header + i) % MAX_MOTION = Before(header) <=> i = MAX_MOTION - 1
  <2>1. i \in 0..MAX_MOTION - 1 /\ i # 0
    BY <1>1
  <2>2. (header + i) % MAX_MOTION
           = IF header + i < MAX_MOTION THEN header + i ELSE header + i - MAX_MOTION
    BY <2>1, BacklogIs
  <2>. QED
    BY <1>1, <1>2, <2>1, <2>2 DEF Before
<1>4. CASE spc \in Putting
  <2>1. tail \in 0..MAX_MOTION - 1 /\ tail # header /\ Filled = tail - 1
    BY <1>4, <1>1, Ranges DEF Slot, Typing, Putting, RoomInv
  <2>2. Backlog = IF tail - 1 >= header THEN tail - 1 - header ELSE tail - 1 - header + MAX_MOTION
    BY <2>1, BacklogIs
  <2>3. (tail - header) % MAX_MOTION
          = IF tail >= header THEN tail - header ELSE tail - header + MAX_MOTION
    BY <1>1, <1>2, <2>1, Around
  <2>4. (tail - header) % MAX_MOTION = Backlog + 1 /\ Backlog + 1 \in 1..MAX_MOTION - 1
    BY <1>1, <1>2, <2>1, <2>2, <2>3
  <2>5. tail = Before(header) <=> Backlog + 1 = MAX_MOTION - 1
    BY <1>1, <1>2, <2>1, <2>2 DEF Before
  <2>6. ASSUME NEW i \in 1..Backlog PROVE (header + i) % MAX_MOTION # tail
    <3>1. i \in 0..MAX_MOTION - 1
      BY <1>1
    <3>2. (header + i) % MAX_MOTION
             = IF header + i < MAX_MOTION THEN header + i ELSE header + i - MAX_MOTION
      BY <3>1, BacklogIs
    <3>. QED
      BY <1>1, <1>2, <2>1, <2>2, <3>2
  <2>. QED
    BY <1>3, <2>4, <2>5, <2>6
<1>. QED
  BY <1>3, <1>4

-----------------------------------------------------------------------------
(* Each part of the invariant, step by step. *)

LEMMA QueueInit == Init => ShellInv /\ SendInv /\ PaceInv /\ ListInv
<1> SUFFICES ASSUME Init PROVE ShellInv /\ SendInv /\ PaceInv /\ ListInv
  OBVIOUS
<1>1. ShellInv
  BY ShellInit
<1>2. PaceInv
  BY DEF Init, PaceInv, HandlerPcs, LastStop, Loading
<1>3. RoomInv /\ PutInv /\ BlankInv
  BY DEF Init, RoomInv, PutInv, BlankInv, Typing, Putting, Sending, Loading, Blanking
<1>4. LengthInv
  BY OperatorAssumption DEF Init, LengthInv, Blank
<1>5. SendInv
  BY DEF Init, SendInv, SpiInit
<1>. QED
  BY <1>1, <1>2, <1>3, <1>4, <1>5 DEF ListInv

(* A handler on main never returns to it. *)
LEMMA HandlerStays ==
  ASSUME Next, ~Interrupted'
  PROVE  ~Interrupted /\ ~Interrupt /\ ~Handler
<1> USE DEF Interrupted, HandlerPcs
<1>1. ~Interrupt
  BY DEF Interrupt
<1>2. ~Handler
  BY DEF Handler, HandlerLed, HandlerExit, SetWheel, SendFrame, Main
<1>3. MainStep => ~Interrupted
  BY <1>2 DEF MainStep, Connect, InitSpi, LightLed, CreateThread, Abort, StartTimer, Poll,
     NewCommand, StopMotion, LastIndex, Unflag, LoadDrive, SetWheel, SendFrame, Zero,
     TestStopped, MarkStopped, Resume, Main
<1>4. TimerStep => ~Interrupted
  BY DEF TimerStep, Tick, Idle, MotionOver, MoveHeader, WrapHeader
<1>5. ParseStep => ~Interrupted
  BY DEF ParseStep, WrapTail, TestFull, ResetHeader, Put, mainVars
<1>6. TypeStep => ~Interrupted
  BY DEF TypeStep, TypeMotion, TypeReset, TypeExit, Type
<1>7. Ended => ~Interrupted
  BY DEF Ended, vars
<1>. QED
  BY <1>1, <1>2, <1>3, <1>4, <1>5, <1>6, <1>7 DEF Next

(* main runs while no timerHandler does. *)
LEMMA MainFree ==
  ASSUME ShellInv, PaceInv, Free
  PROVE  tpc = "off"
BY DEF Free, ShellInv, IndexInv, PaceInv

LEMMA PaceKept ==
  ASSUME Paced, ShellInv, PaceInv, Next, ~Interrupted'
  PROVE  PaceInv'
<1>0. ~Interrupt /\ ~Handler
  BY HandlerStays
<1> USE DEF PaceInv, HandlerPcs, LastStop, Early, Loading
<1>1. CASE MainStep
  <2>1. Free => tpc = "off"
    BY MainFree
  <2>2. CASE Connect
    <3>1. CASE InitSpi
      BY <2>1, <3>1 DEF InitSpi, Main, init_spi, flagVars
    <3>2. CASE LightLed \/ CreateThread
      BY <2>1, <3>2 DEF LightLed, CreateThread, Main, spiVars, flagVars
    <3>. QED
      BY <2>2, <3>1, <3>2 DEF Connect
  <2>3. CASE Abort
    BY <2>3 DEF Abort, spiVars, ringVars, flagVars, Over
  <2>4. CASE StartTimer \/ Poll \/ LastIndex \/ LoadDrive \/ TestStopped
    BY <2>1, <2>4 DEF StartTimer, Poll, LastIndex, LoadDrive, TestStopped, Main, spiVars, flagVars
  <2>5. CASE Unflag \/ MarkStopped \/ Resume
    BY <2>1, <2>5 DEF Unflag, MarkStopped, Resume, Main, spiVars
  <2>6. ASSUME NEW speeds, SetWheel("set", "send", speeds) \/ SetWheel("s_set", "s_send", speeds)
        PROVE  PaceInv'
    BY <2>1, <2>6 DEF SetWheel, setSpeed, flagVars
  <2>7. CASE SendFrame("send", "zero_speed") \/ SendFrame("s_send", "s_zero_speed")
    BY <2>1, <2>7 DEF SendFrame, update, Main, flagVars
  <2>8. ASSUME NEW i, NEW field,
               \/ Zero("zero_speed", "zero_turn", i, field)
               \/ Zero("zero_turn", "zero_duration", i, field)
               \/ Zero("zero_duration", "poll", i, field)
               \/ Zero("s_zero_speed", "s_zero_turn", i, field)
               \/ Zero("s_zero_turn", "s_zero_duration", i, field)
               \/ Zero("s_zero_duration", "resume", i, field)
        PROVE  PaceInv'
    BY <2>1, <2>8 DEF Zero, Main, spiVars, flagVars
  <2>9. CASE NewCommand
    BY <2>4, <2>5, <2>6, <2>7, <2>8, <2>9 DEF NewCommand
  <2>10. CASE StopMotion
    BY <2>4, <2>5, <2>6, <2>7, <2>8, <2>10 DEF StopMotion
  <2>. QED
    BY <1>0, <1>1, <2>2, <2>3, <2>4, <2>9, <2>10 DEF MainStep
<1>3. CASE TimerStep
  <2>1. CASE Tick
    BY <2>1 DEF Tick, Calm, spiVars, flagVars
  <2>2. CASE Idle
    BY <2>2 DEF Idle, Over, spiVars, ringVars
  <2>3. CASE MotionOver
    BY <2>3 DEF MotionOver, Over, spiVars, ringVars
  <2>4. CASE MoveHeader \/ WrapHeader
    BY <2>4 DEF MoveHeader, WrapHeader, spiVars, flagVars
  <2>. QED
    BY <1>3, <2>1, <2>2, <2>3, <2>4 DEF TimerStep
<1>4. CASE ParseStep
  <2>1. tpc = "off"
    BY <1>4 DEF ParseStep, MayParse, ShellInv, IndexInv
  <2>. QED
    BY <1>4, <2>1 DEF ParseStep, WrapTail, TestFull, ResetHeader, Put, spiVars, flagVars, mainVars
<1>5. CASE TypeStep
  <2>1. tpc = "off"
    BY <1>5 DEF TypeStep, MayParse, ShellInv, IndexInv
  <2>. QED
    BY <1>5, <2>1 DEF TypeStep, TypeMotion, TypeReset, TypeExit, Type, spiVars, flagVars
<1>6. CASE Ended
  BY <1>6 DEF Ended, vars, spiVars, ringVars, flagVars, Over
<1>. QED
  BY <1>0, <1>1, <1>3, <1>4, <1>5, <1>6 DEF Next

(* A wheel at a time, then the frame. *)
LEMMA WheelStored ==
  ASSUME ShellInv, toSet \subseteq Wheel, NEW here, NEW next, here # next,
         NEW speeds \in [Wheel -> Speeds], SetWheel(here, next, speeds),
         \A w \in Wheel \ toSet : msgTX.set_motor /\ msgTX.motor[w] = speeds[w]
  PROVE  /\ mpc = here /\ toSet' \subseteq Wheel
         /\ \/ mpc' = next /\ toSet' = Wheel /\ msgTX'.set_motor /\ msgTX'.motor = speeds
            \/ /\ mpc' = here
               /\ \A w \in Wheel \ toSet' : msgTX'.set_motor /\ msgTX'.motor[w] = speeds[w]
<1>1. PICK w \in toSet : /\ setSpeed(w, speeds[w])
                         /\ IF toSet = {w} THEN mpc' = next /\ toSet' = Wheel
                            ELSE mpc' = mpc /\ toSet' = toSet \ {w}
  BY DEF SetWheel
<1>2. mpc = here /\ w \in Wheel
  BY <1>1 DEF SetWheel
<1>3. msgTX.motor \in [Wheel -> Speeds]
  BY DEF ShellInv, TypeOK, SpiTypeOK
<1>4. /\ msgTX'.set_motor /\ msgTX'.motor \in [Wheel -> Speeds]
      /\ msgTX'.motor[w] = speeds[w]
      /\ \A x \in Wheel \ {w} : msgTX'.motor[x] = msgTX.motor[x]
  BY <1>1, <1>2, <1>3 DEF setSpeed
<1>5. CASE toSet = {w}
  <2>1. \A x \in Wheel : msgTX'.motor[x] = speeds[x]
    BY <1>2, <1>4, <1>5
  <2>2. msgTX'.motor = speeds
    BY <1>4, <2>1
  <2>. QED
    BY <1>1, <1>2, <1>4, <1>5, <2>2
<1>6. CASE toSet # {w}
  BY <1>1, <1>2, <1>4, <1>6
<1>. QED
  BY <1>5, <1>6

LEMMA RestSpeeds == WheelSpeeds(Blank) = AtRest
<1>1. Truncate(18 * 0 + 0, 18) = 0 /\ Int16(0) = 0
  BY DEF Truncate, Int16
<1>2. ASSUME NEW w \in Wheel PROVE WheelSpeed(Blank, w) = 0
  <2>1. Blank.speed = 0 /\ Blank.turnrate = 0
    BY DEF Blank
  <2>. QED
    BY <1>1, <2>1 DEF WheelSpeed
<1>. QED
  BY <1>2 DEF WheelSpeeds, AtRest

LEMMA SendKept ==
  ASSUME Paced, QueueInv, Next
  PROVE  SendInv'
<1>1. ShellInv /\ SendInv /\ (mpc \notin HandlerPcs => PaceInv /\ ListInv)
  BY DEF QueueInv, Interrupted
<1>. USE DEF SendInv
<1>2. CASE MainStep
  <2>1. CASE Connect
    <3>1. CASE InitSpi
      BY <1>1, <3>1 DEF InitSpi, Main, init_spi, mainVars
    <3>2. CASE LightLed \/ CreateThread
      BY <1>1, <3>2 DEF LightLed, CreateThread, Main, spiVars, mainVars
    <3>. QED
      BY <2>1, <3>1, <3>2 DEF Connect
  <2>2. CASE Abort
    BY <1>1, <2>2 DEF Abort, spiVars, mainVars, ringVars
  <2>3. CASE StartTimer \/ Poll \/ LastIndex \/ Unflag \/ TestStopped \/ MarkStopped \/ Resume
             \/ HandlerLed \/ HandlerExit
    BY <1>1, <2>3 DEF StartTimer, Poll, LastIndex, Unflag, TestStopped, MarkStopped, Resume,
       HandlerLed, HandlerExit, Main, spiVars, mainVars
  <2>4. CASE LoadDrive
    <3>1. drive \in [speed : Int, turnrate : Int]
      BY <1>1 DEF ShellInv, TypeOK
    <3>. QED
      BY <1>1, <2>4, <3>1 DEF LoadDrive, Main, ringVars, spiVars
  <2>5. CASE SetWheel("set", "send", WheelSpeeds(drive))
    <3>1. WheelSpeeds(drive) \in [Wheel -> Speeds]
      BY <1>1, WheelSpeedsTyped DEF ShellInv, TypeOK
    <3>2. UNCHANGED <<motionList, header, drive, spi, dsPIC>>
      BY <2>5 DEF SetWheel, ringVars, setSpeed
    <3>3. mpc = "set"
      BY <2>5 DEF SetWheel
    <3>4. /\ toSet' \subseteq Wheel
          /\ \/ /\ mpc' = "send" /\ toSet' = Wheel
                /\ msgTX'.set_motor /\ msgTX'.motor = WheelSpeeds(drive)
             \/ /\ mpc' = "set"
                /\ \A w \in Wheel \ toSet' :
                     msgTX'.set_motor /\ msgTX'.motor[w] = WheelSpeeds(drive)[w]
      BY <1>1, <2>5, <3>1, <3>3, WheelStored
    <3>. QED
      BY <1>1, <3>2, <3>3, <3>4
  <2>6. ASSUME NEW here \in {"s_set", "i_set"}, NEW next \in {"s_send", "i_send"},
               SetWheel(here, next, AtRest)
        PROVE  SendInv'
    <3>1. AtRest \in [Wheel -> Speeds] /\ \A w \in Wheel : AtRest[w] = 0
      BY SpeedsAssumption DEF AtRest
    <3>2. mpc = here /\ here # next /\ UNCHANGED <<spi, dsPIC>>
      BY <2>6 DEF SetWheel, setSpeed
    <3>3. /\ toSet' \subseteq Wheel
          /\ \/ mpc' = next /\ toSet' = Wheel /\ msgTX'.set_motor /\ msgTX'.motor = AtRest
             \/ /\ mpc' = here
                /\ \A w \in Wheel \ toSet' : msgTX'.set_motor /\ msgTX'.motor[w] = AtRest[w]
      BY <1>1, <2>6, <3>1, <3>2, WheelStored
    <3>. QED
      BY <1>1, <3>1, <3>2, <3>3
  <2>7. ASSUME NEW here \in {"send", "s_send", "i_send"},
               NEW next \in {"zero_speed", "s_zero_speed", "i_exit"},
               SendFrame(here, next)
        PROVE  SendInv'
    <3>1. /\ mpc = here /\ mpc' = next /\ UNCHANGED <<msgTX, spi, toSet, motionList, header, drive>>
      BY <2>7 DEF SendFrame, Main, update, mainVars, ringVars
    <3>2. ~spi => dsPIC'.motor = AtRest
      BY <1>1, <2>7 DEF SendFrame, update, Deliver
    <3>. QED
      BY <1>1, <3>1, <3>2
  <2>8. ASSUME NEW i, NEW field,
               \/ Zero("zero_speed", "zero_turn", i, field)
               \/ Zero("zero_turn", "zero_duration", i, field)
               \/ Zero("zero_duration", "poll", i, field)
               \/ Zero("s_zero_speed", "s_zero_turn", i, field)
               \/ Zero("s_zero_turn", "s_zero_duration", i, field)
               \/ Zero("s_zero_duration", "resume", i, field)
        PROVE  SendInv'
    BY <1>1, <2>8 DEF Zero, Main, mainVars, spiVars
  <2>9. CASE Handler
    BY <2>3, <2>6, <2>7, <2>9 DEF Handler
  <2>10. CASE NewCommand
    BY <2>3, <2>4, <2>5, <2>7, <2>8, <2>10 DEF NewCommand
  <2>11. CASE StopMotion
    BY <2>3, <2>6, <2>7, <2>8, <2>11, RestSpeeds DEF StopMotion
  <2>. QED
    BY <1>2, <2>1, <2>2, <2>3, <2>9, <2>10, <2>11 DEF MainStep
<1>3. CASE Interrupt
  BY <1>1, <1>3 DEF Interrupt, spiVars
<1>4. CASE TimerStep
  <2>1. mpc \in HandlerPcs \cup {"poll", "resume"} \/ UNCHANGED <<motionList, header>>
    BY <1>1, <1>4 DEF TimerStep, Tick, Idle, MotionOver, MoveHeader, WrapHeader, PaceInv, ringVars
  <2>2. UNCHANGED <<spiVars, mainVars, mpc>>
    BY <1>4 DEF TimerStep, Tick, Idle, MotionOver, MoveHeader, WrapHeader
  <2>. QED
    BY <1>1, <2>1, <2>2 DEF HandlerPcs, spiVars, mainVars
<1>5. CASE ParseStep
  <2>1. UNCHANGED <<spiVars, mainVars, mpc>>
    BY <1>5 DEF ParseStep, WrapTail, TestFull, ResetHeader, Put
  <2>2. CASE ResetHeader
    <3>1. mpc \in {"start", "poll"}
      BY <2>2 DEF ResetHeader, MayReset
    <3>. QED
      BY <1>1, <2>1, <3>1 DEF spiVars, mainVars
  <2>3. CASE WrapTail \/ TestFull
    BY <1>1, <2>1, <2>3 DEF WrapTail, TestFull, spiVars, mainVars
  <2>4. ASSUME NEW here \in Putting, NEW next, NEW field, Put(here, next, field)
        PROVE  SendInv'
    <3>1. mpc \in {"load_turn", "set", "send"} => motionList'[header'] = motionList[header]
      <4> SUFFICES ASSUME mpc \in {"load_turn", "set", "send"}
                   PROVE  motionList'[header'] = motionList[header]
        OBVIOUS
      <4>1. PaceInv /\ ListInv
        BY <1>1 DEF HandlerPcs
      <4>2. tail # header /\ header \in Slot /\ motionList \in [Slot -> Motion]
        BY <1>1, <2>4, <4>1, Ranges DEF Put, Shell, ListInv, RoomInv, PaceInv
      <4>. QED
        BY <2>4, <4>2 DEF Put
    <3>. QED
      BY <1>1, <2>1, <3>1 DEF spiVars, mainVars
  <2>. QED
    BY <1>5, <2>2, <2>3, <2>4 DEF ParseStep, Putting
<1>6. CASE TypeStep
  BY <1>1, <1>6 DEF TypeStep, TypeMotion, TypeReset, TypeExit, Type, mainVars, spiVars
<1>7. CASE Ended
  BY <1>1, <1>7 DEF Ended, vars, spiVars, ringVars, mainVars
<1>. QED
  BY <1>2, <1>3, <1>4, <1>5, <1>6, <1>7 DEF Next

(* A step of main that leaves the list alone. *)
LEMMA ListStill ==
  ASSUME ListInv, UNCHANGED <<motionList, header, tail, command>>,
         spc' = spc \/ (spc = "none" /\ spc' = "prompt"),
         \/ UNCHANGED <<mpc, lastcmdIndex>>
         \/ /\ mpc' \notin {"s_zero_turn", "s_zero_duration"}
            /\ mpc' \in Sending \cup Blanking => lastcmdIndex' = Before(header)
  PROVE  ListInv'
<1>1. RoomInv'
  BY DEF ListInv, RoomInv, Typing, Putting
<1>2. PutInv'
  BY DEF ListInv, PutInv, Stored
<1>3. BlankInv'
  BY DEF ListInv, BlankInv
<1>4. LengthInv'
  BY DEF ListInv, LengthInv
<1>. QED
  BY <1>1, <1>2, <1>3, <1>4 DEF ListInv

(* A store of one field of one slot. *)
LEMMA FieldWritten ==
  ASSUME motionList \in [Slot -> Motion], NEW i \in Slot, NEW field \in Field, NEW value \in Int,
         motionList' = [motionList EXCEPT ![i] = [@ EXCEPT ![field] = value]]
  PROVE  /\ motionList' \in [Slot -> Motion]
         /\ \A j \in Slot \ {i} : motionList'[j] = motionList[j]
         /\ motionList'[i][field] = value
         /\ \A f \in Field \ {field} : motionList'[i][f] = motionList[i][f]
<1> DEFINE m == [motionList[i] EXCEPT ![field] = value]
<1>1. m \in Motion
  BY FieldStored
<1>2. m[field] = value /\ \A f \in Field \ {field} : m[f] = motionList[i][f]
  <2>1. DOMAIN motionList[i] = Field
    BY DEF Motion, Field
  <2>. QED
    BY <2>1
<1>3. motionList' = [motionList EXCEPT ![i] = m]
  OBVIOUS
<1>. HIDE DEF m
<1>. QED
  BY <1>1, <1>2, <1>3

LEMMA SameMotion ==
  ASSUME NEW m \in Motion, NEW l \in Motion, m.speed = l.speed, m.turnrate = l.turnrate,
         m.duration = l.duration
  PROVE  m = l
BY DEF Motion

LEMMA BlankMotion == Blank \in Motion /\ Blank.speed = 0 /\ Blank.turnrate = 0 /\ Blank.duration = 0
BY DEF Blank, Motion

LEMMA ZeroedMotion ==
  ASSUME NEW m \in Motion, NEW lost
  PROVE  /\ Queue!Zeroed(m, lost) \in Motion
         /\ Queue!Zeroed(m, lost).speed = IF "speed" \in lost THEN 0 ELSE m.speed
         /\ Queue!Zeroed(m, lost).turnrate = IF "turnrate" \in lost THEN 0 ELSE m.turnrate
         /\ Queue!Zeroed(m, lost).duration = IF "duration" \in lost THEN 0 ELSE m.duration
BY DEF Motion, Queue!Zeroed

(* A slot with a field blanked. *)
LEMMA FieldZeroed ==
  ASSUME motionList \in [Slot -> Motion], NEW i \in Slot, NEW field \in Field,
         motionList' = [motionList EXCEPT ![i] = [@ EXCEPT ![field] = 0]],
         LengthInv
  PROVE  /\ motionList' \in [Slot -> Motion]
         /\ \A j \in Slot \ {i} : motionList'[j] = motionList[j]
         /\ motionList'[i][field] = 0
         /\ \A f \in Field \ {field} : motionList'[i][f] = motionList[i][f]
         /\ motionList'[i] = Queue!Zeroed(motionList[i], {field})
         /\ LengthInv'
<1>0. 0 \in Int
  OBVIOUS
<1>1. /\ motionList' \in [Slot -> Motion]
      /\ \A j \in Slot \ {i} : motionList'[j] = motionList[j]
      /\ motionList'[i][field] = 0
      /\ \A f \in Field \ {field} : motionList'[i][f] = motionList[i][f]
  BY <1>0, FieldWritten
<1>2. motionList'[i] = Queue!Zeroed(motionList[i], {field})
  <2> DEFINE m == motionList'[i]
             l == motionList[i]
             z == Queue!Zeroed(l, {field})
  <2>1. m \in Motion /\ l \in Motion
    BY <1>1
  <2>2. m[field] = 0 /\ \A f \in Field \ {field} : m[f] = l[f]
    BY <1>1
  <2>. HIDE DEF m, l
  <2>3. /\ z \in Motion
        /\ z.speed = IF field = "speed" THEN 0 ELSE l.speed
        /\ z.turnrate = IF field = "turnrate" THEN 0 ELSE l.turnrate
        /\ z.duration = IF field = "duration" THEN 0 ELSE l.duration
    BY <2>1, ZeroedMotion
  <2>. HIDE DEF z
  <2>4. m.speed = z.speed /\ m.turnrate = z.turnrate /\ m.duration = z.duration
    BY <2>2, <2>3 DEF Field
  <2>5. m = z
    BY <2>1, <2>3, <2>4, SameMotion
  <2>. QED
    BY <2>5 DEF m, l, z
<1>3. LengthInv'
  <2>1. motionList'[i].duration = 0 \/ motionList'[i].duration = motionList[i].duration
    BY <1>1 DEF Field
  <2>. QED
    BY <1>1, <2>1, OperatorAssumption DEF LengthInv
<1>. QED
  BY <1>1, <1>2, <1>3

(* main blanks the slot before header. *)
BlankStep ==
  \/ Zero("zero_speed", "zero_turn", lastcmdIndex, "speed")
  \/ Zero("zero_turn", "zero_duration", lastcmdIndex, "turnrate")
  \/ Zero("zero_duration", "poll", lastcmdIndex, "duration")

LEMMA ListBlanked ==
  ASSUME ShellInv, PaceInv, ListInv, BlankStep
  PROVE  /\ ListInv' /\ header \in Slot /\ Before(header) # header /\ Before(header) \in Slot
         /\ \A j \in Slot \ {Before(header)} : motionList'[j] = motionList[j]
         /\ \E field \in Field :
              motionList'[Before(header)] = Queue!Zeroed(motionList[Before(header)], {field})
<1> DEFINE k == lastcmdIndex
<1>1. /\ motionList \in [Slot -> Motion] /\ k \in Slot /\ header \in Slot /\ k = Before(header)
      /\ mpc \in Blanking
  BY Ranges DEF BlankStep, ListInv, RoomInv, Zero, Main, Blanking, PaceInv
<1>2. k # header
  BY <1>1, RingSize DEF Before, Slot
<1>3. /\ UNCHANGED <<header, tail, spc, command, lastcmdIndex>>
      /\ mpc' \in {"zero_turn", "zero_duration", "poll"}
  BY DEF BlankStep, Zero, Main, mainVars, shellVars
<1>4. PICK field \in Field : motionList' = [motionList EXCEPT ![k] = [@ EXCEPT ![field] = 0]]
  BY DEF BlankStep, Zero, Field
<1>. HIDE DEF k
<1>5. /\ motionList' \in [Slot -> Motion]
      /\ \A j \in Slot \ {k} : motionList'[j] = motionList[j]
      /\ motionList'[k][field] = 0
      /\ \A f \in Field \ {field} : motionList'[k][f] = motionList[k][f]
      /\ motionList'[k] = Queue!Zeroed(motionList[k], {field})
      /\ LengthInv'
  BY <1>1, <1>4, FieldZeroed DEF ListInv
<1>6. RoomInv'
  BY <1>1, <1>3 DEF ListInv, RoomInv, Typing, Putting, Sending, Loading, Blanking, k
<1>7. PutInv'
  <2>1. ASSUME NEW f \in Field, Stored(f), tail \in Slot PROVE Stored(f)'
    <3>1. CASE tail = k
      BY <1>1, <1>3, <1>5, <2>1, <3>1 DEF Stored
    <3>2. CASE tail # k
      BY <1>3, <1>5, <2>1, <3>2 DEF Stored
    <3>. QED
      BY <3>1, <3>2
  <2>2. spc \in {"put_turn", "put_duration"} => tail \in Slot
    BY Ranges
  <2>. QED
    BY <1>3, <2>1, <2>2 DEF ListInv, PutInv, Field
<1>8. BlankInv'
  BY <1>3 DEF BlankInv
<1>. QED
  BY <1>1, <1>2, <1>5, <1>6, <1>7, <1>8 DEF ListInv

(* main blanks the slot of the last motion, at its end. *)
EndStep ==
  \/ Zero("s_zero_speed", "s_zero_turn", header, "speed")
  \/ Zero("s_zero_turn", "s_zero_duration", header, "turnrate")
  \/ Zero("s_zero_duration", "resume", header, "duration")

LEMMA ListEnded ==
  ASSUME ShellInv, PaceInv, ListInv, EndStep
  PROVE  /\ ListInv' /\ header \in Slot
         /\ \A j \in Slot \ {header} : motionList'[j] = motionList[j]
         /\ mpc' = "resume" => motionList'[header] = Blank
<1> DEFINE k == header
<1>1. motionList \in [Slot -> Motion] /\ k \in Slot /\ mpc \in LastBlank
  BY Ranges DEF EndStep, Zero, Main, LastBlank, PaceInv
<1>2. /\ UNCHANGED <<header, tail, spc, command, lastcmdIndex>>
      /\ mpc' \notin Sending \cup Blanking
  BY DEF EndStep, Zero, Main, mainVars, shellVars, Sending, Loading, Blanking
<1>3. spc \in {"put_turn", "put_duration"} => tail \in Slot \ {k}
  BY Ranges DEF ListInv, RoomInv, Putting
<1>4. PICK field \in Field :
        /\ motionList' = [motionList EXCEPT ![k] = [@ EXCEPT ![field] = 0]]
        /\ \/ field = "speed" /\ mpc = "s_zero_speed" /\ mpc' = "s_zero_turn"
           \/ field = "turnrate" /\ mpc = "s_zero_turn" /\ mpc' = "s_zero_duration"
           \/ field = "duration" /\ mpc = "s_zero_duration" /\ mpc' = "resume"
  BY DEF EndStep, Zero, Main, Field
<1>. HIDE DEF k
<1>5. /\ motionList' \in [Slot -> Motion]
      /\ \A j \in Slot \ {k} : motionList'[j] = motionList[j]
      /\ motionList'[k][field] = 0
      /\ \A f \in Field \ {field} : motionList'[k][f] = motionList[k][f]
      /\ LengthInv'
  BY <1>1, <1>4, FieldZeroed DEF ListInv
<1>6. RoomInv'
  BY <1>1, <1>2 DEF ListInv, RoomInv, Typing, Putting
<1>7. PutInv'
  BY <1>2, <1>3, <1>5 DEF ListInv, PutInv, Stored
<1>8. BlankInv /\ BlankInv'
  <2>1. BlankInv
    BY DEF ListInv
  <2>. QED
    BY <1>2, <1>4, <1>5, <2>1 DEF BlankInv, Field, k
<1>9. mpc' = "resume" => motionList'[k] = Blank
  <2> SUFFICES ASSUME mpc' = "resume" PROVE motionList'[k] = Blank
    OBVIOUS
  <2>1. field = "duration" /\ motionList[k].speed = 0 /\ motionList[k].turnrate = 0
    BY <1>4, <1>8 DEF BlankInv, k
  <2>2. /\ motionList'[k] \in Motion /\ motionList'[k].speed = 0
        /\ motionList'[k].turnrate = 0 /\ motionList'[k].duration = 0
    BY <1>1, <1>5, <2>1 DEF Field
  <2>. QED
    BY <2>2, SameMotion, BlankMotion
<1>. QED
  BY <1>1, <1>5, <1>6, <1>7, <1>8, <1>9 DEF ListInv, k

(* The timer moves header on: a motion less waits. *)
LEMMA HeaderMoved ==
  ASSUME ShellInv, PaceInv, ListInv, MoveHeader
  PROVE  /\ ListInv' /\ UNCHANGED <<motionList, tail, mpc, spc>> /\ mpc = "poll" /\ spc = "prompt"
         /\ header' = header + 1 /\ header \in Slot /\ Backlog' = Backlog - 1
         /\ Backlog \in 1..MAX_MOTION - 1
<1>1. /\ mpc = "poll" /\ spc = "prompt" /\ header # tail /\ header' = header + 1
      /\ UNCHANGED <<motionList, tail, mpc, spc, command, lastcmdIndex>>
  BY DEF MoveHeader, PaceInv, mainVars, shellVars
<1>2. header \in Slot /\ tail \in Slot
  BY <1>1, Ranges DEF MoveHeader
<1>3. Filled = tail /\ Filled' = tail
  BY <1>1 DEF Filled
<1>4. Backlog = IF tail >= header THEN tail - header ELSE tail - header + MAX_MOTION
  BY <1>3, BacklogIs
<1>5. Backlog'
        = IF tail >= header + 1 THEN tail - (header + 1) ELSE tail - (header + 1) + MAX_MOTION
  <2> DEFINE h == header + 1
  <2>1. h \in 0..MAX_MOTION /\ tail \in -1..MAX_MOTION - 1 /\ tail - h >= -MAX_MOTION
    BY <1>2, RingSize DEF Slot
  <2>2. Backlog' = (tail - h) % MAX_MOTION
    BY <1>1, <1>3 DEF Backlog
  <2>. HIDE DEF h
  <2>3. Backlog' = IF tail >= h THEN tail - h ELSE tail - h + MAX_MOTION
    BY <2>1, <2>2, Around
  <2>. QED
    BY <2>3 DEF h
<1>6. Backlog' = Backlog - 1 /\ Backlog \in 1..MAX_MOTION - 1
  BY <1>1, <1>2, <1>4, <1>5, RingSize DEF Slot
<1>7. ListInv'
  BY <1>1 DEF ListInv, RoomInv, PutInv, BlankInv, LengthInv, Typing, Putting, Sending, Loading,
     Blanking
<1>. QED
  BY <1>1, <1>2, <1>6, <1>7

LEMMA HeaderWrapped ==
  ASSUME ShellInv, PaceInv, ListInv, WrapHeader
  PROVE  /\ ListInv' /\ UNCHANGED <<motionList, tail, mpc, spc>> /\ mpc = "poll" /\ spc = "prompt"
         /\ header \in 0..MAX_MOTION /\ header' = IF header = MAX_MOTION THEN 0 ELSE header
         /\ Backlog' = Backlog /\ Backlog \in 0..MAX_MOTION - 1
<1>1. /\ mpc = "poll" /\ spc = "prompt" /\ header' = IF header = MAX_MOTION THEN 0 ELSE header
      /\ UNCHANGED <<motionList, tail, mpc, spc, command, lastcmdIndex>>
  BY DEF WrapHeader, PaceInv, mainVars, shellVars
<1>2. header \in 0..MAX_MOTION /\ tail \in Slot
  BY <1>1, Ranges
<1>3. Filled = tail /\ Filled' = tail
  BY <1>1 DEF Filled
<1>4. /\ Backlog = IF tail >= header THEN tail - header ELSE tail - header + MAX_MOTION
      /\ Backlog \in 0..MAX_MOTION - 1
  BY <1>3, BacklogIs
<1>5. Backlog' = Backlog
  <2>1. CASE header # MAX_MOTION
    BY <1>1, <1>3, <2>1 DEF Backlog
  <2>2. CASE header = MAX_MOTION
    <3>1. 0 \in 0..MAX_MOTION /\ tail \in -1..MAX_MOTION - 1 /\ tail - 0 >= -MAX_MOTION
      BY <1>2, RingSize DEF Slot
    <3>2. Backlog' = (tail - 0) % MAX_MOTION
      BY <1>1, <1>3, <2>2 DEF Backlog
    <3>3. (tail - 0) % MAX_MOTION = IF tail >= 0 THEN tail - 0 ELSE tail - 0 + MAX_MOTION
      BY <3>1, Around
    <3>. QED
      BY <1>2, <1>4, <2>2, <3>2, <3>3, RingSize DEF Slot
  <2>. QED
    BY <2>1, <2>2
<1>6. ListInv'
  BY <1>1 DEF ListInv, RoomInv, PutInv, BlankInv, LengthInv, Typing, Putting, Sending, Loading,
     Blanking
<1>. QED
  BY <1>1, <1>2, <1>4, <1>5, <1>6

(* cmdShell runs while timerHandler does not. *)
LEMMA Parsing ==
  ASSUME Paced, PaceInv, ShellInv, MayParse
  PROVE  /\ tpc = "off" /\ proc = "running"
         /\ header \in Slot /\ header \in 0..MAX_MOTION /\ tail \in 0..MAX_MOTION
         /\ MAX_MOTION \in Nat /\ MAX_MOTION >= 2
<1>1. tpc = "off" /\ proc = "running"
  BY DEF MayParse, PaceInv, ShellInv, IndexInv
<1>. QED
  BY <1>1, Ranges, RingSize

(* A step of cmdShell that stores no field. *)
LEMMA ListParsed ==
  ASSUME ListInv, UNCHANGED <<motionList, header, mpc, lastcmdIndex>>,
         spc' \notin {"put_turn", "put_duration"},
         spc' = "reset" => tail' = 0,
         spc' \in Typing => command' \in Commands,
         spc' \in Putting => tail' # header
  PROVE  ListInv'
BY DEF ListInv, RoomInv, PutInv, BlankInv, LengthInv

LEMMA TailWrapped ==
  ASSUME Paced, ShellInv, PaceInv, ListInv, MayParse, WrapTail
  PROVE  /\ ListInv' /\ UNCHANGED <<motionList, header, mpc>> /\ Backlog' = Backlog
         /\ spc # "reset" /\ spc' # "reset"
<1>1. /\ spc = "wrap_tail" /\ spc' = "full?" /\ tail' = IF tail = MAX_MOTION THEN 0 ELSE tail
      /\ UNCHANGED <<motionList, header, mpc, command, lastcmdIndex>>
  BY DEF WrapTail, Shell, mainVars, shellVars
<1>2. Filled = tail - 1 /\ Filled' = tail' - 1
  BY <1>1 DEF Filled
<1>3. Backlog' = Backlog
  <2>1. CASE tail # MAX_MOTION
    BY <1>1, <1>2, <2>1 DEF Backlog
  <2>2. CASE tail = MAX_MOTION
    <3>1. /\ -1 \in -1..MAX_MOTION - 1 /\ MAX_MOTION - 1 \in -1..MAX_MOTION - 1
          /\ -1 - header >= -MAX_MOTION /\ (MAX_MOTION - 1) - header >= -MAX_MOTION
      BY Parsing DEF Slot
    <3>2. Backlog' = (-1 - header) % MAX_MOTION
      BY <1>1, <1>2, <2>2 DEF Backlog
    <3>3. Backlog = (MAX_MOTION - 1 - header) % MAX_MOTION
      BY <1>2, <2>2 DEF Backlog
    <3>4. (-1 - header) % MAX_MOTION = -1 - header + MAX_MOTION
      <4>1. ~(-1 >= header)
        BY Parsing
      <4>. QED
        BY <3>1, <4>1, Parsing, Around
    <3>5. (MAX_MOTION - 1 - header) % MAX_MOTION = MAX_MOTION - 1 - header
      <4>1. MAX_MOTION - 1 >= header
        BY Parsing DEF Slot
      <4>. QED
        BY <3>1, <4>1, Parsing, Around
    <3>. QED
      BY <3>2, <3>3, <3>4, <3>5, Parsing
  <2>. QED
    BY <2>1, <2>2
<1>4. ListInv'
  BY <1>1, ListParsed DEF ListInv, RoomInv, Typing, Putting
<1>. QED
  BY <1>1, <1>3, <1>4

(* A full list: tail goes back, and as many motions wait. *)
LEMMA FullTested ==
  ASSUME Paced, ShellInv, PaceInv, ListInv, MayParse, TestFull
  PROVE  /\ ListInv' /\ UNCHANGED <<motionList, header, mpc>> /\ Backlog' = Backlog
         /\ spc # "reset" /\ spc' # "reset"
<1>1. /\ spc = "full?" /\ UNCHANGED <<motionList, header, mpc, command, lastcmdIndex>>
      /\ \/ tail = header /\ spc' = "prompt" /\ tail' = Before(tail)
         \/ tail # header /\ spc' = "put_speed" /\ tail' = tail
  BY DEF TestFull, Shell, mainVars, shellVars
<1>2. Filled = tail - 1
  BY <1>1 DEF Filled
<1>3. CASE tail = header
  <2> DEFINE k == Before(header)
  <2>1. header \in 0..MAX_MOTION - 1
    BY Parsing DEF Slot
  <2>2. /\ k \in 0..MAX_MOTION - 1 /\ k = IF header = 0 THEN MAX_MOTION - 1 ELSE header - 1
    BY <2>1, Parsing DEF Before
  <2>3. Filled' = k
    BY <1>1, <1>3 DEF Filled
  <2>4. Backlog' = (k - header) % MAX_MOTION
    BY <1>1, <2>3 DEF Backlog
  <2>. HIDE DEF k
  <2>5. k \in -1..MAX_MOTION - 1 /\ k - header >= -MAX_MOTION
    BY <2>1, <2>2, Parsing
  <2>6. (k - header) % MAX_MOTION = IF k >= header THEN k - header ELSE k - header + MAX_MOTION
    BY <2>5, Parsing, Around
  <2>7. Backlog' = MAX_MOTION - 1
    BY <2>1, <2>2, <2>4, <2>6, Parsing
  <2>8. Backlog = IF header - 1 >= header THEN header - 1 - header ELSE header - 1 - header + MAX_MOTION
    BY <1>2, <1>3, BacklogIs
  <2>9. Backlog' = Backlog
    BY <2>1, <2>7, <2>8, Parsing
  <2>10. ListInv'
    BY <1>1, <1>3, ListParsed DEF ListInv, RoomInv, Typing, Putting
  <2>. QED
    BY <1>1, <1>3, <2>9, <2>10
<1>4. CASE tail # header
  <2>1. Backlog' = Backlog
    BY <1>1, <1>4 DEF Backlog, Filled
  <2>2. ListInv'
    BY <1>1, <1>4, ListParsed DEF ListInv, RoomInv, Typing, Putting
  <2>. QED
    BY <1>1, <1>4, <2>1, <2>2
<1>. QED
  BY <1>3, <1>4

(* The operator's side. *)
LEMMA Typed ==
  ASSUME Paced, ShellInv, PaceInv, ListInv, TypeStep
  PROVE  /\ ListInv' /\ UNCHANGED <<motionList, header, mpc>> /\ spc # "reset"
         /\ spc' # "reset" => Backlog' = Backlog
         /\ spc' = "reset" => mpc \in {"start", "poll"}
<1>1. /\ spc = "prompt" /\ MayParse
      /\ UNCHANGED <<motionList, header, mpc, lastcmdIndex>>
  BY DEF TypeStep, TypeMotion, TypeReset, TypeExit, Type, mainVars
<1>2. \/ \E m \in Commands : spc' = "wrap_tail" /\ command' = m /\ tail' = tail + 1
      \/ spc' = "reset" /\ tail' = 0 /\ command' = command /\ mpc \in {"start", "poll"}
      \/ spc' = "prompt" /\ tail' = tail /\ command' = command
  BY DEF TypeStep, TypeMotion, TypeReset, TypeExit, Type, MayReset
<1>3. spc' # "reset" => Backlog' = Backlog
  <2>1. Filled = tail /\ tail \in Int
    BY <1>1, Parsing DEF Filled
  <2>2. spc' # "reset" => Filled' = tail
    BY <1>1, <1>2, <2>1 DEF Filled
  <2>. QED
    BY <1>1, <2>1, <2>2 DEF Backlog
<1>4. ListInv'
  BY <1>1, <1>2, ListParsed DEF Typing, Putting
<1>. QED
  BY <1>1, <1>2, <1>3, <1>4

LEMMA WasReset ==
  ASSUME Paced, ShellInv, PaceInv, ListInv, MayParse, ResetHeader
  PROVE  /\ ListInv' /\ UNCHANGED <<motionList, mpc>> /\ header' = 0 /\ Backlog' = 0
         /\ spc = "reset" /\ spc' = "prompt" /\ mpc \in {"start", "poll"}
<1>1. /\ spc = "reset" /\ spc' = "prompt" /\ header' = 0 /\ mpc \in {"start", "poll"}
      /\ UNCHANGED <<motionList, tail, mpc, command, lastcmdIndex>>
  BY DEF ResetHeader, MayReset, Shell, mainVars, shellVars
<1>2. tail = 0
  BY <1>1 DEF ListInv, RoomInv
<1>3. Backlog' = 0
  <2>1. Backlog' = (0 - 0) % MAX_MOTION
    BY <1>1, <1>2 DEF Backlog, Filled
  <2>2. 0 \in 0..MAX_MOTION /\ 0 \in -1..MAX_MOTION - 1 /\ 0 - 0 >= -MAX_MOTION
    BY Parsing
  <2>3. (0 - 0) % MAX_MOTION = IF 0 >= 0 THEN 0 - 0 ELSE 0 - 0 + MAX_MOTION
    BY <2>2, Around
  <2>. QED
    BY <2>1, <2>3
<1>4. ListInv'
  BY <1>1 DEF ListInv, RoomInv, PutInv, BlankInv, LengthInv, Typing, Putting, Sending, Loading,
     Blanking
<1>. QED
  BY <1>1, <1>3, <1>4

(* The shell fills the slot at tail; the motion waits from the last store on. *)
PutStep ==
  \/ Put("put_speed", "put_turn", "speed")
  \/ Put("put_turn", "put_duration", "turnrate")
  \/ Put("put_duration", "prompt", "duration")

LEMMA FieldPut ==
  ASSUME Paced, ShellInv, PaceInv, ListInv, MayParse, PutStep
  PROVE  /\ ListInv' /\ UNCHANGED <<header, tail, mpc, command>> /\ spc \in Putting
         /\ command \in Commands /\ tail \in Slot \ {header}
         /\ motionList' \in [Slot -> Motion]
         /\ \A j \in Slot \ {tail} : motionList'[j] = motionList[j]
         /\ \/ spc' \in Putting /\ Backlog' = Backlog
            \/ /\ spc' = "prompt" /\ Backlog' = Backlog + 1
               /\ \E lost \in SUBSET Field : /\ motionList'[tail] = Queue!Zeroed(command, lost)
                                             /\ lost # {} => tail = Before(header)
<1>1. spc \in Putting /\ UNCHANGED <<header, tail, mpc, command, lastcmdIndex>>
  BY DEF PutStep, Put, Shell, mainVars, shellVars, Putting
<1>2. /\ motionList \in [Slot -> Motion] /\ tail \in Slot \ {header} /\ command \in Commands
      /\ command \in Motion
  BY <1>1, Ranges DEF ListInv, RoomInv, Putting, Typing
<1>3. \A f \in Field : command[f] \in Int
  BY <1>2 DEF Motion, Field
<1>4. PICK field \in Field :
        /\ motionList' = [motionList EXCEPT ![tail] = [@ EXCEPT ![field] = command[field]]]
        /\ \/ field = "speed" /\ spc = "put_speed" /\ spc' = "put_turn"
           \/ field = "turnrate" /\ spc = "put_turn" /\ spc' = "put_duration"
           \/ field = "duration" /\ spc = "put_duration" /\ spc' = "prompt"
  BY DEF PutStep, Put, Shell, Field
<1>5. /\ motionList' \in [Slot -> Motion]
      /\ \A j \in Slot \ {tail} : motionList'[j] = motionList[j]
      /\ motionList'[tail][field] = command[field]
      /\ \A f \in Field \ {field} : motionList'[tail][f] = motionList[tail][f]
  BY <1>2, <1>3, <1>4, FieldWritten
<1>6. \/ spc' \in Putting /\ Backlog' = Backlog
      \/ spc' = "prompt" /\ Backlog' = Backlog + 1
  <2>1. CASE spc' = "prompt"
    <3>1. (tail - header) % MAX_MOTION = Backlog + 1
      BY <1>1, Apart, Parsing DEF ListInv, Putting
    <3>. QED
      BY <1>1, <2>1, <3>1 DEF Backlog, Filled
  <2>2. CASE spc' # "prompt"
    BY <1>1, <1>4, <2>2 DEF Backlog, Filled, Putting
  <2>. QED
    BY <2>1, <2>2
<1>7. RoomInv'
  BY <1>1, <1>2, <1>4 DEF ListInv, RoomInv, Typing, Putting
<1>8. PutInv /\ PutInv'
  BY <1>1, <1>4, <1>5 DEF ListInv, PutInv, Stored, Field
<1>9. BlankInv'
  BY <1>1, <1>2, <1>5, Parsing DEF ListInv, BlankInv
<1>10. LengthInv'
  <2>1. command.duration <= MaxElapsed /\ command.duration \in Int
    BY <1>2, OperatorAssumption DEF Motion
  <2>2. \/ motionList'[tail].duration = command.duration
        \/ motionList'[tail].duration = motionList[tail].duration
    BY <1>5 DEF Field
  <2>. QED
    BY <1>2, <1>5, <2>1, <2>2 DEF ListInv, LengthInv
<1>11. ASSUME spc' = "prompt"
       PROVE  \E lost \in SUBSET Field : /\ motionList'[tail] = Queue!Zeroed(command, lost)
                                         /\ lost # {} => tail = Before(header)
  <2> DEFINE m == motionList'[tail]
             lost == {f \in {"speed", "turnrate"} : m[f] # command[f]}
             z == Queue!Zeroed(command, lost)
  <2>1. /\ m \in Motion /\ m.duration = command.duration
        /\ \A f \in {"speed", "turnrate"} :
             m[f] = command[f] \/ (m[f] = 0 /\ tail = Before(header))
    BY <1>2, <1>4, <1>5, <1>8, <1>11 DEF PutInv, Stored, Field
  <2>. HIDE DEF m
  <2>2. /\ lost \in SUBSET Field /\ (lost # {} => tail = Before(header))
        /\ "duration" \notin lost
        /\ "speed" \in lost <=> m.speed # command.speed
        /\ "turnrate" \in lost <=> m.turnrate # command.turnrate
    BY <2>1 DEF Field
  <2>. HIDE DEF lost
  <2>3. /\ z \in Motion
        /\ z.speed = IF "speed" \in lost THEN 0 ELSE command.speed
        /\ z.turnrate = IF "turnrate" \in lost THEN 0 ELSE command.turnrate
        /\ z.duration = IF "duration" \in lost THEN 0 ELSE command.duration
    BY <1>2, ZeroedMotion
  <2>. HIDE DEF z
  <2>4. m = z
    <3>1. m.speed = z.speed /\ m.turnrate = z.turnrate /\ m.duration = z.duration
      BY <2>1, <2>2, <2>3
    <3>. QED
      BY <2>1, <2>3, <3>1, SameMotion
  <2>. QED
    BY <2>2, <2>4 DEF m, z
<1>. QED
  BY <1>1, <1>2, <1>4, <1>5, <1>6, <1>7, <1>8, <1>9, <1>10, <1>11 DEF ListInv, Putting

LEMMA MainList ==
  ASSUME ShellInv, PaceInv, ListInv, MainStep, ~Handler
  PROVE  ListInv'
<1>1. CASE Connect \/ Abort \/ StartTimer \/ Poll \/ TestStopped \/ MarkStopped \/ Resume
  <2>1. /\ UNCHANGED <<motionList, header, tail, command>>
        /\ spc' = spc \/ (spc = "none" /\ spc' = "prompt")
        /\ UNCHANGED <<mpc, lastcmdIndex>>
           \/ mpc' \notin {"s_zero_turn", "s_zero_duration"} \cup Sending \cup Blanking
    BY <1>1 DEF Connect, InitSpi, LightLed, CreateThread, Abort, StartTimer, Poll, TestStopped,
       MarkStopped, Resume, Main, ringVars, mainVars, shellVars, Sending, Loading, Blanking,
       ShellInv, IndexInv, Setup
  <2>. QED
    BY <2>1, ListStill
<1>2. CASE LastIndex
  BY <1>2, ListStill DEF LastIndex, Main, ringVars, shellVars
<1>3. CASE Unflag \/ LoadDrive
  BY <1>3, ListStill DEF Unflag, LoadDrive, Main, ringVars, mainVars, shellVars,
     Sending, Loading, Blanking, ListInv, RoomInv
<1>4. ASSUME NEW speeds, SetWheel("set", "send", speeds) \/ SetWheel("s_set", "s_send", speeds)
      PROVE  ListInv'
  BY <1>4, ListStill DEF SetWheel, ringVars, shellVars,
     Sending, Loading, Blanking, ListInv, RoomInv
<1>5. CASE SendFrame("send", "zero_speed") \/ SendFrame("s_send", "s_zero_speed")
  BY <1>5, ListStill DEF SendFrame, Main, ringVars, mainVars, shellVars,
     Sending, Loading, Blanking, ListInv, RoomInv
<1>6. CASE NewCommand
  BY <1>2, <1>3, <1>4, <1>5, <1>6, ListBlanked DEF NewCommand, BlankStep
<1>7. CASE StopMotion
  BY <1>1, <1>4, <1>5, <1>7, ListEnded DEF StopMotion, EndStep
<1>. QED
  BY <1>1, <1>6, <1>7 DEF MainStep

LEMMA ListKept ==
  ASSUME Paced, ShellInv, PaceInv, ListInv, Next, ~Interrupt, ~Handler
  PROVE  ListInv'
<1>1. CASE Tick \/ Idle \/ MotionOver \/ Ended
  BY <1>1, ListStill DEF Tick, Idle, MotionOver, Ended, vars, ringVars, mainVars, shellVars
<1>2. CASE TimerStep
  BY <1>1, <1>2, HeaderMoved, HeaderWrapped DEF TimerStep
<1>3. CASE ParseStep
  BY <1>3, TailWrapped, FullTested, WasReset, FieldPut DEF ParseStep, PutStep
<1>4. CASE TypeStep
  BY <1>4, Typed
<1>. QED
  BY <1>1, <1>2, <1>3, <1>4, MainList DEF Next

LEMMA QueueInductive == Paced /\ QueueInv /\ [Next]_vars => QueueInv'
<1>1. ASSUME Paced, QueueInv, Next PROVE QueueInv'
  <2>1. ShellInv' /\ SendInv'
    BY <1>1, ShellInductive, SendKept DEF QueueInv
  <2>2. ASSUME ~Interrupted' PROVE PaceInv' /\ ListInv'
    <3>1. ~Interrupted /\ ~Interrupt /\ ~Handler
      BY <1>1, <2>2, HandlerStays
    <3>2. ShellInv /\ PaceInv /\ ListInv
      BY <1>1, <3>1 DEF QueueInv
    <3>3. PaceInv'
      BY <1>1, <2>2, <3>2, PaceKept
    <3>4. ListInv'
      BY <1>1, <3>1, <3>2, ListKept
    <3>. QED
      BY <3>3, <3>4
  <2>. QED
    BY <2>1, <2>2 DEF QueueInv
<1>2. ASSUME QueueInv, UNCHANGED vars PROVE QueueInv'
  <2>1. ShellInv'
    BY <1>2, ShellInductive DEF QueueInv
  <2>2. PaceInv => PaceInv'
    BY <1>2 DEF PaceInv, Over, vars, ringVars, spiVars, flagVars
  <2>3. ListInv => ListInv'
    BY <1>2, ListStill DEF vars, ringVars, mainVars, shellVars
  <2>4. SendInv'
    BY <1>2 DEF QueueInv, SendInv, vars, ringVars, spiVars, mainVars
  <2>5. Interrupted' <=> Interrupted
    BY <1>2 DEF Interrupted, vars
  <2>. QED
    BY <1>2, <2>1, <2>2, <2>3, <2>4, <2>5 DEF QueueInv
<1>. QED
  BY <1>1, <1>2

-----------------------------------------------------------------------------
(* Every step is one of the queue's, or none. *)

LEMMA Listed ==
  ASSUME NEW list \in [Slot -> Motion], NEW h \in 0..MAX_MOTION, NEW b \in 0..MAX_MOTION - 1
  PROVE  /\ [i \in 1..b |-> list[(h + i) % MAX_MOTION]] \in Seq(Motion)
         /\ Len([i \in 1..b |-> list[(h + i) % MAX_MOTION]]) = b
<1>1. ASSUME NEW i \in 1..b PROVE (h + i) % MAX_MOTION \in Slot
  <2>1. i \in 0..MAX_MOTION - 1 /\ MAX_MOTION - 1 \in -1..MAX_MOTION - 1
        /\ (MAX_MOTION - 1) - h >= -MAX_MOTION
    BY RingSize
  <2>. QED
    BY <2>1, Around
<1>. QED
  BY <1>1, RingSize

LEMMA HeadSlot ==
  ASSUME NEW h \in Slot
  PROVE  h % MAX_MOTION = h
<1>1. h \in Int /\ 0 <= h /\ h < MAX_MOTION /\ MAX_MOTION \in Nat \ {0}
  BY RingSize DEF Slot
<1>. QED
  BY <1>1

LEMMA HeaderSlot ==
  ASSUME NEW h \in Int
  PROVE  h % MAX_MOTION \in Slot
<1>1. MAX_MOTION \in Nat \ {0}
  BY RingSize
<1>. QED
  BY <1>1 DEF Slot

LEMMA WaitingSlots ==
  ASSUME ShellInv, PaceInv
  PROVE  \A i \in 1..Backlog : i \in 0..MAX_MOTION - 1 /\ (header + i) % MAX_MOTION \in Slot
<1>1. Backlog \in 0..MAX_MOTION - 1
  BY BacklogIs
<1>. HIDE DEF Backlog
<1>2. \A i \in 1..Backlog : i \in 0..MAX_MOTION - 1
  BY <1>1, RingSize
<1>. QED
  BY <1>2, BacklogIs

(* The queue as the invariant sees it. *)
LEMMA WaitingIs ==
  ASSUME ShellInv, PaceInv, spc # "reset"
  PROVE  /\ Waiting \in Seq(Motion) /\ Len(Waiting) = Backlog
         /\ \A i \in 1..Backlog : Waiting[i] = motionList[(header + i) % MAX_MOTION]
<1>1. Waiting = [i \in 1..Backlog |-> motionList[(header + i) % MAX_MOTION]]
  BY DEF Waiting, Interrupted, PaceInv
<1>2. Waiting \in Seq(Motion) /\ Len(Waiting) = Backlog
  BY <1>1, Listed, Ranges, BacklogIs
<1>. QED
  BY <1>1, <1>2

LEMMA WaitingSame ==
  ASSUME ~Interrupted, ~Interrupted', spc' = "reset" <=> spc = "reset",
         spc # "reset" =>
           /\ Backlog' = Backlog
           /\ \A i \in 1..Backlog :
                motionList'[(header' + i) % MAX_MOTION] = motionList[(header + i) % MAX_MOTION]
  PROVE  Waiting' = Waiting
<1>1. CASE spc = "reset"
  BY <1>1 DEF Waiting
<1>2. CASE spc # "reset"
  BY <1>2 DEF Waiting
<1>. QED
  BY <1>1, <1>2

LEMMA LeftTyped ==
  ASSUME ShellInv
  PROVE  Left \in Nat /\ Current \in Motion
<1>1. header % MAX_MOTION \in Slot
  BY HeaderSlot DEF ShellInv, IndexInv
<1>2. motionList[header % MAX_MOTION] \in Motion /\ elapsed \in Nat
  BY <1>1, OperatorAssumption DEF ShellInv, TypeOK
<1>3. motionList[header % MAX_MOTION].duration \in Int
  BY <1>2 DEF Motion
<1>. QED
  BY <1>2, <1>3, BlankMotion DEF Left, Current

(* A step that leaves the list and the time alone. *)
LEMMA QueueSame ==
  ASSUME ~Interrupted, ~Interrupted', UNCHANGED <<motionList, header, elapsed, dsPIC>>,
         ~Ending, ~Ending', spc' = "reset" <=> spc = "reset",
         spc # "reset" => Backlog' = Backlog, Sent' <=> Sent,
         (Stopping' \/ tpc' = "advance") <=> (Stopping \/ tpc = "advance")
  PROVE  UNCHANGED Queue!queueVars
<1>1. Waiting' = Waiting
  BY WaitingSame
<1>2. Current' = Current
  BY DEF Current
<1>3. Left' = Left
  BY DEF Left
<1>4. Sent' = Sent
  BY DEF Sent
<1>. QED
  BY <1>1, <1>2, <1>3, <1>4 DEF Queue!queueVars

QueueMoves == Queue!QueueNext \/ UNCHANGED Queue!queueVars

(* What main does between the frames it sends. *)
Quiet ==
  \/ Connect \/ Abort \/ StartTimer \/ Poll \/ LastIndex \/ Unflag \/ LoadDrive
  \/ TestStopped \/ MarkStopped \/ Resume
  \/ SetWheel("set", "send", WheelSpeeds(drive))
  \/ SetWheel("s_set", "s_send", WheelSpeeds(Blank))

LEMMA QuietQueue ==
  ASSUME ShellInv, PaceInv, ListInv, ~Interrupted, ~Interrupted', Quiet
  PROVE  UNCHANGED Queue!queueVars
<1>. USE DEF PaceInv, Main
<1>1. /\ UNCHANGED <<motionList, header, tail, elapsed, dsPIC, tpc>>
      /\ spc' = spc \/ (spc = "none" /\ spc' = "prompt")
  <2>1. CASE Connect
    BY <2>1 DEF Connect, InitSpi, LightLed, CreateThread, init_spi, spiVars, ringVars, ShellInv,
       IndexInv, Setup
  <2>2. CASE Abort \/ StartTimer \/ Poll \/ LastIndex \/ Unflag \/ LoadDrive
             \/ TestStopped \/ MarkStopped \/ Resume
    BY <2>2 DEF Abort, StartTimer, Poll, LastIndex, Unflag, LoadDrive, TestStopped, MarkStopped,
       Resume, spiVars, ringVars
  <2>3. CASE \/ SetWheel("set", "send", WheelSpeeds(drive))
             \/ SetWheel("s_set", "s_send", WheelSpeeds(Blank))
    BY <2>3 DEF SetWheel, setSpeed, ringVars
  <2>. QED
    BY <2>1, <2>2, <2>3 DEF Quiet
<1>2. Backlog' = Backlog
  BY <1>1 DEF Backlog, Filled
<1>3. /\ ~Ending /\ ~Ending' /\ (Sent' <=> Sent) /\ (Stopping' <=> Stopping)
  <2>. USE DEF Ending, Sent, Stopping, Interrupted, LastStop, Loading
  <2>1. CASE Connect
    BY <1>1, <2>1 DEF Connect, InitSpi, LightLed, CreateThread, flagVars
  <2>2. CASE Abort \/ StartTimer \/ Poll \/ LastIndex \/ LoadDrive \/ TestStopped
    BY <1>1, <2>2 DEF Abort, StartTimer, Poll, LastIndex, LoadDrive, TestStopped, flagVars
  <2>3. CASE Unflag \/ MarkStopped \/ Resume
    BY <1>1, <2>3 DEF Unflag, MarkStopped, Resume
  <2>4. CASE \/ SetWheel("set", "send", WheelSpeeds(drive))
             \/ SetWheel("s_set", "s_send", WheelSpeeds(Blank))
    BY <1>1, <2>4 DEF SetWheel, flagVars
  <2>. QED
    BY <2>1, <2>2, <2>3, <2>4 DEF Quiet
<1>. QED
  BY <1>1, <1>2, <1>3, QueueSame

(* main sends the current motion. *)
LEMMA RunQueue ==
  ASSUME ShellInv, SendInv, PaceInv, ListInv, ~Interrupted, SendFrame("send", "zero_speed")
  PROVE  QueueMoves
<1>1. /\ mpc = "send" /\ mpc' = "zero_speed" /\ spi
      /\ UNCHANGED <<motionList, header, tail, spc, elapsed, userQuit, newCommand, robotStoped, tpc>>
      /\ dsPIC'.motor = msgTX.motor \/ (SpiMayFail /\ UNCHANGED dsPIC)
  BY DEF SendFrame, Main, update, Deliver, ringVars, flagVars, SendInv, PaceInv
<1>2. header \in Slot /\ tpc = "off"
  BY <1>1, Ranges DEF PaceInv
<1>3. ~Interrupted' /\ ~Ending /\ ~Ending' /\ ~Sent /\ Sent'
  BY <1>1, <1>2 DEF Interrupted, HandlerPcs, Ending, Sent, PaceInv, Loading
<1>4. Backlog' = Backlog
  BY <1>1 DEF Backlog, Filled
<1>5. Waiting' = Waiting
  BY <1>1, <1>3, <1>4, WaitingSame
<1>6. Current' = Current /\ Current = motionList[header]
  BY <1>1, <1>2, <1>3, HeadSlot DEF Current
<1>7. Left' = Left
  BY <1>1, <1>3 DEF Left, Stopping, Ending, PaceInv
<1>8. msgTX.motor = WheelSpeeds(Current)
  BY <1>1, <1>6 DEF SendInv, WheelSpeeds, WheelSpeed
<1>. QED
  BY <1>1, <1>3, <1>5, <1>6, <1>7, <1>8 DEF QueueMoves, Queue!QueueNext, Queue!Run, Queue!Tell

(* main stops the wheels at the end of the last motion. *)
LEMMA StopQueue ==
  ASSUME ShellInv, SendInv, PaceInv, ListInv, ~Interrupted, SendFrame("s_send", "s_zero_speed")
  PROVE  QueueMoves
<1>1. /\ mpc = "s_send" /\ mpc' = "s_zero_speed" /\ spi /\ ~newCommand
      /\ UNCHANGED <<motionList, header, tail, spc, elapsed, userQuit, newCommand, robotStoped, tpc>>
      /\ dsPIC'.motor = msgTX.motor \/ (SpiMayFail /\ UNCHANGED dsPIC)
  BY DEF SendFrame, Main, update, Deliver, ringVars, flagVars, SendInv, PaceInv, LastStop
<1>2. ~Interrupted' /\ Ending' /\ Sent /\ Sent' /\ Stopping /\ Stopping'
  BY <1>1 DEF Interrupted, HandlerPcs, Ending, Sent, Stopping
<1>3. Backlog' = Backlog
  BY <1>1 DEF Backlog, Filled
<1>4. Waiting' = Waiting
  BY <1>1, <1>2, <1>3, WaitingSame
<1>5. Current' = Blank /\ Left = 0 /\ Left' = 0
  BY <1>2 DEF Current, Left
<1>6. msgTX.motor = AtRest
  BY <1>1 DEF SendInv
<1>. QED
  BY <1>1, <1>2, <1>4, <1>5, <1>6
     DEF QueueMoves, Queue!QueueNext, Queue!Stop, Queue!Tell, Blank, Queue!Blank

(* A slot that is not the current motion's is blanked: the last place. *)
LEMMA BlankQueue ==
  ASSUME ShellInv, SendInv, PaceInv, ListInv, ~Interrupted, BlankStep
  PROVE  QueueMoves
<1>1. /\ UNCHANGED <<header, tail, spc, elapsed, dsPIC, userQuit, newCommand, robotStoped, tpc>>
      /\ mpc \in Blanking /\ mpc' \in {"zero_turn", "zero_duration", "poll"}
  BY DEF BlankStep, Zero, Main, mainVars, shellVars, spiVars, flagVars, Blanking
<1>2. /\ header \in Slot /\ Before(header) # header /\ Before(header) \in Slot
      /\ \A j \in Slot \ {Before(header)} : motionList'[j] = motionList[j]
      /\ \E field \in Field :
           motionList'[Before(header)] = Queue!Zeroed(motionList[Before(header)], {field})
  BY ListBlanked
<1>3. ~Interrupted' /\ ~Ending /\ ~Ending' /\ (Sent' <=> Sent) /\ (Stopping' <=> Stopping)
  BY <1>1 DEF Interrupted, HandlerPcs, Ending, Sent, Stopping, Blanking
<1>4. Backlog' = Backlog
  BY <1>1 DEF Backlog, Filled
<1>5. motionList'[header % MAX_MOTION] = motionList[header % MAX_MOTION]
  BY <1>2, HeadSlot
<1>6. Current' = Current /\ Left' = Left /\ Sent' = Sent
  BY <1>1, <1>3, <1>5 DEF Current, Left, Sent
<1>7. spc # "reset" => \A i \in 1..Backlog :
        /\ (header + i) % MAX_MOTION \in Slot
        /\ (header + i) % MAX_MOTION = Before(header) <=> i = MAX_MOTION - 1
  BY <1>2, Apart, WaitingSlots DEF ListInv
<1>8. CASE spc = "reset" \/ Backlog # MAX_MOTION - 1
  <2>1. spc # "reset" => \A i \in 1..Backlog : i # MAX_MOTION - 1
    BY <1>8, BacklogIs, RingSize
  <2>2. spc # "reset" => \A i \in 1..Backlog :
          motionList'[(header' + i) % MAX_MOTION] = motionList[(header + i) % MAX_MOTION]
    BY <1>1, <1>2, <1>7, <2>1
  <2>3. Waiting' = Waiting
    BY <1>1, <1>3, <1>4, <2>2, WaitingSame
  <2>. QED
    BY <1>1, <1>6, <2>3 DEF QueueMoves, Queue!queueVars
<1>9. CASE spc # "reset" /\ Backlog = MAX_MOTION - 1
  <2> DEFINE last == MAX_MOTION - 1
             w == Waiting
             z == Waiting'
  <2>1. last \in Nat \ {0} /\ last \in 1..last /\ Backlog = last
    BY <1>9, RingSize
  <2>2. PICK field \in Field :
          motionList'[Before(header)] = Queue!Zeroed(motionList[Before(header)], {field})
    BY <1>2
  <2>3. /\ w \in Seq(Motion) /\ Len(w) = last
        /\ \A i \in 1..last : w[i] = motionList[(header + i) % MAX_MOTION]
    BY <1>9, <2>1, WaitingIs
  <2>4. z = [i \in 1..last |-> motionList'[(header + i) % MAX_MOTION]]
    BY <1>1, <1>3, <1>4, <1>9, <2>1 DEF Waiting
  <2>. HIDE DEF w, z, last
  <2>5. \A i \in 1..last : z[i] = IF i = last THEN Queue!Zeroed(w[i], {field}) ELSE w[i]
    <3> SUFFICES ASSUME NEW i \in 1..last
                 PROVE  z[i] = IF i = last THEN Queue!Zeroed(w[i], {field}) ELSE w[i]
      OBVIOUS
    <3>1. z[i] = motionList'[(header + i) % MAX_MOTION] /\ w[i] = motionList[(header + i) % MAX_MOTION]
      BY <2>3, <2>4
    <3>2. /\ (header + i) % MAX_MOTION \in Slot
          /\ (header + i) % MAX_MOTION = Before(header) <=> i = last
      BY <1>7, <1>9, <2>1 DEF last
    <3>. QED
      BY <1>2, <2>2, <3>1, <3>2
  <2>6. z = [w EXCEPT ![last] = Queue!Zeroed(w[last], {field})]
    <3>1. DOMAIN w = 1..last /\ w = [i \in 1..last |-> w[i]]
      BY <2>1, <2>3
    <3>2. z = [i \in 1..last |-> IF i = last THEN Queue!Zeroed(w[i], {field}) ELSE w[i]]
      BY <2>4, <2>5
    <3>. QED
      BY <3>1, <3>2
  <2>7. {field} \in SUBSET DOMAIN Queue!Blank
    BY DEF Field, Queue!Blank
  <2>8. Queue!Lose
    BY <1>1, <1>6, <2>3, <2>6, <2>7 DEF Queue!Lose, w, z, last
  <2>. QED
    BY <2>8 DEF QueueMoves, Queue!QueueNext
<1>. QED
  BY <1>8, <1>9

(* The slot of the last motion is blanked, after the wheels were stopped. *)
LEMMA EndQueue ==
  ASSUME ShellInv, SendInv, PaceInv, ListInv, ~Interrupted, EndStep
  PROVE  QueueMoves
<1>1. /\ UNCHANGED <<header, tail, spc, elapsed, dsPIC, userQuit, newCommand, robotStoped, tpc>>
      /\ mpc \in LastBlank /\ mpc' \in LastBlank \cup {"resume"} /\ robotStoped
  BY DEF EndStep, Zero, Main, mainVars, shellVars, spiVars, flagVars, LastBlank, PaceInv, LastStop
<1>2. /\ header \in Slot
      /\ \A j \in Slot \ {header} : motionList'[j] = motionList[j]
      /\ mpc' = "resume" => motionList'[header] = Blank
  BY ListEnded
<1>3. ~Interrupted' /\ Ending /\ (Sent' <=> Sent) /\ Stopping /\ (Ending' \/ mpc' = "resume")
  BY <1>1 DEF Interrupted, HandlerPcs, Ending, Sent, Stopping, LastBlank
<1>4. Backlog' = Backlog
  BY <1>1 DEF Backlog, Filled
<1>5. spc # "reset" => \A i \in 1..Backlog :
        motionList'[(header' + i) % MAX_MOTION] = motionList[(header + i) % MAX_MOTION]
  BY <1>1, <1>2, Apart, WaitingSlots DEF ListInv
<1>6. Waiting' = Waiting
  BY <1>1, <1>3, <1>4, <1>5, WaitingSame
<1>7. Current = Blank /\ Current' = Blank
  BY <1>1, <1>2, <1>3, HeadSlot DEF Current
<1>8. Left = 0 /\ Left' = 0
  <2>1. elapsed \in Nat
    BY OperatorAssumption DEF ShellInv, TypeOK
  <2>2. mpc' = "resume" => motionList'[header' % MAX_MOTION].duration <= elapsed'
    BY <1>1, <1>2, <2>1, HeadSlot, BlankMotion
  <2>. QED
    BY <1>3, <2>2 DEF Left, Stopping
<1>. QED
  BY <1>1, <1>3, <1>6, <1>7, <1>8 DEF QueueMoves, Queue!queueVars, Sent

(* A step of main's own. *)
LEMMA MainQueue ==
  ASSUME ShellInv, SendInv, PaceInv, ListInv, ~Interrupted, ~Interrupted', MainStep, ~Handler
  PROVE  QueueMoves
<1>1. CASE Quiet
  BY <1>1, QuietQueue DEF QueueMoves
<1>2. CASE SendFrame("send", "zero_speed") \/ SendFrame("s_send", "s_zero_speed")
  BY <1>2, RunQueue, StopQueue
<1>3. CASE BlankStep \/ EndStep
  BY <1>3, BlankQueue, EndQueue
<1>4. Quiet \/ SendFrame("send", "zero_speed") \/ SendFrame("s_send", "s_zero_speed")
      \/ BlankStep \/ EndStep
  BY DEF MainStep, NewCommand, StopMotion, Quiet, BlankStep, EndStep
<1>. QED
  BY <1>1, <1>2, <1>3, <1>4

-----------------------------------------------------------------------------
(* timerHandler. *)

LEMMA TickQueue ==
  ASSUME Paced, ShellInv, PaceInv, ListInv, ~Interrupted, Tick
  PROVE  QueueMoves
<1>1. /\ UNCHANGED <<motionList, header, tail, mpc, spc, dsPIC, userQuit, newCommand, robotStoped>>
      /\ mpc = "poll" /\ ~userQuit /\ ~newCommand /\ tpc = "off" /\ tpc' = "idle?"
      /\ elapsed' = IF elapsed < MaxElapsed THEN elapsed + 1 ELSE elapsed
  BY DEF Tick, Calm, ringVars, spiVars, flagVars
<1>2. ~Interrupted' /\ ~Ending /\ ~Ending' /\ Sent /\ Sent' /\ ~Stopping /\ ~Stopping'
  BY <1>1 DEF Interrupted, HandlerPcs, Ending, Sent, Stopping
<1>3. Waiting' = Waiting /\ Current' = Current
  <2>1. Backlog' = Backlog
    BY <1>1 DEF Backlog, Filled
  <2>. QED
    BY <1>1, <1>2, <2>1, WaitingSame DEF Current
<1> DEFINE d == motionList[header % MAX_MOTION].duration
<1>4. d \in Int /\ d <= MaxElapsed /\ elapsed \in Nat /\ MaxElapsed \in Nat
  <2>1. header % MAX_MOTION \in Slot
    BY HeaderSlot DEF ShellInv, IndexInv
  <2>. QED
    BY <2>1, OperatorAssumption DEF ShellInv, TypeOK, ListInv, LengthInv, Motion
<1>5. /\ Left = IF d <= elapsed THEN 0 ELSE d - elapsed
      /\ Left' = IF d <= elapsed' THEN 0 ELSE d - elapsed'
  BY <1>1, <1>2 DEF Left
<1>. HIDE DEF d
<1>6. CASE Left > 0
  <2>1. Left' = Left - 1
    BY <1>1, <1>4, <1>5, <1>6
  <2>. QED
    BY <1>1, <1>2, <1>3, <1>6, <2>1 DEF QueueMoves, Queue!QueueNext, Queue!Pass
<1>7. CASE ~(Left > 0)
  <2>1. Left' = Left
    BY <1>1, <1>4, <1>5, <1>7
  <2>. QED
    BY <1>1, <1>2, <1>3, <2>1 DEF QueueMoves, Queue!queueVars
<1>. QED
  BY <1>6, <1>7

LEMMA IdleQueue ==
  ASSUME ShellInv, PaceInv, ListInv, ~Interrupted, Idle
  PROVE  QueueMoves
<1>1. /\ UNCHANGED <<motionList, header, tail, mpc, spc, dsPIC, robotStoped>>
      /\ mpc = "poll" /\ spc = "prompt" /\ ~userQuit /\ ~newCommand /\ tpc = "idle?"
  BY DEF Idle, PaceInv, ringVars, spiVars
<1>2. Backlog' = Backlog
  BY <1>1 DEF Backlog, Filled
<1>3. CASE ~(header = tail /\ Over)
  <2>1. tpc' = "over?" /\ UNCHANGED <<elapsed, userQuit, newCommand>>
    BY <1>3 DEF Idle
  <2>2. /\ ~Interrupted' /\ ~Ending /\ ~Ending' /\ (Sent' <=> Sent)
        /\ (Stopping' \/ tpc' = "advance") <=> (Stopping \/ tpc = "advance")
    BY <1>1, <2>1 DEF Interrupted, HandlerPcs, Ending, Sent, Stopping
  <2>. QED
    BY <1>1, <1>2, <2>1, <2>2, QueueSame DEF QueueMoves
<1>4. CASE header = tail /\ Over
  <2>1. elapsed' = 0 /\ userQuit' = TRUE /\ newCommand' = FALSE /\ tpc' = "off"
    BY <1>4 DEF Idle
  <2>2. ~Interrupted' /\ ~Ending /\ ~Ending' /\ Sent /\ Sent' /\ ~Stopping
    BY <1>1, <2>1 DEF Interrupted, HandlerPcs, Ending, Sent, Stopping
  <2>3. Waiting' = Waiting /\ Current' = Current
    BY <1>1, <1>2, <2>2, WaitingSame DEF Current
  <2>4. header \in Slot /\ header % MAX_MOTION = header
    BY <1>1, Ranges, HeadSlot
  <2>5. motionList[header].duration \in Int /\ motionList[header].duration <= elapsed
        /\ elapsed \in Nat
    BY <1>4, <2>4, OperatorAssumption DEF Over, ShellInv, TypeOK, Motion
  <2>6. Left = 0
    BY <2>2, <2>4, <2>5 DEF Left
  <2>7. CASE ~robotStoped
    <3>1. Left' = 0
      BY <1>1, <2>1, <2>7 DEF Left, Stopping
    <3>. QED
      BY <1>1, <2>2, <2>3, <2>6, <3>1 DEF QueueMoves, Queue!queueVars, Sent
  <2>8. CASE robotStoped
    <3>1. ~Stopping'
      BY <1>1, <2>8 DEF Stopping, Ending
    <3>2. Left' = Queue!Length(Current)
      BY <1>1, <2>1, <2>2, <2>4, <2>5, <3>1 DEF Left, Current, Queue!Length
    <3>3. Waiting = <<>>
      <4>1. Filled = header
        BY <1>1, <1>4 DEF Filled
      <4>2. Backlog = 0
        BY <2>4, <4>1, BacklogIs, RingSize DEF Slot
      <4>. QED
        BY <1>1, <4>2 DEF Waiting
    <3>. QED
      BY <1>1, <2>2, <2>3, <2>6, <3>2, <3>3 DEF QueueMoves, Queue!QueueNext, Queue!Linger
  <2>. QED
    BY <2>7, <2>8
<1>. QED
  BY <1>3, <1>4

LEMMA OverQueue ==
  ASSUME ShellInv, PaceInv, ListInv, ~Interrupted, MotionOver
  PROVE  UNCHANGED Queue!queueVars
<1>1. /\ UNCHANGED <<motionList, header, tail, mpc, spc, dsPIC, userQuit>>
      /\ mpc = "poll" /\ spc = "prompt" /\ ~userQuit /\ ~newCommand /\ tpc = "over?"
  BY DEF MotionOver, PaceInv, ringVars, spiVars
<1>2. Backlog' = Backlog
  BY <1>1 DEF Backlog, Filled
<1>3. CASE ~Over
  <2>1. tpc' = "off" /\ UNCHANGED <<elapsed, newCommand, robotStoped>>
    BY <1>3 DEF MotionOver
  <2>2. /\ ~Interrupted' /\ ~Ending /\ ~Ending' /\ (Sent' <=> Sent)
        /\ (Stopping' \/ tpc' = "advance") <=> (Stopping \/ tpc = "advance")
    BY <1>1, <2>1 DEF Interrupted, HandlerPcs, Ending, Sent, Stopping
  <2>. QED
    BY <1>1, <1>2, <2>1, <2>2, QueueSame
<1>4. CASE Over
  <2>1. tpc' = "advance"
    BY <1>4 DEF MotionOver
  <2>2. ~Interrupted' /\ ~Ending /\ ~Ending' /\ Sent /\ Sent' /\ ~Stopping
    BY <1>1, <2>1 DEF Interrupted, HandlerPcs, Ending, Sent, Stopping
  <2>3. Waiting' = Waiting /\ Current' = Current
    BY <1>1, <1>2, <2>2, WaitingSame DEF Current
  <2>4. header \in Slot /\ header % MAX_MOTION = header
    BY <1>1, Ranges, HeadSlot
  <2>5. motionList[header].duration \in Int /\ motionList[header].duration <= elapsed
        /\ elapsed \in Nat
    BY <1>4, <2>4, OperatorAssumption DEF Over, ShellInv, TypeOK, Motion
  <2>6. Left = 0 /\ Left' = 0
    BY <2>1, <2>2, <2>4, <2>5 DEF Left
  <2>. QED
    BY <1>1, <2>2, <2>3, <2>6 DEF Queue!queueVars, Sent
<1>. QED
  BY <1>3, <1>4

(* The next motion begins. *)
LEMMA AdvanceQueue ==
  ASSUME ShellInv, PaceInv, ListInv, ~Interrupted, MoveHeader
  PROVE  QueueMoves
<1>1. /\ UNCHANGED <<motionList, tail, mpc, spc, dsPIC, elapsed, userQuit, newCommand, robotStoped>>
      /\ mpc = "poll" /\ spc = "prompt" /\ ~userQuit /\ newCommand /\ elapsed = 0
      /\ tpc = "advance" /\ tpc' = "wrap"
      /\ header' = header + 1 /\ header \in Slot /\ Backlog' = Backlog - 1
      /\ Backlog \in 1..MAX_MOTION - 1
  BY HeaderMoved DEF MoveHeader, PaceInv, spiVars, flagVars
<1>2. ~Interrupted' /\ ~Ending /\ ~Ending' /\ Sent /\ ~Sent' /\ ~Stopping'
  BY <1>1 DEF Interrupted, HandlerPcs, Ending, Sent, Stopping
<1>3. /\ Waiting \in Seq(Motion) /\ Len(Waiting) = Backlog
      /\ \A i \in 1..Backlog : Waiting[i] = motionList[(header + i) % MAX_MOTION]
  BY <1>1, WaitingIs
<1>4. Waiting' = [i \in 1..Backlog - 1 |-> motionList[((header + 1) + i) % MAX_MOTION]]
  BY <1>1, <1>2 DEF Waiting
<1>5. Waiting' \in Seq(Motion) /\ Len(Waiting') = Backlog - 1
  <2> DEFINE h == header + 1
             b == Backlog - 1
  <2>1. h \in 0..MAX_MOTION /\ b \in 0..MAX_MOTION - 1 /\ motionList \in [Slot -> Motion]
    BY <1>1, Ranges, RingSize DEF Slot
  <2>2. Waiting' = [i \in 1..b |-> motionList[(h + i) % MAX_MOTION]]
    BY <1>4
  <2>. HIDE DEF h, b
  <2>3. Waiting' \in Seq(Motion) /\ Len(Waiting') = b
    BY <2>1, <2>2, Listed
  <2>. QED
    BY <2>3 DEF b
<1>6. ASSUME NEW i \in 1..Backlog - 1 PROVE Waiting'[i] = Waiting[i + 1]
  <2>1. i + 1 \in 1..Backlog /\ (header + 1) + i = header + (i + 1)
    BY <1>1 DEF Slot
  <2>2. Waiting'[i] = motionList[((header + 1) + i) % MAX_MOTION]
    BY <1>4
  <2>. QED
    BY <1>3, <2>1, <2>2
<1>7. Waiting # <<>> /\ Head(Waiting) = Waiting[1]
  BY <1>1, <1>3
<1>8. Waiting' = Tail(Waiting)
  <2>1. /\ Tail(Waiting) \in Seq(Motion) /\ Len(Tail(Waiting)) = Backlog - 1
        /\ \A i \in 1..Backlog - 1 : Tail(Waiting)[i] = Waiting[i + 1]
    BY <1>1, <1>3, <1>7
  <2>. HIDE DEF Waiting
  <2>. QED
    BY <1>1, <1>5, <1>6, <2>1
<1>9. motionList[(header + 1) % MAX_MOTION] = Waiting[1] /\ (header + 1) % MAX_MOTION \in Slot
  <2>1. 1 \in 1..Backlog
    BY <1>1
  <2>. QED
    BY <1>1, <1>3, <2>1, WaitingSlots
<1>10. Current' = Waiting[1]
  BY <1>1, <1>2, <1>9 DEF Current
<1>11. Left = 0
  BY <1>1 DEF Left
<1>12. Left' = Queue!Length(Waiting[1])
  <2>1. Waiting[1].duration \in Int
    BY <1>9, Ranges DEF Motion
  <2>2. Left' = IF Waiting[1].duration <= 0 THEN 0 ELSE Waiting[1].duration - 0
    BY <1>1, <1>2, <1>9 DEF Left
  <2>. QED
    BY <2>1, <2>2 DEF Queue!Length
<1>. QED
  BY <1>1, <1>2, <1>7, <1>8, <1>10, <1>11, <1>12
     DEF QueueMoves, Queue!QueueNext, Queue!Advance

LEMMA WrapQueue ==
  ASSUME ShellInv, PaceInv, ListInv, ~Interrupted, WrapHeader
  PROVE  UNCHANGED Queue!queueVars
<1>1. /\ UNCHANGED <<motionList, tail, mpc, spc, dsPIC, elapsed, userQuit, newCommand, robotStoped>>
      /\ mpc = "poll" /\ spc = "prompt" /\ ~userQuit /\ newCommand
      /\ tpc = "wrap" /\ tpc' = "off"
      /\ header \in 0..MAX_MOTION /\ header' = IF header = MAX_MOTION THEN 0 ELSE header
      /\ Backlog' = Backlog /\ Backlog \in 0..MAX_MOTION - 1
  BY HeaderWrapped DEF WrapHeader, PaceInv, spiVars, flagVars
<1>2. ~Interrupted' /\ ~Ending /\ ~Ending' /\ ~Sent /\ ~Sent' /\ ~Stopping /\ ~Stopping'
  BY <1>1 DEF Interrupted, HandlerPcs, Ending, Sent, Stopping
<1>3. ASSUME NEW i \in 0..MAX_MOTION - 1
      PROVE  (header' + i) % MAX_MOTION = (header + i) % MAX_MOTION
  <2>1. CASE header # MAX_MOTION
    BY <1>1, <2>1
  <2>2. CASE header = MAX_MOTION
    <3>1. (header + i) % MAX_MOTION = i
      BY <2>2, BacklogIs, RingSize
    <3>2. i \in Slot /\ 0 + i = i
      BY RingSize DEF Slot
    <3>3. (0 + i) % MAX_MOTION = i
      BY <3>2, HeadSlot
    <3>. QED
      BY <1>1, <2>2, <3>1, <3>3
  <2>. QED
    BY <2>1, <2>2
<1>4. Waiting' = Waiting
  <2>1. \A i \in 1..Backlog : i \in 0..MAX_MOTION - 1
    BY <1>1, RingSize
  <2>. QED
    BY <1>1, <1>2, <1>3, <2>1, WaitingSame
<1>5. header' % MAX_MOTION = header % MAX_MOTION
  <2>1. 0 \in 0..MAX_MOTION - 1 /\ header + 0 = header /\ header' + 0 = header'
    BY <1>1, RingSize
  <2>. QED
    BY <1>3, <2>1
<1>6. Current' = Current /\ Left' = Left
  BY <1>1, <1>2, <1>5 DEF Current, Left
<1>. QED
  BY <1>1, <1>2, <1>4, <1>6 DEF Queue!queueVars, Sent

LEMMA TimerQueue ==
  ASSUME Paced, ShellInv, PaceInv, ListInv, ~Interrupted, TimerStep
  PROVE  QueueMoves
BY TickQueue, IdleQueue, OverQueue, AdvanceQueue, WrapQueue DEF TimerStep, QueueMoves

-----------------------------------------------------------------------------
(* cmdShell. *)

(* A motion is put into the slot at tail, and accepted with its last field. *)
LEMMA PutQueue ==
  ASSUME Paced, ShellInv, PaceInv, ListInv, ~Interrupted, MayParse, PutStep
  PROVE  QueueMoves
<1>1. /\ UNCHANGED <<header, tail, mpc, command>> /\ spc \in Putting
      /\ command \in Commands /\ tail \in Slot \ {header}
      /\ motionList' \in [Slot -> Motion]
      /\ \A j \in Slot \ {tail} : motionList'[j] = motionList[j]
      /\ \/ spc' \in Putting /\ Backlog' = Backlog
         \/ /\ spc' = "prompt" /\ Backlog' = Backlog + 1
            /\ \E lost \in SUBSET Field : /\ motionList'[tail] = Queue!Zeroed(command, lost)
                                          /\ lost # {} => tail = Before(header)
  BY FieldPut
<1>2. UNCHANGED <<elapsed, dsPIC, userQuit, newCommand, robotStoped, tpc>>
  BY DEF PutStep, Put, spiVars, flagVars
<1>3. header \in Slot /\ tpc = "off"
  BY Parsing
<1>4. /\ ~Interrupted' /\ (Ending' <=> Ending) /\ (Sent' <=> Sent) /\ (Stopping' <=> Stopping)
      /\ spc # "reset" /\ spc' # "reset"
  BY <1>1, <1>2 DEF Interrupted, Ending, Sent, Stopping, Putting
<1>5. Current' = Current /\ Left' = Left /\ Sent' = Sent
  <2>1. motionList'[header] = motionList[header] /\ header % MAX_MOTION = header
    BY <1>1, <1>3, HeadSlot
  <2>. QED
    BY <1>1, <1>2, <1>4, <2>1 DEF Current, Left, Sent, Interrupted
<1>6. ASSUME NEW i \in 1..Backlog
      PROVE  motionList'[(header + i) % MAX_MOTION] = motionList[(header + i) % MAX_MOTION]
  <2>1. (header + i) % MAX_MOTION \in Slot
    BY WaitingSlots
  <2>2. (header + i) % MAX_MOTION # tail
    BY <1>1, <1>3, <1>4, Apart DEF ListInv
  <2>. QED
    BY <1>1, <2>1, <2>2
<1>7. CASE Backlog' = Backlog
  <2>1. Waiting' = Waiting
    BY <1>1, <1>4, <1>6, <1>7, WaitingSame
  <2>. QED
    BY <1>2, <1>5, <2>1 DEF QueueMoves, Queue!queueVars
<1>8. ASSUME Backlog' = Backlog + 1,
             NEW lost \in SUBSET Field, motionList'[tail] = Queue!Zeroed(command, lost),
             lost # {} => tail = Before(header)
      PROVE  QueueMoves
  <2> DEFINE m == Queue!Zeroed(command, lost)
  <2>1. /\ (tail - header) % MAX_MOTION = Backlog + 1
        /\ Backlog \in Nat /\ Backlog + 1 \in 0..MAX_MOTION - 1
        /\ tail = Before(header) <=> Backlog + 1 = MAX_MOTION - 1
    <3>1. /\ (tail - header) % MAX_MOTION = Backlog + 1
          /\ Backlog + 1 \in 1..MAX_MOTION - 1
          /\ tail = Before(header) <=> Backlog + 1 = MAX_MOTION - 1
      BY <1>1, <1>3, <1>4, Apart DEF ListInv
    <3>2. Backlog \in 0..MAX_MOTION - 1
      BY BacklogIs
    <3>. QED
      BY <3>1, <3>2, RingSize
  <2>2. (header + (Backlog + 1)) % MAX_MOTION = tail
    <3>1. /\ header \in 0..MAX_MOTION /\ tail \in -1..MAX_MOTION - 1
          /\ tail - header >= -MAX_MOTION /\ header < MAX_MOTION /\ tail >= 0
      BY <1>1, <1>3, RingSize DEF Slot
    <3>2. Backlog + 1 = IF tail >= header THEN tail - header ELSE tail - header + MAX_MOTION
      BY <2>1, <3>1, Around
    <3>3. (header + (Backlog + 1)) % MAX_MOTION
             = IF header + (Backlog + 1) < MAX_MOTION THEN header + (Backlog + 1)
               ELSE header + (Backlog + 1) - MAX_MOTION
      BY <2>1, BacklogIs
    <3>. QED
      BY <2>1, <3>1, <3>2, <3>3, RingSize
  <2>3. m \in Motion
    BY <1>1, <1>8
  <2>4. /\ Waiting \in Seq(Motion) /\ Len(Waiting) = Backlog
        /\ \A i \in 1..Backlog : Waiting[i] = motionList[(header + i) % MAX_MOTION]
    BY <1>4, WaitingIs
  <2>5. Waiting' = [i \in 1..Backlog + 1 |-> motionList'[(header + i) % MAX_MOTION]]
    BY <1>1, <1>4, <1>8 DEF Waiting
  <2>6. Waiting' \in Seq(Motion) /\ Len(Waiting') = Backlog + 1
    <3> DEFINE b == Backlog + 1
    <3>1. header \in 0..MAX_MOTION
      BY Ranges
    <3>2. /\ Waiting' = [i \in 1..b |-> motionList'[(header + i) % MAX_MOTION]]
          /\ b \in 0..MAX_MOTION - 1
      BY <2>1, <2>5
    <3>. HIDE DEF b
    <3>3. Waiting' \in Seq(Motion) /\ Len(Waiting') = b
      BY <1>1, <3>1, <3>2, Listed
    <3>. QED
      BY <3>3 DEF b
  <2>7. ASSUME NEW i \in 1..Backlog PROVE Waiting'[i] = Waiting[i]
    <3>1. i \in 1..Backlog + 1
      BY <2>1
    <3>. QED
      BY <1>6, <2>4, <2>5, <3>1
  <2>8. Waiting'[Backlog + 1] = m
    <3>1. Backlog + 1 \in 1..Backlog + 1
      BY <2>1
    <3>. QED
      BY <1>8, <2>2, <2>5, <3>1
  <2>. HIDE DEF m
  <2>9. Waiting' = Append(Waiting, m)
    <3>1. /\ Append(Waiting, m) \in Seq(Motion)
          /\ Len(Append(Waiting, m)) = Backlog + 1
          /\ \A i \in 1..Backlog : Append(Waiting, m)[i] = Waiting[i]
          /\ Append(Waiting, m)[Backlog + 1] = m
      BY <2>1, <2>3, <2>4
    <3>2. \A i \in 1..Backlog + 1 : i \in 1..Backlog \/ i = Backlog + 1
      BY <2>1
    <3>. QED
      BY <2>1, <2>6, <2>7, <2>8, <3>1, <3>2
  <2>10. /\ Len(Waiting) < MAX_MOTION - 1
         /\ lost # {} => Len(Waiting) + 1 = MAX_MOTION - 1
    BY <1>8, <2>1, <2>4, RingSize
  <2>11. lost \in SUBSET DOMAIN Queue!Blank
    BY DEF Field, Queue!Blank
  <2>12. Queue!Accept
    BY <1>1, <1>2, <1>5, <2>9, <2>10, <2>11 DEF Queue!Accept, m
  <2>. QED
    BY <2>12 DEF QueueMoves, Queue!QueueNext
<1>. QED
  BY <1>1, <1>7, <1>8

LEMMA ParseQueue ==
  ASSUME Paced, ShellInv, PaceInv, ListInv, ~Interrupted, ~Interrupted', ParseStep
  PROVE  QueueMoves
<1>1. MayParse /\ tpc = "off"
  BY Parsing DEF ParseStep
<1>2. CASE WrapTail \/ TestFull
  <2>1. /\ UNCHANGED <<motionList, header, mpc>> /\ Backlog' = Backlog
        /\ spc # "reset" /\ spc' # "reset"
    BY <1>1, <1>2, TailWrapped, FullTested
  <2>2. UNCHANGED <<elapsed, dsPIC, userQuit, newCommand, robotStoped, tpc>>
    BY <1>2 DEF WrapTail, TestFull, spiVars, flagVars
  <2>3. CASE Ending
    <3>1. Waiting' = Waiting
      BY <2>1, WaitingSame
    <3>2. Current' = Current /\ Left' = Left /\ Sent' = Sent
      BY <2>1, <2>2 DEF Current, Left, Sent, Ending, Stopping, Interrupted
    <3>. QED
      BY <2>2, <3>1, <3>2 DEF QueueMoves, Queue!queueVars
  <2>4. CASE ~Ending
    <3>1. ~Ending' /\ (Sent' <=> Sent) /\ (Stopping' <=> Stopping)
      BY <2>1, <2>2, <2>4 DEF Ending, Sent, Stopping, Interrupted
    <3>. QED
      BY <2>1, <2>2, <2>4, <3>1, QueueSame DEF QueueMoves
  <2>. QED
    BY <2>3, <2>4
<1>3. CASE ResetHeader
  <2>1. /\ UNCHANGED <<motionList, mpc, dsPIC, newCommand, tpc>> /\ header' = 0 /\ Backlog' = 0
        /\ spc' = "prompt"
    BY <1>1, <1>3, WasReset DEF ResetHeader, spiVars, flagVars
  <2>2. Waiting' = <<>>
    BY <2>1 DEF Waiting
  <2>3. Sent' <=> Sent
    BY <2>1 DEF Sent, Interrupted
  <2>4. ShellInv'
    BY <1>3, ShellInductive DEF ParseStep, Next
  <2>5. Current' \in Motion /\ Left' \in Nat
    <3>1. (header % MAX_MOTION)' \in Slot
      BY <2>1, HeaderSlot
    <3>2. motionList'[(header % MAX_MOTION)'] \in Motion /\ elapsed' \in Nat
      BY <2>4, <3>1, OperatorAssumption DEF ShellInv, TypeOK
    <3>3. motionList'[(header % MAX_MOTION)'].duration \in Int
      BY <3>2 DEF Motion
    <3>. QED
      BY <3>2, <3>3, BlankMotion DEF Left, Current
  <2>. QED
    BY <2>1, <2>2, <2>3, <2>5 DEF QueueMoves, Queue!QueueNext, Queue!Clear, Sent, Queue!Motion, Motion
<1>4. CASE PutStep
  BY <1>1, <1>4, PutQueue
<1>. QED
  BY <1>2, <1>3, <1>4 DEF ParseStep, PutStep

LEMMA TypeQueue ==
  ASSUME Paced, ShellInv, PaceInv, ListInv, ~Interrupted, ~Interrupted', TypeStep
  PROVE  QueueMoves
<1>1. tpc = "off"
  BY Parsing DEF TypeStep
<1>2. /\ UNCHANGED <<motionList, header, mpc>> /\ spc # "reset"
      /\ spc' # "reset" => Backlog' = Backlog
  BY Typed
<1>3. UNCHANGED <<elapsed, dsPIC, userQuit, newCommand, robotStoped, tpc>>
  BY DEF TypeStep, TypeReset, TypeExit, TypeMotion, Type, spiVars, flagVars
<1>4. Current' = Current /\ Left' = Left /\ Sent' = Sent
  BY <1>2, <1>3 DEF Current, Left, Sent, Ending, Stopping, Interrupted
<1>5. CASE spc' # "reset"
  <2>1. Waiting' = Waiting
    BY <1>2, <1>5, WaitingSame
  <2>. QED
    BY <1>3, <1>4, <2>1 DEF QueueMoves, Queue!queueVars
<1>6. CASE spc' = "reset"
  <2>1. Waiting' = <<>>
    BY <1>6 DEF Waiting
  <2>2. Current \in Motion /\ Left \in Nat
    BY LeftTyped
  <2>. QED
    BY <1>3, <1>4, <2>1, <2>2
       DEF QueueMoves, Queue!QueueNext, Queue!Clear, Queue!Motion, Motion
<1>. QED
  BY <1>5, <1>6

-----------------------------------------------------------------------------
(* ctrl+c. *)

(* signalHandler begins. *)
LEMMA InterruptQueue ==
  ASSUME Interrupt
  PROVE  QueueMoves
<1>1. Interrupted' /\ UNCHANGED dsPIC
  BY DEF Interrupt, Interrupted, HandlerPcs, spiVars
<1>2. Waiting' = <<>> /\ Current' = Blank /\ Left' = 0 /\ Sent'
  BY <1>1 DEF Waiting, Current, Left, Sent
<1>. QED
  BY <1>1, <1>2 DEF QueueMoves, Queue!QueueNext, Queue!Abandon, Blank, Queue!Blank, Sent

(* It stops the wheels; nothing else that still runs is the queue's. *)
LEMMA HandlerQueue ==
  ASSUME ShellInv, SendInv, Interrupted, Next
  PROVE  QueueMoves
<1>1. /\ Interrupted'
      /\ UNCHANGED dsPIC \/ SendFrame("i_send", "i_exit")
  <2>. USE DEF Interrupted, HandlerPcs
  <2>1. ~Interrupt
    BY DEF Interrupt
  <2>2. CASE MainStep
    <3>1. Handler
      BY <2>2 DEF MainStep, Connect, InitSpi, LightLed, CreateThread, Abort, StartTimer, Poll,
         NewCommand, StopMotion, LastIndex, Unflag, LoadDrive, SetWheel, SendFrame, Zero,
         TestStopped, MarkStopped, Resume, Main
    <3>. QED
      BY <3>1 DEF Handler, HandlerLed, HandlerExit, SetWheel, setSpeed, SendFrame, Main, spiVars
  <2>3. CASE TimerStep
    BY <2>3 DEF TimerStep, Tick, Idle, MotionOver, MoveHeader, WrapHeader, spiVars
  <2>4. CASE ParseStep
    BY <2>4 DEF ParseStep, WrapTail, TestFull, ResetHeader, Put, spiVars
  <2>5. CASE TypeStep
    BY <2>5 DEF TypeStep, TypeMotion, TypeReset, TypeExit, Type, spiVars
  <2>6. CASE Ended
    BY <2>6 DEF Ended, vars, spiVars
  <2>. QED
    BY <2>1, <2>2, <2>3, <2>4, <2>5, <2>6 DEF Next
<1>2. /\ Waiting = <<>> /\ Current = Blank /\ Left = 0 /\ Sent
      /\ Waiting' = <<>> /\ Current' = Blank /\ Left' = 0 /\ Sent'
  BY <1>1 DEF Waiting, Current, Left, Sent
<1>3. CASE UNCHANGED dsPIC
  BY <1>2, <1>3 DEF QueueMoves, Queue!queueVars, Sent
<1>4. CASE SendFrame("i_send", "i_exit")
  <2>1. msgTX.set_motor /\ msgTX.motor = AtRest /\ (spi \/ dsPIC.motor = AtRest)
    BY <1>4 DEF SendFrame, Main, SendInv
  <2>2. dsPIC'.motor = AtRest \/ (SpiMayFail /\ UNCHANGED dsPIC)
    BY <1>4, <2>1 DEF SendFrame, update, Deliver
  <2>. QED
    BY <1>2, <2>2 DEF QueueMoves, Queue!QueueNext, Queue!Stop, Queue!Tell, Blank, Queue!Blank, Sent
<1>. QED
  BY <1>1, <1>3, <1>4

(* Every step of the shell is one of the queue's, or none. *)
LEMMA QueueStep == Paced /\ QueueInv /\ [Next]_vars => [Queue!QueueNext]_(Queue!queueVars)
<1> SUFFICES ASSUME Paced, QueueInv, [Next]_vars
             PROVE  QueueMoves
  BY DEF QueueMoves
<1>1. CASE UNCHANGED vars
  <2>1. UNCHANGED <<motionList, header, tail, spc, mpc, tpc, dsPIC, elapsed, userQuit, newCommand,
                    robotStoped>>
    BY <1>1 DEF vars, ringVars, spiVars, flagVars
  <2>2. Waiting' = Waiting /\ Current' = Current /\ Left' = Left /\ Sent' = Sent
    BY <2>1 DEF Waiting, Backlog, Filled, Current, Left, Sent, Ending, Stopping, Interrupted
  <2>. QED
    BY <2>1, <2>2 DEF QueueMoves, Queue!queueVars
<1>2. CASE Next /\ Interrupted
  BY <1>2, HandlerQueue DEF QueueInv
<1>3. CASE Interrupt
  BY <1>3, InterruptQueue
<1>4. CASE Next /\ ~Interrupted /\ ~Interrupt
  <2>1. ShellInv /\ SendInv /\ PaceInv /\ ListInv
    BY <1>4 DEF QueueInv
  <2>2. ~Interrupted'
    BY <1>4, <2>1 DEF Interrupted, HandlerPcs, Next, MainStep, Connect, InitSpi, LightLed,
       CreateThread, Abort, StartTimer, Poll, NewCommand, StopMotion, LastIndex, Unflag, LoadDrive,
       SetWheel, SendFrame, Zero, TestStopped, MarkStopped, Resume, Main, Handler, HandlerLed,
       HandlerExit, TimerStep, Tick, Idle, MotionOver, MoveHeader, WrapHeader, ParseStep, WrapTail,
       TestFull, ResetHeader, Put, TypeStep, TypeMotion, TypeReset, TypeExit, Type, Ended, vars
  <2>3. ~Handler
    BY <1>4, <2>2, HandlerStays
  <2>4. MainStep \/ TimerStep \/ ParseStep \/ TypeStep \/ UNCHANGED vars
    BY <1>4 DEF Next, Ended
  <2>5. ~Interrupted
    BY <1>4
  <2>6. Paced
    OBVIOUS
  <2>7. MainStep => QueueMoves
    BY <2>1, <2>2, <2>3, <2>5, MainQueue
  <2>8. TimerStep => QueueMoves
    BY <2>1, <2>5, <2>6, TimerQueue
  <2>9. ParseStep => QueueMoves
    BY <2>1, <2>2, <2>5, <2>6, ParseQueue
  <2>10. TypeStep => QueueMoves
    BY <2>1, <2>2, <2>5, <2>6, TypeQueue
  <2>. QED
    BY <1>1, <2>4, <2>7, <2>8, <2>9, <2>10
<1>. QED
  BY <1>1, <1>2, <1>3, <1>4

LEMMA QueueStart == Init => Queue!QueueInit
<1> SUFFICES ASSUME Init
             PROVE  Queue!QueueInit
  OBVIOUS
<1>1. /\ header = 0 /\ tail = 0 /\ spc = "none" /\ mpc = "init" /\ tpc = "off" /\ 0 \in Slot
      /\ motionList = [i \in Slot |-> Blank] /\ dsPIC.motor = AtRest /\ newCommand /\ elapsed = 0
  BY RingSize DEF Init, SpiInit, Slot
<1>2. ~Interrupted /\ ~Ending /\ ~Sent
  BY <1>1 DEF Interrupted, HandlerPcs, Ending, Sent
<1>3. Waiting = <<>>
  <2>1. Backlog = 0
    BY <1>1, QueueInit, BacklogIs DEF Filled
  <2>. QED
    BY <1>1, <1>2, <2>1 DEF Waiting
<1>4. Current = Blank /\ motionList[header % MAX_MOTION] = Blank
  BY <1>1, <1>2, HeadSlot DEF Current
<1>5. Left = 0
  BY <1>1, <1>4, BlankMotion DEF Left
<1>. QED
  BY <1>1, <1>2, <1>3, <1>4, <1>5 DEF Queue!QueueInit, Blank, Queue!Blank

(* When ticks come while main and cmdShell wait, and resets while main     *)
(* does, motionList is the queue that the shell promises (main.c:121-317), *)
(* for a ring of any size that may be full, in every order of main's and   *)
(* cmdShell's own steps, with ctrl+c at any of them and transfers that may *)
(* fail: motions begin in the order they were accepted, none is skipped or *)
(* begun twice, each is sent once and lasts its ticks before the next or   *)
(* the stop, and only one in the last place of the ring may lose fields.   *)
THEOREM ImplementsQueueCorrect ==
  ASSUME Paced
  PROVE  Spec => ImplementsQueue
<1>1. Init => QueueInv /\ Queue!QueueInit
  BY QueueInit, QueueStart DEF QueueInv
<1>2. QueueInv /\ [Next]_vars => QueueInv'
  BY QueueInductive
<1>3. QueueInv /\ [Next]_vars => [Queue!QueueNext]_(Queue!queueVars)
  BY QueueStep
<1>. QED
  BY <1>1, <1>2, <1>3, PTL DEF Spec, ImplementsQueue, Queue!QueueSpec
=============================================================================
