---------------------------- MODULE MotionShell ----------------------------
(***************************************************************************)
(* main.c: a shell that queues motions for the e-puck.  Three activities   *)
(* share a ring buffer and a few flags without a lock:                     *)
(*   - the thread cmdShell parses commands and appends motions at tail;    *)
(*   - the interval timer's timerHandler, every 100 ms, moves header on    *)
(*     when the current motion has lasted its duration;                    *)
(*   - main polls the flags, sends the wheel speeds and blanks the slots   *)
(*     it is done with.                                                    *)
(* SIGALRM and SIGINT run on the main thread, which is where Linux         *)
(* delivers a process's signal as long as that thread does not block it:   *)
(* main makes no step of its own while a handler runs, cmdShell does.      *)
(*                                                                         *)
(* Every access to the shared buffer and flags is a step of its own, in    *)
(* the order of the source.  currentTime and lastupdateTime are only used  *)
(* through their difference, elapsed, which is kept up to MaxElapsed.      *)
(***************************************************************************)
EXTENDS Spicomm

CONSTANTS
  MAX_MOTION,   (* 10: the slots of the ring                                *)
  Commands,     (* motions the operator asks for                            *)
  MaxCommands,  (* commands the operator types                              *)
  MaxBacklog,   (* motions the operator lets wait before typing another     *)
  MaxElapsed,   (* bound of elapsed                                         *)
  Paced,        (* do ticks and resets come only when main sleeps?          *)
  MayInterrupt  (* may the operator press ctrl+c?                           *)

Motion == [speed : Int, turnrate : Int, duration : Int]

ASSUME ShellAssumption ==
  /\ MAX_MOTION \in Nat \ {0, 1}
  /\ Speeds = -32768..32767
  /\ Paced \in BOOLEAN /\ MayInterrupt \in BOOLEAN

ASSUME OperatorAssumption ==
  /\ Commands \subseteq Motion
  /\ MaxCommands \in Nat /\ MaxBacklog \in Nat /\ MaxElapsed \in Nat
  /\ \A m \in Commands : m.duration <= MaxElapsed

VARIABLES
  motionList, header, tail,           (* the ring buffer                    *)
  userQuit, newCommand, robotStoped,  (* the flags                          *)
  elapsed,                            (* currentTime - lastupdateTime       *)
  lastcmdIndex, drive, toSet,         (* main: locals, arguments, wheels    *)
                                      (* that setSpeed has still to store   *)
  command, typed,                     (* cmdShell: being parsed; how many   *)
  board_led,                          (* user LED 1                         *)
  mpc, tpc, spc,                      (* main, timerHandler, cmdShell       *)
  proc                                (* running, or how the process ended  *)

ringVars == <<motionList, header, tail>>
flagVars == <<userQuit, newCommand, robotStoped>>
mainVars == <<lastcmdIndex, drive, toSet>>
shellVars == <<command, typed>>

vars == <<spiVars, ringVars, flagVars, elapsed, mainVars, shellVars, board_led,
          mpc, tpc, spc, proc>>

Slot == 0..(MAX_MOTION - 1)
Blank == [speed |-> 0, turnrate |-> 0, duration |-> 0]

(* Faulty: no wrap-around. *)
BeforeUnwrapped(i) == i - 1

Before(i) == IF i - 1 < 0 THEN MAX_MOTION - 1 ELSE i - 1

HandlerPcs == {"i_led", "i_set", "i_send", "i_exit"}
MainPcs == {"init", "led", "thread", "start", "poll", "index", "unflag", "load_speed", "load_turn",
            "set", "send", "zero_speed", "zero_turn", "zero_duration",
            "stopped?", "mark", "s_set", "s_send", "s_zero_speed", "s_zero_turn",
            "s_zero_duration", "resume"} \cup HandlerPcs
TimerPcs == {"off", "cut", "idle?", "over?", "advance", "wrap"}
ShellPcs == {"none", "prompt", "wrap_tail", "full?", "put_speed", "put_turn",
             "put_duration", "reset"}

TypeOK ==
  /\ SpiTypeOK
  /\ motionList \in [Slot -> Motion]
  /\ header \in 0..MAX_MOTION /\ tail \in 0..MAX_MOTION
  /\ userQuit \in BOOLEAN /\ newCommand \in BOOLEAN /\ robotStoped \in BOOLEAN
  /\ elapsed \in 0..MaxElapsed
  /\ lastcmdIndex \in Slot
  /\ drive \in [speed : Int, turnrate : Int]
  /\ toSet \subseteq Wheel
  /\ command \in Commands \cup {Blank} /\ typed \in 0..MaxCommands
  /\ board_led \in BOOLEAN
  /\ mpc \in MainPcs /\ tpc \in TimerPcs /\ spc \in ShellPcs
  /\ proc \in {"running", "interrupted", "left", "aborted"}

Init ==
  /\ SpiInit
  /\ motionList = [i \in Slot |-> Blank]
  /\ header = 0 /\ tail = 0
  /\ userQuit = FALSE /\ newCommand = TRUE /\ robotStoped = TRUE
  /\ elapsed = 0
  /\ lastcmdIndex = 0 /\ drive = [speed |-> 0, turnrate |-> 0] /\ toSet = Wheel
  /\ command = Blank /\ typed = 0
  /\ board_led = FALSE
  /\ mpc = "init" /\ tpc = "off" /\ spc = "none"
  /\ proc = "running"

-----------------------------------------------------------------------------
(* setSpeed2: the wheel speeds of a motion.  The double that C computes is *)
(* truncated to an int and the int to the int16_t of setSpeed.             *)
(* 0.052 * 1000 / (360 * 0.04) is 65 / 18.                                 *)

Truncate(n, d) == IF n >= 0 THEN n \div d ELSE -((-n) \div d)
Int16(x) == ((x + 32768) % 65536) - 32768

WheelSpeed(m, w) ==
  LET turn == IF w = "left" THEN 65 * m.turnrate ELSE -(65 * m.turnrate)
  IN Int16(Truncate(18 * m.speed + turn, 18))

WheelSpeeds(m) == [w \in Wheel |-> WheelSpeed(m, w)]

-----------------------------------------------------------------------------
(* main.  A step of main's own is one from here to next; timerHandler must *)
(* not be running.                                                         *)

Free == tpc \in {"off", "cut"}
Main(here, next) == Free /\ mpc = here /\ mpc' = next

InitSpi ==
  /\ Main("init", "led")
  /\ init_spi
  /\ UNCHANGED <<ringVars, flagVars, elapsed, mainVars, shellVars, board_led, tpc, spc, proc>>

LightLed ==
  /\ Main("led", "thread")
  /\ board_led' = TRUE
  /\ UNCHANGED <<spiVars, ringVars, flagVars, elapsed, mainVars, shellVars, tpc, spc, proc>>

(* pthread_create: then main sleeps for a second before it starts the      *)
(* timer.                                                                  *)
CreateThread ==
  /\ Main("thread", "start")
  /\ spc' = "prompt"
  /\ UNCHANGED <<spiVars, ringVars, flagVars, elapsed, mainVars, shellVars, board_led,
                 tpc, proc>>

Connect == InitSpi \/ LightLed \/ CreateThread

Abort ==
  /\ mpc = "init"
  /\ proc' = "aborted"
  /\ UNCHANGED <<spiVars, ringVars, flagVars, elapsed, mainVars, shellVars, board_led,
                 mpc, tpc, spc>>

StartTimer ==
  /\ Main("start", "resume")
  /\ UNCHANGED <<spiVars, ringVars, flagVars, elapsed, mainVars, shellVars, board_led,
                 tpc, spc, proc>>

(* One round of the two loops' conditions; nothing happens when no flag is *)
(* set.                                                                    *)
Poll ==
  /\ userQuit \/ newCommand
  /\ Main("poll", IF userQuit THEN "stopped?" ELSE "index")
  /\ UNCHANGED <<spiVars, ringVars, flagVars, elapsed, mainVars, shellVars, board_led,
                 tpc, spc, proc>>

(* Faulty: the slot in use. *)
LastIndexCurrent ==
  /\ Main("index", "unflag")
  /\ lastcmdIndex' = header
  /\ UNCHANGED <<spiVars, ringVars, flagVars, elapsed, drive, toSet, shellVars, board_led,
                 tpc, spc, proc>>

LastIndex ==
  /\ Main("index", "unflag")
  /\ lastcmdIndex' = Before(header)
  /\ UNCHANGED <<spiVars, ringVars, flagVars, elapsed, drive, toSet, shellVars, board_led,
                 tpc, spc, proc>>

Unflag ==
  /\ Main("unflag", "load_speed")
  /\ newCommand' = FALSE
  /\ UNCHANGED <<spiVars, ringVars, userQuit, robotStoped, elapsed, mainVars, shellVars,
                 board_led, tpc, spc, proc>>

(* The arguments of setSpeed2: the two fields of the slot at header. *)
LoadDrive ==
  /\ \/ /\ Main("load_speed", "load_turn")
        /\ drive' = [drive EXCEPT !.speed = motionList[header].speed]
     \/ /\ Main("load_turn", "set")
        /\ drive' = [drive EXCEPT !.turnrate = motionList[header].turnrate]
  /\ UNCHANGED <<spiVars, ringVars, flagVars, elapsed, lastcmdIndex, toSet, shellVars,
                 board_led, tpc, spc, proc>>

(* The stores of setSpeed, called by main or by signalHandler. *)
SetWheel(here, next, speeds) ==
  /\ Free /\ mpc = here
  /\ \E w \in toSet :
       /\ setSpeed(w, speeds[w])
       /\ IF toSet = {w}
          THEN mpc' = next /\ toSet' = Wheel
          ELSE mpc' = mpc /\ toSet' = toSet \ {w}
  /\ UNCHANGED <<ringVars, flagVars, elapsed, lastcmdIndex, drive, shellVars, board_led,
                 tpc, spc, proc>>

SendFrame(here, next) ==
  /\ Main(here, next)
  /\ update
  /\ UNCHANGED <<ringVars, flagVars, elapsed, mainVars, shellVars, board_led,
                 tpc, spc, proc>>

(* A field of the slot at i is zeroed. *)
Zero(here, next, i, field) ==
  /\ Main(here, next)
  /\ motionList' = [motionList EXCEPT ![i] = [@ EXCEPT ![field] = 0]]
  /\ UNCHANGED <<spiVars, header, tail, flagVars, elapsed, mainVars, shellVars, board_led,
                 tpc, spc, proc>>

NewCommand ==
  \/ LastIndex \/ Unflag \/ LoadDrive
  \/ SetWheel("set", "send", WheelSpeeds(drive))
  \/ SendFrame("send", "zero_speed")
  \/ Zero("zero_speed", "zero_turn", lastcmdIndex, "speed")
  \/ Zero("zero_turn", "zero_duration", lastcmdIndex, "turnrate")
  \/ Zero("zero_duration", "poll", lastcmdIndex, "duration")

(* What follows the inner loop. *)
TestStopped ==
  /\ Main("stopped?", IF robotStoped THEN "resume" ELSE "mark")
  /\ UNCHANGED <<spiVars, ringVars, flagVars, elapsed, mainVars, shellVars, board_led,
                 tpc, spc, proc>>

MarkStopped ==
  /\ Main("mark", "s_set")
  /\ robotStoped' = TRUE
  /\ UNCHANGED <<spiVars, ringVars, userQuit, newCommand, elapsed, mainVars, shellVars,
                 board_led, tpc, spc, proc>>

(* userQuit = 0, at the head of the outer loop.                            *)
Resume ==
  /\ Main("resume", "poll")
  /\ userQuit' = FALSE
  /\ UNCHANGED <<spiVars, ringVars, newCommand, robotStoped, elapsed, mainVars, shellVars,
                 board_led, tpc, spc, proc>>

StopMotion ==
  \/ TestStopped \/ MarkStopped \/ Resume
  \/ SetWheel("s_set", "s_send", WheelSpeeds(Blank))
  \/ SendFrame("s_send", "s_zero_speed")
  \/ Zero("s_zero_speed", "s_zero_turn", header, "speed")
  \/ Zero("s_zero_turn", "s_zero_duration", header, "turnrate")
  \/ Zero("s_zero_duration", "resume", header, "duration")

(* signalHandler, which interrupts main for good, or timerHandler and the  *)
(* ticks that would follow: SIGALRM stays blocked while its handler runs.  *)
Interrupt ==
  /\ MayInterrupt /\ proc = "running"
  /\ mpc \notin HandlerPcs
  /\ mpc' = "i_led" /\ toSet' = Wheel
  /\ tpc' = IF tpc = "off" THEN "off" ELSE "cut"
  /\ UNCHANGED <<spiVars, ringVars, flagVars, elapsed, lastcmdIndex, drive, shellVars,
                 board_led, spc, proc>>

HandlerLed ==
  /\ Main("i_led", "i_set")
  /\ board_led' = FALSE
  /\ UNCHANGED <<spiVars, ringVars, flagVars, elapsed, mainVars, shellVars, tpc, spc, proc>>

HandlerExit ==
  /\ Free /\ mpc = "i_exit"
  /\ userQuit' = TRUE
  /\ proc' = "interrupted"
  /\ UNCHANGED <<spiVars, ringVars, newCommand, robotStoped, elapsed, mainVars, shellVars,
                 board_led, mpc, tpc, spc>>

(* Faulty: the stop is not sent. *)
HandlerSilent ==
  \/ HandlerLed \/ HandlerExit
  \/ SetWheel("i_set", "i_exit", AtRest)

Handler ==
  \/ HandlerLed \/ HandlerExit
  \/ SetWheel("i_set", "i_send", AtRest)
  \/ SendFrame("i_send", "i_exit")

MainStep ==
  /\ proc = "running"
  /\ Connect \/ Abort \/ StartTimer \/ Poll \/ NewCommand \/ StopMotion \/ Handler

-----------------------------------------------------------------------------
(* timerHandler *)

Over == elapsed >= motionList[header].duration

(* The pace of a tick: main is asleep, having seen the flags, and cmdShell *)
(* waits for its operator.                                                 *)
Calm == mpc = "poll" /\ ~userQuit /\ ~newCommand /\ spc = "prompt"

Tick ==
  /\ mpc \notin {"init", "led", "thread", "start"} /\ tpc = "off"
  /\ Paced => Calm
  /\ elapsed' = IF elapsed < MaxElapsed THEN elapsed + 1 ELSE elapsed
  /\ tpc' = "idle?"
  /\ UNCHANGED <<spiVars, ringVars, flagVars, mainVars, shellVars, board_led, mpc, spc, proc>>

(* No motion waits and the current one is over. *)
Idle ==
  /\ tpc = "idle?"
  /\ IF header = tail /\ Over
     THEN elapsed' = 0 /\ userQuit' = TRUE /\ newCommand' = FALSE /\ tpc' = "off"
     ELSE tpc' = "over?" /\ UNCHANGED <<elapsed, userQuit, newCommand>>
  /\ UNCHANGED <<spiVars, ringVars, robotStoped, mainVars, shellVars, board_led, mpc, spc, proc>>

(* Faulty: robotStoped stays set. *)
MotionOverQuiet ==
  /\ tpc = "over?"
  /\ IF Over
     THEN elapsed' = 0 /\ newCommand' = TRUE /\ tpc' = "advance"
     ELSE tpc' = "off" /\ UNCHANGED <<elapsed, newCommand>>
  /\ UNCHANGED <<spiVars, ringVars, userQuit, robotStoped, mainVars, shellVars, board_led,
                 mpc, spc, proc>>

(* The current motion is over: its flags ...                               *)
MotionOver ==
  /\ tpc = "over?"
  /\ IF Over
     THEN elapsed' = 0 /\ newCommand' = TRUE /\ robotStoped' = FALSE /\ tpc' = "advance"
     ELSE tpc' = "off" /\ UNCHANGED <<elapsed, newCommand, robotStoped>>
  /\ UNCHANGED <<spiVars, ringVars, userQuit, mainVars, shellVars, board_led, mpc, spc, proc>>

(* ... and header++, then the wrap-around. *)
MoveHeader ==
  /\ tpc = "advance" /\ tpc' = "wrap"
  /\ header' = header + 1
  /\ UNCHANGED <<spiVars, motionList, tail, flagVars, elapsed, mainVars, shellVars, board_led,
                 mpc, spc, proc>>

WrapHeader ==
  /\ tpc = "wrap" /\ tpc' = "off"
  /\ header' = IF header = MAX_MOTION THEN 0 ELSE header
  /\ UNCHANGED <<spiVars, motionList, tail, flagVars, elapsed, mainVars, shellVars, board_led,
                 mpc, spc, proc>>

TimerStep ==
  /\ proc = "running"
  /\ Tick \/ Idle \/ MotionOver \/ MoveHeader \/ WrapHeader

-----------------------------------------------------------------------------
(* cmdShell and parseCMD *)

(* The motions whose stores are complete: tail moves before they are made. *)
Filled == IF spc \in {"wrap_tail", "full?", "put_speed", "put_turn", "put_duration"}
          THEN tail - 1 ELSE tail
Backlog == (Filled - header) % MAX_MOTION

(* The operator types a command. *)
Type(next) ==
  /\ spc = "prompt" /\ typed < MaxCommands
  /\ typed' = typed + 1
  /\ spc' = next
  /\ UNCHANGED <<spiVars, motionList, header, flagVars, elapsed, mainVars, board_led, mpc, tpc>>

(* move, turn and mm: tail++ ...                                           *)
TypeMotion(m) ==
  /\ Backlog < MaxBacklog
  /\ Type("wrap_tail")
  /\ command' = m
  /\ tail' = tail + 1
  /\ UNCHANGED proc

(* The pace of a reset: main is asleep. *)
MayReset == Paced => mpc \in {"start", "poll"}

TypeReset == MayReset /\ Type("reset") /\ tail' = 0 /\ UNCHANGED <<command, proc>>

(* The command exit, or the end of the input. *)
TypeExit == Type("prompt") /\ proc' = "left" /\ UNCHANGED <<tail, command>>

Shell(here, next) == spc = here /\ spc' = next

(* Faulty: off by one. *)
WrapTailLate ==
  /\ Shell("wrap_tail", "full?")
  /\ tail' = IF tail > MAX_MOTION THEN 0 ELSE tail
  /\ UNCHANGED <<spiVars, motionList, header, flagVars, elapsed, mainVars, shellVars, board_led,
                 mpc, tpc, proc>>

WrapTail ==
  /\ Shell("wrap_tail", "full?")
  /\ tail' = IF tail = MAX_MOTION THEN 0 ELSE tail
  /\ UNCHANGED <<spiVars, motionList, header, flagVars, elapsed, mainVars, shellVars, board_led,
                 mpc, tpc, proc>>

(* "list full, last motion will lost": tail goes back. *)
TestFull ==
  /\ IF tail = header
     THEN Shell("full?", "prompt") /\ tail' = Before(tail)
     ELSE Shell("full?", "put_speed") /\ UNCHANGED tail
  /\ UNCHANGED <<spiVars, motionList, header, flagVars, elapsed, mainVars, shellVars, board_led,
                 mpc, tpc, proc>>

Put(here, next, field) ==
  /\ Shell(here, next)
  /\ motionList' = [motionList EXCEPT ![tail] = [@ EXCEPT ![field] = command[field]]]
  /\ UNCHANGED <<spiVars, header, tail, flagVars, elapsed, mainVars, shellVars, board_led,
                 mpc, tpc, proc>>

(* header=tail=0 stores tail first. *)
ResetHeader ==
  /\ MayReset
  /\ Shell("reset", "prompt")
  /\ header' = 0
  /\ UNCHANGED <<spiVars, motionList, tail, flagVars, elapsed, mainVars, shellVars, board_led,
                 mpc, tpc, proc>>

(* main and cmdShell interleave at every step. *)
MayParse == proc = "running" /\ (Paced => tpc \in {"off", "cut"})

ParseStep ==
  /\ MayParse
  /\ \/ WrapTail \/ TestFull \/ ResetHeader
     \/ Put("put_speed", "put_turn", "speed")
     \/ Put("put_turn", "put_duration", "turnrate")
     \/ Put("put_duration", "prompt", "duration")

TypeStep == MayParse /\ (TypeReset \/ TypeExit \/ \E m \in Commands : TypeMotion(m))

Ended == proc # "running" /\ UNCHANGED vars

Next == MainStep \/ Interrupt \/ TimerStep \/ ParseStep \/ TypeStep \/ Ended

Spec == Init /\ [][Next]_vars

(* The threads and the timer run; the operator may do nothing.  A handler  *)
(* disables main each time it runs, but it ends long before the next tick, *)
(* so main runs in between: strong fairness.                               *)
FairSpec == Spec /\ SF_vars(MainStep) /\ WF_vars(TimerStep) /\ WF_vars(ParseStep)

-----------------------------------------------------------------------------
(* Ctrl+C stops the robot, whatever main, timer and shell were doing: when *)
(* signalHandler has exited, the dsPIC was last told to stand still and    *)
(* the LED is off.                                                         *)
SafeInterrupt ==
  proc = "interrupted" => dsPIC.motor = AtRest /\ ~board_led

(* main and cmdShell index the list in its bounds, although header and     *)
(* tail are past it between their increment and their wrap-around.         *)
IndicesInBounds ==
  /\ mpc \in {"index", "load_speed", "load_turn", "s_zero_speed", "s_zero_turn",
             "s_zero_duration"} /\ Free => header \in Slot
  /\ spc \in {"full?", "put_speed", "put_turn", "put_duration"} => tail \in Slot

-----------------------------------------------------------------------------
(* The shell keeps the promise of MotionQueue: motions begin in the order  *)
(* they were accepted, each is sent once and lasts its ticks; a motion in  *)
(* the last place of a full list may be blanked.                           *)

Interrupted == mpc \in HandlerPcs

(* main blanks the slot of the last motion, which it has stopped. *)
Ending == mpc \in {"s_zero_speed", "s_zero_turn", "s_zero_duration"}

(* From the flag of timerHandler to the end of the last motion. *)
Stopping == (userQuit /\ ~robotStoped) \/ mpc \in {"s_set", "s_send"} \/ Ending

(* The motions that wait: the slots between header and tail. *)
Waiting ==
  IF spc = "reset" \/ Interrupted THEN <<>>
  ELSE [i \in 1..Backlog |-> motionList[(header + i) % MAX_MOTION]]

Current == IF Ending \/ Interrupted THEN Blank ELSE motionList[header % MAX_MOTION]

(* newCommand asks main to send the current motion; timerHandler sets it   *)
(* just before it moves header on.                                         *)
Sent ==
  \/ Interrupted \/ tpc = "advance"
  \/ ~newCommand /\ mpc \notin {"load_speed", "load_turn", "set", "send"}

Left ==
  LET duration == motionList[header % MAX_MOTION].duration
  IN IF Interrupted \/ Stopping \/ tpc = "advance" \/ duration <= elapsed THEN 0
     ELSE duration - elapsed

Queue == INSTANCE MotionQueue WITH
  Motions <- Commands, Capacity <- MAX_MOTION - 1, Rest <- AtRest, Drive <- WheelSpeeds,
  MayFail <- SpiMayFail, waiting <- Waiting, current <- Current, sent <- Sent, left <- Left,
  wheels <- dsPIC.motor

ImplementsQueue == Queue!QueueSpec

(* "move [speed][duration]: move at [speed] for [duration] ms"             *)
(* (main.c:280): every motion has an end, so once the operator is done the *)
(* robot comes to rest and stays there.                                    *)
Rests == <>[](proc = "running" => dsPIC.motor = AtRest)
=============================================================================
