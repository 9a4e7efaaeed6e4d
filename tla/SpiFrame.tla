------------------------------ MODULE SpiFrame ------------------------------
(***************************************************************************)
(* The globals msgTX and msgRX of spicomm.c at the level of machine words, *)
(* shared without a lock by any set of threads that call setSpeed and      *)
(* update, setLED, get_ir_data and, at the end, closeRobot.                *)
(*                                                                         *)
(* The command bits are bit fields of one word, so setting one of them is  *)
(* a load of the word and a later store of it: a bit that another thread   *)
(* set in between is lost.  The same holds for the LED bits of setLED.     *)
(* The stores of setSpeed to the three words it touches may come in any    *)
(* order.  The driver makes one transfer at a time; the words it brings    *)
(* arrive in msgRX one by one, in any order, under whoever reads or clears *)
(* them meanwhile.  Spicomm is the coarser view of the same frame that the *)
(* programs are composed with.                                             *)
(***************************************************************************)
EXTENDS Integers, Sequences

CONSTANTS
  Threads,     (* the threads of the process                                *)
  Speeds,      (* wheel speeds they ask for                                 *)
  Leds,        (* bits of led_cmd                                           *)
  RxWords,     (* words of msgRX.ir that get_ir_data is asked for           *)
  CopyWords,   (* words that memset(rxbuf, 0, sizeof rxbuf) clears          *)
  MaxCalls     (* bound: calls of all threads before their closeRobot       *)

ASSUME FrameAssumption ==
  /\ Threads # {} /\ 0 \in Speeds
  /\ RxWords \in Nat /\ CopyWords \in Nat /\ MaxCalls \in Nat

Bits == {"set_motor", "reset"}
Wheels == {"left", "right"}
AtRest == [w \in Wheels |-> 0]

VARIABLES
  cmd,         (* the bits set in msgTX.cmd                                 *)
  motor,       (* msgTX.left_motor and msgTX.right_motor                    *)
  led_cmd,     (* the bits set in msgTX.led_cmd                             *)
  ir,          (* msgRX.ir: which frame each word is from, 0 if cleared     *)
  frames,      (* number of frames the dsPIC has answered                   *)
  arriving,    (* the words of the last of them that are not in msgRX yet   *)
  dsPIC,       (* the wheels and the reset bit as the dsPIC has them        *)
  delivered,   (* did the last transfer succeed?                            *)
  pc, stage,   (* where a thread is, and in which part of closeRobot        *)
  todo,        (* the words of the frame it has still to store              *)
  temp,        (* the word it has loaded and not stored yet                 *)
  arg,         (* the speeds, or the LED and its state, it was called with  *)
  got,         (* what get_ir_data has copied to it                         *)
  calls        (* calls made                                                *)

frameVars == <<cmd, motor, led_cmd>>
linkVars == <<ir, frames, arriving, dsPIC, delivered>>
localVars == <<pc, stage, todo, temp, arg, got>>
vars == <<frameVars, linkVars, localVars, calls>>

TypeOK ==
  /\ cmd \subseteq Bits /\ led_cmd \subseteq Leds
  /\ motor \in [Wheels -> Speeds]
  /\ ir \in [1..RxWords -> Nat] /\ frames \in Nat /\ arriving \subseteq 1..RxWords
  /\ delivered \in BOOLEAN
  /\ dsPIC \in [motor : [Wheels -> Speeds], reset : BOOLEAN]
  /\ pc \in [Threads -> {"idle", "fill", "fill_cmd", "ioctl", "refill", "led", "led_store", "ir",
                        "closed"}]
  /\ stage \in [Threads -> {"drive", "stop", "reset"}]
  /\ todo \in [Threads -> SUBSET (Wheels \cup {"cmd"})]
  /\ temp \in [Threads -> SUBSET (Bits \cup Leds)]
  /\ arg \in [Threads -> [Wheels -> Speeds] \cup [led : Leds, on : BOOLEAN]]
  /\ got \in [Threads -> Seq(Nat)]
  /\ calls \in 0..MaxCalls

Init ==
  /\ cmd = {} /\ motor = AtRest /\ led_cmd = {}
  /\ ir = [j \in 1..RxWords |-> 0] /\ frames = 0 /\ arriving = {} /\ delivered = TRUE
  /\ dsPIC = [motor |-> AtRest, reset |-> FALSE]
  /\ pc = [t \in Threads |-> "idle"]
  /\ stage = [t \in Threads |-> "drive"]
  /\ todo = [t \in Threads |-> {}]
  /\ temp = [t \in Threads |-> {}]
  /\ arg = [t \in Threads |-> AtRest]
  /\ got = [t \in Threads |-> <<>>]
  /\ calls = 0

-----------------------------------------------------------------------------
(* setSpeed and update. *)

Begin(t, part, words, speeds) ==
  /\ pc' = [pc EXCEPT ![t] = "fill"]
  /\ stage' = [stage EXCEPT ![t] = part]
  /\ todo' = [todo EXCEPT ![t] = words]
  /\ arg' = [arg EXCEPT ![t] = speeds]

Call(t) ==
  /\ pc[t] = "idle"
  /\ calls < MaxCalls
  /\ calls' = calls + 1

Drive(t, speeds) ==
  /\ Call(t)
  /\ Begin(t, "drive", Wheels \cup {"cmd"}, speeds)
  /\ UNCHANGED <<frameVars, linkVars, temp, got>>

(* msgTX.cmd.set_motor=1 or msgTX.cmd.reset=1: the load ...                *)
LoadCmd(t) ==
  /\ pc[t] = "fill" /\ "cmd" \in todo[t]
  /\ pc' = [pc EXCEPT ![t] = "fill_cmd"]
  /\ temp' = [temp EXCEPT ![t] = cmd]
  /\ UNCHANGED <<frameVars, linkVars, stage, todo, arg, got, calls>>

(* ... and the store of the whole word.                                    *)
StoreCmd(t) ==
  /\ pc[t] = "fill_cmd"
  /\ cmd' = temp[t] \cup {IF stage[t] = "reset" THEN "reset" ELSE "set_motor"}
  /\ pc' = [pc EXCEPT ![t] = "fill"]
  /\ todo' = [todo EXCEPT ![t] = @ \ {"cmd"}]
  /\ temp' = [temp EXCEPT ![t] = {}]
  /\ UNCHANGED <<motor, led_cmd, linkVars, stage, arg, got, calls>>

(* Faulty: takes the speed as a change of the old one.                     *)
StoreWheelAdded(t, w) ==
  /\ pc[t] \in {"fill", "fill_cmd"} /\ w \in todo[t]
  /\ motor' = [motor EXCEPT ![w] = @ + arg[t][w]]
  /\ todo' = [todo EXCEPT ![t] = @ \ {w}]
  /\ UNCHANGED <<cmd, led_cmd, linkVars, pc, stage, temp, arg, got, calls>>

StoreWheel(t, w) ==
  /\ pc[t] \in {"fill", "fill_cmd"} /\ w \in todo[t]
  /\ motor' = [motor EXCEPT ![w] = arg[t][w]]
  /\ todo' = [todo EXCEPT ![t] = @ \ {w}]
  /\ UNCHANGED <<cmd, led_cmd, linkVars, pc, stage, temp, arg, got, calls>>

(* memset(rxbuf, 0, sizeof rxbuf): the size is a pointer's.                *)
ClearRx == ir' = [j \in 1..RxWords |-> IF j <= CopyWords THEN 0 ELSE ir[j]]

(* Faulty: sends when the speeds are stored, whatever the bit.             *)
ClearEarly(t) ==
  /\ pc[t] = "fill" /\ todo[t] \subseteq {"cmd"}
  /\ pc' = [pc EXCEPT ![t] = "ioctl"]
  /\ ClearRx
  /\ UNCHANGED <<frameVars, frames, arriving, dsPIC, delivered, stage, todo, temp, arg, got, calls>>

(* do_msg, up to the ioctl.                                                *)
Clear(t) ==
  /\ pc[t] = "fill" /\ todo[t] = {}
  /\ pc' = [pc EXCEPT ![t] = "ioctl"]
  /\ ClearRx
  /\ UNCHANGED <<frameVars, frames, arriving, dsPIC, delivered, stage, todo, temp, arg, got, calls>>

(* Faulty: closeRobot ends without reset_robot. *)
ContinueUnreset(t) ==
  /\ pc' = [pc EXCEPT ![t] = IF stage[t] = "drive" THEN "idle" ELSE "closed"]
  /\ UNCHANGED <<stage, todo, arg>>

(* After an update: back to the caller, or on to closeRobot's reset_robot, *)
(* which sets its bit and updates once more.                               *)
Continue(t) ==
  IF stage[t] = "stop" THEN Begin(t, "reset", {"cmd"}, AtRest)
  ELSE /\ pc' = [pc EXCEPT ![t] = IF stage[t] = "drive" THEN "idle" ELSE "closed"]
       /\ UNCHANGED <<stage, todo, arg>>

(* The ioctl, when the driver is free: the frame is exchanged.             *)
Transfer(t) ==
  /\ pc[t] = "ioctl" /\ \A u \in Threads : pc[u] # "refill"
  /\ pc' = [pc EXCEPT ![t] = "refill"]
  /\ dsPIC' = [motor |-> IF "set_motor" \in cmd THEN motor ELSE dsPIC.motor,
               reset |-> "reset" \in cmd]
  /\ frames' = frames + 1 /\ arriving' = 1..RxWords /\ delivered' = TRUE
  /\ UNCHANGED <<frameVars, ir, stage, todo, temp, arg, got, calls>>

(* One of its words arrives in msgRX ...                                   *)
Refill(t) ==
  /\ pc[t] = "refill"
  /\ \E j \in arriving :
       /\ ir' = [ir EXCEPT ![j] = frames]
       /\ arriving' = arriving \ {j}
  /\ UNCHANGED <<frameVars, frames, dsPIC, delivered, pc, stage, todo, temp, arg, got, calls>>

(* ... and with the last of them the ioctl returns.                        *)
Return(t) ==
  /\ pc[t] = "refill" /\ arriving = {}
  /\ Continue(t)
  /\ UNCHANGED <<frameVars, linkVars, temp, got, calls>>

(* The ioctl fails, which nobody hears of, and the words are cleared again.*)
Fail(t) ==
  /\ pc[t] = "ioctl"
  /\ delivered' = FALSE
  /\ ClearRx
  /\ Continue(t)
  /\ UNCHANGED <<frameVars, frames, arriving, dsPIC, temp, got, calls>>

(* closeRobot *)
Close(t) ==
  /\ pc[t] = "idle"
  /\ Begin(t, "stop", Wheels \cup {"cmd"}, AtRest)
  /\ UNCHANGED <<frameVars, linkVars, temp, got, calls>>

-----------------------------------------------------------------------------
(* setLED and get_ir_data. *)

Switched(leds, led, on) == IF on THEN leds \cup {led} ELSE leds \ {led}

CallSetLED(t, led, on) ==
  /\ Call(t)
  /\ pc' = [pc EXCEPT ![t] = "led"]
  /\ arg' = [arg EXCEPT ![t] = [led |-> led, on |-> on]]
  /\ UNCHANGED <<frameVars, linkVars, stage, todo, temp, got>>

(* memcpy(&temp, &(msgTX.led_cmd), 2) ... *)
LoadLed(t) ==
  /\ pc[t] = "led"
  /\ pc' = [pc EXCEPT ![t] = "led_store"]
  /\ temp' = [temp EXCEPT ![t] = led_cmd]
  /\ UNCHANGED <<frameVars, linkVars, stage, todo, arg, got, calls>>

(* ... one bit of temp, and memcpy back. *)
StoreLed(t) ==
  /\ pc[t] = "led_store"
  /\ led_cmd' = Switched(temp[t], arg[t].led, arg[t].on)
  /\ pc' = [pc EXCEPT ![t] = "idle"]
  /\ arg' = [arg EXCEPT ![t] = AtRest] /\ temp' = [temp EXCEPT ![t] = {}]
  /\ UNCHANGED <<cmd, motor, linkVars, stage, todo, got, calls>>

CallGetIr(t) ==
  /\ Call(t)
  /\ pc' = [pc EXCEPT ![t] = "ir"]
  /\ got' = [got EXCEPT ![t] = <<>>]
  /\ UNCHANGED <<frameVars, linkVars, stage, todo, temp, arg>>

(* Faulty: copies from the last word down. *)
CopyIrDown(t) ==
  /\ pc[t] = "ir"
  /\ IF Len(got[t]) < RxWords
     THEN got' = [got EXCEPT ![t] = <<ir[RxWords - Len(got[t])]>> \o @] /\ UNCHANGED pc
     ELSE pc' = [pc EXCEPT ![t] = "idle"] /\ UNCHANGED got
  /\ UNCHANGED <<frameVars, linkVars, stage, todo, temp, arg, calls>>

(* ir[i]=msgRX.ir[i], for i in increasing order. *)
CopyIr(t) ==
  /\ pc[t] = "ir"
  /\ IF Len(got[t]) < RxWords
     THEN got' = [got EXCEPT ![t] = Append(@, ir[Len(@) + 1])] /\ UNCHANGED pc
     ELSE pc' = [pc EXCEPT ![t] = "idle"] /\ UNCHANGED got
  /\ UNCHANGED <<frameVars, linkVars, stage, todo, temp, arg, calls>>

-----------------------------------------------------------------------------
ThreadStep(t) ==
  \/ \E speeds \in [Wheels -> Speeds] : Drive(t, speeds)
  \/ LoadCmd(t) \/ StoreCmd(t) \/ Clear(t) \/ Close(t)
  \/ Transfer(t) \/ Refill(t) \/ Return(t) \/ Fail(t)
  \/ \E w \in Wheels : StoreWheel(t, w)
  \/ \E led \in Leds, on \in BOOLEAN : CallSetLED(t, led, on)
  \/ LoadLed(t) \/ StoreLed(t) \/ CallGetIr(t) \/ CopyIr(t)

AllClosed == \A t \in Threads : pc[t] = "closed"

Ended == AllClosed /\ UNCHANGED vars

Next == Ended \/ \E t \in Threads : ThreadStep(t)

Spec == Init /\ [][Next]_vars

-----------------------------------------------------------------------------
(* A stale store of the command word may undo another thread's bit, but    *)
(* never set_motor: every thread stores it before it stores reset, so the  *)
(* dsPIC obeys the speeds of every frame it is ever sent (the two motor    *)
(* words of a frame without the bit would be ignored).                     *)
FramesObeyed == \A t \in Threads : pc[t] = "ioctl" => "set_motor" \in cmd

(* "Stop robot safely and close down SPI comms" (robot.h:80), with any     *)
(* number of threads in closeRobot at once, each undoing what the others   *)
(* stored: when all of them have returned, the frame holds a stop and a    *)
(* reset, and so does the dsPIC unless the very last transfer failed.      *)
ClosedTogether ==
  AllClosed =>
    /\ cmd = Bits /\ motor = AtRest
    /\ delivered => dsPIC = [motor |-> AtRest, reset |-> TRUE]

(* get_ir_data may return words of several frames, cleared words among     *)
(* them, and even a word of an older frame after one of a newer, when it   *)
(* overtakes the words of an update that are still arriving.  But it falls *)
(* back by one frame at most, however many updates come in between.        *)
IrForward ==
  \A t \in Threads : \A j, k \in 1..Len(got[t]) :
    j < k => got[t][j] - 1 <= got[t][k] \/ (k <= CopyWords /\ got[t][k] = 0)
=============================================================================
