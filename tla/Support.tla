------------------------------ MODULE Support ------------------------------
(***************************************************************************)
(* support.c: the selector, the user LEDs and the button of the Linux      *)
(* board, called by any threads.  The calls on one LED are not serialised  *)
(* and blink_board_led configures it in two halves.                        *)
(***************************************************************************)
EXTENDS Descriptors

CONSTANTS
  LedNos,      (* the led_no that calls are made with                       *)
  Delays,      (* of a blinking LED                                         *)
  Blinks,      (* the pairs of them blink_board_led is asked for            *)
  Positions,   (* of the selector                                           *)
  Buttons,     (* the codes that wait_btn_trigger is called with            *)
  OtherCodes   (* codes of other events                                     *)

ASSUME SupportAssumption == Blinks \subseteq Delays \X Delays

UserLeds == 0..3
Codes == Buttons \cup OtherCodes

VARIABLE leds \* the attributes of the user LEDs

(* Kept with the local variables of a call in progress: of blink_board_led *)
(* (history) the delay_off it found, or "met" if another thread's call on  *)
(* the LED overlapped it; of wait_btn_trigger the events that wait at its  *)
(* event0.                                                                 *)

SupportInit ==
  \E d \in Delays :
    leds = [l \in UserLeds |-> [brightness |-> 0, delay_on |-> d, delay_off |-> d]]

-----------------------------------------------------------------------------
GetSwitch(t) ==
  /\ At(t, "idle")
  /\ OpenOr(t, "switch", "read_switch", [fn |-> "get_switch"], 99)
  /\ UNCHANGED <<leds, crashed>>

(* Faulty: forgets the descriptor on the way to a result too. *)
ReadSwitchOpen(t) ==
  /\ At(t, "read_switch")
  /\ fd' = [fd EXCEPT ![t] = NoFd] /\ UNCHANGED <<table, leaked>>
  /\ \E position \in Positions : Return(t, position)
  /\ UNCHANGED <<leds, crashed>>

(* A short read returns with the descriptor open.                          *)
ReadSwitch(t) ==
  /\ At(t, "read_switch")
  /\ \/ Closed(t) /\ \E position \in Positions : Return(t, position)
     \/ Leaked(t) /\ Return(t, 99)
  /\ UNCHANGED <<leds, crashed>>

-----------------------------------------------------------------------------
SetBoardLed(t, led_no, on) ==
  /\ At(t, "idle")
  /\ IF led_no \in UserLeds
     THEN OpenOr(t, "brightness", "write_led",
                 [fn |-> "set_board_led", led_no |-> led_no, on |-> on], 0)
     ELSE UNCHANGED fdVars /\ Return(t, 0)
  /\ UNCHANGED <<leds, crashed>>

(* The write to an attribute and the close that follows it either way.     *)
Write(t, attribute, value) ==
  /\ leds' = [leds EXCEPT ![call[t].led_no][attribute] = value]
  /\ Closed(t)

WriteFails(t) == Closed(t) /\ Return(t, 0) /\ UNCHANGED leds

(* Faulty: writes on itself. *)
WriteLedOn(t) ==
  /\ At(t, "write_led")
  /\ \/ Write(t, "brightness", call[t].on) /\ Return(t, 1)
     \/ WriteFails(t)
  /\ UNCHANGED crashed

WriteLed(t) ==
  /\ At(t, "write_led")
  /\ \/ Write(t, "brightness", 255 * call[t].on) /\ Return(t, 1)
     \/ WriteFails(t)
  /\ UNCHANGED crashed

Blinking(t, led_no) == call[t].fn = "blink_board_led" /\ call[t].led_no = led_no

(* Both calls of an overlap hear of it. *)
BeginBlink(t, led_no, delay_on, delay_off) ==
  LET others == {u \in Threads : Blinking(u, led_no)} IN
    /\ Opened(t, "delay_on")
    /\ pc' = [pc EXCEPT ![t] = "write_on"]
    /\ call' = [u \in Threads |->
         IF u = t THEN [fn |-> "blink_board_led", led_no |-> led_no,
                        delay_on |-> delay_on, delay_off |-> delay_off,
                        found |-> IF others = {} THEN leds[led_no].delay_off ELSE "met"]
         ELSE IF u \in others THEN [call[u] EXCEPT !.found = "met"] ELSE call[u]]
    /\ result' = [result EXCEPT ![t] = Nothing]

BlinkBoardLed(t, led_no, delay_on, delay_off) ==
  /\ At(t, "idle")
  /\ \/ led_no \in UserLeds /\ BeginBlink(t, led_no, delay_on, delay_off)
     \/ UNCHANGED fdVars /\ Return(t, 0)
  /\ UNCHANGED <<leds, crashed>>

(* Faulty: keeps the descriptor that it has closed for the second half. *)
WriteOnReused(t) ==
  /\ At(t, "write_on")
  /\ \/ /\ leds' = [leds EXCEPT ![call[t].led_no].delay_on = call[t].delay_on]
        /\ table' = [table EXCEPT ![fd[t]] = "free"]
        /\ UNCHANGED <<fd, leaked>>
        /\ Go(t, "write_off", call[t])
     \/ WriteFails(t)
  /\ UNCHANGED crashed

WriteOn(t) ==
  /\ At(t, "write_on")
  /\ \/ Write(t, "delay_on", call[t].delay_on) /\ Go(t, "open_off", call[t])
     \/ WriteFails(t)
  /\ UNCHANGED crashed

OpenOff(t) ==
  /\ At(t, "open_off")
  /\ OpenOr(t, "delay_off", "write_off", call[t], 0)
  /\ UNCHANGED <<leds, crashed>>

(* Faulty: writes the first delay into the second half. *)
WriteOffOn(t) ==
  /\ At(t, "write_off")
  /\ \/ Write(t, "delay_off", call[t].delay_on) /\ Return(t, 1)
     \/ WriteFails(t)
  /\ UNCHANGED crashed

WriteOff(t) ==
  /\ At(t, "write_off")
  /\ \/ Write(t, "delay_off", call[t].delay_off) /\ Return(t, 1)
     \/ WriteFails(t)
  /\ UNCHANGED crashed

-----------------------------------------------------------------------------
(* The keyboard driver queues an event for every open event0.              *)
Event(code) ==
  /\ ~crashed
  /\ call' = [t \in Threads |->
       IF pc[t] = "read_event"
       THEN [call[t] EXCEPT !.events = @ \cup {code}] ELSE call[t]]
  /\ UNCHANGED <<fdVars, pc, result, leds, crashed>>

WaitBtnTrigger(t, code) ==
  /\ At(t, "idle")
  /\ OpenOr(t, "event0", "read_event",
            [fn |-> "wait_btn_trigger", code |-> code, events |-> {}], -1)
  /\ UNCHANGED <<leds, crashed>>

(* read waits for events, and all that wait are looked at; the value of an *)
(* event is not, so a key that is released triggers like one that is       *)
(* pressed.                                                                *)
ReadEvent(t) ==
  /\ At(t, "read_event") /\ call[t].events # {}
  /\ IF call[t].code \in call[t].events
     THEN Closed(t) /\ Return(t, 1)
     ELSE UNCHANGED fdVars /\ Go(t, "read_event", [call[t] EXCEPT !.events = {}])
  /\ UNCHANGED <<leds, crashed>>

(* A short read returns with the descriptor open.                          *)
ShortRead(t) ==
  /\ At(t, "read_event")
  /\ Leaked(t) /\ Return(t, -1)
  /\ UNCHANGED <<leds, crashed>>

(* rb is a size_t: the -1 of a read that fails is the largest value there  *)
(* is and not less than the size of an event ...                           *)
FailedRead(t) ==
  /\ At(t, "read_event")
  /\ UNCHANGED fdVars /\ Go(t, "scan_beyond", [call[t] EXCEPT !.events = {}])
  /\ UNCHANGED <<leds, crashed>>

(* ... so the loop takes the whole memory above ev for events (undefined   *)
(* behaviour): it finds one that looks like the button's or runs into      *)
(* memory that is not mapped.                                              *)
ScanBeyond(t) ==
  /\ At(t, "scan_beyond")
  /\ \/ Closed(t) /\ Return(t, 1) /\ UNCHANGED crashed
     \/ crashed' = TRUE /\ UNCHANGED <<fdVars, callVars>>
  /\ UNCHANGED leds

-----------------------------------------------------------------------------
SupportStep(t) ==
  \/ GetSwitch(t) \/ ReadSwitch(t)
  \/ \E led_no \in LedNos, on \in {0, 1} : SetBoardLed(t, led_no, on)
  \/ \E led_no \in LedNos, d \in Blinks : BlinkBoardLed(t, led_no, d[1], d[2])
  \/ WriteLed(t) \/ WriteOn(t) \/ OpenOff(t) \/ WriteOff(t)
  \/ \E code \in Buttons : WaitBtnTrigger(t, code)
  \/ ReadEvent(t) \/ ShortRead(t) \/ FailedRead(t) \/ ScanBeyond(t)
=============================================================================
