------------------------------ MODULE Devices ------------------------------
(***************************************************************************)
(* Threads that call support.c and gps_client.c in any order, sharing the  *)
(* descriptor table, the LEDs and the GPS port.                            *)
(***************************************************************************)
EXTENDS Support, GpsClient

vars == <<fdVars, callVars, crashed, leds, gpsVars>>

Init == DescriptorInit /\ SupportInit /\ GpsInit

ThreadStep(t) ==
  \/ SupportStep(t) /\ UNCHANGED gpsVars
  \/ GpsStep(t) /\ UNCHANGED leds

Press(code) == Event(code) /\ UNCHANGED gpsVars
Send(d) == SendPosition(d) /\ UNCHANGED leds

Crashed == crashed /\ UNCHANGED vars

Next ==
  \/ \E t \in Threads : ThreadStep(t)
  \/ \E code \in Codes : Press(code)
  \/ \E d \in Datagrams : Send(d)
  \/ Crashed

Spec == Init /\ [][Next]_vars

Receives(t) == (Receive(t) \/ Match(t)) /\ UNCHANGED leds
Tracks(id) == Send([id |-> id, extent |-> "id"]) /\ Len(inbox) < Backlog

(* A thread that receives is scheduled, and its recvfrom does not fail for *)
(* ever while there is a datagram (a failure is a stuttering step); the    *)
(* tracker goes on sending positions with an id of every robot, not all of *)
(* which are lost to a full socket.                                        *)
FairSpec ==
  /\ Spec
  /\ \A t \in Threads : WF_vars(Receives(t))
  /\ \A id \in Ids : SF_vars(Tracks(id))

-----------------------------------------------------------------------------
Places == {"idle", "read_switch", "write_led", "write_on", "open_off", "write_off",
           "read_event", "scan_beyond", "bind", "recv", "match"}

FileAt(place) ==
  CASE place = "read_switch" -> "switch"
    [] place = "write_led" -> "brightness"
    [] place = "write_on" -> "delay_on"
    [] place = "write_off" -> "delay_off"
    [] place \in {"read_event", "scan_beyond"} -> "event0"
    [] place \in {"bind", "recv", "match"} -> "socket"
    [] OTHER -> "none"

TypeOK ==
  /\ table \in [Fds -> Files \cup {"free"}] /\ leaked \subseteq Fds
  /\ fd \in [Threads -> Fds \cup {NoFd}]
  /\ pc \in [Threads -> Places]
  /\ result \in [Threads -> {Nothing, -1, 0, 1, 99} \cup Positions]
  /\ leds \in [UserLeds -> [brightness : {0, 255}, delay_on : Delays, delay_off : Delays]]
  /\ \A t \in Threads : call[t].fn = "getGPS" => call[t].pos \in Ids \cup {Unknown}
  /\ port \in Fds \cup {NoFd} /\ Len(inbox) <= Backlog
  /\ crashed \in BOOLEAN

(* Descriptors are reused as soon as they are closed, so a stale one would *)
(* reach another thread's file: a thread in the middle of a call has its   *)
(* own descriptor, open on the file it means to read or write, and the GPS *)
(* port belongs to the one thread that receives on it.                     *)
OwnDescriptor ==
  /\ \A t \in Threads :
       IF FileAt(pc[t]) = "none" THEN fd[t] = NoFd
       ELSE fd[t] # NoFd /\ table[fd[t]] = FileAt(pc[t])
  /\ \A t, u \in Threads : t # u /\ fd[t] # NoFd => fd[t] # fd[u]
  /\ \A t \in Threads : pc[t] \in {"recv", "match"} <=> (fd[t] # NoFd /\ port = fd[t])

(* Every open descriptor is in use by a call, or was left open by one of   *)
(* the three error returns that forget it (a short read of the selector    *)
(* or the button, a bind that fails): no other return leaks.               *)
DescriptorsAccounted ==
  /\ {d \in Fds : table[d] # "free"} = leaked \cup {fd[t] : t \in {u \in Threads : fd[u] # NoFd}}
  /\ \A t \in Threads : fd[t] \notin leaked

(* What a step in which a blink_board_led that no other one on the LED     *)
(* overlapped returns shows.                                               *)
HalvesWritten ==
  \A t \in Threads :
    call[t].fn = "blink_board_led" /\ call'[t] = NoCall /\ call[t].found # "met" =>
      LET led == leds'[call[t].led_no] IN
        IF result'[t] = 1
        THEN led.delay_on = call[t].delay_on /\ led.delay_off = call[t].delay_off
        ELSE led.delay_off = call[t].found

(* A blink_board_led that no other one on the LED overlapped has set both  *)
(* delays when it returns 1; when it returns 0 half way, the LED keeps     *)
(* its old delay_off (with, perhaps, the new delay_on).                    *)
BlinkInHalves == [][HalvesWritten]_vars

(* However many datagrams of other robots, or too short for an id, it is   *)
(* sent first, and however often recvfrom fails meanwhile, getGPS returns  *)
(* and gives back the port.                                                *)
GpsReturns == \A t \in Threads : pc[t] = "recv" ~> (pc[t] \notin {"recv", "match"} \/ crashed)
=============================================================================
