---------------------------- MODULE MotionQueue ----------------------------
(***************************************************************************)
(* What the command shell of main.c offers its operator.  Motions wait in  *)
(* the order they were accepted.  Each becomes the current motion once,    *)
(* when the one before it has been sent to the wheels and has lasted its   *)
(* ticks, is sent once, and lasts its own ticks before the next, or the    *)
(* end.  The last place of a full queue is not safe: the motion there may  *)
(* lose fields until another one starts.                                   *)
(***************************************************************************)
EXTENDS Integers, Sequences

CONSTANTS
  Motions,     (* the motions the operator asks for                         *)
  Capacity,    (* the motions that may wait                                 *)
  Rest,        (* the speeds of wheels at rest                              *)
  Drive(_),    (* the wheel speeds of a motion                              *)
  MayFail      (* may what is sent to the wheels be lost?                   *)

VARIABLES
  waiting,     (* the motions accepted and not begun                        *)
  current,     (* the motion begun last                                     *)
  sent,        (* has it been sent to the wheels?                           *)
  left,        (* the ticks it has still to last                            *)
  wheels       (* the speeds the wheels were last told                      *)

queueVars == <<waiting, current, sent, left, wheels>>

Motion == [speed : Int, turnrate : Int, duration : Int]
Blank == [speed |-> 0, turnrate |-> 0, duration |-> 0]
Length(m) == IF m.duration > 0 THEN m.duration ELSE 0

(* m without the fields in lost. *)
Zeroed(m, lost) ==
  [speed    |-> IF "speed" \in lost THEN 0 ELSE m.speed,
   turnrate |-> IF "turnrate" \in lost THEN 0 ELSE m.turnrate,
   duration |-> IF "duration" \in lost THEN 0 ELSE m.duration]

(* The wheels are told v, or nothing if the transfer fails. *)
Tell(v) == wheels' = v \/ (MayFail /\ wheels' = wheels)

QueueInit == waiting = <<>> /\ current = Blank /\ ~sent /\ left = 0 /\ wheels = Rest

(* A motion is accepted as it was asked for, unless it takes the last place. *)
Accept ==
  /\ Len(waiting) < Capacity
  /\ \E m \in Motions, lost \in SUBSET DOMAIN Blank :
       /\ lost # {} => Len(waiting) + 1 = Capacity
       /\ waiting' = Append(waiting, Zeroed(m, lost))
  /\ UNCHANGED <<current, sent, left, wheels>>

(* The motion in the last place of a full queue loses fields. *)
Lose ==
  /\ Len(waiting) = Capacity
  /\ \E lost \in SUBSET DOMAIN Blank :
       waiting' = [waiting EXCEPT ![Capacity] = Zeroed(@, lost)]
  /\ UNCHANGED <<current, sent, left, wheels>>

Advance ==
  /\ waiting # <<>> /\ sent /\ left = 0
  /\ current' = Head(waiting)
  /\ waiting' = Tail(waiting)
  /\ sent' = FALSE
  /\ left' = Length(Head(waiting))
  /\ UNCHANGED wheels

Run ==
  /\ ~sent /\ sent' = TRUE
  /\ Tell(Drive(current))
  /\ UNCHANGED <<waiting, current, left>>

(* A tick of the current motion. *)
Pass ==
  /\ sent /\ left > 0
  /\ left' = left - 1
  /\ UNCHANGED <<waiting, current, sent, wheels>>

(* The current motion, over, begins to last again when none waits: the one *)
(* a reset has left behind of a robot that is at rest.                     *)
Linger ==
  /\ waiting = <<>> /\ sent /\ left = 0
  /\ left' = Length(current)
  /\ UNCHANGED <<waiting, current, sent, wheels>>

(* The end of the last motion, or of the shell. *)
Stop ==
  /\ sent /\ left = 0
  /\ Tell(Rest)
  /\ current' = Blank
  /\ UNCHANGED <<waiting, sent, left>>

(* The operator's reset; it says nothing of the current motion. *)
Clear ==
  /\ waiting' = <<>>
  /\ current' \in Motion /\ left' \in Nat
  /\ UNCHANGED <<sent, wheels>>

(* The operator's ctrl+c. *)
Abandon ==
  /\ waiting' = <<>> /\ current' = Blank /\ sent' = TRUE /\ left' = 0
  /\ UNCHANGED wheels

QueueNext ==
  Accept \/ Lose \/ Advance \/ Run \/ Pass \/ Linger \/ Stop \/ Clear \/ Abandon

QueueSpec == QueueInit /\ [][QueueNext]_queueVars
=============================================================================
