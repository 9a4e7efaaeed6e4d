------------------------------ MODULE Spicomm ------------------------------
(***************************************************************************)
(* spicomm.c: the frame msgTX that the Linux board sends to the e-puck's   *)
(* dsPIC over SPI, and the dsPIC as far as src/ uses it.                   *)
(*                                                                         *)
(* msgTX is one global that every thread (and the termination handler)     *)
(* fills without a lock.  setSpeed stores the two motor words one at a     *)
(* time, so its stores are an operator per wheel: the caller's module      *)
(* interleaves them.  Nothing ever clears msgTX.cmd again                  *)
(* (spicomm.c:116), so set_motor and reset stay set once they were set.    *)
(*                                                                         *)
(* The words that no property here tells apart (LED ring, blink rate,      *)
(* padding) are left out.                                                  *)
(***************************************************************************)
EXTENDS Integers

CONSTANTS
  Speeds,      (* wheel speeds a controller asks for                        *)
  SpiMayFail   (* may the SPI ioctl fail once the device is open?           *)

ASSUME SpeedsAssumption == Speeds \subseteq Int /\ 0 \in Speeds
ASSUME SpiMayFailAssumption == SpiMayFail \in BOOLEAN

VARIABLES
  msgTX,       (* the frame under construction: command bits and two speeds *)
  spi,         (* is the SPI device open (init_spi returned)?               *)
  dsPIC        (* what the dsPIC was last told: wheel speeds, reset bit     *)

spiVars == <<msgTX, spi, dsPIC>>

Wheel == {"left", "right"}

AtRest == [w \in Wheel |-> 0]

SpiTypeOK ==
  /\ msgTX \in [set_motor : BOOLEAN, reset : BOOLEAN, motor : [Wheel -> Speeds]]
  /\ spi \in BOOLEAN
  /\ dsPIC \in [motor : [Wheel -> Speeds], reset : BOOLEAN]

(* Both globals start zeroed; the dsPIC powers up with its motors at rest. *)
SpiInit ==
  /\ msgTX = [set_motor |-> FALSE, reset |-> FALSE, motor |-> AtRest]
  /\ spi = FALSE
  /\ dsPIC = [motor |-> AtRest, reset |-> FALSE]

(* init_spi either returns an open descriptor or aborts the process: its   *)
(* callers never see the -1 they test for.                                 *)
init_spi ==
  /\ spi' = TRUE
  /\ UNCHANGED <<msgTX, dsPIC>>

(* One of the two motor stores of setSpeed. *)
setSpeed(w, value) ==
  /\ msgTX' = [set_motor |-> TRUE, reset |-> msgTX.reset,
               motor |-> [msgTX.motor EXCEPT ![w] = value]]
  /\ UNCHANGED <<spi, dsPIC>>

(* The dsPIC obeys the speeds of a frame only if its set_motor bit is set. *)
Deliver ==
  dsPIC' = [motor |-> IF msgTX.set_motor THEN msgTX.motor ELSE dsPIC.motor,
            reset |-> msgTX.reset]

(* update/do_msg: one transfer.  Before init_spi the descriptor is 0 and   *)
(* the ioctl always fails; a failure is printed and otherwise ignored.     *)
update ==
  /\ \/ spi /\ Deliver
     \/ (~spi \/ SpiMayFail) /\ UNCHANGED dsPIC
  /\ UNCHANGED <<msgTX, spi>>

(* The store of reset_robot, which then calls update. *)
reset_robot ==
  /\ msgTX' = [msgTX EXCEPT !.reset = TRUE]
  /\ UNCHANGED <<spi, dsPIC>>
=============================================================================
