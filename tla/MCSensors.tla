----------------------------- MODULE MCSensors -----------------------------
(* TLC instances of Sensors: ranges at the ends of the 12 bits of the IR   *)
(* converters, and between.                                                *)
EXTENDS Sensors

Frame(near, far, n) ==
  [ir |-> [j \in IrIndex |-> IF j \in {0, 1, 2, 3, 6} THEN near ELSE far], acc |-> n, tac |-> n]

MCFrames == {Frame(4095, 4095, 3), Frame(0, 0, 0), Frame(4095, 101, -2)}
=============================================================================
