--------------------------- MODULE MCMotionShell ---------------------------
(* TLC instances of MotionShell: a straight motion and a longer turn.      *)
EXTENDS MotionShell

MCSpeeds == -32768..32767

Ahead == [speed |-> 600, turnrate |-> 0, duration |-> 1]
Turn  == [speed |-> 0, turnrate |-> -100, duration |-> 2]

Motions == {Ahead, Turn}
LongTurn == {Turn}
=============================================================================
