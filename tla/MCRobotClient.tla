--------------------------- MODULE MCRobotClient ---------------------------
(* TLC instances of RobotClient. *)
EXTENDS RobotClient

MCSpeeds == {-600, 0, 600}
=============================================================================
