---------------------------- MODULE MCSwigTypes ----------------------------
(* Two more SWIG modules that know the robot and further types; only one   *)
(* of them declares that a khepera is a robot.                             *)
EXTENDS SwigTypes

MCOtherTypes ==
  [Sim   |-> <<"_p_epuck", "_p_khepera", "_p_robot">>,
   Swarm |-> <<"_p_epuck", "_p_khepera", "_p_robot", "_p_void">>]

MCOtherCasts ==
  [Sim   |-> [_p_epuck |-> <<"_p_epuck">>, _p_khepera |-> <<"_p_khepera">>,
              _p_robot |-> <<"_p_robot", "_p_epuck">>],
   Swarm |-> [_p_epuck |-> <<"_p_epuck">>, _p_khepera |-> <<"_p_khepera">>,
              _p_robot |-> <<"_p_khepera", "_p_robot", "_p_epuck">>, _p_void |-> <<"_p_void">>]]

(* Around zero; digits that are octal and that are not; the bounds of int, *)
(* of long and of unsigned long, in decimal and in octal.                  *)
MCQuarters ==
  -6..6 \cup {4 * n : n \in {-21, -20, -17, -16, 7, 8, 9, 10, 15, 16, 17, 18, 19, 20, 21, 23, 24, 39}}
    \cup {-81, -79, 62, 77, 81}
=============================================================================
