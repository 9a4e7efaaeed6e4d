------------------------------ MODULE MCRwalk ------------------------------
(* TLC instances of Rwalk: the speeds that the walk stores. *)
EXTENDS Rwalk

MCSpeeds == {Speed, -Speed, 0}
=============================================================================
