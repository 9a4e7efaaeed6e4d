----------------------------- MODULE MCDevices -----------------------------
(* TLC instance of Devices. *)
EXTENDS Devices, TLC

MCBlinks == {<<"slow", "fast">>, <<"fast", "slow">>}
=============================================================================
