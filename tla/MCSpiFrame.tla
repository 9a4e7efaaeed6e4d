----------------------------- MODULE MCSpiFrame -----------------------------
(* TLC instance of SpiFrame: two threads, which make the calls of either.  *)
EXTENDS SpiFrame, TLC

CONSTANTS main, update_thread

MCThreads == {main, update_thread}
MCSymmetry == Permutations(MCThreads)
=============================================================================
