----------------------------- MODULE MCMemClock -----------------------------
(***************************************************************************)
(* MemClock on a small instance, and the faults its properties rule out.   *)
(***************************************************************************)
EXTENDS MemClock, TLC

Threads == Permutations(Thread)
=============================================================================
