----------------------------- MODULE AtomicClock -----------------------------
(***************************************************************************)
(* What a Lamport clock promises to the threads that share it: between the *)
(* call and the return of every operation there is one instant at which    *)
(* the whole operation happens.  MemClock implements it.                   *)
(***************************************************************************)
EXTENDS Naturals

CONSTANTS Thread,   \* the goroutines that share the clock
          Seen      \* the times they may witness, read in other clones' packs

VARIABLES time,     \* the value of the clock
          phase,    \* phase[t]: "idle", "called" or "done"
          op,       \* op[t]: the operation t is in
          arg,      \* arg[t]: the time t witnesses
          ret       \* ret[t]: what Increment returns to t

vars == <<time, phase, op, arg, ret>>

Init ==
  /\ time = 1
  /\ phase = [t \in Thread |-> "idle"]
  /\ op = [t \in Thread |-> "none"]
  /\ arg = [t \in Thread |-> 0]
  /\ ret = [t \in Thread |-> 0]

CallIncrement(t) ==
  /\ phase[t] = "idle"
  /\ phase' = [phase EXCEPT ![t] = "called"]
  /\ op' = [op EXCEPT ![t] = "increment"]
  /\ UNCHANGED <<time, arg, ret>>

CallWitness(t, v) ==
  /\ phase[t] = "idle"
  /\ phase' = [phase EXCEPT ![t] = "called"]
  /\ op' = [op EXCEPT ![t] = "witness"]
  /\ arg' = [arg EXCEPT ![t] = v]
  /\ UNCHANGED <<time, ret>>

(* The instant of an increment: the caller gets the value it steps past.   *)
Increment(t) ==
  /\ phase[t] = "called" /\ op[t] = "increment"
  /\ time' = time + 1
  /\ ret' = [ret EXCEPT ![t] = time]
  /\ phase' = [phase EXCEPT ![t] = "done"]
  /\ UNCHANGED <<op, arg>>

(* The instant of a witness: afterwards the clock is past the time seen,   *)
(* and it is where it was if it already had been.                          *)
Witness(t) ==
  /\ phase[t] = "called" /\ op[t] = "witness"
  /\ time' = IF arg[t] < time THEN time ELSE arg[t] + 1
  /\ phase' = [phase EXCEPT ![t] = "done"]
  /\ UNCHANGED <<op, arg, ret>>

Return(t) ==
  /\ phase[t] = "done"
  /\ phase' = [phase EXCEPT ![t] = "idle"]
  /\ op' = [op EXCEPT ![t] = "none"]
  /\ arg' = [arg EXCEPT ![t] = 0]
  /\ ret' = [ret EXCEPT ![t] = 0]
  /\ UNCHANGED time

Next ==
  \E t \in Thread :
    \/ CallIncrement(t) \/ Increment(t)
    \/ (\E v \in Seen : CallWitness(t, v)) \/ Witness(t)
    \/ Return(t)

Spec == Init /\ [][Next]_vars
=============================================================================
