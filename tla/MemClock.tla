------------------------------ MODULE MemClock ------------------------------
(***************************************************************************)
(* util/lamport/mem_clock.go: the Lamport clock as goroutines share it.    *)
(* An increment is one atomic add.  A witness loads the counter, compares  *)
(* it with the time it was given and swaps the next time in, provided that *)
(* the counter still is what was loaded; otherwise it starts again.        *)
(***************************************************************************)
EXTENDS Naturals

CONSTANTS Thread,   \* the goroutines that share the clock
          Seen,     \* the times they may witness
          MaxTime   \* bound: no increment is called from this time on

ASSUME SeenAssumption == Seen \subseteq Nat

VARIABLES counter,  \* MemClock.counter; 64 bits are never used up
          phase,    \* phase[t]: where t is in its operation
          op,       \* op[t]: that operation
          arg,      \* arg[t]: the time t witnesses
          cur,      \* cur[t]: the value t loaded in Witness
          ret       \* ret[t]: what Increment returns to t

vars == <<counter, phase, op, arg, cur, ret>>

Phases == {"idle", "add", "load", "swap", "done"}

TypeOK ==
  /\ counter \in Nat \ {0}
  /\ phase \in [Thread -> Phases]
  /\ op \in [Thread -> {"none", "increment", "witness"}]
  /\ arg \in [Thread -> Nat]
  /\ cur \in [Thread -> Nat]
  /\ ret \in [Thread -> Nat]

(* Fault: the clock starts at the invalid time.                            *)
InitZero ==
  /\ counter = 0
  /\ phase = [t \in Thread |-> "idle"]
  /\ op = [t \in Thread |-> "none"]
  /\ arg = [t \in Thread |-> 0]
  /\ cur = [t \in Thread |-> 0]
  /\ ret = [t \in Thread |-> 0]

Init ==
  /\ counter = 1
  /\ phase = [t \in Thread |-> "idle"]
  /\ op = [t \in Thread |-> "none"]
  /\ arg = [t \in Thread |-> 0]
  /\ cur = [t \in Thread |-> 0]
  /\ ret = [t \in Thread |-> 0]

(* Thread t moves on. *)
Go(t, p) == phase' = [phase EXCEPT ![t] = p]

CallIncrement(t) ==
  /\ phase[t] = "idle"
  /\ counter < MaxTime
  /\ Go(t, "add")
  /\ op' = [op EXCEPT ![t] = "increment"]
  /\ UNCHANGED <<counter, arg, cur, ret>>

(* Fault: the value after the addition is returned.                        *)
IncrementAfter(t) ==
  /\ phase[t] = "add"
  /\ counter' = counter + 1
  /\ ret' = [ret EXCEPT ![t] = counter + 1]
  /\ Go(t, "done")
  /\ UNCHANGED <<op, arg, cur>>

(* MemClock.Increment *)
Increment(t) ==
  /\ phase[t] = "add"
  /\ counter' = counter + 1
  /\ ret' = [ret EXCEPT ![t] = counter]
  /\ Go(t, "done")
  /\ UNCHANGED <<op, arg, cur>>

CallWitness(t, v) ==
  /\ phase[t] = "idle"
  /\ Go(t, "load")
  /\ op' = [op EXCEPT ![t] = "witness"]
  /\ arg' = [arg EXCEPT ![t] = v]
  /\ UNCHANGED <<counter, cur, ret>>

(* Fault: a time equal to the counter counts as old.                       *)
LoadOrEqual(t) ==
  /\ phase[t] = "load"
  /\ cur' = [cur EXCEPT ![t] = counter]
  /\ Go(t, IF arg[t] <= counter THEN "done" ELSE "swap")
  /\ UNCHANGED <<counter, op, arg, ret>>

(* MemClock.Witness from the label on: an old time needs no swap.          *)
Load(t) ==
  /\ phase[t] = "load"
  /\ cur' = [cur EXCEPT ![t] = counter]
  /\ Go(t, IF arg[t] < counter THEN "done" ELSE "swap")
  /\ UNCHANGED <<counter, op, arg, ret>>

(* Fault: a plain store, the counter may have moved since it was loaded.   *)
Store(t) ==
  /\ phase[t] = "swap"
  /\ counter' = arg[t] + 1 /\ Go(t, "done")
  /\ UNCHANGED <<op, arg, cur, ret>>

(* Fault: a lost swap is tried again with the value loaded before it.      *)
SwapAgain(t) ==
  /\ phase[t] = "swap"
  /\ IF counter = cur[t]
     THEN counter' = arg[t] + 1 /\ Go(t, "done")
     ELSE UNCHANGED <<counter, phase>>
  /\ UNCHANGED <<op, arg, cur, ret>>

(* The compare-and-swap.                                                   *)
Swap(t) ==
  /\ phase[t] = "swap"
  /\ IF counter = cur[t]
     THEN counter' = arg[t] + 1 /\ Go(t, "done")
     ELSE counter' = counter /\ Go(t, "load")
  /\ UNCHANGED <<op, arg, cur, ret>>

(* The variables of a call end with it.                                    *)
Return(t) ==
  /\ phase[t] = "done"
  /\ Go(t, "idle")
  /\ op' = [op EXCEPT ![t] = "none"]
  /\ arg' = [arg EXCEPT ![t] = 0]
  /\ cur' = [cur EXCEPT ![t] = 0]
  /\ ret' = [ret EXCEPT ![t] = 0]
  /\ UNCHANGED counter

(* What t does without being called again.                                 *)
Step(t) == Increment(t) \/ Load(t) \/ Swap(t) \/ Return(t)

Next ==
  \E t \in Thread :
    Step(t) \/ CallIncrement(t) \/ (\E v \in Seen : CallWitness(t, v))

Spec == Init /\ [][Next]_vars

(* The Go scheduler lets every goroutine that can run go on.               *)
FairSpec == Spec /\ \A t \in Thread : WF_vars(Step(t))

-----------------------------------------------------------------------------
(* mem_clock.go calls the clock thread safe.  That is: every operation     *)
(* takes effect at one instant between its call and its return, the loop   *)
(* of Witness too.                                                         *)
AbstractPhase ==
  [t \in Thread |->
     IF phase[t] \in {"idle", "done"} THEN phase[t] ELSE "called"]

Abstract == INSTANCE AtomicClock WITH time <- counter, phase <- AbstractPhase

Linearizable == Abstract!Spec

(* Times handed out are never handed out again and never behind the clock: *)
(* two increments that have both returned got different times, and a       *)
(* witness that has returned left the clock past what it was given.        *)
TimesAreFresh ==
  \A t \in Thread : phase[t] = "done" =>
    /\ op[t] = "witness" => arg[t] < counter
    /\ op[t] = "increment" =>
         /\ ret[t] < counter
         /\ \A u \in Thread \ {t} :
              phase[u] = "done" /\ op[u] = "increment" => ret[t] # ret[u]

(* The comment in Witness: "Eventually our CAS should succeed or a future  *)
(* witness will pass us by and our witness will end."                      *)
WitnessEnds == \A t \in Thread : phase[t] = "swap" ~> phase[t] = "done"
=============================================================================
