--------------------------- MODULE MemClockProofs ---------------------------
(***************************************************************************)
(* The Lamport clock for any number of goroutines and any times: the loop  *)
(* of Witness is as good as one atomic step.                               *)
(***************************************************************************)
EXTENDS MemClock, TLAPS

(* A thread is inside the operation it called, and a witness about to swap *)
(* had loaded a value that its time is not behind.                         *)
InOperation ==
  \A t \in Thread :
    /\ phase[t] = "add" => op[t] = "increment"
    /\ phase[t] \in {"load", "swap"} => op[t] = "witness"
    /\ phase[t] = "swap" => cur[t] <= arg[t]

Inv == TypeOK /\ InOperation /\ TimesAreFresh

LEMMA InvInit == Init => Inv
BY DEF Init, Inv, TypeOK, InOperation, TimesAreFresh, Phases

LEMMA InvStep == Inv /\ [Next]_vars => Inv'
<1> SUFFICES ASSUME Inv, [Next]_vars
             PROVE  Inv'
  OBVIOUS
<1> USE SeenAssumption DEF Inv, TypeOK, Phases, Go
<1>1. ASSUME NEW t \in Thread, CallIncrement(t)
      PROVE  Inv'
  BY <1>1 DEF CallIncrement, InOperation, TimesAreFresh
<1>2. ASSUME NEW t \in Thread, NEW v \in Seen, CallWitness(t, v)
      PROVE  Inv'
  BY <1>2 DEF CallWitness, InOperation, TimesAreFresh
<1>3. ASSUME NEW t \in Thread, Increment(t)
      PROVE  Inv'
  BY <1>3 DEF Increment, InOperation, TimesAreFresh
<1>4. ASSUME NEW t \in Thread, Load(t)
      PROVE  Inv'
  BY <1>4 DEF Load, InOperation, TimesAreFresh
<1>5. ASSUME NEW t \in Thread, Swap(t)
      PROVE  Inv'
  BY <1>5 DEF Swap, InOperation, TimesAreFresh
<1>6. ASSUME NEW t \in Thread, Return(t)
      PROVE  Inv'
  BY <1>6 DEF Return, InOperation, TimesAreFresh
<1>7. CASE UNCHANGED vars
  BY <1>7 DEF vars, InOperation, TimesAreFresh
<1>8. QED
  BY <1>1, <1>2, <1>3, <1>4, <1>5, <1>6, <1>7 DEF Next, Step

(* The inductive invariant holds. *)
THEOREM InvAlways == Spec => []Inv
BY InvInit, InvStep, PTL DEF Spec

(* Type correctness, for any number of threads: in particular the clock    *)
(* never goes back to 0, which stands for no time.                         *)
THEOREM TypeCorrect == Spec => []TypeOK
<1>1. Inv => TypeOK
  BY DEF Inv
<1>2. QED
  BY InvAlways, <1>1, PTL

(* Times handed out are fresh and a witness leaves the clock past what it  *)
(* saw, for any number of threads.                                         *)
THEOREM FreshTimes == Spec => []TimesAreFresh
<1>1. Inv => TimesAreFresh
  BY DEF Inv
<1>2. QED
  BY InvAlways, <1>1, PTL

(* The clock implements the atomic one.                                    *)
LEMMA AtomicStep == Inv /\ [Next]_vars => [Abstract!Next]_(Abstract!vars)
<1> SUFFICES ASSUME Inv, [Next]_vars
             PROVE  Abstract!Next \/ UNCHANGED Abstract!vars
  BY DEF Abstract!Next, Abstract!vars
<1> USE DEF Inv, TypeOK, InOperation, Phases, Go, AbstractPhase
<1>1. ASSUME NEW t \in Thread, CallIncrement(t)
      PROVE  Abstract!CallIncrement(t)
  BY <1>1 DEF CallIncrement, Abstract!CallIncrement
<1>2. ASSUME NEW t \in Thread, NEW v \in Seen, CallWitness(t, v)
      PROVE  Abstract!CallWitness(t, v)
  BY <1>2 DEF CallWitness, Abstract!CallWitness
<1>3. ASSUME NEW t \in Thread, Increment(t)
      PROVE  Abstract!Increment(t)
  BY <1>3 DEF Increment, Abstract!Increment
<1>4. ASSUME NEW t \in Thread, Load(t)
      PROVE  Abstract!Witness(t) \/ UNCHANGED Abstract!vars
  BY <1>4 DEF Load, Abstract!Witness, Abstract!vars
<1>5. ASSUME NEW t \in Thread, Swap(t)
      PROVE  Abstract!Witness(t) \/ UNCHANGED Abstract!vars
  <2>1. CASE counter = cur[t]
    <3>1. ~(arg[t] < counter)
      BY <1>5, <2>1 DEF Swap
    <3>2. QED
      BY <1>5, <2>1, <3>1 DEF Swap, Abstract!Witness
  <2>2. CASE counter # cur[t]
    BY <1>5, <2>2 DEF Swap, Abstract!vars
  <2>3. QED
    BY <2>1, <2>2
<1>6. ASSUME NEW t \in Thread, Return(t)
      PROVE  Abstract!Return(t)
  BY <1>6 DEF Return, Abstract!Return
<1>7. CASE UNCHANGED vars
  BY <1>7 DEF vars, Abstract!vars
<1>8. QED
  BY <1>1, <1>2, <1>3, <1>4, <1>5, <1>6, <1>7 DEF Next, Step, Abstract!Next

THEOREM ImplementsAtomicClock == Spec => Linearizable
<1>1. Init => Abstract!Init
  BY DEF Init, Abstract!Init, AbstractPhase
<1>2. QED
  BY <1>1, AtomicStep, InvAlways, PTL DEF Spec, Linearizable, Abstract!Spec
=============================================================================
