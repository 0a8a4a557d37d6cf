-------------------------- MODULE RepoSessionProofs --------------------------
(***************************************************************************)
(* The lock file and the create clock of a clone, for any sessions and     *)
(* processes, any number of crashes and any tickets.                       *)
(***************************************************************************)
EXTENDS RepoSession, TLAPS

(* What the two invariants take for granted about the state.               *)
Shape ==
  /\ lock \in [file : Nat, pid : Pid \cup {None}]
  /\ pc \in [Session -> Places]
  /\ handle \in [Session -> Nat]
  /\ files \in Nat

(* Sessions are open in living processes only.                             *)
LivingOpen == \A s \in Session : pc[s] \in Inside => PidOf[s] \in alive

(* Without a race one session at most is past the check, and the lock file *)
(* says how far it has come.                                               *)
OneInside == \A s, u \in Session : pc[s] \in Inside /\ pc[u] \in Inside => s = u

LockAgrees ==
  \A s \in Session :
    /\ pc[s] = "create" => ~Exists
    /\ pc[s] = "write" =>
         Exists /\ lock.file = handle[s] /\ lock.pid = None
    /\ pc[s] \in Working => Exists /\ lock.pid = PidOf[s]

LockInv == Shape /\ LivingOpen /\ (~raced => OneInside /\ LockAgrees)

LEMMA LockInvInit == Init => LockInv
BY DEF Init, LockInv, Shape, LivingOpen, OneInside, LockAgrees, Places,
       Inside, Opening, Working, Loading, NoFile

(* A step outside that does not touch the lock.                            *)
LEMMA OutsideStep ==
    ASSUME LockInv, NEW s \in Session, NEW p,
           pc[s] \notin Inside, p \in Places \ Inside,
           pc' = [pc EXCEPT ![s] = p],
           UNCHANGED <<alive, lock, files, handle, raced>>
    PROVE  LockInv'
BY DEF LockInv, Shape, LivingOpen, OneInside, LockAgrees, Inside, Opening,
       Working, Exists

(* A session stops: its lock file stays, or is removed by name.            *)
LEMMA StopStep ==
    ASSUME LockInv, NEW s \in Session, Forget({s}),
           UNCHANGED <<files, handle, raced>>,
           alive' = alive \/ (pc[s] \in Inside /\ alive' = alive \ {PidOf[s]}
                              /\ PidOf[s] \notin Server),
           lock' = lock \/ (pc[s] \in Inside /\ lock' = NoFile)
    PROVE  LockInv'
<1>1. /\ pc' \in [Session -> Places] /\ pc'[s] = "end"
      /\ \A u \in Session \ {s} : pc'[u] = pc[u]
  BY DEF Forget, LockInv, Shape, Places
<1>2. lock' \in [file : Nat, pid : Pid \cup {None}]
  BY DEF LockInv, Shape, NoFile
<1>3. LivingOpen'
  BY <1>1, PidAssumption
     DEF LockInv, LivingOpen, Inside, Opening, Working
<1>4. ASSUME ~raced
      PROVE  OneInside' /\ LockAgrees'
  <2>1. OneInside /\ LockAgrees
    BY <1>4 DEF LockInv
  <2>2. OneInside'
    BY <1>1, <2>1 DEF OneInside, Inside, Opening, Working
  <2>3. ASSUME pc[s] \in Inside
        PROVE  \A u \in Session \ {s} : pc[u] \notin Inside
    BY <2>1, <2>3 DEF OneInside
  <2>4. LockAgrees'
    BY <1>1, <2>1, <2>3
       DEF LockAgrees, Inside, Opening, Working, Exists
  <2>5. QED
    BY <2>2, <2>4
<1>5. QED
  BY <1>1, <1>2, <1>3, <1>4 DEF LockInv, Shape

LEMMA LoadingStep ==
    ASSUME LockInv, NEW s \in Session, LoadClocks(s)
    PROVE  LockInv'
<1> USE DEF At, Goto, SetClock, lockVars, clocks, memory, ghosts
<1>1. ASSUME NEW p \in {"load", "fillFirst", "fillRead", "editRead", "fillLoad", "check"},
             pc[s] \in Loading, pc' = [pc EXCEPT ![s] = p],
             UNCHANGED <<alive, lock, files, handle, raced>>
      PROVE  LockInv'
  <2>1. pc[s] \notin Inside /\ p \in Places \ Inside
    BY <1>1 DEF Places, Inside, Opening, Working, Loading
  <2>2. QED
    BY <1>1, <2>1, OutsideStep
<1>2. CASE NewClock(s, "load", "fillFirst")
  BY <1>1, <1>2 DEF NewClock, Loading
<1>3. CASE Fill(s, "fillFirst", "load")
  BY <1>1, <1>3 DEF Fill, Loading
<1>4. ASSUME NEW n, ReadTicket(s, "load", n, "fillRead")
      PROVE  LockInv'
  BY <1>1, <1>4 DEF ReadTicket, Loading
<1>5. ASSUME NEW n, LoadTicket(s, n)
      PROVE  LockInv'
  BY <1>1, <1>5 DEF LoadTicket, Loading
<1>6. CASE Fill(s, "fillRead", "editRead")
  BY <1>1, <1>6 DEF Fill, Loading
<1>7. CASE NewEditClock(s, "editRead", "load")
  BY <1>1, <1>7 DEF NewEditClock, Loading
<1>8. CASE Fill(s, "fillLoad", "load")
  BY <1>1, <1>8 DEF Fill, Loading
<1>9. CASE LoadFails(s)
  BY <1>9, StopStep DEF LoadFails, Stop
<1>10. CASE Loaded(s)
  BY <1>1, <1>10 DEF Loaded, Loading
<1>11. QED
  BY <1>2, <1>3, <1>4, <1>5, <1>6, <1>7, <1>8, <1>9, <1>10 DEF LoadClocks

(* Work goes on inside, with the lock as it is.                            *)
LEMMA WorkStep ==
    ASSUME LockInv, NEW s \in Session, Work(s)
    PROVE  LockInv'
<1> USE DEF At, Goto, SetClock, lockVars, clocks, memory, ghosts
<1>1. ASSUME NEW p \in {"hold", "fillNew", "fillTime", "fillSeen", "commit"},
             pc[s] \in Working, pc' = [pc EXCEPT ![s] = p],
             UNCHANGED <<alive, lock, files, handle, raced>>
      PROVE  LockInv'
  BY <1>1 DEF LockInv, Shape, LivingOpen, OneInside, LockAgrees, Places,
              Inside, Opening, Working, Exists
<1>2. CASE NewEditClock(s, "hold", "hold")
  BY <1>1, <1>2 DEF NewEditClock, Working
<1>3. CASE NewClock(s, "hold", "fillNew")
  BY <1>1, <1>3 DEF NewClock, Working
<1>4. CASE Fill(s, "fillNew", "hold")
  BY <1>1, <1>4 DEF Fill, Working
<1>5. CASE TakeTime(s)
  BY <1>1, <1>5 DEF TakeTime, Working
<1>6. CASE Fill(s, "fillTime", "commit")
  BY <1>1, <1>6 DEF Fill, Working
<1>7. CASE CommitTicket(s)
  BY <1>1, <1>7 DEF CommitTicket, Working
<1>8. ASSUME NEW n, ReadTicket(s, "hold", n, "fillSeen")
      PROVE  LockInv'
  BY <1>1, <1>8 DEF ReadTicket, Working
<1>9. CASE Fill(s, "fillSeen", "hold")
  BY <1>1, <1>9 DEF Fill, Working
<1>10. QED
  BY <1>2, <1>3, <1>4, <1>5, <1>6, <1>7, <1>8, <1>9 DEF Work

(* A session that finds the clone free is the only one inside.             *)
LEMMA CheckStep ==
    ASSUME LockInv, NEW s \in Session, Check(s)
    PROVE  LockInv'
<1> USE DEF At, Goto, Exists, lockVars, clocks, ghosts
<1>1. /\ pc[s] = "check" /\ PidOf[s] \in alive
      /\ pc' = [pc EXCEPT ![s] = pc'[s]]
      /\ pc'[s] \in {"create", "remove", "end"}
      /\ UNCHANGED <<alive, lock, files, handle>>
      /\ raced => raced'
      /\ pc'[s] = "create" => ~Exists
  BY DEF Check, LockInv, Shape, Stop, Forget
<1>2. Shape' /\ LivingOpen'
  BY <1>1 DEF LockInv, Shape, LivingOpen, Places, Inside, Opening, Working
<1>3. ASSUME ~raced', pc'[s] # "end"
      PROVE  \A u \in Session \ {s} : pc[u] \notin Inside
  <2>1. ~raced /\ \A u \in Session \ {s} : pc[u] \notin Opening
    BY <1>3 DEF Check
  <2>2. ~Exists \/ lock.pid \notin alive
    BY <1>1, <1>3 DEF Check, Refuses, IsRunning, Stop, Forget
  <2>3. \A u \in Session : pc[u] \notin Working
    BY <2>1, <2>2 DEF LockInv, LockAgrees, LivingOpen, Inside
  <2>4. QED
    BY <2>1, <2>3 DEF Inside
<1>4. ASSUME ~raced'
      PROVE  OneInside' /\ LockAgrees'
  <2>1. OneInside /\ LockAgrees
    BY <1>1, <1>4 DEF LockInv
  <2>2. \A u \in Session : pc'[u] = IF u = s THEN pc'[s] ELSE pc[u]
    BY <1>1 DEF LockInv, Shape
  <2>3. OneInside'
    BY <1>1, <1>3, <1>4, <2>1, <2>2 DEF OneInside, Inside, Opening, Working
  <2>4. LockAgrees'
    BY <1>1, <2>1, <2>2 DEF LockAgrees, Working
  <2>5. QED
    BY <2>3, <2>4
<1>5. QED
  BY <1>2, <1>4 DEF LockInv

(* A stale file is removed by the one session inside.                      *)
LEMMA RemoveStep ==
    ASSUME LockInv, NEW s \in Session, RemoveStale(s)
    PROVE  LockInv'
<1>1. pc[s] = "remove" /\ lock' = NoFile /\ UNCHANGED <<alive, files, handle, raced>>
  BY DEF RemoveStale, At, ghosts
<1>2. CASE Exists
  <2>1. pc' = [pc EXCEPT ![s] = "create"] /\ PidOf[s] \in alive
    BY <1>2 DEF RemoveStale, Goto
  <2>2. QED
    BY <1>1, <2>1, NoneAssumption
       DEF LockInv, Shape, LivingOpen, OneInside, LockAgrees, Places, Inside,
           Opening, Working, Exists, NoFile
<1>3. CASE ~Exists
  <2>1. Forget({s})
    BY <1>3 DEF RemoveStale, Stop
  <2>2. pc[s] \in Inside
    BY <1>1 DEF Inside, Opening
  <2>3. QED
    BY <1>1, <2>1, <2>2, StopStep
<1>4. QED
  BY <1>2, <1>3

LEMMA LockInvStep == LockInv /\ [Next]_vars => LockInv'
<1> SUFFICES ASSUME LockInv, [Next]_vars
             PROVE  LockInv'
  OBVIOUS
<1> USE PidAssumption, NoneAssumption
    DEF At, Goto, Exists, NoFile, lockVars, clocks, memory, ghosts
<1>1. ASSUME NEW s \in Session, OpenRepo(s)
      PROVE  LockInv'
  <2>1. PICK p \in {"load", "check"} : pc' = [pc EXCEPT ![s] = p]
    BY <1>1 DEF OpenRepo
  <2>2. pc[s] \notin Inside /\ p \in Places \ Inside
    BY <1>1 DEF OpenRepo, Places, Inside, Opening, Working, Loading
  <2>3. QED
    BY <1>1, <2>1, <2>2, OutsideStep DEF OpenRepo
<1>2. ASSUME NEW s \in Session, LoadClocks(s)
      PROVE  LockInv'
  BY <1>2, LoadingStep
<1>3. ASSUME NEW s \in Session, Check(s)
      PROVE  LockInv'
  BY <1>3, CheckStep
<1>4. ASSUME NEW s \in Session, RemoveStale(s)
      PROVE  LockInv'
  BY <1>4, RemoveStep
<1>5. ASSUME NEW s \in Session, CreateLock(s)
      PROVE  LockInv'
  <2>1. PICK k \in Nat \ {0} : /\ lock' = [file |-> k, pid |-> None]
                               /\ handle' = [handle EXCEPT ![s] = k]
    <3>1. \A k : k = (IF Exists THEN lock.file ELSE files + 1) => k \in Nat \ {0}
      BY DEF LockInv, Shape
    <3>2. QED
      BY <1>5, <3>1 DEF CreateLock
  <2>3. lock'.file = k /\ lock'.pid = None /\ k # 0
    BY <2>1
  <2>4. files' \in Nat /\ pc[s] = "create" /\ PidOf[s] \in alive
        /\ pc' = [pc EXCEPT ![s] = "write"] /\ UNCHANGED <<alive, raced>>
    BY <1>5 DEF CreateLock, LockInv, Shape
  <2>5. Shape' /\ LivingOpen'
    BY <2>1, <2>4 DEF LockInv, Shape, LivingOpen, Places, Inside, Opening, Working
  <2>6. QED
    BY <2>1, <2>3, <2>4, <2>5
       DEF LockInv, Shape, OneInside, LockAgrees, Inside, Opening, Working
<1>6. ASSUME NEW s \in Session, WritePid(s)
      PROVE  LockInv'
  <2>1. pc[s] = "write" /\ pc' = [pc EXCEPT ![s] = "build"] /\ PidOf[s] \in alive
        /\ handle' = [handle EXCEPT ![s] = 0]
        /\ UNCHANGED <<alive, files, raced>>
    BY <1>6 DEF WritePid
  <2>2. lock' \in [file : Nat, pid : Pid \cup {None}]
    BY <1>6 DEF WritePid, LockInv, Shape
  <2>3. ~raced => lock' = [file |-> lock.file, pid |-> PidOf[s]]
    BY <1>6 DEF WritePid, LockInv, LockAgrees
  <2>4. ~raced => Exists /\ lock'.file = lock.file /\ lock'.pid = PidOf[s]
    BY <2>1, <2>3 DEF LockInv, LockAgrees
  <2>5. Shape' /\ LivingOpen'
    BY <2>1, <2>2 DEF LockInv, Shape, LivingOpen, Places, Inside, Opening, Working
  <2>6. QED
    BY <2>1, <2>4, <2>5
       DEF LockInv, Shape, OneInside, LockAgrees, Inside, Opening, Working
<1>7. ASSUME NEW s \in Session, LoadCache(s)
      PROVE  LockInv'
  <2>1. pc[s] = "build" /\ UNCHANGED <<alive, lock, files, handle, raced>>
    BY <1>7 DEF LoadCache
  <2>2. CASE Stop(s)
    BY <2>1, <2>2, StopStep DEF Stop
  <2>3. CASE Goto(s, "hold")
    BY <2>1, <2>3
       DEF LockInv, Shape, LivingOpen, OneInside, LockAgrees, Places, Inside,
           Opening, Working
  <2>4. QED
    BY <1>7, <2>2, <2>3 DEF LoadCache
<1>8. ASSUME NEW s \in Session, Work(s)
      PROVE  LockInv'
  BY <1>8, WorkStep
<1>9. ASSUME NEW s \in Session, Close(s) \/ Fail(s) \/ Interrupt(s)
      PROVE  LockInv'
  <2>1. pc[s] \in Inside
    BY <1>9 DEF Close, Fail, Interrupt, Inside, Working
  <2>2. QED
    BY <1>9, <2>1, StopStep DEF Close, Fail, Interrupt, Stop
<1>10. ASSUME NEW p \in Pid, Exit(p)
       PROVE  LockInv'
  BY <1>10 DEF Exit, LockInv, Shape, LivingOpen, OneInside, LockAgrees, Inside,
               Opening, Working
<1>11. ASSUME NEW p \in Pid, Crash(p)
       PROVE  LockInv'
  <2>1. /\ pc' = [s \in Session |-> IF PidOf[s] = p THEN "end" ELSE pc[s]]
        /\ handle' = [s \in Session |-> IF PidOf[s] = p THEN 0 ELSE handle[s]]
        /\ alive' = alive \ {p} /\ UNCHANGED <<lock, files, raced>>
    BY <1>11 DEF Crash, Forget
  <2>2. QED
    BY <2>1 DEF LockInv, Shape, LivingOpen, OneInside, LockAgrees, Places,
                Inside, Opening, Working
<1>12. CASE UNCHANGED vars
  BY <1>12 DEF vars, LockInv, Shape, LivingOpen, OneInside, LockAgrees
<1>13. QED
  BY <1>1, <1>2, <1>3, <1>4, <1>5, <1>6, <1>7, <1>8, <1>9, <1>10, <1>11,
     <1>12 DEF Next

(* One session at a time works on the clone, unless two found it free at   *)
(* the same time.                                                          *)
THEOREM ExclusiveCorrect == Spec => []Exclusive
<1>1. LockInv => Exclusive
  BY DEF LockInv, OneInside, Exclusive, Inside
<1>2. QED
  BY LockInvInit, LockInvStep, <1>1, PTL DEF Spec

-----------------------------------------------------------------------------
(* What the invariant of the clock takes for granted about the state.      *)
ClockShape ==
  /\ pc \in [Session -> Places]
  /\ born \in Seq(Nat \ {0})
  /\ clockFile \in Nat \cup {None}
  /\ mem \in [Session -> Nat]
  /\ todo \in [Session -> SUBSET Nat]
  /\ time \in [Session -> Nat]
  /\ \A s \in Session : pc[s] \in {"fillTime", "commit"} => time[s] # 0
  /\ \A s \in Session : pc[s] \notin Loading => todo[s] = {}

(* A clock is past the tickets of the clone.                               *)
Ahead(n) == \A i \in 1 .. Len(born) : born[i] < n

OneOpen == \A s, u \in Session : Open(s) /\ Open(u) => s = u

(* The clock of a session is past the tickets, but for those it has still  *)
(* to read; the file says the same as its memory, or nothing; and the time *)
(* it has taken for a ticket is between the tickets and the clock.         *)
ClockOf(s) ==
  /\ \A i \in 1 .. Len(born) : born[i] < mem[s] \/ born[i] \in todo[s]
  /\ clockFile \in {None, 0, mem[s]}
  /\ pc[s] \in {"fillFirst", "fillRead", "fillLoad", "fillNew", "fillTime", "fillSeen"} =>
       mem[s] # 0
  /\ pc[s] \in {"fillTime", "commit"} =>
       0 < time[s] /\ time[s] < mem[s] /\ Ahead(time[s])
  /\ pc[s] = "commit" => clockFile = mem[s]

(* When nobody has the clone open, a clock file that the next session will *)
(* go by is past the tickets.                                              *)
FileAhead ==
  (\A s \in Session : ~Open(s)) /\ editFile /\ clockFile \notin {None, 0} =>
    Ahead(clockFile)

ClockInv ==
  /\ ClockShape
  /\ ~overlapped => OneOpen
  /\ ~overlapped /\ ~cut =>
       CreateOrder /\ FileAhead /\ \A s \in Session : Open(s) => ClockOf(s)

LEMMA ClockInvInit == Init => ClockInv
<1> SUFFICES ASSUME Init
             PROVE  ClockInv
  OBVIOUS
<1>1. ClockShape
  BY TimesAssumption DEF Init, ClockShape, Places, Loading
<1>2. OneOpen /\ FileAhead /\ \A s \in Session : ~Open(s)
  BY DEF Init, OneOpen, FileAhead, Open
<1>3. CreateOrder
  BY BeforeOrdered DEF Init, CreateOrder
<1>4. QED
  BY <1>1, <1>2, <1>3 DEF ClockInv

(* A step of an open session that stays open: what it does to its own      *)
(* clock is all there is to show.                                          *)
LEMMA OwnStep ==
    ASSUME ClockInv, NEW s \in Session, Open(s), ClockShape',
           pc'[s] \notin {"start", "end"},
           \A u \in Session \ {s} : pc'[u] = pc[u],
           UNCHANGED <<overlapped, cut>>,
           ~overlapped /\ ~cut => CreateOrder' /\ ClockOf(s)'
    PROVE  ClockInv'
<1>1. \A u \in Session : Open(u)' <=> Open(u)
  BY DEF Open
<1>2. ~overlapped => OneOpen'
  BY <1>1 DEF ClockInv, OneOpen
<1>3. FileAhead'
  BY <1>1 DEF FileAhead
<1>4. ASSUME ~overlapped, ~cut
      PROVE  \A u \in Session : Open(u)' => ClockOf(u)'
  BY <1>1, <1>4 DEF ClockInv, OneOpen
<1>5. QED
  BY <1>2, <1>3, <1>4 DEF ClockInv

(* It goes on without touching a clock.                                    *)
LEMMA IdleStep ==
    ASSUME ClockInv, NEW s \in Session, NEW p,
           pc[s] \in {"check", "remove", "create", "write", "build", "hold"},
           p \in {"remove", "create", "write", "build", "hold"},
           pc' = [pc EXCEPT ![s] = p],
           UNCHANGED <<clockFile, mem, todo, time, born, overlapped, cut>>
    PROVE  ClockInv'
<1>1. Open(s) /\ pc'[s] = p /\ \A u \in Session \ {s} : pc'[u] = pc[u]
  BY DEF Open, ClockInv, ClockShape
<1>2. ClockShape'
  BY DEF ClockInv, ClockShape, Places, Inside, Opening, Working, Loading
<1>3. ~overlapped /\ ~cut => CreateOrder' /\ ClockOf(s)'
  BY <1>1 DEF ClockInv, CreateOrder, ClockOf, Ahead
<1>4. QED
  BY <1>1, <1>2, <1>3, OwnStep

(* It sets the clock to m, which is no step back.                          *)
LEMMA SetClockStep ==
    ASSUME ClockInv, NEW s \in Session, Open(s), NEW m \in Nat \ {0}, NEW p,
           mem' = [mem EXCEPT ![s] = m], clockFile' = 0,
           pc' = [pc EXCEPT ![s] = p],
           \/ pc[s] \in Loading /\ p \in {"fillFirst", "fillRead", "fillLoad"}
           \/ pc[s] \notin Loading /\ p \in {"fillNew", "fillSeen", "fillTime"},
           UNCHANGED <<born, overlapped, cut>>,
           ~overlapped /\ ~cut => mem[s] <= m,
           todo' \in [Session -> SUBSET Nat],
           \A u \in Session \ {s} : todo'[u] = todo[u],
           \A n \in todo[s] \ todo'[s] : n < m,
           todo'[s] \subseteq todo[s],
           IF p = "fillTime"
             THEN /\ time' = [time EXCEPT ![s] = m - 1] /\ m - 1 # 0
                  /\ ~overlapped /\ ~cut => m - 1 = mem[s]
             ELSE time' = time
    PROVE  ClockInv'
<1>1. /\ pc'[s] = p /\ mem'[s] = m /\ \A u \in Session \ {s} : pc'[u] = pc[u]
      /\ p \in Places /\ p \notin {"start", "end", "commit"}
      /\ p = "fillTime" => time'[s] = m - 1
  BY DEF ClockInv, ClockShape, Places, Inside, Opening, Working, Loading
<1>2. ClockShape'
  <2>1. \A u \in Session : pc'[u] \notin Loading => todo'[u] = {}
    BY <1>1 DEF ClockInv, ClockShape, Loading
  <2>2. time' \in [Session -> Nat]
        /\ \A u \in Session : pc'[u] \in {"fillTime", "commit"} => time'[u] # 0
    BY <1>1 DEF ClockInv, ClockShape
  <2>3. QED
    BY <1>1, <2>1, <2>2 DEF ClockInv, ClockShape
<1>3. ASSUME ~overlapped, ~cut
      PROVE  CreateOrder' /\ ClockOf(s)'
  <2>1. CreateOrder' /\ ClockOf(s)
    BY <1>3 DEF ClockInv, CreateOrder
  <2>2. mem[s] \in Nat /\ \A i \in 1 .. Len(born) : born[i] \in Nat
    BY DEF ClockInv, ClockShape
  <2>3. \A i \in 1 .. Len(born) : born[i] < m \/ born[i] \in todo'[s]
    BY <1>3, <2>1, <2>2 DEF ClockOf
  <2>4. p = "fillTime" => \A i \in 1 .. Len(born) : born[i] < m - 1
    <3>1. p = "fillTime" => todo[s] = {}
      BY DEF ClockInv, ClockShape
    <3>2. QED
      BY <1>3, <2>1, <2>2, <3>1 DEF ClockOf
  <2>5. QED
    BY <1>1, <2>1, <2>3, <2>4 DEF ClockOf, Ahead
<1>4. QED
  BY <1>1, <1>2, <1>3, OwnStep

(* What it writes to the file is what it has in memory.                    *)
LEMMA FillStep ==
    ASSUME ClockInv, NEW s \in Session, NEW from, NEW to, Fill(s, from, to),
           \/ from \in {"fillFirst", "fillLoad"} /\ to = "load"
           \/ from = "fillRead" /\ to = "editRead"
           \/ from \in {"fillNew", "fillSeen"} /\ to = "hold"
           \/ from = "fillTime" /\ to = "commit"
    PROVE  ClockInv'
<1>1. /\ pc[s] = from /\ Open(s) /\ pc' = [pc EXCEPT ![s] = to]
      /\ clockFile' = mem[s] /\ UNCHANGED <<born, mem, todo, time, overlapped, cut>>
  BY DEF Fill, At, Goto, Open, ghosts
<1>2. pc'[s] = to /\ \A u \in Session \ {s} : pc'[u] = pc[u]
  BY <1>1 DEF ClockInv, ClockShape
<1>3. ClockShape'
  BY <1>1, <1>2 DEF ClockInv, ClockShape, Places, Inside, Opening, Working, Loading
<1>4. ~overlapped /\ ~cut => CreateOrder' /\ ClockOf(s)'
  BY <1>1, <1>2 DEF ClockInv, CreateOrder, ClockOf, Ahead
<1>5. QED
  BY <1>1, <1>2, <1>3, <1>4, OwnStep

(* In memory, a clock that can be read is not behind.                      *)
LEMMA ReadableClock ==
    ASSUME ClockInv, NEW s \in Session, Open(s), Readable(s)
    PROVE  /\ Clock(s) \in Nat \ {0}
           /\ ~overlapped /\ ~cut => Clock(s) = mem[s]
BY NoneAssumption DEF ClockInv, ClockShape, ClockOf, Readable, Clock

LEMMA NewClockStep ==
    ASSUME ClockInv, NEW s \in Session, NEW from, NEW to, NewClock(s, from, to),
           (from = "load" /\ to = "fillFirst") \/ (from = "hold" /\ to = "fillNew")
    PROVE  ClockInv'
<1>1. /\ pc[s] = from /\ Open(s) /\ mem[s] = 0
      /\ mem' = [mem EXCEPT ![s] = 1] /\ clockFile' = 0
      /\ pc' = [pc EXCEPT ![s] = to]
      /\ UNCHANGED <<born, todo, time, overlapped, cut>>
  BY NoneAssumption
     DEF NewClock, SetClock, Goto, At, Open, Clock, ghosts, ClockInv, ClockShape
<1>2. todo \in [Session -> SUBSET Nat] /\ (from \in Loading <=> from = "load")
  BY DEF ClockInv, ClockShape, Loading
<1>3. /\ \A k \in todo[s] \ todo'[s] : k < 1
      /\ todo'[s] \subseteq todo[s] /\ to # "fillTime"
      /\ 1 \in Nat \ {0} /\ mem[s] <= 1
  BY <1>1
<1>4. QED
  BY <1>1, <1>2, <1>3, SetClockStep

LEMMA ReadTicketStep ==
    ASSUME ClockInv, NEW s \in Session, NEW from, NEW n \in Nat, NEW to,
           ReadTicket(s, from, n, to),
           (from = "load" /\ to = "fillRead") \/ (from = "hold" /\ to = "fillSeen")
    PROVE  ClockInv'
<1>1. pc[s] = from /\ Open(s) /\ Readable(s)
  BY DEF ReadTicket, At, Open
<1>2. Clock(s) \in Nat \ {0} /\ (~overlapped /\ ~cut => Clock(s) = mem[s])
  BY <1>1, ReadableClock
<1>3. PICK m \in Nat \ {0} :
        Clock(s) <= m /\ mem' = [mem EXCEPT ![s] = m] /\ clockFile' = 0
  <2> DEFINE k == IF n < Clock(s) THEN Clock(s) ELSE n + 1
  <2>1. k \in Nat \ {0} /\ Clock(s) <= k
    BY <1>2
  <2>2. mem' = [mem EXCEPT ![s] = k] /\ clockFile' = 0
    BY DEF ReadTicket, SetClock
  <2> HIDE DEF k
  <2>3. QED
    BY <2>1, <2>2
<1>4. pc' = [pc EXCEPT ![s] = to] /\ UNCHANGED <<born, todo, time, overlapped, cut>>
  BY DEF ReadTicket, SetClock, Goto, ghosts
<1>5. todo \in [Session -> SUBSET Nat] /\ (from \in Loading <=> from = "load")
  BY DEF ClockInv, ClockShape, Loading
<1>6. /\ \A k \in todo[s] \ todo'[s] : k < m
      /\ todo'[s] \subseteq todo[s] /\ to # "fillTime"
      /\ ~overlapped /\ ~cut => mem[s] <= m
  BY <1>2, <1>3, <1>4
<1>7. QED
  BY <1>1, <1>3, <1>4, <1>5, <1>6, SetClockStep

LEMMA LoadTicketStep ==
    ASSUME ClockInv, NEW s \in Session, NEW n, LoadTicket(s, n)
    PROVE  ClockInv'
<1>1. /\ pc[s] = "load" /\ Open(s) /\ Readable(s) /\ n \in todo[s] /\ n < Clock(s)
      /\ todo' = [todo EXCEPT ![s] = @ \ {n}]
      /\ mem' = [mem EXCEPT ![s] = Clock(s)] /\ clockFile' = 0
      /\ pc' = [pc EXCEPT ![s] = "fillLoad"]
      /\ UNCHANGED <<born, time, overlapped, cut>>
  BY DEF LoadTicket, At, Open, SetClock, Goto, ghosts
<1>2. Clock(s) \in Nat \ {0} /\ (~overlapped /\ ~cut => Clock(s) = mem[s])
  BY <1>1, ReadableClock
<1>3. /\ todo \in [Session -> SUBSET Nat] /\ mem[s] \in Nat
      /\ "load" \in Loading
  BY DEF ClockInv, ClockShape, Loading
<1>4. /\ todo' \in [Session -> SUBSET Nat]
      /\ \A u \in Session \ {s} : todo'[u] = todo[u]
      /\ todo'[s] = todo[s] \ {n}
  BY <1>1, <1>3
<1> DEFINE m == Clock(s)
<1>5. m \in Nat \ {0} /\ (~overlapped /\ ~cut => mem[s] <= m)
  BY <1>2, <1>3
<1>6. /\ mem' = [mem EXCEPT ![s] = m]
      /\ todo'[s] \subseteq todo[s] /\ \A k \in todo[s] \ todo'[s] : k < m
  BY <1>1, <1>4
<1> HIDE DEF m
<1>7. QED
  BY <1>1, <1>3, <1>4, <1>5, <1>6, SetClockStep

(* Sessions that end, by themselves or with their process, leave a file    *)
(* behind that is past the tickets, or is not gone by.                     *)
LEMMA EndClock ==
    ASSUME ClockInv, NEW S \in SUBSET Session, Forget(S),
           UNCHANGED <<clockFile, editFile, born, overlapped>>,
           cut => cut',
           \A s \in S : Open(s) /\ editFile /\ todo[s] # {} =>
                          cut' \/ clockFile = 0
    PROVE  ClockInv'
<1>1. /\ \A s \in S : pc'[s] = "end" /\ mem'[s] = 0 /\ todo'[s] = {} /\ time'[s] = 0
      /\ \A s \in Session \ S : /\ pc'[s] = pc[s] /\ mem'[s] = mem[s]
                                /\ todo'[s] = todo[s] /\ time'[s] = time[s]
  BY DEF Forget
<1>2. ClockShape'
  <2>1. /\ pc' \in [Session -> Places] /\ mem' \in [Session -> Nat]
        /\ todo' \in [Session -> SUBSET Nat] /\ time' \in [Session -> Nat]
    BY DEF Forget, ClockInv, ClockShape, Places
  <2>2. QED
    BY <1>1, <2>1 DEF ClockInv, ClockShape, Loading
<1>3. \A s \in Session : Open(s)' <=> Open(s) /\ s \notin S
  BY <1>1 DEF Open
<1>4. ~overlapped => OneOpen'
  BY <1>3 DEF ClockInv, OneOpen
<1>5. ASSUME ~overlapped, ~cut'
      PROVE  CreateOrder' /\ FileAhead' /\ \A s \in Session : Open(s)' => ClockOf(s)'
  <2>1. OneOpen /\ CreateOrder /\ FileAhead /\ \A s \in Session : Open(s) => ClockOf(s)
    BY <1>5 DEF ClockInv
  <2>2. CreateOrder'
    BY <2>1 DEF CreateOrder
  <2>3. \A s \in Session : Open(s)' => ClockOf(s)'
    BY <1>1, <1>3, <2>1 DEF ClockOf, Ahead
  <2>4. ASSUME \A s \in Session : ~Open(s)', editFile, clockFile \notin {None, 0}
        PROVE  Ahead(clockFile)
    <3>1. CASE \A s \in Session : ~Open(s)
      BY <2>1, <2>4, <3>1 DEF FileAhead
    <3>2. ASSUME NEW s \in Session, Open(s)
          PROVE  Ahead(clockFile)
      <4>1. s \in S /\ todo[s] = {} /\ ClockOf(s)
        BY <1>3, <1>5, <2>1, <2>4, <3>2
      <4>2. clockFile = mem[s]
        BY <2>4, <4>1 DEF ClockOf
      <4>3. QED
        BY <4>1, <4>2 DEF ClockOf, Ahead
    <3>3. QED
      BY <3>1, <3>2
  <2>5. FileAhead'
    BY <2>4 DEF FileAhead, Ahead
  <2>6. QED
    BY <2>2, <2>3, <2>5
<1>6. QED
  BY <1>2, <1>4, <1>5 DEF ClockInv

(* A session that is past the rebuild ends.                                *)
LEMMA StopClock ==
    ASSUME ClockInv, NEW s \in Session, Stop(s), pc[s] \notin Loading,
           UNCHANGED <<clocks, born, overlapped, cut>>
    PROVE  ClockInv'
<1>1. todo[s] = {}
  BY DEF ClockInv, ClockShape
<1>2. QED
  BY <1>1, EndClock DEF Stop, clocks

(* Opening the repository: a file that is gone by is past the tickets, and *)
(* otherwise all of them are read.                                         *)
LEMMA OpenRepoClock ==
    ASSUME ClockInv, NEW s \in Session, OpenRepo(s)
    PROVE  ClockInv'
<1> DEFINE m == IF clockFile = None THEN 0 ELSE clockFile
           T == IF m = 0 \/ ~editFile THEN Times ELSE {}
           p == IF T = {} THEN "check" ELSE "load"
<1>1. /\ m \in Nat /\ T \in SUBSET Nat /\ pc[s] = "start"
      /\ \A i \in 1 .. Len(born) : born[i] \in Nat
  BY DEF ClockInv, ClockShape, Times, OpenRepo, At
<1>2. mem' = [mem EXCEPT ![s] = m] /\ mem'[s] = m
  BY <1>1 DEF OpenRepo, ClockInv, ClockShape
<1>3. todo' = [todo EXCEPT ![s] = T] /\ todo'[s] = T
  <2> HIDE DEF m
  <2>1. QED
    BY <1>2 DEF OpenRepo, ClockInv, ClockShape
<1>4. pc' = [pc EXCEPT ![s] = p] /\ pc'[s] = p
  <2> HIDE DEF T
  <2>1. QED
    BY <1>3 DEF OpenRepo, Goto, ClockInv, ClockShape
<1>5. UNCHANGED <<clockFile, editFile, born, time, cut>>
  BY DEF OpenRepo
<1>6. ~overlapped' => ~overlapped /\ \A u \in Session \ {s} : ~Open(u)
  BY DEF OpenRepo
<1> HIDE DEF m
<1>7. /\ p \in {"check", "load"} /\ (p = "check" => T = {})
      /\ \A u \in Session \ {s} : pc'[u] = pc[u] /\ todo'[u] = todo[u]
  BY <1>3, <1>4 DEF ClockInv, ClockShape
<1> HIDE DEF T, p
<1>8. ClockShape'
  <2>1. /\ pc' \in [Session -> Places] /\ mem' \in [Session -> Nat]
        /\ todo' \in [Session -> SUBSET Nat]
    BY <1>1, <1>2, <1>3, <1>4, <1>7 DEF ClockInv, ClockShape, Places, Loading
  <2>2. \A u \in Session : pc'[u] \in {"fillTime", "commit"} => pc'[u] = pc[u]
    BY <1>4, <1>7
  <2>3. \A u \in Session : pc'[u] \notin Loading => todo'[u] = {}
    BY <1>3, <1>4, <1>7 DEF ClockInv, ClockShape, Loading
  <2>4. QED
    BY <1>5, <2>1, <2>2, <2>3 DEF ClockInv, ClockShape
<1>9. \A u \in Session \ {s} : Open(u)' <=> Open(u)
  BY <1>7 DEF Open
<1>10. ~overlapped' => OneOpen'
  BY <1>6, <1>9 DEF OneOpen
<1>11. ASSUME ~overlapped', ~cut
       PROVE  CreateOrder' /\ FileAhead' /\ \A u \in Session : Open(u)' => ClockOf(u)'
  <2>1. CreateOrder /\ FileAhead /\ \A u \in Session : ~Open(u)
    BY <1>1, <1>6, <1>11 DEF ClockInv, Open
  <2>2. \A i \in 1 .. Len(born) : born[i] < m \/ born[i] \in T
    <3>1. CASE m = 0 \/ ~editFile
      BY <1>1, <3>1 DEF T, Times
    <3>2. CASE m # 0 /\ editFile
      <4>1. clockFile = m /\ clockFile \notin {None, 0}
        BY <3>2 DEF m
      <4>2. QED
        BY <2>1, <3>2, <4>1 DEF FileAhead, Ahead
    <3>3. QED
      BY <3>1, <3>2
  <2>3. clockFile \in {None, 0, m}
    BY DEF m
  <2>4. ClockOf(s)'
    BY <1>2, <1>3, <1>4, <1>5, <1>7, <2>2, <2>3 DEF ClockOf
  <2>5. Open(s)'
    BY <1>4, <1>7 DEF Open
  <2>6. CreateOrder' /\ FileAhead'
    BY <1>5, <2>1, <2>5 DEF CreateOrder, FileAhead
  <2>7. QED
    BY <1>9, <2>1, <2>4, <2>6
<1>12. QED
  BY <1>5, <1>8, <1>10, <1>11 DEF ClockInv

(* A ticket gets a time after all others and before the clock.             *)
LEMMA CommitTicketClock ==
    ASSUME ClockInv, NEW s \in Session, CommitTicket(s)
    PROVE  ClockInv'
<1>1. /\ pc[s] = "commit" /\ pc' = [pc EXCEPT ![s] = "hold"]
      /\ born' = Append(born, time[s]) /\ time' = [time EXCEPT ![s] = 0]
      /\ UNCHANGED <<clockFile, mem, todo, overlapped, cut>>
  BY DEF CommitTicket, At, Goto, lockVars, ghosts
<1>2. /\ pc \in [Session -> Places] /\ born \in Seq(Nat \ {0})
      /\ mem \in [Session -> Nat] /\ time \in [Session -> Nat]
      /\ time[s] \in Nat \ {0}
  BY <1>1 DEF ClockInv, ClockShape
<1>3. /\ Len(born) \in Nat
      /\ Len(born') = Len(born) + 1
      /\ born'[Len(born) + 1] = time[s]
      /\ \A i \in 1 .. Len(born) : born'[i] = born[i] /\ born[i] \in Nat
  BY <1>1, <1>2
<1>4. Open(s) /\ pc'[s] = "hold" /\ \A u \in Session \ {s} : pc'[u] = pc[u]
  BY <1>1, <1>2 DEF Open
<1>5. ClockShape'
  <2>1. pc' \in [Session -> Places] /\ born' \in Seq(Nat \ {0})
        /\ time' \in [Session -> Nat]
    BY <1>1, <1>2 DEF Places, Inside, Working
  <2>2. \A u \in Session : pc'[u] \in {"fillTime", "commit"} =>
                             pc'[u] = pc[u] /\ time'[u] = time[u]
    BY <1>1, <1>2
  <2>3. \A u \in Session : pc'[u] \notin Loading => todo'[u] = {}
    BY <1>1, <1>4 DEF ClockInv, ClockShape, Loading
  <2>4. QED
    BY <1>1, <2>1, <2>2, <2>3 DEF ClockInv, ClockShape
<1>6. ASSUME ~overlapped, ~cut
      PROVE  CreateOrder' /\ ClockOf(s)'
  <2>1. CreateOrder /\ ClockOf(s) /\ mem[s] \in Nat /\ time[s] \in Nat
    BY <1>2, <1>4, <1>6 DEF ClockInv
  <2>2. time[s] < mem[s] /\ Ahead(time[s]) /\ clockFile = mem[s]
    BY <1>1, <2>1 DEF ClockOf
  <2>3. \A i \in 1 .. Len(born') :
          i = Len(born) + 1 \/ (i \in 1 .. Len(born) /\ born'[i] < time[s])
    BY <1>3, <2>2 DEF Ahead
  <2>4. ASSUME NEW i \in 1 .. Len(born')
        PROVE  born'[i] < mem[s]
    <3>1. CASE i = Len(born) + 1
      BY <1>3, <2>2, <3>1
    <3>2. CASE i \in 1 .. Len(born) /\ born'[i] < time[s]
      <4>1. born'[i] \in Nat
        BY <1>3, <3>2
      <4>2. QED
        BY <2>1, <2>2, <3>2, <4>1
    <3>3. QED
      BY <2>3, <3>1, <3>2
  <2>5. CreateOrder'
    <3>1. ASSUME NEW i \in 1 .. Len(born'), NEW j \in 1 .. Len(born'), i < j
          PROVE  born'[i] < born'[j]
      <4>1. i \in 1 .. Len(born)
        BY <1>3, <3>1
      <4>2. CASE j \in 1 .. Len(born)
        BY <1>3, <2>1, <3>1, <4>1, <4>2 DEF CreateOrder
      <4>3. CASE j \notin 1 .. Len(born)
        BY <1>3, <2>3, <4>1, <4>3
      <4>4. QED
        BY <4>2, <4>3
    <3>2. QED
      BY <3>1 DEF CreateOrder
  <2>6. ClockOf(s)'
    BY <1>1, <1>4, <2>2, <2>4 DEF ClockOf
  <2>7. QED
    BY <2>5, <2>6
<1>7. QED
  BY <1>1, <1>4, <1>5, <1>6, OwnStep

(* The rebuild keeps what it has still to read apart from what it has read. *)
LEMMA LoadClocksClock ==
    ASSUME ClockInv, NEW s \in Session, LoadClocks(s)
    PROVE  ClockInv'
<1>1. CASE NewClock(s, "load", "fillFirst")
  BY <1>1, NewClockStep
<1>2. CASE Fill(s, "fillFirst", "load") \/ Fill(s, "fillRead", "editRead")
           \/ Fill(s, "fillLoad", "load")
  BY <1>2, FillStep
<1>3. ASSUME NEW n \in todo[s], ReadTicket(s, "load", n, "fillRead")
      PROVE  ClockInv'
  <2>1. n \in Nat
    BY DEF ClockInv, ClockShape
  <2>2. QED
    BY <1>3, <2>1, ReadTicketStep
<1>4. ASSUME NEW n \in todo[s], LoadTicket(s, n)
      PROVE  ClockInv'
  BY <1>4, LoadTicketStep
<1>5. CASE NewEditClock(s, "editRead", "load") \/ Loaded(s)
  <2>1. /\ Open(s) /\ pc[s] \in Loading
        /\ UNCHANGED <<clockFile, born, mem, todo, time, overlapped, cut>>
    BY <1>5 DEF NewEditClock, Loaded, At, Open, Loading, clocks, memory, ghosts
  <2>2. PICK p : /\ pc' = [pc EXCEPT ![s] = p]
                 /\ p = "load" \/ (p = "check" /\ todo[s] = {})
    BY <1>5 DEF NewEditClock, Loaded, Goto
  <2>3. pc'[s] = p /\ \A u \in Session \ {s} : pc'[u] = pc[u]
    BY <2>2 DEF ClockInv, ClockShape
  <2>4. ClockShape'
    BY <2>1, <2>2, <2>3 DEF ClockInv, ClockShape, Places, Loading
  <2>5. ~overlapped /\ ~cut => CreateOrder' /\ ClockOf(s)'
    BY <2>1, <2>2, <2>3 DEF ClockInv, CreateOrder, ClockOf, Ahead
  <2>6. QED
    BY <2>1, <2>2, <2>3, <2>4, <2>5, OwnStep
<1>6. CASE LoadFails(s)
  <2>1. mem[s] = 0 /\ clockFile = 0
    BY <1>6 DEF LoadFails, Clock
  <2>2. Forget({s}) /\ UNCHANGED <<clockFile, editFile, born, overlapped, cut>>
    BY <1>6 DEF LoadFails, Stop, clocks, ghosts
  <2>3. QED
    BY <2>1, <2>2, EndClock
<1>7. QED
  BY <1>1, <1>2, <1>3, <1>4, <1>5, <1>6 DEF LoadClocks

(* So does the work with the clone.                                        *)
LEMMA WorkClock ==
    ASSUME ClockInv, NEW s \in Session, Work(s)
    PROVE  ClockInv'
<1>1. CASE NewEditClock(s, "hold", "hold")
  BY <1>1, IdleStep DEF NewEditClock, At, Goto, ghosts
<1>2. CASE NewClock(s, "hold", "fillNew")
  BY <1>2, NewClockStep
<1>3. CASE Fill(s, "fillNew", "hold") \/ Fill(s, "fillTime", "commit")
           \/ Fill(s, "fillSeen", "hold")
  BY <1>3, FillStep
<1>4. CASE TakeTime(s)
  <2>1. /\ pc[s] = "hold" /\ Open(s) /\ Readable(s)
        /\ time' = [time EXCEPT ![s] = Clock(s)]
        /\ mem' = [mem EXCEPT ![s] = Clock(s) + 1] /\ clockFile' = 0
        /\ pc' = [pc EXCEPT ![s] = "fillTime"]
        /\ UNCHANGED <<born, todo, overlapped, cut>>
    BY <1>4 DEF TakeTime, At, Open, SetClock, Goto, ghosts
  <2>2. Clock(s) \in Nat \ {0} /\ (~overlapped /\ ~cut => Clock(s) = mem[s])
    BY <2>1, ReadableClock
  <2>3. PICK m \in Nat \ {0} :
          m = Clock(s) + 1 /\ m - 1 = Clock(s) /\ Clock(s) # 0 /\ Clock(s) <= m
    BY <2>2
  <2>4. todo \in [Session -> SUBSET Nat] /\ pc[s] \notin Loading
    BY <2>1 DEF ClockInv, ClockShape, Loading
  <2>5. mem' = [mem EXCEPT ![s] = m] /\ time' = [time EXCEPT ![s] = m - 1]
        /\ m - 1 # 0 /\ (~overlapped /\ ~cut => m - 1 = mem[s] /\ mem[s] <= m)
    BY <2>1, <2>2, <2>3
  <2>6. QED
    BY <2>1, <2>4, <2>5, SetClockStep
<1>5. CASE CommitTicket(s)
  BY <1>5, CommitTicketClock
<1>6. ASSUME NEW n \in Times, ReadTicket(s, "hold", n, "fillSeen")
      PROVE  ClockInv'
  <2>1. n \in Nat
    BY DEF ClockInv, ClockShape, Times
  <2>2. QED
    BY <1>6, <2>1, ReadTicketStep
<1>7. QED
  BY <1>1, <1>2, <1>3, <1>4, <1>5, <1>6 DEF Work

LEMMA ClockInvStep == ClockInv /\ [Next]_vars => ClockInv'
<1> SUFFICES ASSUME ClockInv, [Next]_vars
             PROVE  ClockInv'
  OBVIOUS
<1>1. ASSUME NEW s \in Session, OpenRepo(s)
      PROVE  ClockInv'
  BY <1>1, OpenRepoClock
<1>2. ASSUME NEW s \in Session, LoadClocks(s)
      PROVE  ClockInv'
  BY <1>2, LoadClocksClock
<1>3. ASSUME NEW s \in Session,
             Check(s) \/ RemoveStale(s) \/ CreateLock(s) \/ WritePid(s) \/ LoadCache(s)
      PROVE  ClockInv'
  <2>1. /\ pc[s] \in {"check", "remove", "create", "write", "build"}
        /\ UNCHANGED <<clocks, born, overlapped, cut>>
    BY <1>3 DEF Check, RemoveStale, CreateLock, WritePid, LoadCache, At, ghosts
  <2>2. \/ Stop(s)
        \/ /\ UNCHANGED memory
           /\ \E p \in {"remove", "create", "write", "build", "hold"} :
                pc' = [pc EXCEPT ![s] = p]
    BY <1>3 DEF Check, RemoveStale, CreateLock, WritePid, LoadCache, Goto
  <2>3. CASE Stop(s)
    BY <2>1, <2>3, StopClock DEF Loading
  <2>4. CASE /\ UNCHANGED memory
             /\ \E p \in {"remove", "create", "write", "build", "hold"} :
                  pc' = [pc EXCEPT ![s] = p]
    BY <2>1, <2>4, IdleStep DEF memory, clocks
  <2>5. QED
    BY <2>2, <2>3, <2>4
<1>4. ASSUME NEW s \in Session, Work(s)
      PROVE  ClockInv'
  BY <1>4, WorkClock
<1>5. ASSUME NEW s \in Session, Close(s) \/ Fail(s) \/ Interrupt(s)
      PROVE  ClockInv'
  BY <1>5, StopClock DEF Close, Fail, Interrupt, At, Working, Loading, ghosts
<1>6. ASSUME NEW p \in Pid, Exit(p)
      PROVE  ClockInv'
  <2>1. UNCHANGED <<pc, clockFile, editFile, mem, todo, time, born, overlapped, cut>>
    BY <1>6 DEF Exit, clocks, memory, ghosts
  <2>2. QED
    BY <2>1 DEF ClockInv, ClockShape, OneOpen, CreateOrder, FileAhead, ClockOf,
                Ahead, Open
<1>7. ASSUME NEW p \in Pid, Crash(p)
      PROVE  ClockInv'
  <2> DEFINE S == {s \in Session : PidOf[s] = p}
  <2>1. /\ S \in SUBSET Session /\ Forget(S)
        /\ UNCHANGED <<clockFile, editFile, born, overlapped>>
    BY <1>7 DEF Crash, clocks
  <2>2. cut => cut'
    BY <1>7 DEF Crash
  <2>3. ASSUME NEW s \in S, editFile, todo[s] # {}
        PROVE  cut'
    BY <1>7, <2>3 DEF Crash, ClockInv, ClockShape
  <2> HIDE DEF S
  <2>4. QED
    BY <2>1, <2>2, <2>3, EndClock
<1>8. CASE UNCHANGED vars
  BY <1>8 DEF vars, ClockInv, ClockShape, OneOpen, CreateOrder, FileAhead,
              ClockOf, Ahead, Open
<1>9. QED
  BY <1>1, <1>2, <1>3, <1>4, <1>5, <1>6, <1>7, <1>8 DEF Next

(* Tickets are created in the order of their create times, unless a        *)
(* session loads its clocks while another one is open, or a rebuild of     *)
(* clocks that both have files is cut short: every other crash, wherever   *)
(* it happens, is made up for.                                             *)
THEOREM CreateOrderCorrect == Spec => []CreateOrderAlone
<1>1. ClockInv => CreateOrderAlone
  BY DEF ClockInv, CreateOrderAlone
<1>2. QED
  BY ClockInvInit, ClockInvStep, <1>1, PTL DEF Spec

-----------------------------------------------------------------------------
(* Type correctness: the shapes of the two invariants and the rest.        *)
RestOK ==
  /\ alive \subseteq Pid
  /\ crashes \in Nat
  /\ editFile \in BOOLEAN
  /\ raced \in BOOLEAN /\ overlapped \in BOOLEAN /\ cut \in BOOLEAN

LEMMA RestInit == Init => RestOK
<1> SUFFICES ASSUME Init
             PROVE  RestOK
  OBVIOUS
<1>1. alive \subseteq Pid /\ crashes \in Nat
  BY DEF Init
<1>2. editFile \in BOOLEAN /\ raced \in BOOLEAN /\ overlapped \in BOOLEAN /\ cut \in BOOLEAN
  BY Zenon DEF Init
<1>3. QED
  BY <1>1, <1>2, Zenon DEF RestOK

LEMMA RestStep == RestOK /\ [Next]_vars => RestOK'
<1> SUFFICES ASSUME RestOK, [Next]_vars
             PROVE  RestOK'
  OBVIOUS
<1> USE DEF RestOK, ghosts, clocks
<1>1. ASSUME NEW s \in Session, OpenRepo(s)
      PROVE  RestOK'
  BY <1>1, Zenon DEF OpenRepo
<1>2. ASSUME NEW s \in Session, NEW from, NEW to,
             Fill(s, from, to) \/ NewClock(s, from, to)
      PROVE  RestOK'
  BY <1>2 DEF Fill, NewClock
<1>3. ASSUME NEW s \in Session, NEW from, NEW to, NewEditClock(s, from, to)
      PROVE  RestOK'
  BY <1>3, Zenon DEF NewEditClock
<1>4. ASSUME NEW s \in Session, NEW from, NEW n, NEW to,
             ReadTicket(s, from, n, to) \/ LoadTicket(s, n)
      PROVE  RestOK'
  BY <1>4 DEF ReadTicket, LoadTicket
<1>5. ASSUME NEW s \in Session, LoadFails(s) \/ Loaded(s)
      PROVE  RestOK'
  BY <1>5 DEF LoadFails, Loaded
<1>6. ASSUME NEW s \in Session, Check(s)
      PROVE  RestOK'
  BY <1>6 DEF Check
<1>7. ASSUME NEW s \in Session,
             RemoveStale(s) \/ CreateLock(s) \/ WritePid(s) \/ LoadCache(s)
      PROVE  RestOK'
  BY <1>7 DEF RemoveStale, CreateLock, WritePid, LoadCache
<1>8. ASSUME NEW s \in Session, TakeTime(s) \/ CommitTicket(s)
      PROVE  RestOK'
  BY <1>8 DEF TakeTime, CommitTicket
<1>9. ASSUME NEW s \in Session, Close(s) \/ Fail(s) \/ Interrupt(s)
      PROVE  RestOK'
  BY <1>9 DEF Close, Fail, Interrupt
<1>10. ASSUME NEW p \in Pid, Exit(p)
       PROVE  RestOK'
  BY <1>10 DEF Exit
<1>11. ASSUME NEW p \in Pid, Crash(p)
       PROVE  RestOK'
  BY <1>11 DEF Crash
<1>12. CASE UNCHANGED vars
  BY <1>12 DEF vars
<1>13. QED
  BY <1>1, <1>2, <1>3, <1>4, <1>5, <1>6, <1>7, <1>8, <1>9, <1>10, <1>11,
     <1>12 DEF Next, LoadClocks, Work

(* The types of the state are kept, for any sessions and processes and any *)
(* number of crashes: a clock that can be read is a number, a ticket has a *)
(* create time other than 0, and a lock file the pid of a session or none. *)
THEOREM TypeCorrect == Spec => []TypeOK
<1>1. LockInv /\ ClockInv /\ RestOK => TypeOK
  BY DEF LockInv, Shape, ClockInv, ClockShape, RestOK, TypeOK
<1>2. QED
  BY LockInvInit, LockInvStep, ClockInvInit, ClockInvStep, RestInit, RestStep,
     <1>1, PTL DEF Spec
=============================================================================
