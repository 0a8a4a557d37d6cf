----------------------------- MODULE RepoSession -----------------------------
(***************************************************************************)
(* One clone and the sessions that open it: commands, each a process of    *)
(* its own, and requests of a web server, many in one process.  A session  *)
(* loads the Lamport clocks (repository.NewGitRepo), takes the lock file   *)
(* of the clone (cache.NewRepoCache), works, and removes the lock file     *)
(* (RepoCache.Close).  Processes may die between any two system calls.     *)
(*                                                                         *)
(* One clock is modelled, the create clock of the tickets; of the edit     *)
(* clock only whether it has a file, which decides whether the clocks are  *)
(* rebuilt.  All processes run as one user.                                *)
(***************************************************************************)
EXTENDS Integers, Sequences

CONSTANTS Session,     \* the commands and requests
          Pid,         \* the processes
          PidOf,       \* PidOf[s]: the process s runs in
          Server,      \* the processes that are web servers
          Before,      \* create times of tickets fetched before the first session
          None,        \* no such file; no pid in the lock file
          MaxTickets,  \* bound: tickets created in the clone
          MaxCrashes   \* bound: processes that die

ASSUME PidAssumption ==
  /\ PidOf \in [Session -> Pid] /\ Server \subseteq Pid
  /\ \A s, u \in Session : PidOf[s] = PidOf[u] /\ PidOf[s] \notin Server => s = u
ASSUME TimesAssumption == Before \subseteq Seq(Nat \ {0})
ASSUME BeforeOrdered ==
  \A b \in Before : \A i, j \in 1 .. Len(b) : i < j => b[i] < b[j]
ASSUME NoneAssumption == None \notin Pid /\ None \notin Nat

VARIABLES alive,      \* the processes that run
          lock,       \* the lock file: which file it is, its pid
          files,      \* the number of lock files created so far
          clockFile,  \* the clock on disk: None, 0 while empty, or its value
          editFile,   \* the edit clock has a file
          born,       \* the create times of the clone's tickets, oldest first
          pc,         \* pc[s]: where s is
          mem,        \* mem[s]: the clock in the memory of s, 0: not loaded
          todo,       \* todo[s]: the tickets s has still to rebuild the clock from
          handle,     \* handle[s]: the lock file s has created and opened
          time,       \* time[s]: the create time taken for a new ticket
          crashes,    \* processes that died
          raced,      \* two sessions found the clone free at the same time
          overlapped, \* a session loaded its clock while another one was open
          cut         \* a process died while it rebuilt clocks that have files

vars == <<alive, lock, files, clockFile, editFile, born, pc, mem, todo, handle,
          time, crashes, raced, overlapped, cut>>

Opening == {"remove", "create", "write"}
Working == {"build", "hold", "fillNew", "fillTime", "fillSeen", "commit"}
Inside  == Opening \cup Working
Loading == {"load", "fillFirst", "fillRead", "editRead", "fillLoad"}
Places  == {"start", "check", "end"} \cup Loading \cup Inside

(* There is no lock file. *)
NoFile == [file |-> 0, pid |-> None]
Exists == lock.file # 0

TypeOK ==
  /\ alive \subseteq Pid
  /\ lock \in [file : Nat, pid : Pid \cup {None}]
  /\ files \in Nat
  /\ clockFile \in Nat \cup {None} /\ editFile \in BOOLEAN
  /\ born \in Seq(Nat \ {0})
  /\ pc \in [Session -> Places]
  /\ mem \in [Session -> Nat]
  /\ todo \in [Session -> SUBSET Nat]
  /\ handle \in [Session -> Nat]
  /\ time \in [Session -> Nat]
  /\ crashes \in Nat
  /\ raced \in BOOLEAN /\ overlapped \in BOOLEAN /\ cut \in BOOLEAN

Init ==
  /\ alive = Pid
  /\ lock = NoFile /\ files = 0
  /\ clockFile = None /\ editFile = FALSE
  /\ born \in Before
  /\ pc = [s \in Session |-> "start"]
  /\ mem = [s \in Session |-> 0]
  /\ todo = [s \in Session |-> {}]
  /\ handle = [s \in Session |-> 0]
  /\ time = [s \in Session |-> 0]
  /\ crashes = 0
  /\ raced = FALSE /\ overlapped = FALSE /\ cut = FALSE

-----------------------------------------------------------------------------
lockVars  == <<lock, files, handle>>
clocks    == <<clockFile, editFile>>
memory    == <<mem, todo, time>>
ghosts    == <<raced, overlapped, cut>>

(* Session s goes on at p, in a process that lives.                        *)
Goto(s, p) ==
  /\ PidOf[s] \in alive
  /\ pc' = [pc EXCEPT ![s] = p]

(* The sessions of S are over, and what they had in memory is gone.        *)
Forget(S) ==
  /\ pc' = [s \in Session |-> IF s \in S THEN "end" ELSE pc[s]]
  /\ mem' = [s \in Session |-> IF s \in S THEN 0 ELSE mem[s]]
  /\ todo' = [s \in Session |-> IF s \in S THEN {} ELSE todo[s]]
  /\ time' = [s \in Session |-> IF s \in S THEN 0 ELSE time[s]]

Stop(s) == PidOf[s] \in alive /\ Forget({s})

At(s, p) == pc[s] = p

Open(s) == pc[s] \notin {"start", "end"}

(* PersistedClock sets the counter and truncates its file.                 *)
SetClock(s, n, next) ==
  /\ mem' = [mem EXCEPT ![s] = n]
  /\ clockFile' = 0
  /\ Goto(s, next)

(* PersistedClock.Write: the file has been truncated, now it is filled.    *)
Fill(s, from, to) ==
  /\ At(s, from)
  /\ clockFile' = mem[s]
  /\ Goto(s, to)
  /\ UNCHANGED <<alive, crashes, lockVars, editFile, born, mem, todo, time, ghosts>>

-----------------------------------------------------------------------------
(* The clocks of a repository *)

(* GetOrCreateClock: the clock in memory, else the one on disk.  Nothing   *)
(* (0) when the file is broken: the caller fails.                          *)
Clock(s) == IF mem[s] # 0 THEN mem[s] ELSE clockFile

Readable(s) == Clock(s) \notin {0, None}

(* NewPersistedClock: a clock without a file gets one, which says 1.       *)
NewClock(s, from, to) ==
  /\ At(s, from)
  /\ Clock(s) = None
  /\ SetClock(s, 1, to)
  /\ UNCHANGED <<alive, crashes, lockVars, editFile, born, todo, time, ghosts>>

(* The edit clock gets its file, if it has none.                           *)
NewEditClock(s, from, to) ==
  /\ At(s, from)
  /\ editFile' = TRUE
  /\ Goto(s, to)
  /\ UNCHANGED <<alive, crashes, lockVars, clockFile, born, mem, todo, time, ghosts>>

(* readBug: the clock witnesses the time of a ticket that is read, then it *)
(* is the turn of the edit clock.                                          *)
ReadTicket(s, from, n, to) ==
  /\ At(s, from)
  /\ Readable(s)
  /\ SetClock(s, IF n < Clock(s) THEN Clock(s) ELSE n + 1, to)
  /\ UNCHANGED <<alive, crashes, lockVars, editFile, born, todo, time, ghosts>>

-----------------------------------------------------------------------------
(* repository.NewGitRepo loads the clocks.  If one of them has no file, or *)
(* a file that cannot be parsed, they are rebuilt from the tickets.        *)
Times == {born[i] : i \in 1 .. Len(born)}

OpenRepo(s) ==
  /\ At(s, "start")
  /\ mem' = [mem EXCEPT ![s] = IF clockFile = None THEN 0 ELSE clockFile]
  /\ todo' = [todo EXCEPT ![s] = IF mem'[s] = 0 \/ ~editFile THEN Times ELSE {}]
  /\ overlapped' = (overlapped \/ \E u \in Session \ {s} : Open(u))
  /\ Goto(s, IF todo'[s] = {} THEN "check" ELSE "load")
  /\ UNCHANGED <<alive, crashes, lockVars, clockFile, editFile, born, time, raced, cut>>

(* Fault: the tickets are taken as read.                                   *)
LoadNothing(s, n) ==
  /\ At(s, "load")
  /\ n \in todo[s]
  /\ todo' = [todo EXCEPT ![s] = @ \ {n}]
  /\ UNCHANGED <<alive, crashes, lockVars, clockFile, editFile, mem, pc, born, time, ghosts>>

(* bug.ClockLoader: a ticket that was read is witnessed once more, by the  *)
(* loop that receives it while the next one may be read already.           *)
LoadTicket(s, n) ==
  /\ At(s, "load")
  /\ n \in todo[s]
  /\ Readable(s) /\ n < Clock(s) /\ editFile
  /\ todo' = [todo EXCEPT ![s] = @ \ {n}]
  /\ SetClock(s, Clock(s), "fillLoad")
  /\ UNCHANGED <<alive, crashes, lockVars, editFile, born, time, ghosts>>

(* A clock file that cannot be parsed stops the loader ...                 *)
LoadFails(s) ==
  /\ At(s, "load")
  /\ todo[s] # {} /\ Clock(s) = 0
  /\ Stop(s)
  /\ UNCHANGED <<alive, crashes, lockVars, clocks, born, ghosts>>

(* ... otherwise the repository is open when all tickets have been read.   *)
Loaded(s) ==
  /\ At(s, "load")
  /\ todo[s] = {}
  /\ Goto(s, "check")
  /\ UNCHANGED <<alive, crashes, lockVars, clocks, memory, born, ghosts>>

LoadClocks(s) ==
  \/ NewClock(s, "load", "fillFirst") /\ todo[s] # {}
  \/ Fill(s, "fillFirst", "load")
  \/ \E n \in todo[s] : ReadTicket(s, "load", n, "fillRead") \/ LoadTicket(s, n)
  \/ Fill(s, "fillRead", "editRead")
  \/ NewEditClock(s, "editRead", "load")
  \/ Fill(s, "fillLoad", "load")
  \/ LoadFails(s) \/ Loaded(s)

-----------------------------------------------------------------------------
(* repoIsAvailable, up to the removal of a stale file: a lock file without *)
(* a pid is an error, the pid of a running process too.                    *)
IsRunning(p) == p \in alive

(* Fault: a lock with the own pid is no obstacle. *)
RefusesOthers(s) ==
  lock.pid = None \/ (IsRunning(lock.pid) /\ lock.pid # PidOf[s])

Refuses(s) == lock.pid = None \/ IsRunning(lock.pid)

Check(s) ==
  /\ At(s, "check")
  /\ \/ /\ ~Exists
        /\ Goto(s, "create") /\ UNCHANGED memory
     \/ /\ Exists /\ ~Refuses(s)
        /\ Goto(s, "remove") /\ UNCHANGED memory
     \/ /\ Exists /\ Refuses(s)
        /\ Stop(s)
  /\ raced' = (raced \/ (pc'[s] # "end" /\ \E u \in Session : u # s /\ pc[u] \in Opening))
  /\ UNCHANGED <<alive, crashes, lockVars, clocks, born, overlapped, cut>>

(* The removal is by name: it takes whatever file is there by now.         *)
RemoveStale(s) ==
  /\ At(s, "remove")
  /\ lock' = NoFile
  /\ IF Exists THEN Goto(s, "create") /\ UNCHANGED memory ELSE Stop(s)
  /\ UNCHANGED <<alive, crashes, files, handle, clocks, born, ghosts>>

(* RepoCache.lock: os.Create empties a file that is there.                 *)
CreateLock(s) ==
  /\ At(s, "create")
  /\ files' = IF Exists THEN files ELSE files + 1
  /\ LET f == IF Exists THEN lock.file ELSE files + 1
     IN  /\ lock' = [file |-> f, pid |-> None]
         /\ handle' = [handle EXCEPT ![s] = f]
  /\ Goto(s, "write")
  /\ UNCHANGED <<alive, crashes, clocks, memory, born, ghosts>>

(* The pid goes to the file that was created, removed or not; the file is  *)
(* closed.                                                                 *)
WritePid(s) ==
  /\ At(s, "write")
  /\ lock' = IF Exists /\ lock.file = handle[s]
             THEN [file |-> lock.file, pid |-> PidOf[s]]
             ELSE lock
  /\ handle' = [handle EXCEPT ![s] = 0]
  /\ Goto(s, "build")
  /\ UNCHANGED <<alive, crashes, files, clocks, memory, born, ghosts>>

(* NewNamedRepoCache loads or builds the cache with the lock in its hands, *)
(* and returns without giving it back when that fails.  The tickets that   *)
(* are read to build it are among those that are read in "hold".           *)
LoadCache(s) ==
  /\ At(s, "build")
  /\ \/ Goto(s, "hold") /\ UNCHANGED memory
     \/ Stop(s)
  /\ UNCHANGED <<alive, crashes, lockVars, clocks, born, ghosts>>

-----------------------------------------------------------------------------
(* Fault: a broken clock counts as zero.                                   *)
TakeAnyTime(s) ==
  /\ At(s, "hold")
  /\ Len(born) < MaxTickets
  /\ editFile /\ Clock(s) # None
  /\ time' = [time EXCEPT ![s] = Clock(s)]
  /\ SetClock(s, Clock(s) + 1, "fillTime")
  /\ UNCHANGED <<alive, crashes, lockVars, editFile, born, todo, ghosts>>

(* Bug.Commit of a new ticket takes a time from the edit clock, which has  *)
(* a file from then on, then a create time ...                             *)
TakeTime(s) ==
  /\ At(s, "hold")
  /\ Len(born) < MaxTickets
  /\ editFile /\ Readable(s)
  /\ time' = [time EXCEPT ![s] = Clock(s)]
  /\ SetClock(s, Clock(s) + 1, "fillTime")
  /\ UNCHANGED <<alive, crashes, lockVars, editFile, born, todo, ghosts>>

(* ... and in the end sets the ref of the ticket.                          *)
CommitTicket(s) ==
  /\ At(s, "commit")
  /\ born' = Append(born, time[s])
  /\ time' = [time EXCEPT ![s] = 0]
  /\ Goto(s, "hold")
  /\ UNCHANGED <<alive, crashes, lockVars, clockFile, editFile, mem, todo, ghosts>>

(* Tickets are created, and read, with the clocks there are or new ones.   *)
(* When a ticket is read here the edit clock has a file, unless sessions   *)
(* overlap.                                                                *)
Work(s) ==
  \/ NewEditClock(s, "hold", "hold")
  \/ NewClock(s, "hold", "fillNew") \/ Fill(s, "fillNew", "hold")
  \/ TakeTime(s) \/ Fill(s, "fillTime", "commit") \/ CommitTicket(s)
  \/ \E n \in Times : ReadTicket(s, "hold", n, "fillSeen")
  \/ Fill(s, "fillSeen", "hold")

-----------------------------------------------------------------------------
(* RepoCache.Close removes the lock file by name.                          *)
Close(s) ==
  /\ At(s, "hold")
  /\ lock' = NoFile
  /\ Stop(s)
  /\ UNCHANGED <<alive, crashes, files, handle, clocks, born, ghosts>>

(* A command that returns an error skips its post-run hook, which is the   *)
(* one that closes; a request closes in any case.                          *)
Fail(s) ==
  /\ pc[s] \in Working \ {"build"}
  /\ lock' = IF PidOf[s] \in Server THEN NoFile ELSE lock
  /\ Stop(s)
  /\ UNCHANGED <<alive, crashes, files, handle, clocks, born, ghosts>>

(* A command that is interrupted closes and exits.                         *)
Interrupt(s) ==
  /\ pc[s] \in Working \ {"build"}
  /\ PidOf[s] \notin Server
  /\ lock' = NoFile
  /\ Stop(s)
  /\ alive' = alive \ {PidOf[s]}
  /\ UNCHANGED <<crashes, files, handle, clocks, born, ghosts>>

(* The process of a command exits when the command is done.                *)
Exit(p) ==
  /\ p \in alive \ Server
  /\ \A s \in Session : PidOf[s] = p => At(s, "end")
  /\ alive' = alive \ {p}
  /\ UNCHANGED <<crashes, pc, lockVars, clocks, memory, born, ghosts>>

(* A process dies, and every session in it.  If that is while it rebuilds  *)
(* the clocks, and both have files by then, nobody will rebuild them again.*)
Crash(p) ==
  /\ p \in alive
  /\ crashes < MaxCrashes
  /\ crashes' = crashes + 1
  /\ alive' = alive \ {p}
  /\ Forget({s \in Session : PidOf[s] = p})
  /\ cut' = (cut \/ (editFile /\ \E s \in Session :
                        PidOf[s] = p /\ pc[s] \in Loading /\ todo[s] # {}))
  /\ handle' = [s \in Session |-> IF PidOf[s] = p THEN 0 ELSE handle[s]]
  /\ UNCHANGED <<lock, files, clocks, born, raced, overlapped>>

Next ==
  \/ \E s \in Session :
       \/ OpenRepo(s) \/ LoadClocks(s)
       \/ Check(s) \/ RemoveStale(s) \/ CreateLock(s) \/ WritePid(s)
       \/ LoadCache(s) \/ Work(s)
       \/ Close(s) \/ Fail(s) \/ Interrupt(s)
  \/ \E p \in Pid : Exit(p) \/ Crash(p)

Spec == Init /\ [][Next]_vars

-----------------------------------------------------------------------------
(* One session at a time works on a clone, whatever crashes, fails or is   *)
(* interrupted before it, unless two of them found the clone free at the   *)
(* same time: the race that repoIsAvailable admits is the only one.        *)
Exclusive ==
  ~raced => \A s, u \in Session :
              pc[s] \in Working /\ pc[u] \in Working => s = u

(* doc/model.md: the creation time of a ticket is "the highest time value  *)
(* we are aware of plus one".                                              *)
CreateOrder == \A i, j \in 1 .. Len(born) : i < j => born[i] < born[j]

(* It is, across crashes, failures and restarts, with two exceptions: a    *)
(* session loads its clocks while another one is open; or a rebuild of the *)
(* clocks is cut short when both have files already, which then stay       *)
(* behind the tickets.  A rebuild that is cut short earlier, a clock that  *)
(* is cut short while it is written, and a time that is never used do no   *)
(* harm.                                                                   *)
CreateOrderAlone == ~overlapped /\ ~cut => CreateOrder

(* A rebuild of the clocks that is cut short is made up for: no crash      *)
(* alone makes a session give out a create time that is not past those of  *)
(* all tickets.                                                            *)
CreateOrderAfterCrash == ~overlapped => CreateOrder

(* repoIsAvailable "will cleanup the lock file if the corresponding        *)
(* process is not there anymore": nobody is refused because of a process   *)
(* that is gone.                                                           *)
StaleLockCleaned ==
  [][\A s \in Session :
       At(s, "check") /\ pc'[s] = "end" /\ PidOf[s] \in alive' =>
         \/ lock.pid \in alive
         \/ \E u \in Session \ {s} : pc[u] \in Inside]_vars

(* repoIsAvailable checks that the clone is not "locked by a Cache": a     *)
(* running server holds the lock only while one of its requests does.      *)
LockedByCache ==
  lock.pid \in Server \cap alive =>
    \E s \in Session : PidOf[s] = lock.pid /\ pc[s] \in Inside

(* ClockLoader: a clock that is "not present or broken" is rebuilt when    *)
(* the repository is opened, which therefore does not fail.                *)
BrokenClockRebuilt ==
  [][\A s \in Session :
       At(s, "load") /\ PidOf[s] \in alive' => pc'[s] # "end"]_vars
=============================================================================
