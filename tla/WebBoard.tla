------------------------------ MODULE WebBoard ------------------------------
(***************************************************************************)
(* The board of the web interface: the pages open in browsers              *)
(* (webui/static/src/js/home.js), the requests they send, the handlers of  *)
(* the server (webui/webui.go), each with a RepoCache of its own, and the  *)
(* commands other users run on the same clone.                             *)
(*                                                                         *)
(* A page shows every ticket in the column of a status.  Dragging a ticket *)
(* moves one placeholder from column to column; dropping it asks the       *)
(* server to set the status, and the ticket follows when the answer comes. *)
(* Where in its column a ticket stands is left out, and so is the alert    *)
(* that shows the text of an answer until it is clicked.                   *)
(***************************************************************************)
EXTENDS Integers, SequencesExt

CONSTANTS Page,        \* tabs
          Request,     \* requests that may be under way at one time
          Ticket,
          Link,        \* another thing that can be dragged: a link of the side bar
          Column,      \* the statuses, one column each
          First,       \* the status of new tickets
          Transition,  \* the changes of status the workflow admits
          None,        \* no page, no column, nothing dragged
          MaxEdits,    \* bound: drops, and changes by commands
          MaxDeaths    \* bound: times the server dies

ASSUME ColumnAssumption == First \in Column /\ Transition \subseteq Column \X Column
ASSUME NoneAssumption == None \notin Page \cup Column \cup Ticket \cup {Link}
ASSUME LinkAssumption == Link \notin Ticket

VARIABLES chain,    \* chain[t]: the statuses t has had, in the order of its commits
          excerpt,  \* excerpt[t]: the status in the cache file of the clone
          lock,     \* the lock file: there is none, it is empty, it has the pid
                    \* of the server, or that of a command
          cli,      \* a command has the clone open
          at,       \* at[r]: where request r is
          job,      \* job[r]: what it asks for, and the page that waits for it
          base,     \* base[r]: the ticket as its RepoCache has read it
          seen,     \* seen[r]: the excerpts in the memory of its RepoCache
          ok,       \* ok[r]: the answer is a success
          mode,     \* mode[p]: there is no board, it is loading, it is open
          place,    \* place[p][t]: the column that shows t
          hole,     \* hole[p]: the column the placeholder stands in
          shown,    \* shown[p]: the placeholder is displayed
          drag,     \* drag[p]: what is being dragged
          edits,    \* drops and changes so far
          deaths,   \* times the server has died
          raced,    \* two sessions found the clone free at the same time
          left,     \* the lock file is nobody's: what created it failed or died
          staged,   \* tickets whose excerpt was written, but not their commit
          crossed,  \* crossed[p]: a drag began before the last drop was answered
          gone,     \* gone[p]: a drag was given up, or an answer never came
          others    \* others[p]: tickets someone else changed since p was read, or
                    \* whose excerpt told of a commit that failed when it was

store   == <<chain, excerpt>>
request == <<at, job, base, seen, ok>>
board   == <<mode, place, hole, shown, drag>>
counts  == <<edits, deaths>>
ghosts  == <<raced, left, staged, crossed, gone, others>>
vars    == <<store, lock, cli, request, board, counts, ghosts>>

Item   == Ticket \cup {Link}
Inside == {"write", "read", "stage", "commit", "close"}
Places == {"free", "check", "take", "answered"} \cup Inside

Job == [kind : {"index", "set"}, page : Page \cup {None},
        item : Item \cup {None}, column : Column \cup {None}]

NoJob == [kind |-> "index", page |-> None, item |-> None, column |-> None]

TypeOK ==
  /\ chain \in [Ticket -> Seq(Column)]
  /\ excerpt \in [Ticket -> Column]
  /\ lock \in {"free", "empty", "server", "cli"} /\ cli \in BOOLEAN
  /\ at \in [Request -> Places]
  /\ job \in [Request -> Job]
  /\ base \in [Request -> Seq(Column)]
  /\ seen \in [Request -> [Ticket -> Column]]
  /\ ok \in [Request -> BOOLEAN]
  /\ mode \in [Page -> {"closed", "loading", "open"}]
  /\ place \in [Page -> [Ticket -> Column]]
  /\ hole \in [Page -> Column \cup {None}]
  /\ shown \in [Page -> BOOLEAN]
  /\ drag \in [Page -> Item \cup {None}]
  /\ edits \in Nat /\ deaths \in Nat
  /\ raced \in BOOLEAN /\ left \in BOOLEAN /\ staged \subseteq Ticket
  /\ crossed \in [Page -> BOOLEAN] /\ gone \in [Page -> BOOLEAN]
  /\ others \in [Page -> SUBSET Ticket]

AllFirst == [t \in Ticket |-> First]

Init ==
  /\ chain = [t \in Ticket |-> <<First>>] /\ excerpt = AllFirst
  /\ lock = "free" /\ cli = FALSE
  /\ at = [r \in Request |-> "free"] /\ job = [r \in Request |-> NoJob]
  /\ base = [r \in Request |-> << >>] /\ seen = [r \in Request |-> AllFirst]
  /\ ok = [r \in Request |-> FALSE]
  /\ mode = [p \in Page |-> "closed"] /\ place = [p \in Page |-> AllFirst]
  /\ hole = [p \in Page |-> None] /\ shown = [p \in Page |-> FALSE]
  /\ drag = [p \in Page |-> None]
  /\ edits = 0 /\ deaths = 0
  /\ raced = FALSE /\ left = FALSE /\ staged = {}
  /\ crossed = [p \in Page |-> FALSE] /\ gone = [p \in Page |-> FALSE]
  /\ others = [p \in Page |-> {}]

-----------------------------------------------------------------------------
At(r, where) == at[r] = where

Goto(r, where) == at' = [at EXCEPT ![r] = where]

(* Fault: a refused request leaves without the deferred Close.             *)
FinishOpen(r, success) ==
  /\ Goto(r, IF success THEN "close" ELSE "answered")
  /\ ok' = [ok EXCEPT ![r] = success]

(* The handler is done: the answer is written before the lock is given     *)
(* back, and sent after that (deferWrite).                                 *)
Finish(r, success) ==
  /\ Goto(r, "close")
  /\ ok' = [ok EXCEPT ![r] = success]

Status(t) == Last(chain[t])

(* The drops of page p that have not been answered.                        *)
Pending(p) == {r \in Request : ~At(r, "free") /\ job[r].page = p /\ job[r].kind = "set"}

(* The page of a request that changes t does not count as another one.     *)
ChangedBy(p, t) ==
  others' = [q \in Page |-> IF q = p THEN others[q] ELSE others[q] \cup {t}]

-----------------------------------------------------------------------------
(* The server: repoCacheMiddleware.  A request that finds the lock file    *)
(* does not wait: it is answered with an error.                            *)

(* Fault: a lock file with the pid of the server is no obstacle.           *)
CheckOthers(r) ==
  /\ At(r, "check")
  /\ IF lock \in {"empty", "cli"}
     THEN Goto(r, "answered") /\ ok' = [ok EXCEPT ![r] = FALSE]
     ELSE Goto(r, "take") /\ UNCHANGED ok
  /\ raced' = (raced \/ (lock = "free" /\ \E u \in Request \ {r} : At(u, "take")))
  /\ UNCHANGED <<store, lock, cli, job, base, seen, board, counts, left, staged, crossed, gone, others>>

Check(r) ==
  /\ At(r, "check")
  /\ IF lock # "free" THEN Goto(r, "answered") /\ ok' = [ok EXCEPT ![r] = FALSE]
                      ELSE Goto(r, "take") /\ UNCHANGED ok
  /\ raced' = (raced \/ (lock = "free" /\ \E u \in Request \ {r} : At(u, "take")))
  /\ UNCHANGED <<store, lock, cli, job, base, seen, board, counts, left, staged, crossed, gone, others>>

(* NewRepoCache creates the lock file, empty ...                           *)
Create(r) ==
  /\ At(r, "take")
  /\ lock' = "empty" /\ left' = FALSE
  /\ Goto(r, "write")
  /\ UNCHANGED <<store, cli, job, base, seen, ok, board, counts, raced, staged, crossed, gone, others>>

(* What the lock file may be once r has written its pid: a file that was   *)
(* removed under it stays removed, and if another request created one      *)
(* since, that is still empty.                                             *)
Written(r) ==
  IF lock # "empty" THEN {lock}
  ELSE {"server"} \cup {x \in {lock} : \E u \in Request \ {r} : At(u, "write")}

(* ... writes its pid to it and loads the excerpts.  handleIndex makes the *)
(* page of them, and of nothing else.  If the pid cannot be written, or    *)
(* neither the cache be loaded nor built, the middleware answers with an   *)
(* error, and leaves the file where it is.                                 *)
Take(r) ==
  /\ At(r, "write")
  /\ \/ /\ lock' \in Written(r)
        /\ seen' = [seen EXCEPT ![r] = excerpt]
        /\ \/ /\ job[r].kind = "index"
              /\ Finish(r, TRUE)
              /\ others' = [p \in Page |-> IF job[r].page = p THEN staged ELSE others[p]]
           \/ /\ job[r].kind = "set"
              /\ Goto(r, "read")
              /\ UNCHANGED <<ok, others>>
        /\ UNCHANGED left
     \/ /\ lock' \in Written(r) \cup {lock}
        /\ left' = (lock' \in {"empty", "server"})
        /\ Goto(r, "answered")
        /\ ok' = [ok EXCEPT ![r] = FALSE]
        /\ UNCHANGED <<seen, others>>
  /\ UNCHANGED <<store, cli, job, base, board, counts, raced, staged, crossed, gone>>

(* setStatus: the id must be the id of a ticket, which is read.            *)
Read(r) ==
  /\ At(r, "read")
  /\ IF job[r].item \in Ticket
     THEN /\ base' = [base EXCEPT ![r] = chain[job[r].item]]
          /\ Goto(r, "stage")
          /\ UNCHANGED ok
     ELSE Finish(r, FALSE) /\ UNCHANGED base
  /\ UNCHANGED <<store, lock, cli, job, seen, board, counts, ghosts>>

(* BugCache.SetStatus: the transition is validated and the operation       *)
(* staged; the excerpts are written with the new status.                   *)
Stage(r) ==
  /\ At(r, "stage")
  /\ LET t == job[r].item
         c == job[r].column
     IN  IF <<Last(base[r]), c>> \in Transition
         THEN /\ seen' = [seen EXCEPT ![r][t] = c]
              /\ excerpt' = seen'[r]
              /\ staged' = staged \cup {t}
              /\ Goto(r, "commit")
              /\ UNCHANGED ok
         ELSE Finish(r, FALSE) /\ UNCHANGED <<seen, excerpt, staged>>
  /\ UNCHANGED <<chain, lock, cli, job, base, board, counts, raced, left, crossed, gone, others>>

(* CommitAsNeeded: the commit goes on top of what was read, the ref is set *)
(* to it and the excerpts are written again; or git fails.                 *)
Commit(r) ==
  /\ At(r, "commit")
  /\ LET t == job[r].item
     IN  \/ /\ chain' = [chain EXCEPT ![t] = Append(base[r], job[r].column)]
            /\ excerpt' = seen[r]
            /\ staged' = staged \ {t}
            /\ ChangedBy(job[r].page, t)
            /\ Finish(r, TRUE)
         \/ /\ Finish(r, FALSE)
            /\ UNCHANGED <<chain, excerpt, staged, others>>
  /\ UNCHANGED <<lock, cli, job, base, seen, board, counts, raced, left, crossed, gone>>

(* RepoCache.Close, deferred by the middleware.                            *)
Close(r) ==
  /\ At(r, "close")
  /\ lock' = "free" /\ left' = FALSE
  /\ Goto(r, "answered")
  /\ UNCHANGED <<store, cli, job, base, seen, ok, board, counts, raced, staged, crossed, gone, others>>

Handle(r) ==
  Check(r) \/ Create(r) \/ Take(r) \/ Read(r) \/ Stage(r) \/ Commit(r) \/ Close(r)

-----------------------------------------------------------------------------
(* The browser. *)

(* The request is over, and what its goroutine held is gone.               *)
Release(r) ==
  /\ Goto(r, "free")
  /\ job' = [job EXCEPT ![r] = NoJob]
  /\ base' = [base EXCEPT ![r] = << >>]
  /\ seen' = [seen EXCEPT ![r] = AllFirst]
  /\ ok' = [ok EXCEPT ![r] = FALSE]

(* Page p is loaded, or loaded again: what it showed is gone, and nobody   *)
(* waits any more for the answers to its requests.                         *)
Load(p, r) ==
  /\ At(r, "free")
  /\ mode[p] # "loading"
  /\ Goto(r, "check")
  /\ job' = [u \in Request |->
               IF u = r THEN [NoJob EXCEPT !.page = p]
               ELSE IF job[u].page = p THEN [job[u] EXCEPT !.page = None] ELSE job[u]]
  /\ mode' = [mode EXCEPT ![p] = "loading"]
  /\ place' = [place EXCEPT ![p] = AllFirst]
  /\ hole' = [hole EXCEPT ![p] = None] /\ shown' = [shown EXCEPT ![p] = FALSE]
  /\ drag' = [drag EXCEPT ![p] = None]
  /\ crossed' = [crossed EXCEPT ![p] = FALSE] /\ gone' = [gone EXCEPT ![p] = FALSE]
  /\ UNCHANGED <<store, lock, cli, base, seen, ok, counts, raced, left, staged, others>>

(* The page comes, or an error in its place.                               *)
Show(r) ==
  /\ At(r, "answered")
  /\ job[r].kind = "index" /\ job[r].page # None
  /\ LET p == job[r].page
     IN  IF ok[r]
         THEN /\ mode' = [mode EXCEPT ![p] = "open"]
              /\ place' = [place EXCEPT ![p] = seen[r]]
         ELSE mode' = [mode EXCEPT ![p] = "closed"] /\ UNCHANGED place
  /\ Release(r)
  /\ UNCHANGED <<store, lock, cli, hole, shown, drag, counts, ghosts>>

(* An answer nobody waits for. *)
Ignore(r) ==
  /\ At(r, "answered")
  /\ job[r].page = None
  /\ Release(r)
  /\ UNCHANGED <<store, lock, cli, board, counts, ghosts>>

(* Fault: the column the drag came from, as an object and not its name.    *)
DragOverNothing(p, c) ==
  /\ drag[p] # None
  /\ hole' = [hole EXCEPT ![p] = drag[p]]
  /\ UNCHANGED <<store, lock, cli, request, mode, place, shown, drag, counts, ghosts>>

(* dragstart of a ticket displays the placeholder, where it last was.      *)
DragStart(p, x) ==
  /\ mode[p] = "open" /\ drag[p] = None
  /\ drag' = [drag EXCEPT ![p] = x]
  /\ shown' = [shown EXCEPT ![p] = @ \/ x \in Ticket]
  /\ crossed' = [crossed EXCEPT ![p] = @ \/ Pending(p) # {}]
  /\ UNCHANGED <<store, lock, cli, request, mode, place, hole, counts,
                 raced, left, staged, gone, others>>

(* dragover takes the placeholder to the column under the mouse.           *)
DragOver(p, c) ==
  /\ drag[p] # None
  /\ hole' = [hole EXCEPT ![p] = c]
  /\ UNCHANGED <<store, lock, cli, request, mode, place, shown, drag, counts, ghosts>>

(* drop on column c, up to the first await: the request is sent.  The last *)
(* dragover before it was on the same column.                              *)
Drop(p, r, c) ==
  /\ drag[p] # None /\ At(r, "free")
  /\ edits < MaxEdits /\ edits' = edits + 1
  /\ Goto(r, "check")
  /\ job' = [job EXCEPT ![r] = [kind |-> "set", page |-> p, item |-> drag[p], column |-> c]]
  /\ hole' = [hole EXCEPT ![p] = c]
  /\ drag' = [drag EXCEPT ![p] = None]
  /\ UNCHANGED <<store, lock, cli, base, seen, ok, mode, place, shown, deaths, ghosts>>

(* A drag that ends outside the columns: there is no handler for it.       *)
GiveUp(p) ==
  /\ drag[p] # None
  /\ drag' = [drag EXCEPT ![p] = None]
  /\ gone' = [gone EXCEPT ![p] = TRUE]
  /\ UNCHANGED <<store, lock, cli, request, mode, place, hole, shown, counts,
                 raced, left, staged, crossed, others>>

(* Fault: the ticket follows the placeholder, whatever the answer.         *)
AnswerAlways(r) ==
  /\ At(r, "answered")
  /\ job[r].kind = "set" /\ job[r].page # None
  /\ LET p == job[r].page
     IN  /\ shown' = [shown EXCEPT ![p] = FALSE]
         /\ place' = IF job[r].item \in Ticket
                     THEN [place EXCEPT ![p][job[r].item] = hole[p]] ELSE place
  /\ Release(r)
  /\ UNCHANGED <<store, lock, cli, mode, hole, drag, counts, ghosts>>

(* Fault: the placeholder is hidden when the ticket is moved.              *)
AnswerHideLate(r) ==
  /\ At(r, "answered")
  /\ job[r].kind = "set" /\ job[r].page # None
  /\ LET p == job[r].page
     IN  IF ok[r] THEN /\ shown' = [shown EXCEPT ![p] = FALSE]
                       /\ place' = [place EXCEPT ![p][job[r].item] = hole[p]]
                  ELSE UNCHANGED <<shown, place>>
  /\ Release(r)
  /\ UNCHANGED <<store, lock, cli, mode, hole, drag, counts, ghosts>>

(* drop, after its awaits: the ticket goes where the placeholder is now.   *)
Answer(r) ==
  /\ At(r, "answered")
  /\ job[r].kind = "set" /\ job[r].page # None
  /\ LET p == job[r].page
     IN  /\ shown' = [shown EXCEPT ![p] = FALSE]
         /\ place' = IF ok[r] THEN [place EXCEPT ![p][job[r].item] = hole[p]] ELSE place
  /\ Release(r)
  /\ UNCHANGED <<store, lock, cli, mode, hole, drag, counts, ghosts>>

-----------------------------------------------------------------------------
(* The environment. *)

(* A command takes the clone ... *)
CliOpen ==
  /\ ~cli /\ lock = "free"
  /\ cli' = TRUE /\ lock' = "cli"
  /\ raced' = (raced \/ \E r \in Request : At(r, "take"))
  /\ UNCHANGED <<store, request, board, counts, left, staged, crossed, gone, others>>

(* ... may set the status of a ticket ... *)
CliChange(t, c) ==
  /\ cli
  /\ edits < MaxEdits /\ edits' = edits + 1
  /\ <<Status(t), c>> \in Transition
  /\ chain' = [chain EXCEPT ![t] = Append(@, c)]
  /\ excerpt' = [excerpt EXCEPT ![t] = c]
  /\ staged' = staged \ {t}
  /\ ChangedBy(None, t)
  /\ UNCHANGED <<lock, cli, request, board, deaths, raced, left, crossed, gone>>

(* ... and closes it. *)
CliClose ==
  /\ cli
  /\ cli' = FALSE /\ lock' = "free" /\ left' = FALSE
  /\ UNCHANGED <<store, request, board, counts, raced, staged, crossed, gone, others>>

(* The server dies and is started again.  The requests under way are lost: *)
(* fetch throws, and the rest of the drop handler never runs.  The next    *)
(* session cleans the lock file of a process that is gone, but cannot      *)
(* parse an empty one, which stays.                                        *)
Lost == {r \in Request : at[r] \notin {"free", "answered"}}

Dies ==
  /\ deaths < MaxDeaths /\ deaths' = deaths + 1
  /\ at'   = [r \in Request |-> IF r \in Lost THEN "free" ELSE at[r]]
  /\ job'  = [r \in Request |-> IF r \in Lost THEN NoJob ELSE job[r]]
  /\ base' = [r \in Request |-> IF r \in Lost THEN << >> ELSE base[r]]
  /\ seen' = [r \in Request |-> IF r \in Lost THEN AllFirst ELSE seen[r]]
  /\ ok'   = [r \in Request |-> IF r \in Lost THEN FALSE ELSE ok[r]]
  /\ lock' = IF lock = "server" THEN "free" ELSE lock
  /\ left' = (lock = "empty")
  /\ mode' = [p \in Page |->
               IF \E r \in Lost : job[r].page = p /\ job[r].kind = "index"
               THEN "closed" ELSE mode[p]]
  /\ gone' = [p \in Page |-> gone[p] \/ Lost \cap Pending(p) # {}]
  /\ others' = [p \in Page |->
                 others[p] \cup ({job[r].item : r \in Lost \cap Pending(p)} \cap Ticket)]
  /\ UNCHANGED <<store, cli, place, hole, shown, drag, edits, raced, staged, crossed>>

Browse(r) == Show(r) \/ Ignore(r) \/ Answer(r)

User(p) ==
  \/ \E r \in Request : Load(p, r)
  \/ \E r \in Request, c \in Column : Drop(p, r, c)
  \/ \E x \in Item : DragStart(p, x)
  \/ \E c \in Column : DragOver(p, c)
  \/ GiveUp(p)

Cli == CliOpen \/ (\E t \in Ticket, c \in Column : CliChange(t, c)) \/ CliClose

Next ==
  \/ \E r \in Request : Handle(r) \/ Browse(r)
  \/ \E p \in Page : User(p)
  \/ Cli
  \/ Dies

Spec == Init /\ [][Next]_vars

(* The goroutines of the server run.  Browsers, users and commands need    *)
(* not do anything.                                                        *)
Fairness == \A r \in Request : WF_vars(Handle(r))

FairSpec == Spec /\ Fairness

-----------------------------------------------------------------------------
(* The lock makes reading, validating and committing one step: what a      *)
(* handler has read is still what is stored when it commits on top of it,  *)
(* so that no change of another request or of a command is overwritten,    *)
(* unless two sessions found the clone free at the same time.              *)
BaseIsCurrent ==
  ~raced => \A r \in Request :
              At(r, "stage") \/ At(r, "commit") => base[r] = chain[job[r].item]

(* An open page shows each ticket in the column of its status, whatever    *)
(* was refused or failed, unless somebody else has changed it since the    *)
(* page was read, the page was made of an excerpt whose commit had failed, *)
(* the drop is not answered yet, or the user began a drag before the last  *)
(* drop was answered: that moves the placeholder, and an answer goes where *)
(* the placeholder is, not where its ticket was dropped.                   *)
BoardFaithful ==
  ~raced =>
    \A p \in Page, t \in Ticket :
      \/ mode[p] # "open" \/ crossed[p] \/ t \in others[p]
      \/ \E r \in Pending(p) : job[r].item = t
      \/ place[p][t] = Status(t)

(* The placeholder is displayed while a ticket is dragged or its drop is   *)
(* under way, and only then, unless drags and answers have crossed, a drag *)
(* was given up, or an answer never came.                                  *)
PlaceholderFaithful ==
  \A p \in Page :
    mode[p] = "open" /\ ~crossed[p] /\ ~gone[p] =>
      (shown[p] <=> \/ drag[p] \in Ticket
                    \/ \E r \in Pending(p) : job[r].item \in Ticket)

(* No request keeps the clone: it gives the lock file back, whatever the   *)
(* handler does and whether the server lives or dies, with two exceptions: *)
(* NewRepoCache failed once it had created the file, or the server died    *)
(* before it had written its pid to it.  Those two leave it behind.        *)
CloneGivenBack ==
  lock \in {"empty", "server"} /\ ~left ~> lock \in {"free", "cli"} \/ left
=============================================================================
