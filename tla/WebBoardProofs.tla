--------------------------- MODULE WebBoardProofs ---------------------------
(***************************************************************************)
(* Proofs about the board of the web interface: with any number of pages,  *)
(* requests, tickets and columns, the lock keeps what a handler has read   *)
(* current until it commits, and an open page shows what is stored.        *)
(***************************************************************************)
EXTENDS WebBoard, TLAPS

-----------------------------------------------------------------------------
(* The invariant *)

(* What a request asks for, and what it has to do with its page: a drop    *)
(* belongs to an open page, whose placeholder stands in a column; a page   *)
(* that loads waits for one request.                                       *)
JobMatches(r) ==
    /\ At(r, "free") => job[r].page = None /\ job[r].kind = "index"
    /\ at[r] \in {"free", "check", "take", "write", "read", "stage", "commit"} => ~ok[r]
    /\ at[r] \in {"read", "stage", "commit"} => job[r].kind = "set"
    /\ at[r] \in {"stage", "commit"} => job[r].item \in Ticket
    /\ job[r].kind = "set" =>
         /\ ok[r] => job[r].item \in Ticket
         /\ job[r].column \in Column
         /\ job[r].page # None =>
              mode[job[r].page] = "open" /\ hole[job[r].page] \in Column
    /\ job[r].kind = "index" /\ job[r].page # None =>
         /\ mode[job[r].page] = "loading"
         /\ \A u \in Request :
              job[u].kind = "index" /\ job[u].page = job[r].page => u = r

JobsMatch == \A r \in Request : JobMatches(r)

(* Nothing is dragged on a page that is not open; and until drags and      *)
(* answers cross, a page has one drop under way and nothing dragged, and   *)
(* the placeholder stays where it was dropped.                             *)
PageMatches(p) ==
    /\ mode[p] # "open" => ~shown[p] /\ drag[p] = None
    /\ ~crossed[p] => \A r \in Pending(p) :
         /\ drag[p] = None /\ hole[p] = job[r].column
         /\ \A u \in Pending(p) : u = r

PagesMatch == \A p \in Page : PageMatches(p)

(* The lock file excludes, as long as two sessions have not found the      *)
(* clone free at the same time.                                            *)
LockInvariant ==
  /\ cli => lock = "cli"
  /\ \A r \in Request :
       /\ At(r, "take") => lock = "free" /\ \A u \in Request : At(u, "take") => u = r
       /\ at[r] \in Inside =>
            lock # "free" /\ ~cli /\ \A u \in Request : at[u] \in Inside => u = r

LockExcludes == ~raced => LockInvariant

(* What the sessions and the excerpts know of the tickets is current.      *)
ExcerptsCurrent == \A t \in Ticket \ staged : excerpt[t] = Status(t)

SessionCurrent(r) ==
  /\ at[r] \in Inside \ {"write"} /\ job[r].kind = "set" => seen[r] = excerpt
  /\ At(r, "stage") \/ At(r, "commit") => base[r] = chain[job[r].item]
  /\ At(r, "commit") => excerpt[job[r].item] = job[r].column
  /\ job[r].kind = "index" /\ job[r].page # None /\ ok[r] =>
       \A t \in Ticket \ others[job[r].page] : seen[r][t] = Status(t)

SessionsCurrent ==
  ~raced => ExcerptsCurrent /\ \A r \in Request : SessionCurrent(r)

(* The status of a ticket is where the page shows it, or where the         *)
(* placeholder stands when the drop of the ticket has succeeded.           *)
Succeeded(p, t) == \E r \in Pending(p) : ok[r] /\ job[r].item = t

BoardOf(p, t) ==
  mode[p] = "open" /\ ~crossed[p] /\ t \notin others[p] =>
    Status(t) = IF Succeeded(p, t) THEN hole[p] ELSE place[p][t]

BoardShows == ~raced => \A p \in Page, t \in Ticket : BoardOf(p, t)

-----------------------------------------------------------------------------
(* Types *)

LEMMA JobFields ==
    ASSUME TypeOK, NEW r \in Request
    PROVE  /\ at[r] \in Places
           /\ job[r].kind \in {"index", "set"}
           /\ job[r].page \in Page \cup {None}
           /\ job[r].item \in Item \cup {None}
           /\ job[r].column \in Column \cup {None}
BY DEF TypeOK, Job

LEMMA NoJobType == NoJob \in Job
BY DEF NoJob, Job

LEMMA TypeInit == Init => TypeOK
<1> SUFFICES ASSUME Init
             PROVE  TypeOK
  OBVIOUS
<1>1. First \in Column
  BY ColumnAssumption
<1>2. AllFirst \in [Ticket -> Column]
  BY <1>1 DEF AllFirst
<1>3. chain \in [Ticket -> Seq(Column)] /\ excerpt \in [Ticket -> Column]
  BY <1>1, <1>2 DEF Init
<1>4. /\ at \in [Request -> Places]
      /\ base \in [Request -> Seq(Column)] /\ ok \in [Request -> BOOLEAN]
  BY DEF Init, Places
<1>5. job \in [Request -> Job] /\ seen \in [Request -> [Ticket -> Column]]
  BY <1>2, NoJobType DEF Init
<1>6. /\ mode \in [Page -> {"closed", "loading", "open"}]
      /\ place \in [Page -> [Ticket -> Column]]
      /\ hole \in [Page -> Column \cup {None}] /\ shown \in [Page -> BOOLEAN]
      /\ drag \in [Page -> Item \cup {None}]
  BY <1>2 DEF Init
<1>7. /\ lock \in {"free", "empty", "server", "cli"} /\ cli \in BOOLEAN
      /\ raced \in BOOLEAN /\ left \in BOOLEAN
      /\ edits \in Nat /\ deaths \in Nat /\ staged \subseteq Ticket
      /\ crossed \in [Page -> BOOLEAN] /\ gone \in [Page -> BOOLEAN]
      /\ others \in [Page -> SUBSET Ticket]
  BY DEF Init
<1>8. QED
  BY <1>3, <1>4, <1>5, <1>6, <1>7 DEF TypeOK

LEMMA ReleaseType ==
    ASSUME TypeOK, NEW r, Release(r)
    PROVE  /\ at' \in [Request -> Places] /\ job' \in [Request -> Job]
           /\ base' \in [Request -> Seq(Column)]
           /\ seen' \in [Request -> [Ticket -> Column]]
           /\ ok' \in [Request -> BOOLEAN]
<1>1. AllFirst \in [Ticket -> Column]
  BY ColumnAssumption DEF AllFirst
<1>2. << >> \in Seq(Column) /\ "free" \in Places
  BY DEF Places
<1>3. QED
  BY <1>1, <1>2, NoJobType DEF TypeOK, Release, Goto

LEMMA ChangedByType ==
    ASSUME others \in [Page -> SUBSET Ticket], NEW p, NEW t \in Ticket,
           ChangedBy(p, t)
    PROVE  /\ others' \in [Page -> SUBSET Ticket]
           /\ \A q \in Page : others'[q] =
                 IF q = p THEN others[q] ELSE others[q] \cup {t}
<1>1. \A q \in Page : others[q] \in SUBSET Ticket
  OBVIOUS
<1>2. \A q \in Page :
        (IF q = p THEN others[q] ELSE others[q] \cup {t}) \in SUBSET Ticket
  BY <1>1
<1>3. QED
  BY <1>2 DEF ChangedBy

LEMMA HandleTypes ==
    ASSUME TypeOK, JobsMatch, NEW r \in Request, Handle(r)
    PROVE  TypeOK'
<1> USE DEF store, request, board, counts, ghosts
<1>1. CASE Check(r)
  <2>1. at' \in [Request -> Places] /\ ok' \in [Request -> BOOLEAN]
    BY <1>1 DEF Check, Goto, TypeOK, Places
  <2>2. raced' \in BOOLEAN
    BY <1>1 DEF Check, TypeOK
  <2>3. QED
    BY <1>1, <2>1, <2>2 DEF Check, TypeOK
<1>2. CASE Take(r)
  <2>1. at' \in [Request -> Places] /\ ok' \in [Request -> BOOLEAN]
    BY <1>2 DEF Take, Goto, Finish, TypeOK, Places, Inside
  <2>2. seen' \in [Request -> [Ticket -> Column]]
    BY <1>2 DEF Take, TypeOK
  <2>3. others' \in [Page -> SUBSET Ticket]
    <3>1. \/ others' = others
          \/ others' = [p \in Page |-> IF job[r].page = p THEN staged ELSE others[p]]
      BY <1>2 DEF Take
    <3>2. others \in [Page -> SUBSET Ticket] /\ staged \in SUBSET Ticket
      BY DEF TypeOK
    <3>3. QED
      BY <3>1, <3>2
  <2>4. lock' \in {"free", "empty", "server", "cli"} /\ left' \in BOOLEAN
    <3>1. lock' \in {lock, "server"}
      BY <1>2 DEF Take, Written
    <3>2. CASE left' = left
      BY <3>1, <3>2 DEF TypeOK
    <3>3. CASE left' = (lock' \in {"empty", "server"})
      BY <3>1, <3>3 DEF TypeOK
    <3>4. QED
      BY <1>2, <3>2, <3>3 DEF Take
  <2>5. QED
    BY <1>2, <2>1, <2>2, <2>3, <2>4 DEF Take, TypeOK
<1>3. CASE Read(r)
  <2>1. at' \in [Request -> Places] /\ ok' \in [Request -> BOOLEAN]
    BY <1>3 DEF Read, Goto, Finish, TypeOK, Places, Inside
  <2>2. base' \in [Request -> Seq(Column)]
    BY <1>3 DEF Read, TypeOK
  <2>3. QED
    BY <1>3, <2>1, <2>2 DEF Read, TypeOK
<1>4. CASE Stage(r)
  <2>1. at' \in [Request -> Places] /\ ok' \in [Request -> BOOLEAN]
    BY <1>4 DEF Stage, Goto, Finish, TypeOK, Places, Inside
  <2>2. job[r].item \in Ticket /\ job[r].column \in Column
    BY <1>4 DEF Stage, JobsMatch, JobMatches, At
  <2>3. seen' \in [Request -> [Ticket -> Column]]
    <3>1. \/ seen' = seen
          \/ seen' = [seen EXCEPT ![r][job[r].item] = job[r].column]
      BY <1>4 DEF Stage
    <3>2. seen \in [Request -> [Ticket -> Column]]
      BY DEF TypeOK
    <3>3. QED
      BY <2>2, <3>1, <3>2
  <2>4. excerpt' \in [Ticket -> Column] /\ staged' \subseteq Ticket
    <3>1. excerpt' = excerpt \/ excerpt' = seen'[r]
      BY <1>4 DEF Stage
    <3>2. staged' = staged \/ staged' = staged \cup {job[r].item}
      BY <1>4 DEF Stage
    <3>3. QED
      BY <2>2, <2>3, <3>1, <3>2 DEF TypeOK
  <2>5. QED
    BY <1>4, <2>1, <2>3, <2>4 DEF Stage, TypeOK
<1>5. CASE Commit(r)
  <2>1. at' \in [Request -> Places] /\ ok' \in [Request -> BOOLEAN]
    BY <1>5 DEF Commit, Goto, Finish, TypeOK, Places, Inside
  <2>2. job[r].item \in Ticket /\ job[r].column \in Column
    BY <1>5 DEF Commit, JobsMatch, JobMatches, At
  <2>3. chain' \in [Ticket -> Seq(Column)]
    <3>1. Append(base[r], job[r].column) \in Seq(Column)
      BY <2>2 DEF TypeOK
    <3>2. \/ chain' = chain
          \/ chain' = [chain EXCEPT ![job[r].item] = Append(base[r], job[r].column)]
      BY <1>5 DEF Commit
    <3>3. QED
      BY <3>1, <3>2 DEF TypeOK
  <2>4. excerpt' \in [Ticket -> Column] /\ staged' \subseteq Ticket
    <3>1. excerpt' = excerpt \/ excerpt' = seen[r]
      BY <1>5 DEF Commit
    <3>2. staged' = staged \/ staged' = staged \ {job[r].item}
      BY <1>5 DEF Commit
    <3>3. QED
      BY <3>1, <3>2 DEF TypeOK
  <2>5. others' \in [Page -> SUBSET Ticket]
    <3>1. others' = others \/ ChangedBy(job[r].page, job[r].item)
      BY <1>5 DEF Commit
    <3>2. others \in [Page -> SUBSET Ticket]
      BY DEF TypeOK
    <3>3. QED
      BY <2>2, <3>1, <3>2, ChangedByType
  <2>6. QED
    BY <1>5, <2>1, <2>3, <2>4, <2>5 DEF Commit, TypeOK
<1>6. CASE Close(r)
  BY <1>6 DEF Close, Goto, TypeOK, Places
<1>7. CASE Create(r)
  <2>1. at' \in [Request -> Places]
    BY <1>7 DEF Create, Goto, TypeOK, Places, Inside
  <2>2. QED
    BY <1>7, <2>1 DEF Create, TypeOK
<1>8. QED
  BY <1>1, <1>2, <1>3, <1>4, <1>5, <1>6, <1>7 DEF Handle

LEMMA BrowseTypes ==
    ASSUME TypeOK, JobsMatch, NEW r \in Request, Browse(r)
    PROVE  TypeOK'
<1> USE DEF store, request, board, counts, ghosts
<1>1. CASE Show(r)
  <2>1. place' \in [Page -> [Ticket -> Column]]
    <3>1. place' = place \/ place' = [place EXCEPT ![job[r].page] = seen[r]]
      BY <1>1 DEF Show
    <3>2. QED
      BY <3>1 DEF TypeOK
  <2>2. mode' \in [Page -> {"closed", "loading", "open"}]
    BY <1>1 DEF Show, TypeOK
  <2>3. Release(r)
    BY <1>1 DEF Show
  <2>4. QED
    BY <1>1, <2>1, <2>2, <2>3, ReleaseType DEF Show, TypeOK
<1>2. CASE Ignore(r)
  <2>1. Release(r)
    BY <1>2 DEF Ignore
  <2>2. QED
    BY <1>2, <2>1, ReleaseType DEF Ignore, TypeOK
<1>3. CASE Answer(r)
  <2>1. Release(r)
    BY <1>3 DEF Answer
  <2>2. job[r].page \in Page /\ hole[job[r].page] \in Column
    BY <1>3, JobFields DEF Answer, JobsMatch, JobMatches
  <2>3. shown' \in [Page -> BOOLEAN]
    BY <1>3 DEF Answer, TypeOK
  <2>4. place' \in [Page -> [Ticket -> Column]]
    BY <1>3, <2>2 DEF Answer, TypeOK
  <2>5. QED
    BY <1>3, <2>1, <2>3, <2>4, ReleaseType DEF Answer, TypeOK
<1>4. QED
  BY <1>1, <1>2, <1>3 DEF Browse

LEMMA UserTypes ==
    ASSUME TypeOK, NEW p \in Page, User(p)
    PROVE  TypeOK'
<1> USE DEF store, request, board, counts, ghosts
<1>1. ASSUME NEW r \in Request, Load(p, r)
      PROVE  TypeOK'
  <2>1. at' \in [Request -> Places]
    BY <1>1 DEF Load, Goto, TypeOK, Places
  <2>2. job' \in [Request -> Job]
    <3>1. \A j \in Job : [j EXCEPT !.page = None] \in Job
      BY DEF Job
    <3>2. [NoJob EXCEPT !.page = p] \in Job
      BY DEF NoJob, Job
    <3>3. QED
      BY <1>1, <3>1, <3>2 DEF Load, TypeOK
  <2>3. AllFirst \in [Ticket -> Column]
    BY ColumnAssumption DEF AllFirst
  <2>4. place' \in [Page -> [Ticket -> Column]]
    BY <1>1, <2>3 DEF Load, TypeOK
  <2>5. /\ mode' \in [Page -> {"closed", "loading", "open"}]
        /\ hole' \in [Page -> Column \cup {None}] /\ shown' \in [Page -> BOOLEAN]
        /\ drag' \in [Page -> Item \cup {None}]
    BY <1>1 DEF Load, TypeOK
  <2>6. crossed' \in [Page -> BOOLEAN] /\ gone' \in [Page -> BOOLEAN]
    BY <1>1 DEF Load, TypeOK
  <2>7. QED
    BY <1>1, <2>1, <2>2, <2>4, <2>5, <2>6 DEF Load, TypeOK
<1>2. ASSUME NEW r \in Request, NEW c \in Column, Drop(p, r, c)
      PROVE  TypeOK'
  <2>1. at' \in [Request -> Places]
    BY <1>2 DEF Drop, Goto, TypeOK, Places
  <2>2. job' \in [Request -> Job]
    <3>1. [kind |-> "set", page |-> p, item |-> drag[p], column |-> c] \in Job
      BY DEF TypeOK, Job
    <3>2. QED
      BY <1>2, <3>1 DEF Drop, TypeOK
  <2>3. /\ hole' \in [Page -> Column \cup {None}]
        /\ drag' \in [Page -> Item \cup {None}] /\ edits' \in Nat
    BY <1>2 DEF Drop, TypeOK
  <2>4. QED
    BY <1>2, <2>1, <2>2, <2>3 DEF Drop, TypeOK
<1>3. ASSUME NEW x \in Item, DragStart(p, x)
      PROVE  TypeOK'
  <2>1. drag' \in [Page -> Item \cup {None}]
    BY <1>3 DEF DragStart, TypeOK
  <2>2. shown' \in [Page -> BOOLEAN] /\ crossed' \in [Page -> BOOLEAN]
    BY <1>3 DEF DragStart, TypeOK
  <2>3. QED
    BY <1>3, <2>1, <2>2 DEF DragStart, TypeOK
<1>4. ASSUME NEW c \in Column, DragOver(p, c)
      PROVE  TypeOK'
  BY <1>4 DEF DragOver, TypeOK
<1>5. ASSUME GiveUp(p)
      PROVE  TypeOK'
  <2>1. drag' \in [Page -> Item \cup {None}] /\ gone' \in [Page -> BOOLEAN]
    BY <1>5 DEF GiveUp, TypeOK
  <2>2. QED
    BY <1>5, <2>1 DEF GiveUp, TypeOK
<1>6. QED
  BY <1>1, <1>2, <1>3, <1>4, <1>5 DEF User

LEMMA CliTypes ==
    ASSUME TypeOK, Cli
    PROVE  TypeOK'
<1> USE DEF store, request, board, counts, ghosts
<1>1. CASE CliOpen
  BY <1>1 DEF CliOpen, TypeOK
<1>2. ASSUME NEW t \in Ticket, NEW c \in Column, CliChange(t, c)
      PROVE  TypeOK'
  <2>1. chain' \in [Ticket -> Seq(Column)]
    BY <1>2 DEF CliChange, TypeOK
  <2>2. excerpt' \in [Ticket -> Column] /\ staged' \subseteq Ticket /\ edits' \in Nat
    BY <1>2 DEF CliChange, TypeOK
  <2>3. others' \in [Page -> SUBSET Ticket]
    BY <1>2 DEF CliChange, ChangedBy, TypeOK
  <2>4. QED
    BY <1>2, <2>1, <2>2, <2>3 DEF CliChange, TypeOK
<1>3. CASE CliClose
  BY <1>3 DEF CliClose, TypeOK
<1>4. QED
  BY <1>1, <1>2, <1>3 DEF Cli

LEMMA DiesTypes ==
    ASSUME TypeOK, Dies
    PROVE  TypeOK'
<1>1. at' \in [Request -> Places]
  BY DEF Dies, TypeOK, Places
<1>2. job' \in [Request -> Job]
  BY NoJobType DEF Dies, TypeOK
<1>3. base' \in [Request -> Seq(Column)] /\ ok' \in [Request -> BOOLEAN]
  <2>1. << >> \in Seq(Column)
    OBVIOUS
  <2>2. QED
    BY <2>1 DEF Dies, TypeOK
<1>4. AllFirst \in [Ticket -> Column]
  BY ColumnAssumption DEF AllFirst
<1>5. seen' \in [Request -> [Ticket -> Column]]
  BY <1>4 DEF Dies, TypeOK
<1>6. mode' \in [Page -> {"closed", "loading", "open"}]
  BY DEF Dies, TypeOK
<1>7. gone' \in [Page -> BOOLEAN]
  BY DEF Dies, TypeOK
<1>8. others' \in [Page -> SUBSET Ticket]
  BY DEF Dies, TypeOK
<1>9. /\ lock' \in {"free", "empty", "server", "cli"} /\ left' \in BOOLEAN
      /\ deaths' \in Nat
  BY DEF Dies, TypeOK
<1>10. QED
  BY <1>1, <1>2, <1>3, <1>5, <1>6, <1>7, <1>8, <1>9 DEF Dies, TypeOK, store

LEMMA TypeStep == TypeOK /\ JobsMatch /\ [Next]_vars => TypeOK'
<1> SUFFICES ASSUME TypeOK, JobsMatch, [Next]_vars
             PROVE  TypeOK'
  OBVIOUS
<1>1. CASE UNCHANGED vars
  BY <1>1 DEF vars, store, request, board, counts, ghosts, TypeOK
<1>2. QED
  BY <1>1, HandleTypes, BrowseTypes, UserTypes, CliTypes, DiesTypes DEF Next

-----------------------------------------------------------------------------
(* Jobs and pages *)

LEMMA JobsInit == Init => JobsMatch
BY DEF Init, JobsMatch, JobMatches, NoJob, At, Inside

(* A handler moves its request on, and leaves the jobs and the pages alone.*)
LEMMA HandleMoves ==
    ASSUME TypeOK, JobsMatch, NEW r \in Request, Handle(r)
    PROVE  /\ UNCHANGED <<job, mode, hole>>
           /\ \A u \in Request : u # r => at'[u] = at[u] /\ ok'[u] = ok[u]
           /\ JobMatches(r)'
<1> USE DEF store, request, board, counts, ghosts
<1>1. JobMatches(r)
  BY DEF JobsMatch
<1>2. CASE Check(r)
  BY <1>1, <1>2 DEF Check, Goto, TypeOK, JobMatches, At, Inside
<1>3. CASE Take(r)
  BY <1>1, <1>3 DEF Take, Goto, Finish, TypeOK, JobMatches, At, Inside
<1>4. CASE Read(r)
  BY <1>1, <1>4 DEF Read, Goto, Finish, TypeOK, JobMatches, At, Inside
<1>5. CASE Stage(r)
  BY <1>1, <1>5 DEF Stage, Goto, Finish, TypeOK, JobMatches, At, Inside
<1>6. CASE Commit(r)
  BY <1>1, <1>6 DEF Commit, Goto, Finish, TypeOK, JobMatches, At, Inside
<1>7. CASE Close(r)
  BY <1>1, <1>7 DEF Close, Goto, TypeOK, JobMatches, At, Inside
<1>8. CASE Create(r)
  BY <1>1, <1>8 DEF Create, Goto, TypeOK, JobMatches, At, Inside
<1>9. QED
  BY <1>2, <1>3, <1>4, <1>5, <1>6, <1>7, <1>8 DEF Handle

(* A request that is over leaves the other ones alone.                     *)
LEMMA ReleaseMoves ==
    ASSUME TypeOK, NEW r \in Request, Release(r)
    PROVE  /\ \A u \in Request : u # r => /\ at'[u] = at[u] /\ ok'[u] = ok[u]
                                          /\ job'[u] = job[u] /\ seen'[u] = seen[u]
                                          /\ base'[u] = base[u]
           /\ at'[r] = "free" /\ ok'[r] = FALSE
           /\ job'[r].page = None /\ job'[r].kind = "index"
BY DEF TypeOK, Release, Goto, NoJob

LEMMA HandleJobs ==
    ASSUME TypeOK, JobsMatch, NEW r \in Request, Handle(r)
    PROVE  JobsMatch'
<1> SUFFICES ASSUME NEW q \in Request
             PROVE  JobMatches(q)'
  BY DEF JobsMatch
<1>1. CASE q = r
  BY <1>1, HandleMoves
<1>2. CASE q # r
  <2>1. JobMatches(q)
    BY DEF JobsMatch
  <2>2. /\ job' = job /\ mode' = mode /\ hole' = hole
        /\ at'[q] = at[q] /\ ok'[q] = ok[q]
    BY <1>2, HandleMoves
  <2>3. QED
    BY <2>1, <2>2 DEF JobMatches, At
<1>3. QED
  BY <1>1, <1>2

LEMMA BrowseJobs ==
    ASSUME TypeOK, JobsMatch, NEW r \in Request, Browse(r)
    PROVE  JobsMatch'
<1> SUFFICES ASSUME NEW q \in Request
             PROVE  JobMatches(q)'
  BY DEF JobsMatch
<1>1. Release(r)
  BY DEF Browse, Show, Ignore, Answer
<1>2. JobMatches(q) /\ JobMatches(r)
  BY DEF JobsMatch
<1>3. /\ \A u \in Request : u # r => /\ at'[u] = at[u] /\ ok'[u] = ok[u]
                                     /\ job'[u] = job[u]
      /\ at'[r] = "free" /\ ok'[r] = FALSE
      /\ job'[r].page = None /\ job'[r].kind = "index"
  BY <1>1, ReleaseMoves
<1>4. hole' = hole
  BY DEF Browse, Show, Ignore, Answer, board
<1>5. \/ mode' = mode
      \/ /\ job[r].kind = "index" /\ job[r].page # None
         /\ \A p \in Page : p # job[r].page => mode'[p] = mode[p]
  BY DEF Browse, Show, Ignore, Answer, board, TypeOK
<1>6. CASE q = r
  BY <1>3, <1>6 DEF JobMatches, At, Inside
<1>7. CASE q # r
  <2>1. at'[q] = at[q] /\ ok'[q] = ok[q] /\ job'[q] = job[q]
    BY <1>3, <1>7
  <2>2. job[q].page # None => mode'[job[q].page] = mode[job[q].page]
    <3>1. job[q].page # None => job[q].page \in Page
      BY JobFields
    <3>2. CASE mode' = mode
      BY <3>2
    <3>3. CASE /\ job[r].kind = "index" /\ job[r].page # None
               /\ \A p \in Page : p # job[r].page => mode'[p] = mode[p]
      <4>1. /\ mode[job[r].page] = "loading"
            /\ \A u \in Request :
                 job[u].kind = "index" /\ job[u].page = job[r].page => u = r
        BY <1>2, <3>3 DEF JobMatches
      <4>2. job[q].page # job[r].page
        BY <1>2, <1>7, <3>3, <4>1, JobFields DEF JobMatches
      <4>3. QED
        BY <3>1, <3>3, <4>2
    <3>4. QED
      BY <1>5, <3>2, <3>3
  <2>3. \A u \in Request :
          job'[u].kind = "index" /\ job'[u].page # None
            => job[u].kind = "index" /\ job[u].page = job'[u].page
    BY <1>3
  <2>4. QED
    BY <1>2, <1>4, <2>1, <2>2, <2>3 DEF JobMatches, At
<1>8. QED
  BY <1>6, <1>7

LEMMA UserJobs ==
    ASSUME TypeOK, JobsMatch, PagesMatch, NEW p \in Page, User(p)
    PROVE  JobsMatch'
<1> SUFFICES ASSUME NEW q \in Request
             PROVE  JobMatches(q)'
  BY DEF JobsMatch
<1> USE DEF store, request, board, counts, ghosts
<1>1. JobMatches(q)
  BY DEF JobsMatch
<1>2. p # None
  BY NoneAssumption
<1>3. ASSUME NEW r \in Request, Load(p, r)
      PROVE  JobMatches(q)'
  <2>1. /\ at[r] = "free" /\ mode[p] # "loading" /\ ok' = ok
        /\ at' = [at EXCEPT ![r] = "check"]
        /\ mode' = [mode EXCEPT ![p] = "loading"]
        /\ hole' = [hole EXCEPT ![p] = None]
    BY <1>3 DEF Load, At, Goto
  <2>2. /\ job'[r].page = p /\ job'[r].kind = "index"
        /\ \A u \in Request : u # r =>
              /\ job'[u].kind = job[u].kind /\ job'[u].item = job[u].item
              /\ job'[u].column = job[u].column
              /\ job'[u].page = IF job[u].page = p THEN None ELSE job[u].page
    <3>1. job' = [u \in Request |->
               IF u = r THEN [NoJob EXCEPT !.page = p]
               ELSE IF job[u].page = p THEN [job[u] EXCEPT !.page = None]
                                       ELSE job[u]]
      BY <1>3 DEF Load
    <3>2. \A j \in Job : LET i == [j EXCEPT !.page = None]
                         IN  /\ i.page = None /\ i.kind = j.kind
                             /\ i.item = j.item /\ i.column = j.column
      BY DEF Job
    <3>3. \A u \in Request : job[u] \in Job
      BY DEF TypeOK
    <3>4. [NoJob EXCEPT !.page = p].page = p /\ [NoJob EXCEPT !.page = p].kind = "index"
      BY DEF NoJob
    <3>5. job'[r].page = p /\ job'[r].kind = "index"
      BY <3>1, <3>4
    <3>6. ASSUME NEW u \in Request, u # r
          PROVE  /\ job'[u].kind = job[u].kind /\ job'[u].item = job[u].item
                 /\ job'[u].column = job[u].column
                 /\ job'[u].page = IF job[u].page = p THEN None ELSE job[u].page
      <4>1. job'[u] = IF job[u].page = p THEN [job[u] EXCEPT !.page = None]
                                         ELSE job[u]
        BY <3>1, <3>6
      <4>2. PICK j \in Job : j = job[u]
        BY <3>3
      <4>3. QED
        BY <3>2, <4>1, <4>2
    <3>7. QED
      BY <3>5, <3>6
  <2>3. \A u \in Request : u # r => at'[u] = at[u]
    BY <2>1 DEF TypeOK
  <2>4. at'[r] = "check" /\ ~ok[r]
    BY <2>1 DEF TypeOK, JobsMatch, JobMatches, At, Inside
  <2>5. /\ mode'[p] = "loading"
        /\ \A x \in Page : x # p => mode'[x] = mode[x] /\ hole'[x] = hole[x]
    BY <2>1 DEF TypeOK
  <2>6. \A u \in Request : job[u].kind = "index" => job[u].page # p
    BY <1>2, <2>1 DEF JobsMatch, JobMatches
  <2>7. CASE q = r
    <3>1. \A u \in Request :
            job'[u].kind = "index" /\ job'[u].page = p => u = r
      BY <1>2, <2>2
    <3>2. QED
      BY <2>1, <2>2, <2>4, <2>5, <2>7, <3>1 DEF JobMatches, At, Inside
  <2>8. CASE q # r
    <3>1. /\ at'[q] = at[q] /\ ok'[q] = ok[q]
          /\ job'[q].kind = job[q].kind /\ job'[q].item = job[q].item
          /\ job'[q].column = job[q].column
          /\ job'[q].page = IF job[q].page = p THEN None ELSE job[q].page
      BY <2>1, <2>2, <2>3, <2>8
    <3>2. job'[q].page # None => /\ job'[q].page = job[q].page /\ job[q].page # p
                                 /\ job[q].page \in Page
      BY <3>1, JobFields
    <3>3. \A u \in Request : job'[u].page # None /\ job'[u].page = job'[q].page
             => u # r /\ job[u].page = job'[u].page /\ job[u].kind = job'[u].kind
      BY <2>2, <3>1, <3>2
    <3>4. QED
      BY <1>1, <2>5, <3>1, <3>2, <3>3 DEF JobMatches, At, Inside
  <2>9. QED
    BY <2>7, <2>8
<1>4. ASSUME NEW r \in Request, NEW c \in Column, Drop(p, r, c)
      PROVE  JobMatches(q)'
  <2>1. /\ at[r] = "free" /\ drag[p] # None /\ ok' = ok /\ mode' = mode
        /\ at' = [at EXCEPT ![r] = "check"]
        /\ hole' = [hole EXCEPT ![p] = c]
        /\ job' = [job EXCEPT ![r] = [kind |-> "set", page |-> p,
                                      item |-> drag[p], column |-> c]]
    BY <1>4 DEF Drop, At, Goto
  <2>2. mode[p] = "open"
    BY <2>1 DEF PagesMatch, PageMatches
  <2>3. /\ job'[r].kind = "set" /\ job'[r].page = p /\ job'[r].column = c
        /\ at'[r] = "check" /\ hole'[p] = c
        /\ \A u \in Request : u # r => job'[u] = job[u] /\ at'[u] = at[u]
        /\ \A x \in Page : x # p => hole'[x] = hole[x]
    BY <2>1 DEF TypeOK
  <2>4. ~ok[r]
    BY <2>1 DEF JobsMatch, JobMatches, At
  <2>5. CASE q = r
    BY <2>1, <2>2, <2>3, <2>4, <2>5 DEF JobMatches, At, Inside
  <2>6. CASE q # r
    <3>1. at'[q] = at[q] /\ ok'[q] = ok[q] /\ job'[q] = job[q] /\ mode' = mode
      BY <2>1, <2>3, <2>6
    <3>2. job[q].page # None => job[q].page \in Page
      BY JobFields
    <3>3. hole[job[q].page] \in Column /\ job[q].page # None
             => hole'[job[q].page] \in Column
      BY <2>3, <3>2
    <3>4. \A u \in Request : job'[u].kind = "index" => job[u] = job'[u]
      BY <2>3
    <3>5. QED
      BY <1>1, <3>1, <3>3, <3>4 DEF JobMatches, At, Inside
  <2>7. QED
    BY <2>5, <2>6
<1>5. ASSUME NEW c \in Column, DragOver(p, c)
      PROVE  JobMatches(q)'
  <2>1. at' = at /\ ok' = ok /\ job' = job /\ mode' = mode
    BY <1>5 DEF DragOver
  <2>2. \A x \in Page : hole'[x] = hole[x] \/ hole'[x] \in Column
    BY <1>5 DEF DragOver, TypeOK
  <2>3. job[q].page # None => job[q].page \in Page
    BY JobFields
  <2>4. QED
    BY <1>1, <2>1, <2>2, <2>3 DEF JobMatches, At
<1>6. ASSUME UNCHANGED <<at, ok, job, mode, hole>>
      PROVE  JobMatches(q)'
  BY <1>1, <1>6 DEF JobMatches, At
<1>7. (\E x \in Item : DragStart(p, x)) \/ GiveUp(p)
        => UNCHANGED <<at, ok, job, mode, hole>>
  BY DEF DragStart, GiveUp
<1>8. QED
  BY <1>3, <1>4, <1>5, <1>6, <1>7 DEF User

LEMMA DiesJobs ==
    ASSUME TypeOK, JobsMatch, Dies
    PROVE  JobsMatch'
<1> SUFFICES ASSUME NEW q \in Request
             PROVE  JobMatches(q)'
  BY DEF JobsMatch
<1>1. JobMatches(q)
  BY DEF JobsMatch
<1>2. /\ \A r \in Request : r \in Lost =>
            /\ at'[r] = "free" /\ ok'[r] = FALSE
            /\ job'[r].page = None /\ job'[r].kind = "index"
      /\ \A r \in Request : r \notin Lost =>
            at'[r] = at[r] /\ ok'[r] = ok[r] /\ job'[r] = job[r]
      /\ hole' = hole
  BY DEF Dies, NoJob
<1>3. CASE q \in Lost
  BY <1>2, <1>3 DEF JobMatches, At, Inside
<1>4. CASE q \notin Lost
  <2>1. at'[q] = at[q] /\ ok'[q] = ok[q] /\ job'[q] = job[q] /\ hole' = hole
    BY <1>2, <1>4
  <2>2. ASSUME job[q].page # None
        PROVE  mode'[job[q].page] = mode[job[q].page]
    <3>1. job[q].page \in Page
      BY <2>2, JobFields
    <3>2. \A r \in Lost : job[r].kind = "index" => job[r].page # job[q].page
      BY <1>1, <1>4, <2>2, JobFields DEF JobsMatch, JobMatches, Lost
    <3>3. QED
      BY <3>1, <3>2 DEF Dies
  <2>3. \A u \in Request : job'[u].page # None => job'[u] = job[u]
    BY <1>2
  <2>4. QED
    BY <1>1, <2>1, <2>2, <2>3 DEF JobMatches, At, Inside
<1>5. QED
  BY <1>3, <1>4

-----------------------------------------------------------------------------
(* The drops under way *)

LEMMA HandlePending ==
    ASSUME TypeOK, JobsMatch, NEW r \in Request, Handle(r), NEW p \in Page
    PROVE  Pending(p)' = Pending(p)
<1>1. \A u \in Request : u # r => at'[u] = at[u]
  BY HandleMoves
<1>2. at[r] # "free" /\ at'[r] # "free" /\ job' = job
  <2>1. at[r] # "free"
    BY DEF Handle, Check, Create, Take, Read, Stage, Commit, Close, At
  <2>2. Check(r) => at'[r] # "free"
    BY DEF Check, Goto, TypeOK
  <2>3. Create(r) \/ Take(r) => at'[r] # "free"
    BY DEF Create, Take, Goto, Finish, TypeOK
  <2>4. Read(r) => at'[r] # "free"
    BY DEF Read, Goto, Finish, TypeOK
  <2>5. Stage(r) => at'[r] # "free"
    BY DEF Stage, Goto, Finish, TypeOK
  <2>6. Commit(r) => at'[r] # "free"
    BY DEF Commit, Goto, Finish, TypeOK
  <2>7. Close(r) => at'[r] # "free"
    BY DEF Close, Goto, TypeOK
  <2>8. QED
    BY <2>1, <2>2, <2>3, <2>4, <2>5, <2>6, <2>7, HandleMoves DEF Handle
<1>3. QED
  BY <1>1, <1>2 DEF Pending, At

LEMMA BrowsePending ==
    ASSUME TypeOK, NEW r \in Request, Browse(r), NEW p \in Page
    PROVE  Pending(p)' = Pending(p) \ {r}
<1>1. Release(r)
  BY DEF Browse, Show, Ignore, Answer
<1>2. /\ \A u \in Request : u # r => at'[u] = at[u] /\ job'[u] = job[u]
      /\ at'[r] = "free"
  BY <1>1, ReleaseMoves
<1>3. QED
  BY <1>2 DEF Pending, At

LEMMA LoadPending ==
    ASSUME TypeOK, JobsMatch, NEW p \in Page, NEW r \in Request, Load(p, r),
           NEW q \in Page
    PROVE  Pending(q)' = IF q = p THEN {} ELSE Pending(q)
<1>1. \A u \in Request :
         /\ u # r => at'[u] = at[u]
         /\ job'[u] = IF u = r THEN [NoJob EXCEPT !.page = p]
                      ELSE IF job[u].page = p THEN [job[u] EXCEPT !.page = None]
                      ELSE job[u]
  BY DEF Load, Goto, TypeOK
<1>2. at[r] = "free"
  BY DEF Load, At
<1>3. p # None /\ q # None
  BY NoneAssumption
<1>4. \A j \in Job : [j EXCEPT !.page = None].page = None
  BY DEF Job
<1>5. \A u \in Request : job[u] \in Job
  BY DEF TypeOK
<1>6. [NoJob EXCEPT !.page = p].kind = "index"
  BY DEF NoJob
<1>7. ASSUME NEW u \in Request
      PROVE  u \in Pending(q)' <=> u \in IF q = p THEN {} ELSE Pending(q)
  <2>1. CASE u = r
    BY <1>1, <1>2, <1>6, <2>1 DEF Pending, At
  <2>2. CASE u # r /\ job[u].page = p
    <3>1. job'[u].page = None
      <4>1. job'[u] = [job[u] EXCEPT !.page = None]
        BY <1>1, <2>2
      <4>2. PICK j \in Job : j = job[u]
        BY <1>5
      <4>3. QED
        BY <1>4, <4>1, <4>2
    <3>2. QED
      BY <1>3, <2>2, <3>1 DEF Pending
  <2>3. CASE u # r /\ job[u].page # p
    <3>1. job'[u] = job[u] /\ at'[u] = at[u]
      BY <1>1, <2>3
    <3>2. QED
      BY <2>3, <3>1 DEF Pending, At
  <2>4. QED
    BY <2>1, <2>2, <2>3
<1>8. Pending(q)' \subseteq Request /\ Pending(q) \subseteq Request
  BY DEF Pending
<1>9. QED
  BY <1>7, <1>8

LEMMA DropPending ==
    ASSUME TypeOK, NEW p \in Page, NEW r \in Request, NEW c \in Column,
           Drop(p, r, c), NEW q \in Page
    PROVE  Pending(q)' = IF q = p THEN Pending(q) \cup {r} ELSE Pending(q)
<1>1. /\ \A u \in Request : u # r => job'[u] = job[u] /\ at'[u] = at[u]
      /\ job'[r].kind = "set" /\ job'[r].page = p /\ at'[r] = "check"
      /\ at[r] = "free"
  BY DEF Drop, Goto, At, TypeOK
<1>2. QED
  BY <1>1 DEF Pending, At

LEMMA DiesPending ==
    ASSUME TypeOK, Dies, NEW p \in Page
    PROVE  Pending(p)' = Pending(p) \ Lost
<1>1. \A u \in Request :
         /\ u \in Lost => at'[u] = "free"
         /\ u \notin Lost => at'[u] = at[u] /\ job'[u] = job[u]
  BY DEF Dies
<1>2. QED
  BY <1>1 DEF Pending, At

LEMMA SamePending ==
    ASSUME UNCHANGED <<at, job>>, NEW p \in Page
    PROVE  Pending(p)' = Pending(p)
BY DEF Pending, At

(* What the page-changing steps do to the pages.                           *)
LEMMA PagesInit == Init => PagesMatch /\ PlaceholderFaithful
<1> SUFFICES ASSUME Init
             PROVE  PagesMatch /\ PlaceholderFaithful
  OBVIOUS
<1>1. \A p \in Page : Pending(p) = {}
  BY DEF Init, Pending, At
<1>2. QED
  BY <1>1, NoneAssumption DEF Init, PagesMatch, PageMatches, PlaceholderFaithful

(* A page whose drops under way, placeholder and drag stay as they are.    *)
LEMMA SamePage ==
    ASSUME NEW p \in Page, PageMatches(p), Pending(p)' \subseteq Pending(p),
           \A r \in Pending(p)' : job'[r] = job[r],
           mode'[p] = mode[p], shown'[p] = shown[p], drag'[p] = drag[p],
           hole'[p] = hole[p], crossed'[p] = crossed[p]
    PROVE  PageMatches(p)'
<1>1. mode'[p] # "open" => ~shown'[p] /\ drag'[p] = None
  BY DEF PageMatches
<1>2. ~crossed'[p] => \A r \in Pending(p)' :
         /\ drag'[p] = None /\ hole'[p] = job'[r].column
         /\ \A u \in Pending(p)' : u = r
  BY DEF PageMatches
<1>3. QED
  BY <1>1, <1>2 DEF PageMatches

LEMMA HandlePages ==
    ASSUME TypeOK, JobsMatch, PagesMatch, NEW r \in Request, Handle(r)
    PROVE  PagesMatch'
<1>1. UNCHANGED <<job, mode, shown, drag, hole, crossed>>
  <2>1. job' = job
    BY HandleMoves
  <2>2. UNCHANGED <<board, crossed>>
    BY DEF Handle, Check, Create, Take, Read, Stage, Commit, Close, ghosts
  <2>3. QED
    BY <2>1, <2>2 DEF board
<1>2. QED
  BY <1>1, HandlePending, SamePage DEF PagesMatch

LEMMA BrowsePages ==
    ASSUME TypeOK, JobsMatch, PagesMatch, NEW r \in Request, Browse(r)
    PROVE  PagesMatch'
<1> SUFFICES ASSUME NEW p \in Page
             PROVE  PageMatches(p)'
  BY DEF PagesMatch
<1>1. PageMatches(p) /\ Pending(p)' = Pending(p) \ {r}
  BY BrowsePending DEF PagesMatch
<1>2. Release(r) /\ UNCHANGED <<hole, drag, crossed>>
  BY DEF Browse, Show, Ignore, Answer, board, ghosts
<1>3. \A u \in Pending(p)' : job'[u] = job[u]
  BY <1>1, <1>2, ReleaseMoves DEF Pending
<1>4. /\ mode'[p] # "open" => ~shown'[p] /\ drag'[p] = None
  <2>1. CASE Show(r)
    <3>1. job[r].page \in Page /\ mode[job[r].page] = "loading"
      BY <2>1, JobFields DEF Show, JobsMatch, JobMatches
    <3>2. shown' = shown /\ drag' = drag
      BY <2>1 DEF Show
    <3>3. mode[p] = "open" => mode'[p] = "open"
      BY <2>1, <3>1 DEF Show, TypeOK
    <3>4. QED
      BY <1>1, <3>2, <3>3 DEF PageMatches
  <2>2. CASE Ignore(r)
    BY <1>1, <2>2 DEF Ignore, board, PageMatches
  <2>3. CASE Answer(r)
    <3>1. mode' = mode /\ drag' = drag /\ shown' = [shown EXCEPT ![job[r].page] = FALSE]
      BY <2>3 DEF Answer
    <3>2. shown'[p] = shown[p] \/ ~shown'[p]
      BY <3>1 DEF TypeOK
    <3>3. QED
      BY <1>1, <3>1, <3>2 DEF PageMatches
  <2>4. QED
    BY <2>1, <2>2, <2>3 DEF Browse
<1>5. ~crossed'[p] => \A u \in Pending(p)' :
         /\ drag'[p] = None /\ hole'[p] = job'[u].column
         /\ \A v \in Pending(p)' : v = u
  BY <1>1, <1>2, <1>3 DEF PageMatches
<1>6. QED
  BY <1>4, <1>5 DEF PageMatches

LEMMA UserPages ==
    ASSUME TypeOK, JobsMatch, PagesMatch, NEW p \in Page, User(p)
    PROVE  PagesMatch'
<1> SUFFICES ASSUME NEW q \in Page
             PROVE  PageMatches(q)'
  BY DEF PagesMatch
<1> USE DEF store, request, board, counts, ghosts
<1>1. PageMatches(q)
  BY DEF PagesMatch
<1>2. ASSUME NEW r \in Request, Load(p, r)
      PROVE  PageMatches(q)'
  <2>1. Pending(q)' = IF q = p THEN {} ELSE Pending(q)
    BY <1>2, LoadPending
  <2>2. CASE q = p
    <3>1. shown'[p] = FALSE /\ drag'[p] = None
      BY <1>2 DEF Load, TypeOK
    <3>2. QED
      BY <2>1, <2>2, <3>1 DEF PageMatches
  <2>3. CASE q # p
    <3>1. /\ mode'[q] = mode[q] /\ shown'[q] = shown[q] /\ drag'[q] = drag[q]
          /\ hole'[q] = hole[q] /\ crossed'[q] = crossed[q]
      BY <1>2, <2>3 DEF Load, TypeOK
    <3>2. ASSUME NEW u \in Pending(q)
          PROVE  job'[u] = job[u]
      <4>1. u \in Request /\ u # r /\ job[u].page # p
        BY <1>2, <2>3 DEF Pending, Load
      <4>2. QED
        BY <1>2, <4>1 DEF Load
    <3>3. QED
      BY <1>1, <2>1, <2>3, <3>1, <3>2, SamePage
  <2>4. QED
    BY <2>2, <2>3
<1>3. ASSUME NEW r \in Request, NEW c \in Column, Drop(p, r, c)
      PROVE  PageMatches(q)'
  <2>1. Pending(q)' = IF q = p THEN Pending(q) \cup {r} ELSE Pending(q)
    BY <1>3, DropPending
  <2>2. /\ drag'[p] = None /\ hole'[p] = c /\ job'[r].column = c
        /\ drag[p] # None
        /\ mode' = mode /\ shown' = shown /\ crossed' = crossed
    BY <1>3 DEF Drop, TypeOK
  <2>3. CASE q = p
    <3>1. mode[p] = "open"
      BY <1>1, <2>2, <2>3 DEF PageMatches
    <3>2. ~crossed[p] => Pending(p) = {}
      BY <1>1, <2>2, <2>3 DEF PageMatches
    <3>3. ~crossed[p] => Pending(p)' = {r}
      BY <2>1, <2>3, <3>2
    <3>4. QED
      BY <2>2, <2>3, <3>1, <3>3 DEF PageMatches
  <2>4. CASE q # p
    <3>1. drag'[q] = drag[q] /\ hole'[q] = hole[q]
      BY <1>3, <2>4 DEF Drop, TypeOK
    <3>2. ASSUME NEW u \in Pending(q)
          PROVE  job'[u] = job[u]
      <4>1. u \in Request /\ u # r
        BY <1>3 DEF Pending, Drop
      <4>2. QED
        BY <1>3, <4>1 DEF Drop, TypeOK
    <3>3. QED
      BY <1>1, <2>1, <2>2, <2>4, <3>1, <3>2, SamePage
  <2>5. QED
    BY <2>3, <2>4
<1>4. ASSUME NEW x \in Item, DragStart(p, x)
      PROVE  PageMatches(q)'
  <2>1. /\ mode[p] = "open" /\ UNCHANGED <<at, job, mode, hole>>
        /\ crossed' = [crossed EXCEPT ![p] = @ \/ Pending(p) # {}]
        /\ shown' = [shown EXCEPT ![p] = @ \/ x \in Ticket]
        /\ drag' = [drag EXCEPT ![p] = x]
    BY <1>4 DEF DragStart
  <2>2. Pending(q)' = Pending(q)
    BY <2>1, SamePending
  <2>3. CASE q = p
    <3>1. crossed'[p] \/ Pending(p) = {}
      BY <2>1 DEF TypeOK
    <3>2. mode'[p] = "open"
      BY <2>1
    <3>3. QED
      BY <2>2, <2>3, <3>1, <3>2 DEF PageMatches
  <2>4. CASE q # p
    <3>1. /\ shown'[q] = shown[q] /\ drag'[q] = drag[q]
          /\ crossed'[q] = crossed[q]
      BY <2>1, <2>4 DEF TypeOK
    <3>2. QED
      BY <1>1, <2>1, <2>2, <3>1, SamePage
  <2>5. QED
    BY <2>3, <2>4
<1>5. ASSUME NEW c \in Column, DragOver(p, c)
      PROVE  PageMatches(q)'
  <2>1. /\ UNCHANGED <<at, job, mode, shown, drag, crossed>>
        /\ drag[p] # None /\ hole' = [hole EXCEPT ![p] = c]
    BY <1>5 DEF DragOver
  <2>2. Pending(q)' = Pending(q)
    BY <2>1, SamePending
  <2>3. CASE q = p
    <3>1. ~crossed[p] => Pending(p) = {}
      BY <1>1, <2>1, <2>3 DEF PageMatches
    <3>2. mode[p] = "open"
      BY <1>1, <2>1, <2>3 DEF PageMatches
    <3>3. QED
      BY <2>1, <2>2, <2>3, <3>1, <3>2 DEF PageMatches
  <2>4. CASE q # p
    <3>1. hole'[q] = hole[q]
      BY <2>1, <2>4 DEF TypeOK
    <3>2. QED
      BY <1>1, <2>1, <2>2, <3>1, SamePage
  <2>5. QED
    BY <2>3, <2>4
<1>6. ASSUME GiveUp(p)
      PROVE  PageMatches(q)'
  <2>1. /\ UNCHANGED <<at, job, mode, shown, hole, crossed>>
        /\ drag[p] # None /\ drag' = [drag EXCEPT ![p] = None]
    BY <1>6 DEF GiveUp
  <2>2. Pending(q)' = Pending(q)
    BY <2>1, SamePending
  <2>3. drag'[q] = drag[q] \/ drag'[q] = None
    BY <2>1 DEF TypeOK
  <2>4. QED
    BY <1>1, <2>1, <2>2, <2>3 DEF PageMatches
<1>7. QED
  BY <1>2, <1>3, <1>4, <1>5, <1>6 DEF User

LEMMA DiesPages ==
    ASSUME TypeOK, JobsMatch, PagesMatch, Dies
    PROVE  PagesMatch'
<1> SUFFICES ASSUME NEW p \in Page
             PROVE  PageMatches(p)'
  BY DEF PagesMatch
<1>1. PageMatches(p) /\ Pending(p)' = Pending(p) \ Lost
  BY DiesPending DEF PagesMatch
<1>2. UNCHANGED <<hole, shown, drag, crossed>>
  BY DEF Dies
<1>3. mode'[p] = mode[p] \/ mode[p] = "loading"
  <2>1. \A r \in Lost : job[r].kind = "index" /\ job[r].page = p
          => mode[p] = "loading"
    BY NoneAssumption DEF JobsMatch, JobMatches, Lost
  <2>2. QED
    BY <2>1 DEF Dies
<1>4. \A r \in Pending(p)' : job'[r] = job[r] /\ r \in Pending(p)
  BY <1>1 DEF Dies, Pending
<1>5. QED
  BY <1>1, <1>2, <1>3, <1>4 DEF PageMatches

-----------------------------------------------------------------------------
(* The placeholder *)

PlaceholderOf(p) ==
  mode[p] = "open" /\ ~crossed[p] /\ ~gone[p] =>
    (shown[p] <=> \/ drag[p] \in Ticket
                  \/ \E r \in Pending(p) : job[r].item \in Ticket)

LEMMA SamePlaceholder ==
    ASSUME NEW p \in Page, PlaceholderOf(p), Pending(p)' = Pending(p),
           \A r \in Pending(p) : job'[r] = job[r],
           mode'[p] = mode[p] \/ mode'[p] # "open",
           shown'[p] = shown[p], drag'[p] = drag[p],
           crossed'[p] = crossed[p], gone[p] => gone'[p]
    PROVE  PlaceholderOf(p)'
BY DEF PlaceholderOf

LEMMA BrowsePlaceholder ==
    ASSUME TypeOK, JobsMatch, PagesMatch, PlaceholderFaithful,
           NEW r \in Request, Browse(r), NEW p \in Page
    PROVE  PlaceholderOf(p)'
<1>1. PlaceholderOf(p) /\ PageMatches(p) /\ Pending(p)' = Pending(p) \ {r}
  BY BrowsePending DEF PlaceholderFaithful, PlaceholderOf, PagesMatch
<1>2. Release(r) /\ UNCHANGED <<drag, crossed, gone>>
  BY DEF Browse, Show, Ignore, Answer, board, ghosts
<1>3. \A u \in Pending(p)' : job'[u] = job[u]
  BY <1>1, <1>2, ReleaseMoves DEF Pending
<1>4. CASE r \notin Pending(p)
  <2>1. Pending(p)' = Pending(p)
    BY <1>1, <1>4
  <2>2. CASE job[r].page = p /\ Show(r)
    <3>1. mode[p] = "loading" /\ job[r].kind = "index"
      BY <2>2, NoneAssumption DEF Show, JobsMatch, JobMatches
    <3>2. Pending(p) = {}
      BY <3>1, NoneAssumption DEF Pending, JobsMatch, JobMatches
    <3>3. ~shown[p] /\ drag[p] = None
      BY <1>1, <3>1 DEF PageMatches
    <3>4. shown' = shown
      BY <2>2 DEF Show
    <3>5. None \notin Ticket
      BY NoneAssumption
    <3>6. QED
      BY <1>2, <2>1, <3>2, <3>3, <3>4, <3>5 DEF PlaceholderOf
  <2>3. CASE ~ (job[r].page = p /\ Show(r))
    <3>1. mode'[p] = mode[p]
      BY <2>3 DEF Browse, Show, Ignore, Answer, board, TypeOK
    <3>2. shown'[p] = shown[p]
      <4>1. CASE Answer(r)
        <5>1. job[r].page # p
          BY <1>4, <4>1 DEF Answer, Pending, At
        <5>2. shown' = [shown EXCEPT ![job[r].page] = FALSE]
          BY <4>1 DEF Answer
        <5>3. QED
          BY <5>1, <5>2 DEF TypeOK
      <4>2. CASE Show(r) \/ Ignore(r)
        BY <4>2 DEF Show, Ignore, board
      <4>3. QED
        BY <4>1, <4>2 DEF Browse
    <3>3. \A u \in Pending(p) : job'[u] = job[u]
      BY <1>3, <2>1
    <3>4. QED
      BY <1>1, <1>2, <2>1, <3>1, <3>2, <3>3, SamePlaceholder
  <2>4. QED
    BY <2>2, <2>3
<1>5. CASE r \in Pending(p)
  <2>1. Answer(r) /\ job[r].page = p
    BY <1>5, NoneAssumption DEF Browse, Show, Ignore, Pending
  <2>2. ~shown'[p]
    BY <2>1 DEF Answer, TypeOK
  <2>3. ~crossed[p] => drag[p] = None /\ Pending(p)' = {}
    BY <1>1, <1>5 DEF PageMatches
  <2>4. None \notin Ticket
    BY NoneAssumption
  <2>5. QED
    BY <1>2, <2>2, <2>3, <2>4 DEF PlaceholderOf
<1>6. QED
  BY <1>4, <1>5

LEMMA UserPlaceholder ==
    ASSUME TypeOK, JobsMatch, PagesMatch, PlaceholderFaithful,
           NEW p \in Page, User(p), NEW q \in Page
    PROVE  PlaceholderOf(q)'
<1> USE DEF store, request, board, counts, ghosts
<1>1. PlaceholderOf(q) /\ PageMatches(q)
  BY DEF PlaceholderFaithful, PlaceholderOf, PagesMatch
<1>2. ASSUME NEW r \in Request, Load(p, r)
      PROVE  PlaceholderOf(q)'
  <2>1. CASE q = p
    BY <1>2, <2>1 DEF Load, TypeOK, PlaceholderOf
  <2>2. CASE q # p
    <3>1. /\ mode'[q] = mode[q] /\ shown'[q] = shown[q] /\ drag'[q] = drag[q]
          /\ crossed'[q] = crossed[q] /\ gone'[q] = gone[q]
      BY <1>2, <2>2 DEF Load, TypeOK
    <3>2. Pending(q)' = Pending(q)
      BY <1>2, <2>2, LoadPending
    <3>3. ASSUME NEW u \in Pending(q)
          PROVE  job'[u] = job[u]
      <4>1. u \in Request /\ u # r /\ job[u].page # p
        BY <1>2, <2>2 DEF Pending, Load
      <4>2. QED
        BY <1>2, <4>1 DEF Load
    <3>4. QED
      BY <1>1, <3>1, <3>2, <3>3, SamePlaceholder
  <2>3. QED
    BY <2>1, <2>2
<1>3. ASSUME NEW r \in Request, NEW c \in Column, Drop(p, r, c)
      PROVE  PlaceholderOf(q)'
  <2>1. Pending(q)' = IF q = p THEN Pending(q) \cup {r} ELSE Pending(q)
    BY <1>3, DropPending
  <2>2. /\ drag'[p] = None /\ drag[p] # None /\ job'[r].item = drag[p]
        /\ UNCHANGED <<mode, shown, crossed, gone>>
    BY <1>3 DEF Drop, TypeOK
  <2>3. CASE q = p
    <3>1. None \notin Ticket
      BY NoneAssumption
    <3>2. ~crossed[p] => Pending(p)' = {r} /\ Pending(p) = {}
      BY <1>1, <2>1, <2>2, <2>3 DEF PageMatches
    <3>3. QED
      BY <1>1, <2>2, <2>3, <3>1, <3>2 DEF PlaceholderOf
  <2>4. CASE q # p
    <3>1. drag'[q] = drag[q]
      BY <1>3, <2>4 DEF Drop, TypeOK
    <3>2. ASSUME NEW u \in Pending(q)
          PROVE  job'[u] = job[u]
      <4>1. u \in Request /\ u # r
        BY <1>3 DEF Pending, Drop
      <4>2. QED
        BY <1>3, <4>1 DEF Drop, TypeOK
    <3>3. QED
      BY <1>1, <2>1, <2>2, <2>4, <3>1, <3>2, SamePlaceholder
  <2>5. QED
    BY <2>3, <2>4
<1>4. ASSUME NEW x \in Item, DragStart(p, x)
      PROVE  PlaceholderOf(q)'
  <2>1. /\ mode[p] = "open" /\ drag[p] = None
        /\ UNCHANGED <<at, job, mode, hole, gone>>
        /\ crossed' = [crossed EXCEPT ![p] = @ \/ Pending(p) # {}]
        /\ shown' = [shown EXCEPT ![p] = @ \/ x \in Ticket]
        /\ drag' = [drag EXCEPT ![p] = x]
    BY <1>4 DEF DragStart
  <2>2. Pending(q)' = Pending(q)
    BY <2>1, SamePending
  <2>3. CASE q = p
    <3>1. /\ crossed'[p] <=> crossed[p] \/ Pending(p) # {}
          /\ shown'[p] <=> shown[p] \/ x \in Ticket
          /\ drag'[p] = x
      BY <2>1 DEF TypeOK
    <3>2. None \notin Ticket
      BY NoneAssumption
    <3>3. QED
      BY <1>1, <2>1, <2>2, <2>3, <3>1, <3>2 DEF PlaceholderOf
  <2>4. CASE q # p
    <3>1. /\ shown'[q] = shown[q] /\ drag'[q] = drag[q]
          /\ crossed'[q] = crossed[q]
      BY <2>1, <2>4 DEF TypeOK
    <3>2. QED
      BY <1>1, <2>1, <2>2, <3>1, SamePlaceholder
  <2>5. QED
    BY <2>3, <2>4
<1>5. ASSUME NEW c \in Column, DragOver(p, c)
      PROVE  PlaceholderOf(q)'
  <2>1. UNCHANGED <<at, job, mode, shown, drag, crossed, gone>>
    BY <1>5 DEF DragOver
  <2>2. QED
    BY <1>1, <2>1, SamePending, SamePlaceholder
<1>6. ASSUME GiveUp(p)
      PROVE  PlaceholderOf(q)'
  <2>1. /\ UNCHANGED <<at, job, mode, shown, crossed>>
        /\ gone' = [gone EXCEPT ![p] = TRUE] /\ drag' = [drag EXCEPT ![p] = None]
    BY <1>6 DEF GiveUp
  <2>2. CASE q = p
    BY <2>1, <2>2 DEF TypeOK, PlaceholderOf
  <2>3. CASE q # p
    <3>1. gone'[q] = gone[q] /\ drag'[q] = drag[q]
      BY <2>1, <2>3 DEF TypeOK
    <3>2. QED
      BY <1>1, <2>1, <3>1, SamePending, SamePlaceholder
  <2>4. QED
    BY <2>2, <2>3
<1>7. QED
  BY <1>2, <1>3, <1>4, <1>5, <1>6 DEF User

LEMMA DiesPlaceholder ==
    ASSUME TypeOK, PlaceholderFaithful, Dies, NEW p \in Page
    PROVE  PlaceholderOf(p)'
<1>1. PlaceholderOf(p) /\ Pending(p)' = Pending(p) \ Lost
  BY DiesPending DEF PlaceholderFaithful, PlaceholderOf
<1>2. /\ UNCHANGED <<shown, drag, crossed>>
      /\ gone'[p] <=> gone[p] \/ Lost \cap Pending(p) # {}
      /\ mode'[p] = mode[p] \/ mode'[p] = "closed"
      /\ \A u \in Request : u \notin Lost => job'[u] = job[u]
  BY DEF Dies, TypeOK
<1>3. CASE Lost \cap Pending(p) # {}
  BY <1>2, <1>3 DEF PlaceholderOf
<1>4. CASE Lost \cap Pending(p) = {}
  <2>1. Pending(p)' = Pending(p)
    BY <1>1, <1>4
  <2>2. \A u \in Pending(p) : job'[u] = job[u]
    BY <1>2, <1>4 DEF Pending
  <2>3. QED
    BY <1>1, <1>2, <2>1, <2>2, SamePlaceholder
<1>5. QED
  BY <1>3, <1>4

LEMMA OtherPlaceholder ==
    ASSUME PlaceholderFaithful, UNCHANGED <<job, board, crossed, gone>>,
           NEW p \in Page, Pending(p)' = Pending(p)
    PROVE  PlaceholderOf(p)'
<1>1. UNCHANGED <<job, mode, shown, drag, crossed, gone>>
  BY DEF board
<1>2. PlaceholderOf(p)
  BY DEF PlaceholderFaithful, PlaceholderOf
<1>3. QED
  BY <1>1, <1>2, SamePlaceholder

LEMMA PagesStep ==
    ASSUME TypeOK, JobsMatch, PagesMatch, PlaceholderFaithful, [Next]_vars
    PROVE  JobsMatch' /\ PagesMatch' /\ PlaceholderFaithful'
<1> DEFINE Result == JobsMatch' /\ PagesMatch'
                       /\ \A p \in Page : PlaceholderOf(p)'
<1>1. ASSUME NEW r \in Request, Handle(r)
      PROVE  Result
  <2>1. UNCHANGED <<board, crossed, gone>>
    BY <1>1 DEF Handle, Check, Create, Take, Read, Stage, Commit, Close, ghosts
  <2>2. job' = job
    BY <1>1, HandleMoves
  <2>3. \A p \in Page : PlaceholderOf(p)'
    BY <1>1, <2>1, <2>2, HandlePending, OtherPlaceholder
  <2>4. QED
    BY <1>1, <2>3, HandleJobs, HandlePages
<1>2. ASSUME NEW r \in Request, Browse(r)
      PROVE  Result
  BY <1>2, BrowseJobs, BrowsePages, BrowsePlaceholder
<1>3. ASSUME NEW p \in Page, User(p)
      PROVE  Result
  BY <1>3, UserJobs, UserPages, UserPlaceholder
<1>4. ASSUME UNCHANGED <<request, board, crossed, gone>>
      PROVE  Result
  <2>1. UNCHANGED <<at, job, ok, mode, shown, drag, hole, crossed>>
    BY <1>4 DEF request, board
  <2>2. \A p \in Page : Pending(p)' = Pending(p)
    BY <2>1, SamePending
  <2>3. JobsMatch'
    BY <2>1 DEF JobsMatch, JobMatches, At
  <2>4. PagesMatch'
    BY <2>1, <2>2, SamePage DEF PagesMatch
  <2>5. \A p \in Page : PlaceholderOf(p)'
    BY <1>4, <2>1, <2>2, OtherPlaceholder
  <2>6. QED
    BY <2>3, <2>4, <2>5
<1>5. Cli => UNCHANGED <<request, board, crossed, gone>>
  BY DEF Cli, CliOpen, CliChange, CliClose, ghosts
<1>6. ASSUME Dies
      PROVE  Result
  BY <1>6, DiesJobs, DiesPages, DiesPlaceholder
<1>7. UNCHANGED vars => UNCHANGED <<request, board, crossed, gone>>
  BY DEF vars, ghosts
<1> HIDE DEF Result
<1>8. Result
  BY <1>1, <1>2, <1>3, <1>4, <1>5, <1>6, <1>7 DEF Next
<1>9. QED
  BY <1>8 DEF Result, PlaceholderFaithful, PlaceholderOf

-----------------------------------------------------------------------------
(* The lock *)

LEMMA LockInit == Init => LockExcludes
BY DEF Init, LockExcludes, LockInvariant, At, Inside

(* Requests that neither come to take the lock nor get in.                 *)
LEMMA LockKept ==
    ASSUME LockInvariant, lock' = lock, cli' = cli,
           \A u \in Request : at'[u] = "take" => at[u] = "take",
           \A u \in Request : at'[u] \in Inside => at[u] \in Inside
    PROVE  LockInvariant'
BY DEF LockInvariant, At

LEMMA HandleLock ==
    ASSUME TypeOK, JobsMatch, LockExcludes, NEW r \in Request, Handle(r)
    PROVE  LockExcludes'
<1> SUFFICES ASSUME ~raced'
             PROVE  LockInvariant'
  BY DEF LockExcludes
<1> USE DEF store, request, board, counts, ghosts
<1>1. \A u \in Request : u # r => at'[u] = at[u]
  BY HandleMoves
<1>2. raced' = raced \/ Check(r)
  BY DEF Handle, Create, Take, Read, Stage, Commit, Close
<1>3. LockInvariant
  <2>1. ~raced
    BY <1>2 DEF Check, TypeOK
  <2>2. QED
    BY <2>1 DEF LockExcludes
<1>4. CASE Check(r)
  <2>1. lock' = lock /\ cli' = cli /\ at[r] = "check"
    BY <1>4 DEF Check, At
  <2>2. CASE lock # "free"
    <3>1. at'[r] = "answered"
      BY <1>4, <2>2 DEF Check, Goto, TypeOK
    <3>2. QED
      BY <1>1, <1>3, <2>1, <3>1, LockKept DEF Inside
  <2>3. CASE lock = "free"
    <3>1. at'[r] = "take"
      BY <1>4, <2>3 DEF Check, Goto, TypeOK
    <3>2. \A u \in Request : u # r => at[u] # "take"
      BY <1>4, <2>3 DEF Check, At, TypeOK
    <3>3. QED
      BY <1>1, <1>3, <2>1, <2>3, <3>1, <3>2 DEF LockInvariant, At, Inside
  <2>4. QED
    BY <2>2, <2>3
<1>5. CASE Create(r)
  <2>1. lock' = "empty" /\ cli' = cli /\ at[r] = "take" /\ at'[r] = "write"
    BY <1>5 DEF Create, At, Goto, TypeOK
  <2>2. /\ lock = "free" /\ ~cli
        /\ \A u \in Request : at[u] = "take" => u = r
        /\ \A u \in Request : at[u] \notin Inside
    BY <1>3, <2>1 DEF LockInvariant, At
  <2>3. QED
    BY <1>1, <2>1, <2>2 DEF LockInvariant, At, Inside
<1>6. CASE Read(r) \/ Stage(r) \/ Commit(r)
  <2>1. lock' = lock /\ cli' = cli /\ at[r] \in Inside
    BY <1>6 DEF Read, Stage, Commit, At, Inside
  <2>2. at'[r] # "take"
    BY <1>6 DEF Read, Stage, Commit, Goto, Finish, TypeOK
  <2>3. QED
    BY <1>1, <1>3, <2>1, <2>2, LockKept
<1>7. CASE Close(r)
  <2>1. lock' = "free" /\ cli' = cli /\ at[r] \in Inside
    BY <1>7 DEF Close, At, Inside
  <2>2. at'[r] = "answered"
    BY <1>7 DEF Close, Goto, TypeOK
  <2>3. /\ lock # "free" /\ ~cli
        /\ \A u \in Request : at[u] # "take"
        /\ \A u \in Request : at[u] \in Inside => u = r
    BY <1>3, <2>1 DEF LockInvariant, At
  <2>4. QED
    BY <1>1, <2>1, <2>2, <2>3 DEF LockInvariant, At, Inside
<1>8. CASE Take(r)
  <2>1. cli' = cli /\ at[r] = "write" /\ at[r] \in Inside
    BY <1>8 DEF Take, At, Inside
  <2>2. at'[r] \in Inside \cup {"answered"} /\ at'[r] # "take"
    BY <1>8 DEF Take, Goto, Finish, Inside, TypeOK
  <2>3. /\ lock # "free" /\ ~cli
        /\ \A u \in Request : at[u] # "take"
        /\ \A u \in Request : at[u] \in Inside => u = r
    BY <1>3, <2>1 DEF LockInvariant, At
  <2>4. lock' # "free"
    BY <1>8, <2>3 DEF Take, Written
  <2>5. QED
    BY <1>1, <2>1, <2>2, <2>3, <2>4 DEF LockInvariant, At, Inside
<1>9. QED
  BY <1>4, <1>5, <1>6, <1>7, <1>8 DEF Handle

LEMMA LockStep ==
    ASSUME TypeOK, JobsMatch, LockExcludes, [Next]_vars
    PROVE  LockExcludes'
<1> USE DEF store, request, board, counts, ghosts
<1>1. ASSUME LockInvariant, UNCHANGED <<lock, cli>>,
             \A u \in Request : at'[u] = at[u] \/ at'[u] \in {"free", "check"}
      PROVE  LockInvariant'
  BY <1>1, LockKept DEF Inside
<1> DEFINE Quiet == /\ UNCHANGED <<lock, cli, raced>>
                    /\ \A u \in Request : at'[u] = at[u] \/ at'[u] \in {"free", "check"}
<1>2. Quiet => LockExcludes'
  BY <1>1 DEF LockExcludes
<1>3. ASSUME NEW r \in Request, Browse(r)
      PROVE  Quiet
  <2>1. Release(r)
    BY <1>3 DEF Browse, Show, Ignore, Answer
  <2>2. UNCHANGED <<lock, cli, raced>>
    BY <1>3 DEF Browse, Show, Ignore, Answer
  <2>3. QED
    BY <2>1, <2>2, ReleaseMoves
<1>4. ASSUME NEW p \in Page, User(p)
      PROVE  Quiet
  <2>1. ASSUME NEW r \in Request, Load(p, r)
        PROVE  Quiet
    BY <2>1 DEF Load, Goto, TypeOK
  <2>2. ASSUME NEW r \in Request, NEW c \in Column, Drop(p, r, c)
        PROVE  Quiet
    BY <2>2 DEF Drop, Goto, TypeOK
  <2>3. \/ \E x \in Item : DragStart(p, x)
        \/ \E c \in Column : DragOver(p, c)
        \/ GiveUp(p)
        => UNCHANGED <<lock, cli, raced, at>>
    BY DEF DragStart, DragOver, GiveUp
  <2>4. QED
    BY <1>4, <2>1, <2>2, <2>3 DEF User
<1>5. ASSUME CliOpen
      PROVE  LockExcludes'
  <2> SUFFICES ASSUME ~raced'
               PROVE  LockInvariant'
    BY DEF LockExcludes
  <2>1. /\ lock' = "cli" /\ cli' /\ at' = at /\ lock = "free"
        /\ ~raced /\ \A u \in Request : at[u] # "take"
    BY <1>5 DEF CliOpen, At, TypeOK
  <2>2. LockInvariant
    BY <2>1 DEF LockExcludes
  <2>3. QED
    BY <2>1, <2>2 DEF LockInvariant, At
<1>6. ASSUME CliClose
      PROVE  LockExcludes'
  <2>1. /\ lock' = "free" /\ ~cli' /\ at' = at /\ cli /\ raced' = raced
    BY <1>6 DEF CliClose
  <2>2. LockInvariant => LockInvariant'
    BY <2>1 DEF LockInvariant, At
  <2>3. QED
    BY <2>1, <2>2 DEF LockExcludes
<1>7. ASSUME NEW t \in Ticket, NEW c \in Column, CliChange(t, c)
      PROVE  Quiet
  BY <1>7 DEF CliChange
<1>8. ASSUME Dies
      PROVE  LockExcludes'
  <2> SUFFICES ASSUME ~raced'
               PROVE  LockInvariant'
    BY DEF LockExcludes
  <2>1. /\ lock = "cli" => lock' = "cli"
        /\ cli' = cli /\ raced' = raced
        /\ \A u \in Request : at'[u] \in {"free", "answered"}
    BY <1>8 DEF Dies, Lost
  <2>2. cli => lock = "cli"
    BY <2>1 DEF LockExcludes, LockInvariant
  <2>3. QED
    BY <2>1, <2>2 DEF LockInvariant, At, Inside
<1>9. UNCHANGED vars => Quiet
  BY DEF vars
<1> HIDE DEF Quiet
<1>10. Cli => LockExcludes'
  BY <1>2, <1>5, <1>6, <1>7 DEF Cli
<1>11. QED
  BY <1>2, <1>3, <1>4, <1>8, <1>9, <1>10, HandleLock DEF Next

-----------------------------------------------------------------------------
(* What a handler has read stays current *)

LEMMA SessionsInit == Init => SessionsCurrent
<1> SUFFICES ASSUME Init
             PROVE  SessionsCurrent
  OBVIOUS
<1>1. ASSUME NEW t \in Ticket
      PROVE  excerpt[t] = Status(t)
  BY DEF Init, AllFirst, Status, Last
<1>2. ASSUME NEW r \in Request
      PROVE  SessionCurrent(r)
  BY DEF Init, SessionCurrent, At, Inside, NoJob
<1>3. QED
  BY <1>1, <1>2 DEF SessionsCurrent, ExcerptsCurrent

(* A request that does not move, and whose tickets stay, stays current.    *)
LEMMA SessionKept ==
    ASSUME NEW r \in Request, SessionCurrent(r),
           UNCHANGED <<chain, excerpt, others>>,
           at'[r] = at[r], seen'[r] = seen[r], base'[r] = base[r],
           ok'[r] = ok[r], job'[r].kind = job[r].kind,
           job'[r].item = job[r].item, job'[r].column = job[r].column,
           job'[r].page = job[r].page \/ job'[r].page = None
    PROVE  SessionCurrent(r)'
BY DEF SessionCurrent, At, Status

(* A request that is over, or has only been sent, has read nothing.        *)
LEMMA SessionOutside ==
    ASSUME NEW r \in Request, at'[r] \in {"free", "check"}, ~ok'[r]
    PROVE  SessionCurrent(r)'
BY DEF SessionCurrent, At, Inside

LEMMA ExcerptsKept ==
    ASSUME ExcerptsCurrent, UNCHANGED <<chain, excerpt, staged>>
    PROVE  ExcerptsCurrent'
BY DEF ExcerptsCurrent, Status

LEMMA LastAppended ==
    ASSUME NEW S, NEW a \in Seq(S), NEW x \in S
    PROVE  Last(Append(a, x)) = x
BY DEF Last

(* A handler changes tickets and excerpts only while it holds the lock.    *)
LEMMA HandleSessions ==
    ASSUME TypeOK, JobsMatch, LockExcludes, SessionsCurrent,
           NEW r \in Request, Handle(r)
    PROVE  SessionsCurrent'
<1> SUFFICES ASSUME ~raced'
             PROVE  ExcerptsCurrent' /\ \A q \in Request : SessionCurrent(q)'
  BY DEF SessionsCurrent
<1> USE DEF store, request, board, counts, ghosts
<1>1. ~raced
  BY DEF Handle, Check, Create, Take, Read, Stage, Commit, Close, TypeOK
<1>2. LockInvariant /\ ExcerptsCurrent /\ \A q \in Request : SessionCurrent(q)
  BY <1>1 DEF LockExcludes, SessionsCurrent
<1>3. JobMatches(r)
  BY DEF JobsMatch
<1>4. ASSUME NEW q \in Request, q # r
      PROVE  /\ at'[q] = at[q] /\ ok'[q] = ok[q] /\ job' = job
             /\ seen'[q] = seen[q] /\ base'[q] = base[q]
  <2>1. at'[q] = at[q] /\ ok'[q] = ok[q] /\ job' = job
    BY <1>4, HandleMoves
  <2>2. \/ seen' = seen
        \/ \E f : seen' = [seen EXCEPT ![r] = f]
        \/ \E t, c : seen' = [seen EXCEPT ![r][t] = c]
    BY DEF Handle, Check, Create, Take, Read, Stage, Commit, Close
  <2>3. base' = base \/ \E b : base' = [base EXCEPT ![r] = b]
    BY DEF Handle, Check, Create, Take, Read, Stage, Commit, Close
  <2>4. QED
    BY <1>4, <2>1, <2>2, <2>3 DEF TypeOK
<1> DEFINE Fails == Take(r) /\ at'[r] = "answered"
<1>5. CASE Check(r) \/ Create(r) \/ Fails \/ Read(r) \/ Close(r)
  <2>1. UNCHANGED <<chain, excerpt, staged, others, seen, job>>
    BY <1>5 DEF Check, Create, Take, Finish, Goto, TypeOK, Read, Close
  <2>2. ExcerptsCurrent'
    BY <1>2, <2>1, ExcerptsKept
  <2>3. \A q \in Request : q # r => SessionCurrent(q)'
    BY <1>2, <1>4, <2>1, SessionKept
  <2>4. SessionCurrent(r)'
    <3>1. CASE Check(r)
      BY <1>2, <1>3, <3>1 DEF Check, Goto, TypeOK, SessionCurrent, JobMatches, At, Inside
    <3>2. CASE Read(r)
      BY <1>2, <1>3, <3>2
      DEF Read, Goto, Finish, TypeOK, SessionCurrent, JobMatches, At, Inside
    <3>3. CASE Close(r)
      BY <1>2, <3>3 DEF Close, Goto, TypeOK, SessionCurrent, At, Inside, Status
    <3>4. CASE Create(r)
      BY <1>2, <1>3, <3>4 DEF Create, Goto, TypeOK, SessionCurrent, JobMatches, At, Inside
    <3>5. CASE Fails
      <4>1. at'[r] = "answered" /\ ~ok'[r]
        BY <3>5 DEF Take, Finish, Goto, TypeOK
      <4>2. QED
        BY <4>1 DEF SessionCurrent, At, Inside
    <3>6. QED
      BY <1>5, <3>1, <3>2, <3>3, <3>4, <3>5
  <2>5. QED
    BY <2>2, <2>3, <2>4
<1>6. CASE Take(r) /\ ~Fails
  <2>1. UNCHANGED <<chain, excerpt, staged, job>> /\ seen'[r] = excerpt
    BY <1>6 DEF Take, Goto, TypeOK
  <2>2. ExcerptsCurrent'
    BY <1>2, <2>1, ExcerptsKept
  <2>3. \A p \in Page : \/ others'[p] = others[p]
                        \/ job[r].page = p /\ job[r].kind = "index"
    <3>1. CASE job[r].kind = "set"
      <4>1. others' = others
        BY <1>6, <3>1 DEF Take, Goto, TypeOK
      <4>2. QED
        BY <4>1
    <3>2. CASE job[r].kind = "index"
      <4>1. \A p \in Page : others'[p] = IF job[r].page = p THEN staged
                                                           ELSE others[p]
        BY <1>6, <3>2 DEF Take, Goto, TypeOK
      <4>2. QED
        BY <3>2, <4>1
    <3>3. QED
      BY <3>1, <3>2, JobFields
  <2>4. ASSUME NEW q \in Request, q # r
        PROVE  SessionCurrent(q)'
    <3>1. SessionCurrent(q)
      BY <1>2
    <3>2. job[q].kind = "index" /\ job[q].page # None =>
            job[q].page \in Page /\ others'[job[q].page] = others[job[q].page]
      BY <1>3, <2>3, <2>4, JobFields DEF JobMatches
    <3>3. /\ at'[q] = at[q] /\ ok'[q] = ok[q] /\ job' = job
          /\ seen'[q] = seen[q] /\ base'[q] = base[q]
      BY <1>4, <2>4
    <3>4. QED
      BY <2>1, <3>1, <3>2, <3>3 DEF SessionCurrent, At, Status
  <2>5. SessionCurrent(r)'
    <3>1. CASE job[r].kind = "index"
      <4>1. at'[r] = "close" /\ \A p \in Page : job[r].page = p => others'[p] = staged
        BY <1>6, <3>1 DEF Take, Finish, Goto, TypeOK
      <4>2. job[r].page # None => others'[job[r].page] = staged
        BY <4>1, JobFields
      <4>3. QED
        BY <1>2, <2>1, <3>1, <4>1, <4>2 DEF SessionCurrent, At, ExcerptsCurrent, Status
    <3>2. CASE job[r].kind = "set"
      <4>1. at'[r] = "read"
        BY <1>6, <3>2 DEF Take, Goto, TypeOK
      <4>2. QED
        BY <2>1, <3>2, <4>1 DEF SessionCurrent, At
    <3>3. QED
      BY <3>1, <3>2, JobFields
  <2>6. QED
    BY <2>2, <2>4, <2>5
<1>7. ASSUME at[r] \in Inside, NEW q \in Request, q # r
      PROVE  at[q] \notin Inside
  BY <1>2, <1>7 DEF LockInvariant
<1>8. CASE Stage(r)
  <2> DEFINE t == job[r].item
             c == job[r].column
  <2>1. /\ at[r] = "stage" /\ at[r] \in Inside
        /\ UNCHANGED <<chain, others, job, base>>
    BY <1>8 DEF Stage, At, Inside
  <2>2. /\ job[r].kind = "set" /\ t \in Ticket /\ c \in Column
        /\ seen[r] = excerpt /\ base[r] = chain[t]
    BY <1>2, <1>3, <2>1 DEF JobMatches, SessionCurrent, At
  <2>3. \A q \in Request : q # r => SessionCurrent(q)'
    BY <1>2, <1>4, <1>7, <2>1 DEF SessionCurrent, At, Inside, Status
  <2>4. CASE <<Last(base[r]), c>> \in Transition
    <3>1. /\ seen' = [seen EXCEPT ![r][t] = c] /\ excerpt' = seen'[r]
          /\ staged' = staged \cup {t} /\ at'[r] = "commit"
      BY <1>8, <2>4 DEF Stage, Goto, TypeOK
    <3>2. /\ seen'[r] = [excerpt EXCEPT ![t] = c]
          /\ excerpt[t] \in Column
      BY <2>2, <3>1 DEF TypeOK
    <3>3. /\ excerpt'[t] = c
          /\ \A x \in Ticket : x # t => excerpt'[x] = excerpt[x]
      BY <2>2, <3>1, <3>2 DEF TypeOK
    <3>4. ExcerptsCurrent'
      BY <1>2, <2>1, <3>1, <3>3 DEF ExcerptsCurrent, Status
    <3>5. SessionCurrent(r)'
      BY <2>1, <2>2, <3>1, <3>3 DEF SessionCurrent, At
    <3>6. QED
      BY <2>3, <3>4, <3>5
  <2>5. CASE <<Last(base[r]), c>> \notin Transition
    <3>1. UNCHANGED <<seen, excerpt, staged>> /\ at'[r] = "close"
      BY <1>8, <2>5 DEF Stage, Finish, Goto, TypeOK
    <3>2. ExcerptsCurrent'
      BY <1>2, <2>1, <3>1, ExcerptsKept
    <3>3. SessionCurrent(r)'
      BY <2>1, <2>2, <3>1 DEF SessionCurrent, At
    <3>4. QED
      BY <2>3, <3>2, <3>3
  <2>6. QED
    BY <2>4, <2>5
<1>9. CASE Commit(r)
  <2>1. /\ at[r] = "commit" /\ at[r] \in Inside /\ at'[r] = "close"
        /\ UNCHANGED <<seen, job, base>>
    BY <1>9 DEF Commit, At, Inside, Finish, Goto, TypeOK
  <2>2. PICK t \in Ticket, c \in Column :
          /\ job[r].kind = "set" /\ t = job[r].item /\ c = job[r].column
          /\ seen[r] = excerpt /\ base[r] = chain[t] /\ excerpt[t] = c
    BY <1>2, <1>3, <2>1 DEF JobMatches, SessionCurrent, At
  <2>3. CASE UNCHANGED <<chain, excerpt, staged, others>>
    <3>1. ExcerptsCurrent'
      BY <1>2, <2>3, ExcerptsKept
    <3>2. \A q \in Request : q # r => SessionCurrent(q)'
      BY <1>2, <1>4, <2>3, SessionKept
    <3>3. SessionCurrent(r)'
      BY <2>1, <2>2, <2>3 DEF SessionCurrent, At
    <3>4. QED
      BY <3>1, <3>2, <3>3
  <2>4. CASE /\ chain' = [chain EXCEPT ![t] = Append(base[r], c)]
             /\ excerpt' = seen[r]
             /\ staged' = staged \ {t}
             /\ ChangedBy(job[r].page, t)
    <3>1. excerpt' = excerpt
      BY <2>2, <2>4
    <3>2. /\ chain'[t] = Append(base[r], c)
          /\ \A x \in Ticket : x # t => chain'[x] = chain[x]
      BY <2>2, <2>4 DEF TypeOK
    <3>3. Status(t)' = c /\ \A x \in Ticket : x # t => Status(x)' = Status(x)
      <4>1. Last(Append(base[r], c)) = c
        BY <2>2, LastAppended DEF TypeOK
      <4>2. QED
        BY <3>2, <4>1 DEF Status
    <3>4. ExcerptsCurrent'
      <4>1. \A x \in Ticket \ (staged \ {t}) : excerpt[x] = Status(x)'
        BY <1>2, <2>2, <3>3 DEF ExcerptsCurrent
      <4>2. QED
        BY <2>4, <3>1, <4>1 DEF ExcerptsCurrent
    <3>5. \A p \in Page : others'[p] =
             IF p = job[r].page THEN others[p] ELSE others[p] \cup {t}
      <4>1. others \in [Page -> SUBSET Ticket]
        BY DEF TypeOK
      <4>2. QED
        BY <2>4, <4>1, ChangedByType
    <3>6. ASSUME NEW q \in Request, q # r
          PROVE  SessionCurrent(q)'
      <4>1. at[q] \notin Inside /\ SessionCurrent(q)
        BY <1>2, <1>7, <2>1, <3>6
      <4>2. /\ at'[q] = at[q] /\ ok'[q] = ok[q] /\ job' = job
            /\ seen'[q] = seen[q] /\ base'[q] = base[q]
        BY <1>4, <3>6
      <4>3. ASSUME job[q].kind = "index", job[q].page # None, ok[q],
                   NEW x \in Ticket \ others'[job[q].page]
            PROVE  seen[q][x] = Status(x)'
        <5>1. job[q].page \in Page /\ mode[job[q].page] = "loading"
          BY <4>3, JobFields DEF JobsMatch, JobMatches
        <5>2. job[q].page # job[r].page
          BY <1>3, <2>2, <4>3, <5>1 DEF JobMatches
        <5>3. others'[job[q].page] = others[job[q].page] \cup {t}
          BY <3>5, <5>1, <5>2
        <5>4. x # t /\ x \in Ticket \ others[job[q].page]
          BY <5>3
        <5>5. seen[q][x] = Status(x)
          BY <4>1, <4>3, <5>4 DEF SessionCurrent
        <5>6. QED
          BY <3>3, <5>4, <5>5
      <4>4. QED
        BY <4>1, <4>2, <4>3 DEF SessionCurrent, At, Inside
    <3>7. SessionCurrent(r)'
      BY <2>1, <2>2, <3>1 DEF SessionCurrent, At
    <3>8. QED
      BY <3>4, <3>6, <3>7
  <2>5. QED
    BY <1>9, <2>2, <2>3, <2>4 DEF Commit
<1>10. QED
  BY <1>5, <1>6, <1>8, <1>9 DEF Handle

LEMMA SessionsStep ==
    ASSUME TypeOK, JobsMatch, LockExcludes, SessionsCurrent, [Next]_vars
    PROVE  SessionsCurrent'
<1> USE DEF store, request, board, counts, ghosts
<1>1. ASSUME UNCHANGED <<chain, excerpt, staged, others, raced>>,
             \A q \in Request :
               \/ /\ at'[q] = at[q] /\ seen'[q] = seen[q] /\ base'[q] = base[q]
                  /\ ok'[q] = ok[q] /\ job'[q].kind = job[q].kind
                  /\ job'[q].item = job[q].item /\ job'[q].column = job[q].column
                  /\ job'[q].page = job[q].page \/ job'[q].page = None
               \/ at'[q] \in {"free", "check"} /\ ~ok'[q]
      PROVE  SessionsCurrent'
  BY <1>1, SessionKept, SessionOutside, ExcerptsKept DEF SessionsCurrent
<1>2. ASSUME UNCHANGED <<chain, excerpt, staged, others, raced,
                         at, job, base, seen, ok>>
      PROVE  SessionsCurrent'
  BY <1>1, <1>2
<1>3. ASSUME NEW r \in Request, Browse(r)
      PROVE  SessionsCurrent'
  <2>1. Release(r) /\ UNCHANGED <<chain, excerpt, staged, others, raced>>
    BY <1>3 DEF Browse, Show, Ignore, Answer
  <2>2. ASSUME NEW q \in Request
        PROVE  \/ /\ at'[q] = at[q] /\ seen'[q] = seen[q] /\ base'[q] = base[q]
                  /\ ok'[q] = ok[q] /\ job'[q] = job[q]
               \/ at'[q] = "free" /\ ~ok'[q]
    BY <2>1, ReleaseMoves
  <2>3. QED
    BY <1>1, <2>1, <2>2
<1>4. ASSUME NEW p \in Page, NEW r \in Request, Load(p, r)
      PROVE  SessionsCurrent'
  <2>1. UNCHANGED <<chain, excerpt, staged, others, raced, seen, base, ok>>
    BY <1>4 DEF Load
  <2>2. at[r] = "free" /\ at' = [at EXCEPT ![r] = "check"]
    BY <1>4 DEF Load, At, Goto
  <2>3. at'[r] = "check" /\ ~ok'[r]
    BY <2>1, <2>2 DEF JobsMatch, JobMatches, At, TypeOK
  <2>4. ASSUME NEW q \in Request, q # r
        PROVE  /\ at'[q] = at[q] /\ job'[q].kind = job[q].kind
               /\ job'[q].item = job[q].item /\ job'[q].column = job[q].column
               /\ job'[q].page = job[q].page \/ job'[q].page = None
    <3>1. at'[q] = at[q]
      BY <2>2, <2>4 DEF TypeOK
    <3>2. job'[q] = IF job[q].page = p THEN [job[q] EXCEPT !.page = None]
                                       ELSE job[q]
      BY <1>4, <2>4 DEF Load
    <3>3. PICK j \in Job : j = job[q]
      BY DEF TypeOK
    <3>4. LET i == [j EXCEPT !.page = None]
          IN  /\ i.page = None /\ i.kind = j.kind
              /\ i.item = j.item /\ i.column = j.column
      BY DEF Job
    <3>5. QED
      BY <3>1, <3>2, <3>3, <3>4
  <2>5. QED
    BY <1>1, <2>1, <2>3, <2>4
<1>5. ASSUME NEW p \in Page, NEW r \in Request, NEW c \in Column, Drop(p, r, c)
      PROVE  SessionsCurrent'
  <2>1. UNCHANGED <<chain, excerpt, staged, others, raced, seen, base, ok>>
    BY <1>5 DEF Drop
  <2>2. at[r] = "free" /\ at'[r] = "check"
    BY <1>5 DEF Drop, At, Goto, TypeOK
  <2>3. ~ok'[r]
    BY <2>1, <2>2 DEF JobsMatch, JobMatches, At
  <2>4. \A q \in Request : q # r => at'[q] = at[q] /\ job'[q] = job[q]
    BY <1>5 DEF Drop, Goto, TypeOK
  <2>5. ASSUME NEW q \in Request
        PROVE  \/ /\ at'[q] = at[q] /\ seen'[q] = seen[q] /\ base'[q] = base[q]
                  /\ ok'[q] = ok[q] /\ job'[q] = job[q]
               \/ at'[q] = "check" /\ ~ok'[q]
    BY <2>1, <2>2, <2>3, <2>4
  <2>6. QED
    BY <1>1, <2>1, <2>5
<1>6. ASSUME NEW p \in Page,
             \/ \E x \in Item : DragStart(p, x)
             \/ \E c \in Column : DragOver(p, c)
             \/ GiveUp(p)
      PROVE  SessionsCurrent'
  BY <1>2, <1>6 DEF DragStart, DragOver, GiveUp
<1>7. ASSUME CliOpen
      PROVE  SessionsCurrent'
  <2>1. /\ UNCHANGED <<chain, excerpt, staged, others, at, job, base, seen, ok>>
        /\ raced' = raced \/ raced'
    BY <1>7 DEF CliOpen, TypeOK
  <2>2. CASE raced' = raced
    BY <1>2, <2>1, <2>2
  <2>3. CASE raced'
    BY <2>3 DEF SessionsCurrent
  <2>4. QED
    BY <2>1, <2>2, <2>3
<1>8. ASSUME CliClose
      PROVE  SessionsCurrent'
  BY <1>2, <1>8 DEF CliClose
<1>9. ASSUME NEW t \in Ticket, NEW c \in Column, CliChange(t, c)
      PROVE  SessionsCurrent'
  <2> SUFFICES ASSUME ~raced'
               PROVE  ExcerptsCurrent' /\ \A q \in Request : SessionCurrent(q)'
    BY DEF SessionsCurrent
  <2>1. /\ cli /\ ~raced /\ UNCHANGED <<at, job, base, seen, ok>>
        /\ chain' = [chain EXCEPT ![t] = Append(chain[t], c)]
        /\ excerpt' = [excerpt EXCEPT ![t] = c]
        /\ staged' = staged \ {t}
        /\ ChangedBy(None, t)
    BY <1>9 DEF CliChange
  <2>2. \A q \in Request : at[q] \notin Inside /\ SessionCurrent(q)
    BY <2>1 DEF LockExcludes, LockInvariant, SessionsCurrent
  <2>3. Status(t)' = c /\ \A x \in Ticket : x # t => Status(x)' = Status(x)
    <3>1. Last(Append(chain[t], c)) = c
      BY LastAppended DEF TypeOK
    <3>2. /\ chain'[t] = Append(chain[t], c)
          /\ \A x \in Ticket : x # t => chain'[x] = chain[x]
      BY <2>1 DEF TypeOK
    <3>3. QED
      BY <3>1, <3>2 DEF Status
  <2>4. /\ excerpt'[t] = c
        /\ \A x \in Ticket : x # t => excerpt'[x] = excerpt[x]
    BY <2>1 DEF TypeOK
  <2>5. ExcerptsCurrent'
    <3>1. ExcerptsCurrent
      BY <2>1 DEF SessionsCurrent
    <3>2. QED
      BY <2>1, <2>3, <2>4, <3>1 DEF ExcerptsCurrent
  <2>6. \A p \in Page : others'[p] = others[p] \cup {t}
    <3>1. others \in [Page -> SUBSET Ticket] /\ \A p \in Page : p # None
      BY NoneAssumption DEF TypeOK
    <3>2. QED
      BY <2>1, <3>1, ChangedByType
  <2>7. ASSUME NEW q \in Request
        PROVE  SessionCurrent(q)'
    <3>1. ASSUME job[q].kind = "index", job[q].page # None, ok[q],
                 NEW x \in Ticket \ others'[job[q].page]
          PROVE  seen[q][x] = Status(x)'
      <4>1. job[q].page \in Page
        BY <3>1, JobFields
      <4>2. x # t /\ x \in Ticket \ others[job[q].page]
        BY <2>6, <4>1
      <4>3. seen[q][x] = Status(x)
        BY <2>2, <3>1, <4>2 DEF SessionCurrent
      <4>4. QED
        BY <2>3, <4>2, <4>3
    <3>2. QED
      BY <2>1, <2>2, <3>1 DEF SessionCurrent, At, Inside
  <2>8. QED
    BY <2>5, <2>7
<1>10. ASSUME Dies
       PROVE  SessionsCurrent'
  <2> SUFFICES ASSUME ~raced'
               PROVE  ExcerptsCurrent' /\ \A q \in Request : SessionCurrent(q)'
    BY DEF SessionsCurrent
  <2>1. UNCHANGED <<chain, excerpt, staged, raced>>
    BY <1>10 DEF Dies
  <2>2. ExcerptsCurrent /\ \A q \in Request : SessionCurrent(q)
    BY <2>1 DEF SessionsCurrent
  <2>3. ASSUME NEW q \in Request, q \in Lost
        PROVE  SessionCurrent(q)'
    <3>1. at'[q] = "free" /\ ok'[q] = FALSE
      BY <1>10, <2>3 DEF Dies
    <3>2. QED
      BY <3>1, SessionOutside
  <2>4. ASSUME NEW q \in Request, q \notin Lost
        PROVE  SessionCurrent(q)'
    <3>1. /\ at'[q] = at[q] /\ ok'[q] = ok[q] /\ job'[q] = job[q]
          /\ seen'[q] = seen[q]
          /\ at[q] \in {"free", "answered"}
      BY <1>10, <2>4 DEF Dies, Lost
    <3>2. \A p \in Page : others[p] \subseteq others'[p]
      BY <1>10 DEF Dies
    <3>3. job[q].page # None => job[q].page \in Page
      BY JobFields
    <3>4. SessionCurrent(q)
      BY <2>2
    <3>5. QED
      BY <2>1, <3>1, <3>2, <3>3, <3>4 DEF SessionCurrent, At, Inside, Status
  <2>5. QED
    BY <2>1, <2>2, <2>3, <2>4, ExcerptsKept
<1>11. UNCHANGED vars => SessionsCurrent'
  BY <1>2 DEF vars
<1>12. QED
  BY <1>3, <1>4, <1>5, <1>6, <1>7, <1>8, <1>9, <1>10, <1>11, HandleSessions
  DEF Next, User, Cli

-----------------------------------------------------------------------------
(* What a page shows *)

LEMMA BoardInit == Init => BoardShows
BY DEF Init, BoardShows, BoardOf

(* A ticket whose status, column and drops stay as they are.               *)
LEMMA BoardKept ==
    ASSUME NEW p \in Page, NEW t \in Ticket, BoardOf(p, t),
           mode'[p] = "open" => mode[p] = "open",
           crossed[p] => crossed'[p],
           t \in others[p] => t \in others'[p],
           Status(t)' = Status(t), place'[p][t] = place[p][t],
           Succeeded(p, t)' <=> Succeeded(p, t),
           Succeeded(p, t) /\ ~crossed'[p] => hole'[p] = hole[p]
    PROVE  BoardOf(p, t)'
BY DEF BoardOf

(* Steps of requests that do not answer page p with a success.             *)
LEMMA SucceededKept ==
    ASSUME NEW p \in Page, NEW t \in Ticket, Pending(p)' = Pending(p),
           \A u \in Pending(p) :
              ok'[u] = ok[u] /\ (ok[u] => job'[u].item = job[u].item)
    PROVE  Succeeded(p, t)' <=> Succeeded(p, t)
BY DEF Succeeded

LEMMA StatusKept ==
    ASSUME NEW t \in Ticket, chain'[t] = chain[t]
    PROVE  Status(t)' = Status(t)
BY DEF Status

(* A handler that does not commit changes no status, and no answer that a  *)
(* drop waits for; an index makes the page that waits for it.              *)
LEMMA ReadBoard ==
    ASSUME TypeOK, JobsMatch, NEW r \in Request,
           Handle(r), chain' = chain, at[r] # "commit",
           NEW p \in Page, NEW t \in Ticket, BoardOf(p, t)
    PROVE  BoardOf(p, t)'
<1>1. ~ Commit(r)
  BY DEF Commit, At
<1>2. UNCHANGED <<mode, place, hole, crossed, job>> /\ Pending(p)' = Pending(p)
  BY <1>1, HandleMoves, HandlePending
  DEF Handle, Check, Create, Take, Read, Stage, Close, board, ghosts
<1>3. \A u \in Pending(p) : ok'[u] = ok[u]
  <2>1. \A u \in Request : u # r => ok'[u] = ok[u]
    BY HandleMoves
  <2>2. r \in Pending(p) => ok'[r] = ok[r]
    <3>1. JobMatches(r) /\ ok[r] \in BOOLEAN
      BY DEF JobsMatch, TypeOK
    <3>2. Check(r) => ok'[r] = ok[r]
      BY <3>1 DEF Check, JobMatches, At, TypeOK
    <3>3. Create(r) \/ (Take(r) /\ job[r].kind = "set") => ok'[r] = ok[r]
      BY <3>1 DEF Create, Take, JobMatches, At, TypeOK
    <3>4. Read(r) => ok'[r] = ok[r]
      BY <3>1 DEF Read, Finish, JobMatches, At, TypeOK
    <3>5. Stage(r) => ok'[r] = ok[r]
      BY <3>1 DEF Stage, Finish, JobMatches, At, TypeOK
    <3>6. Close(r) => ok'[r] = ok[r]
      BY DEF Close
    <3>7. QED
      BY <1>1, <3>2, <3>3, <3>4, <3>5, <3>6 DEF Handle, Pending
  <2>3. QED
    BY <2>1, <2>2 DEF Pending
<1>4. mode[p] = "open" => others'[p] = others[p]
  <2>1. CASE Take(r) /\ job[r].kind = "index"
    <3>1. \/ others'[p] = IF job[r].page = p THEN staged ELSE others[p]
          \/ others' = others
      BY <2>1 DEF Take
    <3>2. job[r].page = p => mode[p] = "loading"
      BY <2>1, NoneAssumption DEF JobsMatch, JobMatches
    <3>3. QED
      BY <3>1, <3>2
  <2>2. CASE Take(r) /\ job[r].kind # "index"
    BY <2>2 DEF Take
  <2>3. CASE ~ Take(r)
    BY <1>1, <2>3 DEF Handle, Check, Create, Read, Stage, Close, ghosts
  <2>4. QED
    BY <2>1, <2>2, <2>3
<1>5. Succeeded(p, t)' <=> Succeeded(p, t)
  BY <1>2, <1>3, SucceededKept
<1>6. Status(t)' = Status(t)
  BY StatusKept
<1>7. CASE mode[p] = "open"
  BY <1>2, <1>4, <1>5, <1>6, <1>7, BoardKept
<1>8. CASE mode[p] # "open"
  BY <1>2, <1>8 DEF BoardOf
<1>9. QED
  BY <1>7, <1>8

(* A commit puts its ticket where the placeholder stands.                  *)
LEMMA CommitBoard ==
    ASSUME TypeOK, JobsMatch, PagesMatch, LockExcludes, SessionsCurrent,
           NEW r \in Request, Commit(r), ~raced,
           NEW p \in Page, NEW t \in Ticket, BoardOf(p, t)
    PROVE  BoardOf(p, t)'
<1>1. /\ UNCHANGED <<mode, place, hole, crossed, job>>
      /\ at[r] = "commit" /\ SessionCurrent(r) /\ JobMatches(r)
  BY DEF Commit, board, At, SessionsCurrent, JobsMatch
<1>2. PICK x \in Ticket, c \in Column :
        /\ job[r].kind = "set" /\ job[r].item = x /\ job[r].column = c
        /\ base[r] = chain[x] /\ ok[r] = FALSE
  BY <1>1 DEF SessionCurrent, JobMatches, At, TypeOK
<1>3. Pending(p)' = Pending(p) /\ Handle(r)
  BY HandlePending DEF Handle
<1>4. \A u \in Request : u # r => ok'[u] = ok[u]
  BY <1>3, HandleMoves
<1>5. CASE UNCHANGED <<chain, others>> /\ Finish(r, FALSE)
  <2>1. ok'[r] = ok[r]
    BY <1>2, <1>5 DEF Finish, TypeOK
  <2>2. \A u \in Pending(p) : ok'[u] = ok[u]
    BY <1>4, <2>1 DEF Pending
  <2>3. Succeeded(p, t)' <=> Succeeded(p, t)
    BY <1>1, <1>3, <2>2, SucceededKept
  <2>4. Status(t)' = Status(t)
    BY <1>5, StatusKept
  <2>5. QED
    BY <1>1, <1>5, <2>3, <2>4, BoardKept
<1>6. CASE /\ chain' = [chain EXCEPT ![x] = Append(base[r], c)]
           /\ ChangedBy(job[r].page, x) /\ Finish(r, TRUE)
  <2>1. /\ chain'[x] = Append(chain[x], c)
        /\ t # x => chain'[t] = chain[t]
    BY <1>2, <1>6 DEF TypeOK
  <2>2. others'[p] = IF p = job[r].page THEN others[p] ELSE others[p] \cup {x}
    <3>1. others \in [Page -> SUBSET Ticket] /\ ChangedBy(job[r].page, x)
      BY <1>6 DEF TypeOK
    <3>2. \A q \in Page : others'[q] =
             IF q = job[r].page THEN others[q] ELSE others[q] \cup {x}
      BY <3>1, ChangedByType
    <3>3. QED
      BY <3>2
  <2>3. CASE t # x
    <3>1. Succeeded(p, t)' <=> Succeeded(p, t)
      BY <1>1, <1>2, <1>3, <1>4, <2>3 DEF Succeeded, Pending
    <3>2. Status(t)' = Status(t)
      BY <2>1, <2>3, StatusKept
    <3>3. QED
      BY <1>1, <2>2, <3>1, <3>2, BoardKept
  <2>4. CASE t = x /\ p # job[r].page
    BY <2>2, <2>4 DEF BoardOf
  <2>5. CASE t = x /\ p = job[r].page
    <3>1. r \in Pending(p)
      BY <1>1, <1>2, <2>5 DEF Pending, At
    <3>2. ok'[r]
      BY <1>6 DEF Finish, TypeOK
    <3>3. Succeeded(p, t)'
      BY <1>1, <1>2, <1>3, <2>5, <3>1, <3>2 DEF Succeeded
    <3>4. ~crossed[p] => hole[p] = c
      BY <1>2, <3>1 DEF PagesMatch, PageMatches
    <3>5. Status(t)' = c
      <4>1. Last(Append(chain[x], c)) = c
        BY LastAppended DEF TypeOK
      <4>2. QED
        BY <2>1, <2>5, <4>1 DEF Status
    <3>6. QED
      BY <1>1, <3>3, <3>4, <3>5 DEF BoardOf
  <2>6. QED
    BY <2>3, <2>4, <2>5
<1>7. QED
  BY <1>2, <1>5, <1>6 DEF Commit

(* The page appears as its handler has seen the tickets; an answer takes   *)
(* its ticket to the placeholder, if it is a success.                      *)
LEMMA BrowseBoard ==
    ASSUME TypeOK, JobsMatch, PagesMatch, SessionsCurrent,
           NEW r \in Request, Browse(r), ~raced,
           NEW p \in Page, NEW t \in Ticket, BoardOf(p, t)
    PROVE  BoardOf(p, t)'
<1>1. /\ Release(r) /\ Pending(p)' = Pending(p) \ {r}
      /\ UNCHANGED <<chain, others, hole, crossed>>
  BY BrowsePending DEF Browse, Show, Ignore, Answer, store, board, ghosts
<1>2. Status(t)' = Status(t)
  BY <1>1, StatusKept
<1>3. \A u \in Pending(p) : u # r => ok'[u] = ok[u] /\ job'[u] = job[u]
  BY <1>1, ReleaseMoves DEF Pending
<1>4. job[r].page = p => p # None
  BY NoneAssumption
<1>5. CASE r \notin Pending(p) /\ ~ (Show(r) /\ job[r].page = p)
  <2>1. Succeeded(p, t)' <=> Succeeded(p, t)
    BY <1>1, <1>3, <1>5 DEF Succeeded
  <2>2. mode'[p] = mode[p] /\ place'[p] = place[p]
    <3>1. Show(r) => job[r].page # p
      BY <1>5
    <3>2. Answer(r) => job[r].page # p
      BY <1>5 DEF Answer, Pending, At
    <3>3. QED
      BY <3>1, <3>2 DEF Browse, Show, Ignore, Answer, board, TypeOK
  <2>3. QED
    BY <1>1, <1>2, <2>1, <2>2, BoardKept
<1>6. CASE Show(r) /\ job[r].page = p
  <2>1. Pending(p) = {}
    BY <1>4, <1>6 DEF Show, Pending, JobsMatch, JobMatches
  <2>2. ~ Succeeded(p, t)'
    BY <1>1, <2>1 DEF Succeeded
  <2>3. CASE ok[r]
    <3>1. place'[p] = seen[r]
      BY <1>6, <2>3 DEF Show, TypeOK
    <3>2. t \notin others[p] => seen[r][t] = Status(t)
      BY <1>4, <1>6, <2>3 DEF Show, SessionsCurrent, SessionCurrent
    <3>3. QED
      BY <1>1, <1>2, <2>2, <3>1, <3>2 DEF BoardOf
  <2>4. CASE ~ok[r]
    <3>1. mode'[p] = "closed"
      BY <1>6, <2>4 DEF Show, TypeOK
    <3>2. QED
      BY <3>1 DEF BoardOf
  <2>5. QED
    BY <2>3, <2>4
<1>7. CASE r \in Pending(p)
  <2>1. job[r].page = p /\ job[r].kind = "set"
    BY <1>7 DEF Pending
  <2>2. /\ Answer(r) /\ mode' = mode
        /\ place' = IF ok[r] THEN [place EXCEPT ![p][job[r].item] = hole[p]]
                             ELSE place
    <3>1. Answer(r)
      BY <1>4, <2>1 DEF Browse, Show, Ignore
    <3>2. QED
      BY <2>1, <3>1 DEF Answer
  <2>3. SUFFICES ASSUME ~crossed[p], mode[p] = "open", t \notin others[p]
                 PROVE  BoardOf(p, t)'
    BY <1>1, <2>2 DEF BoardOf
  <2>4. \A u \in Pending(p) : u = r
    BY <1>7, <2>3 DEF PagesMatch, PageMatches
  <2>5. ~ Succeeded(p, t)'
    BY <1>1, <2>4 DEF Succeeded
  <2>6. Succeeded(p, t) <=> ok[r] /\ job[r].item = t
    BY <1>7, <2>4 DEF Succeeded
  <2>7. Status(t) = IF Succeeded(p, t) THEN hole[p] ELSE place[p][t]
    BY <2>3 DEF BoardOf
  <2>8. place'[p][t] = IF Succeeded(p, t) THEN hole[p] ELSE place[p][t]
    <3>1. CASE ok[r]
      <4>1. place' = [place EXCEPT ![p][job[r].item] = hole[p]]
        BY <2>2, <3>1
      <4>2. QED
        BY <2>6, <3>1, <4>1 DEF TypeOK
    <3>2. CASE ~ok[r]
      BY <2>2, <2>6, <3>2
    <3>3. QED
      BY <3>1, <3>2
  <2>9. QED
    BY <1>1, <1>2, <2>5, <2>7, <2>8 DEF BoardOf
<1>8. QED
  BY <1>5, <1>6, <1>7

(* The user moves the placeholder only while no drop is under way, until   *)
(* drags and answers cross.                                                *)
LEMMA UserBoard ==
    ASSUME TypeOK, JobsMatch, PagesMatch, NEW q \in Page, User(q),
           NEW p \in Page, NEW t \in Ticket, BoardOf(p, t)
    PROVE  BoardOf(p, t)'
<1> DEFINE Result == BoardOf(p, t)'
<1>1. UNCHANGED <<chain, others, ok>>
  BY DEF User, Load, Drop, DragStart, DragOver, GiveUp, store, request, ghosts
<1>2. Status(t)' = Status(t)
  BY <1>1, StatusKept
<1>3. PageMatches(p)
  BY DEF PagesMatch
<1>4. ASSUME NEW r \in Request, Load(q, r)
      PROVE  Result
  <2>1. CASE p = q
    <3>1. mode'[p] = "loading"
      BY <1>4, <2>1 DEF Load, TypeOK
    <3>2. QED
      BY <3>1 DEF BoardOf
  <2>2. CASE p # q
    <3>1. /\ mode'[p] = mode[p] /\ place'[p] = place[p]
          /\ hole'[p] = hole[p] /\ crossed'[p] = crossed[p]
      BY <1>4, <2>2 DEF Load, TypeOK
    <3>2. Pending(p)' = Pending(p)
      BY <1>4, <2>2, LoadPending
    <3>3. \A u \in Pending(p) : job'[u] = job[u]
      BY <1>4, <2>2 DEF Load, Pending
    <3>4. Succeeded(p, t)' <=> Succeeded(p, t)
      BY <1>1, <3>2, <3>3, SucceededKept
    <3>5. QED
      BY <1>1, <1>2, <3>1, <3>4, BoardKept
  <2>3. QED
    BY <2>1, <2>2
<1>5. ASSUME NEW r \in Request, NEW c \in Column, Drop(q, r, c)
      PROVE  Result
  <2>1. /\ UNCHANGED <<mode, place, crossed>> /\ drag[q] # None /\ at[r] = "free"
        /\ \A u \in Request : u # r => job'[u] = job[u]
    BY <1>5 DEF Drop, ghosts, At, TypeOK
  <2>2. ~ok[r]
    BY <2>1 DEF JobsMatch, JobMatches, At
  <2>3. Pending(p)' \subseteq Pending(p) \cup {r} /\ Pending(p) \subseteq Pending(p)'
    BY <1>5, DropPending
  <2>4. Succeeded(p, t)' <=> Succeeded(p, t)
    <3>1. r \notin Pending(p)
      BY <2>1 DEF Pending, At
    <3>2. \A u \in Pending(p) : u # r /\ job'[u] = job[u]
      BY <2>1, <3>1 DEF Pending
    <3>3. QED
      BY <1>1, <2>2, <2>3, <3>2 DEF Succeeded
  <2>5. Succeeded(p, t) /\ ~crossed'[p] => hole'[p] = hole[p]
    <3>1. p = q /\ ~crossed[p] => ~ Succeeded(p, t)
      BY <1>3, <2>1 DEF PageMatches, Succeeded
    <3>2. p # q => hole'[p] = hole[p]
      BY <1>5 DEF Drop, TypeOK
    <3>3. QED
      BY <2>1, <3>1, <3>2
  <2>6. QED
    BY <1>1, <1>2, <2>1, <2>4, <2>5, BoardKept
<1>6. ASSUME UNCHANGED <<at, job, mode, place>>,
             crossed[p] => crossed'[p],
             Succeeded(p, t) /\ ~crossed'[p] => hole'[p] = hole[p]
      PROVE  Result
  <2>1. Pending(p)' = Pending(p)
    BY <1>6, SamePending
  <2>2. Succeeded(p, t)' <=> Succeeded(p, t)
    BY <1>1, <1>6, <2>1, SucceededKept
  <2>3. QED
    BY <1>1, <1>2, <1>6, <2>2, BoardKept
<1>7. ASSUME NEW x \in Item, DragStart(q, x)
      PROVE  Result
  <2>1. /\ UNCHANGED <<at, job, mode, place, hole>>
        /\ crossed[p] => crossed'[p]
    BY <1>7 DEF DragStart, request, TypeOK
  <2>2. QED
    BY <1>6, <2>1
<1>8. ASSUME NEW c \in Column, DragOver(q, c)
      PROVE  Result
  <2>1. /\ UNCHANGED <<at, job, mode, place, crossed>> /\ drag[q] # None
        /\ p # q => hole'[p] = hole[p]
    BY <1>8 DEF DragOver, request, ghosts, TypeOK
  <2>2. p = q /\ ~crossed[p] => ~ Succeeded(p, t)
    BY <1>3, <2>1 DEF PageMatches, Succeeded
  <2>3. QED
    BY <1>6, <2>1, <2>2
<1>9. ASSUME GiveUp(q)
      PROVE  Result
  <2>1. UNCHANGED <<at, job, mode, place, hole, crossed>>
    BY <1>9 DEF GiveUp, request
  <2>2. QED
    BY <1>6, <2>1
<1> HIDE DEF Result
<1>10. Result
  BY <1>4, <1>5, <1>7, <1>8, <1>9 DEF User
<1>11. QED
  BY <1>10 DEF Result

(* A page knows nothing of a ticket that a command changes, or whose       *)
(* answer is lost.                                                         *)
LEMMA ChangeBoard ==
    ASSUME TypeOK, NEW x \in Ticket, NEW c \in Column, CliChange(x, c),
           NEW p \in Page, NEW t \in Ticket, BoardOf(p, t)
    PROVE  BoardOf(p, t)'
<1>1. /\ UNCHANGED <<at, job, ok, mode, place, hole, crossed>>
      /\ chain' = [chain EXCEPT ![x] = Append(@, c)] /\ ChangedBy(None, x)
  BY DEF CliChange, request, board
<1>2. others'[p] = others[p] \cup {x}
  <2>1. others \in [Page -> SUBSET Ticket] /\ p # None
    BY NoneAssumption DEF TypeOK
  <2>2. \A q \in Page : others'[q] =
           IF q = None THEN others[q] ELSE others[q] \cup {x}
    BY <1>1, <2>1, ChangedByType
  <2>3. QED
    BY <2>1, <2>2
<1>3. CASE t = x
  BY <1>2, <1>3 DEF BoardOf
<1>4. CASE t # x
  <2>1. Pending(p)' = Pending(p)
    BY <1>1, SamePending
  <2>2. Succeeded(p, t)' <=> Succeeded(p, t)
    BY <1>1, <2>1, SucceededKept
  <2>3. chain'[t] = chain[t]
    BY <1>1, <1>4 DEF TypeOK
  <2>4. Status(t)' = Status(t)
    BY <2>3, StatusKept
  <2>5. QED
    BY <1>1, <1>2, <2>2, <2>4, BoardKept
<1>5. QED
  BY <1>3, <1>4

LEMMA DiesBoard ==
    ASSUME TypeOK, Dies, NEW p \in Page, NEW t \in Ticket, BoardOf(p, t)
    PROVE  BoardOf(p, t)'
<1>1. /\ UNCHANGED <<chain, place, hole, crossed>>
      /\ mode'[p] = "open" => mode[p] = "open"
      /\ others'[p] = others[p] \cup
                        ({job[u].item : u \in Lost \cap Pending(p)} \cap Ticket)
      /\ \A u \in Request \ Lost : ok'[u] = ok[u] /\ job'[u] = job[u]
  BY DEF Dies, store
<1>2. Status(t)' = Status(t)
  BY <1>1, StatusKept
<1>3. CASE \E u \in Lost \cap Pending(p) : job[u].item = t
  BY <1>1, <1>3 DEF BoardOf
<1>4. CASE \A u \in Lost \cap Pending(p) : job[u].item # t
  <2>1. Pending(p)' = Pending(p) \ Lost
    BY DiesPending
  <2>2. Succeeded(p, t)' <=> Succeeded(p, t)
    BY <1>1, <1>4, <2>1 DEF Succeeded, Pending
  <2>3. QED
    BY <1>1, <1>2, <2>2, BoardKept
<1>5. QED
  BY <1>3, <1>4

LEMMA BoardStep ==
    ASSUME TypeOK, JobsMatch, PagesMatch, LockExcludes, SessionsCurrent,
           BoardShows, [Next]_vars
    PROVE  BoardShows'
<1> SUFFICES ASSUME ~raced', NEW p \in Page, NEW t \in Ticket
             PROVE  BoardOf(p, t)'
  BY DEF BoardShows
<1> DEFINE Result == BoardOf(p, t)'
<1>1. ASSUME ~raced
      PROVE  BoardOf(p, t)
  BY <1>1 DEF BoardShows
<1>2. ASSUME NEW r \in Request, Handle(r)
      PROVE  Result
  <2>1. ~raced
    BY <1>2 DEF Handle, Check, Create, Take, Read, Stage, Commit, Close, ghosts, TypeOK
  <2>2. CASE Commit(r)
    BY <1>1, <2>1, <2>2, CommitBoard
  <2>3. CASE ~Commit(r)
    <3>1. chain' = chain /\ at[r] # "commit"
      BY <1>2, <2>3 DEF Handle, Check, Create, Take, Read, Stage, Close, store, At
    <3>2. QED
      BY <1>1, <1>2, <2>1, <3>1, ReadBoard
  <2>4. QED
    BY <2>2, <2>3
<1>3. ASSUME NEW r \in Request, Browse(r)
      PROVE  Result
  <2>1. ~raced
    BY <1>3 DEF Browse, Show, Ignore, Answer, ghosts
  <2>2. QED
    BY <1>1, <1>3, <2>1, BrowseBoard
<1>4. ASSUME NEW q \in Page, User(q)
      PROVE  Result
  <2>1. ~raced
    BY <1>4 DEF User, Load, Drop, DragStart, DragOver, GiveUp, ghosts
  <2>2. QED
    BY <1>1, <1>4, <2>1, UserBoard
<1>5. ASSUME UNCHANGED <<chain, request, board, crossed, others>>, ~raced
      PROVE  Result
  <2>1. UNCHANGED <<at, job, ok, mode, place, hole>>
    BY <1>5 DEF request, board
  <2>2. Pending(p)' = Pending(p)
    BY <2>1, SamePending
  <2>3. Succeeded(p, t)' <=> Succeeded(p, t)
    BY <2>1, <2>2, SucceededKept
  <2>4. Status(t)' = Status(t)
    BY <1>5, StatusKept
  <2>5. QED
    BY <1>1, <1>5, <2>1, <2>3, <2>4, BoardKept
<1>6. CliOpen \/ CliClose => Result
  <2>1. CliOpen \/ CliClose =>
          UNCHANGED <<chain, request, board, crossed, others>> /\ ~raced
    BY DEF CliOpen, CliClose, store, ghosts, TypeOK
  <2>2. QED
    BY <1>5, <2>1
<1>7. ASSUME NEW x \in Ticket, NEW c \in Column, CliChange(x, c)
      PROVE  Result
  <2>1. ~raced
    BY <1>7 DEF CliChange
  <2>2. QED
    BY <1>1, <1>7, <2>1, ChangeBoard
<1>8. Dies => Result
  <2>1. Dies => ~raced
    BY DEF Dies
  <2>2. QED
    BY <1>1, <2>1, DiesBoard
<1>9. UNCHANGED vars => Result
  <2>1. UNCHANGED vars =>
          UNCHANGED <<chain, request, board, crossed, others>> /\ ~raced
    BY DEF vars, store, ghosts
  <2>2. QED
    BY <1>5, <2>1
<1> HIDE DEF Result
<1>10. Result
  BY <1>2, <1>3, <1>4, <1>6, <1>7, <1>8, <1>9 DEF Next, Cli
<1>11. QED
  BY <1>10 DEF Result

-----------------------------------------------------------------------------
(* The theorems *)

Inv == /\ TypeOK
       /\ JobsMatch
       /\ PagesMatch
       /\ PlaceholderFaithful
       /\ LockExcludes
       /\ SessionsCurrent
       /\ BoardShows

LEMMA InvInit == Init => Inv
BY TypeInit, JobsInit, PagesInit, LockInit, SessionsInit, BoardInit DEF Inv

LEMMA InvStep == Inv /\ [Next]_vars => Inv'
BY TypeStep, PagesStep, LockStep, SessionsStep, BoardStep DEF Inv

LEMMA Invariance == Spec => []Inv
BY InvInit, InvStep, PTL DEF Spec

(* Every variable of the board keeps its type.                             *)
THEOREM TypeCorrect == Spec => []TypeOK
<1>1. Inv => TypeOK
  BY DEF Inv
<1>2. QED
  BY <1>1, Invariance, PTL

(* Unless two sessions found the clone free at the same time, what a       *)
(* handler of the server has read is still what is stored when it commits  *)
(* on top of it: no change of another request or command is overwritten.   *)
THEOREM BaseIsCurrentCorrect == Spec => []BaseIsCurrent
<1>1. Inv => BaseIsCurrent
  BY DEF Inv, SessionsCurrent, SessionCurrent, BaseIsCurrent
<1>2. QED
  BY <1>1, Invariance, PTL

(* On an open page the placeholder is displayed while a ticket is dragged  *)
(* or its drop is under way, and only then, until drags and answers cross. *)
THEOREM PlaceholderCorrect == Spec => []PlaceholderFaithful
<1>1. Inv => PlaceholderFaithful
  BY DEF Inv
<1>2. QED
  BY <1>1, Invariance, PTL

(* An open page shows each ticket in the column of its status, whatever    *)
(* was refused or failed, but for what others have changed, what is not    *)
(* answered yet, and drags that crossed answers.                           *)
THEOREM BoardCorrect == Spec => []BoardFaithful
<1>1. Inv => BoardFaithful
  BY DEF Inv, BoardShows, BoardOf, Succeeded, BoardFaithful
<1>2. QED
  BY <1>1, Invariance, PTL
=============================================================================
