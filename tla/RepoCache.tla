----------------------------- MODULE RepoCache -----------------------------
(***************************************************************************)
(* The cache of a clone: the excerpts of all tickets, in memory and in a   *)
(* file, and the few tickets that are loaded.  One session at a time runs  *)
(* on the clone (RepoSession), a command or the terminal interface.  In a  *)
(* session the main thread opens, edits and saves tickets while goroutines *)
(* merge what was pulled and push: bug.MergeAll moves the refs, the        *)
(* goroutine of RepoCache.MergeAll passes every result on to the consumer  *)
(* and then updates the excerpt, and none of them looks at the tickets     *)
(* the main thread has loaded.  Other clones write to the server.          *)
(*                                                                         *)
(* The content of a ticket is the sequence of its operation packs.         *)
(***************************************************************************)
EXTENDS CommitChains, FiniteSets, FiniteSetsExt

CONSTANTS
    Tickets,    \* ticket ids
    Us, Them,   \* this clone, all the others
    MaxLoaded,  \* defaultMaxLoadedBugs
    MaxPacks,   \* bound: operation packs ever written
    None        \* no excerpt, no ticket, no cache file

ASSUME CacheConstantsOK ==
    /\ Us # Them /\ None \notin Tickets
    /\ MaxLoaded \in Nat \ {0} /\ MaxPacks \in Nat

VARIABLES
    packs,      \* the packs written so far, in the order of their unix times
    server,     \* server[t]: chain of the remote's ref
    tracking,   \* tracking[t]: chain of refs/remotes/origin/bugs/<t>
    local,      \* local[t]: chain of refs/bugs/<t>
    file,       \* the bug-cache file: an excerpt per ticket, or None
    excerpts,   \* RepoCache.bugExcerpts: content of a ticket, or None
    bugs,       \* RepoCache.bugs: what the loaded BugCache was read from, and
                \* the pack it has staged
    lru,        \* RepoCache.loadedBugs, oldest first
    main,       \* the main thread: what it does, and with which ticket
    merger,     \* the goroutine of bug.MergeAll
    forwarder,  \* the goroutine of RepoCache.MergeAll
    mixed,      \* ghost: in this session a ticket was loaded during a pull
    damaged     \* ghost: since the file was built, that happened, or work
                \* in progress was dropped

refs == <<server, tracking, local>>
memory == <<excerpts, bugs, lru>>
pull == <<merger, forwarder>>
ghosts == <<mixed, damaged>>
vars == <<packs, refs, file, memory, main, pull, ghosts>>

-----------------------------------------------------------------------------
Contents(chain) == [i \in DOMAIN chain |-> chain[i].pack]

NewExcerpt(content) == IF content = << >> THEN None ELSE content

(* buildCache: the excerpts of all local refs. *)
Built == [t \in Tickets |-> NewExcerpt(Contents(local[t]))]

NoExcerpts == [t \in Tickets |-> None]
NotLoaded == [base |-> << >>, staged |-> << >>]

Loaded(t) == bugs[t].base # << >>
NeedCommit(t) == bugs[t].staged # << >>

(* Bug.Compile of a loaded ticket: the packs and what is staged. *)
Snapshot(t) == Contents(bugs[t].base) \o bugs[t].staged

(* A loaded ticket is out of date: its ref has been moved by somebody else.*)
Stale(t) == Loaded(t) /\ bugs[t].base # local[t]

(* The list of tickets is shown; nothing is in progress in the main thread.*)
Ready == main.at \in {"opened", "table"}

Quiet == [at |-> "off", t |-> None]
Running == main.at \notin {"off", "closed"}
Pulling == merger.at # "off" \/ forwarder.at # "off"

Goto(at, t) == main' = [at |-> at, t |-> t]

NewPack(t, status) ==
    /\ Len(packs) < MaxPacks
    /\ packs' = Append(packs, [ticket |-> t, status |-> status])

-----------------------------------------------------------------------------
(* The other clones *)

(* Somebody pushes a new ticket, or an edit made on top of the server's.   *)
PushedByOthers(t, status) ==
    /\ \/ server[t] # << >> /\ Valid(server[t])
       \/ \A i \in DOMAIN packs : packs[i].ticket # t
    /\ NewPack(t, status)
    /\ server' = [server EXCEPT ![t] =
                     Append(@, [pack |-> Len(packs) + 1, by |-> Them])]
    /\ UNCHANGED <<tracking, local, file, memory, main, pull, ghosts>>

(* Somebody who has our first unpublished pack, from another remote, pushes*)
(* it here: rebased, which makes it another commit.                        *)
PushedElsewhere(t) ==
    /\ server[t] # << >> /\ Valid(server[t])
    /\ \E i \in DOMAIN local[t] :
          /\ \A j \in 1 .. i : local[t][j].pack \in PackIds(server[t]) <=> j # i
          /\ server' = [server EXCEPT ![t] =
                          Append(@, [pack |-> local[t][i].pack, by |-> Them])]
    /\ UNCHANGED <<packs, tracking, local, file, memory, main, pull, ghosts>>

-----------------------------------------------------------------------------
(* Sessions *)

(* NewRepoCache: the file is loaded, or the excerpts are built from the    *)
(* refs and written, if it is missing, broken, or the user asks for it.    *)
Start(rebuild) ==
    /\ main.at = "off"
    /\ excerpts' = IF rebuild \/ file = None THEN Built ELSE file
    /\ file' = excerpts'
    /\ damaged' = (damaged /\ ~ rebuild /\ file # None)
    /\ Goto("opened", None)
    /\ mixed' = FALSE
    /\ UNCHANGED <<packs, refs, bugs, lru, pull>>

(* The memory of the process is gone. *)
Forget ==
    /\ excerpts' = NoExcerpts
    /\ bugs' = [t \in Tickets |-> NotLoaded]
    /\ lru' = << >>

(* RepoCache.Close, by quitting from any window or at the end of a command:*)
(* what is staged is dropped, and goroutines are not waited for.           *)
Close ==
    /\ main.at \in {"opened", "table", "show", "end"}
    /\ Goto("closed", None)
    /\ Forget
    /\ damaged' = (damaged \/ Pulling \/ \E t \in Tickets : NeedCommit(t))
    /\ UNCHANGED <<packs, refs, file, pull, mixed>>

(* The process ends after it has closed the cache. *)
Exit ==
    /\ main.at = "closed"
    /\ main' = Quiet /\ merger' = Quiet /\ forwarder' = Quiet
    /\ UNCHANGED <<packs, refs, file, memory, ghosts>>

(* The process dies: if it was writing the file, that is cut short.        *)
Die ==
    /\ main' = Quiet /\ merger' = Quiet /\ forwarder' = Quiet
    /\ Forget
    /\ damaged' = TRUE
    /\ UNCHANGED <<packs, refs, mixed>>

Crash ==
    /\ main.at # "off"
    /\ \/ UNCHANGED file
       \/ /\ \/ main.at \in {"write", "writeBack", "writeEnd"}
             \/ forwarder.at = "write"
          /\ file' = None
    /\ Die

-----------------------------------------------------------------------------
(* Loading and evicting *)

(* The tickets of a list that are in a set, in the order of the list.      *)
Among(order, S) ==
    LET among[i \in 0 .. Len(order)] ==
          IF i = 0 THEN << >>
          ELSE IF order[i] \in S THEN Append(among[i - 1], order[i])
               ELSE among[i - 1]
    IN  among[Len(order)]

(* Tickets of which nothing is staged. *)
Idle(loaded) == {t \in Tickets : loaded[t].staged = << >>}

(* Fault: the cache keeps less than it may. *)
EvictEarly(loaded, order) ==
    IF Len(order) < MaxLoaded THEN {}
    ELSE ToSet(order) \cap Idle(loaded)

(* Fault: one ticket too many stays. *)
EvictLate(loaded, order) ==
    LET idle == Among(order, Idle(loaded))
        excess == Max({0, Len(order) - MaxLoaded - 1})
    IN  {idle[i] : i \in {j \in DOMAIN idle : j <= excess}}

(* evictIfNeeded: from the oldest on, tickets with nothing staged, until   *)
(* the cache is small enough.                                              *)
Evicted(loaded, order) ==
    LET idle == Among(order, Idle(loaded))
        excess == Max({0, Len(order) - MaxLoaded})
    IN  {idle[i] : i \in {j \in DOMAIN idle : j <= excess}}

(* A ticket is put into the cache as the newest one. *)
Load(t, chain) ==
    LET order == Append(lru, t)
        loaded == [bugs EXCEPT ![t] = [base |-> chain, staged |-> << >>]]
        out == Evicted(loaded, order)
    IN  /\ lru' = Among(order, Tickets \ out)
        /\ bugs' = [u \in Tickets |-> IF u \in out THEN NotLoaded
                                      ELSE loaded[u]]
        /\ mixed' = (mixed \/ Pulling)
        /\ damaged' = (damaged \/ Pulling)

(* Fault: a ticket used again is added again. *)
AddedAgain(t) == Append(lru, t)

(* Used again: the ticket becomes the newest one. *)
Touched(t) == Append(Among(lru, Tickets \ {t}), t)

(* ResolveBug, for the window that shows one ticket. *)
OpenBug(t) ==
    /\ Ready
    /\ excerpts[t] # None
    /\ \/ /\ Loaded(t)
          /\ lru' = Touched(t)
          /\ UNCHANGED <<bugs, ghosts>>
       \/ /\ ~ Loaded(t) /\ local[t] # << >>
          /\ Load(t, local[t])
    /\ Goto("show", t)
    /\ UNCHANGED <<packs, refs, file, excerpts, pull>>

(* The cache lists a ticket that has no ref: the error ends the session.   *)
OpenMissing(t) ==
    /\ Ready
    /\ excerpts[t] # None /\ ~ Loaded(t) /\ local[t] = << >>
    /\ Goto("end", None)
    /\ UNCHANGED <<packs, refs, file, memory, pull, ghosts>>

-----------------------------------------------------------------------------
(* Editing *)

(* NewBug: one commit, one ref, and the ticket is loaded. *)
NewBug(t) ==
    /\ Ready
    /\ \A i \in DOMAIN packs : packs[i].ticket # t
    /\ NewPack(t, FALSE)
    /\ local' = [local EXCEPT ![t] = <<[pack |-> Len(packs) + 1, by |-> Us]>>]
    /\ Load(t, local'[t])
    /\ Goto("notify", t)
    /\ UNCHANGED <<server, tracking, file, excerpts, pull>>

(* An operation is staged (bound: one at a time).  The methods of an       *)
(* evicted ticket would block, its mutex is never unlocked.                *)
Stage(status) ==
    /\ main.at = "show"
    /\ Loaded(main.t) /\ ~ NeedCommit(main.t)
    /\ NewPack(main.t, status)
    /\ bugs' = [bugs EXCEPT ![main.t].staged = <<Len(packs) + 1>>]
    /\ Goto("notify", main.t)
    /\ UNCHANGED <<refs, file, excerpts, lru, pull, ghosts>>

(* Fault: what has been committed stays staged. *)
CommitAgain(t) ==
    LET chain == Append(bugs[t].base, [pack |-> bugs[t].staged[1], by |-> Us])
    IN  /\ Valid(bugs[t].base)
        /\ local' = [local EXCEPT ![t] = chain]
        /\ bugs' = [bugs EXCEPT ![t].base = chain]

(* Bug.Commit: the parent is the last commit the loaded ticket knows, and  *)
(* the ref is set whatever it points to.                                   *)
Commit(t) ==
    LET chain == Append(bugs[t].base, [pack |-> bugs[t].staged[1], by |-> Us])
    IN  /\ Valid(bugs[t].base)
        /\ local' = [local EXCEPT ![t] = chain]
        /\ bugs' = [bugs EXCEPT ![t] = [base |-> chain, staged |-> << >>]]

(* saveAndBack: CommitAsNeeded, which notifies in any case. *)
SaveAndBack ==
    /\ main.at = "show" /\ Loaded(main.t)
    /\ \/ NeedCommit(main.t) /\ Commit(main.t)
       \/ ~ NeedCommit(main.t) /\ UNCHANGED <<local, bugs>>
    /\ Goto("saved", main.t)
    /\ UNCHANGED <<packs, server, tracking, file, excerpts, lru, pull, ghosts>>

(* A ticket that does not validate is not committed; the error ends the    *)
(* session.                                                                *)
SaveInvalid ==
    /\ main.at = "show" /\ Loaded(main.t)
    /\ NeedCommit(main.t) /\ ~ Valid(bugs[main.t].base)
    /\ Goto("end", None)
    /\ UNCHANGED <<packs, refs, file, memory, pull, ghosts>>

(* bugUpdated, with the mutex: the excerpt of what is loaded.  It would     *)
(* fail for an evicted ticket.                                             *)
Notify ==
    /\ main.at \in {"notify", "saved"}
    /\ Loaded(main.t)
    /\ excerpts' = [excerpts EXCEPT ![main.t] = Snapshot(main.t)]
    /\ lru' = Touched(main.t)
    /\ Goto(IF main.at = "notify" THEN "write" ELSE "writeBack", main.t)
    /\ UNCHANGED <<packs, refs, file, bugs, pull, ghosts>>

(* writeBugCache: all excerpts. *)
Write ==
    /\ main.at \in {"write", "writeBack", "writeEnd"}
    /\ file' = excerpts
    /\ CASE main.at = "write" -> Goto("show", main.t)
         [] main.at = "writeBack" -> Goto("table", None)
         [] main.at = "writeEnd" -> Goto("end", None)
    /\ UNCHANGED <<packs, refs, memory, pull, ghosts>>

-----------------------------------------------------------------------------
(* Commands that are the only thing their session does *)

(* RemoveBug: the refs, then the excerpt. *)
RemoveBug(t) ==
    /\ main.at = "opened"
    /\ excerpts[t] # None /\ local[t] # << >>
    /\ local' = [local EXCEPT ![t] = << >>]
    /\ tracking' = [tracking EXCEPT ![t] = << >>]
    /\ Goto("removed", t)
    /\ UNCHANGED <<packs, server, file, memory, pull, ghosts>>

DropExcerpt ==
    /\ main.at = "removed"
    /\ excerpts' = [excerpts EXCEPT ![main.t] = None]
    /\ Goto("writeEnd", main.t)
    /\ UNCHANGED <<packs, refs, file, bugs, lru, pull, ghosts>>

(* Fault: the copy that was resolved stays in the cache. *)
ResetBugOnly(t) ==
    /\ main.at = "opened"
    /\ excerpts[t] # None /\ local[t] # << >> /\ tracking[t] # << >>
    /\ local' = [local EXCEPT ![t] =
                   IF NothingBetween(tracking[t], @) THEN @ ELSE tracking[t]]
    /\ Load(t, local[t])
    /\ Goto("reset", t)
    /\ UNCHANGED <<packs, server, tracking, file, excerpts, pull>>

(* ResetBug: the ref, unless it holds nothing of its own; then the ticket  *)
(* is read again.                                                          *)
ResetBug(t) ==
    /\ main.at = "opened"
    /\ excerpts[t] # None /\ local[t] # << >> /\ tracking[t] # << >>
    /\ local' = [local EXCEPT ![t] =
                   IF NothingBetween(tracking[t], @) THEN @ ELSE tracking[t]]
    /\ Load(t, local'[t])
    /\ Goto("reset", t)
    /\ UNCHANGED <<packs, server, tracking, file, excerpts, pull>>

ReadReset ==
    /\ main.at = "reset"
    /\ excerpts' = [excerpts EXCEPT ![main.t] = Snapshot(main.t)]
    /\ Goto("writeEnd", main.t)
    /\ UNCHANGED <<packs, refs, file, bugs, lru, pull, ghosts>>

(* RefreshCache: tickets without an excerpt, and those whose last          *)
(* operation is later than the last one of the excerpt.                    *)
OutOfDate(t) ==
    /\ local[t] # << >>
    /\ \/ excerpts[t] = None
       \/ Last(excerpts[t]) < Last(local[t]).pack

RefreshCache ==
    /\ main.at = "opened"
    /\ excerpts' = [t \in Tickets |-> IF OutOfDate(t) THEN Built[t]
                                      ELSE excerpts[t]]
    /\ Goto("writeEnd", None)
    /\ UNCHANGED <<packs, refs, file, bugs, lru, pull, ghosts>>

-----------------------------------------------------------------------------
(* Pulling and pushing, in goroutines *)

(* A fetch that fails is reported, and the merge goes on with what there is*)
(* (bound: one pull at a time).                                            *)
StartPull(fetched) ==
    /\ Ready /\ ~ Pulling
    /\ tracking' = IF fetched THEN server ELSE tracking
    /\ merger' = [at |-> "next", todo |-> {t \in Tickets : tracking'[t] # << >>}]
    /\ forwarder' = [at |-> "receive", t |-> None]
    /\ Goto("table", None)
    /\ mixed' = (mixed \/ \E t \in Tickets : Loaded(t))
    /\ damaged' = (damaged \/ \E t \in Tickets : Loaded(t))
    /\ UNCHANGED <<packs, server, local, file, memory>>

(* Nothing new for this ticket: no result. *)
MergeSkip(t) ==
    /\ merger.at = "next" /\ t \in merger.todo
    /\ local[t] # << >> /\ NothingBetween(local[t], tracking[t])
    /\ merger' = [merger EXCEPT !.todo = @ \ {t}]
    /\ UNCHANGED <<packs, refs, file, memory, main, forwarder, ghosts>>

StatusChanged(chain) == \E i \in DOMAIN chain : packs[chain[i].pack].status

(* Both sides changed the status after their common ancestor. *)
StatusConflict(ours, theirs) ==
    LET k == CommonAncestor(ours, theirs)
    IN  StatusChanged(Extra(ours, k)) /\ StatusChanged(Extra(theirs, k))

(* What bug.MergeAll makes of a ticket, from the refs as it reads them.    *)
Result(ours, theirs) ==
    CASE ~ Valid(theirs) -> "invalid"
      [] Valid(theirs) /\ ours = << >> -> "new"
      [] Valid(theirs) /\ ours # << >> ->
           IF StatusConflict(ours, theirs) THEN "conflict" ELSE "updated"

Refused == {"invalid", "conflict"}

(* After a conflict the loop of bug.MergeAll ends. *)
MergeRead(t) ==
    LET result == Result(local[t], tracking[t])
    IN  /\ merger.at = "next" /\ t \in merger.todo
        /\ local[t] # << >> => ~ NothingBetween(local[t], tracking[t])
        /\ merger' = [at |-> IF result \in Refused THEN "send" ELSE "merge",
                      todo |-> IF result = "conflict" THEN {}
                               ELSE merger.todo \ {t},
                      t |-> t, result |-> result,
                      chain |-> IF result = "updated"
                                THEN Rebase(local[t], tracking[t], Us)
                                ELSE tracking[t]]
        /\ UNCHANGED <<packs, refs, file, memory, main, forwarder, ghosts>>

(* The ref is set whatever it points to now. *)
MergeWrite ==
    /\ merger.at = "merge"
    /\ local' = [local EXCEPT ![merger.t] = merger.chain]
    /\ merger' = [merger EXCEPT !.at = "send"]
    /\ UNCHANGED <<packs, server, tracking, file, memory, main, forwarder,
                   ghosts>>

(* A result passes to the goroutine of RepoCache.MergeAll; bug.MergeAll    *)
(* goes on with the next ticket.                                           *)
Forward ==
    /\ merger.at = "send" /\ forwarder.at = "receive"
    /\ forwarder' = [at |-> "send", t |-> merger.t, result |-> merger.result,
                     content |-> Contents(merger.chain)]
    /\ merger' = [at |-> "next", todo |-> merger.todo]
    /\ UNCHANGED <<packs, refs, file, memory, main, ghosts>>

(* The consumer shows the result. *)
Consume ==
    /\ forwarder.at = "send" /\ forwarder.result \notin Refused
    /\ forwarder' = [forwarder EXCEPT !.at = "update"]
    /\ UNCHANGED <<packs, refs, file, memory, main, merger, ghosts>>

(* Of a refused ticket there is no entity to show: pull returns an error   *)
(* and the command exits, the terminal interface panics.                   *)
ConsumeInvalid ==
    /\ forwarder.at = "send" /\ forwarder.result \in Refused
    /\ Die
    /\ UNCHANGED file

(* Fault: only tickets that have an excerpt get a new one. *)
UpdateKnown ==
    /\ forwarder.at = "update"
    /\ main.at # "closed"
    /\ excerpts' = [excerpts EXCEPT ![forwarder.t] =
                       IF @ = None THEN @ ELSE forwarder.content]
    /\ forwarder' = [at |-> "receive", t |-> None]
    /\ UNCHANGED <<packs, refs, file, bugs, lru, main, merger, ghosts>>

(* The excerpt of the ticket as it was merged.                             *)
UpdateExcerpt ==
    /\ forwarder.at = "update"
    /\ main.at # "closed"
    /\ excerpts' = [excerpts EXCEPT ![forwarder.t] = forwarder.content]
    /\ forwarder' = [at |-> "receive", t |-> None]
    /\ UNCHANGED <<packs, refs, file, bugs, lru, main, merger, ghosts>>

(* Close has set the map to nil: the goroutine panics.                     *)
UpdateClosed ==
    /\ forwarder.at = "update"
    /\ main.at = "closed"
    /\ Die
    /\ UNCHANGED file

(* All results have been passed on: the file is written. *)
EndMerge ==
    /\ merger.at = "next" /\ merger.todo = {} /\ forwarder.at = "receive"
    /\ merger' = Quiet
    /\ forwarder' = [at |-> "write", t |-> None]
    /\ UNCHANGED <<packs, refs, file, memory, main, ghosts>>

WriteMerged ==
    /\ forwarder.at = "write"
    /\ file' = excerpts
    /\ forwarder' = Quiet
    /\ UNCHANGED <<packs, refs, memory, main, merger, ghosts>>

(* Push: all local refs, if they are all fast-forwards; the tracking refs  *)
(* of those that have changed follow.                                      *)
ToPush == {t \in Tickets : local[t] \notin {<< >>, server[t]}}

Push ==
    /\ Running
    /\ ToPush # {}
    /\ \A t \in ToPush : IsPrefix(server[t], local[t])
    /\ server' = [t \in Tickets |-> IF t \in ToPush THEN local[t] ELSE server[t]]
    /\ tracking' = [t \in Tickets |-> IF t \in ToPush THEN local[t] ELSE tracking[t]]
    /\ UNCHANGED <<packs, local, file, memory, main, pull, ghosts>>

-----------------------------------------------------------------------------
Init ==
    /\ packs = << >>
    /\ server = [t \in Tickets |-> << >>]
    /\ tracking = [t \in Tickets |-> << >>]
    /\ local = [t \in Tickets |-> << >>]
    /\ file = None
    /\ excerpts = NoExcerpts
    /\ bugs = [t \in Tickets |-> NotLoaded]
    /\ lru = << >>
    /\ main = Quiet /\ merger = Quiet /\ forwarder = Quiet
    /\ mixed = FALSE /\ damaged = FALSE

MainThread ==
    \/ \E t \in Tickets : OpenBug(t) \/ OpenMissing(t) \/ NewBug(t)
    \/ \E status \in BOOLEAN : Stage(status)
    \/ SaveAndBack \/ SaveInvalid \/ Notify \/ Write
    \/ \E t \in Tickets : RemoveBug(t) \/ ResetBug(t)
    \/ DropExcerpt \/ ReadReset \/ RefreshCache
    \/ Close \/ Exit

Merging ==
    \/ \E t \in Tickets : MergeSkip(t) \/ MergeRead(t)
    \/ MergeWrite \/ Forward \/ Consume \/ ConsumeInvalid
    \/ UpdateExcerpt \/ UpdateClosed
    \/ EndMerge \/ WriteMerged

Next ==
    \/ \E t \in Tickets, status \in BOOLEAN : PushedByOthers(t, status)
    \/ \E t \in Tickets : PushedElsewhere(t)
    \/ \E rebuild \in BOOLEAN : Start(rebuild)
    \/ Crash
    \/ MainThread
    \/ \E fetched \in BOOLEAN : StartPull(fetched)
    \/ Merging
    \/ Push

Spec == Init /\ [][Next]_vars

-----------------------------------------------------------------------------
(* Properties *)

Excerpts == [Tickets -> Seq(Nat) \cup {None}]

TypeOK ==
    /\ \A t \in Tickets : /\ server[t] \in Seq([pack : Nat, by : {Us, Them}])
                         /\ tracking[t] \in Seq([pack : Nat, by : {Us, Them}])
                         /\ local[t] \in Seq([pack : Nat, by : {Us, Them}])
    /\ excerpts \in Excerpts
    /\ file = None \/ file \in Excerpts
    /\ ToSet(lru) = {t \in Tickets : Loaded(t)}
    /\ Cardinality(ToSet(lru)) = Len(lru)
    /\ main.t \in Tickets \cup {None}
    /\ merger.at \in {"off", "next", "merge", "send"}
    /\ forwarder.at \in {"off", "receive", "send", "update", "write"}

(* What the next command finds in the cache file is the state of the refs: *)
(* every way through NewBug, the edits, saveAndBack, rm, reset, refresh and*)
(* a pull ends with the file written as the refs are, provided nothing was *)
(* cut short and no ticket was loaded while a pull was running.            *)
CacheFaithful ==
    main.at = "off" /\ ~ damaged => file = None \/ file = Built

(* A loaded ticket is the ticket its ref holds: no merge, removal or reset *)
(* leaves an old copy in RepoCache.bugs for Commit to build on, if no      *)
(* ticket is loaded while a pull runs.                                     *)
SingleCopy ==
    ~ mixed => \A t \in Tickets : ~ Stale(t)

(* The ticket in the window, or being written, is never evicted: the mutex *)
(* of an evicted BugCache stays locked, and its next method would block.   *)
ShownIsLoaded ==
    main.at \in {"show", "notify", "saved", "reset"} => Loaded(main.t)

(* The cache keeps at most MaxLoaded tickets: with one edit at a time there*)
(* is always one to evict.                                                 *)
WithinLimit == Cardinality({t \in Tickets : Loaded(t)}) <= MaxLoaded

(* No operation disappears from a local ticket, however commits, merges,   *)
(* rebases and pushes interleave, except by git ticket rm and reset, and   *)
(* by a commit on top of a copy that a pull has left behind.               *)
OperationsKept ==
    [][ \/ mixed
        \/ \E t \in Tickets : RemoveBug(t) \/ ResetBug(t)
        \/ \A t \in Tickets : PackIds(local[t]) \subseteq PackIds(local'[t])
      ]_vars

(* cache/repo_cache.go:41: "The cache guarantee that a single instance of  *)
(* a Bug is loaded at once, avoiding loss of data".                        *)
NothingLost ==
    [][ \/ \E t \in Tickets : RemoveBug(t) \/ ResetBug(t)
        \/ \A t \in Tickets : PackIds(local[t]) \subseteq PackIds(local'[t])
      ]_vars

(* What the remote of this clone publishes, and what the clone records of  *)
(* it: RepoCache implements PublishedHistory, with the others as one.      *)
Origin == {"origin"}

OfOrigin(table) == [m \in Origin |-> table]

History == INSTANCE PublishedHistory
             WITH Replicas <- {Us, Them}, Remotes <- Origin,
                  published <- OfOrigin(server),
                  known <- [r \in {Us, Them} |->
                              OfOrigin(IF r = Us THEN tracking
                                       ELSE [t \in Tickets |-> << >>])]

PublishesHistory == History!Spec

(* The refs of the clone as CloneRefs has them. *)
Refs == INSTANCE CloneRefs
          WITH Clones <- {Us}, Remotes <- Origin,
               server <- OfOrigin(server),
               tracking <- [r \in {Us} |-> OfOrigin(tracking)],
               local <- [r \in {Us} |-> local],
               sets <- [p \in DOMAIN packs |-> packs[p].status]

(* Neither the tickets kept in memory nor the goroutines can be told from  *)
(* the refs: a ticket that is read, edited and saved later, or read and    *)
(* then merged, changes as if that were one step, unless a ticket is       *)
(* loaded while a pull runs.                                               *)
OperationsAtomic == [][mixed \/ Refs!Next]_(Refs!vars)

(* cache/repo_cache_common.go: "RefreshCache synchronizes the local cache  *)
(* with the bugs and identity commits".                                    *)
RefreshRepairs == [][RefreshCache => excerpts' = Built]_vars
=============================================================================
