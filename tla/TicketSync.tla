----------------------------- MODULE TicketSync -----------------------------
(***************************************************************************)
(* The distributed core of git-ticket: every replica (a clone) holds, for  *)
(* each ticket, a local ref, a remote-tracking ref per remote, and the two *)
(* Lamport clocks of the repository.  Replicas exchange tickets only       *)
(* through the refs of shared remotes, with a fast-forward-only push and   *)
(* with a pull that fetches and then rebases local commits on top of the   *)
(* remote history, one ticket at a time.                                   *)
(***************************************************************************)
EXTENDS CommitChains, FiniteSets, FiniteSetsExt

CONSTANTS
    Replicas,     \* clones of the repository
    Remotes,      \* bare repositories the clones push to and pull from
    Tickets,      \* ticket ids (hash of a ticket's first commit)
    Statuses,     \* ticket statuses
    Proposed,     \* the status a ticket is compiled with before any change
    Transitions,  \* legal status changes, a set of pairs
    NoChange,     \* "this pack contains no SetStatus operation"
    MaxPacks,     \* bound: operation packs ever committed
    MaxChain      \* bound: commits of a chain made by a rebase

ASSUME ConstantsOK ==
    /\ Proposed \in Statuses
    /\ NoChange \notin Statuses
    /\ Transitions \subseteq Statuses \X Statuses
    /\ MaxPacks \in Nat /\ MaxChain \in Nat

VARIABLES
    packs,     \* the git trees stored so far: packs[n] is written once
    local,     \* local[r][t]: chain of refs/bugs/<t>, << >> if no such ref
    tracking,  \* tracking[r][m][t]: chain of refs/remotes/<m>/bugs/<t>
    server,    \* server[m][t]: chain of refs/bugs/<t> in the remote
    clock,     \* clock[r]: create and edit Lamport clocks, next free times
    merging    \* merging[r]: remote refs a running MergeAll has still to do

vars == <<packs, local, tracking, server, clock, merging>>

(* The tree of a commit: the ticket, the status its operations set, the    *)
(* clock entries (create is 0 except in a first commit), and, for the      *)
(* properties only, the trees its author had in local refs.                *)
Pack == [ticket : Tickets, status : Statuses \cup {NoChange},
         create : Nat, edit : Nat, seen : SUBSET Nat]

Commit == [pack : Nat, by : Replicas]

Chain == Seq(Commit)

TypeOK ==
    /\ packs \in Seq(Pack)
    /\ local \in [Replicas -> [Tickets -> Chain]]
    /\ tracking \in [Replicas -> [Remotes -> [Tickets -> Chain]]]
    /\ server \in [Remotes -> [Tickets -> Chain]]
    /\ clock \in [Replicas -> [create : Nat, edit : Nat]]
    /\ merging \in [Replicas -> SUBSET (Remotes \X Tickets)]

-----------------------------------------------------------------------------
(* Reading a ticket *)

(* Positions of the commits of a chain whose pack sets the status.         *)
StatusChanges(chain) ==
    {i \in DOMAIN chain : packs[chain[i].pack].status # NoChange}

(* The status of the compiled ticket: the last one set. *)
CurrentStatus(chain) ==
    IF StatusChanges(chain) = {}
    THEN Proposed
    ELSE packs[chain[Max(StatusChanges(chain))].pack].status

(* Fault: a clock is moved to, not past, the times it has seen.            *)
WitnessEqual(c, seen) ==
    [create |-> Max({c.create} \cup {packs[p].create : p \in seen}),
     edit   |-> Max({c.edit} \cup {packs[p].edit : p \in seen})]

(* Clocks that have witnessed the entries of some packs: each clock moves  *)
(* past the largest time it has seen.                                      *)
WitnessAll(c, seen) ==
    [create |-> Max({c.create} \cup {packs[p].create + 1 : p \in seen}),
     edit   |-> Max({c.edit} \cup {packs[p].edit + 1 : p \in seen})]

(* readBug witnesses the clock entries of every commit of the chain.       *)
Witness(c, chain) == WitnessAll(c, PackIds(chain))

(* Trees reachable from the local refs of a replica. *)
Visible(r) == UNION {PackIds(local[r][t]) : t \in Tickets}

(* The repository lock: one command at a time works on a clone.            *)
Idle(r) == merging[r] = {}

-----------------------------------------------------------------------------
(* Committing *)

(* RepoCache.NewBug: a chain of one commit; both clocks tick.              *)
NewTicket(r, t) ==
    /\ Idle(r)
    /\ Len(packs) < MaxPacks
    /\ \A i \in DOMAIN packs : packs[i].ticket # t
    /\ packs' = Append(packs, [ticket |-> t, status |-> NoChange,
                               create |-> clock[r].create,
                               edit |-> clock[r].edit, seen |-> Visible(r)])
    /\ local' = [local EXCEPT ![r][t] =
                    <<[pack |-> Len(packs) + 1, by |-> r]>>]
    /\ clock' = [clock EXCEPT ![r] = [create |-> @.create + 1,
                                      edit |-> @.edit + 1]]
    /\ UNCHANGED <<tracking, server, merging>>

(* Any command that changes a ticket: read it, append operations (at most  *)
(* one change of status, checked against the workflow), Bug.Commit.        *)
CommitOps(r, t, s) ==
    /\ Idle(r)
    /\ Len(packs) < MaxPacks
    /\ local[r][t] # << >>
    /\ Valid(local[r][t])
    /\ s = NoChange \/ <<CurrentStatus(local[r][t]), s>> \in Transitions
    /\ LET now == Witness(clock[r], local[r][t])
       IN  /\ packs' = Append(packs, [ticket |-> t, status |-> s, create |-> 0,
                                      edit |-> now.edit, seen |-> Visible(r)])
           /\ clock' = [clock EXCEPT ![r] = [create |-> now.create,
                                             edit |-> now.edit + 1]]
    /\ local' = [local EXCEPT ![r][t] =
                    Append(@, [pack |-> Len(packs) + 1, by |-> r])]
    /\ UNCHANGED <<tracking, server, merging>>

-----------------------------------------------------------------------------
(* Pulling: RepoCache.Pull = Fetch, then MergeAll over the remote refs *)

(* FetchRefs uses refspecs without "+": every tracking ref is moved if the *)
(* move is a fast-forward; otherwise the pull fails.  MergeAll then lists  *)
(* the tracking refs.                                                      *)
StartPull(r, m) ==
    /\ Idle(r)
    /\ \A t \in Tickets : IsPrefix(tracking[r][m][t], server[m][t])
    /\ tracking' = [tracking EXCEPT ![r][m] = server[m]]
    /\ merging' = [merging EXCEPT ![r] =
                     {<<m, t>> : t \in {u \in Tickets : server[m][u] # << >>}}]
    /\ UNCHANGED <<packs, local, server, clock>>

(* The loop of MergeAll goes on with the other refs. *)
Continue(r, m, t) == merging' = [merging EXCEPT ![r] = @ \ {<<m, t>>}]

(* The local ref contains the remote one: the ref is skipped unread.       *)
SkipUpToDate(r, m, t) ==
    /\ <<m, t>> \in merging[r]
    /\ local[r][t] # << >>
    /\ NothingBetween(local[r][t], tracking[r][m][t])
    /\ Continue(r, m, t)
    /\ UNCHANGED <<packs, local, tracking, server, clock>>

(* The remote ref has commits the local one has not (or there is no local  *)
(* ref), so readBug reads it.                                              *)
RemoteHasMore(r, m, t) ==
    /\ <<m, t>> \in merging[r]
    /\ \/ local[r][t] = << >>
       \/ ~ NothingBetween(local[r][t], tracking[r][m][t])

(* The remote ticket does not validate: MergeStatusInvalid, next ref.      *)
SkipInvalid(r, m, t) ==
    /\ RemoteHasMore(r, m, t)
    /\ ~ Valid(tracking[r][m][t])
    /\ clock' = [clock EXCEPT ![r] = Witness(@, tracking[r][m][t])]
    /\ Continue(r, m, t)
    /\ UNCHANGED <<packs, local, tracking, server>>

(* The ticket is not local yet: CopyRef, MergeStatusNew.                   *)
CopyNew(r, m, t) ==
    /\ RemoteHasMore(r, m, t)
    /\ Valid(tracking[r][m][t])
    /\ local[r][t] = << >>
    /\ local' = [local EXCEPT ![r][t] = tracking[r][m][t]]
    /\ clock' = [clock EXCEPT ![r] = Witness(@, tracking[r][m][t])]
    /\ Continue(r, m, t)
    /\ UNCHANGED <<packs, tracking, server>>

(* Fault: only the last packs of the two sides are compared. *)
StatusConflictAtTips(ours, theirs) ==
    /\ packs[Last(ours).pack].status # NoChange
    /\ packs[Last(theirs).pack].status # NoChange

(* Both sides changed the status after their common ancestor. *)
StatusConflict(ours, theirs) ==
    LET k == CommonAncestor(ours, theirs)
    IN  /\ StatusChanges(Extra(ours, k)) # {}
        /\ StatusChanges(Extra(theirs, k)) # {}

(* Both tickets are read before they are merged. *)
WitnessBoth(r, m, t) ==
    clock' = [clock EXCEPT ![r] =
                Witness(Witness(@, tracking[r][m][t]), local[r][t])]

(* Bug.Merge: fast-forward, or rebase of our commits on the remote chain;  *)
(* MergeStatusUpdated.                                                     *)
MergeUpdated(r, m, t) ==
    /\ RemoteHasMore(r, m, t)
    /\ Valid(tracking[r][m][t])
    /\ local[r][t] # << >>
    /\ ~ StatusConflict(local[r][t], tracking[r][m][t])
    /\ local' = [local EXCEPT ![r][t] = Rebase(@, tracking[r][m][t], r)]
    /\ Len(local'[r][t]) <= MaxChain
    /\ WitnessBoth(r, m, t)
    /\ Continue(r, m, t)
    /\ UNCHANGED <<packs, tracking, server>>

(* Conflicting status changes: Merge fails before the ref is moved, and    *)
(* MergeAll returns without looking at the remaining refs.                 *)
MergeConflict(r, m, t) ==
    /\ RemoteHasMore(r, m, t)
    /\ Valid(tracking[r][m][t])
    /\ local[r][t] # << >>
    /\ StatusConflict(local[r][t], tracking[r][m][t])
    /\ WitnessBoth(r, m, t)
    /\ merging' = [merging EXCEPT ![r] = {}]
    /\ UNCHANGED <<packs, local, tracking, server>>

MergeTicket(r, m, t) ==
    \/ SkipUpToDate(r, m, t)
    \/ SkipInvalid(r, m, t)
    \/ CopyNew(r, m, t)
    \/ MergeUpdated(r, m, t)
    \/ MergeConflict(r, m, t)

(* The process ends in the middle of MergeAll: it is killed, or Pull has   *)
(* returned on an invalid ticket and the command exits.                    *)
Abort(r) ==
    /\ ~ Idle(r)
    /\ merging' = [merging EXCEPT ![r] = {}]
    /\ UNCHANGED <<packs, local, tracking, server, clock>>

-----------------------------------------------------------------------------
(* Pushing *)

(* Fault: the refs are pushed with "+". *)
ForcePush(r, m, t) == TRUE

CanFastForward(r, m, t) == IsPrefix(server[m][t], local[r][t])

(* The refs a push has to update: local ones that differ from the remote's. *)
ToPush(r, m) ==
    {t \in Tickets : local[r][t] # << >> /\ local[r][t] # server[m][t]}

(* Fault: the tracking refs follow although the remote refused the push.   *)
PushTracksRefused(r, m) ==
    /\ Idle(r)
    /\ server' = [server EXCEPT ![m] = [t \in Tickets |->
                    IF /\ t \in ToPush(r, m)
                       /\ \A u \in ToPush(r, m) : CanFastForward(r, m, u)
                    THEN local[r][t] ELSE @[t]]]
    /\ tracking' = [tracking EXCEPT ![r][m] = [t \in Tickets |->
                    IF t \in ToPush(r, m) THEN local[r][t] ELSE @[t]]]
    /\ UNCHANGED <<packs, local, clock, merging>>

(* PushRefs: every local ref, refused as a whole if one of them is not a   *)
(* fast-forward; the tracking refs of the updated refs follow.             *)
Push(r, m) ==
    /\ Idle(r)
    /\ \A t \in ToPush(r, m) : CanFastForward(r, m, t)
    /\ server' = [server EXCEPT ![m] = [t \in Tickets |->
                    IF t \in ToPush(r, m) THEN local[r][t] ELSE @[t]]]
    /\ tracking' = [tracking EXCEPT ![r][m] = [t \in Tickets |->
                    IF t \in ToPush(r, m) THEN local[r][t] ELSE @[t]]]
    /\ UNCHANGED <<packs, local, clock, merging>>

(* PushSingleRef (push --selected): one ref; no fetch refspec is added, so *)
(* the tracking ref stays behind.                                          *)
PushTicket(r, m, t) ==
    /\ Idle(r)
    /\ t \in ToPush(r, m)
    /\ CanFastForward(r, m, t)
    /\ server' = [server EXCEPT ![m][t] = local[r][t]]
    /\ UNCHANGED <<packs, local, tracking, clock, merging>>

-----------------------------------------------------------------------------
(* Removing, resetting, reopening *)

(* RemoveBug deletes the local ref and every tracking ref; the remotes     *)
(* keep theirs.                                                            *)
RemoveBug(r, t) ==
    /\ Idle(r)
    /\ local[r][t] # << >>
    /\ local' = [local EXCEPT ![r][t] = << >>]
    /\ tracking' = [tracking EXCEPT ![r] =
                      [m \in Remotes |-> [@[m] EXCEPT ![t] = << >>]]]
    /\ UNCHANGED <<packs, server, clock, merging>>

(* ResetBug points the local ref to a tracking ref, unless the local ref   *)
(* holds nothing the tracking ref has not; the ticket is then read again.  *)
ResetBug(r, m, t) ==
    /\ Idle(r)
    /\ local[r][t] # << >>
    /\ tracking[r][m][t] # << >>
    /\ ~ NothingBetween(tracking[r][m][t], local[r][t])
    /\ local' = [local EXCEPT ![r][t] = tracking[r][m][t]]
    /\ clock' = [clock EXCEPT ![r] = Witness(@, tracking[r][m][t])]
    /\ UNCHANGED <<packs, tracking, server, merging>>

(* NewGitRepo with a clock file missing: the witnesser reads every local   *)
(* ticket into clocks that start at 1.                                     *)
RebuildClocks(r) ==
    /\ Idle(r)
    /\ clock' = [clock EXCEPT ![r] =
                   WitnessAll([create |-> 1, edit |-> 1], Visible(r))]
    /\ UNCHANGED <<packs, local, tracking, server, merging>>

-----------------------------------------------------------------------------
Init ==
    /\ packs = << >>
    /\ local = [r \in Replicas |-> [t \in Tickets |-> << >>]]
    /\ tracking = [r \in Replicas |->
                     [m \in Remotes |-> [t \in Tickets |-> << >>]]]
    /\ server = [m \in Remotes |-> [t \in Tickets |-> << >>]]
    /\ clock = [r \in Replicas |-> [create |-> 1, edit |-> 1]]
    /\ merging = [r \in Replicas |-> {}]

Next ==
    \E r \in Replicas :
        \/ \E t \in Tickets : NewTicket(r, t)
        \/ \E t \in Tickets, s \in Statuses \cup {NoChange} : CommitOps(r, t, s)
        \/ \E m \in Remotes : StartPull(r, m)
        \/ \E m \in Remotes, t \in Tickets : MergeTicket(r, m, t)
        \/ Abort(r)
        \/ \E m \in Remotes : Push(r, m)
        \/ \E m \in Remotes, t \in Tickets : PushTicket(r, m, t)
        \/ \E t \in Tickets : RemoveBug(r, t)
        \/ \E m \in Remotes, t \in Tickets : ResetBug(r, m, t)
        \/ RebuildClocks(r)

Spec == Init /\ [][Next]_vars

-----------------------------------------------------------------------------
(* Properties *)

(* Every chain a ref of the system points to, for ticket t. *)
Chains(t) ==
    {local[r][t] : r \in Replicas} \cup {server[m][t] : m \in Remotes}
      \cup {tracking[r][m][t] : r \in Replicas, m \in Remotes}

(* Rebasing never makes an operation occur twice in a ticket: with one     *)
(* remote every ref always passes Bug.Validate, whatever is pulled, pushed *)
(* singly, removed, reset or interrupted in between.                       *)
NoDuplicateOps == \A t \in Tickets : \A c \in Chains(t) : Valid(c)

(* The tracking refs of a clone are always cuts of the remote history, so  *)
(* a fetch is always a fast-forward.                                       *)
TrackingBehindServer ==
    \A r \in Replicas, m \in Remotes, t \in Tickets :
        IsPrefix(tracking[r][m][t], server[m][t])

(* Whatever the rebases, an operation comes, in every chain that has it,   *)
(* after all operations its author had on that ticket when writing it.     *)
CausallyOrdered ==
    \A t \in Tickets : \A c \in Chains(t) : \A i \in DOMAIN c :
        {p \in packs[c[i].pack].seen : packs[p].ticket = t}
          \subseteq {c[j].pack : j \in 1 .. i - 1}

(* Lamport clocks: a pack is stamped later than every pack its author had  *)
(* read, on whatever ticket, and likewise for the creation times.          *)
CausalTimes ==
    \A p \in DOMAIN packs : \A q \in packs[p].seen :
        /\ packs[q].edit < packs[p].edit
        /\ packs[p].create # 0 => packs[q].create < packs[p].create

(* Every status change of every chain, rebased or not, is a transition the *)
(* workflow allows from the status set before it: concurrent edits never   *)
(* add up to a path a single user could not have taken.                    *)
StatusPathLegal ==
    \A t \in Tickets : \A c \in Chains(t) : \A i \in StatusChanges(c) :
        <<CurrentStatus(SubSeq(c, 1, i - 1)), packs[c[i].pack].status>>
            \in Transitions

(* An operation leaves a local ticket only when the user removes or resets *)
(* that ticket; no pull loses local or remote operations.                  *)
NothingLost ==
    [][\A r \in Replicas, t \in Tickets :
         \/ PackIds(local[r][t]) \subseteq PackIds(local'[r][t])
         \/ RemoveBug(r, t)
         \/ \E m \in Remotes : ResetBug(r, m, t)]_vars

(* When MergeAll comes to its end every remote ticket it was to merge is   *)
(* contained in the local one, except those in conflict.                   *)
MergeAllCompletes ==
    [][\A r \in Replicas : (~ Idle(r) /\ Idle(r)' /\ ~ Abort(r)) =>
         \A mt \in merging[r] :
            LET theirs == tracking[r][mt[1]][mt[2]]
            IN  \/ IsPrefix(theirs, local'[r][mt[2]])
                \/ StatusConflict(local[r][mt[2]], theirs)
                \/ ~ Valid(theirs)]_vars

(* The remotes are append-only histories, and the tracking refs record     *)
(* them: TicketSync implements PublishedHistory.                           *)
History == INSTANCE PublishedHistory WITH published <- server,
                                          known <- tracking

PublishesHistory == History!Spec

(* The clocks, the loop over the refs of a pull and its interruptions do   *)
(* not show in the refs: commits, merges, pushes, removals and resets are  *)
(* steps of their own, and TicketSync implements CloneRefs.                *)
Refs == INSTANCE CloneRefs
          WITH Clones <- Replicas,
               sets <- [p \in DOMAIN packs |-> packs[p].status # NoChange]

ActsOnRefs == Refs!Spec

-----------------------------------------------------------------------------
(* Liveness.  The tool never synchronises by itself: the users of every    *)
(* clone are assumed to keep pulling and pushing.  A pull that is not      *)
(* aborted goes through all its tickets.                                   *)
Fairness ==
    \A r \in Replicas, m \in Remotes :
        /\ WF_vars(StartPull(r, m))
        /\ WF_vars(\E t \in Tickets : MergeTicket(r, m, t))
        /\ SF_vars(Push(r, m))

FairSpec == Spec /\ Fairness

(* The steps by which users throw local state away. *)
Disturbance ==
    \E r \in Replicas :
        \/ Abort(r)
        \/ \E t \in Tickets : RemoveBug(r, t)
        \/ \E m \in Remotes, t \in Tickets : ResetBug(r, m, t)

InSync ==
    \A r \in Replicas, m \in Remotes, t \in Tickets :
        local[r][t] = server[m][t]

(* If nothing is thrown away any more (and only finitely many operations   *)
(* are written), all clones end with the same chains as the remote.        *)
Convergence == <>[][~ Disturbance]_vars => <>[]InSync
=============================================================================
