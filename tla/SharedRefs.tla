----------------------------- MODULE SharedRefs -----------------------------
(***************************************************************************)
(* What the clones of a project share besides the contents of tickets: the *)
(* identities of the users (identity/), and the configurations (config/),  *)
(* which travel in the same fetches and pushes as the tickets but are not  *)
(* merged like them.                                                       *)
(*                                                                         *)
(* Identities are merged by fast-forward only.  Of two versions of a       *)
(* configuration the one of the remote wins and the other one is backed    *)
(* up.  A ticket is here one commit, which is written once: how tickets    *)
(* are edited and rebased is the subject of TicketSync.                    *)
(***************************************************************************)
EXTENDS CommitChains, FiniteSetsExt

CONSTANTS
    Clone,
    Identity,    \* identity ids (hash of the first version)
    Ticket,      \* ticket ids
    Config,      \* names of configurations
    MaxCommits,  \* bound: commits ever made
    MaxCrashes   \* bound: pulls that are cut short

Ref == Identity \cup Ticket \cup Config

ASSUME KindsOK ==
    /\ Identity \cap Ticket = {}
    /\ Identity \cap Config = {}
    /\ Ticket \cap Config = {}

VARIABLES
    local,     \* local[c][x]: chain of the local ref x, << >> if there is none
    tracking,  \* tracking[c][x]: chain of refs/remotes/<origin>/<x>
    server,    \* server[x]: chain of ref x in the remote
    backups,   \* backups[c][n]: chains of refs/conflicts/config-<n>-<commit>
    clock,     \* clock[c]: the clock identity-edit, the next free time
    todo,      \* todo[c]: remote refs a running pull has still to handle
    made,      \* commits made so far
    crashes    \* pulls cut short so far

refs == <<local, tracking, server, backups>>
vars == <<refs, clock, todo, made, crashes>>

(* A version of an identity, a ticket, or a content of a configuration.    *)
(* Identities have times, the others 0.                                    *)
Version == [no : Nat, time : Nat]

Chain == Seq(Version)

TypeOK ==
    /\ local \in [Clone -> [Ref -> Chain]]
    /\ tracking \in [Clone -> [Ref -> Chain]]
    /\ server \in [Ref -> Chain]
    /\ backups \in [Clone -> [Config -> SUBSET Chain]]
    /\ clock \in [Clone -> Nat \ {0}]
    /\ todo \in [Clone -> SUBSET Ref]
    /\ made \in Nat /\ crashes \in Nat

(* NewMemClock: 0 is not a time. *)
NewClock == 1

NoRefs == [x \in Ref |-> << >>]

Init ==
    /\ local = [c \in Clone |-> NoRefs]
    /\ tracking = [c \in Clone |-> NoRefs]
    /\ server = NoRefs
    /\ backups = [c \in Clone |-> [n \in Config |-> {}]]
    /\ clock = [c \in Clone |-> NewClock]
    /\ todo = [c \in Clone |-> {}]
    /\ made = 0 /\ crashes = 0

(* The repository lock: one command at a time works on a clone. *)
Idle(c) == todo[c] = {}

Diverged(a, b) == ~ IsPrefix(a, b) /\ ~ IsPrefix(b, a)

(* git merge-base finds no common ancestor. *)
Unrelated(a, b) == a[1] # b[1]

-----------------------------------------------------------------------------
(* Writing *)

(* The clock has witnessed the times of all versions of a chain. *)
Witness(now, chain) == Max({now} \cup {chain[i].time + 1 : i \in DOMAIN chain})

(* Stores one commit on top of local ref x. *)
Commit(c, x, time) ==
    /\ Idle(c)
    /\ made < MaxCommits /\ made' = made + 1
    /\ local' = [local EXCEPT ![c][x] = Append(@, [no |-> made', time |-> time])]
    /\ UNCHANGED <<tracking, server, backups, todo, crashes>>

(* An id is the hash of the first commit: nobody else makes the same one.  *)
New(x) == \A c \in Clone : local[c][x] = << >>

(* user create: Identity.Commit of a new identity. *)
NewIdentity(c, i) ==
    /\ New(i)
    /\ Commit(c, i, clock[c])
    /\ clock' = [clock EXCEPT ![c] = @ + 1]

(* Fault: the identity is read as MergeAll does, without its clock.        *)
EditIdentityUnread(c, i) ==
    /\ local[c][i] # << >>
    /\ Commit(c, i, clock[c])
    /\ clock' = [clock EXCEPT ![c] = @ + 1]

(* user edit, user key add, user key rm: ReadLocal witnesses the versions  *)
(* there are, Identity.Commit takes the next time for the new one.         *)
EditIdentity(c, i) ==
    /\ local[c][i] # << >>
    /\ LET now == Witness(clock[c], local[c][i])
       IN  Commit(c, i, now) /\ clock' = [clock EXCEPT ![c] = now + 1]

AllTimes(c, start) == {Witness(start, local[c][i]) : i \in Identity}

(* Fault: a new clock starts at 0, which stands for no time. *)
ReadIdentitiesFromZero(c, start) ==
    /\ Idle(c)
    /\ clock' = [clock EXCEPT ![c] = Max({start - 1} \cup AllTimes(c, start - 1))]
    /\ UNCHANGED <<refs, todo, made, crashes>>

(* All local identities are read, by refresh or for a new cache, or into a *)
(* new clock because the file of the old one is missing.                   *)
ReadIdentities(c, start) ==
    /\ Idle(c)
    /\ clock' = [clock EXCEPT ![c] = Max({start} \cup AllTimes(c, start))]
    /\ UNCHANGED <<refs, todo, made, crashes>>

NewTicket(c, t) ==
    /\ New(t)
    /\ Commit(c, t, 0)
    /\ UNCHANGED clock

(* config set, or a new label: SetConfig of a content that is not the one  *)
(* stored last, which would change nothing.  Any clone may be the first to *)
(* store a configuration, and several may be.                              *)
SetConfig(c, n) ==
    /\ Commit(c, n, 0)
    /\ UNCHANGED clock

-----------------------------------------------------------------------------
(* Pulling: RepoCache.Pull = Fetch, identity.MergeAll, bug.MergeAll,       *)
(* config.UpdateConfigs                                                    *)

(* FetchRefs fetches the three kinds at once. *)
Fetch(c) ==
    /\ Idle(c)
    /\ tracking' = [tracking EXCEPT ![c] = server]
    /\ todo' = [todo EXCEPT ![c] = {x \in Ref : server[x] # << >>}]
    /\ UNCHANGED <<local, server, backups, clock, made, crashes>>

(* Identities come first, then tickets, then configurations. *)
Due(c) ==
    CASE todo[c] \cap Identity # {} -> todo[c] \cap Identity
      [] todo[c] \cap Identity = {} /\ todo[c] \cap Ticket # {} -> todo[c] \cap Ticket
      [] OTHER -> todo[c]

Continue(c, x) == todo' = [todo EXCEPT ![c] = @ \ {x}]

(* Fault: refs that are not local yet are left alone. *)
TakeKnown(c, x) ==
    /\ x \in Due(c)
    /\ local[c][x] # << >>
    /\ IsPrefix(local[c][x], tracking[c][x])
    /\ local' = [local EXCEPT ![c][x] = tracking[c][x]]
    /\ Continue(c, x)
    /\ UNCHANGED <<tracking, server, backups, clock, made, crashes>>

(* Fault: whatever the remote has is taken. *)
TakeAny(c, x) ==
    /\ x \in Due(c)
    /\ local' = [local EXCEPT ![c][x] = tracking[c][x]]
    /\ Continue(c, x)
    /\ UNCHANGED <<tracking, server, backups, clock, made, crashes>>

(* The ref is new, or is fast-forwarded to the remote one.  The versions   *)
(* of an identity are read without witnessing their times.                 *)
Take(c, x) ==
    /\ x \in Due(c)
    /\ IsPrefix(local[c][x], tracking[c][x])
    /\ local' = [local EXCEPT ![c][x] = tracking[c][x]]
    /\ Continue(c, x)
    /\ UNCHANGED <<tracking, server, backups, clock, made, crashes>>

(* The local ref is ahead of the remote one, and stays as it is. *)
Keep(c, x) ==
    /\ x \in Due(c)
    /\ IsPrefix(tracking[c][x], local[c][x])
    /\ Continue(c, x)
    /\ UNCHANGED <<refs, clock, made, crashes>>

(* Identity.Merge: ErrNonFastForwardMerge.  MergeAll gives up the other    *)
(* identities and Pull returns the error, while the goroutine of MergeAll  *)
(* goes on with the tickets until the process ends.                        *)
Takable(c) == {t \in todo[c] \cap Ticket : IsPrefix(local[c][t], tracking[c][t])}

RefuseIdentity(c, i) ==
    /\ i \in Due(c) \cap Identity
    /\ Diverged(local[c][i], tracking[c][i])
    /\ \E some \in SUBSET Takable(c) :
          local' = [local EXCEPT ![c] =
                      [x \in Ref |-> IF x \in some THEN tracking[c][x] ELSE @[x]]]
    /\ todo' = [todo EXCEPT ![c] = {}]
    /\ UNCHANGED <<tracking, server, backups, clock, made, crashes>>

Conflict(c, n) ==
    /\ n \in Due(c) \cap Config
    /\ Diverged(local[c][n], tracking[c][n])
    /\ ~ Unrelated(local[c][n], tracking[c][n])

(* Both sides have changed a configuration: the local ref is backed up ... *)
BackUp(c, n) ==
    /\ Conflict(c, n)
    /\ local[c][n] \notin backups[c][n]
    /\ backups' = [backups EXCEPT ![c][n] = @ \cup {local[c][n]}]
    /\ UNCHANGED <<local, tracking, server, clock, todo, made, crashes>>

(* Fault: the ref is replaced first. *)
ReplaceFirst(c, n) ==
    /\ Conflict(c, n)
    /\ local' = [local EXCEPT ![c][n] = tracking[c][n]]
    /\ Continue(c, n)
    /\ UNCHANGED <<tracking, server, backups, clock, made, crashes>>

(* ... and then replaced. *)
Replace(c, n) ==
    /\ Conflict(c, n)
    /\ local[c][n] \in backups[c][n]
    /\ local' = [local EXCEPT ![c][n] = tracking[c][n]]
    /\ Continue(c, n)
    /\ UNCHANGED <<tracking, server, backups, clock, made, crashes>>

(* merge-base fails, and with it the update of this and of all the other   *)
(* configurations that come after it.                                      *)
RefuseConfig(c, n) ==
    /\ n \in Due(c) \cap Config
    /\ local[c][n] # << >>
    /\ Unrelated(local[c][n], tracking[c][n])
    /\ todo' = [todo EXCEPT ![c] = {}]
    /\ UNCHANGED <<refs, clock, made, crashes>>

(* The process ends in the middle of a pull; or the pull was one of the    *)
(* terminal interface, which leaves the configurations out.                *)
Crash(c) ==
    /\ ~ Idle(c)
    /\ crashes < MaxCrashes /\ crashes' = crashes + 1
    /\ todo' = [todo EXCEPT ![c] = {}]
    /\ UNCHANGED <<refs, clock, made>>

-----------------------------------------------------------------------------
(* Pushing *)

(* The local refs that differ from the remote's. *)
ToPush(c) == {x \in Ref : local[c][x] # << >> /\ local[c][x] # server[x]}

(* Fault: the refs are pushed with "+". *)
Forced(c) == TRUE

FastForwards(c) == \A x \in ToPush(c) : IsPrefix(server[x], local[c][x])

(* PushRefs: all three kinds, or nothing when one ref is no fast-forward.  *)
Push(c) ==
    /\ Idle(c)
    /\ FastForwards(c)
    /\ server' = [x \in Ref |-> IF x \in ToPush(c) THEN local[c][x] ELSE server[x]]
    /\ tracking' = [tracking EXCEPT ![c] =
                      [x \in Ref |-> IF x \in ToPush(c) THEN local[c][x] ELSE @[x]]]
    /\ UNCHANGED <<local, backups, clock, todo, made, crashes>>

(* PushSingleRef (push --selected): one ticket, without its tracking ref.  *)
PushTicket(c, t) ==
    /\ Idle(c)
    /\ t \in ToPush(c)
    /\ IsPrefix(server[t], local[c][t])
    /\ server' = [server EXCEPT ![t] = local[c][t]]
    /\ UNCHANGED <<local, tracking, backups, clock, todo, made, crashes>>

-----------------------------------------------------------------------------
Write(c) ==
    \/ \E i \in Identity : NewIdentity(c, i) \/ EditIdentity(c, i)
    \/ ReadIdentities(c, clock[c]) \/ ReadIdentities(c, NewClock)
    \/ \E t \in Ticket : NewTicket(c, t)
    \/ \E n \in Config : SetConfig(c, n)

MergeRef(c) ==
    \/ \E x \in Ref : Take(c, x) \/ Keep(c, x)
    \/ \E i \in Identity : RefuseIdentity(c, i)
    \/ \E n \in Config : BackUp(c, n) \/ Replace(c, n) \/ RefuseConfig(c, n)

Next ==
    \E c \in Clone :
        \/ Write(c)
        \/ Fetch(c) \/ MergeRef(c) \/ Crash(c)
        \/ Push(c)
        \/ \E t \in Ticket : PushTicket(c, t)

Spec == Init /\ [][Next]_vars

(* Users keep pulling and pushing.  A pull that is not cut short goes      *)
(* through all its refs, and the next one begins after it.                 *)
Fairness ==
    \A c \in Clone : WF_vars(Fetch(c) \/ MergeRef(c)) /\ SF_vars(Push(c))

FairSpec == Spec /\ Fairness

-----------------------------------------------------------------------------
(* Every chain of identity i that a ref of the system points to. *)
Histories(i) ==
    {server[i]} \cup {local[c][i] : c \in Clone} \cup {tracking[c][i] : c \in Clone}

Ordered(chain) ==
    \A j, k \in DOMAIN chain : j < k => chain[j].time < chain[k].time

(* The versions of an identity are in the order of their times, which      *)
(* Identity.Validate demands, although merging does not witness the times  *)
(* of what it takes: a pulled identity is never found invalid.             *)
TimesOrdered == \A i \in Identity : \A chain \in Histories(i) : Ordered(chain)

(* The contents of configuration n a clone has. *)
Held(c, n) == UNION {Range(chain) : chain \in {local[c][n]} \cup backups[c][n]}

(* "To make sure that an Identity history can't be altered": no version of *)
(* an identity, and no ticket, is ever replaced in any clone; and no       *)
(* content of a configuration a clone has ever had is lost to it, in       *)
(* whatever order pulls and pushes come and wherever a pull is cut short.  *)
NothingDropped ==
    [][\A c \in Clone :
         /\ \A x \in Identity \cup Ticket : IsPrefix(local[c][x], local'[c][x])
         /\ \A n \in Config : Held(c, n) \subseteq Held(c, n)']_vars

(* "Manual cleaning would be required": once a clone and the remote have   *)
(* different versions of an identity, nothing any clone does will ever     *)
(* bring them together.                                                    *)
DivergenceLasts ==
    [][\A c \in Clone, i \in Identity :
         Diverged(local[c][i], server[i]) => Diverged(local[c][i], server[i])']_vars

(* What the remote publishes, and the clones record, of all three kinds:   *)
(* SharedRefs implements PublishedHistory, which TicketSync does for the   *)
(* tickets.                                                                *)
History == INSTANCE PublishedHistory
             WITH Replicas <- Clone, Remotes <- {"origin"}, Tickets <- Ref,
                  published <- [m \in {"origin"} |-> server],
                  known <- [c \in Clone |-> [m \in {"origin"} |-> tracking[c]]]

PublishesHistory == History!Spec

(* The clone can neither pull all there is nor push: an identity has       *)
(* diverged, or a configuration was first stored by two clones.            *)
Stuck(c) ==
    \/ \E i \in Identity : Diverged(local[c][i], server[i])
    \/ \E n \in Config : /\ local[c][n] # << >> /\ server[n] # << >>
                         /\ Unrelated(local[c][n], server[n])

(* Every clone that is not stuck ends with what the remote has, identities,*)
(* tickets and configurations, however often configurations are in         *)
(* conflict; other clones being stuck does not hold it up.                 *)
Convergence == \A c \in Clone : <>[](local[c] = server \/ Stuck(c))
=============================================================================
