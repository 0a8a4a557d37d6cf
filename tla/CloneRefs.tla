------------------------------ MODULE CloneRefs ------------------------------
(***************************************************************************)
(* What clones do to the refs of tickets: every operation, a commit, a     *)
(* merge, a push, is one step that starts from the refs as they are at     *)
(* that moment, whatever other clones do in between.                       *)
(*                                                                         *)
(* TicketSync says this of all its clones; RepoCache, where an operation   *)
(* is many steps of several threads, of the one clone it looks into.       *)
(***************************************************************************)
EXTENDS CommitChains

CONSTANTS Clones,   \* the clones that are looked at; there may be others
          Remotes,
          Tickets

VARIABLES
    sets,      \* sets[p]: the p-th pack written, by anybody, sets a status
    server,    \* server[m][t]: chain of ticket t in remote m
    tracking,  \* tracking[r][m][t]: what clone r has recorded of it
    local      \* local[r][t]: chain of ticket t in clone r

vars == <<sets, server, tracking, local>>

NoRefs == [t \in Tickets |-> << >>]

Init ==
    /\ sets = << >>
    /\ server = [m \in Remotes |-> NoRefs]
    /\ tracking = [r \in Clones |-> [m \in Remotes |-> NoRefs]]
    /\ local = [r \in Clones |-> NoRefs]

-----------------------------------------------------------------------------
(* Clones that are not looked at write packs and push them. *)
Elsewhere ==
    /\ IsPrefix(sets, sets')
    /\ \A m \in Remotes, t \in Tickets : IsPrefix(server[m][t], server'[m][t])
    /\ UNCHANGED <<tracking, local>>

(* Pack p is in no chain of a remote or of a clone. *)
Unused(p) ==
    \A t \in Tickets :
        /\ \A m \in Remotes : p \notin PackIds(server[m][t])
        /\ \A r \in Clones : /\ p \notin PackIds(local[r][t])
                             /\ \A m \in Remotes : p \notin PackIds(tracking[r][m][t])

(* A pack that is not used yet goes on top of a ticket that is valid, or   *)
(* it is the first one of a new ticket.                                    *)
Commit(r, t) ==
    /\ IsPrefix(sets, sets')
    /\ Valid(local[r][t])
    /\ \E p \in DOMAIN sets' :
          /\ Unused(p)
          /\ local' = [local EXCEPT ![r][t] = Append(@, [pack |-> p, by |-> r])]
    /\ UNCHANGED <<server, tracking>>

(* A fetch is a fast-forward of every tracking ref. *)
Fetch(r, m) ==
    /\ \A t \in Tickets : IsPrefix(tracking[r][m][t], server[m][t])
    /\ tracking' = [tracking EXCEPT ![r][m] = server[m]]
    /\ UNCHANGED <<sets, server, local>>

SetsStatus(chain) == \E i \in DOMAIN chain : sets[chain[i].pack]

(* Both sides have set the status since they parted. *)
Conflict(ours, theirs) ==
    LET k == CommonAncestor(ours, theirs)
    IN  SetsStatus(Extra(ours, k)) /\ SetsStatus(Extra(theirs, k))

(* The ticket becomes what the remote has, with our commits on top. *)
Merge(r, m, t) ==
    LET ours == local[r][t]
        theirs == tracking[r][m][t]
    IN  /\ Valid(theirs)
        /\ \/ /\ ours = << >>
              /\ local' = [local EXCEPT ![r][t] = theirs]
           \/ /\ ours # << >> /\ ~ NothingBetween(ours, theirs)
              /\ ~ Conflict(ours, theirs)
              /\ local' = [local EXCEPT ![r][t] = Rebase(ours, theirs, r)]
        /\ UNCHANGED <<sets, server, tracking>>

ToPush(r, m) == {t \in Tickets : local[r][t] \notin {<< >>, server[m][t]}}

(* The refs of a table after a push. *)
Pushed(r, m, table) ==
    [t \in Tickets |-> IF t \in ToPush(r, m) THEN local[r][t] ELSE table[t]]

(* All tickets are pushed, or none if one is not a fast-forward. *)
Push(r, m) ==
    /\ \A t \in ToPush(r, m) : IsPrefix(server[m][t], local[r][t])
    /\ server' = [server EXCEPT ![m] = Pushed(r, m, @)]
    /\ tracking' = [tracking EXCEPT ![r][m] = Pushed(r, m, @)]
    /\ UNCHANGED <<sets, local>>

(* One ticket is pushed, the tracking ref stays behind. *)
PushTicket(r, m, t) ==
    /\ t \in ToPush(r, m) /\ IsPrefix(server[m][t], local[r][t])
    /\ server' = [server EXCEPT ![m][t] = local[r][t]]
    /\ UNCHANGED <<sets, tracking, local>>

(* The user throws a ticket away, or what was committed to it. *)
RemoveTicket(r, t) ==
    /\ local[r][t] # << >>
    /\ local' = [local EXCEPT ![r][t] = << >>]
    /\ tracking' = [tracking EXCEPT ![r] =
                      [m \in Remotes |-> [@[m] EXCEPT ![t] = << >>]]]
    /\ UNCHANGED <<sets, server>>

ResetTicket(r, m, t) ==
    /\ local[r][t] # << >> /\ tracking[r][m][t] # << >>
    /\ local' = [local EXCEPT ![r][t] = tracking[r][m][t]]
    /\ UNCHANGED <<sets, server, tracking>>

Next ==
    \/ Elsewhere
    \/ \E r \in Clones :
          \/ \E t \in Tickets : Commit(r, t) \/ RemoveTicket(r, t)
          \/ \E m \in Remotes : Fetch(r, m) \/ Push(r, m)
          \/ \E m \in Remotes, t \in Tickets :
                Merge(r, m, t) \/ PushTicket(r, m, t) \/ ResetTicket(r, m, t)

Spec == Init /\ [][Next]_vars
=============================================================================
