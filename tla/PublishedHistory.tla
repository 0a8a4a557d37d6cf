-------------------------- MODULE PublishedHistory --------------------------
(***************************************************************************)
(* What the clones of a project may rely on when they share tickets through*)
(* remotes: the history a remote publishes for a ticket is append-only, and*)
(* what a clone has recorded of it is always something the remote once     *)
(* published, recorded whole and in one step.                              *)
(***************************************************************************)
EXTENDS Integers, Sequences, SequencesExt

CONSTANTS Replicas, Remotes, Tickets

VARIABLES
    published,  \* published[m][t]: the history of ticket t in remote m
    known       \* known[r][m][t]: the history of t in m that r has recorded

vars == <<published, known>>

Init ==
    /\ published = [m \in Remotes |-> [t \in Tickets |-> << >>]]
    /\ known = [r \in Replicas |->
                  [m \in Remotes |-> [t \in Tickets |-> << >>]]]

(* Replica r appends to the histories of remote m; of those it may record  *)
(* the new ones.                                                           *)
Publish(r, m) ==
    /\ \A n \in Remotes \ {m} : published'[n] = published[n]
    /\ \A t \in Tickets : IsPrefix(published[m][t], published'[m][t])
    /\ \A q \in Replicas, n \in Remotes, t \in Tickets :
          \/ known'[q][n][t] = known[q][n][t]
          \/ q = r /\ n = m /\ known'[q][n][t] = published'[n][t]

(* Replica r records everything remote m has published. *)
Learn(r, m) ==
    /\ known' = [known EXCEPT ![r][m] = published[m]]
    /\ UNCHANGED published

(* Replica r drops what it has recorded of a ticket. *)
Forget(r, t) ==
    /\ known' = [known EXCEPT ![r] =
                   [m \in Remotes |-> [@[m] EXCEPT ![t] = << >>]]]
    /\ UNCHANGED published

Next ==
    \E r \in Replicas :
        \/ \E m \in Remotes : Publish(r, m) \/ Learn(r, m)
        \/ \E t \in Tickets : Forget(r, t)

Spec == Init /\ [][Next]_vars
=============================================================================
