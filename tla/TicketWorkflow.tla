--------------------------- MODULE TicketWorkflow ---------------------------
(***************************************************************************)
(* The life of one ticket in one clone: its status, the workflow its       *)
(* labels select, the approvals of the change control board (CCB), its     *)
(* checklists, and the commands that change them.  A command reads the     *)
(* ticket, checks it, stages operations, which updates the excerpt in the  *)
(* cache file, and commits.  A command that fails in between, or dies,     *)
(* loses what it staged, but not the excerpt.                              *)
(***************************************************************************)
EXTENDS Integers, FiniteSets, Sequences, SequencesExt

CONSTANTS
    Users,        \* identities
    CcbMembers,   \* those the configuration lists in a CCB team
    CcbStatuses,  \* bound: the statuses approvers are asked for
    Checklists,   \* checklist labels of the configuration
    LabelArgs     \* bound: the label lists given to label add and label rm

VARIABLES
    ticket,   \* the snapshot compiled from the commits of the ticket
    excerpt,  \* the excerpt in the cache file
    grounds,  \* history: the approvals the last vetting and the last
              \* acceptance of the ticket relied on
    muddled   \* history: the workflow labels added last were others than the
              \* one the change went by

vars == <<ticket, excerpt, grounds, muddled>>

Statuses == {"proposed", "vetted", "inprogress", "inreview", "reviewed",
             "accepted", "merged", "done", "rejected"}

ASSUME WorkflowConstantsOK ==
    /\ CcbMembers \subseteq Users
    /\ CcbStatuses \subseteq Statuses
    /\ IsFiniteSet(Users)

-----------------------------------------------------------------------------
(* The workflows *)

(* A transition with the hooks that validate it. *)
Edge(from, to, checks) ==
    [start |-> from, end |-> to, checks |-> checks, clears |-> FALSE]

(* A transition whose action hook clears the approvals. *)
ClearingEdge(from, checks) ==
    [start |-> from, end |-> "rejected", checks |-> checks, clears |-> TRUE]

Eng ==
    {Edge("proposed", "vetted", {"ccb"}),
     ClearingEdge("proposed", {}),
     Edge("vetted", "inprogress", {"assignee"}),
     Edge("inprogress", "vetted", {}),
     Edge("inprogress", "inreview", {}),
     Edge("inreview", "inprogress", {}),
     Edge("inreview", "reviewed", {}),
     Edge("reviewed", "inprogress", {}),
     Edge("reviewed", "accepted", {"allCcb", "checklists"}),
     Edge("accepted", "merged", {}),
     Edge("merged", "accepted", {}),
     Edge("rejected", "proposed", {})}
      \cup {ClearingEdge(s, {"ccb"}) :
              s \in {"vetted", "inprogress", "inreview", "reviewed", "accepted"}}

(* qa and change have the same transitions. *)
Qa ==
    {Edge("proposed", "inprogress", {"assignee"}),
     Edge("proposed", "rejected", {}),
     Edge("inprogress", "done", {}),
     Edge("inprogress", "rejected", {}),
     Edge("done", "inprogress", {}),
     Edge("rejected", "proposed", {})}

Exp ==
    {Edge("proposed", "inprogress", {}),
     Edge("proposed", "rejected", {}),
     Edge("inprogress", "inreview", {}),
     Edge("inprogress", "rejected", {}),
     Edge("inreview", "merged", {}),
     Edge("inreview", "inprogress", {}),
     Edge("inreview", "rejected", {}),
     Edge("rejected", "proposed", {})}

(* Workflow labels, in the order labels are sorted in. *)
WorkflowLabels == <<"change", "eng", "exp", "qa">>

(* A label has the prefix of a workflow or of a checklist, never both.     *)
ASSUME LabelsOK ==
    /\ Checklists \cap ToSet(WorkflowLabels) = {}
    /\ LabelArgs \subseteq Seq(STRING)

Transitions ==
    [w \in ToSet(WorkflowLabels) |->
        CASE w = "eng" -> Eng [] w = "exp" -> Exp [] OTHER -> Qa]

InitialStatus == "proposed"

(* FindWorkflow: the first workflow label of a ticket. *)
FindWorkflow(t) ==
    WorkflowLabels[SelectInSeq(WorkflowLabels, LAMBDA w : w \in t.workflows)]

NextStatuses(t) ==
    {e.end : e \in {x \in Transitions[FindWorkflow(t)] : x.start = t.status}}

-----------------------------------------------------------------------------
(* Validation hooks *)

(* Every approval asked for status s is given, and one is asked for.       *)
ValidateCcb(t, s) ==
    LET asked == {u \in Users : t.ccb[u][s] # "none"}
    IN  /\ s \in CcbStatuses
        /\ asked # {}
        /\ \A u \in asked : t.ccb[u][s] = "approved"

(* The same for all statuses, rejection aside.                             *)
ValidateAllCcb(t, s) ==
    /\ s \in CcbStatuses
    /\ \E u \in Users : t.ccb[u][s] # "none"
    /\ \A u \in Users, q \in CcbStatuses \ {"rejected"} :
          t.ccb[u][q] \in {"none", "approved"}

(* A checklist is failed if someone failed it, else passed if someone      *)
(* passed it, else to be done.                                             *)
CompoundState(t, c) ==
    LET given == {t.reviews[c][u] : u \in Users}
    IN  IF "failed" \in given THEN "failed"
        ELSE IF "passed" \in given THEN "passed" ELSE "tbd"

ValidateChecklistsCompleted(t) ==
    \A c \in t.checklists : CompoundState(t, c) # "tbd"

Passes(t, check, s) ==
    CASE check = "ccb"        -> ValidateCcb(t, s)
      [] check = "allCcb"     -> ValidateAllCcb(t, s)
      [] check = "assignee"   -> t.assigned
      [] check = "checklists" -> ValidateChecklistsCompleted(t)

ValidTransitions(t, s) ==
    {e \in Transitions[FindWorkflow(t)] :
        /\ e.start = t.status /\ e.end = s
        /\ \A check \in e.checks : Passes(t, check, s)}

(* Fault: the entries are kept, marked removed. *)
ClearByMarking(t) ==
    [t EXCEPT !.ccb = [u \in Users |-> [s \in CcbStatuses |->
        IF @[u][s] \in {"approved", "blocked"} THEN "removed" ELSE @[u][s]]]]

(* Fault: blocks survive. *)
ClearApprovedOnly(t) ==
    [t EXCEPT !.ccb = [u \in Users |-> [s \in CcbStatuses |->
        IF @[u][s] = "approved" THEN "none" ELSE @[u][s]]]]

(* ClearAllCcbApprovals: every approval given or blocked is removed.       *)
ClearAllCcbApprovals(t) ==
    [t EXCEPT !.ccb = [u \in Users |-> [s \in CcbStatuses |->
        IF @[u][s] \in {"approved", "blocked"} THEN "none" ELSE @[u][s]]]]

(* The snapshot after the operations of SetStatus. *)
AfterSetStatus(t, s) ==
    LET e == CHOOSE x \in ValidTransitions(t, s) : TRUE
    IN  [(IF e.clears THEN ClearAllCcbApprovals(t) ELSE t) EXCEPT !.status = s]

-----------------------------------------------------------------------------
(* Committing *)

(* The approvals a ticket has, and the users whose approval of s it has.   *)
Approvals(t) == {a \in Users \X CcbStatuses : t.ccb[a[1]][a[2]] = "approved"}

Approvers(t, s) == {u \in Users : <<u, s>> \in Approvals(t)}

(* NewBugExcerpt: the status, the workflows, the approvals that are given. *)
NewBugExcerpt(t) ==
    [status |-> t.status, workflows |-> t.workflows, approvals |-> Approvals(t)]

(* Staging operations that lead to snapshot t writes the excerpt.          *)
Stage(t) == excerpt' = NewBugExcerpt(t)

(* They are committed.  Entering a status for which the CCB is consulted   *)
(* records who approved, and a ticket that is proposed starts anew.        *)
Record(t) ==
    /\ Stage(t)
    /\ ticket' = t
    /\ grounds' =
         CASE t.status # ticket.status /\ t.status = "proposed" ->
                 [s \in DOMAIN grounds |-> {}]
           [] t.status = "vetted" /\ ticket.status = "proposed" ->
                 [grounds EXCEPT !["vetted"] = Approvers(t, "vetted")]
           [] t.status = "accepted" /\ ticket.status = "reviewed" ->
                 [grounds EXCEPT !["accepted"] = Approvers(t, "accepted")]
           [] OTHER -> grounds

(* They are not: the commit fails, or the process dies before it.          *)
FailAfterStaging(t) ==
    /\ Stage(t)
    /\ UNCHANGED <<ticket, grounds, muddled>>

(* Fault: the cache is told of the ticket as it was read.                  *)
CommitUnnoticed(t) ==
    /\ excerpt' = NewBugExcerpt(ticket)
    /\ ticket' = t
    /\ UNCHANGED <<grounds, muddled>>

(* A command stages operations and commits them.                           *)
Commit(t) ==
    \/ Record(t) /\ UNCHANGED muddled
    \/ FailAfterStaging(t)

-----------------------------------------------------------------------------
(* Commands *)

SetCcb(t, u, s, state) == [t EXCEPT !.ccb[u][s] = state]

CcbAdd(u, s) ==
    /\ u \in CcbMembers
    /\ ticket.ccb[u][s] = "none"
    /\ Commit(SetCcb(ticket, u, s, "added"))

CcbRm(u, s) ==
    /\ ticket.ccb[u][s] # "none"
    /\ Commit(SetCcb(ticket, u, s, "none"))

(* ccb block; with --force also for a status that is not next. *)
CcbBlock(u, s, force) ==
    /\ ticket.ccb[u][s] \in {"added", "approved"}
    /\ s \in NextStatuses(ticket) \/ force
    /\ Commit(SetCcb(ticket, u, s, "blocked"))

(* ccb approve: the approval, then, if the status is next and its own      *)
(* approvals are complete, the transition.  The command ends between the   *)
(* two, before the commit, if another check of the transition fails.       *)
CcbApprove(u, s, force) ==
    LET approved == SetCcb(ticket, u, s, "approved")
        moves == s \in NextStatuses(ticket) /\ ValidateCcb(approved, s)
    IN  /\ ticket.ccb[u][s] \in {"added", "blocked"}
        /\ s \in NextStatuses(ticket) \/ force
        /\ \/ ~ moves /\ Commit(approved)
           \/ /\ moves /\ ValidTransitions(approved, s) # {}
              /\ Commit(AfterSetStatus(approved, s))
           \/ moves /\ FailAfterStaging(approved)

(* status set: validated, then the action hooks, then the status.          *)
StatusSet(s) ==
    /\ ValidTransitions(ticket, s) # {}
    /\ Commit(AfterSetStatus(ticket, s))

Assign ==
    /\ ~ ticket.assigned
    /\ Commit([ticket EXCEPT !.assigned = TRUE])

(* review checklist: user u edits a checklist of the ticket. *)
ReviewChecklist(u, c, state) ==
    /\ c \in ticket.checklists
    /\ ticket.reviews[c][u] # state
    /\ Commit([ticket EXCEPT !.reviews[c][u] = state])

-----------------------------------------------------------------------------
(* Changing labels *)

IsWorkflow(label) == label \notin Checklists
IsKnown(label) == label \in ToSet(WorkflowLabels) \cup Checklists

Labels(t) == t.workflows \cup t.checklists

(* Fault: the old workflow labels are not removed. *)
AddLabelOnly(acc, label) ==
    IF label \in acc.added \cup Labels(ticket) THEN acc
    ELSE IF ~ IsWorkflow(label)
         THEN [acc EXCEPT !.added = @ \cup {label}]
    ELSE IF ~ IsKnown(label)
         THEN [acc EXCEPT !.newWorkflow = {}]
    ELSE [acc EXCEPT !.added = @ \cup {label}, !.newWorkflow = {label}]

(* One label to add.  acc holds the labels added and to be removed, and    *)
(* the workflow found by the last workflow label looked up.                *)
AddLabel(acc, label) ==
    IF label \in acc.added \cup Labels(ticket) THEN acc
    ELSE IF ~ IsWorkflow(label)
         THEN [acc EXCEPT !.added = @ \cup {label}]
    ELSE IF ~ IsKnown(label)
         THEN [acc EXCEPT !.newWorkflow = {}]
    ELSE [added |-> acc.added \cup {label}, newWorkflow |-> {label},
          remove |-> acc.remove \cup ticket.workflows]

(* A label can be removed: a workflow only if it is replaced, a checklist  *)
(* only while the ticket is proposed, or by a CCB member.                  *)
CanRemove(u, label, newWorkflow) ==
    /\ label \in Labels(ticket)
    /\ IsWorkflow(label) => newWorkflow # {}
    /\ ~ IsWorkflow(label) => u \in CcbMembers \/ ticket.status = "proposed"

(* Fault: a ticket keeps its status when its workflow changes.             *)
RelabelKeepingStatus(added, removed, newWorkflow) ==
    LET labels == (Labels(ticket) \cup added) \ removed
    IN  [ticket EXCEPT !.workflows = labels \ Checklists,
                       !.checklists = labels \cap Checklists]

(* The label change, and a reset of the status with a new workflow.        *)
Relabel(added, removed, newWorkflow) ==
    LET labels == (Labels(ticket) \cup added) \ removed
    IN  [ticket EXCEPT !.workflows = labels \ Checklists,
                       !.checklists = labels \cap Checklists,
                       !.status = IF newWorkflow # {} THEN InitialStatus ELSE @]

(* ChangeLabels, by user u.  newWorkflow, which decides whether workflow   *)
(* labels can go and the status is reset, is the last one looked up.       *)
ChangeLabels(u, add, remove) ==
    LET acc == FoldLeft(AddLabel,
                        [added |-> {}, newWorkflow |-> {}, remove |-> remove],
                        add)
        removed == {l \in acc.remove : CanRemove(u, l, acc.newWorkflow)}
        relabelled == Relabel(acc.added, removed, acc.newWorkflow)
    IN  /\ acc.added \cup removed # {}
        /\ \/ /\ Record(relabelled)
              /\ muddled' = (\/ acc.added \ Checklists # acc.newWorkflow
                             \/ muddled /\ acc.newWorkflow = {})
           \/ FailAfterStaging(relabelled)

LabelAdd(u, labels) == ChangeLabels(u, labels, {})
LabelRm(u, labels) == ChangeLabels(u, << >>, ToSet(labels))

-----------------------------------------------------------------------------
(* A ticket that was just added, with one workflow and any checklists.     *)
Init ==
    \E w \in ToSet(WorkflowLabels), cs \in SUBSET Checklists :
        /\ ticket = [status |-> InitialStatus, workflows |-> {w},
                     checklists |-> cs, assigned |-> FALSE,
                     ccb |-> [u \in Users |-> [s \in CcbStatuses |-> "none"]],
                     reviews |-> [c \in Checklists |->
                                    [u \in Users |-> "none"]]]
        /\ excerpt = NewBugExcerpt(ticket)
        /\ grounds = [s \in {"vetted", "accepted"} |-> {}]
        /\ muddled = FALSE

Next ==
    \/ \E u \in Users, s \in CcbStatuses :
          \/ CcbAdd(u, s)
          \/ CcbRm(u, s)
          \/ \E force \in BOOLEAN : CcbApprove(u, s, force)
          \/ \E force \in BOOLEAN : CcbBlock(u, s, force)
    \/ \E s \in Statuses : StatusSet(s)
    \/ Assign
    \/ \E u \in Users, c \in Checklists, state \in {"tbd", "passed", "failed"} :
          ReviewChecklist(u, c, state)
    \/ \E u \in Users, labels \in LabelArgs :
          LabelAdd(u, labels) \/ LabelRm(u, labels)

Spec == Init /\ [][Next]_vars

-----------------------------------------------------------------------------
(* Properties *)

CcbTables == [Users -> [CcbStatuses -> {"none", "added", "approved", "blocked"}]]

Snapshots ==
    [status : Statuses, workflows : SUBSET ToSet(WorkflowLabels),
     checklists : SUBSET Checklists, assigned : BOOLEAN, ccb : CcbTables,
     reviews : [Checklists -> [Users -> {"none", "tbd", "passed", "failed"}]]]

Excerpts ==
    [status : Statuses, workflows : SUBSET ToSet(WorkflowLabels),
     approvals : SUBSET (Users \X CcbStatuses)]

TypeOK ==
    /\ ticket \in Snapshots
    /\ excerpt \in Excerpts
    /\ grounds \in [{"vetted", "accepted"} -> SUBSET Users]
    /\ muddled \in BOOLEAN

(* A ticket has a workflow, whatever lists of labels are added and         *)
(* removed; and one only, unless the last change of its workflow added     *)
(* workflow labels besides the one it went by, or after which it looked up *)
(* one that does not exist.                                                *)
OneWorkflow ==
    /\ ticket.workflows # {}
    /\ ~ muddled => Cardinality(ticket.workflows) = 1

(* The status is one that a workflow of the ticket knows: no list of       *)
(* labels takes the workflow away without resetting the status.            *)
StatusInWorkflow ==
    \E w \in ticket.workflows :
        ticket.status \in UNION {{e.start, e.end} : e \in Transitions[w]}

(* Under the eng workflow a ticket that is worked on has been vetted by    *)
(* the CCB since it was last proposed, and one that is accepted or merged  *)
(* has been accepted by it, whichever commands, failures and workflows led *)
(* there, unless its last change of workflow muddled its labels.           *)
WorkIsApproved ==
    FindWorkflow(ticket) = "eng" /\ ~ muddled =>
        /\ ticket.status \in {"vetted", "inprogress", "inreview", "reviewed",
                              "accepted", "merged"} => grounds["vetted"] # {}
        /\ ticket.status \in {"accepted", "merged"} => grounds["accepted"] # {}

(* A ticket rejected in the eng workflow keeps no approval and no block    *)
(* from before: to be vetted again it has to be approved again.            *)
RejectionClears ==
    [][(/\ FindWorkflow(ticket) = "eng"
        /\ ticket.status # "rejected" /\ ticket'.status = "rejected")
         => \A u \in Users, s \in CcbStatuses :
               ticket'.ccb[u][s] \in {"none", "added"}]_vars

(* However many commands fail between the staging and the commit, or die   *)
(* there, the excerpt is one command ahead of the ticket at most: the      *)
(* status it shows is the ticket's, that of a transition the ticket can    *)
(* make with at most one more approval, or "proposed" together with a new  *)
(* workflow; and it shows at most one approval that the ticket lacks.      *)
ExcerptFaithful ==
    /\ \/ excerpt.status = ticket.status
       \/ ValidTransitions(ticket, excerpt.status) # {}
       \/ \E u \in Users, s \in CcbStatuses :
             ValidTransitions(SetCcb(ticket, u, s, "approved"), excerpt.status) # {}
       \/ excerpt.status = "proposed" /\ excerpt.workflows \ ticket.workflows # {}
    /\ \A a, b \in excerpt.approvals \ Approvals(ticket) : a = b

(* An approval that passes the checks of ccb approve can be recorded: if   *)
(* it completes the approvals of the next status, nothing else keeps the   *)
(* ticket from that status.                                                *)
ApprovalRecorded ==
    \A u \in Users, s \in CcbStatuses :
        LET approved == SetCcb(ticket, u, s, "approved")
        IN  /\ ticket.ccb[u][s] \in {"added", "blocked"}
            /\ s \in NextStatuses(ticket) /\ ValidateCcb(approved, s)
            => ValidTransitions(approved, s) # {}

(* A rejection keeps the users that have to approve the ticket's statuses. *)
ApproversKept ==
    [][(ticket.status # "rejected" /\ ticket'.status = "rejected")
         => \A u \in Users, s \in CcbStatuses :
               ticket.ccb[u][s] # "none" => ticket'.ccb[u][s] # "none"]_vars
=============================================================================
