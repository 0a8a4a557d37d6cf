------------------------ MODULE TicketWorkflowProofs ------------------------
(***************************************************************************)
(* Proofs about the life of a ticket, for every set of users, statuses     *)
(* approvers are asked for, checklists, and lists of labels.               *)
(***************************************************************************)
EXTENDS TicketWorkflow, CommitChainsProofs, FiniteSetTheorems

-----------------------------------------------------------------------------
(* Adding labels *)

(* A fold of AddLabel goes through the labels from left to right.          *)
LEMMA FoldSteps ==
    ASSUME NEW add \in Seq(STRING), NEW base
    PROVE  \E F : /\ F[0] = base
                  /\ \A i \in 1 .. Len(add) : F[i] = AddLabel(F[i - 1], add[i])
                  /\ FoldLeft(AddLabel, base, add) = F[Len(add)]
<1> DEFINE n == Len(add)
           Table(k, f) ==
             f = [s \in SUBSET (1 .. k) |->
                    IF s = {} THEN base
                    ELSE AddLabel(f[s \ {Max(s)}], add[Max(s)])]
           HasTable(k) == \E f : Table(k, f)
           iter == CHOOSE f : Table(n, f)
           F == [i \in 0 .. n |-> iter[1 .. i]]
<1>1. n \in Nat /\ DOMAIN add = 1 .. n
  OBVIOUS
<1>2. ASSUME NEW k \in Nat, NEW s \in SUBSET (1 .. k), s # {}
      PROVE  Max(s) \in s /\ \A x \in s : x <= Max(s)
  <2>1. s \subseteq Nat /\ \A x \in s : x <= k
    BY <1>2
  <2>2. QED
    BY <1>2, <2>1, MaxProperties
<1>3. HasTable(0)
  <2> DEFINE f == [s \in SUBSET (1 .. 0) |-> base]
  <2>1. \A s \in SUBSET (1 .. 0) : s = {}
    OBVIOUS
  <2>2. Table(0, f)
    BY <2>1
  <2>3. QED
    BY <2>2
<1>4. ASSUME NEW k \in Nat, HasTable(k)
      PROVE  HasTable(k + 1)
  <2>1. PICK f : Table(k, f)
    BY <1>4
  <2> DEFINE g == [s \in SUBSET (1 .. k + 1) |->
                     IF k + 1 \in s THEN AddLabel(f[s \ {k + 1}], add[k + 1])
                                    ELSE f[s]]
  <2>2. ASSUME NEW s \in SUBSET (1 .. k + 1)
        PROVE  g[s] = IF s = {} THEN base
                      ELSE AddLabel(g[s \ {Max(s)}], add[Max(s)])
    <3>1. CASE k + 1 \in s
      <4>0. k + 1 \in Nat /\ s # {} /\ \A x \in s : x \in Nat /\ x <= k + 1
        BY <3>1
      <4>1. Max(s) \in s /\ \A x \in s : x <= Max(s)
        BY <1>2, <4>0
      <4>2. Max(s) = k + 1
        <5>1. k + 1 <= Max(s) /\ Max(s) <= k + 1 /\ Max(s) \in Nat
          BY <3>1, <4>0, <4>1
        <5>2. QED
          BY <5>1
      <4>3. s \ {k + 1} \in SUBSET (1 .. k + 1) /\ k + 1 \notin s \ {k + 1}
        OBVIOUS
      <4>4. g[s \ {k + 1}] = f[s \ {k + 1}]
        BY <4>3
      <4>5. g[s] = AddLabel(f[s \ {k + 1}], add[k + 1])
        BY <3>1, Zenon
      <4>6. s # {}
        BY <3>1
      <4>7. QED
        BY <4>2, <4>4, <4>5, <4>6, Zenon
    <3>2. CASE k + 1 \notin s
      <4>1. s \in SUBSET (1 .. k) /\ g[s] = f[s]
        BY <3>2
      <4>2. f[s] = IF s = {} THEN base ELSE AddLabel(f[s \ {Max(s)}], add[Max(s)])
        BY <2>1, <4>1
      <4>3. g[s \ {Max(s)}] = f[s \ {Max(s)}]
        BY <3>2
      <4>4. QED
        BY <4>1, <4>2, <4>3
    <3>3. QED
      BY <3>1, <3>2
  <2>3. Table(k + 1, g)
    BY <2>2
  <2>4. QED
    BY <2>3
<1>5. HasTable(n)
  <2> HIDE DEF HasTable
  <2> DEFINE T == {k \in Nat : ~ HasTable(k)}
  <2>1. ASSUME T # {}
        PROVE  FALSE
    <3>1. PICK x \in T : \A y \in T : x <= y
      BY <2>1, NatMin
    <3>2. x # 0 /\ x \in Nat
      BY <1>3, <3>1
    <3>3. x - 1 \in Nat /\ x - 1 \notin T
      BY <3>1, <3>2
    <3>4. HasTable(x - 1 + 1)
      BY <1>4, <3>3
    <3>5. QED
      BY <3>1, <3>2, <3>4
  <2>2. QED
    BY <1>1, <2>1
<1>6. Table(n, iter)
  <2> HIDE DEF Table
  <2>1. QED
    BY <1>5
<1>7. FoldLeft(AddLabel, base, add) = iter[1 .. n]
  BY <1>1 DEF FoldLeft, MapThenFoldSet
<1> HIDE DEF iter
<1>8. F[0] = base
  <2>1. 1 .. 0 = {} /\ 0 \in 0 .. n /\ 1 .. 0 \in SUBSET (1 .. n)
    BY <1>1
  <2>2. iter[1 .. 0] = base
    BY <1>6, <2>1
  <2>3. QED
    BY <2>1, <2>2
<1>9. ASSUME NEW i \in 1 .. n
      PROVE  F[i] = AddLabel(F[i - 1], add[i])
  <2>1. i \in Nat /\ i >= 1 /\ i <= n
    BY <1>1
  <2>11. 1 .. i \in SUBSET (1 .. n) /\ i \in 1 .. i
    BY <1>1, <2>1
  <2>2. Max(1 .. i) \in 1 .. i /\ \A x \in 1 .. i : x <= Max(1 .. i)
    BY <1>1, <1>2, <2>11
  <2>3. Max(1 .. i) = i
    BY <2>1, <2>2, <2>11
  <2>4. (1 .. i) \ {i} = 1 .. (i - 1)
    BY <1>1
  <2>5. iter[1 .. i] = AddLabel(iter[1 .. (i - 1)], add[i])
    BY <1>6, <2>3, <2>4, <2>11
  <2>6. i \in 0 .. n /\ i - 1 \in 0 .. n
    BY <1>1
  <2>7. QED
    BY <2>5, <2>6
<1>10. FoldLeft(AddLabel, base, add) = F[n]
  BY <1>1, <1>7
<1>11. QED
  BY <1>8, <1>9, <1>10

-----------------------------------------------------------------------------
(* Snapshots *)

KnownLabels == ToSet(WorkflowLabels) \cup Checklists

(* What AddLabel accumulates: new labels of the ticket, and a workflow only*)
(* among them, with which the old ones go.                                 *)
Accs == [added : SUBSET KnownLabels, newWorkflow : SUBSET KnownLabels,
         remove : SUBSET (KnownLabels \cup STRING)]

AccOK(acc) ==
  /\ acc \in Accs
  /\ acc.added \cap Labels(ticket) = {}
  /\ acc.newWorkflow # {} =>
       \E w \in ToSet(WorkflowLabels) :
          /\ acc.newWorkflow = {w} /\ w \in acc.added
          /\ ticket.workflows \subseteq acc.remove

LEMMA AddLabelOK ==
    ASSUME TypeOK, NEW acc, AccOK(acc), NEW label
    PROVE  AccOK(AddLabel(acc, label))
<1>1. ticket.workflows \subseteq KnownLabels
  BY DEF TypeOK, Snapshots, KnownLabels
<1>2. CASE label \in acc.added \cup Labels(ticket)
  BY <1>2 DEF AddLabel
<1>3. CASE label \notin acc.added \cup Labels(ticket)
  <2>1. CASE ~ IsWorkflow(label)
    <3>1. label \in KnownLabels
      BY <2>1 DEF IsWorkflow, KnownLabels
    <3>2. AddLabel(acc, label) = [acc EXCEPT !.added = @ \cup {label}]
      BY <1>3, <2>1 DEF AddLabel
    <3>3. QED
      BY <1>3, <3>1, <3>2 DEF Accs, AccOK
  <2>2. CASE IsWorkflow(label) /\ ~ IsKnown(label)
    <3>1. AddLabel(acc, label) = [acc EXCEPT !.newWorkflow = {}]
      BY <1>3, <2>2 DEF AddLabel
    <3>2. QED
      BY <3>1 DEF Accs, AccOK
  <2>3. CASE IsWorkflow(label) /\ IsKnown(label)
    <3>1. label \in KnownLabels /\ label \in ToSet(WorkflowLabels)
      BY <2>3 DEF IsKnown, IsWorkflow, KnownLabels
    <3>2. AddLabel(acc, label) =
            [added |-> acc.added \cup {label}, newWorkflow |-> {label},
             remove |-> acc.remove \cup ticket.workflows]
      BY <1>3, <2>3 DEF AddLabel
    <3>3. QED
      BY <1>1, <1>3, <3>1, <3>2 DEF Accs, AccOK
  <2>4. QED
    BY <2>1, <2>2, <2>3
<1>4. QED
  BY <1>2, <1>3

LEMMA AddedLabels ==
    ASSUME TypeOK, NEW add \in Seq(STRING), NEW base, AccOK(base)
    PROVE  AccOK(FoldLeft(AddLabel, base, add))
<1>1. PICK F : /\ F[0] = base
               /\ \A i \in 1 .. Len(add) : F[i] = AddLabel(F[i - 1], add[i])
               /\ FoldLeft(AddLabel, base, add) = F[Len(add)]
  BY FoldSteps
<1> DEFINE T == {i \in 0 .. Len(add) : ~ AccOK(F[i])}
<1>2. ASSUME T # {}
      PROVE  FALSE
  <2>1. T \subseteq Nat
    OBVIOUS
  <2>2. PICK i \in T : \A j \in T : i <= j
    <3> HIDE DEF T
    <3> QED BY <1>2, <2>1, NatMin
  <2>3. i # 0 /\ i \in 1 .. Len(add)
    BY <1>1, <2>2
  <2>4. i - 1 \in 0 .. Len(add) /\ i - 1 \notin T
    BY <2>2, <2>3
  <2>5. AccOK(F[i - 1])
    BY <2>4
  <2>6. AccOK(F[i])
    BY <1>1, <2>3, <2>5, AddLabelOK
  <2>7. QED
    BY <2>2, <2>6
<1>3. Len(add) \in 0 .. Len(add)
  BY LenProperties
<1>4. AccOK(F[Len(add)])
  BY <1>2, <1>3
<1>5. QED
  BY <1>1, <1>4

(* A snapshot with the status and the workflow of the ticket.              *)
SameStatus(t) ==
    t.status = ticket.status /\ t.workflows = ticket.workflows

(* A table of approvals with at most one that the ticket lacks.            *)
OneMore(ccb) ==
    \A u, v \in Users, s, q \in CcbStatuses :
       /\ ccb[u][s] = "approved" /\ ticket.ccb[u][s] # "approved"
       /\ ccb[v][q] = "approved" /\ ticket.ccb[v][q] # "approved"
       => u = v /\ s = q

LEMMA SetCcbType ==
    ASSUME NEW t \in Snapshots, NEW u \in Users, NEW s \in CcbStatuses,
           NEW state \in {"none", "added", "approved", "blocked"}
    PROVE  /\ SetCcb(t, u, s, state) \in Snapshots
           /\ SetCcb(t, u, s, state).status = t.status
           /\ SetCcb(t, u, s, state).workflows = t.workflows
BY DEF SetCcb, Snapshots, CcbTables

LEMMA SetCcbOne ==
    ASSUME ticket \in Snapshots, NEW u \in Users, NEW s \in CcbStatuses,
           NEW state \in {"none", "added", "approved", "blocked"}
    PROVE  OneMore(SetCcb(ticket, u, s, state).ccb)
<1>1. \A v \in Users, q \in CcbStatuses :
        v # u \/ q # s => SetCcb(ticket, u, s, state).ccb[v][q] = ticket.ccb[v][q]
  BY DEF SetCcb, Snapshots, CcbTables
<1>2. QED
  BY <1>1 DEF OneMore

LEMMA ClearedType ==
    ASSUME NEW t \in Snapshots
    PROVE  /\ ClearAllCcbApprovals(t) \in Snapshots
           /\ ClearAllCcbApprovals(t).workflows = t.workflows
           /\ \A u \in Users, s \in CcbStatuses :
                ClearAllCcbApprovals(t).ccb[u][s] \in {"none", "added"}
<1> DEFINE States == {"none", "added", "approved", "blocked"}
           table == [u \in Users |-> [s \in CcbStatuses |->
                       IF t.ccb[u][s] \in {"approved", "blocked"}
                       THEN "none" ELSE t.ccb[u][s]]]
<1>1. ClearAllCcbApprovals(t) = [t EXCEPT !.ccb = table]
  BY DEF ClearAllCcbApprovals, Snapshots
<1>2. t.ccb \in [Users -> [CcbStatuses -> States]]
  BY DEF Snapshots, CcbTables
<1>3. \A u \in Users, s \in CcbStatuses : table[u][s] \in {"none", "added"}
  BY <1>2
<1>4. table \in [Users -> [CcbStatuses -> States]]
  BY <1>3
<1> HIDE DEF table
<1>5. QED
  BY <1>1, <1>3, <1>4 DEF Snapshots, CcbTables

(* A transition that is taken is one of the workflow, and its checks pass. *)
LEMMA TransitionTaken ==
    ASSUME NEW t \in Snapshots, NEW s \in Statuses, ValidTransitions(t, s) # {}
    PROVE  \E e \in Transitions[FindWorkflow(t)] :
             /\ e.start = t.status /\ e.end = s
             /\ \A check \in e.checks : Passes(t, check, s)
             /\ AfterSetStatus(t, s) =
                  [(IF e.clears THEN ClearAllCcbApprovals(t) ELSE t)
                     EXCEPT !.status = s]
<1> DEFINE e == CHOOSE x \in ValidTransitions(t, s) : TRUE
<1>1. e \in ValidTransitions(t, s)
  OBVIOUS
<1>2. AfterSetStatus(t, s) =
        [(IF e.clears THEN ClearAllCcbApprovals(t) ELSE t) EXCEPT !.status = s]
  BY DEF AfterSetStatus
<1> HIDE DEF e
<1>3. QED
  BY <1>1, <1>2 DEF ValidTransitions

LEMMA AfterSetStatusType ==
    ASSUME NEW t \in Snapshots, NEW s \in Statuses, ValidTransitions(t, s) # {}
    PROVE  /\ AfterSetStatus(t, s) \in Snapshots
           /\ AfterSetStatus(t, s).status = s
           /\ AfterSetStatus(t, s).workflows = t.workflows
           /\ \A u \in Users, q \in CcbStatuses :
                AfterSetStatus(t, s).ccb[u][q] = "approved" =>
                  t.ccb[u][q] = "approved"
<1>1. PICK x \in Snapshots :
        /\ x.workflows = t.workflows
        /\ AfterSetStatus(t, s) = [x EXCEPT !.status = s]
        /\ \A u \in Users, q \in CcbStatuses :
             x.ccb[u][q] = "approved" => t.ccb[u][q] = "approved"
  BY TransitionTaken, ClearedType
<1>2. QED
  BY <1>1 DEF Snapshots

(* Changing labels leaves the rest of the ticket alone, but for the status,*)
(* which may be reset.                                                     *)
LEMMA RelabelType ==
    ASSUME ticket \in Snapshots, NEW added \in SUBSET KnownLabels,
           NEW removed, NEW newWorkflow
    PROVE  /\ Relabel(added, removed, newWorkflow) \in Snapshots
           /\ Relabel(added, removed, newWorkflow).status =
                IF newWorkflow # {} THEN "proposed" ELSE ticket.status
           /\ Relabel(added, removed, newWorkflow).workflows =
                ((Labels(ticket) \cup added) \ removed) \ Checklists
<1>1. ((Labels(ticket) \cup added) \ removed) \ Checklists
        \subseteq ToSet(WorkflowLabels)
  BY DEF Labels, KnownLabels, Snapshots
<1>2. "proposed" \in Statuses
  BY DEF Statuses
<1>3. QED
  BY <1>1, <1>2 DEF Relabel, InitialStatus, Snapshots

-----------------------------------------------------------------------------
(* Changes of labels *)

(* A command that has staged t ends, and leaves m as what is muddled if it *)
(* could commit.                                                           *)
Ends(t, m) == (Record(t) /\ muddled' = m) \/ FailAfterStaging(t)

(* The workflow is replaced by another one, and the status is reset.       *)
Replaces(t) ==
    /\ \E l \in ToSet(WorkflowLabels) : t.workflows = {l}
    /\ t.status = "proposed"

(* No list of labels takes a workflow away but with a new one, which       *)
(* resets the status; and without muddling the labels it leaves the        *)
(* workflow as it is, or replaces it.                                      *)
LEMMA ChangeEffect ==
    ASSUME TypeOK, NEW u, NEW add \in Seq(STRING), NEW remove \in SUBSET STRING,
           ChangeLabels(u, add, remove)
    PROVE  \E t \in Snapshots, m \in BOOLEAN :
             /\ Ends(t, m)
             /\ t.ccb = ticket.ccb
             /\ \/ t.status = ticket.status /\ ticket.workflows \subseteq t.workflows
                \/ t.status = "proposed" /\ t.workflows \ ticket.workflows # {}
             /\ ~ m => (SameStatus(t) /\ ~ muddled) \/ Replaces(t)
<1> DEFINE base == [added |-> {}, newWorkflow |-> {}, remove |-> remove]
           acc == FoldLeft(AddLabel, base, add)
           gone == {l \in acc.remove : CanRemove(u, l, acc.newWorkflow)}
           t == Relabel(acc.added, gone, acc.newWorkflow)
           m == \/ acc.added \ Checklists # acc.newWorkflow
                \/ muddled /\ acc.newWorkflow = {}
<1>1. AccOK(base)
  BY DEF Accs, AccOK
<1>2. AccOK(acc)
  <2> HIDE DEF base
  <2> QED BY <1>1, AddedLabels
<1>3. Ends(t, m)
  BY DEF ChangeLabels, Ends
<1> HIDE DEF base, acc
<1>4. /\ ticket.workflows \subseteq ToSet(WorkflowLabels)
      /\ ticket.checklists \subseteq Checklists
      /\ Labels(ticket) = ticket.workflows \cup ticket.checklists
      /\ Checklists \cap ToSet(WorkflowLabels) = {}
      /\ ticket \in Snapshots /\ acc.added \in SUBSET KnownLabels
      /\ acc.added \cap Labels(ticket) = {}
  BY <1>2, LabelsOK DEF TypeOK, Snapshots, Labels, AccOK, Accs
<1>5. /\ t \in Snapshots /\ t.ccb = ticket.ccb
      /\ t.status = IF acc.newWorkflow # {} THEN "proposed" ELSE ticket.status
      /\ t.workflows = ((Labels(ticket) \cup acc.added) \ gone) \ Checklists
  <2> HIDE DEF gone
  <2>1. ticket \in Snapshots /\ acc.added \in SUBSET KnownLabels
    BY <1>4
  <2>2. t.ccb = ticket.ccb
    BY <1>4 DEF Relabel, Snapshots
  <2>3. t \in Snapshots
    BY <2>1, RelabelType
  <2>4. t.status = IF acc.newWorkflow # {} THEN "proposed" ELSE ticket.status
    BY <2>1, RelabelType
  <2>5. t.workflows = ((Labels(ticket) \cup acc.added) \ gone) \ Checklists
    BY <2>1, RelabelType
  <2> HIDE DEF t
  <2>6. QED
    BY <2>2, <2>3, <2>4, <2>5
<1>6. m \in BOOLEAN
  OBVIOUS
<1>7. CASE acc.newWorkflow = {}
  <2>1. gone \subseteq Checklists
    BY <1>7 DEF CanRemove, IsWorkflow
  <2>2. t.workflows = ticket.workflows \cup (acc.added \ Checklists)
    BY <1>4, <1>5, <2>1
  <2>3. t.status = ticket.status
    BY <1>5, <1>7
  <2> HIDE DEF t, gone
  <2>4. ~ m => SameStatus(t) /\ ~ muddled
    BY <1>7, <2>2, <2>3 DEF SameStatus
  <2> HIDE DEF m
  <2>5. QED
    BY <1>3, <1>5, <1>6, <2>2, <2>3, <2>4
<1>8. CASE acc.newWorkflow # {}
  <2>1. PICK w \in ToSet(WorkflowLabels) :
          /\ acc.newWorkflow = {w} /\ w \in acc.added
          /\ ticket.workflows \subseteq acc.remove
    BY <1>2, <1>8 DEF AccOK
  <2>2. gone \subseteq Labels(ticket)
    BY DEF CanRemove
  <2>3. ticket.workflows \subseteq gone
    BY <1>4, <1>8, <2>1 DEF CanRemove, IsWorkflow
  <2>4. t.status = "proposed"
    BY <1>5, <1>8
  <2>5. w \in t.workflows \ ticket.workflows
    BY <1>4, <1>5, <2>1, <2>2
  <2>6. acc.added \ Checklists = {w} => t.workflows = {w}
    BY <1>4, <1>5, <2>1, <2>2, <2>3
  <2> HIDE DEF t, gone
  <2>7. ~ m => Replaces(t)
    BY <2>1, <2>4, <2>6 DEF Replaces
  <2> HIDE DEF m
  <2>8. QED
    BY <1>3, <1>5, <1>6, <2>4, <2>5, <2>7
<1>9. QED
  BY <1>7, <1>8

-----------------------------------------------------------------------------
(* Steps *)

(* Every command stages a change that keeps the status, or a transition,   *)
(* with an approval before it at most, or a change of labels.              *)
KeepsStatus ==
    \E t \in Snapshots : SameStatus(t) /\ OneMore(t.ccb) /\ Commit(t)

Moves ==
    \E t \in Snapshots, s \in Statuses :
        /\ \/ t = ticket
           \/ \E u \in Users, q \in CcbStatuses : t = SetCcb(ticket, u, q, "approved")
        /\ SameStatus(t) /\ OneMore(t.ccb) /\ ValidTransitions(t, s) # {}
        /\ Commit(AfterSetStatus(t, s))

Relabels == \E u \in Users, labels \in LabelArgs :
                LabelAdd(u, labels) \/ LabelRm(u, labels)

LEMMA CcbSteps ==
    ASSUME TypeOK, NEW u \in Users, NEW s \in CcbStatuses, NEW force \in BOOLEAN,
           \/ CcbAdd(u, s) \/ CcbRm(u, s)
           \/ CcbBlock(u, s, force) \/ CcbApprove(u, s, force)
    PROVE  KeepsStatus \/ Moves
<1>1. \A state \in {"none", "added", "approved", "blocked"} :
        /\ SetCcb(ticket, u, s, state) \in Snapshots
        /\ SameStatus(SetCcb(ticket, u, s, state))
        /\ OneMore(SetCcb(ticket, u, s, state).ccb)
  BY SetCcbType, SetCcbOne DEF TypeOK, SameStatus
<1>2. CcbAdd(u, s) => KeepsStatus
  BY <1>1 DEF CcbAdd, KeepsStatus
<1>3. CcbRm(u, s) => KeepsStatus
  BY <1>1 DEF CcbRm, KeepsStatus
<1>4. CcbBlock(u, s, force) => KeepsStatus
  BY <1>1 DEF CcbBlock, KeepsStatus
<1>5. CcbApprove(u, s, force) => KeepsStatus \/ Moves
  <2> DEFINE t == SetCcb(ticket, u, s, "approved")
  <2>1. t \in Snapshots /\ SameStatus(t) /\ OneMore(t.ccb) /\ s \in Statuses
    BY <1>1, WorkflowConstantsOK
  <2>2. CcbApprove(u, s, force) =>
           \/ Commit(t)
           \/ ValidTransitions(t, s) # {} /\ Commit(AfterSetStatus(t, s))
    BY DEF CcbApprove, Commit
  <2>3. \E v \in Users, q \in CcbStatuses : t = SetCcb(ticket, v, q, "approved")
    OBVIOUS
  <2> HIDE DEF t
  <2>4. QED
    BY <2>1, <2>2, <2>3 DEF KeepsStatus, Moves
<1>6. QED
  BY <1>2, <1>3, <1>4, <1>5

LEMMA NextSteps ==
    ASSUME TypeOK, Next
    PROVE  KeepsStatus \/ Moves \/ Relabels
<1> DEFINE Result == KeepsStatus \/ Moves \/ Relabels
<1>1. ticket \in Snapshots
  BY DEF TypeOK
<1>2. ASSUME NEW u \in Users, NEW s \in CcbStatuses, NEW force \in BOOLEAN,
             \/ CcbAdd(u, s) \/ CcbRm(u, s)
             \/ CcbBlock(u, s, force) \/ CcbApprove(u, s, force)
      PROVE  Result
  BY <1>2, CcbSteps
<1>3. ASSUME NEW s \in Statuses, StatusSet(s)
      PROVE  Result
  <2>1. SameStatus(ticket) /\ OneMore(ticket.ccb)
    BY DEF SameStatus, OneMore
  <2>2. QED
    BY <1>1, <1>3, <2>1 DEF StatusSet, Moves
<1>4. ASSUME Assign
      PROVE  Result
  <2> DEFINE t == [ticket EXCEPT !.assigned = TRUE]
  <2>1. t \in Snapshots /\ SameStatus(t) /\ t.ccb = ticket.ccb
    BY <1>1 DEF SameStatus, Snapshots
  <2>2. QED
    BY <1>4, <2>1 DEF Assign, KeepsStatus, OneMore
<1>5. ASSUME NEW u \in Users, NEW c \in Checklists,
             NEW state \in {"tbd", "passed", "failed"},
             ReviewChecklist(u, c, state)
      PROVE  Result
  <2> DEFINE t == [ticket EXCEPT !.reviews[c][u] = state]
  <2>1. t \in Snapshots /\ SameStatus(t) /\ t.ccb = ticket.ccb
    BY <1>1 DEF SameStatus, Snapshots
  <2>2. QED
    BY <1>5, <2>1 DEF ReviewChecklist, KeepsStatus, OneMore
<1>6. ASSUME NEW u \in Users, NEW labels \in LabelArgs,
             LabelAdd(u, labels) \/ LabelRm(u, labels)
      PROVE  Result
  BY <1>6 DEF Relabels
<1> HIDE DEF Result
<1>7. Result
  <2>1. TRUE \in BOOLEAN
    OBVIOUS
  <2>2. QED
    BY <1>2, <1>3, <1>4, <1>5, <1>6, <2>1 DEF Next
<1>8. QED
  BY <1>7 DEF Result

LEMMA RelabelSteps ==
    ASSUME TypeOK, Relabels
    PROVE  \E t \in Snapshots, m \in BOOLEAN :
             /\ Ends(t, m)
             /\ t.ccb = ticket.ccb
             /\ \/ t.status = ticket.status /\ ticket.workflows \subseteq t.workflows
                \/ t.status = "proposed" /\ t.workflows \ ticket.workflows # {}
             /\ ~ m => (SameStatus(t) /\ ~ muddled) \/ Replaces(t)
<1>1. PICK u \in Users, labels \in LabelArgs :
        LabelAdd(u, labels) \/ LabelRm(u, labels)
  BY DEF Relabels
<1>2. labels \in Seq(STRING) /\ << >> \in Seq(STRING)
  BY LabelsOK
<1>3. ToSet(labels) \in SUBSET STRING /\ {} \in SUBSET STRING
  BY <1>2 DEF ToSet
<1>4. PICK add \in Seq(STRING), remove \in SUBSET STRING : ChangeLabels(u, add, remove)
  BY <1>1, <1>2, <1>3 DEF LabelAdd, LabelRm
<1>5. QED
  BY <1>4, ChangeEffect

(* So every command stages a snapshot, and ends.                           *)
LEMMA Effects ==
    ASSUME TypeOK, Next
    PROVE  \E t \in Snapshots, m \in BOOLEAN : Ends(t, m)
<1>1. muddled \in BOOLEAN
  BY DEF TypeOK
<1>2. ASSUME NEW t \in Snapshots, Commit(t)
      PROVE  \E x \in Snapshots, m \in BOOLEAN : Ends(x, m)
  BY <1>1, <1>2 DEF Commit, Ends
<1>3. KeepsStatus => \E t \in Snapshots : Commit(t)
  BY DEF KeepsStatus
<1>4. Moves => \E t \in Snapshots : Commit(t)
  BY AfterSetStatusType DEF Moves
<1>5. QED
  BY <1>2, <1>3, <1>4, RelabelSteps, NextSteps

-----------------------------------------------------------------------------
(* Types *)

LEMMA TypeInit == Init => TypeOK
<1> SUFFICES ASSUME Init
             PROVE  TypeOK
  OBVIOUS
<1>1. ticket \in Snapshots
  BY DEF Init, Snapshots, CcbTables, InitialStatus, Statuses
<1>2. excerpt = NewBugExcerpt(ticket)
      /\ grounds \in [{"vetted", "accepted"} -> SUBSET Users]
  BY DEF Init
<1>3. muddled = FALSE
  BY DEF Init
<1>4. excerpt \in Excerpts
  BY <1>1, <1>2 DEF NewBugExcerpt, Excerpts, Snapshots, Approvals
<1>5. QED
  BY <1>1, <1>2, <1>3, <1>4 DEF TypeOK

LEMMA TypeStep == TypeOK /\ [Next]_vars => TypeOK'
<1> SUFFICES ASSUME TypeOK, [Next]_vars
             PROVE  TypeOK'
  OBVIOUS
<1>1. ASSUME NEW t \in Snapshots, NEW m \in BOOLEAN, Ends(t, m)
      PROVE  TypeOK'
  <2>1. \A s : Approvers(t, s) \in SUBSET Users
    BY DEF Approvers
  <2>2. grounds' \in [{"vetted", "accepted"} -> SUBSET Users]
    <3>1. \/ grounds' = grounds
          \/ grounds' = [s \in DOMAIN grounds |-> {}]
          \/ grounds' = [grounds EXCEPT !["vetted"] = Approvers(t, "vetted")]
          \/ grounds' = [grounds EXCEPT !["accepted"] = Approvers(t, "accepted")]
      BY <1>1 DEF Ends, Record, FailAfterStaging
    <3>2. QED
      BY <2>1, <3>1 DEF TypeOK
  <2>3. ticket' \in Snapshots /\ muddled' \in BOOLEAN
    BY <1>1, Zenon DEF Ends, Record, FailAfterStaging, TypeOK
  <2>4. excerpt' = NewBugExcerpt(t)
    BY <1>1 DEF Ends, Record, FailAfterStaging, Stage
  <2>5. excerpt' \in Excerpts
    BY <2>4 DEF NewBugExcerpt, Excerpts, Snapshots, Approvals
  <2>6. QED
    BY <2>2, <2>3, <2>5, Zenon DEF TypeOK
<1>2. UNCHANGED vars => TypeOK'
  BY DEF vars, TypeOK
<1>3. QED
  BY <1>1, <1>2, Effects

(* Whatever labels are added and removed, the ticket, its excerpt and the  *)
(* history of its approvals keep their types.                              *)
THEOREM TypeCorrect == Spec => []TypeOK
BY TypeInit, TypeStep, PTL DEF Spec

-----------------------------------------------------------------------------
(* Excerpts and rejections *)

LEMMA ApprovalGiven ==
    ASSUME NEW t, NEW a
    PROVE  a \in Approvals(t) <=>
             \E u \in Users, s \in CcbStatuses :
                a = <<u, s>> /\ t.ccb[u][s] = "approved"
BY DEF Approvals

LEMMA ExcerptStep == TypeOK /\ ExcerptFaithful /\ [Next]_vars => ExcerptFaithful'
<1> SUFFICES ASSUME TypeOK, ExcerptFaithful, [Next]_vars
             PROVE  ExcerptFaithful'
  OBVIOUS
<1>1. ASSUME NEW t, Record(t)
      PROVE  ExcerptFaithful'
  BY <1>1 DEF Record, Stage, NewBugExcerpt, ExcerptFaithful
<1>2. ASSUME NEW t, FailAfterStaging(t), OneMore(t.ccb),
             \/ t.status = ticket.status
             \/ ValidTransitions(ticket, t.status) # {}
             \/ \E u \in Users, s \in CcbStatuses :
                   ValidTransitions(SetCcb(ticket, u, s, "approved"), t.status) # {}
             \/ t.status = "proposed" /\ t.workflows \ ticket.workflows # {}
      PROVE  ExcerptFaithful'
  <2>1. /\ excerpt'.status = t.status /\ excerpt'.approvals = Approvals(t)
        /\ excerpt'.workflows = t.workflows /\ ticket' = ticket
    BY <1>2 DEF FailAfterStaging, Stage, NewBugExcerpt
  <2>2. ASSUME NEW a \in Approvals(t) \ Approvals(ticket),
               NEW b \in Approvals(t) \ Approvals(ticket)
        PROVE  a = b
    BY <1>2, ApprovalGiven DEF OneMore
  <2>3. QED
    BY <1>2, <2>1, <2>2 DEF ExcerptFaithful
<1>3. ASSUME NEW t \in Snapshots, SameStatus(t), OneMore(t.ccb), Commit(t)
      PROVE  ExcerptFaithful'
  BY <1>1, <1>2, <1>3 DEF Commit, SameStatus
<1>4. CASE Moves
  <2>1. PICK t \in Snapshots, s \in Statuses :
          /\ \/ t = ticket
             \/ \E u \in Users, q \in CcbStatuses : t = SetCcb(ticket, u, q, "approved")
          /\ OneMore(t.ccb) /\ ValidTransitions(t, s) # {}
          /\ Commit(AfterSetStatus(t, s))
    BY <1>4 DEF Moves
  <2>2. PICK x \in Snapshots :
          /\ x = AfterSetStatus(t, s) /\ x.status = s
          /\ \A u \in Users, q \in CcbStatuses :
               x.ccb[u][q] = "approved" => t.ccb[u][q] = "approved"
    BY <2>1, AfterSetStatusType
  <2>3. OneMore(x.ccb)
    BY <2>1, <2>2 DEF OneMore
  <2>4. Record(x) \/ FailAfterStaging(x)
    BY <2>1, <2>2 DEF Commit
  <2>5. QED
    BY <1>1, <1>2, <2>1, <2>2, <2>3, <2>4
<1>5. CASE Relabels
  <2>1. PICK t \in Snapshots, m \in BOOLEAN :
          /\ Ends(t, m) /\ t.ccb = ticket.ccb
          /\ \/ t.status = ticket.status
             \/ t.status = "proposed" /\ t.workflows \ ticket.workflows # {}
    BY <1>5, RelabelSteps
  <2>2. OneMore(t.ccb)
    BY <2>1 DEF OneMore
  <2>3. QED
    BY <1>1, <1>2, <2>1, <2>2 DEF Ends
<1>6. UNCHANGED vars => ExcerptFaithful'
  BY DEF vars, ExcerptFaithful
<1>7. QED
  BY <1>3, <1>4, <1>5, <1>6, NextSteps DEF KeepsStatus

(* However many commands fail or die between the staging and the commit,   *)
(* the excerpt in the cache is at most one command ahead of the ticket.    *)
THEOREM ExcerptCorrect == Spec => []ExcerptFaithful
<1>1. Init => ExcerptFaithful
  BY DEF Init, ExcerptFaithful, NewBugExcerpt
<1>2. QED
  BY <1>1, TypeInit, TypeStep, ExcerptStep, PTL DEF Spec

(* Every transition to "rejected" of the eng workflow clears the approvals.*)
LEMMA EngRejects == \A e \in Eng : e.end = "rejected" => e.clears
BY DEF Eng, Edge, ClearingEdge

LEMMA EngTransitions == Transitions["eng"] = Eng
<1>1. "eng" \in ToSet(WorkflowLabels)
  <2>1. WorkflowLabels[2] = "eng" /\ 2 \in DOMAIN WorkflowLabels
    BY DEF WorkflowLabels
  <2>2. QED
    BY <2>1 DEF ToSet
<1>2. QED
  BY <1>1 DEF Transitions

LEMMA RejectionStep ==
    ASSUME TypeOK, [Next]_vars, FindWorkflow(ticket) = "eng",
           ticket.status # "rejected", ticket'.status = "rejected"
    PROVE  \A u \in Users, s \in CcbStatuses :
              ticket'.ccb[u][s] \in {"none", "added"}
<1>1. ~ UNCHANGED vars
  BY DEF vars
<1>2. ~ KeepsStatus
  BY DEF KeepsStatus, SameStatus, Commit, Record, FailAfterStaging
<1>3. ~ Relabels
  BY RelabelSteps DEF Ends, Record, FailAfterStaging
<1>4. Moves
  BY <1>1, <1>2, <1>3, NextSteps
<1>5. PICK t \in Snapshots, s \in Statuses :
        /\ SameStatus(t) /\ ValidTransitions(t, s) # {}
        /\ ticket' = AfterSetStatus(t, s)
  BY <1>4 DEF Moves, Commit, Record, FailAfterStaging
<1>6. FindWorkflow(t) = "eng"
  BY <1>5 DEF SameStatus, FindWorkflow
<1>7. s = "rejected"
  BY <1>5, AfterSetStatusType
<1>8. PICK e \in Eng :
        /\ e.end = s
        /\ AfterSetStatus(t, s) =
             [(IF e.clears THEN ClearAllCcbApprovals(t) ELSE t) EXCEPT !.status = s]
  BY <1>5, <1>6, TransitionTaken, EngTransitions
<1>9. e.clears
  BY <1>7, <1>8, EngRejects
<1>10. PICK x \in Snapshots :
         /\ \A u \in Users, q \in CcbStatuses : x.ccb[u][q] \in {"none", "added"}
         /\ ticket' = [x EXCEPT !.status = s]
  BY <1>5, <1>8, <1>9, ClearedType
<1>11. ticket'.ccb = x.ccb
  BY <1>10 DEF Snapshots
<1>12. QED
  BY <1>10, <1>11

(* A ticket rejected in the eng workflow keeps no approval and no block,   *)
(* whichever command rejected it.                                          *)
THEOREM RejectionCorrect == Spec => RejectionClears
<1>1. TypeOK /\ [Next]_vars =>
        [(/\ FindWorkflow(ticket) = "eng"
          /\ ticket.status # "rejected" /\ ticket'.status = "rejected")
           => \A u \in Users, s \in CcbStatuses :
                 ticket'.ccb[u][s] \in {"none", "added"}]_vars
  BY RejectionStep
<1>2. QED
  BY <1>1, TypeInit, TypeStep, PTL DEF Spec, RejectionClears

-----------------------------------------------------------------------------
(* The workflow and the status *)

LEMMA WorkflowNames == ToSet(WorkflowLabels) = {"change", "eng", "exp", "qa"}
<1>1. /\ DOMAIN WorkflowLabels = 1 .. 4
      /\ WorkflowLabels[1] = "change" /\ WorkflowLabels[2] = "eng"
      /\ WorkflowLabels[3] = "exp" /\ WorkflowLabels[4] = "qa"
  BY DEF WorkflowLabels
<1>2. QED
  BY <1>1 DEF ToSet

(* FindWorkflow finds a workflow of the ticket.                            *)
LEMMA WorkflowFound ==
    ASSUME NEW t, t.workflows # {}, t.workflows \subseteq ToSet(WorkflowLabels)
    PROVE  FindWorkflow(t) \in t.workflows
<1> DEFINE K == {i \in 1 .. 4 : WorkflowLabels[i] \in t.workflows}
<1>1. /\ DOMAIN WorkflowLabels = 1 .. 4 /\ Len(WorkflowLabels) = 4
      /\ WorkflowLabels[1] = "change" /\ WorkflowLabels[2] = "eng"
      /\ WorkflowLabels[3] = "exp" /\ WorkflowLabels[4] = "qa"
  BY DEF WorkflowLabels
<1>2. K # {}
  BY <1>1 DEF ToSet
<1>3. PICK k \in K : \A i \in K : k <= i
  <2>1. K \subseteq Nat
    OBVIOUS
  <2> HIDE DEF K
  <2>2. QED
    BY <1>2, <2>1, NatMin
<1>4. Min(K) \in K
  BY <1>3 DEF Min
<1>5. FindWorkflow(t) = WorkflowLabels[Min(K)]
  BY <1>1, <1>2 DEF FindWorkflow, SelectInSeq
<1>6. QED
  BY <1>4, <1>5

HasWorkflow(w) == ticket.workflows = {w}

(* The inductive form of OneWorkflow.                                      *)
HasOneWorkflow ==
    /\ ticket.workflows # {}
    /\ ~ muddled => \E w \in ToSet(WorkflowLabels) : HasWorkflow(w)

StatusesOf(w) == UNION {{e.start, e.end} : e \in Transitions[w]}

LEMMA ProposedKnown == \A w \in ToSet(WorkflowLabels) : "proposed" \in StatusesOf(w)
<1>1. ASSUME NEW w \in ToSet(WorkflowLabels)
      PROVE  \E e \in Transitions[w] : e.start = "proposed"
  <2>1. Transitions[w] \in {Eng, Exp, Qa}
    BY DEF Transitions
  <2>2. \E e \in Eng : e.start = "proposed"
    <3>1. ClearingEdge("proposed", {}) \in Eng
      BY DEF Eng
    <3>2. QED
      BY <3>1 DEF ClearingEdge
  <2>3. \E e \in Exp : e.start = "proposed"
    <3>1. Edge("proposed", "rejected", {}) \in Exp
      BY DEF Exp
    <3>2. QED
      BY <3>1 DEF Edge
  <2>4. \E e \in Qa : e.start = "proposed"
    <3>1. Edge("proposed", "rejected", {}) \in Qa
      BY DEF Qa
    <3>2. QED
      BY <3>1 DEF Edge
  <2>5. QED
    BY <2>1, <2>2, <2>3, <2>4
<1>2. QED
  BY <1>1 DEF StatusesOf

(* What a step does to the ticket.                                         *)
LEMMA TicketStep ==
    ASSUME TypeOK, [Next]_vars
    PROVE  \/ UNCHANGED <<ticket, grounds, muddled>>
           \/ \E t : SameStatus(t) /\ Record(t) /\ UNCHANGED muddled
           \/ \E t \in Snapshots, s \in Statuses :
                /\ SameStatus(t) /\ ValidTransitions(t, s) # {}
                /\ Record(AfterSetStatus(t, s)) /\ UNCHANGED muddled
           \/ \E t \in Snapshots :
                /\ Record(t)
                /\ \/ t.status = ticket.status /\ ticket.workflows \subseteq t.workflows
                   \/ t.status = "proposed" /\ t.workflows # {}
                /\ ~ muddled' => (SameStatus(t) /\ ~ muddled) \/ Replaces(t)
<1>1. UNCHANGED vars => UNCHANGED <<ticket, grounds, muddled>>
  BY DEF vars
<1>2. KeepsStatus => \/ UNCHANGED <<ticket, grounds, muddled>>
                     \/ \E t : SameStatus(t) /\ Record(t) /\ UNCHANGED muddled
  BY DEF KeepsStatus, Commit, FailAfterStaging
<1>3. Moves => \/ UNCHANGED <<ticket, grounds, muddled>>
               \/ \E t \in Snapshots, s \in Statuses :
                    /\ SameStatus(t) /\ ValidTransitions(t, s) # {}
                    /\ Record(AfterSetStatus(t, s)) /\ UNCHANGED muddled
  BY DEF Moves, Commit, FailAfterStaging
<1>4. ASSUME Relabels
      PROVE  \/ UNCHANGED <<ticket, grounds, muddled>>
             \/ \E t \in Snapshots :
                  /\ Record(t)
                  /\ \/ t.status = ticket.status /\ ticket.workflows \subseteq t.workflows
                     \/ t.status = "proposed" /\ t.workflows # {}
                  /\ ~ muddled' => (SameStatus(t) /\ ~ muddled) \/ Replaces(t)
  <2>1. PICK t \in Snapshots, m \in BOOLEAN :
          /\ Ends(t, m)
          /\ \/ t.status = ticket.status /\ ticket.workflows \subseteq t.workflows
             \/ t.status = "proposed" /\ t.workflows \ ticket.workflows # {}
          /\ ~ m => (SameStatus(t) /\ ~ muddled) \/ Replaces(t)
    BY <1>4, RelabelSteps
  <2>2. FailAfterStaging(t) => UNCHANGED <<ticket, grounds, muddled>>
    BY DEF FailAfterStaging
  <2>3. t.workflows \ ticket.workflows # {} => t.workflows # {}
    OBVIOUS
  <2>4. QED
    BY <2>1, <2>2, <2>3 DEF Ends
<1>5. QED
  BY <1>1, <1>2, <1>3, <1>4, NextSteps

LEMMA OneWorkflowStep ==
    ASSUME TypeOK, HasOneWorkflow, [Next]_vars
    PROVE  HasOneWorkflow'
<1>1. CASE UNCHANGED <<ticket, grounds, muddled>>
  BY <1>1 DEF HasOneWorkflow, HasWorkflow
<1>2. ASSUME NEW t, SameStatus(t), Record(t), UNCHANGED muddled
      PROVE  HasOneWorkflow'
  BY <1>2 DEF HasOneWorkflow, HasWorkflow, SameStatus, Record
<1>3. ASSUME NEW t \in Snapshots, NEW s \in Statuses, SameStatus(t),
             ValidTransitions(t, s) # {}, Record(AfterSetStatus(t, s)),
             UNCHANGED muddled
      PROVE  HasOneWorkflow'
  <2>1. ticket'.workflows = ticket.workflows
    BY <1>3, AfterSetStatusType DEF SameStatus, Record
  <2>2. QED
    BY <1>3, <2>1 DEF HasOneWorkflow, HasWorkflow
<1>4. ASSUME NEW t \in Snapshots, Record(t),
             \/ t.status = ticket.status /\ ticket.workflows \subseteq t.workflows
             \/ t.status = "proposed" /\ t.workflows # {},
             ~ muddled' => (SameStatus(t) /\ ~ muddled) \/ Replaces(t)
      PROVE  HasOneWorkflow'
  BY <1>4 DEF HasOneWorkflow, HasWorkflow, SameStatus, Replaces, Record
<1>5. QED
  BY <1>1, <1>2, <1>3, <1>4, TicketStep

LEMMA OneWorkflowInit == Init => HasOneWorkflow
BY DEF Init, HasOneWorkflow, HasWorkflow

(* Whatever lists of labels are added and removed, a ticket has a          *)
(* workflow, and one only, unless the last change of its workflow muddled  *)
(* its labels.                                                             *)
THEOREM OneWorkflowCorrect == Spec => []OneWorkflow
<1>1. TypeOK /\ HasOneWorkflow /\ [Next]_vars => TypeOK' /\ HasOneWorkflow'
  BY TypeStep, OneWorkflowStep
<1>2. HasOneWorkflow => OneWorkflow
  BY FS_Singleton DEF HasOneWorkflow, HasWorkflow, OneWorkflow
<1>3. QED
  BY <1>1, <1>2, TypeInit, OneWorkflowInit, PTL DEF Spec

(* StatusInWorkflow, in the terms of the proof.                            *)
StatusKnown == \E w \in ticket.workflows : ticket.status \in StatusesOf(w)

LEMMA StatusStep ==
    ASSUME TypeOK, StatusKnown, [Next]_vars
    PROVE  StatusKnown'
<1> SUFFICES \E w \in ticket'.workflows : ticket'.status \in StatusesOf(w)
  BY DEF StatusKnown, StatusesOf
<1>1. PICK w \in ticket.workflows : ticket.status \in StatusesOf(w)
  BY DEF StatusKnown
<1>2. CASE UNCHANGED <<ticket, grounds, muddled>>
  BY <1>1, <1>2
<1>3. ASSUME NEW t, SameStatus(t), Record(t)
      PROVE  \E v \in ticket'.workflows : ticket'.status \in StatusesOf(v)
  BY <1>1, <1>3 DEF SameStatus, Record
<1>4. ASSUME NEW t \in Snapshots, NEW s \in Statuses, SameStatus(t),
             ValidTransitions(t, s) # {}, Record(AfterSetStatus(t, s))
      PROVE  \E v \in ticket'.workflows : ticket'.status \in StatusesOf(v)
  <2>1. ticket'.status = s /\ ticket'.workflows = t.workflows
    BY <1>4, AfterSetStatusType DEF Record
  <2>2. t.workflows # {} /\ t.workflows \subseteq ToSet(WorkflowLabels)
    BY <1>1, <1>4 DEF SameStatus, Snapshots
  <2>3. FindWorkflow(t) \in t.workflows
    BY <2>2, WorkflowFound
  <2>4. \E e \in Transitions[FindWorkflow(t)] : e.end = s
    BY <1>4, TransitionTaken
  <2>5. QED
    BY <2>1, <2>3, <2>4 DEF StatusesOf
<1>5. ASSUME NEW t \in Snapshots, Record(t),
             \/ t.status = ticket.status /\ ticket.workflows \subseteq t.workflows
             \/ t.status = "proposed" /\ t.workflows # {}
      PROVE  \E v \in ticket'.workflows : ticket'.status \in StatusesOf(v)
  <2>1. ticket' = t /\ t.workflows \subseteq ToSet(WorkflowLabels)
    BY <1>5 DEF Record, Snapshots
  <2>2. QED
    BY <1>1, <1>5, <2>1, ProposedKnown
<1>6. QED
  BY <1>2, <1>3, <1>4, <1>5, TicketStep

(* The status of a ticket is one that a workflow of it knows, across every *)
(* change of workflow and every list of labels.                            *)
THEOREM StatusCorrect == Spec => []StatusInWorkflow
<1>1. Init => StatusKnown
  BY ProposedKnown DEF Init, StatusKnown, InitialStatus
<1>2. TypeOK /\ StatusKnown /\ [Next]_vars => TypeOK' /\ StatusKnown'
  BY TypeStep, StatusStep
<1>3. StatusKnown => StatusInWorkflow
  BY DEF StatusKnown, StatusesOf, StatusInWorkflow
<1>4. QED
  BY <1>1, <1>2, <1>3, TypeInit, PTL DEF Spec

-----------------------------------------------------------------------------
(* Approval of the work *)

Worked == {"vetted", "inprogress", "inreview", "reviewed", "accepted", "merged"}

(* Work starts when the ticket is vetted, and ends when it is accepted.    *)
LEMMA EngWork ==
    ASSUME NEW e \in Eng
    PROVE  /\ e.end \in Worked =>
                \/ e.start \in Worked
                \/ /\ e.start = "proposed" /\ e.end = "vetted"
                   /\ "ccb" \in e.checks /\ ~ e.clears
           /\ e.end \in {"accepted", "merged"} =>
                \/ e.start \in {"accepted", "merged"}
                \/ /\ e.start = "reviewed" /\ e.end = "accepted"
                   /\ "allCcb" \in e.checks /\ ~ e.clears
BY DEF Eng, Edge, ClearingEdge, Worked

LEMMA ApproverGiven ==
    ASSUME NEW t, NEW u \in Users, NEW s \in CcbStatuses
    PROVE  u \in Approvers(t, s) <=> t.ccb[u][s] = "approved"
BY DEF Approvers, Approvals

(* A check of approvals that passes has found one.                         *)
LEMMA ApprovalFound ==
    ASSUME NEW t \in Snapshots, NEW s \in Statuses, s # "rejected",
           Passes(t, "ccb", s) \/ Passes(t, "allCcb", s)
    PROVE  Approvers(t, s) # {}
<1>1. CASE Passes(t, "ccb", s)
  <2>1. ValidateCcb(t, s)
    BY <1>1 DEF Passes
  <2>2. QED
    BY <2>1, ApproverGiven DEF ValidateCcb
<1>2. CASE Passes(t, "allCcb", s)
  <2>1. ValidateAllCcb(t, s)
    BY <1>2 DEF Passes
  <2>2. PICK u \in Users : t.ccb[u][s] # "none"
    BY <2>1 DEF ValidateAllCcb
  <2>3. s \in CcbStatuses /\ t.ccb[u][s] \in {"none", "approved"}
    BY <2>1 DEF ValidateAllCcb
  <2>4. QED
    BY <2>2, <2>3, ApproverGiven
<1>3. QED
  BY <1>1, <1>2

WorkApproved ==
    HasWorkflow("eng") /\ ~ muddled =>
        /\ ticket.status \in Worked => grounds["vetted"] # {}
        /\ ticket.status \in {"accepted", "merged"} => grounds["accepted"] # {}

(* A transition of the eng workflow into work has the approval it needs.   *)
LEMMA MoveApproved ==
    ASSUME TypeOK, HasWorkflow("eng"), ~ muddled, WorkApproved,
           NEW t \in Snapshots, NEW s \in Statuses, SameStatus(t),
           ValidTransitions(t, s) # {}, Record(AfterSetStatus(t, s))
    PROVE  WorkApproved'
<1>1. FindWorkflow(t) = "eng"
  <2>1. t.workflows = {"eng"} /\ t.workflows \subseteq ToSet(WorkflowLabels)
    BY WorkflowNames DEF SameStatus, HasWorkflow
  <2>2. QED
    BY <2>1, WorkflowFound
<1>2. PICK e \in Eng :
        /\ e.start = t.status /\ e.end = s
        /\ \A check \in e.checks : Passes(t, check, s)
        /\ AfterSetStatus(t, s) =
             [(IF e.clears THEN ClearAllCcbApprovals(t) ELSE t) EXCEPT !.status = s]
  BY <1>1, TransitionTaken, EngTransitions
<1>3. PICK x \in Snapshots : x = AfterSetStatus(t, s) /\ x.status = s
  BY AfterSetStatusType
<1>4. /\ ticket' = x /\ ticket.status = t.status
      /\ grounds' =
           CASE s # ticket.status /\ s = "proposed" -> [q \in DOMAIN grounds |-> {}]
             [] s = "vetted" /\ ticket.status = "proposed" ->
                   [grounds EXCEPT !["vetted"] = Approvers(x, "vetted")]
             [] s = "accepted" /\ ticket.status = "reviewed" ->
                   [grounds EXCEPT !["accepted"] = Approvers(x, "accepted")]
             [] OTHER -> grounds
  BY <1>3 DEF Record, SameStatus
<1>5. ASSUME ~ e.clears, s \in {"vetted", "accepted"},
             Passes(t, "ccb", s) \/ Passes(t, "allCcb", s)
      PROVE  Approvers(x, s) # {}
  <2>1. x.ccb = t.ccb
    BY <1>2, <1>3, <1>5 DEF Snapshots
  <2>2. Approvers(t, s) # {}
    BY <1>5, ApprovalFound
  <2>3. QED
    BY <2>1, <2>2 DEF Approvers, Approvals
<1>6. /\ ticket.status \in Worked => grounds["vetted"] # {}
      /\ ticket.status \in {"accepted", "merged"} => grounds["accepted"] # {}
      /\ DOMAIN grounds = {"vetted", "accepted"}
  BY DEF WorkApproved, TypeOK
<1>7. s \in Worked => grounds'["vetted"] # {}
  <2>1. CASE s \in Worked /\ e.start \in Worked
    <3>1. ticket.status \in Worked /\ s # "proposed" /\ ticket.status # "proposed"
      BY <1>2, <1>4, <2>1 DEF Worked
    <3>2. grounds' = grounds
          \/ grounds' = [grounds EXCEPT !["accepted"] = Approvers(x, "accepted")]
      BY <1>4, <3>1
    <3>3. QED
      BY <1>6, <3>1, <3>2
  <2>2. CASE /\ e.start = "proposed" /\ e.end = "vetted"
             /\ "ccb" \in e.checks /\ ~ e.clears
    <3>1. s = "vetted" /\ ticket.status = "proposed" /\ Passes(t, "ccb", s)
      BY <1>2, <1>4, <2>2
    <3>2. grounds' = [grounds EXCEPT !["vetted"] = Approvers(x, "vetted")]
      BY <1>4, <3>1
    <3>3. Approvers(x, "vetted") # {}
      BY <1>5, <2>2, <3>1
    <3>4. QED
      BY <1>6, <3>2, <3>3
  <2>3. QED
    BY <1>2, <2>1, <2>2, EngWork
<1>8. s \in {"accepted", "merged"} => grounds'["accepted"] # {}
  <2>1. CASE s \in {"accepted", "merged"} /\ e.start \in {"accepted", "merged"}
    <3>1. /\ ticket.status \in {"accepted", "merged"}
          /\ s # "proposed" /\ s # "vetted" /\ ticket.status # "reviewed"
      BY <1>2, <1>4, <2>1
    <3>2. CASE s = ticket.status
      BY <1>4, <1>6, <3>1, <3>2
    <3>3. CASE s # ticket.status
      <4>1. /\ ~ (s = "vetted" /\ ticket.status = "proposed")
            /\ ~ (s = "accepted" /\ ticket.status = "reviewed")
        BY <3>1
      <4>2. grounds' = grounds
        BY <1>4, <3>1, <3>3, <4>1
      <4>3. QED
        BY <1>6, <3>1, <4>2
    <3>4. QED
      BY <3>2, <3>3
  <2>2. CASE /\ e.start = "reviewed" /\ e.end = "accepted"
             /\ "allCcb" \in e.checks /\ ~ e.clears
    <3>1. s = "accepted" /\ ticket.status = "reviewed" /\ Passes(t, "allCcb", s)
      BY <1>2, <1>4, <2>2
    <3>2. grounds' = [grounds EXCEPT !["accepted"] = Approvers(x, "accepted")]
      BY <1>4, <3>1
    <3>3. Approvers(x, "accepted") # {}
      BY <1>5, <2>2, <3>1
    <3>4. QED
      BY <1>6, <3>2, <3>3
  <2>3. QED
    BY <1>2, <2>1, <2>2, EngWork
<1>9. QED
  BY <1>3, <1>4, <1>7, <1>8 DEF WorkApproved

LEMMA WorkStep ==
    ASSUME TypeOK, HasOneWorkflow, WorkApproved, [Next]_vars
    PROVE  WorkApproved'
<1>1. CASE UNCHANGED <<ticket, grounds, muddled>>
  BY <1>1 DEF WorkApproved, HasWorkflow
<1>2. ASSUME NEW t, SameStatus(t), Record(t), ~ muddled' => ~ muddled
      PROVE  WorkApproved'
  <2>1. ticket'.status = ticket.status /\ ticket'.workflows = ticket.workflows
    BY <1>2 DEF SameStatus, Record
  <2>2. grounds' = grounds
    BY <1>2 DEF SameStatus, Record
  <2>3. QED
    BY <1>2, <2>1, <2>2 DEF WorkApproved, HasWorkflow
<1>3. ASSUME NEW t, Record(t), Replaces(t)
      PROVE  WorkApproved'
  <2>1. ticket'.status = "proposed"
    BY <1>3 DEF Replaces, Record
  <2>2. QED
    BY <2>1 DEF WorkApproved, Worked
<1>4. ASSUME NEW t \in Snapshots, NEW s \in Statuses, SameStatus(t),
             ValidTransitions(t, s) # {}, Record(AfterSetStatus(t, s)),
             UNCHANGED muddled
      PROVE  WorkApproved'
  <2>1. CASE HasWorkflow("eng") /\ ~ muddled
    BY <1>4, <2>1, MoveApproved
  <2>2. CASE ~ HasWorkflow("eng") \/ muddled
    <3>1. ticket'.workflows = ticket.workflows
      BY <1>4, AfterSetStatusType DEF SameStatus, Record
    <3>2. QED
      BY <1>4, <2>2, <3>1 DEF WorkApproved, HasWorkflow
  <2>3. QED
    BY <2>1, <2>2
<1>5. ASSUME NEW t \in Snapshots, Record(t),
             ~ muddled' => (SameStatus(t) /\ ~ muddled) \/ Replaces(t)
      PROVE  WorkApproved'
  <2>1. CASE muddled'
    BY <2>1 DEF WorkApproved
  <2>2. CASE ~ muddled'
    BY <1>2, <1>3, <1>5, <2>2
  <2>3. QED
    BY <2>1, <2>2
<1>6. QED
  BY <1>1, <1>2, <1>4, <1>5, TicketStep

(* A ticket of the eng workflow that is worked on has been vetted since it *)
(* was last proposed, and one that is accepted or merged has been accepted *)
(* by the CCB, whichever commands, failures, lists of labels and workflows *)
(* led there, unless the last change of its workflow muddled its labels.   *)
THEOREM ApprovalCorrect == Spec => []WorkIsApproved
<1> DEFINE Inv == TypeOK /\ HasOneWorkflow /\ WorkApproved
<1>1. Init => Inv
  <2>1. Init => WorkApproved
    BY DEF Init, WorkApproved, InitialStatus, Worked
  <2>2. QED
    BY <2>1, TypeInit, OneWorkflowInit
<1>2. Inv /\ [Next]_vars => Inv'
  BY TypeStep, OneWorkflowStep, WorkStep
<1>3. Inv => WorkIsApproved
  <2> SUFFICES ASSUME HasOneWorkflow, WorkApproved, FindWorkflow(ticket) = "eng",
                      ~ muddled
               PROVE  WorkIsApproved
    BY DEF WorkIsApproved
  <2>1. PICK w \in ToSet(WorkflowLabels) : ticket.workflows = {w}
    BY DEF HasOneWorkflow, HasWorkflow
  <2>2. FindWorkflow(ticket) \in {w}
    BY <2>1, WorkflowFound
  <2>3. HasWorkflow("eng")
    BY <2>1, <2>2 DEF HasWorkflow
  <2>4. QED
    BY <2>3 DEF WorkApproved, WorkIsApproved, Worked
<1> HIDE DEF Inv
<1>4. QED
  BY <1>1, <1>2, <1>3, PTL DEF Spec
=============================================================================
