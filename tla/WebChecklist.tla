---------------------------- MODULE WebChecklist ----------------------------
(***************************************************************************)
(* The checklist page of the web interface: webui/static/src/js/           *)
(* checklist.js, filled by handleChecklist (webui/webui.go) and            *)
(* templates/checklist.html.  The page has a tab for every reviewer and    *)
(* shows the checklist of one of them; while the mouse is over the badge   *)
(* of a question, an alert shows the reviewer's comment on it.             *)
(*                                                                         *)
(* The alert lies over the page (styles/checklist.css: position absolute,  *)
(* z-index 1) and may come to lie over the badge it belongs to: the mouse  *)
(* is then over the alert, and the browser says that it left the badge.    *)
(***************************************************************************)
EXTENDS Naturals, FiniteSets

CONSTANTS
    Reviewer,   \* those who filled the checklist, sorted by identity
    First,      \* the first of them
    Question,   \* the badges of one checklist
    Covered,    \* those that lie where the alert appears
    Comment,    \* what reviewers say
    None        \* no comment, no badge, no alert

ASSUME FirstAssumption == First \in Reviewer
ASSUME CoveredAssumption == Covered \subseteq Question
ASSUME NoneAssumption == None \notin Comment \cup Question

VARIABLES
    answers,  \* answers[v][q]: the comment of v on q in the ticket
    page,     \* page[v][q]: the comment in the page, from when it was made
    mouse,    \* the badge the mouse is on, whatever lies over it
    over,     \* the badge the browser has reported the mouse to be over
    alert     \* what the alert shows

vars == <<answers, page, mouse, over, alert>>

Text == Comment \cup {None}

NoAnswers == [v \in Reviewer |-> [q \in Question |-> None]]

Init ==
    /\ answers = NoAnswers /\ page = NoAnswers
    /\ mouse = None /\ over = None /\ alert = None

(* selectReviewer would show the checklist of a tab, but it is local to    *)
(* the load handler and the tabs call a global function of that name: a    *)
(* click changes nothing, and the first checklist is the one shown.        *)
Shown == page[First]

(* The badge that is under the mouse and under nothing else. *)
Top == IF alert # None /\ mouse \in Covered THEN None ELSE mouse

-----------------------------------------------------------------------------
(* A reviewer answers, in another place. *)
Review(v, q, text) ==
    /\ answers' = [answers EXCEPT ![v][q] = text]
    /\ UNCHANGED <<page, mouse, over, alert>>

(* The page is loaded, or loaded again, wherever the mouse is. *)
Load ==
    /\ page' = answers
    /\ over' = None /\ alert' = None
    /\ UNCHANGED <<answers, mouse>>

(* The user moves the mouse to a badge, or away. *)
Move(q) ==
    /\ mouse' = q
    /\ UNCHANGED <<answers, page, over, alert>>

(* mouseenter: an empty comment is not shown. *)
MouseEnter ==
    /\ over = None /\ Top # None
    /\ over' = Top
    /\ alert' = IF Shown[Top] # None THEN Shown[Top] ELSE alert
    /\ UNCHANGED <<answers, page, mouse>>

(* Fault: the alert stays until another one takes its place. *)
MouseLeaveShown ==
    /\ over # None /\ Top # over
    /\ over' = None
    /\ UNCHANGED <<answers, page, mouse, alert>>

(* mouseleave hides the alert.  The browser reports it before mouseenter   *)
(* of the next badge.                                                      *)
MouseLeave ==
    /\ over # None /\ Top # over
    /\ over' = None
    /\ alert' = None
    /\ UNCHANGED <<answers, page, mouse>>

Browser == MouseEnter \/ MouseLeave

Next ==
    \/ \E v \in Reviewer, q \in Question, text \in Text : Review(v, q, text)
    \/ Load
    \/ \E q \in Question \cup {None} : Move(q)
    \/ Browser

Spec == Init /\ [][Next]_vars

(* The browser reports where the mouse is. *)
FairSpec == Spec /\ WF_vars(Browser)

-----------------------------------------------------------------------------
At(q) == mouse = q

(* Nobody loads the page and the mouse stays on q. *)
Resting(q) == <>[]At(q) /\ <>[][~ Load]_vars

(* When the mouse comes to rest on a badge the alert comes to rest too: it *)
(* shows the comment on that question, or nothing if there is none, unless *)
(* the alert would lie over the badge.                                     *)
AlertSettles ==
    \A q \in Question \ Covered : Resting(q) => <>[](alert = Shown[q])

(* The same of the badges the alert does lie over.  Those that have a      *)
(* comment make the alert appear and disappear for ever.                   *)
AlertSettlesEverywhere ==
    \A q \in Question : Resting(q) => <>[](alert = Shown[q])
=============================================================================
