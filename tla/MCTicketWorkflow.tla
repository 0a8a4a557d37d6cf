-------------------------- MODULE MCTicketWorkflow --------------------------
(* Instances of TicketWorkflow for TLC. *)
EXTENDS TicketWorkflow

(* Lists of labels; "bogus" is a workflow that does not exist.  They take  *)
(* a ticket from each workflow to eng alone, to eng besides it, to eng and *)
(* qa at once, and from eng to qa.                                         *)
LabelLists ==
    {<<"review">>, <<"bogus", "eng">>, <<"eng", "bogus">>, <<"qa", "eng">>}
=============================================================================
