---------------------------- MODULE MCTicketSync ----------------------------
(* Instances of TicketSync for TLC. *)
EXTENDS TicketSync, TLC

(* Clones and tickets are interchangeable: nothing orders them.            *)
Symmetry == Permutations(Replicas) \cup Permutations(Tickets)

(* A fragment of the eng workflow (bug/workflow.go): forward and back, so  *)
(* that two concurrent changes would make an illegal path.                 *)
EngFragment == {<<"proposed", "vetted">>, <<"vetted", "proposed">>}
=============================================================================
