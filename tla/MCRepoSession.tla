---------------------------- MODULE MCRepoSession ----------------------------
(***************************************************************************)
(* RepoSession on a small instance: three commands, or a command and two   *)
(* requests of one server.                                                 *)
(***************************************************************************)
EXTENDS RepoSession, TLC

CONSTANTS c1, c2, c3, r1, r2, p1, p2, p3, srv

OneCommandEach == (c1 :> p1) @@ (c2 :> p2) @@ (c3 :> p3)
CommandAndRequests == (c1 :> p1) @@ (r1 :> srv) @@ (r2 :> srv)

(* The requests of one server are interchangeable.                         *)
Symmetry == Permutations({r1, r2})

NewOrCopied == {<< >>, <<1, 3>>}
=============================================================================
