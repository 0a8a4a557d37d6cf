---------------------------- MODULE MCRepoCache ----------------------------
(* RepoCache for TLC: two tickets, of which one may be loaded.  Nothing in *)
(* the module tells one ticket from the other.                             *)
EXTENDS RepoCache, TLC

Interchangeable == Permutations(Tickets)
=============================================================================
