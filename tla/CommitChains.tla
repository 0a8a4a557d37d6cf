---------------------------- MODULE CommitChains ----------------------------
(***************************************************************************)
(* Commit chains of git-ticket.  A ticket is stored as a git ref that      *)
(* points to a linear chain of commits, one commit per OperationPack.  The *)
(* hash of a commit covers its tree and all its ancestors, so a chain is   *)
(* modelled as the sequence of its commits and "the hash of the i-th       *)
(* commit" is the prefix of length i: two refs hold the same i-th commit   *)
(* exactly when their first i elements agree.  Ancestry is the prefix      *)
(* order and a fast-forward is an extension.                               *)
(*                                                                         *)
(* A commit is a record                                                    *)
(*    pack : the tree it references (operations, media, clock entries)     *)
(*    by   : the replica that stored the commit (author and committer)     *)
(* Rebasing a commit keeps the tree and makes a new commit of it.          *)
(***************************************************************************)
EXTENDS Integers, Sequences, SequencesExt

(* The trees referenced by a chain. *)
PackIds(chain) == {chain[i].pack : i \in DOMAIN chain}

(* Bug.Validate: no two operations of a ticket have the same id.  The ids  *)
(* are hashes of the operations, so a tree that occurs twice collides.     *)
Valid(chain) ==
    \A i, j \in DOMAIN chain : chain[i].pack = chain[j].pack => i = j

(* git merge-base of two tips: the number of commits the chains share.     *)
CommonAncestor(a, b) ==
    CHOOSE k \in 0 .. Len(a) :
        /\ k <= Len(b)
        /\ \A i \in 1 .. k : a[i] = b[i]
        /\ k < Len(a) /\ k < Len(b) => a[k + 1] # b[k + 1]

(* The commits of a chain after its first k commits. *)
Extra(chain, k) == SubSeq(chain, k + 1, Len(chain))

(* Fault: the commits are stored again in the order git lists them.        *)
RecommitNewestFirst(chain, r) ==
    [i \in DOMAIN chain |-> [pack |-> chain[Len(chain) + 1 - i].pack, by |-> r]]

(* Fault: the commits are stored again without author and committer.       *)
RecommitUnsigned(chain, r) ==
    [i \in DOMAIN chain |-> [pack |-> chain[i].pack, by |-> "nobody"]]

(* Stores every commit of chain again, on another parent, as replica r:    *)
(* the tree hash is read back from the old commit and reused.              *)
Recommit(chain, r) ==
    [i \in DOMAIN chain |-> [pack |-> chain[i].pack, by |-> r]]

(* Fault: the ancestor is not looked for, all our commits are stored again.*)
RebaseAll(ours, theirs, r) == theirs \o Recommit(ours, r)

(* Fault: the first commit after the ancestor is taken for the ancestor.   *)
RebaseOneLess(ours, theirs, r) ==
    theirs \o Recommit(Extra(ours, CommonAncestor(ours, theirs) + 1), r)

(* Fault: their commits are stored again on ours. *)
RebaseTheirs(ours, theirs, r) ==
    ours \o Recommit(Extra(theirs, CommonAncestor(ours, theirs)), r)

(* Bug.Merge, the new chain: the other side as it is, then our commits     *)
(* that come after the common ancestor, stored again by replica r.         *)
Rebase(ours, theirs, r) ==
    theirs \o Recommit(Extra(ours, CommonAncestor(ours, theirs)), r)

(* repository.CommitsBetween(exclude, main) = nil: main adds nothing.      *)
NothingBetween(exclude, main) == IsPrefix(main, exclude)
=============================================================================
