------------------------- MODULE CommitChainsProofs -------------------------
(***************************************************************************)
(* Lemmas that the proofs about the other modules cite: about numbers and  *)
(* maxima, and about commit chains, for every set of commits: what the     *)
(* common ancestor of two chains is, what a prefix is, what Rebase makes   *)
(* of two chains.  The least-number principle is what replaces induction.  *)
(***************************************************************************)
EXTENDS CommitChains, FiniteSetsExt, SequenceTheorems, WellFoundedInduction,
        TLAPS

-----------------------------------------------------------------------------
(* Numbers *)

(* The least-number principle, for a set: it stands for an induction.      *)
LEMMA NatMin ==
    ASSUME NEW T, T \subseteq Nat, T # {}
    PROVE  \E x \in T : \A y \in T : x <= y
<1> DEFINE R == {p \in Nat \X Nat : p[1] < p[2]}
<1>1. IsWellFoundedOn(R, Nat)
  BY NatLessThanWellFounded DEF OpToRel
<1>2. \E x \in T : \A y \in T : <<y, x>> \notin R
  <2> HIDE DEF R
  <2> QED BY <1>1, WFMin
<1>3. \A x, y \in T : <<y, x>> \notin R => x <= y
  OBVIOUS
<1>4. QED
  BY <1>2, <1>3

(* A finite sequence of numbers is bounded. *)
LEMMA BoundedValues ==
    ASSUME NEW n \in Nat, NEW f, \A i \in 1 .. n : f[i] \in Nat
    PROVE  \E b \in Nat : \A i \in 1 .. n : f[i] <= b
<1> DEFINE Good(m) == \E b \in Nat : \A i \in 1 .. m : f[i] <= b
           T == {m \in 0 .. n : ~ Good(m)}
<1>1. SUFFICES ASSUME T # {} PROVE FALSE
  <2>1. T = {} => Good(n)
    OBVIOUS
  <2>2. QED
    BY <1>1, <2>1
<1>2. PICK x \in T : \A y \in T : x <= y
  <2>1. T \subseteq Nat
    OBVIOUS
  <2> HIDE DEF T
  <2>2. QED
    BY <1>1, <2>1, NatMin
<1>3. x # 0
  <2>1. Good(0)
    OBVIOUS
  <2>2. QED
    BY <2>1
<1>4. x \in 1 .. n /\ x - 1 \in 0 .. n /\ x - 1 \notin T
  <2>1. x - 1 \notin T
    <3>1. ~ (x <= x - 1)
      OBVIOUS
    <3> HIDE DEF T
    <3>2. QED
      BY <1>2, <3>1
  <2>2. x \in 1 .. n /\ x - 1 \in 0 .. n
    BY <1>3
  <2>3. QED
    BY <2>1, <2>2
<1>5. PICK b \in Nat : \A i \in 1 .. x - 1 : f[i] <= b
  BY <1>4
<1>6. b + f[x] \in Nat /\ \A i \in 1 .. x : f[i] <= b + f[x]
  <2>1. f[x] \in Nat
    BY <1>4
  <2>2. ASSUME NEW i \in 1 .. x
        PROVE  f[i] <= b + f[x]
    <3>1. CASE i = x
      BY <2>1, <3>1
    <3>2. CASE i # x
      <4>1. i \in 1 .. x - 1 /\ i \in 1 .. n
        BY <1>4, <3>2
      <4>2. f[i] <= b /\ f[i] \in Nat
        BY <1>5, <4>1
      <4>3. QED
        BY <2>1, <4>2
    <3>3. QED
      BY <3>1, <3>2
  <2>3. QED
    BY <2>1, <2>2
<1>7. Good(x)
  BY <1>6
<1>8. QED
  BY <1>7

(* The maximum of a bounded set of numbers. *)
LEMMA MaxProperties ==
    ASSUME NEW S, S \subseteq Nat, S # {},
           NEW b \in Nat, \A s \in S : s <= b
    PROVE  Max(S) \in S /\ \A s \in S : s <= Max(S)
<1> DEFINE T == {b - s : s \in S}
<1>1. T \subseteq Nat /\ T # {}
  OBVIOUS
<1>2. PICK x \in T : \A y \in T : x <= y
  <2> HIDE DEF T
  <2> QED BY <1>1, NatMin
<1>3. PICK s \in S : x = b - s
  BY <1>2
<1>4. \A y \in S : s >= y
  BY <1>2, <1>3
<1>5. \E z \in S : \A y \in S : z >= y
  BY <1>4
<1>6. QED
  BY <1>5 DEF Max

(* A clock that has witnessed some stamps is past all of them. *)
LEMMA WitnessedMax ==
    ASSUME NEW n \in Nat, NEW f, \A i \in 1 .. n : f[i] \in Nat,
           NEW P, P \subseteq 1 .. n, NEW c \in Nat,
           NEW M, M = Max({c} \cup {f[p] + 1 : p \in P})
    PROVE  M \in Nat /\ c <= M /\ \A p \in P : f[p] < M
<1> DEFINE S == {c} \cup {f[p] + 1 : p \in P}
<1>1. PICK b \in Nat : \A i \in 1 .. n : f[i] <= b
  BY BoundedValues
<1>2. S \subseteq Nat /\ S # {} /\ c \in S /\ \A p \in P : f[p] + 1 \in S
  OBVIOUS
<1>3. c + b + 1 \in Nat /\ \A s \in S : s <= c + b + 1
  BY <1>1
<1>4. M \in S /\ \A s \in S : s <= M
  <2> HIDE DEF S
  <2>1. Max(S) \in S /\ \A s \in S : s <= Max(S)
    BY <1>2, <1>3, MaxProperties
  <2>2. QED
    BY <2>1 DEF S
<1>5. c <= M /\ \A p \in P : f[p] + 1 <= M
  BY <1>2, <1>4
<1>6. QED
  <2> HIDE DEF S
  <2>1. \A p \in P : f[p] \in Nat
    OBVIOUS
  <2>2. M \in Nat
    BY <1>2, <1>4
  <2>3. QED
    BY <1>5, <2>1, <2>2

-----------------------------------------------------------------------------
(* Chains *)

(* Prefixes, element by element. *)
LEMMA PrefixElements ==
    ASSUME NEW S, NEW a \in Seq(S), NEW b \in Seq(S)
    PROVE  IsPrefix(a, b) <=>
             Len(a) <= Len(b) /\ \A i \in 1 .. Len(a) : a[i] = b[i]
<1>1. ASSUME Len(a) <= Len(b)
      PROVE  SubSeq(a, 1, Len(a)) = SubSeq(b, 1, Len(a)) <=>
               \A i \in 1 .. Len(a) : a[i] = b[i]
  <2>1. SubSeq(a, 1, Len(a)) = [i \in 1 .. Len(a) |-> a[i]]
    OBVIOUS
  <2>2. SubSeq(b, 1, Len(a)) = [i \in 1 .. Len(a) |-> b[i]]
    BY <1>1
  <2>3. QED
    BY <2>1, <2>2
<1>2. QED
  BY <1>1 DEF IsPrefix

LEMMA PrefixReflexive ==
    ASSUME NEW S, NEW a \in Seq(S)
    PROVE  IsPrefix(a, a)
BY PrefixElements

LEMMA EmptyPrefix ==
    ASSUME NEW S, NEW a \in Seq(S)
    PROVE  IsPrefix(<< >>, a)
<1>1. ASSUME NEW e \in Seq(S), Len(e) = 0
      PROVE  IsPrefix(e, a)
  <2>1. Len(e) <= Len(a) /\ \A i \in 1 .. Len(e) : e[i] = a[i]
    BY <1>1
  <2>2. QED
    BY <2>1, PrefixElements
<1>2. << >> \in Seq(S) /\ Len(<< >>) = 0
  OBVIOUS
<1>3. QED
  BY <1>1, <1>2, Zenon

(* A commit on top extends the chain. *)
LEMMA AppendPrefix ==
    ASSUME NEW S, NEW a \in Seq(S), NEW c \in S
    PROVE  IsPrefix(a, Append(a, c))
<1>1. PICK b : b = Append(a, c)
  OBVIOUS
<1>2. /\ b \in Seq(S) /\ Len(a) <= Len(b)
      /\ \A i \in 1 .. Len(a) : a[i] = b[i]
  BY <1>1
<1>3. IsPrefix(a, b)
  BY <1>2, PrefixElements
<1>4. QED
  BY <1>1, <1>3

LEMMA PrefixTransitive ==
    ASSUME NEW S, NEW a \in Seq(S), NEW b \in Seq(S), NEW c \in Seq(S),
           IsPrefix(a, b), IsPrefix(b, c)
    PROVE  IsPrefix(a, c)
<1>1. Len(a) <= Len(b) /\ \A i \in 1 .. Len(a) : a[i] = b[i]
  BY PrefixElements
<1>2. Len(b) <= Len(c) /\ \A i \in 1 .. Len(b) : b[i] = c[i]
  BY PrefixElements
<1>3. Len(a) <= Len(c) /\ \A i \in 1 .. Len(a) : a[i] = c[i]
  BY <1>1, <1>2
<1>4. QED
  BY <1>3, PrefixElements

(* The common ancestor exists: it is the first place where the chains end  *)
(* or differ.                                                              *)
LEMMA CommonAncestorProperties ==
    ASSUME NEW S, NEW a \in Seq(S), NEW b \in Seq(S)
    PROVE  LET k == CommonAncestor(a, b)
           IN  /\ k \in 0 .. Len(a)
               /\ k <= Len(b)
               /\ \A i \in 1 .. k : a[i] = b[i]
               /\ k < Len(a) /\ k < Len(b) => a[k + 1] # b[k + 1]
<1> DEFINE T == {j \in 0 .. Len(a) :
                   j = Len(a) \/ j >= Len(b) \/ a[j + 1] # b[j + 1]}
<1>1. T \subseteq Nat /\ Len(a) \in T
  OBVIOUS
<1>2. PICK x \in T : \A y \in T : x <= y
  <2> HIDE DEF T
  <2> QED BY <1>1, NatMin
<1>3. x \in 0 .. Len(a) /\ (x < Len(a) /\ x < Len(b) => a[x + 1] # b[x + 1])
  OBVIOUS
<1>4. x <= Len(b)
  <2>1. x > Len(b) => Len(b) \in T
    OBVIOUS
  <2>2. QED
    BY <1>2, <1>3, <2>1
<1>5. ASSUME NEW i \in 1 .. x
      PROVE  a[i] = b[i]
  <2>1. i - 1 \notin T
    <3>1. ~ (x <= i - 1)
      BY <1>3
    <3> HIDE DEF T
    <3>2. QED
      BY <1>2, <3>1
  <2>2. i - 1 \in 0 .. Len(a) /\ (i - 1) + 1 = i
    BY <1>3
  <2>3. QED
    BY <2>1, <2>2, <1>4
<1>6. QED
  BY <1>3, <1>4, <1>5 DEF CommonAncestor

(* The commits after position k, one by one. *)
LEMMA ExtraProperties ==
    ASSUME NEW S, NEW a \in Seq(S), NEW k \in 0 .. Len(a)
    PROVE  /\ Extra(a, k) \in Seq(S)
           /\ Len(Extra(a, k)) = Len(a) - k
           /\ \A j \in 1 .. Len(a) - k : Extra(a, k)[j] = a[j + k]
<1>1. \A i \in k + 1 .. Len(a) : a[i] \in S
  OBVIOUS
<1>2. /\ SubSeq(a, k + 1, Len(a)) \in Seq(S)
      /\ Len(SubSeq(a, k + 1, Len(a))) =
           IF k + 1 <= Len(a) THEN Len(a) - (k + 1) + 1 ELSE 0
      /\ \A j \in 1 .. Len(a) - (k + 1) + 1 :
           SubSeq(a, k + 1, Len(a))[j] = a[(k + 1) + j - 1]
  BY <1>1, SubSeqProperties
<1>3. QED
  BY <1>2 DEF Extra

(* Storing a chain again changes who stored it, and nothing else.  C is    *)
(* any set that has, with a commit, the same commit stored by r.           *)
Recommits(C, r) == \A c \in C : [pack |-> c.pack, by |-> r] \in C

LEMMA CommitsRecommit ==
    ASSUME NEW P, NEW R, NEW r \in R
    PROVE  Recommits([pack : P, by : R], r)
BY DEF Recommits

LEMMA RecommitProperties ==
    ASSUME NEW C, NEW r, Recommits(C, r), NEW a \in Seq(C)
    PROVE  /\ Recommit(a, r) \in Seq(C)
           /\ Len(Recommit(a, r)) = Len(a)
           /\ \A j \in 1 .. Len(a) : Recommit(a, r)[j].pack = a[j].pack
<1>1. \A j \in 1 .. Len(a) : [pack |-> a[j].pack, by |-> r] \in C
  BY DEF Recommits
<1>2. Recommit(a, r) = [j \in 1 .. Len(a) |-> [pack |-> a[j].pack, by |-> r]]
  BY DEF Recommit
<1>3. QED
  BY <1>1, <1>2

LEMMA ConcatElements ==
    ASSUME NEW S, NEW a \in Seq(S), NEW b \in Seq(S)
    PROVE  /\ a \o b \in Seq(S)
           /\ Len(a \o b) = Len(a) + Len(b)
           /\ \A i \in 1 .. Len(a) + Len(b) : (a \o b)[i] =
                IF i <= Len(a) THEN a[i] ELSE b[i - Len(a)]
BY ConcatProperties

(* What Rebase returns: the other side unchanged, followed by the trees of *)
(* our commits after the common ancestor, in their order.                  *)
LEMMA RebaseProperties ==
    ASSUME NEW C, NEW r, Recommits(C, r),
           NEW ours \in Seq(C), NEW theirs \in Seq(C),
           NEW k, k = CommonAncestor(ours, theirs),
           NEW new, new = Rebase(ours, theirs, r)
    PROVE  /\ new \in Seq(C)
           /\ Len(new) = Len(theirs) + (Len(ours) - k)
           /\ \A i \in 1 .. Len(theirs) : new[i] = theirs[i]
           /\ \A i \in Len(theirs) + 1 .. Len(new) :
                 new[i].pack = ours[i - Len(theirs) + k].pack
<1>1. k \in 0 .. Len(ours)
  BY CommonAncestorProperties
<1>2. PICK ext : ext = Extra(ours, k)
  OBVIOUS
<1>3. /\ ext \in Seq(C)
      /\ Len(ext) = Len(ours) - k
      /\ \A j \in 1 .. Len(ours) - k : ext[j] = ours[j + k]
  BY <1>1, <1>2, ExtraProperties
<1>4. PICK rec : rec = Recommit(ext, r)
  OBVIOUS
<1>5. /\ rec \in Seq(C)
      /\ Len(rec) = Len(ext)
      /\ \A j \in 1 .. Len(ext) : rec[j].pack = ext[j].pack
  BY <1>3, <1>4, RecommitProperties
<1>6. new = theirs \o rec
  BY <1>2, <1>4 DEF Rebase
<1>7. /\ theirs \o rec \in Seq(C)
      /\ Len(theirs \o rec) = Len(theirs) + Len(rec)
      /\ \A i \in 1 .. Len(theirs) + Len(rec) : (theirs \o rec)[i] =
           IF i <= Len(theirs) THEN theirs[i] ELSE rec[i - Len(theirs)]
  <2>1. rec \in Seq(C)
    BY <1>5
  <2>2. QED
    BY <2>1, ConcatElements
<1>8. Len(theirs) \in Nat /\ Len(ours) \in Nat /\ k \in Nat
  BY <1>1
<1>9. ASSUME NEW i \in Len(theirs) + 1 .. Len(new)
      PROVE  new[i].pack = ours[i - Len(theirs) + k].pack
  <2>1. /\ i \in 1 .. Len(theirs) + Len(rec)
        /\ ~ (i <= Len(theirs))
        /\ i - Len(theirs) \in 1 .. Len(ours) - k
    BY <1>3, <1>5, <1>6, <1>7, <1>8
  <2>2. new[i] = rec[i - Len(theirs)]
    BY <2>1, <1>6, <1>7
  <2>3. QED
    BY <2>1, <2>2, <1>3, <1>5
<1>10. QED
  BY <1>3, <1>5, <1>6, <1>7, <1>8, <1>9

(* A rebase holds the trees of both sides, and no others. *)
LEMMA RebasePackIds ==
    ASSUME NEW C, NEW r, Recommits(C, r),
           NEW ours \in Seq(C), NEW theirs \in Seq(C)
    PROVE  /\ Rebase(ours, theirs, r) \in Seq(C)
           /\ PackIds(Rebase(ours, theirs, r)) =
                PackIds(ours) \cup PackIds(theirs)
<1> DEFINE k == CommonAncestor(ours, theirs)
           new == Rebase(ours, theirs, r)
<1>1. /\ new \in Seq(C)
      /\ Len(new) = Len(theirs) + (Len(ours) - k)
      /\ \A i \in 1 .. Len(theirs) : new[i] = theirs[i]
      /\ \A i \in Len(theirs) + 1 .. Len(new) :
            new[i].pack = ours[i - Len(theirs) + k].pack
  BY RebaseProperties
<1>2. /\ k \in 0 .. Len(ours)
      /\ k <= Len(theirs)
      /\ \A i \in 1 .. k : ours[i] = theirs[i]
  BY CommonAncestorProperties
<1>3. /\ DOMAIN ours = 1 .. Len(ours) /\ Len(ours) \in Nat
      /\ DOMAIN theirs = 1 .. Len(theirs) /\ Len(theirs) \in Nat
      /\ DOMAIN new = 1 .. Len(new) /\ Len(new) \in Nat
  BY <1>1
<1> HIDE DEF k, new
<1>4. ASSUME NEW i \in 1 .. Len(new)
      PROVE  new[i].pack \in PackIds(ours) \cup PackIds(theirs)
  <2>1. CASE i <= Len(theirs)
    BY <1>1, <1>3, <2>1 DEF PackIds
  <2>2. CASE i > Len(theirs)
    <3>1. i - Len(theirs) + k \in 1 .. Len(ours)
      BY <1>1, <1>2, <1>3, <2>2
    <3>2. new[i].pack = ours[i - Len(theirs) + k].pack
      BY <1>1, <1>3, <2>2
    <3>3. QED
      BY <1>3, <3>1, <3>2 DEF PackIds
  <2>3. QED
    BY <1>3, <2>1, <2>2
<1>5. ASSUME NEW i \in 1 .. Len(theirs)
      PROVE  theirs[i].pack \in PackIds(new)
  <2>1. i \in 1 .. Len(new)
    BY <1>1, <1>2, <1>3
  <2>2. QED
    BY <1>1, <1>3, <2>1 DEF PackIds
<1>6. ASSUME NEW i \in 1 .. Len(ours)
      PROVE  ours[i].pack \in PackIds(new)
  <2>1. CASE i <= k
    <3>1. i \in 1 .. Len(theirs) /\ ours[i] = theirs[i]
      BY <1>2, <1>3, <2>1
    <3>2. QED
      BY <1>5, <3>1
  <2>2. CASE i > k
    <3>1. PICK j : j = i + Len(theirs) - k
      OBVIOUS
    <3>2. /\ j \in Len(theirs) + 1 .. Len(new)
          /\ j \in 1 .. Len(new)
          /\ j - Len(theirs) + k = i
      BY <1>1, <1>2, <1>3, <2>2, <3>1
    <3>3. new[j].pack = ours[i].pack
      BY <1>1, <3>2
    <3>4. QED
      BY <1>3, <3>2, <3>3 DEF PackIds
  <2>3. QED
    BY <1>2, <1>3, <2>1, <2>2
<1>7. PackIds(new) = PackIds(ours) \cup PackIds(theirs)
  <2>1. PackIds(new) \subseteq PackIds(ours) \cup PackIds(theirs)
    BY <1>3, <1>4 DEF PackIds
  <2>2. PackIds(theirs) \subseteq PackIds(new)
    BY <1>3, <1>5 DEF PackIds
  <2>3. PackIds(ours) \subseteq PackIds(new)
    BY <1>3, <1>6 DEF PackIds
  <2>4. QED
    BY <2>1, <2>2, <2>3
<1>8. QED
  BY <1>1, <1>7 DEF new

(* A commit on top of a chain adds its tree. *)
LEMMA AppendPackId ==
    ASSUME NEW C, NEW chain \in Seq(C), NEW c \in C
    PROVE  PackIds(Append(chain, c)) = PackIds(chain) \cup {c.pack}
<1>1. DOMAIN chain = 1 .. Len(chain) /\ Len(chain) \in Nat
  OBVIOUS
<1>2. /\ DOMAIN Append(chain, c) = 1 .. Len(chain) + 1
      /\ \A i \in 1 .. Len(chain) : Append(chain, c)[i] = chain[i]
      /\ Append(chain, c)[Len(chain) + 1] = c
  OBVIOUS
<1>3. \A i \in 1 .. Len(chain) + 1 : i \in 1 .. Len(chain) \/ i = Len(chain) + 1
  BY <1>1
<1>4. Len(chain) + 1 \in 1 .. Len(chain) + 1
        /\ \A i \in 1 .. Len(chain) : i \in 1 .. Len(chain) + 1
  BY <1>1
<1>5. QED
  BY <1>1, <1>2, <1>3, <1>4 DEF PackIds
=============================================================================
