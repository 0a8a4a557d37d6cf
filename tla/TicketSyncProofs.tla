-------------------------- MODULE TicketSyncProofs --------------------------
(***************************************************************************)
(* Proofs about TicketSync, for every set of replicas, remotes, tickets    *)
(* and statuses, for every workflow and without a bound on what is         *)
(* committed beyond MaxPacks and MaxChain, which are arbitrary:            *)
(*   - types, and the tracking refs, which stand for commits of the server;*)
(*   - the history published for a ticket only grows, the tracking refs    *)
(*     are cuts of it, and a pull loses nothing;                           *)
(*   - what a ticket says is right in every clone: its operations come in  *)
(*     causal order, their Lamport times respect that order, its status    *)
(*     follows the workflow, and no operation is stored twice;             *)
(*   - the refs change as PublishedHistory and CloneRefs say.              *)
(***************************************************************************)
EXTENDS TicketSync, CommitChainsProofs

-----------------------------------------------------------------------------
(* Tables of refs *)

(* Writing one ref of a table of refs. *)
LEMMA SetRef ==
    ASSUME NEW A, NEW B, NEW V, NEW f \in [A -> [B -> V]],
           NEW a \in A, NEW b \in B, NEW x \in V,
           NEW g, g = [f EXCEPT ![a][b] = x]
    PROVE  /\ g \in [A -> [B -> V]]
           /\ \A p \in A, q \in B :
                 g[p][q] = IF p = a /\ q = b THEN x ELSE f[p][q]
OBVIOUS

(* Writing one row of a table of refs. *)
LEMMA SetRow ==
    ASSUME NEW A, NEW V, NEW f \in [A -> V], NEW a \in A, NEW x \in V,
           NEW g, g = [f EXCEPT ![a] = x]
    PROVE  g \in [A -> V] /\ \A p \in A : g[p] = IF p = a THEN x ELSE f[p]
OBVIOUS

(* The chains of commits over P, stored by R. *)
LEMMA ChainCommits ==
    ASSUME NEW r \in Replicas
    PROVE  Recommits(Commit, r)
BY CommitsRecommit DEF Commit

(* Rebase is a chain made of the packs of both sides, and of all of them.  *)
LEMMA RebaseKeepsPacks ==
    ASSUME NEW r \in Replicas, NEW ours \in Chain, NEW theirs \in Chain
    PROVE  /\ Rebase(ours, theirs, r) \in Chain
           /\ PackIds(Rebase(ours, theirs, r)) =
                PackIds(ours) \cup PackIds(theirs)
BY ChainCommits, RebasePackIds DEF Chain

-----------------------------------------------------------------------------
(* Types *)

(* Every ref points to trees that are stored and that belong to its        *)
(* ticket, and what an author had seen was stored before.                  *)
Stored(t, chain) ==
    \A p \in PackIds(chain) : p \in DOMAIN packs /\ packs[p].ticket = t

KnownPacks ==
    /\ \A r \in Replicas, t \in Tickets : Stored(t, local[r][t])
    /\ \A r \in Replicas, m \in Remotes, t \in Tickets :
          Stored(t, tracking[r][m][t])
    /\ \A m \in Remotes, t \in Tickets : Stored(t, server[m][t])
    /\ \A p \in DOMAIN packs : packs[p].seen \subseteq 1 .. p - 1

TypeInv == TypeOK /\ KnownPacks

LEMMA PackFields ==
    ASSUME TypeOK, NEW p \in DOMAIN packs
    PROVE  /\ packs[p] \in Pack
           /\ packs[p].edit \in Nat
           /\ packs[p].create \in Nat
           /\ p \in Nat
<1>1. packs[p] \in Pack /\ p \in Nat
  BY DEF TypeOK
<1>2. QED
  BY <1>1 DEF Pack

(* A clock that witnesses some packs never goes back, and ends later than  *)
(* all of them.                                                            *)
LEMMA WitnessAllProperties ==
    ASSUME TypeOK, NEW c \in [create : Nat, edit : Nat],
           NEW seen, seen \subseteq DOMAIN packs
    PROVE  /\ WitnessAll(c, seen) \in [create : Nat, edit : Nat]
           /\ c.create <= WitnessAll(c, seen).create
           /\ c.edit <= WitnessAll(c, seen).edit
           /\ \A p \in seen :
                /\ packs[p].create < WitnessAll(c, seen).create
                /\ packs[p].edit < WitnessAll(c, seen).edit
<1> DEFINE creates == [p \in DOMAIN packs |-> packs[p].create]
           edits == [p \in DOMAIN packs |-> packs[p].edit]
           w == WitnessAll(c, seen)
<1>1. /\ Len(packs) \in Nat
      /\ DOMAIN packs = 1 .. Len(packs)
      /\ seen \subseteq 1 .. Len(packs)
      /\ c.create \in Nat /\ c.edit \in Nat
  BY DEF TypeOK
<1>2. /\ \A p \in 1 .. Len(packs) : creates[p] \in Nat
      /\ \A p \in 1 .. Len(packs) : edits[p] \in Nat
  BY <1>1, PackFields
<1>3. /\ {packs[p].create + 1 : p \in seen} = {creates[p] + 1 : p \in seen}
      /\ {packs[p].edit + 1 : p \in seen} = {edits[p] + 1 : p \in seen}
  BY <1>1
<1>4. /\ w = [create |-> w.create, edit |-> w.edit]
      /\ w.create = Max({c.create} \cup {creates[p] + 1 : p \in seen})
      /\ w.edit = Max({c.edit} \cup {edits[p] + 1 : p \in seen})
  BY <1>3 DEF WitnessAll
<1>5. \A p \in seen : creates[p] = packs[p].create /\ edits[p] = packs[p].edit
  BY <1>1
<1> HIDE DEF creates, edits, w
<1>6. w.create \in Nat /\ c.create <= w.create
        /\ \A p \in seen : creates[p] < w.create
  BY <1>1, <1>2, <1>4, WitnessedMax
<1>7. w.edit \in Nat /\ c.edit <= w.edit
        /\ \A p \in seen : edits[p] < w.edit
  BY <1>1, <1>2, <1>4, WitnessedMax
<1>8. w \in [create : Nat, edit : Nat]
  BY <1>4, <1>6, <1>7
<1>9. QED
  BY <1>5, <1>6, <1>7, <1>8 DEF w

LEMMA WitnessProperties ==
    ASSUME TypeOK, NEW c \in [create : Nat, edit : Nat],
           NEW chain, NEW t, Stored(t, chain)
    PROVE  /\ Witness(c, chain) \in [create : Nat, edit : Nat]
           /\ c.create <= Witness(c, chain).create
           /\ c.edit <= Witness(c, chain).edit
           /\ \A p \in PackIds(chain) :
                /\ packs[p].create < Witness(c, chain).create
                /\ packs[p].edit < Witness(c, chain).edit
BY WitnessAllProperties DEF Witness, Stored

(* Storing one more tree. *)
LEMMA StoreTree ==
    ASSUME TypeOK, NEW x \in Pack, packs' = Append(packs, x)
    PROVE  /\ packs' \in Seq(Pack)
           /\ Len(packs) \in Nat
           /\ DOMAIN packs = 1 .. Len(packs)
           /\ DOMAIN packs' = 1 .. Len(packs) + 1
           /\ \A p \in DOMAIN packs : packs'[p] = packs[p]
           /\ packs'[Len(packs) + 1] = x
<1>1. packs \in Seq(Pack)
  BY DEF TypeOK
<1>2. QED
  BY <1>1

LEMMA StillStored ==
    ASSUME TypeOK, NEW x \in Pack, packs' = Append(packs, x),
           NEW u, NEW chain, Stored(u, chain)
    PROVE  \A p \in PackIds(chain) : p \in DOMAIN packs' /\ packs'[p].ticket = u
BY StoreTree DEF Stored

LEMMA VisibleStored ==
    ASSUME TypeInv, NEW r \in Replicas
    PROVE  Visible(r) \subseteq DOMAIN packs
BY DEF TypeInv, KnownPacks, Stored, Visible

(* A commit appended to a chain, and a chain of one commit.                *)
LEMMA AppendCommit ==
    ASSUME NEW r \in Replicas, NEW n \in Nat, NEW chain \in Chain
    PROVE  LET c == [pack |-> n, by |-> r]
           IN  /\ c \in Commit
               /\ Append(chain, c) \in Chain
               /\ PackIds(Append(chain, c)) = PackIds(chain) \cup {n}
               /\ Len(Append(chain, c)) = Len(chain) + 1
               /\ \A i \in DOMAIN chain : Append(chain, c)[i] = chain[i]
               /\ Append(chain, c)[Len(chain) + 1] = c
<1>1. PICK c : c = [pack |-> n, by |-> r]
  OBVIOUS
<1>2. c \in Commit /\ c.pack = n
  BY <1>1 DEF Commit
<1>3. /\ chain \in Seq(Commit)
      /\ DOMAIN chain = 1 .. Len(chain) /\ Len(chain) \in Nat
  BY DEF Chain
<1>4. /\ Append(chain, c) \in Seq(Commit)
      /\ DOMAIN Append(chain, c) = 1 .. Len(chain) + 1
      /\ Len(Append(chain, c)) = Len(chain) + 1
      /\ \A i \in 1 .. Len(chain) : Append(chain, c)[i] = chain[i]
      /\ Append(chain, c)[Len(chain) + 1] = c
  BY <1>2, <1>3
<1>5. PackIds(Append(chain, c)) = PackIds(chain) \cup {n}
  <2>1. \A i \in 1 .. Len(chain) + 1 : i \in 1 .. Len(chain) \/ i = Len(chain) + 1
    BY <1>3
  <2>2. Len(chain) + 1 \in 1 .. Len(chain) + 1
          /\ \A i \in 1 .. Len(chain) : i \in 1 .. Len(chain) + 1
    BY <1>3
  <2>3. QED
    BY <1>2, <1>3, <1>4, <2>1, <2>2 DEF PackIds
<1>6. QED
  BY <1>1, <1>2, <1>4, <1>5 DEF Chain

LEMMA FirstCommit ==
    ASSUME NEW r \in Replicas, NEW n \in Nat
    PROVE  /\ <<[pack |-> n, by |-> r]>> \in Chain
           /\ PackIds(<<[pack |-> n, by |-> r]>>) = {n}
<1>1. [pack |-> n, by |-> r] \in Commit
  BY DEF Commit
<1>2. PICK c : c = [pack |-> n, by |-> r]
  OBVIOUS
<1>3. <<c>> \in Seq(Commit) /\ DOMAIN <<c>> = {1} /\ <<c>>[1] = c
  BY <1>1, <1>2
<1>4. c.pack = n
  BY <1>2
<1>5. PackIds(<<c>>) = {n}
  BY <1>3, <1>4 DEF PackIds
<1>6. QED
  BY <1>2, <1>3, <1>5 DEF Chain

-----------------------------------------------------------------------------
(* Every step preserves TypeInv: one lemma per action that writes.         *)

LEMMA NewTicketTypes ==
    ASSUME TypeInv, NEW r \in Replicas, NEW t \in Tickets, NewTicket(r, t)
    PROVE  TypeInv'
<1> DEFINE x == [ticket |-> t, status |-> NoChange,
                 create |-> clock[r].create, edit |-> clock[r].edit,
                 seen |-> Visible(r)]
           c == [pack |-> Len(packs) + 1, by |-> r]
<1>1. TypeOK /\ KnownPacks
  BY DEF TypeInv
<1>2. Visible(r) \subseteq 1 .. Len(packs) /\ Visible(r) \subseteq Nat
  BY <1>1, VisibleStored DEF TypeOK
<1>3. clock[r] \in [create : Nat, edit : Nat]
  BY <1>1 DEF TypeOK
<1>4. x \in Pack
  BY <1>2, <1>3 DEF Pack
<1>5. /\ packs' = Append(packs, x)
      /\ local' = [local EXCEPT ![r][t] = <<c>>]
      /\ clock' = [clock EXCEPT ![r] = [create |-> clock[r].create + 1,
                                        edit |-> clock[r].edit + 1]]
      /\ UNCHANGED <<tracking, server, merging>>
  BY DEF NewTicket
<1>6. /\ packs' \in Seq(Pack)
      /\ Len(packs) \in Nat
      /\ DOMAIN packs = 1 .. Len(packs)
      /\ DOMAIN packs' = 1 .. Len(packs) + 1
      /\ \A p \in DOMAIN packs : packs'[p] = packs[p]
      /\ packs'[Len(packs) + 1] = x
  BY <1>1, <1>4, <1>5, StoreTree
<1>7. <<c>> \in Chain /\ PackIds(<<c>>) = {Len(packs) + 1}
  <2>1. Len(packs) + 1 \in Nat
    BY <1>6
  <2>2. QED
    BY <2>1, FirstCommit
<1>8. /\ local' \in [Replicas -> [Tickets -> Chain]]
      /\ \A q \in Replicas, u \in Tickets : local'[q][u] =
            IF q = r /\ u = t THEN <<c>> ELSE local[q][u]
  <2>1. local \in [Replicas -> [Tickets -> Chain]]
    BY <1>1 DEF TypeOK
  <2>2. QED
    BY <1>5, <1>7, <2>1, SetRef
<1>9. clock' \in [Replicas -> [create : Nat, edit : Nat]]
  BY <1>1, <1>3, <1>5 DEF TypeOK
<1>10. TypeOK'
  BY <1>1, <1>5, <1>6, <1>8, <1>9 DEF TypeOK
<1>11. KnownPacks'
  <2>1. DOMAIN packs \subseteq DOMAIN packs' /\ Len(packs) + 1 \in DOMAIN packs'
    BY <1>6
  <2>2. ASSUME NEW u \in Tickets, NEW chain, Stored(u, chain)
        PROVE  \A p \in PackIds(chain) :
                 p \in DOMAIN packs' /\ packs'[p].ticket = u
    BY <1>1, <1>4, <1>5, <2>2, StillStored
  <2>3. ASSUME NEW q \in Replicas, NEW u \in Tickets
        PROVE  Stored(u, local[q][u])'
    <3>1. Stored(u, local[q][u]) /\ Stored(t, local[r][t])
      BY <1>1 DEF KnownPacks
    <3>2. CASE q = r /\ u = t
      <4>1. local'[q][u] = <<c>> /\ x.ticket = t
        BY <1>8, <3>2
      <4> HIDE DEF x, c
      <4>2. packs'[Len(packs) + 1].ticket = t
        BY <1>6, <4>1
      <4>3. QED
        BY <1>7, <2>1, <2>2, <3>1, <3>2, <4>1, <4>2 DEF Stored
    <3>3. CASE ~ (q = r /\ u = t)
      <4>1. local'[q][u] = local[q][u]
        BY <1>8, <3>3
      <4>2. QED
        BY <2>2, <3>1, <4>1 DEF Stored
    <3>4. QED
      BY <3>2, <3>3
  <2>4. \A p \in DOMAIN packs' : packs'[p].seen \subseteq 1 .. p - 1
    <3>1. x.seen = Visible(r)
      OBVIOUS
    <3>2. \A p \in DOMAIN packs' : p \in DOMAIN packs \/ p = Len(packs) + 1
      BY <1>6
    <3>3. (Len(packs) + 1) - 1 = Len(packs)
      BY <1>6
    <3> HIDE DEF x
    <3>4. QED
      BY <1>1, <1>2, <1>6, <3>1, <3>2, <3>3 DEF KnownPacks
  <2>5. UNCHANGED <<tracking, server>>
    BY <1>5
  <2>6. /\ \A q \in Replicas, n \in Remotes, u \in Tickets :
              Stored(u, tracking[q][n][u])'
        /\ \A n \in Remotes, u \in Tickets : Stored(u, server[n][u])'
    BY <1>1, <2>2, <2>5 DEF KnownPacks, Stored
  <2>7. QED
    BY <2>3, <2>4, <2>6 DEF KnownPacks
<1>12. QED
  BY <1>10, <1>11 DEF TypeInv

LEMMA CommitOpsTypes ==
    ASSUME TypeInv, NEW r \in Replicas, NEW t \in Tickets,
           NEW s \in Statuses \cup {NoChange}, CommitOps(r, t, s)
    PROVE  TypeInv'
<1> DEFINE now == Witness(clock[r], local[r][t])
           x == [ticket |-> t, status |-> s, create |-> 0,
                 edit |-> now.edit, seen |-> Visible(r)]
           c == [pack |-> Len(packs) + 1, by |-> r]
           new == Append(local[r][t], c)
<1>1. TypeOK /\ KnownPacks
  BY DEF TypeInv
<1>2. Visible(r) \subseteq 1 .. Len(packs) /\ Visible(r) \subseteq Nat
  BY <1>1, VisibleStored DEF TypeOK
<1>3. now \in [create : Nat, edit : Nat]
  <2>1. clock[r] \in [create : Nat, edit : Nat] /\ Stored(t, local[r][t])
    BY <1>1 DEF TypeOK, KnownPacks
  <2>2. QED
    BY <1>1, <2>1, WitnessProperties
<1>4. /\ packs' = Append(packs, x)
      /\ local' = [local EXCEPT ![r][t] = new]
      /\ clock' = [clock EXCEPT ![r] = [create |-> now.create, edit |-> now.edit + 1]]
      /\ UNCHANGED <<tracking, server, merging>>
  BY DEF CommitOps
<1> HIDE DEF now
<1>5. x \in Pack
  BY <1>2, <1>3 DEF Pack
<1>6. /\ packs' \in Seq(Pack)
      /\ Len(packs) \in Nat
      /\ DOMAIN packs = 1 .. Len(packs)
      /\ DOMAIN packs' = 1 .. Len(packs) + 1
      /\ \A p \in DOMAIN packs : packs'[p] = packs[p]
      /\ packs'[Len(packs) + 1] = x
  BY <1>1, <1>4, <1>5, StoreTree
<1>7. new \in Chain /\ PackIds(new) = PackIds(local[r][t]) \cup {Len(packs) + 1}
  <2>1. local[r][t] \in Chain
    BY <1>1 DEF TypeOK
  <2>2. Len(packs) + 1 \in Nat
    BY <1>6
  <2>3. QED
    BY <2>1, <2>2, AppendCommit
<1> HIDE DEF new
<1>8. /\ local' \in [Replicas -> [Tickets -> Chain]]
      /\ \A q \in Replicas, u \in Tickets : local'[q][u] =
            IF q = r /\ u = t THEN new ELSE local[q][u]
  <2>1. local \in [Replicas -> [Tickets -> Chain]]
    BY <1>1 DEF TypeOK
  <2>2. QED
    BY <1>4, <1>7, <2>1, SetRef
<1>9. clock' \in [Replicas -> [create : Nat, edit : Nat]]
  <2>1. [create |-> now.create, edit |-> now.edit + 1] \in [create : Nat, edit : Nat]
    BY <1>3
  <2>2. QED
    BY <1>1, <1>4, <2>1 DEF TypeOK
<1>10. TypeOK'
  BY <1>1, <1>4, <1>6, <1>8, <1>9 DEF TypeOK
<1>11. KnownPacks'
  <2>1. DOMAIN packs \subseteq DOMAIN packs' /\ Len(packs) + 1 \in DOMAIN packs'
    BY <1>6
  <2>2. ASSUME NEW u \in Tickets, NEW chain, Stored(u, chain)
        PROVE  \A p \in PackIds(chain) :
                 p \in DOMAIN packs' /\ packs'[p].ticket = u
    BY <1>1, <1>4, <1>5, <2>2, StillStored
  <2>3. ASSUME NEW q \in Replicas, NEW u \in Tickets
        PROVE  Stored(u, local[q][u])'
    <3>1. Stored(u, local[q][u]) /\ Stored(t, local[r][t])
      BY <1>1 DEF KnownPacks
    <3>2. CASE q = r /\ u = t
      <4>1. local'[q][u] = new /\ x.ticket = t
        BY <1>8, <3>2
      <4> HIDE DEF x
      <4>2. packs'[Len(packs) + 1].ticket = t
        BY <1>6, <4>1
      <4>3. QED
        BY <1>7, <2>1, <2>2, <3>1, <3>2, <4>1, <4>2 DEF Stored
    <3>3. CASE ~ (q = r /\ u = t)
      <4>1. local'[q][u] = local[q][u]
        BY <1>8, <3>3
      <4>2. QED
        BY <2>2, <3>1, <4>1 DEF Stored
    <3>4. QED
      BY <3>2, <3>3
  <2>4. \A p \in DOMAIN packs' : packs'[p].seen \subseteq 1 .. p - 1
    <3>1. x.seen = Visible(r)
      OBVIOUS
    <3>2. \A p \in DOMAIN packs' : p \in DOMAIN packs \/ p = Len(packs) + 1
      BY <1>6
    <3>3. (Len(packs) + 1) - 1 = Len(packs)
      BY <1>6
    <3> HIDE DEF x
    <3>4. QED
      BY <1>1, <1>2, <1>6, <3>1, <3>2, <3>3 DEF KnownPacks
  <2>5. UNCHANGED <<tracking, server>>
    BY <1>4
  <2>6. /\ \A q \in Replicas, n \in Remotes, u \in Tickets :
              Stored(u, tracking[q][n][u])'
        /\ \A n \in Remotes, u \in Tickets : Stored(u, server[n][u])'
    BY <1>1, <2>2, <2>5 DEF KnownPacks, Stored
  <2>7. QED
    BY <2>3, <2>4, <2>6 DEF KnownPacks
<1>12. QED
  BY <1>10, <1>11 DEF TypeInv

(* The other actions store no tree: it is enough that the refs they write  *)
(* point to stored trees.                                                  *)
LEMMA SameTrees ==
    ASSUME TypeInv, packs' = packs,
           local' \in [Replicas -> [Tickets -> Chain]],
           tracking' \in [Replicas -> [Remotes -> [Tickets -> Chain]]],
           server' \in [Remotes -> [Tickets -> Chain]],
           clock' \in [Replicas -> [create : Nat, edit : Nat]],
           merging' \in [Replicas -> SUBSET (Remotes \X Tickets)],
           \A r \in Replicas, t \in Tickets : Stored(t, local'[r][t]),
           \A r \in Replicas, m \in Remotes, t \in Tickets :
              Stored(t, tracking'[r][m][t]),
           \A m \in Remotes, t \in Tickets : Stored(t, server'[m][t])
    PROVE  TypeInv'
<1>1. TypeOK'
  BY DEF TypeInv, TypeOK
<1>2. KnownPacks'
  BY DEF TypeInv, KnownPacks, Stored
<1>3. QED
  BY <1>1, <1>2 DEF TypeInv

(* A replica moves one of its local refs. *)
LEMMA MoveLocal ==
    ASSUME TypeInv, NEW r \in Replicas, NEW t \in Tickets,
           NEW x \in Chain, Stored(t, x),
           local' = [local EXCEPT ![r][t] = x],
           UNCHANGED <<packs, tracking, server>>,
           clock' \in [Replicas -> [create : Nat, edit : Nat]],
           merging' \in [Replicas -> SUBSET (Remotes \X Tickets)]
    PROVE  /\ TypeInv'
           /\ \A q \in Replicas, u \in Tickets : local'[q][u] =
                 IF q = r /\ u = t THEN x ELSE local[q][u]
<1>1. local \in [Replicas -> [Tickets -> Chain]]
  BY DEF TypeInv, TypeOK
<1>2. /\ local' \in [Replicas -> [Tickets -> Chain]]
      /\ \A q \in Replicas, u \in Tickets : local'[q][u] =
            IF q = r /\ u = t THEN x ELSE local[q][u]
  BY <1>1, SetRef
<1>3. /\ tracking \in [Replicas -> [Remotes -> [Tickets -> Chain]]]
      /\ server \in [Remotes -> [Tickets -> Chain]]
      /\ \A q \in Replicas, u \in Tickets : Stored(u, local[q][u])
      /\ \A q \in Replicas, m \in Remotes, u \in Tickets :
            Stored(u, tracking[q][m][u])
      /\ \A m \in Remotes, u \in Tickets : Stored(u, server[m][u])
  BY DEF TypeInv, TypeOK, KnownPacks
<1>4. \A q \in Replicas, u \in Tickets : Stored(u, local'[q][u])
  BY <1>2, <1>3
<1>5. TypeInv'
  BY <1>2, <1>3, <1>4, SameTrees
<1>6. QED
  BY <1>2, <1>5

(* Reading a chain keeps the clocks well typed. *)
LEMMA WitnessClock ==
    ASSUME TypeInv, NEW r \in Replicas, NEW chain, NEW t, Stored(t, chain)
    PROVE  /\ Witness(clock[r], chain) \in [create : Nat, edit : Nat]
           /\ [clock EXCEPT ![r] = Witness(@, chain)]
                 \in [Replicas -> [create : Nat, edit : Nat]]
<1>1. clock \in [Replicas -> [create : Nat, edit : Nat]]
  BY DEF TypeInv, TypeOK
<1>2. Witness(clock[r], chain) \in [create : Nat, edit : Nat]
  BY <1>1, WitnessProperties DEF TypeInv
<1>3. QED
  BY <1>1, <1>2

LEMMA WitnessBothClock ==
    ASSUME TypeInv, NEW r \in Replicas, NEW m \in Remotes, NEW t \in Tickets,
           WitnessBoth(r, m, t)
    PROVE  clock' \in [Replicas -> [create : Nat, edit : Nat]]
<1>1. Stored(t, tracking[r][m][t]) /\ Stored(t, local[r][t])
  BY DEF TypeInv, KnownPacks
<1>2. Witness(clock[r], tracking[r][m][t]) \in [create : Nat, edit : Nat]
  BY <1>1, WitnessClock
<1>3. Witness(Witness(clock[r], tracking[r][m][t]), local[r][t])
        \in [create : Nat, edit : Nat]
  BY <1>1, <1>2, WitnessProperties DEF TypeInv
<1>4. QED
  BY <1>3 DEF WitnessBoth, TypeInv, TypeOK

LEMMA StartPullTypes ==
    ASSUME TypeInv, NEW r \in Replicas, NEW m \in Remotes, StartPull(r, m)
    PROVE  TypeInv'
<1>1. /\ tracking' = [tracking EXCEPT ![r][m] = server[m]]
      /\ merging' = [merging EXCEPT ![r] =
            {<<m, t>> : t \in {u \in Tickets : server[m][u] # << >>}}]
      /\ UNCHANGED <<packs, local, server, clock>>
  BY DEF StartPull
<1>2. /\ tracking \in [Replicas -> [Remotes -> [Tickets -> Chain]]]
      /\ local \in [Replicas -> [Tickets -> Chain]]
      /\ server \in [Remotes -> [Tickets -> Chain]]
      /\ merging \in [Replicas -> SUBSET (Remotes \X Tickets)]
      /\ clock \in [Replicas -> [create : Nat, edit : Nat]]
  BY DEF TypeInv, TypeOK
<1>3. /\ tracking' \in [Replicas -> [Remotes -> [Tickets -> Chain]]]
      /\ \A q \in Replicas, n \in Remotes : tracking'[q][n] =
            IF q = r /\ n = m THEN server[m] ELSE tracking[q][n]
  <2>1. server[m] \in [Tickets -> Chain]
    BY <1>2
  <2>2. QED
    BY <1>1, <1>2, <2>1, SetRef
<1>4. merging' \in [Replicas -> SUBSET (Remotes \X Tickets)]
  <2>1. {<<m, t>> : t \in {u \in Tickets : server[m][u] # << >>}}
          \in SUBSET (Remotes \X Tickets)
    OBVIOUS
  <2>2. QED
    BY <1>1, <1>2, <2>1, SetRow
<1>5. /\ \A q \in Replicas, u \in Tickets : Stored(u, local[q][u])
      /\ \A q \in Replicas, n \in Remotes, u \in Tickets :
            Stored(u, tracking[q][n][u])
      /\ \A n \in Remotes, u \in Tickets : Stored(u, server[n][u])
  BY DEF TypeInv, KnownPacks
<1>6. \A q \in Replicas, n \in Remotes, u \in Tickets :
         Stored(u, tracking'[q][n][u])
  <2> TAKE q \in Replicas, n \in Remotes, u \in Tickets
  <2>1. CASE q = r /\ n = m
    <3>1. tracking'[q][n] = server[m]
      BY <1>3, <2>1
    <3>2. QED
      BY <1>5, <3>1
  <2>2. CASE ~ (q = r /\ n = m)
    <3>1. tracking'[q][n] = tracking[q][n]
      BY <1>3, <2>2
    <3>2. QED
      BY <1>5, <3>1
  <2>3. QED
    BY <2>1, <2>2
<1>7. QED
  BY <1>1, <1>2, <1>3, <1>4, <1>5, <1>6, SameTrees

LEMMA MergeTypes ==
    ASSUME TypeInv, NEW r \in Replicas, NEW m \in Remotes, NEW t \in Tickets,
           MergeTicket(r, m, t)
    PROVE  TypeInv'
<1>1. /\ tracking \in [Replicas -> [Remotes -> [Tickets -> Chain]]]
      /\ local \in [Replicas -> [Tickets -> Chain]]
      /\ server \in [Remotes -> [Tickets -> Chain]]
      /\ merging \in [Replicas -> SUBSET (Remotes \X Tickets)]
      /\ clock \in [Replicas -> [create : Nat, edit : Nat]]
  BY DEF TypeInv, TypeOK
<1>2. /\ \A q \in Replicas, u \in Tickets : Stored(u, local[q][u])
      /\ \A q \in Replicas, n \in Remotes, u \in Tickets :
            Stored(u, tracking[q][n][u])
      /\ \A n \in Remotes, u \in Tickets : Stored(u, server[n][u])
  BY DEF TypeInv, KnownPacks
<1>3. Continue(r, m, t) =>
        merging' \in [Replicas -> SUBSET (Remotes \X Tickets)]
  BY <1>1 DEF Continue
<1>4. [clock EXCEPT ![r] = Witness(@, tracking[r][m][t])]
         \in [Replicas -> [create : Nat, edit : Nat]]
  BY <1>2, WitnessClock
<1>5. tracking[r][m][t] \in Chain /\ local[r][t] \in Chain
  BY <1>1
<1>6. CASE SkipUpToDate(r, m, t)
  BY <1>1, <1>2, <1>3, <1>6, SameTrees DEF SkipUpToDate
<1>7. CASE SkipInvalid(r, m, t)
  BY <1>1, <1>2, <1>3, <1>4, <1>7, SameTrees DEF SkipInvalid
<1>8. CASE CopyNew(r, m, t)
  BY <1>2, <1>3, <1>4, <1>5, <1>8, MoveLocal DEF CopyNew
<1>9. CASE MergeUpdated(r, m, t)
  <2>1. PICK x : x = Rebase(local[r][t], tracking[r][m][t], r)
    OBVIOUS
  <2>2. x \in Chain /\ Stored(t, x)
    BY <1>2, <1>5, <2>1, RebaseKeepsPacks DEF Stored
  <2>3. clock' \in [Replicas -> [create : Nat, edit : Nat]]
    BY <1>9, WitnessBothClock DEF MergeUpdated
  <2>4. local' = [local EXCEPT ![r][t] = x]
    BY <1>9, <2>1 DEF MergeUpdated
  <2>5. UNCHANGED <<packs, tracking, server>> /\ Continue(r, m, t)
    BY <1>9 DEF MergeUpdated
  <2>6. QED
    BY <1>3, <2>2, <2>3, <2>4, <2>5, MoveLocal
<1>10. CASE MergeConflict(r, m, t)
  <2>1. clock' \in [Replicas -> [create : Nat, edit : Nat]]
    BY <1>10, WitnessBothClock DEF MergeConflict
  <2>2. merging' \in [Replicas -> SUBSET (Remotes \X Tickets)]
    BY <1>1, <1>10 DEF MergeConflict
  <2>3. UNCHANGED <<packs, local, tracking, server>>
    BY <1>10 DEF MergeConflict
  <2>4. QED
    BY <1>1, <1>2, <2>1, <2>2, <2>3, SameTrees
<1>11. QED
  BY <1>6, <1>7, <1>8, <1>9, <1>10 DEF MergeTicket

(* What a push leaves in the remote and in the tracking refs, ref by ref.  *)
LEMMA PushRefs ==
    ASSUME TypeInv, NEW r \in Replicas, NEW m \in Remotes, Push(r, m)
    PROVE  /\ server' \in [Remotes -> [Tickets -> Chain]]
           /\ tracking' \in [Replicas -> [Remotes -> [Tickets -> Chain]]]
           /\ \A n \in Remotes, u \in Tickets : server'[n][u] =
                IF n = m /\ u \in ToPush(r, m) THEN local[r][u]
                                               ELSE server[n][u]
           /\ \A q \in Replicas, n \in Remotes, u \in Tickets :
                tracking'[q][n][u] =
                  IF q = r /\ n = m /\ u \in ToPush(r, m)
                  THEN local[r][u] ELSE tracking[q][n][u]
<1> DEFINE row == [u \in Tickets |->
                     IF u \in ToPush(r, m) THEN local[r][u] ELSE server[m][u]]
           known == [u \in Tickets |->
                     IF u \in ToPush(r, m) THEN local[r][u]
                                          ELSE tracking[r][m][u]]
<1>1. /\ tracking \in [Replicas -> [Remotes -> [Tickets -> Chain]]]
      /\ local \in [Replicas -> [Tickets -> Chain]]
      /\ server \in [Remotes -> [Tickets -> Chain]]
  BY DEF TypeInv, TypeOK
<1>2. row \in [Tickets -> Chain] /\ known \in [Tickets -> Chain]
  BY <1>1
<1>3. /\ server' = [server EXCEPT ![m] = row]
      /\ tracking' = [tracking EXCEPT ![r][m] = known]
  BY DEF Push
<1>4. /\ \A u \in Tickets : row[u] =
            IF u \in ToPush(r, m) THEN local[r][u] ELSE server[m][u]
      /\ \A u \in Tickets : known[u] =
            IF u \in ToPush(r, m) THEN local[r][u] ELSE tracking[r][m][u]
  OBVIOUS
<1> HIDE DEF row, known
<1>5. /\ server' \in [Remotes -> [Tickets -> Chain]]
      /\ \A n \in Remotes : server'[n] = IF n = m THEN row ELSE server[n]
  BY <1>1, <1>2, <1>3, SetRow
<1>6. /\ tracking' \in [Replicas -> [Remotes -> [Tickets -> Chain]]]
      /\ \A q \in Replicas, n \in Remotes : tracking'[q][n] =
            IF q = r /\ n = m THEN known ELSE tracking[q][n]
  BY <1>1, <1>2, <1>3, SetRef
<1>7. QED
  BY <1>4, <1>5, <1>6

LEMMA PushTypes ==
    ASSUME TypeInv, NEW r \in Replicas, NEW m \in Remotes, Push(r, m)
    PROVE  TypeInv'
<1>1. /\ server' \in [Remotes -> [Tickets -> Chain]]
      /\ tracking' \in [Replicas -> [Remotes -> [Tickets -> Chain]]]
      /\ \A n \in Remotes, u \in Tickets : server'[n][u] =
           IF n = m /\ u \in ToPush(r, m) THEN local[r][u] ELSE server[n][u]
      /\ \A q \in Replicas, n \in Remotes, u \in Tickets :
           tracking'[q][n][u] =
             IF q = r /\ n = m /\ u \in ToPush(r, m)
             THEN local[r][u] ELSE tracking[q][n][u]
  BY PushRefs
<1>2. UNCHANGED <<packs, local, clock, merging>>
  BY DEF Push
<1>3. /\ local \in [Replicas -> [Tickets -> Chain]]
      /\ merging \in [Replicas -> SUBSET (Remotes \X Tickets)]
      /\ clock \in [Replicas -> [create : Nat, edit : Nat]]
  BY DEF TypeInv, TypeOK
<1>4. /\ \A q \in Replicas, u \in Tickets : Stored(u, local[q][u])
      /\ \A q \in Replicas, n \in Remotes, u \in Tickets :
            Stored(u, tracking[q][n][u])
      /\ \A n \in Remotes, u \in Tickets : Stored(u, server[n][u])
  BY DEF TypeInv, KnownPacks
<1>5. \A n \in Remotes, u \in Tickets : Stored(u, server'[n][u])
  <2> TAKE n \in Remotes, u \in Tickets
  <2>1. server'[n][u] = local[r][u] \/ server'[n][u] = server[n][u]
    BY <1>1
  <2>2. QED
    BY <1>4, <2>1
<1>6. \A q \in Replicas, n \in Remotes, u \in Tickets :
         Stored(u, tracking'[q][n][u])
  <2> TAKE q \in Replicas, n \in Remotes, u \in Tickets
  <2>1. \/ tracking'[q][n][u] = local[r][u]
        \/ tracking'[q][n][u] = tracking[q][n][u]
    BY <1>1
  <2>2. QED
    BY <1>4, <2>1
<1>7. QED
  BY <1>1, <1>2, <1>3, <1>4, <1>5, <1>6, SameTrees

(* What a push of one ticket leaves in the remote. *)
LEMMA PushTicketRefs ==
    ASSUME TypeInv, NEW r \in Replicas, NEW m \in Remotes, NEW t \in Tickets,
           PushTicket(r, m, t)
    PROVE  /\ server' \in [Remotes -> [Tickets -> Chain]]
           /\ \A n \in Remotes, u \in Tickets : server'[n][u] =
                IF n = m /\ u = t THEN local[r][t] ELSE server[n][u]
<1>1. server \in [Remotes -> [Tickets -> Chain]] /\ local[r][t] \in Chain
  BY DEF TypeInv, TypeOK
<1>2. server' = [server EXCEPT ![m][t] = local[r][t]]
  BY DEF PushTicket
<1>3. QED
  BY <1>1, <1>2, SetRef

LEMMA PushTicketTypes ==
    ASSUME TypeInv, NEW r \in Replicas, NEW m \in Remotes, NEW t \in Tickets,
           PushTicket(r, m, t)
    PROVE  TypeInv'
<1>1. /\ server' \in [Remotes -> [Tickets -> Chain]]
      /\ \A n \in Remotes, u \in Tickets : server'[n][u] =
           IF n = m /\ u = t THEN local[r][t] ELSE server[n][u]
  BY PushTicketRefs
<1>2. UNCHANGED <<packs, local, tracking, clock, merging>>
  BY DEF PushTicket
<1>3. /\ local \in [Replicas -> [Tickets -> Chain]]
      /\ tracking \in [Replicas -> [Remotes -> [Tickets -> Chain]]]
      /\ merging \in [Replicas -> SUBSET (Remotes \X Tickets)]
      /\ clock \in [Replicas -> [create : Nat, edit : Nat]]
  BY DEF TypeInv, TypeOK
<1>4. /\ \A q \in Replicas, u \in Tickets : Stored(u, local[q][u])
      /\ \A q \in Replicas, n \in Remotes, u \in Tickets :
            Stored(u, tracking[q][n][u])
      /\ \A n \in Remotes, u \in Tickets : Stored(u, server[n][u])
  BY DEF TypeInv, KnownPacks
<1>5. \A n \in Remotes, u \in Tickets : Stored(u, server'[n][u])
  BY <1>1, <1>4
<1>6. QED
  BY <1>1, <1>2, <1>3, <1>4, <1>5, SameTrees

LEMMA EmptyChain == << >> \in Chain /\ PackIds(<< >>) = {}
BY DEF Chain, PackIds

(* What removing a ticket leaves in the refs of the clone. *)
LEMMA RemoveBugRefs ==
    ASSUME TypeInv, NEW r \in Replicas, NEW t \in Tickets, RemoveBug(r, t)
    PROVE  /\ local' \in [Replicas -> [Tickets -> Chain]]
           /\ tracking' \in [Replicas -> [Remotes -> [Tickets -> Chain]]]
           /\ \A q \in Replicas, u \in Tickets : local'[q][u] =
                IF q = r /\ u = t THEN << >> ELSE local[q][u]
           /\ \A q \in Replicas, n \in Remotes, u \in Tickets :
                tracking'[q][n][u] =
                  IF q = r /\ u = t THEN << >> ELSE tracking[q][n][u]
<1> DEFINE row == [n \in Remotes |-> [tracking[r][n] EXCEPT ![t] = << >>]]
<1>1. /\ tracking \in [Replicas -> [Remotes -> [Tickets -> Chain]]]
      /\ local \in [Replicas -> [Tickets -> Chain]]
  BY DEF TypeInv, TypeOK
<1>2. /\ tracking' = [tracking EXCEPT ![r] = row]
      /\ local' = [local EXCEPT ![r][t] = << >>]
  BY DEF RemoveBug
<1>3. /\ row \in [Remotes -> [Tickets -> Chain]]
      /\ \A n \in Remotes, u \in Tickets : row[n][u] =
           IF u = t THEN << >> ELSE tracking[r][n][u]
  BY <1>1, EmptyChain
<1> HIDE DEF row
<1>4. /\ tracking' \in [Replicas -> [Remotes -> [Tickets -> Chain]]]
      /\ \A q \in Replicas : tracking'[q] = IF q = r THEN row ELSE tracking[q]
  BY <1>1, <1>2, <1>3, SetRow
<1>5. /\ local' \in [Replicas -> [Tickets -> Chain]]
      /\ \A q \in Replicas, u \in Tickets : local'[q][u] =
           IF q = r /\ u = t THEN << >> ELSE local[q][u]
  BY <1>1, <1>2, EmptyChain, SetRef
<1>6. QED
  BY <1>3, <1>4, <1>5

LEMMA RemoveBugTypes ==
    ASSUME TypeInv, NEW r \in Replicas, NEW t \in Tickets, RemoveBug(r, t)
    PROVE  TypeInv'
<1>1. /\ local' \in [Replicas -> [Tickets -> Chain]]
      /\ tracking' \in [Replicas -> [Remotes -> [Tickets -> Chain]]]
      /\ \A q \in Replicas, u \in Tickets : local'[q][u] =
           IF q = r /\ u = t THEN << >> ELSE local[q][u]
      /\ \A q \in Replicas, n \in Remotes, u \in Tickets :
           tracking'[q][n][u] =
             IF q = r /\ u = t THEN << >> ELSE tracking[q][n][u]
  BY RemoveBugRefs
<1>2. UNCHANGED <<packs, server, clock, merging>>
  BY DEF RemoveBug
<1>3. /\ server \in [Remotes -> [Tickets -> Chain]]
      /\ merging \in [Replicas -> SUBSET (Remotes \X Tickets)]
      /\ clock \in [Replicas -> [create : Nat, edit : Nat]]
  BY DEF TypeInv, TypeOK
<1>4. /\ \A q \in Replicas, u \in Tickets : Stored(u, local[q][u])
      /\ \A q \in Replicas, n \in Remotes, u \in Tickets :
            Stored(u, tracking[q][n][u])
      /\ \A n \in Remotes, u \in Tickets : Stored(u, server[n][u])
      /\ \A u \in Tickets : Stored(u, << >>)
  BY EmptyChain DEF TypeInv, KnownPacks, Stored
<1>5. \A q \in Replicas, u \in Tickets : Stored(u, local'[q][u])
  BY <1>1, <1>4
<1>6. \A q \in Replicas, n \in Remotes, u \in Tickets :
         Stored(u, tracking'[q][n][u])
  <2> TAKE q \in Replicas, n \in Remotes, u \in Tickets
  <2>1. \/ tracking'[q][n][u] = << >>
        \/ tracking'[q][n][u] = tracking[q][n][u]
    BY <1>1
  <2>2. QED
    BY <1>4, <2>1
<1>7. QED
  BY <1>1, <1>2, <1>3, <1>4, <1>5, <1>6, SameTrees

LEMMA ResetBugTypes ==
    ASSUME TypeInv, NEW r \in Replicas, NEW m \in Remotes, NEW t \in Tickets,
           ResetBug(r, m, t)
    PROVE  TypeInv'
<1>1. tracking[r][m][t] \in Chain /\ Stored(t, tracking[r][m][t])
  BY DEF TypeInv, TypeOK, KnownPacks
<1>2. [clock EXCEPT ![r] = Witness(@, tracking[r][m][t])]
         \in [Replicas -> [create : Nat, edit : Nat]]
  BY <1>1, WitnessClock
<1>3. merging \in [Replicas -> SUBSET (Remotes \X Tickets)]
  BY DEF TypeInv, TypeOK
<1>4. QED
  BY <1>1, <1>2, <1>3, MoveLocal DEF ResetBug

LEMMA RebuildClocksTypes ==
    ASSUME TypeInv, NEW r \in Replicas, RebuildClocks(r)
    PROVE  TypeInv'
<1>1. WitnessAll([create |-> 1, edit |-> 1], Visible(r))
         \in [create : Nat, edit : Nat]
  <2>1. [create |-> 1, edit |-> 1] \in [create : Nat, edit : Nat]
    OBVIOUS
  <2>2. QED
    BY <2>1, VisibleStored, WitnessAllProperties DEF TypeInv
<1>2. clock' \in [Replicas -> [create : Nat, edit : Nat]]
  BY <1>1 DEF RebuildClocks, TypeInv, TypeOK
<1>3. UNCHANGED <<packs, local, tracking, server, merging>>
  BY DEF RebuildClocks
<1>4. TypeOK' /\ KnownPacks'
  BY <1>2, <1>3 DEF TypeInv, TypeOK, KnownPacks, Stored
<1>5. QED
  BY <1>4 DEF TypeInv

LEMMA AbortTypes ==
    ASSUME TypeInv, NEW r \in Replicas, Abort(r)
    PROVE  TypeInv'
<1>1. merging' \in [Replicas -> SUBSET (Remotes \X Tickets)]
  BY DEF Abort, TypeInv, TypeOK
<1>2. UNCHANGED <<packs, local, tracking, server, clock>>
  BY DEF Abort
<1>3. TypeOK' /\ KnownPacks'
  BY <1>1, <1>2 DEF TypeInv, TypeOK, KnownPacks, Stored
<1>4. QED
  BY <1>3 DEF TypeInv

LEMMA TypeInvInit == Init => TypeInv
<1> SUFFICES ASSUME Init PROVE TypeInv
  OBVIOUS
<1>1. TypeOK
  <2>1. packs \in Seq(Pack)
    BY DEF Init
  <2>2. clock \in [Replicas -> [create : Nat, edit : Nat]]
    BY DEF Init
  <2>3. QED
    BY <2>1, <2>2, EmptyChain DEF Init, TypeOK
<1>2. KnownPacks
  BY EmptyChain DEF Init, KnownPacks, Stored
<1>3. QED
  BY <1>1, <1>2 DEF TypeInv

LEMMA TypeInvStep == TypeInv /\ [Next]_vars => TypeInv'
<1> SUFFICES ASSUME TypeInv, [Next]_vars PROVE TypeInv'
  OBVIOUS
<1>1. ASSUME NEW r \in Replicas, NEW t \in Tickets, NewTicket(r, t)
      PROVE  TypeInv'
  BY <1>1, NewTicketTypes
<1>2. ASSUME NEW r \in Replicas, NEW t \in Tickets,
             NEW s \in Statuses \cup {NoChange}, CommitOps(r, t, s)
      PROVE  TypeInv'
  BY <1>2, CommitOpsTypes
<1>3. ASSUME NEW r \in Replicas, NEW m \in Remotes, StartPull(r, m)
      PROVE  TypeInv'
  BY <1>3, StartPullTypes
<1>4. ASSUME NEW r \in Replicas, NEW m \in Remotes, NEW t \in Tickets,
             MergeTicket(r, m, t)
      PROVE  TypeInv'
  BY <1>4, MergeTypes
<1>5. ASSUME NEW r \in Replicas, Abort(r)
      PROVE  TypeInv'
  BY <1>5, AbortTypes
<1>6. ASSUME NEW r \in Replicas, NEW m \in Remotes, Push(r, m)
      PROVE  TypeInv'
  BY <1>6, PushTypes
<1>7. ASSUME NEW r \in Replicas, NEW m \in Remotes, NEW t \in Tickets,
             PushTicket(r, m, t)
      PROVE  TypeInv'
  BY <1>7, PushTicketTypes
<1>8. ASSUME NEW r \in Replicas, NEW t \in Tickets, RemoveBug(r, t)
      PROVE  TypeInv'
  BY <1>8, RemoveBugTypes
<1>9. ASSUME NEW r \in Replicas, NEW m \in Remotes, NEW t \in Tickets,
             ResetBug(r, m, t)
      PROVE  TypeInv'
  BY <1>9, ResetBugTypes
<1>10. ASSUME NEW r \in Replicas, RebuildClocks(r)
       PROVE  TypeInv'
  BY <1>10, RebuildClocksTypes
<1>11. CASE UNCHANGED vars
  BY <1>11 DEF vars, TypeInv, TypeOK, KnownPacks, Stored
<1>12. QED
  BY <1>1, <1>2, <1>3, <1>4, <1>5, <1>6, <1>7, <1>8, <1>9, <1>10, <1>11
     DEF Next

(* Every ref of every clone and remote is a chain of commits over stored   *)
(* trees, and the clocks are numbers, in every reachable state.            *)
THEOREM TypeCorrect == Spec => []TypeOK
<1>1. TypeInv => TypeOK
  BY DEF TypeInv
<1>2. QED
  BY TypeInvInit, TypeInvStep, <1>1, PTL DEF Spec

-----------------------------------------------------------------------------
(* Tracking refs are cuts of the remote history *)

(* The steps that concern nobody but the clone that takes them.            *)
PrivateStep(r) ==
    \/ \E t \in Tickets : NewTicket(r, t)
    \/ \E t \in Tickets, s \in Statuses \cup {NoChange} : CommitOps(r, t, s)
    \/ \E m \in Remotes, t \in Tickets : MergeTicket(r, m, t)
    \/ Abort(r)
    \/ \E m \in Remotes, t \in Tickets : ResetBug(r, m, t)
    \/ RebuildClocks(r)

LEMMA PrivateSteps ==
    ASSUME NEW r \in Replicas, PrivateStep(r)
    PROVE  UNCHANGED <<tracking, server>>
<1>1. ASSUME NEW t \in Tickets, NewTicket(r, t)
      PROVE  UNCHANGED <<tracking, server>>
  BY <1>1 DEF NewTicket
<1>2. ASSUME NEW t \in Tickets, NEW s \in Statuses \cup {NoChange},
             CommitOps(r, t, s)
      PROVE  UNCHANGED <<tracking, server>>
  BY <1>2 DEF CommitOps
<1>3. ASSUME NEW m \in Remotes, NEW t \in Tickets, MergeTicket(r, m, t)
      PROVE  UNCHANGED <<tracking, server>>
  <2>1. CASE SkipUpToDate(r, m, t) \/ SkipInvalid(r, m, t)
    BY <2>1 DEF SkipUpToDate, SkipInvalid
  <2>2. CASE CopyNew(r, m, t)
    BY <2>2 DEF CopyNew
  <2>3. CASE MergeUpdated(r, m, t)
    BY <2>3 DEF MergeUpdated
  <2>4. CASE MergeConflict(r, m, t)
    BY <2>4 DEF MergeConflict
  <2>5. QED
    BY <1>3, <2>1, <2>2, <2>3, <2>4 DEF MergeTicket
<1>4. Abort(r) => UNCHANGED <<tracking, server>>
  BY DEF Abort
<1>5. ASSUME NEW m \in Remotes, NEW t \in Tickets, ResetBug(r, m, t)
      PROVE  UNCHANGED <<tracking, server>>
  BY <1>5 DEF ResetBug
<1>6. RebuildClocks(r) => UNCHANGED <<tracking, server>>
  BY DEF RebuildClocks
<1>7. QED
  BY <1>1, <1>2, <1>3, <1>4, <1>5, <1>6 DEF PrivateStep

LEMMA TrackingPull ==
    ASSUME TypeInv, TrackingBehindServer,
           NEW r \in Replicas, NEW m \in Remotes, StartPull(r, m)
    PROVE  TrackingBehindServer'
<1>1. /\ server \in [Remotes -> [Tickets -> Chain]]
      /\ tracking \in [Replicas -> [Remotes -> [Tickets -> Chain]]]
  BY DEF TypeInv, TypeOK
<1>2. tracking' = [tracking EXCEPT ![r][m] = server[m]] /\ server' = server
  BY DEF StartPull
<1>3. ASSUME NEW q \in Replicas, NEW n \in Remotes, NEW t \in Tickets
      PROVE  IsPrefix(tracking'[q][n][t], server'[n][t])
  <2>1. \/ tracking'[q][n][t] = server[n][t]
        \/ tracking'[q][n][t] = tracking[q][n][t]
    BY <1>1, <1>2
  <2>2. IsPrefix(server[n][t], server[n][t])
    BY <1>1, PrefixReflexive DEF Chain
  <2>3. QED
    BY <1>2, <2>1, <2>2 DEF TrackingBehindServer
<1>4. QED
  BY <1>3 DEF TrackingBehindServer

LEMMA TrackingPush ==
    ASSUME TypeInv, TrackingBehindServer,
           NEW r \in Replicas, NEW m \in Remotes, Push(r, m)
    PROVE  TrackingBehindServer'
<1>1. /\ server \in [Remotes -> [Tickets -> Chain]]
      /\ local \in [Replicas -> [Tickets -> Chain]]
      /\ tracking \in [Replicas -> [Remotes -> [Tickets -> Chain]]]
  BY DEF TypeInv, TypeOK
<1>2. /\ \A n \in Remotes, u \in Tickets : server'[n][u] =
           IF n = m /\ u \in ToPush(r, m) THEN local[r][u] ELSE server[n][u]
      /\ \A q \in Replicas, n \in Remotes, u \in Tickets :
           tracking'[q][n][u] =
             IF q = r /\ n = m /\ u \in ToPush(r, m)
             THEN local[r][u] ELSE tracking[q][n][u]
  BY PushRefs
<1>3. ASSUME NEW q \in Replicas, NEW n \in Remotes, NEW t \in Tickets
      PROVE  IsPrefix(tracking'[q][n][t], server'[n][t])
  <2>1. IsPrefix(tracking[q][n][t], server[n][t])
    BY DEF TrackingBehindServer
  <2>2. CASE n = m /\ t \in ToPush(r, m)
    <3>1. server'[n][t] = local[r][t] /\ IsPrefix(server[n][t], local[r][t])
      BY <1>2, <2>2 DEF Push, CanFastForward
    <3>2. IsPrefix(tracking[q][n][t], local[r][t])
      BY <1>1, <2>1, <3>1, PrefixTransitive DEF Chain
    <3>3. IsPrefix(local[r][t], local[r][t])
      BY <1>1, PrefixReflexive DEF Chain
    <3>4. \/ tracking'[q][n][t] = local[r][t]
          \/ tracking'[q][n][t] = tracking[q][n][t]
      BY <1>2
    <3>5. QED
      BY <3>1, <3>2, <3>3, <3>4
  <2>3. CASE ~ (n = m /\ t \in ToPush(r, m))
    BY <1>2, <2>1, <2>3
  <2>4. QED
    BY <2>2, <2>3
<1>4. QED
  BY <1>3 DEF TrackingBehindServer

LEMMA TrackingPushTicket ==
    ASSUME TypeInv, TrackingBehindServer, NEW r \in Replicas,
           NEW m \in Remotes, NEW u \in Tickets, PushTicket(r, m, u)
    PROVE  TrackingBehindServer'
<1>1. /\ server \in [Remotes -> [Tickets -> Chain]]
      /\ local \in [Replicas -> [Tickets -> Chain]]
      /\ tracking \in [Replicas -> [Remotes -> [Tickets -> Chain]]]
  BY DEF TypeInv, TypeOK
<1>2. \A n \in Remotes, t \in Tickets : server'[n][t] =
         IF n = m /\ t = u THEN local[r][u] ELSE server[n][t]
  BY PushTicketRefs
<1>3. tracking' = tracking /\ IsPrefix(server[m][u], local[r][u])
  BY DEF PushTicket, CanFastForward
<1>4. ASSUME NEW q \in Replicas, NEW n \in Remotes, NEW t \in Tickets
      PROVE  IsPrefix(tracking'[q][n][t], server'[n][t])
  <2>1. IsPrefix(tracking[q][n][t], server[n][t])
    BY DEF TrackingBehindServer
  <2>2. CASE n = m /\ t = u
    BY <1>1, <1>2, <1>3, <2>1, <2>2, PrefixTransitive DEF Chain
  <2>3. CASE ~ (n = m /\ t = u)
    BY <1>2, <1>3, <2>1, <2>3
  <2>4. QED
    BY <2>2, <2>3
<1>5. QED
  BY <1>4 DEF TrackingBehindServer

LEMMA TrackingRemove ==
    ASSUME TypeInv, TrackingBehindServer,
           NEW r \in Replicas, NEW u \in Tickets, RemoveBug(r, u)
    PROVE  TrackingBehindServer'
<1>1. server \in [Remotes -> [Tickets -> Chain]]
  BY DEF TypeInv, TypeOK
<1>2. \A q \in Replicas, n \in Remotes, t \in Tickets : tracking'[q][n][t] =
         IF q = r /\ t = u THEN << >> ELSE tracking[q][n][t]
  BY RemoveBugRefs
<1>3. server' = server
  BY DEF RemoveBug
<1>4. ASSUME NEW q \in Replicas, NEW n \in Remotes, NEW t \in Tickets
      PROVE  IsPrefix(tracking'[q][n][t], server'[n][t])
  <2>1. IsPrefix(tracking[q][n][t], server[n][t])
    BY DEF TrackingBehindServer
  <2>2. IsPrefix(<< >>, server[n][t])
    BY <1>1, EmptyPrefix DEF Chain
  <2>3. QED
    BY <1>2, <1>3, <2>1, <2>2
<1>5. QED
  BY <1>4 DEF TrackingBehindServer

LEMMA TrackingInit == Init => TrackingBehindServer
<1> SUFFICES ASSUME Init PROVE TrackingBehindServer
  OBVIOUS
<1>1. IsPrefix(<< >>, << >>)
  BY DEF IsPrefix
<1>2. QED
  BY <1>1 DEF Init, TrackingBehindServer

LEMMA TrackingStep ==
    TypeInv /\ TrackingBehindServer /\ [Next]_vars => TrackingBehindServer'
<1> SUFFICES ASSUME TypeInv, TrackingBehindServer, [Next]_vars
             PROVE  TrackingBehindServer'
  OBVIOUS
<1>1. ASSUME NEW r \in Replicas, NEW m \in Remotes, StartPull(r, m)
      PROVE  TrackingBehindServer'
  BY <1>1, TrackingPull
<1>2. ASSUME NEW r \in Replicas, NEW m \in Remotes, Push(r, m)
      PROVE  TrackingBehindServer'
  BY <1>2, TrackingPush
<1>3. ASSUME NEW r \in Replicas, NEW m \in Remotes, NEW t \in Tickets,
             PushTicket(r, m, t)
      PROVE  TrackingBehindServer'
  BY <1>3, TrackingPushTicket
<1>4. ASSUME NEW r \in Replicas, NEW t \in Tickets, RemoveBug(r, t)
      PROVE  TrackingBehindServer'
  BY <1>4, TrackingRemove
<1>5. CASE UNCHANGED <<tracking, server>>
  BY <1>5 DEF TrackingBehindServer
<1>6. ASSUME NEW r \in Replicas, PrivateStep(r)
      PROVE  TrackingBehindServer'
  BY <1>5, <1>6, PrivateSteps
<1>7. CASE UNCHANGED vars
  BY <1>5, <1>7 DEF vars
<1>8. QED
  BY <1>1, <1>2, <1>3, <1>4, <1>6, <1>7 DEF Next, PrivateStep

(* A tracking ref is always a cut of the history its remote has, so the    *)
(* fetch of a pull never meets a ref that is not a fast-forward, whatever  *)
(* is rebased, pushed, removed or reset, with any number of remotes.       *)
THEOREM TrackingCorrect == Spec => []TrackingBehindServer
<1>1. Init => TypeInv /\ TrackingBehindServer
  BY TypeInvInit, TrackingInit
<1>2. TypeInv /\ TrackingBehindServer /\ [Next]_vars
        => TypeInv' /\ TrackingBehindServer'
  BY TypeInvStep, TrackingStep
<1>3. QED
  BY <1>1, <1>2, PTL DEF Spec

-----------------------------------------------------------------------------
(* TicketSync implements PublishedHistory *)

LEMMA PublishStep ==
    ASSUME TypeInv, NEW r \in Replicas, NEW m \in Remotes, Push(r, m)
    PROVE  History!Publish(r, m)
<1>1. /\ server' \in [Remotes -> [Tickets -> Chain]]
      /\ \A n \in Remotes, u \in Tickets : server'[n][u] =
           IF n = m /\ u \in ToPush(r, m) THEN local[r][u] ELSE server[n][u]
      /\ \A q \in Replicas, n \in Remotes, u \in Tickets :
           tracking'[q][n][u] =
             IF q = r /\ n = m /\ u \in ToPush(r, m)
             THEN local[r][u] ELSE tracking[q][n][u]
  BY PushRefs
<1>2. server \in [Remotes -> [Tickets -> Chain]]
  BY DEF TypeInv, TypeOK
<1>3. \A n \in Remotes \ {m} : server'[n] = server[n]
  BY <1>1, <1>2
<1>4. ASSUME NEW t \in Tickets
      PROVE  IsPrefix(server[m][t], server'[m][t])
  <2>1. IsPrefix(server[m][t], server[m][t])
    BY <1>2, PrefixReflexive DEF Chain
  <2>2. t \in ToPush(r, m) => IsPrefix(server[m][t], local[r][t])
    BY DEF Push, CanFastForward
  <2>3. QED
    BY <1>1, <2>1, <2>2
<1>5. ASSUME NEW q \in Replicas, NEW n \in Remotes, NEW t \in Tickets
      PROVE  \/ tracking'[q][n][t] = tracking[q][n][t]
             \/ q = r /\ n = m /\ tracking'[q][n][t] = server'[n][t]
  BY <1>1
<1>6. QED
  BY <1>3, <1>4, <1>5 DEF History!Publish, IsPrefix, History!IsPrefix

LEMMA PublishTicketStep ==
    ASSUME TypeInv, NEW r \in Replicas, NEW m \in Remotes, NEW t \in Tickets,
           PushTicket(r, m, t)
    PROVE  History!Publish(r, m)
<1>1. /\ server' \in [Remotes -> [Tickets -> Chain]]
      /\ \A n \in Remotes, u \in Tickets : server'[n][u] =
           IF n = m /\ u = t THEN local[r][t] ELSE server[n][u]
  BY PushTicketRefs
<1>2. server \in [Remotes -> [Tickets -> Chain]]
  BY DEF TypeInv, TypeOK
<1>3. tracking' = tracking /\ IsPrefix(server[m][t], local[r][t])
  BY DEF PushTicket, CanFastForward
<1>4. \A n \in Remotes \ {m} : server'[n] = server[n]
  BY <1>1, <1>2
<1>5. ASSUME NEW u \in Tickets
      PROVE  IsPrefix(server[m][u], server'[m][u])
  <2>1. IsPrefix(server[m][u], server[m][u])
    BY <1>2, PrefixReflexive DEF Chain
  <2>2. QED
    BY <1>1, <1>3, <2>1
<1>6. QED
  BY <1>3, <1>4, <1>5 DEF History!Publish, IsPrefix, History!IsPrefix

LEMMA HistoryStep == TypeInv /\ [Next]_vars => [History!Next]_(History!vars)
<1> SUFFICES ASSUME TypeInv, [Next]_vars
             PROVE  [History!Next]_(History!vars)
  OBVIOUS
<1>1. ASSUME NEW r \in Replicas, NEW m \in Remotes, StartPull(r, m)
      PROVE  History!Next
  <2>1. History!Learn(r, m)
    BY <1>1 DEF StartPull, History!Learn
  <2>2. QED
    BY <2>1 DEF History!Next
<1>2. ASSUME NEW r \in Replicas, NEW m \in Remotes, Push(r, m)
      PROVE  History!Next
  BY <1>2, PublishStep DEF History!Next
<1>3. ASSUME NEW r \in Replicas, NEW m \in Remotes, NEW t \in Tickets,
             PushTicket(r, m, t)
      PROVE  History!Next
  BY <1>3, PublishTicketStep DEF History!Next
<1>4. ASSUME NEW r \in Replicas, NEW t \in Tickets, RemoveBug(r, t)
      PROVE  History!Next
  <2>1. History!Forget(r, t)
    BY <1>4 DEF RemoveBug, History!Forget
  <2>2. QED
    BY <2>1 DEF History!Next
<1>5. CASE UNCHANGED <<tracking, server>>
  BY <1>5 DEF History!vars
<1>6. ASSUME NEW r \in Replicas, PrivateStep(r)
      PROVE  [History!Next]_(History!vars)
  BY <1>5, <1>6, PrivateSteps
<1>7. CASE UNCHANGED vars
  BY <1>5, <1>7 DEF vars
<1>8. QED
  BY <1>1, <1>2, <1>3, <1>4, <1>6, <1>7 DEF Next, PrivateStep

(* Clones that pull, merge, rebase, push, remove and reset implement the   *)
(* abstract append-only history: no remote ever takes a commit back, and a *)
(* clone records of a remote only what the remote has published.           *)
THEOREM ImplementsHistory == Spec => PublishesHistory
<1>1. Init => History!Init
  BY DEF Init, History!Init
<1>2. QED
  BY <1>1, TypeInvInit, TypeInvStep, HistoryStep, PTL
     DEF Spec, PublishesHistory, History!Spec

-----------------------------------------------------------------------------
(* A pull loses nothing *)

LEMMA MergeKeepsPacks ==
    ASSUME TypeInv, NEW r \in Replicas, NEW m \in Remotes, NEW t \in Tickets,
           MergeTicket(r, m, t), NEW q \in Replicas, NEW u \in Tickets
    PROVE  PackIds(local[q][u]) \subseteq PackIds(local'[q][u])
<1>1. /\ local \in [Replicas -> [Tickets -> Chain]]
      /\ tracking \in [Replicas -> [Remotes -> [Tickets -> Chain]]]
  BY DEF TypeInv, TypeOK
<1>2. CASE local' = local
  BY <1>2
<1>3. CASE CopyNew(r, m, t)
  <2>1. /\ local' = [local EXCEPT ![r][t] = tracking[r][m][t]]
        /\ local[r][t] = << >>
    BY <1>3 DEF CopyNew
  <2>2. local'[q][u] = local[q][u] \/ local[q][u] = << >>
    BY <1>1, <2>1
  <2>3. QED
    BY <2>2, EmptyChain
<1>4. CASE MergeUpdated(r, m, t)
  <2>1. PICK x : x = Rebase(local[r][t], tracking[r][m][t], r)
    OBVIOUS
  <2>2. PackIds(local[r][t]) \subseteq PackIds(x)
    BY <1>1, <2>1, RebaseKeepsPacks
  <2>3. local' = [local EXCEPT ![r][t] = x]
    BY <1>4, <2>1 DEF MergeUpdated
  <2>4. \/ local'[q][u] = local[q][u]
        \/ q = r /\ u = t /\ local'[q][u] = x
    BY <1>1, <2>3
  <2>5. QED
    BY <2>2, <2>4
<1>5. CASE SkipUpToDate(r, m, t) \/ SkipInvalid(r, m, t)
  BY <1>2, <1>5 DEF SkipUpToDate, SkipInvalid
<1>6. CASE MergeConflict(r, m, t)
  BY <1>2, <1>6 DEF MergeConflict
<1>7. QED
  BY <1>3, <1>4, <1>5, <1>6 DEF MergeTicket


LEMMA CommitKeepsPacks ==
    ASSUME TypeInv, NEW r \in Replicas, NEW t \in Tickets,
           NEW s \in Statuses \cup {NoChange}, CommitOps(r, t, s),
           NEW q \in Replicas, NEW u \in Tickets
    PROVE  PackIds(local[q][u]) \subseteq PackIds(local'[q][u])
<1>1. PICK c : c = [pack |-> Len(packs) + 1, by |-> r]
  OBVIOUS
<1>2. PICK x : x = Append(local[r][t], c)
  OBVIOUS
<1>3. local \in [Replicas -> [Tickets -> Chain]] /\ Len(packs) + 1 \in Nat
  BY DEF TypeInv, TypeOK
<1>4. PackIds(x) = PackIds(local[r][t]) \cup {Len(packs) + 1}
  BY <1>1, <1>2, <1>3, AppendCommit
<1>5. local' = [local EXCEPT ![r][t] = x]
  BY <1>1, <1>2 DEF CommitOps
<1>6. \/ local'[q][u] = local[q][u]
      \/ q = r /\ u = t /\ local'[q][u] = x
  BY <1>3, <1>5
<1>7. QED
  BY <1>4, <1>6

(* A ticket that is created has no ref anywhere yet. *)
LEMMA NewTicketKeepsPacks ==
    ASSUME TypeInv, NEW r \in Replicas, NEW t \in Tickets, NewTicket(r, t),
           NEW q \in Replicas, NEW u \in Tickets
    PROVE  PackIds(local[q][u]) \subseteq PackIds(local'[q][u])
<1>1. local \in [Replicas -> [Tickets -> Chain]]
  BY DEF TypeInv, TypeOK
<1>2. Stored(t, local[r][t]) /\ \A i \in DOMAIN packs : packs[i].ticket # t
  BY DEF NewTicket, TypeInv, KnownPacks
<1>3. PackIds(local[r][t]) = {}
  BY <1>2 DEF Stored
<1>4. PICK x : local' = [local EXCEPT ![r][t] = x]
  BY DEF NewTicket
<1>5. local'[q][u] = local[q][u] \/ (q = r /\ u = t)
  BY <1>1, <1>4
<1>6. QED
  BY <1>3, <1>5

LEMMA NothingLostStep ==
    ASSUME TypeInv, [Next]_vars
    PROVE  \A q \in Replicas, u \in Tickets :
             \/ PackIds(local[q][u]) \subseteq PackIds(local'[q][u])
             \/ RemoveBug(q, u)
             \/ \E m \in Remotes : ResetBug(q, m, u)
<1> SUFFICES ASSUME NEW q \in Replicas, NEW u \in Tickets,
                    ~ RemoveBug(q, u), \A m \in Remotes : ~ ResetBug(q, m, u)
             PROVE  PackIds(local[q][u]) \subseteq PackIds(local'[q][u])
  OBVIOUS
<1> DEFINE Kept == PackIds(local[q][u]) \subseteq PackIds(local'[q][u])
<1>1. local \in [Replicas -> [Tickets -> Chain]]
  BY DEF TypeInv, TypeOK
<1>2. ASSUME NEW r \in Replicas, NEW t \in Tickets, NewTicket(r, t)
      PROVE  Kept
  BY <1>2, NewTicketKeepsPacks
<1>3. ASSUME NEW r \in Replicas, NEW t \in Tickets,
             NEW s \in Statuses \cup {NoChange}, CommitOps(r, t, s)
      PROVE  Kept
  BY <1>3, CommitKeepsPacks
<1>4. ASSUME NEW r \in Replicas, NEW m \in Remotes, NEW t \in Tickets,
             MergeTicket(r, m, t)
      PROVE  Kept
  BY <1>4, MergeKeepsPacks
<1>5. ASSUME NEW r \in Replicas, NEW t \in Tickets, RemoveBug(r, t)
      PROVE  Kept
  <2>1. local' = [local EXCEPT ![r][t] = << >>] /\ ~ (r = q /\ t = u)
    BY <1>5 DEF RemoveBug
  <2>2. local'[q][u] = local[q][u]
    BY <1>1, <2>1
  <2>3. QED
    BY <2>2
<1>6. ASSUME NEW r \in Replicas, NEW m \in Remotes, NEW t \in Tickets,
             ResetBug(r, m, t)
      PROVE  Kept
  <2>1. /\ local' = [local EXCEPT ![r][t] = tracking[r][m][t]]
        /\ ~ (r = q /\ t = u)
    BY <1>6 DEF ResetBug
  <2>2. local'[q][u] = local[q][u]
    BY <1>1, <2>1
  <2>3. QED
    BY <2>2
<1>7. ASSUME local' = local
      PROVE  Kept
  BY <1>7
<1>8. ASSUME NEW r \in Replicas
      PROVE  /\ \A m \in Remotes : StartPull(r, m) \/ Push(r, m) => Kept
             /\ \A m \in Remotes, t \in Tickets : PushTicket(r, m, t) => Kept
             /\ Abort(r) \/ RebuildClocks(r) => Kept
  BY <1>7 DEF StartPull, Push, PushTicket, Abort, RebuildClocks
<1>9. ASSUME UNCHANGED vars
      PROVE  Kept
  BY <1>7, <1>9 DEF vars
<1> HIDE DEF Kept
<1>10. ASSUME Next
       PROVE  Kept
  <2>1. PICK r \in Replicas :
          \/ \E t \in Tickets : NewTicket(r, t)
          \/ \E t \in Tickets, s \in Statuses \cup {NoChange} :
                CommitOps(r, t, s)
          \/ \E m \in Remotes : StartPull(r, m)
          \/ \E m \in Remotes, t \in Tickets : MergeTicket(r, m, t)
          \/ Abort(r)
          \/ \E m \in Remotes : Push(r, m)
          \/ \E m \in Remotes, t \in Tickets : PushTicket(r, m, t)
          \/ \E t \in Tickets : RemoveBug(r, t)
          \/ \E m \in Remotes, t \in Tickets : ResetBug(r, m, t)
          \/ RebuildClocks(r)
    BY <1>10 DEF Next
  <2>2. QED
    BY <1>2, <1>3, <1>4, <1>5, <1>6, <1>8, <2>1
<1>11. QED
  <2>1. Kept
    BY <1>9, <1>10
  <2>2. QED
    BY <2>1 DEF Kept

(* The operations in a local ticket stay there, whatever is pulled, rebased*)
(* or pushed and whenever a merge is interrupted, until the user removes or*)
(* resets that very ticket.                                                *)
THEOREM NothingIsLost == Spec => NothingLost
<1>1. TypeInv /\ [Next]_vars =>
        [\A r \in Replicas, t \in Tickets :
           \/ PackIds(local[r][t]) \subseteq PackIds(local'[r][t])
           \/ RemoveBug(r, t)
           \/ \E m \in Remotes : ResetBug(r, m, t)]_vars
  BY NothingLostStep
<1>2. QED
  BY <1>1, TypeInvInit, TypeInvStep, PTL DEF Spec, NothingLost

-----------------------------------------------------------------------------
(* What a step stores *)

(* A step stores one tree or none, and only two commands store one.        *)
LEMMA PacksStep ==
    ASSUME TypeInv, [Next]_vars
    PROVE  \/ packs' = packs
           \/ \E r \in Replicas, t \in Tickets : NewTicket(r, t)
           \/ \E r \in Replicas, t \in Tickets, s \in Statuses \cup {NoChange} :
                CommitOps(r, t, s)
<1>1. ASSUME NEW r \in Replicas, NEW m \in Remotes, NEW t \in Tickets,
             MergeTicket(r, m, t)
      PROVE  packs' = packs
  <2>1. SkipUpToDate(r, m, t) \/ SkipInvalid(r, m, t) => packs' = packs
    BY DEF SkipUpToDate, SkipInvalid
  <2>2. CopyNew(r, m, t) => packs' = packs
    BY DEF CopyNew
  <2>3. MergeUpdated(r, m, t) => packs' = packs
    BY DEF MergeUpdated
  <2>4. MergeConflict(r, m, t) => packs' = packs
    BY DEF MergeConflict
  <2>5. QED
    BY <1>1, <2>1, <2>2, <2>3, <2>4 DEF MergeTicket
<1>2. ASSUME NEW r \in Replicas
      PROVE  /\ \A m \in Remotes : StartPull(r, m) \/ Push(r, m) => packs' = packs
             /\ \A m \in Remotes, t \in Tickets :
                  PushTicket(r, m, t) \/ ResetBug(r, m, t) => packs' = packs
             /\ \A t \in Tickets : RemoveBug(r, t) => packs' = packs
             /\ Abort(r) \/ RebuildClocks(r) => packs' = packs
  BY DEF StartPull, Push, PushTicket, ResetBug, RemoveBug, Abort, RebuildClocks
<1>3. UNCHANGED vars => packs' = packs
  BY DEF vars
<1>4. QED
  BY <1>1, <1>2, <1>3 DEF Next

(* The tree stored by a new ticket, and by the operations of a command.    *)
LEMMA NewTicketTree ==
    ASSUME TypeInv, NEW r \in Replicas, NEW t \in Tickets, NewTicket(r, t),
           NEW x, x = [ticket |-> t, status |-> NoChange,
                       create |-> clock[r].create, edit |-> clock[r].edit,
                       seen |-> Visible(r)]
    PROVE  x \in Pack /\ packs' = Append(packs, x)
<1>1. Visible(r) \subseteq Nat
  BY VisibleStored DEF TypeInv, TypeOK
<1>2. clock[r] \in [create : Nat, edit : Nat]
  BY DEF TypeInv, TypeOK
<1>3. QED
  BY <1>1, <1>2 DEF Pack, NewTicket

LEMMA CommitOpsTree ==
    ASSUME TypeInv, NEW r \in Replicas, NEW t \in Tickets,
           NEW s \in Statuses \cup {NoChange}, CommitOps(r, t, s),
           NEW now, now = Witness(clock[r], local[r][t]),
           NEW x, x = [ticket |-> t, status |-> s, create |-> 0,
                       edit |-> now.edit, seen |-> Visible(r)]
    PROVE  x \in Pack /\ packs' = Append(packs, x)
<1>1. Visible(r) \subseteq Nat
  BY VisibleStored DEF TypeInv, TypeOK
<1>2. now \in [create : Nat, edit : Nat]
  <2>1. Stored(t, local[r][t])
    BY DEF TypeInv, KnownPacks
  <2>2. QED
    BY <2>1, WitnessClock
<1>3. packs' = Append(packs, x)
  BY DEF CommitOps
<1>4. QED
  BY <1>1, <1>2, <1>3 DEF Pack

(* Trees are never changed. *)
LEMMA TreesStay ==
    ASSUME TypeInv, [Next]_vars, NEW p \in DOMAIN packs
    PROVE  p \in DOMAIN packs' /\ packs'[p] = packs[p]
<1>1. TypeOK
  BY DEF TypeInv
<1>2. ASSUME NEW x \in Pack, packs' = Append(packs, x)
      PROVE  p \in DOMAIN packs' /\ packs'[p] = packs[p]
  BY <1>1, <1>2, StoreTree
<1>3. ASSUME NEW r \in Replicas, NEW t \in Tickets, NewTicket(r, t)
      PROVE  \E x \in Pack : packs' = Append(packs, x)
  BY <1>3, NewTicketTree
<1>4. ASSUME NEW r \in Replicas, NEW t \in Tickets,
             NEW s \in Statuses \cup {NoChange}, CommitOps(r, t, s)
      PROVE  \E x \in Pack : packs' = Append(packs, x)
  BY <1>4, CommitOpsTree
<1>5. QED
  BY <1>2, <1>3, <1>4, PacksStep

-----------------------------------------------------------------------------
(* Which chains a step makes *)

LEMMA ChainsOfRefs ==
    ASSUME NEW t \in Tickets
    PROVE  /\ \A r \in Replicas : local[r][t] \in Chains(t)
           /\ \A m \in Remotes : server[m][t] \in Chains(t)
           /\ \A r \in Replicas, m \in Remotes : tracking[r][m][t] \in Chains(t)
BY DEF Chains

LEMMA ChainsStored ==
    ASSUME TypeInv, NEW t \in Tickets, NEW c \in Chains(t)
    PROVE  c \in Chain /\ Stored(t, c)
BY DEF TypeInv, TypeOK, KnownPacks, Chains

(* The chain a ref points to after a step of the clone r on ticket t. *)
Extended(r, t) ==
    \/ local'[r][t] = <<[pack |-> Len(packs) + 1, by |-> r]>> /\ NewTicket(r, t)
    \/ /\ local'[r][t] = Append(local[r][t], [pack |-> Len(packs) + 1, by |-> r])
       /\ \E s \in Statuses \cup {NoChange} : CommitOps(r, t, s)
    \/ \E m \in Remotes :
         /\ local'[r][t] = Rebase(local[r][t], tracking[r][m][t], r)
         /\ MergeUpdated(r, m, t)

(* A step on the local refs: every local ref but those of r and t stays.   *)
LEMMA LocalSteps ==
    ASSUME TypeInv, [Next]_vars, NEW q \in Replicas, NEW u \in Tickets
    PROVE  \/ local'[q][u] = local[q][u]
           \/ local'[q][u] = << >>
           \/ \E m \in Remotes :
                /\ local'[q][u] = tracking[q][m][u]
                /\ \/ CopyNew(q, m, u)
                   \/ ResetBug(q, m, u)
           \/ Extended(q, u)
<1> DEFINE Result ==
             \/ local'[q][u] = local[q][u]
             \/ local'[q][u] = << >>
             \/ \E m \in Remotes :
                  /\ local'[q][u] = tracking[q][m][u]
                  /\ \/ CopyNew(q, m, u)
                     \/ ResetBug(q, m, u)
             \/ Extended(q, u)
<1>1. local \in [Replicas -> [Tickets -> Chain]]
  BY DEF TypeInv, TypeOK
<1>2. ASSUME NEW r \in Replicas, NEW t \in Tickets, NEW x,
             local' = [local EXCEPT ![r][t] = x]
      PROVE  local'[q][u] = IF q = r /\ u = t THEN x ELSE local[q][u]
  BY <1>1, <1>2
<1>3. ASSUME NEW r \in Replicas, NEW t \in Tickets, NewTicket(r, t)
      PROVE  Result
  <2>1. local' = [local EXCEPT ![r][t] = <<[pack |-> Len(packs) + 1, by |-> r]>>]
    BY <1>3 DEF NewTicket
  <2>2. QED
    BY <1>2, <1>3, <2>1 DEF Extended
<1>4. ASSUME NEW r \in Replicas, NEW t \in Tickets,
             NEW s \in Statuses \cup {NoChange}, CommitOps(r, t, s)
      PROVE  Result
  <2>1. local' = [local EXCEPT ![r][t] =
                    Append(local[r][t], [pack |-> Len(packs) + 1, by |-> r])]
    BY <1>4 DEF CommitOps
  <2>2. QED
    BY <1>2, <1>4, <2>1 DEF Extended
<1>5. ASSUME NEW r \in Replicas, NEW m \in Remotes, NEW t \in Tickets,
             CopyNew(r, m, t) \/ ResetBug(r, m, t)
      PROVE  Result
  <2>1. local' = [local EXCEPT ![r][t] = tracking[r][m][t]]
    BY <1>5 DEF CopyNew, ResetBug
  <2>2. QED
    BY <1>2, <1>5, <2>1
<1>6. ASSUME NEW r \in Replicas, NEW m \in Remotes, NEW t \in Tickets,
             MergeUpdated(r, m, t)
      PROVE  Result
  <2>1. local' = [local EXCEPT ![r][t] =
                    Rebase(local[r][t], tracking[r][m][t], r)]
    BY <1>6 DEF MergeUpdated
  <2>2. QED
    BY <1>2, <1>6, <2>1 DEF Extended
<1>7. ASSUME NEW r \in Replicas, NEW t \in Tickets, RemoveBug(r, t)
      PROVE  Result
  BY <1>2, <1>7 DEF RemoveBug
<1>8. CASE local' = local
  BY <1>8
<1>9. ASSUME NEW r \in Replicas, NEW m \in Remotes, NEW t \in Tickets,
             MergeTicket(r, m, t)
      PROVE  Result
  <2>1. CASE SkipUpToDate(r, m, t) \/ SkipInvalid(r, m, t)
    BY <1>8, <2>1 DEF SkipUpToDate, SkipInvalid
  <2>2. CASE MergeConflict(r, m, t)
    BY <1>8, <2>2 DEF MergeConflict
  <2>3. QED
    BY <1>5, <1>6, <1>9, <2>1, <2>2 DEF MergeTicket
<1>10. ASSUME NEW r \in Replicas
       PROVE  /\ \A m \in Remotes : StartPull(r, m) \/ Push(r, m) => Result
              /\ \A m \in Remotes, t \in Tickets : PushTicket(r, m, t) => Result
              /\ Abort(r) \/ RebuildClocks(r) => Result
  BY <1>8 DEF StartPull, Push, PushTicket, Abort, RebuildClocks
<1>11. UNCHANGED vars => Result
  BY <1>8 DEF vars
<1> HIDE DEF Result
<1>12. Result
  <2>1. CASE Next
    <3>1. PICK r \in Replicas :
            \/ \E t \in Tickets : NewTicket(r, t)
            \/ \E t \in Tickets, s \in Statuses \cup {NoChange} :
                  CommitOps(r, t, s)
            \/ \E m \in Remotes : StartPull(r, m)
            \/ \E m \in Remotes, t \in Tickets : MergeTicket(r, m, t)
            \/ Abort(r)
            \/ \E m \in Remotes : Push(r, m)
            \/ \E m \in Remotes, t \in Tickets : PushTicket(r, m, t)
            \/ \E t \in Tickets : RemoveBug(r, t)
            \/ \E m \in Remotes, t \in Tickets : ResetBug(r, m, t)
            \/ RebuildClocks(r)
      BY <2>1 DEF Next
    <3>2. QED
      BY <1>3, <1>4, <1>5, <1>7, <1>9, <1>10, <3>1
  <2>2. QED
    BY <1>11, <2>1
<1>13. QED
  BY <1>12 DEF Result

(* A remote ref is only moved by a push, forward, to a local ref.          *)
LEMMA ServerSteps ==
    ASSUME TypeInv, [Next]_vars, NEW m \in Remotes, NEW t \in Tickets
    PROVE  \/ server'[m][t] = server[m][t]
           \/ \E r \in Replicas :
                /\ server'[m][t] = local[r][t]
                /\ IsPrefix(server[m][t], local[r][t])
                /\ local' = local
<1>1. ASSUME NEW r \in Replicas, NEW n \in Remotes, Push(r, n)
      PROVE  \/ server'[m][t] = server[m][t]
             \/ /\ server'[m][t] = local[r][t]
                /\ IsPrefix(server[m][t], local[r][t])
                /\ local' = local
  <2>1. server'[m][t] = IF m = n /\ t \in ToPush(r, n) THEN local[r][t]
                                                      ELSE server[m][t]
    BY <1>1, PushRefs
  <2>2. QED
    BY <1>1, <2>1 DEF Push, CanFastForward
<1>2. ASSUME NEW r \in Replicas, NEW n \in Remotes, NEW u \in Tickets,
             PushTicket(r, n, u)
      PROVE  \/ server'[m][t] = server[m][t]
             \/ /\ server'[m][t] = local[r][t]
                /\ IsPrefix(server[m][t], local[r][t])
                /\ local' = local
  <2>1. server'[m][t] = IF m = n /\ t = u THEN local[r][u] ELSE server[m][t]
    BY <1>2, PushTicketRefs
  <2>2. QED
    BY <1>2, <2>1 DEF PushTicket, CanFastForward
<1>3. ASSUME NEW r \in Replicas
      PROVE  /\ \A n \in Remotes : StartPull(r, n) => server' = server
             /\ \A u \in Tickets : RemoveBug(r, u) => server' = server
             /\ PrivateStep(r) => server' = server
  BY PrivateSteps DEF StartPull, RemoveBug
<1>4. UNCHANGED vars => server' = server
  BY DEF vars
<1>5. CASE server' = server
  BY <1>5
<1>6. QED
  BY <1>1, <1>2, <1>3, <1>4, <1>5 DEF Next, PrivateStep

LEMMA TrackingSteps ==
    ASSUME TypeInv, [Next]_vars,
           NEW r \in Replicas, NEW m \in Remotes, NEW t \in Tickets
    PROVE  \/ tracking'[r][m][t] = tracking[r][m][t]
           \/ tracking'[r][m][t] = << >>
           \/ tracking'[r][m][t] = server[m][t]
           \/ tracking'[r][m][t] = local[r][t]
<1> DEFINE Result == \/ tracking'[r][m][t] = tracking[r][m][t]
                     \/ tracking'[r][m][t] = << >>
                     \/ tracking'[r][m][t] = server[m][t]
                     \/ tracking'[r][m][t] = local[r][t]
<1>1. ASSUME NEW q \in Replicas, NEW n \in Remotes, StartPull(q, n)
      PROVE  Result
  <2>1. tracking \in [Replicas -> [Remotes -> [Tickets -> Chain]]]
    BY DEF TypeInv, TypeOK
  <2>2. tracking' = [tracking EXCEPT ![q][n] = server[n]]
    BY <1>1 DEF StartPull
  <2>3. QED
    BY <2>1, <2>2
<1>2. ASSUME NEW q \in Replicas, NEW n \in Remotes, Push(q, n)
      PROVE  Result
  <2>1. tracking'[r][m][t] = IF r = q /\ m = n /\ t \in ToPush(q, n)
                             THEN local[q][t] ELSE tracking[r][m][t]
    BY <1>2, PushRefs
  <2>2. QED
    BY <2>1
<1>3. ASSUME NEW q \in Replicas, NEW u \in Tickets, RemoveBug(q, u)
      PROVE  Result
  BY <1>3, RemoveBugRefs
<1>4. ASSUME tracking' = tracking
      PROVE  Result
  BY <1>4
<1>5. ASSUME NEW q \in Replicas
      PROVE  /\ PrivateStep(q) => Result
             /\ \A n \in Remotes, u \in Tickets : PushTicket(q, n, u) => Result
  BY <1>4, PrivateSteps DEF PushTicket
<1>6. UNCHANGED vars => Result
  BY <1>4 DEF vars
<1> HIDE DEF Result
<1>7. Result
  <2>1. CASE Next
    BY <1>1, <1>2, <1>3, <1>5, <2>1 DEF Next, PrivateStep
  <2>2. QED
    BY <1>6, <2>1
<1>8. QED
  BY <1>7 DEF Result

(* Every chain there is after a step was there before, or is empty, or was *)
(* made by this step: a new ticket, a commit, or a rebase.                 *)
LEMMA NewChains ==
    ASSUME TypeInv, [Next]_vars, NEW t \in Tickets, NEW c \in Chains(t)'
    PROVE  \/ c \in Chains(t)
           \/ c = << >>
           \/ \E r \in Replicas : c = local'[r][t] /\ Extended(r, t)
<1>1. ASSUME NEW r \in Replicas, c = local'[r][t]
      PROVE  \/ c \in Chains(t)
             \/ c = << >>
             \/ c = local'[r][t] /\ Extended(r, t)
  BY <1>1, LocalSteps, ChainsOfRefs
<1>2. ASSUME NEW m \in Remotes, c = server'[m][t]
      PROVE  c \in Chains(t)
  BY <1>2, ServerSteps, ChainsOfRefs
<1>3. ASSUME NEW r \in Replicas, NEW m \in Remotes, c = tracking'[r][m][t]
      PROVE  c \in Chains(t) \/ c = << >>
  BY <1>3, TrackingSteps, ChainsOfRefs
<1>4. \/ \E r \in Replicas : c = local'[r][t]
      \/ \E m \in Remotes : c = server'[m][t]
      \/ \E r \in Replicas, m \in Remotes : c = tracking'[r][m][t]
  BY DEF Chains
<1>5. QED
  BY <1>1, <1>2, <1>3, <1>4

-----------------------------------------------------------------------------
(* Causal order *)

(* What CausallyOrdered says of one chain of ticket t. *)
Ordered(t, c) ==
    \A i \in DOMAIN c :
        {p \in packs[c[i].pack].seen : packs[p].ticket = t}
          \subseteq {c[j].pack : j \in 1 .. i - 1}

LEMMA CausallyOrderedByChain ==
    CausallyOrdered <=> \A t \in Tickets : \A c \in Chains(t) : Ordered(t, c)
BY DEF CausallyOrdered, Ordered

(* The trees of a chain, and what their authors had seen, stay as they are.*)
LEMMA OrderedStays ==
    ASSUME TypeInv, [Next]_vars, NEW t \in Tickets,
           NEW c \in Chain, Stored(t, c), Ordered(t, c)
    PROVE  Ordered(t, c)'
<1> SUFFICES ASSUME NEW i \in DOMAIN c,
                    NEW p \in packs'[c[i].pack].seen, packs'[p].ticket = t
             PROVE  p \in {c[j].pack : j \in 1 .. i - 1}
  BY DEF Ordered
<1>1. c[i].pack \in DOMAIN packs
  BY DEF Stored, PackIds
<1>2. packs'[c[i].pack] = packs[c[i].pack]
  BY <1>1, TreesStay
<1>3. p \in DOMAIN packs
  <2>1. packs[c[i].pack].seen \subseteq 1 .. c[i].pack - 1
    BY <1>1 DEF TypeInv, KnownPacks
  <2>2. DOMAIN packs = 1 .. Len(packs) /\ Len(packs) \in Nat
    BY DEF TypeInv, TypeOK
  <2>3. QED
    BY <1>1, <1>2, <2>1, <2>2
<1>4. packs'[p] = packs[p]
  BY <1>3, TreesStay
<1>5. QED
  BY <1>2, <1>4 DEF Ordered

(* Rebased commits still come after what they follow: the other side is    *)
(* stored before them, and they keep their order.                          *)
LEMMA OrderedRebase ==
    ASSUME NEW t \in Tickets, NEW r \in Replicas,
           NEW ours \in Chain, NEW theirs \in Chain,
           Ordered(t, ours), Ordered(t, theirs)
    PROVE  Ordered(t, Rebase(ours, theirs, r))
<1> DEFINE k == CommonAncestor(ours, theirs)
           new == Rebase(ours, theirs, r)
<1>1. /\ new \in Seq(Commit)
      /\ Len(new) = Len(theirs) + (Len(ours) - k)
      /\ \A i \in 1 .. Len(theirs) : new[i] = theirs[i]
      /\ \A i \in Len(theirs) + 1 .. Len(new) :
            new[i].pack = ours[i - Len(theirs) + k].pack
  BY ChainCommits, RebaseProperties DEF Chain
<1>2. /\ k \in 0 .. Len(ours)
      /\ k <= Len(theirs)
      /\ \A i \in 1 .. k : ours[i] = theirs[i]
  BY CommonAncestorProperties DEF Chain
<1>3. /\ DOMAIN ours = 1 .. Len(ours) /\ Len(ours) \in Nat
      /\ DOMAIN theirs = 1 .. Len(theirs) /\ Len(theirs) \in Nat
      /\ DOMAIN new = 1 .. Len(new) /\ Len(new) \in Nat
  BY <1>1 DEF Chain
<1> HIDE DEF k, new
<1>4. ASSUME NEW i \in 1 .. Len(new),
             NEW p \in packs[new[i].pack].seen, packs[p].ticket = t
      PROVE  \E j \in 1 .. i - 1 : p = new[j].pack
  <2>1. CASE i <= Len(theirs)
    <3>1. i \in DOMAIN theirs /\ new[i] = theirs[i]
      BY <1>1, <1>3, <2>1
    <3>2. PICK j \in 1 .. i - 1 : p = theirs[j].pack
      BY <1>4, <3>1 DEF Ordered
    <3>3. new[j] = theirs[j]
      BY <1>1, <1>3, <2>1, <3>2
    <3>4. QED
      BY <3>2, <3>3
  <2>2. CASE i > Len(theirs)
    <3>1. PICK h : h = i - Len(theirs) + k
      OBVIOUS
    <3>2. h \in 1 .. Len(ours) /\ h > k /\ i \in Len(theirs) + 1 .. Len(new)
      BY <1>1, <1>2, <1>3, <2>2, <3>1
    <3>3. new[i].pack = ours[h].pack
      BY <1>1, <3>1, <3>2
    <3>4. PICK j \in 1 .. h - 1 : p = ours[j].pack
      BY <1>3, <1>4, <3>2, <3>3 DEF Ordered
    <3>5. CASE j <= k
      <4>1. j \in 1 .. i - 1 /\ new[j] = theirs[j] /\ ours[j] = theirs[j]
        BY <1>1, <1>2, <1>3, <2>2, <3>2, <3>4, <3>5
      <4>2. QED
        BY <3>4, <4>1
    <3>6. CASE j > k
      <4>1. PICK l : l = j + Len(theirs) - k
        OBVIOUS
      <4>2. /\ l \in 1 .. i - 1
            /\ l \in Len(theirs) + 1 .. Len(new)
            /\ l - Len(theirs) + k = j
        BY <1>1, <1>2, <1>3, <2>2, <3>1, <3>2, <3>4, <3>6, <4>1
      <4>3. new[l].pack = ours[j].pack
        BY <1>1, <4>2
      <4>4. QED
        BY <3>4, <4>2, <4>3
    <3>7. QED
      BY <1>2, <3>4, <3>5, <3>6
  <2>3. QED
    BY <1>3, <2>1, <2>2
<1>5. Ordered(t, new)
  BY <1>3, <1>4 DEF Ordered
<1>6. QED
  BY <1>5 DEF new

(* A commit is added on top of all its author has of the ticket.           *)
LEMMA OrderedCommit ==
    ASSUME TypeInv, [Next]_vars, NEW r \in Replicas, NEW t \in Tickets,
           NEW s \in Statuses \cup {NoChange}, CommitOps(r, t, s),
           Ordered(t, local[r][t]),
           NEW c, c = Append(local[r][t], [pack |-> Len(packs) + 1, by |-> r])
    PROVE  Ordered(t, c)'
<1>1. PICK old : old = local[r][t]
  OBVIOUS
<1>2. old \in Chain /\ Stored(t, old)
  BY <1>1 DEF TypeInv, TypeOK, KnownPacks
<1>3. Len(packs) \in Nat
  BY DEF TypeInv, TypeOK
<1>4. /\ Len(c) = Len(old) + 1
      /\ c \in Chain
      /\ \A i \in DOMAIN old : c[i] = old[i]
      /\ c[Len(old) + 1].pack = Len(packs) + 1
  BY <1>1, <1>2, <1>3, AppendCommit
<1>5. /\ DOMAIN old = 1 .. Len(old) /\ Len(old) \in Nat
      /\ DOMAIN c = 1 .. Len(old) + 1
  BY <1>2, <1>4 DEF Chain
<1>6. Ordered(t, old)'
  BY <1>1, <1>2, OrderedStays
<1>7. ASSUME NEW p \in packs'[Len(packs) + 1].seen, packs'[p].ticket = t
      PROVE  \E j \in 1 .. Len(old) : p = old[j].pack
  <2>1. PICK x \in Pack : packs' = Append(packs, x) /\ x.seen = Visible(r)
    <3>1. PICK now : now = Witness(clock[r], local[r][t])
      OBVIOUS
    <3>2. PICK x : x = [ticket |-> t, status |-> s, create |-> 0,
                        edit |-> now.edit, seen |-> Visible(r)]
      OBVIOUS
    <3>3. QED
      BY <3>1, <3>2, CommitOpsTree
  <2>2. p \in Visible(r) /\ p \in DOMAIN packs
    BY <1>7, <2>1, StoreTree, VisibleStored DEF TypeInv
  <2>3. PICK u \in Tickets : p \in PackIds(local[r][u])
    BY <2>2 DEF Visible
  <2>4. packs[p].ticket = u /\ packs'[p] = packs[p]
    BY <2>2, <2>3, TreesStay DEF TypeInv, KnownPacks, Stored
  <2>5. p \in PackIds(old)
    BY <1>1, <1>7, <2>3, <2>4
  <2>6. QED
    BY <1>5, <2>5 DEF PackIds
<1>8. ASSUME NEW i \in 1 .. Len(old) + 1,
             NEW p \in packs'[c[i].pack].seen, packs'[p].ticket = t
      PROVE  \E j \in 1 .. i - 1 : p = c[j].pack
  <2>1. CASE i <= Len(old)
    <3>1. i \in DOMAIN old /\ c[i] = old[i]
      BY <1>4, <1>5, <2>1
    <3>2. PICK j \in 1 .. i - 1 : p = old[j].pack
      BY <1>6, <1>8, <3>1 DEF Ordered
    <3>3. c[j] = old[j]
      BY <1>4, <1>5, <2>1, <3>2
    <3>4. QED
      BY <3>2, <3>3
  <2>2. CASE i = Len(old) + 1
    <3>1. PICK j \in 1 .. Len(old) : p = old[j].pack
      BY <1>4, <1>7, <1>8, <2>2
    <3>2. c[j] = old[j] /\ j \in 1 .. i - 1
      BY <1>4, <1>5, <2>2
    <3>3. QED
      BY <3>1, <3>2
  <2>3. QED
    BY <1>5, <2>1, <2>2
<1>9. \A i \in DOMAIN c : {p \in packs'[c[i].pack].seen : packs'[p].ticket = t}
                              \subseteq {c[j].pack : j \in 1 .. i - 1}
  <2>1. SUFFICES ASSUME NEW i \in DOMAIN c,
                        NEW p \in packs'[c[i].pack].seen, packs'[p].ticket = t
                 PROVE  p \in {c[j].pack : j \in 1 .. i - 1}
    OBVIOUS
  <2>2. i \in 1 .. Len(old) + 1
    BY <1>5
  <2>3. \E j \in 1 .. i - 1 : p = c[j].pack
    BY <1>8, <2>1, <2>2, Zenon
  <2>4. QED
    BY <2>3
<1>10. QED
  BY <1>9 DEF Ordered

(* Nothing of a new ticket can have been seen. *)
LEMMA OrderedNew ==
    ASSUME TypeInv, [Next]_vars, NEW r \in Replicas, NEW t \in Tickets,
           NewTicket(r, t),
           NEW c, c = <<[pack |-> Len(packs) + 1, by |-> r]>>
    PROVE  Ordered(t, c)'
<1>1. PICK x : x = [ticket |-> t, status |-> NoChange,
                    create |-> clock[r].create, edit |-> clock[r].edit,
                    seen |-> Visible(r)]
  OBVIOUS
<1>2. x \in Pack /\ packs' = Append(packs, x) /\ x.seen = Visible(r)
  BY <1>1, NewTicketTree
<1>3. packs'[Len(packs) + 1].seen = Visible(r)
  BY <1>2, StoreTree DEF TypeInv
<1>4. \A p \in Visible(r) : packs'[p].ticket # t
  BY VisibleStored, TreesStay DEF NewTicket
<1>5. DOMAIN c = {1} /\ c[1].pack = Len(packs) + 1
  OBVIOUS
<1>6. QED
  BY <1>3, <1>4, <1>5 DEF Ordered

LEMMA CausalOrderInit == Init => CausallyOrdered
BY DEF Init, CausallyOrdered, Chains

LEMMA CausalOrderStep ==
    TypeInv /\ CausallyOrdered /\ [Next]_vars => CausallyOrdered'
<1> SUFFICES ASSUME TypeInv, CausallyOrdered, [Next]_vars,
                    NEW t \in Tickets, NEW c \in Chains(t)'
             PROVE  Ordered(t, c)'
  BY DEF CausallyOrdered, Ordered
<1>1. ASSUME NEW d \in Chains(t)
      PROVE  d \in Chain /\ Stored(t, d) /\ Ordered(t, d)
  BY ChainsStored, CausallyOrderedByChain
<1>2. CASE c \in Chains(t)
  BY <1>1, <1>2, OrderedStays
<1>3. CASE c = << >>
  BY <1>3 DEF Ordered
<1>4. ASSUME NEW r \in Replicas, c = local'[r][t], Extended(r, t)
      PROVE  Ordered(t, c)'
  <2>1. CASE /\ local'[r][t] = <<[pack |-> Len(packs) + 1, by |-> r]>>
             /\ NewTicket(r, t)
    BY <1>4, <2>1, OrderedNew
  <2>2. CASE /\ local'[r][t] =
                  Append(local[r][t], [pack |-> Len(packs) + 1, by |-> r])
             /\ \E s \in Statuses \cup {NoChange} : CommitOps(r, t, s)
    BY <1>1, <1>4, <2>2, ChainsOfRefs, OrderedCommit
  <2>3. ASSUME NEW m \in Remotes, MergeUpdated(r, m, t),
               local'[r][t] = Rebase(local[r][t], tracking[r][m][t], r)
        PROVE  Ordered(t, c)'
    <3>1. PICK ours \in Chains(t), theirs \in Chains(t) :
             ours = local[r][t] /\ theirs = tracking[r][m][t]
      BY ChainsOfRefs
    <3>2. c = Rebase(ours, theirs, r)
      BY <1>4, <2>3, <3>1
    <3>3. Ordered(t, c)
      BY <1>1, <3>2, OrderedRebase
    <3>4. packs' = packs
      BY <2>3 DEF MergeUpdated
    <3>5. QED
      BY <3>3, <3>4 DEF Ordered
  <2>4. QED
    BY <1>4, <2>1, <2>2, <2>3 DEF Extended
<1>5. QED
  BY <1>2, <1>3, <1>4, NewChains

(* However commits are rebased, an operation comes after every operation   *)
(* its author had on that ticket, in every ref of every clone and remote,  *)
(* with any number of remotes, even when operations are duplicated.        *)
THEOREM CausalOrderCorrect == Spec => []CausallyOrdered
<1>1. Init => TypeInv /\ CausallyOrdered
  BY TypeInvInit, CausalOrderInit
<1>2. TypeInv /\ CausallyOrdered /\ [Next]_vars
        => TypeInv' /\ CausallyOrdered'
  BY TypeInvStep, CausalOrderStep
<1>3. QED
  BY <1>1, <1>2, PTL DEF Spec

-----------------------------------------------------------------------------
(* Lamport times *)

(* The clocks c are past the times of the packs of S. *)
Past(c, S) ==
    \A p \in S : packs[p].edit < c.edit /\ packs[p].create < c.create

(* The clocks of a clone are past every pack its local refs reach.  They   *)
(* may be behind the tracking refs, which a pull that stopped half way has *)
(* not read yet.                                                           *)
ClockPast == \A r \in Replicas : Past(clock[r], Visible(r))

LEMMA WitnessPast ==
    ASSUME TypeOK, NEW c \in [create : Nat, edit : Nat],
           NEW S, NEW seen, S \subseteq DOMAIN packs,
           seen \subseteq DOMAIN packs, Past(c, S)
    PROVE  Past(WitnessAll(c, seen), S \cup seen)
<1>1. PICK w : w = WitnessAll(c, seen)
  OBVIOUS
<1>2. /\ w \in [create : Nat, edit : Nat]
      /\ c.create <= w.create /\ c.edit <= w.edit
      /\ \A p \in seen : packs[p].create < w.create /\ packs[p].edit < w.edit
  BY <1>1, WitnessAllProperties
<1>3. ASSUME NEW p \in S
      PROVE  packs[p].edit < w.edit /\ packs[p].create < w.create
  <2>1. packs[p].edit \in Nat /\ packs[p].create \in Nat
    BY PackFields
  <2>2. packs[p].edit < c.edit /\ packs[p].create < c.create
    BY DEF Past
  <2>3. QED
    BY <1>2, <2>1, <2>2
<1>4. QED
  BY <1>1, <1>2, <1>3 DEF Past

(* A step that stores nothing: it is enough that every clone sees no more  *)
(* than its clocks are past.                                               *)
LEMMA PastKept ==
    ASSUME packs' = packs,
           \A q \in Replicas : Past(clock'[q], Visible(q)')
    PROVE  ClockPast'
BY DEF ClockPast, Past

(* Moving one local ref of r adds at most the packs of its new chain.      *)
LEMMA MovePast ==
    ASSUME TypeInv, ClockPast, NEW r \in Replicas, NEW t \in Tickets,
           NEW x \in Chain, packs' = packs,
           local' = [local EXCEPT ![r][t] = x],
           NEW w, clock' = [clock EXCEPT ![r] = w],
           Past(w, Visible(r) \cup PackIds(x))
    PROVE  ClockPast'
<1>1. /\ local \in [Replicas -> [Tickets -> Chain]]
      /\ clock \in [Replicas -> [create : Nat, edit : Nat]]
  BY DEF TypeInv, TypeOK
<1>2. \A q \in Replicas, u \in Tickets : local'[q][u] =
         IF q = r /\ u = t THEN x ELSE local[q][u]
  BY <1>1, SetRef
<1>3. ASSUME NEW q \in Replicas
      PROVE  Past(clock'[q], Visible(q)')
  <2>1. CASE q = r
    <3>1. clock'[q] = w
      BY <1>1, <2>1
    <3>2. Visible(q)' \subseteq Visible(r) \cup PackIds(x)
      BY <1>2, <2>1 DEF Visible
    <3>3. QED
      BY <3>1, <3>2 DEF Past
  <2>2. CASE q # r
    <3>1. clock'[q] = clock[q]
      BY <1>1, <2>2
    <3>2. Visible(q)' = Visible(q)
      BY <1>2, <2>2 DEF Visible
    <3>3. QED
      BY <3>1, <3>2 DEF Past, ClockPast
  <2>3. QED
    BY <2>1, <2>2
<1>4. QED
  BY <1>3, PastKept

LEMMA ReadPast ==
    ASSUME TypeInv, ClockPast, NEW r \in Replicas,
           NEW chain, NEW t \in Tickets, Stored(t, chain)
    PROVE  /\ Witness(clock[r], chain) \in [create : Nat, edit : Nat]
           /\ Past(Witness(clock[r], chain), Visible(r) \cup PackIds(chain))
<1>1. PackIds(chain) \subseteq DOMAIN packs /\ Visible(r) \subseteq DOMAIN packs
  BY VisibleStored DEF Stored
<1>2. clock[r] \in [create : Nat, edit : Nat] /\ TypeOK
  BY DEF TypeInv, TypeOK
<1>3. Past(clock[r], Visible(r))
  BY DEF ClockPast
<1>4. QED
  BY <1>1, <1>2, <1>3, WitnessPast, WitnessClock DEF Witness

LEMMA MergePast ==
    ASSUME TypeInv, ClockPast, NEW r \in Replicas, NEW m \in Remotes,
           NEW t \in Tickets, MergeTicket(r, m, t)
    PROVE  ClockPast'
<1>1. PICK ours \in Chain, theirs \in Chain :
         ours = local[r][t] /\ theirs = tracking[r][m][t]
  BY DEF TypeInv, TypeOK
<1>2. Stored(t, ours) /\ Stored(t, theirs)
  BY <1>1 DEF TypeInv, KnownPacks
<1>3. PICK w : w = Witness(clock[r], theirs)
  OBVIOUS
<1>4. /\ w \in [create : Nat, edit : Nat]
      /\ Past(w, Visible(r) \cup PackIds(theirs))
  BY <1>2, <1>3, ReadPast
<1>5. PICK v : v = Witness(w, ours)
  OBVIOUS
<1>6. Past(v, (Visible(r) \cup PackIds(theirs)) \cup PackIds(ours))
  <2>1. /\ PackIds(ours) \subseteq DOMAIN packs
        /\ Visible(r) \cup PackIds(theirs) \subseteq DOMAIN packs
    BY <1>2, VisibleStored DEF Stored
  <2>2. TypeOK
    BY DEF TypeInv
  <2>3. QED
    BY <1>4, <1>5, <2>1, <2>2, WitnessPast DEF Witness
<1>7. clock \in [Replicas -> [create : Nat, edit : Nat]]
  BY DEF TypeInv, TypeOK
<1>8. ASSUME packs' = packs, local' = local,
             clock' = [clock EXCEPT ![r] = w] \/ clock' = [clock EXCEPT ![r] = v]
      PROVE  ClockPast'
  <2>1. ASSUME NEW q \in Replicas
        PROVE  Past(clock'[q], Visible(q)')
    <3>1. clock'[q] = clock[q] \/ (q = r /\ clock'[q] \in {w, v})
      BY <1>7, <1>8
    <3>2. Visible(q)' = Visible(q) /\ Past(clock[q], Visible(q))
      BY <1>8 DEF Visible, ClockPast
    <3>3. Past(w, Visible(r)) /\ Past(v, Visible(r))
      BY <1>4, <1>6 DEF Past
    <3>4. QED
      BY <3>1, <3>2, <3>3
  <2>2. QED
    BY <1>8, <2>1, PastKept
<1>9. CASE SkipUpToDate(r, m, t)
  BY <1>9 DEF SkipUpToDate, ClockPast, Past, Visible
<1>10. CASE SkipInvalid(r, m, t)
  BY <1>1, <1>3, <1>8, <1>10 DEF SkipInvalid
<1>11. CASE CopyNew(r, m, t)
  <2>1. /\ packs' = packs
        /\ local' = [local EXCEPT ![r][t] = theirs]
        /\ clock' = [clock EXCEPT ![r] = w]
    BY <1>1, <1>3, <1>11 DEF CopyNew
  <2>2. QED
    BY <1>4, <2>1, MovePast
<1>12. CASE MergeUpdated(r, m, t)
  <2>1. PICK x : x = Rebase(ours, theirs, r)
    OBVIOUS
  <2>2. x \in Chain /\ PackIds(x) = PackIds(ours) \cup PackIds(theirs)
    BY <2>1, RebaseKeepsPacks
  <2>3. /\ packs' = packs
        /\ local' = [local EXCEPT ![r][t] = x]
        /\ clock' = [clock EXCEPT ![r] = v]
    BY <1>1, <1>3, <1>5, <1>12, <2>1 DEF MergeUpdated, WitnessBoth
  <2>4. Past(v, Visible(r) \cup PackIds(x))
    BY <1>6, <2>2 DEF Past
  <2>5. QED
    BY <2>2, <2>3, <2>4, MovePast
<1>13. CASE MergeConflict(r, m, t)
  BY <1>1, <1>3, <1>5, <1>8, <1>13 DEF MergeConflict, WitnessBoth
<1>14. QED
  BY <1>9, <1>10, <1>11, <1>12, <1>13 DEF MergeTicket

(* A tree that is stored is stamped with the clocks, which are then ticked.*)
LEMMA StorePast ==
    ASSUME TypeInv, ClockPast, NEW r \in Replicas, NEW t \in Tickets,
           NEW x \in Pack, packs' = Append(packs, x),
           NEW c \in Chain, local' = [local EXCEPT ![r][t] = c],
           PackIds(c) \subseteq Visible(r) \cup {Len(packs) + 1},
           NEW w, clock' = [clock EXCEPT ![r] = w],
           Past(w, Visible(r)), x.edit < w.edit, x.create < w.create
    PROVE  ClockPast'
<1>1. /\ local \in [Replicas -> [Tickets -> Chain]]
      /\ clock \in [Replicas -> [create : Nat, edit : Nat]]
      /\ TypeOK
  BY DEF TypeInv, TypeOK
<1>2. \A q \in Replicas, u \in Tickets : local'[q][u] =
         IF q = r /\ u = t THEN c ELSE local[q][u]
  BY <1>1, SetRef
<1>3. /\ \A p \in DOMAIN packs : packs'[p] = packs[p]
      /\ packs'[Len(packs) + 1] = x
  BY <1>1, StoreTree
<1>4. ASSUME NEW q \in Replicas, NEW p \in Visible(q)'
      PROVE  packs'[p].edit < clock'[q].edit /\ packs'[p].create < clock'[q].create
  <2>1. Visible(q) \subseteq DOMAIN packs
    BY VisibleStored
  <2>2. CASE q = r
    <3>1. clock'[q] = w
      BY <1>1, <2>2
    <3>2. p \in Visible(r) \cup {Len(packs) + 1}
      <4>1. PICK u \in Tickets : p \in PackIds(local'[q][u])
        BY <1>4 DEF Visible
      <4>2. p \in PackIds(c) \/ p \in PackIds(local[q][u])
        BY <1>2, <4>1
      <4>3. QED
        BY <2>2, <4>2 DEF Visible
    <3>3. QED
      BY <1>3, <2>1, <2>2, <3>1, <3>2 DEF Past
  <2>3. CASE q # r
    <3>1. clock'[q] = clock[q] /\ Visible(q)' = Visible(q)
      BY <1>1, <1>2, <2>3 DEF Visible
    <3>2. QED
      BY <1>3, <1>4, <2>1, <3>1 DEF Past, ClockPast
  <2>4. QED
    BY <2>2, <2>3
<1>5. QED
  BY <1>4 DEF ClockPast, Past

LEMMA NewTicketPast ==
    ASSUME TypeInv, ClockPast, NEW r \in Replicas, NEW t \in Tickets,
           NewTicket(r, t)
    PROVE  ClockPast'
<1>1. PICK x : x = [ticket |-> t, status |-> NoChange,
                    create |-> clock[r].create, edit |-> clock[r].edit,
                    seen |-> Visible(r)]
  OBVIOUS
<1>2. PICK c : c = <<[pack |-> Len(packs) + 1, by |-> r]>>
  OBVIOUS
<1>3. PICK w : w = [create |-> clock[r].create + 1, edit |-> clock[r].edit + 1]
  OBVIOUS
<1>4. x \in Pack /\ packs' = Append(packs, x)
  BY <1>1, NewTicketTree
<1>5. Len(packs) + 1 \in Nat /\ clock[r] \in [create : Nat, edit : Nat] /\ TypeOK
  BY DEF TypeInv, TypeOK
<1>6. c \in Chain /\ PackIds(c) = {Len(packs) + 1}
  BY <1>2, <1>5, FirstCommit
<1>7. local' = [local EXCEPT ![r][t] = c] /\ clock' = [clock EXCEPT ![r] = w]
  BY <1>2, <1>3 DEF NewTicket
<1>8. Past(w, Visible(r))
  <2>1. ASSUME NEW p \in Visible(r)
        PROVE  packs[p].edit < w.edit /\ packs[p].create < w.create
    <3>1. packs[p].edit < clock[r].edit /\ packs[p].create < clock[r].create
      BY DEF ClockPast, Past
    <3>2. packs[p].edit \in Nat /\ packs[p].create \in Nat
      BY <1>5, VisibleStored, PackFields
    <3>3. QED
      BY <1>3, <1>5, <3>1, <3>2
  <2>2. QED
    BY <2>1 DEF Past
<1>9. x.edit < w.edit /\ x.create < w.create
  BY <1>1, <1>3, <1>5
<1>10. QED
  BY <1>4, <1>6, <1>7, <1>8, <1>9, StorePast

LEMMA CommitOpsPast ==
    ASSUME TypeInv, ClockPast, NEW r \in Replicas, NEW t \in Tickets,
           NEW s \in Statuses \cup {NoChange}, CommitOps(r, t, s)
    PROVE  ClockPast'
<1>1. PICK now : now = Witness(clock[r], local[r][t])
  OBVIOUS
<1>2. PICK x : x = [ticket |-> t, status |-> s, create |-> 0,
                    edit |-> now.edit, seen |-> Visible(r)]
  OBVIOUS
<1>3. PICK c : c = Append(local[r][t], [pack |-> Len(packs) + 1, by |-> r])
  OBVIOUS
<1>4. PICK w : w = [create |-> now.create, edit |-> now.edit + 1]
  OBVIOUS
<1>5. x \in Pack /\ packs' = Append(packs, x)
  BY <1>1, <1>2, CommitOpsTree
<1>6. /\ Len(packs) + 1 \in Nat /\ TypeOK
      /\ local[r][t] \in Chain /\ Stored(t, local[r][t])
  BY DEF TypeInv, TypeOK, KnownPacks
<1>7. c \in Chain /\ PackIds(c) = PackIds(local[r][t]) \cup {Len(packs) + 1}
  BY <1>3, <1>6, AppendCommit
<1>8. local' = [local EXCEPT ![r][t] = c] /\ clock' = [clock EXCEPT ![r] = w]
  BY <1>1, <1>3, <1>4 DEF CommitOps
<1>9. /\ now \in [create : Nat, edit : Nat]
      /\ Past(now, Visible(r) \cup PackIds(local[r][t]))
  BY <1>1, <1>6, ReadPast
<1>10. Past(w, Visible(r))
  <2>1. ASSUME NEW p \in Visible(r)
        PROVE  packs[p].edit < w.edit /\ packs[p].create < w.create
    <3>1. packs[p].edit < now.edit /\ packs[p].create < now.create
      BY <1>9 DEF Past
    <3>2. packs[p].edit \in Nat /\ packs[p].create \in Nat
      BY <1>6, VisibleStored, PackFields
    <3>3. QED
      BY <1>4, <1>9, <3>1, <3>2
  <2>2. QED
    BY <2>1 DEF Past
<1>11. x.edit < w.edit /\ x.create < w.create
  <2>1. PICK p \in PackIds(local[r][t]) : TRUE
    <3>1. local[r][t] # << >>
      BY DEF CommitOps
    <3>2. 1 \in DOMAIN local[r][t]
      BY <1>6, <3>1 DEF Chain
    <3>3. QED
      BY <3>2 DEF PackIds
  <2>2. packs[p].create \in Nat
    BY <1>6, PackFields DEF Stored
  <2>3. packs[p].create < now.create
    BY <1>9 DEF Past
  <2>4. QED
    BY <1>2, <1>4, <1>9, <2>2, <2>3
<1>12. PackIds(c) \subseteq Visible(r) \cup {Len(packs) + 1}
  BY <1>7 DEF Visible
<1>13. QED
  BY <1>5, <1>7, <1>8, <1>10, <1>11, <1>12, StorePast

LEMMA ClockPastInit == Init => ClockPast
<1> SUFFICES ASSUME Init, NEW r \in Replicas, NEW p \in Visible(r)
             PROVE  FALSE
  BY DEF ClockPast, Past
<1>1. \A t \in Tickets : local[r][t] = << >>
  BY DEF Init
<1>2. QED
  BY <1>1, EmptyChain DEF Visible

LEMMA ClockPastStep == TypeInv /\ ClockPast /\ [Next]_vars => ClockPast'
<1> SUFFICES ASSUME TypeInv, ClockPast, [Next]_vars
             PROVE  ClockPast'
  OBVIOUS
<1>1. ASSUME NEW r \in Replicas, NEW t \in Tickets, RemoveBug(r, t)
      PROVE  ClockPast'
  <2>1. packs' = packs /\ clock' = clock
    BY <1>1 DEF RemoveBug
  <2>2. \A q \in Replicas : Visible(q)' \subseteq Visible(q)
    <3>1. \A q \in Replicas, u \in Tickets : local'[q][u] \in {<< >>, local[q][u]}
      BY <1>1, RemoveBugRefs
    <3>2. QED
      BY <3>1, EmptyChain DEF Visible
  <2>3. QED
    BY <2>1, <2>2 DEF ClockPast, Past
<1>2. ASSUME NEW r \in Replicas, NEW m \in Remotes, NEW t \in Tickets,
             ResetBug(r, m, t)
      PROVE  ClockPast'
  <2>1. PICK x \in Chain : x = tracking[r][m][t] /\ Stored(t, x)
    BY DEF TypeInv, TypeOK, KnownPacks
  <2>2. PICK w : w = Witness(clock[r], x)
    OBVIOUS
  <2>3. Past(w, Visible(r) \cup PackIds(x))
    BY <2>1, <2>2, ReadPast
  <2>4. /\ packs' = packs
        /\ local' = [local EXCEPT ![r][t] = x]
        /\ clock' = [clock EXCEPT ![r] = w]
    BY <1>2, <2>1, <2>2 DEF ResetBug
  <2>5. QED
    BY <2>3, <2>4, MovePast
<1>3. ASSUME NEW r \in Replicas, RebuildClocks(r)
      PROVE  ClockPast'
  <2>1. PICK w : w = WitnessAll([create |-> 1, edit |-> 1], Visible(r))
    OBVIOUS
  <2>2. Past(w, Visible(r))
    <3>1. TypeOK /\ [create |-> 1, edit |-> 1] \in [create : Nat, edit : Nat]
      BY DEF TypeInv
    <3>2. QED
      BY <2>1, <3>1, VisibleStored, WitnessAllProperties DEF Past
  <2>3. /\ clock' = [clock EXCEPT ![r] = w]
        /\ packs' = packs /\ local' = local
    BY <1>3, <2>1 DEF RebuildClocks
  <2>4. clock \in [Replicas -> [create : Nat, edit : Nat]]
    BY DEF TypeInv, TypeOK
  <2>5. \A q \in Replicas : clock'[q] = IF q = r THEN w ELSE clock[q]
    BY <2>3, <2>4
  <2>6. QED
    BY <2>2, <2>3, <2>5 DEF ClockPast, Past, Visible
<1>4. ASSUME UNCHANGED <<packs, local, clock>>
      PROVE  ClockPast'
  BY <1>4 DEF ClockPast, Past, Visible
<1>5. ASSUME NEW r \in Replicas
      PROVE  /\ \A m \in Remotes : StartPull(r, m) \/ Push(r, m) => ClockPast'
             /\ \A m \in Remotes, t \in Tickets : PushTicket(r, m, t) => ClockPast'
             /\ Abort(r) => ClockPast'
  BY <1>4 DEF StartPull, Push, PushTicket, Abort
<1>6. UNCHANGED vars => ClockPast'
  BY <1>4 DEF vars
<1>7. CASE Next
  <2>1. PICK r \in Replicas :
          \/ \E t \in Tickets : NewTicket(r, t)
          \/ \E t \in Tickets, s \in Statuses \cup {NoChange} :
                CommitOps(r, t, s)
          \/ \E m \in Remotes : StartPull(r, m)
          \/ \E m \in Remotes, t \in Tickets : MergeTicket(r, m, t)
          \/ Abort(r)
          \/ \E m \in Remotes : Push(r, m)
          \/ \E m \in Remotes, t \in Tickets : PushTicket(r, m, t)
          \/ \E t \in Tickets : RemoveBug(r, t)
          \/ \E m \in Remotes, t \in Tickets : ResetBug(r, m, t)
          \/ RebuildClocks(r)
    BY <1>7 DEF Next
  <2>2. QED
    BY <1>1, <1>2, <1>3, <1>5, <2>1, NewTicketPast, CommitOpsPast, MergePast
<1>8. QED
  BY <1>6, <1>7

(* What CausalTimes says of one pack. *)
Later(p) ==
    \A q \in packs[p].seen :
        /\ packs[q].edit < packs[p].edit
        /\ packs[p].create # 0 => packs[q].create < packs[p].create

(* A pack that is stored is stamped later than what its author sees.       *)
LEMMA LaterStored ==
    ASSUME TypeInv, NEW r \in Replicas, NEW x \in Pack,
           packs' = Append(packs, x), x.seen = Visible(r),
           \A q \in Visible(r) :
             /\ packs[q].edit < x.edit
             /\ x.create # 0 => packs[q].create < x.create,
           CausalTimes
    PROVE  CausalTimes'
<1>1. /\ Len(packs) \in Nat
      /\ DOMAIN packs = 1 .. Len(packs)
      /\ DOMAIN packs' = 1 .. Len(packs) + 1
      /\ \A p \in DOMAIN packs : packs'[p] = packs[p]
      /\ packs'[Len(packs) + 1] = x
  BY StoreTree DEF TypeInv
<1>2. ASSUME NEW p \in DOMAIN packs
      PROVE  Later(p)'
  <2>1. packs[p].seen \subseteq DOMAIN packs
    <3>1. packs[p].seen \subseteq 1 .. p - 1
      BY DEF TypeInv, KnownPacks
    <3>2. QED
      BY <1>1, <3>1
  <2>2. QED
    BY <1>1, <2>1 DEF Later, CausalTimes
<1>3. ASSUME NEW p, p = Len(packs) + 1
      PROVE  Later(p)'
  BY <1>1, <1>3, VisibleStored DEF Later
<1>4. \A p \in DOMAIN packs' : p \in DOMAIN packs \/ p = Len(packs) + 1
  BY <1>1
<1>5. QED
  BY <1>2, <1>3, <1>4 DEF CausalTimes, Later

LEMMA CausalTimesStep ==
    TypeInv /\ ClockPast /\ CausalTimes /\ [Next]_vars => CausalTimes'
<1> SUFFICES ASSUME TypeInv, ClockPast, CausalTimes, [Next]_vars
             PROVE  CausalTimes'
  OBVIOUS
<1>1. CASE packs' = packs
  BY <1>1 DEF CausalTimes
<1>2. ASSUME NEW r \in Replicas, NEW t \in Tickets, NewTicket(r, t)
      PROVE  CausalTimes'
  <2>1. PICK x : x = [ticket |-> t, status |-> NoChange,
                      create |-> clock[r].create, edit |-> clock[r].edit,
                      seen |-> Visible(r)]
    OBVIOUS
  <2>2. x \in Pack /\ packs' = Append(packs, x)
    BY <1>2, <2>1, NewTicketTree
  <2>3. \A q \in Visible(r) :
           packs[q].edit < x.edit /\ packs[q].create < x.create
    BY <2>1 DEF ClockPast, Past
  <2>4. QED
    BY <2>1, <2>2, <2>3, LaterStored
<1>3. ASSUME NEW r \in Replicas, NEW t \in Tickets,
             NEW s \in Statuses \cup {NoChange}, CommitOps(r, t, s)
      PROVE  CausalTimes'
  <2>1. PICK now : now = Witness(clock[r], local[r][t])
    OBVIOUS
  <2>2. PICK x : x = [ticket |-> t, status |-> s, create |-> 0,
                      edit |-> now.edit, seen |-> Visible(r)]
    OBVIOUS
  <2>3. x \in Pack /\ packs' = Append(packs, x)
    BY <1>3, <2>1, <2>2, CommitOpsTree
  <2>4. \A q \in Visible(r) : packs[q].edit < x.edit
    <3>1. Stored(t, local[r][t])
      BY DEF TypeInv, KnownPacks
    <3>2. QED
      BY <2>1, <2>2, <3>1, ReadPast DEF Past
  <2>5. QED
    BY <2>2, <2>3, <2>4, LaterStored
<1>4. QED
  BY <1>1, <1>2, <1>3, PacksStep

(* A pack is stamped later than all its author had read, on any ticket and *)
(* from any remote, also after clock files were lost and rebuilt and after *)
(* pulls that stopped half way.                                            *)
THEOREM CausalTimesCorrect == Spec => []CausalTimes
<1>1. Init => TypeInv /\ ClockPast /\ CausalTimes
  <2>1. Init => CausalTimes
    BY DEF Init, CausalTimes
  <2>2. QED
    BY <2>1, TypeInvInit, ClockPastInit
<1>2. TypeInv /\ ClockPast /\ CausalTimes /\ [Next]_vars
        => TypeInv' /\ ClockPast' /\ CausalTimes'
  BY TypeInvStep, ClockPastStep, CausalTimesStep
<1>3. QED
  BY <1>1, <1>2, PTL DEF Spec

-----------------------------------------------------------------------------
(* Status *)

(* The first n commits of a chain. *)
LEMMA Cut ==
    ASSUME NEW S, NEW c \in Seq(S), NEW n \in 0 .. Len(c)
    PROVE  /\ SubSeq(c, 1, n) \in Seq(S)
           /\ Len(SubSeq(c, 1, n)) = n
           /\ \A i \in 1 .. n : SubSeq(c, 1, n)[i] = c[i]
<1>1. \A i \in 1 .. n : c[i] \in S
  OBVIOUS
<1>2. QED
  BY <1>1, SubSeqProperties

(* Two chains that agree up to a place have the same cut there.            *)
LEMMA SameCut ==
    ASSUME NEW S, NEW a \in Seq(S), NEW b \in Seq(S),
           NEW n \in 0 .. Len(a), n <= Len(b), \A i \in 1 .. n : a[i] = b[i]
    PROVE  SubSeq(a, 1, n) = SubSeq(b, 1, n)
<1>1. SubSeq(a, 1, n) = [i \in 1 .. n |-> a[i]]
  OBVIOUS
<1>2. SubSeq(b, 1, n) = [i \in 1 .. n |-> b[i]]
  OBVIOUS
<1>3. QED
  BY <1>1, <1>2

(* Commit j is the last one among the first n that changes the status.     *)
LastChange(c, n, j) ==
    /\ j \in 1 .. n /\ j \in StatusChanges(c)
    /\ \A i \in j + 1 .. n : i \notin StatusChanges(c)

LEMMA LastChangeExists ==
    ASSUME NEW c, NEW n \in Nat, NEW j \in 1 .. n, j \in StatusChanges(c)
    PROVE  \E i \in 1 .. n : LastChange(c, n, i)
<1> DEFINE T == {i \in 1 .. n : i \in StatusChanges(c)}
<1>1. T \subseteq Nat /\ T # {} /\ \A i \in T : i <= n
  OBVIOUS
<1>2. Max(T) \in T /\ \A i \in T : i <= Max(T)
  <2> HIDE DEF T
  <2> QED BY <1>1, MaxProperties
<1>3. PICK m \in 1 .. n : m \in T /\ \A i \in T : i <= m
  BY <1>2
<1>4. \A i \in m + 1 .. n : i \notin T
  <2> HIDE DEF T
  <2> QED BY <1>3
<1>5. QED
  BY <1>3, <1>4 DEF LastChange

(* The status after n commits is the one the last change among them set.   *)
LEMMA StatusAt ==
    ASSUME NEW c \in Chain, NEW n \in 0 .. Len(c)
    PROVE  /\ (\A j \in 1 .. n : j \notin StatusChanges(c))
                => CurrentStatus(SubSeq(c, 1, n)) = Proposed
           /\ \A j \in 1 .. n : LastChange(c, n, j) =>
                CurrentStatus(SubSeq(c, 1, n)) = packs[c[j].pack].status
<1>1. PICK p : p = SubSeq(c, 1, n)
  OBVIOUS
<1>2. /\ p \in Seq(Commit) /\ Len(p) = n /\ DOMAIN p = 1 .. n
      /\ \A i \in 1 .. n : p[i] = c[i]
  BY <1>1, Cut DEF Chain
<1>3. DOMAIN c = 1 .. Len(c) /\ Len(c) \in Nat /\ n \in Nat
  BY DEF Chain
<1>4. StatusChanges(p) = {i \in 1 .. n : i \in StatusChanges(c)}
  BY <1>2, <1>3 DEF StatusChanges
<1>5. ASSUME NEW j \in 1 .. n, LastChange(c, n, j)
      PROVE  CurrentStatus(p) = packs[c[j].pack].status
  <2>1. /\ StatusChanges(p) \subseteq Nat /\ j \in StatusChanges(p)
        /\ \A i \in StatusChanges(p) : i <= n
    BY <1>3, <1>4, <1>5 DEF LastChange
  <2>2. /\ Max(StatusChanges(p)) \in StatusChanges(p)
        /\ \A i \in StatusChanges(p) : i <= Max(StatusChanges(p))
    BY <1>3, <2>1, MaxProperties
  <2>3. PICK m : m = Max(StatusChanges(p))
    OBVIOUS
  <2>4. m \in 1 .. n /\ m \in StatusChanges(c) /\ j <= m
    BY <1>4, <2>1, <2>2, <2>3
  <2>5. m = j
    BY <1>3, <1>5, <2>4 DEF LastChange
  <2>6. CurrentStatus(p) = packs[p[m].pack].status
    BY <2>1, <2>3 DEF CurrentStatus
  <2>7. QED
    BY <1>2, <2>5, <2>6
<1>6. ASSUME \A j \in 1 .. n : j \notin StatusChanges(c)
      PROVE  CurrentStatus(p) = Proposed
  BY <1>4, <1>6 DEF CurrentStatus
<1>7. QED
  BY <1>1, <1>5, <1>6

(* The status of a chain whose trees are stored does not change.           *)
LEMMA StatusStays ==
    ASSUME TypeInv, [Next]_vars, NEW t, NEW c \in Chain, Stored(t, c)
    PROVE  /\ StatusChanges(c)' = StatusChanges(c)
           /\ CurrentStatus(c)' = CurrentStatus(c)
<1>1. /\ DOMAIN c = 1 .. Len(c) /\ Len(c) \in Nat
      /\ \A i \in DOMAIN c : packs'[c[i].pack] = packs[c[i].pack]
  BY TreesStay DEF Chain, Stored, PackIds
<1>2. StatusChanges(c)' = StatusChanges(c)
  BY <1>1 DEF StatusChanges
<1>3. ASSUME StatusChanges(c) # {}
      PROVE  Max(StatusChanges(c)) \in DOMAIN c
  <2>1. /\ StatusChanges(c) \subseteq Nat
        /\ \A i \in StatusChanges(c) : i <= Len(c)
    BY <1>1 DEF StatusChanges
  <2>2. Max(StatusChanges(c)) \in StatusChanges(c)
    BY <1>1, <1>3, <2>1, MaxProperties
  <2>3. QED
    BY <2>2 DEF StatusChanges
<1>4. QED
  BY <1>1, <1>2, <1>3 DEF CurrentStatus

(* What StatusPathLegal says of one chain. *)
PathLegal(c) ==
    \A i \in StatusChanges(c) :
        <<CurrentStatus(SubSeq(c, 1, i - 1)), packs[c[i].pack].status>>
            \in Transitions

LEMMA StatusPathByChain ==
    StatusPathLegal <=> \A t \in Tickets : \A c \in Chains(t) : PathLegal(c)
BY DEF StatusPathLegal, PathLegal

LEMMA CutStored ==
    ASSUME NEW t, NEW c \in Chain, Stored(t, c), NEW n \in 0 .. Len(c)
    PROVE  SubSeq(c, 1, n) \in Chain /\ Stored(t, SubSeq(c, 1, n))
<1>1. /\ SubSeq(c, 1, n) \in Seq(Commit)
      /\ Len(SubSeq(c, 1, n)) = n
      /\ \A i \in 1 .. n : SubSeq(c, 1, n)[i] = c[i]
  BY Cut DEF Chain
<1>2. DOMAIN c = 1 .. Len(c) /\ Len(c) \in Nat
  BY DEF Chain
<1>3. DOMAIN SubSeq(c, 1, n) = 1 .. n /\ 1 .. n \subseteq 1 .. Len(c)
  BY <1>1, <1>2
<1>4. PackIds(SubSeq(c, 1, n)) \subseteq PackIds(c)
  BY <1>1, <1>2, <1>3 DEF PackIds
<1>5. QED
  BY <1>1, <1>4 DEF Stored, Chain

LEMMA PathStays ==
    ASSUME TypeInv, [Next]_vars, NEW t, NEW c \in Chain, Stored(t, c),
           PathLegal(c)
    PROVE  PathLegal(c)'
<1> SUFFICES ASSUME NEW i \in StatusChanges(c)'
             PROVE  <<CurrentStatus(SubSeq(c, 1, i - 1))', packs'[c[i].pack].status>>
                      \in Transitions
  BY DEF PathLegal
<1>1. i \in StatusChanges(c) /\ i \in 1 .. Len(c)
  BY StatusStays DEF StatusChanges, Chain
<1>2. packs'[c[i].pack] = packs[c[i].pack]
  BY <1>1, TreesStay DEF Chain, Stored, PackIds
<1>3. i - 1 \in 0 .. Len(c)
  BY <1>1 DEF Chain
<1>4. PICK d : d = SubSeq(c, 1, i - 1)
  OBVIOUS
<1>5. d \in Chain /\ Stored(t, d)
  BY <1>3, <1>4, CutStored
<1>6. CurrentStatus(d)' = CurrentStatus(d)
  BY <1>5, StatusStays
<1>7. QED
  BY <1>1, <1>2, <1>4, <1>6 DEF PathLegal

(* When only one side has changed the status since the common ancestor, a  *)
(* rebased change finds the status it was made from.                       *)
LEMMA PathRebase ==
    ASSUME NEW r \in Replicas, NEW ours \in Chain, NEW theirs \in Chain,
           ~ StatusConflict(ours, theirs), PathLegal(ours), PathLegal(theirs)
    PROVE  PathLegal(Rebase(ours, theirs, r))
<1>1. PICK k : k = CommonAncestor(ours, theirs)
  OBVIOUS
<1>2. PICK new : new = Rebase(ours, theirs, r)
  OBVIOUS
<1>3. /\ new \in Seq(Commit)
      /\ Len(new) = Len(theirs) + (Len(ours) - k)
      /\ \A i \in 1 .. Len(theirs) : new[i] = theirs[i]
      /\ \A i \in Len(theirs) + 1 .. Len(new) :
            new[i].pack = ours[i - Len(theirs) + k].pack
  BY <1>1, <1>2, ChainCommits, RebaseProperties DEF Chain
<1>4. /\ k \in 0 .. Len(ours)
      /\ k <= Len(theirs)
      /\ \A i \in 1 .. k : ours[i] = theirs[i]
  BY <1>1, CommonAncestorProperties DEF Chain
<1>5. /\ DOMAIN ours = 1 .. Len(ours) /\ Len(ours) \in Nat
      /\ DOMAIN theirs = 1 .. Len(theirs) /\ Len(theirs) \in Nat
      /\ DOMAIN new = 1 .. Len(new) /\ Len(new) \in Nat
  BY <1>3 DEF Chain
<1>6. \/ \A i \in k + 1 .. Len(ours) : i \notin StatusChanges(ours)
      \/ \A i \in k + 1 .. Len(theirs) : i \notin StatusChanges(theirs)
  <2>1. ASSUME NEW c \in Chain, k \in 0 .. Len(c),
               StatusChanges(Extra(c, k)) = {}, NEW i \in k + 1 .. Len(c)
        PROVE  i \notin StatusChanges(c)
    <3>1. /\ Extra(c, k) \in Seq(Commit)
          /\ Len(Extra(c, k)) = Len(c) - k
          /\ \A j \in 1 .. Len(c) - k : Extra(c, k)[j] = c[j + k]
      BY <2>1, ExtraProperties DEF Chain
    <3>2. Len(c) \in Nat /\ k \in Nat
      BY <1>4 DEF Chain
    <3>3. /\ i - k \in DOMAIN Extra(c, k)
          /\ i - k \in 1 .. Len(c) - k /\ (i - k) + k = i
      BY <3>1, <3>2
    <3>4. Extra(c, k)[i - k] = c[i]
      BY <3>1, <3>3
    <3>5. QED
      BY <2>1, <3>3, <3>4 DEF StatusChanges
  <2>2. k \in 0 .. Len(theirs)
    BY <1>4, <1>5
  <2>3. QED
    BY <1>1, <1>4, <2>1, <2>2 DEF StatusConflict
<1>7. \A i \in 1 .. Len(theirs) :
         i \in StatusChanges(new) <=> i \in StatusChanges(theirs)
  <2>1. \A i \in 1 .. Len(theirs) : i \in 1 .. Len(new)
    BY <1>3, <1>4, <1>5
  <2>2. QED
    BY <1>3, <1>5, <2>1 DEF StatusChanges
<1>8. \A i \in Len(theirs) + 1 .. Len(new) :
         /\ i - Len(theirs) + k \in k + 1 .. Len(ours)
         /\ i \in StatusChanges(new) <=>
              i - Len(theirs) + k \in StatusChanges(ours)
  <2>1. \A i \in Len(theirs) + 1 .. Len(new) :
           i - Len(theirs) + k \in k + 1 .. Len(ours) /\ i \in 1 .. Len(new)
    BY <1>3, <1>4, <1>5
  <2>2. k + 1 .. Len(ours) \subseteq 1 .. Len(ours)
    BY <1>4
  <2>3. QED
    BY <1>3, <1>5, <2>1, <2>2 DEF StatusChanges
<1>9. \A i \in 1 .. k :
         i \in StatusChanges(ours) <=> i \in StatusChanges(theirs)
  BY <1>4, <1>5 DEF StatusChanges
<1>10. ASSUME NEW i \in StatusChanges(new), i <= Len(theirs)
       PROVE  <<CurrentStatus(SubSeq(new, 1, i - 1)), packs[new[i].pack].status>>
                \in Transitions
  <2>1. i \in 1 .. Len(theirs) /\ i \in StatusChanges(theirs)
    BY <1>5, <1>7, <1>10 DEF StatusChanges
  <2>2. /\ i - 1 \in 0 .. Len(new) /\ i - 1 <= Len(theirs)
        /\ \A j \in 1 .. i - 1 : new[j] = theirs[j]
    BY <1>3, <1>4, <1>5, <2>1
  <2>3. SubSeq(new, 1, i - 1) = SubSeq(theirs, 1, i - 1)
    BY <1>3, <2>2, SameCut DEF Chain
  <2>4. new[i] = theirs[i]
    BY <1>3, <2>1
  <2>5. QED
    BY <2>1, <2>3, <2>4 DEF PathLegal
<1>11. ASSUME NEW i \in StatusChanges(new), i > Len(theirs)
       PROVE  <<CurrentStatus(SubSeq(new, 1, i - 1)), packs[new[i].pack].status>>
                \in Transitions
  <2>1. PICK h : h = i - Len(theirs) + k
    OBVIOUS
  <2>2. i \in Len(theirs) + 1 .. Len(new)
    BY <1>5, <1>11 DEF StatusChanges
  <2>3. h \in k + 1 .. Len(ours) /\ h \in StatusChanges(ours)
    BY <1>8, <1>11, <2>1, <2>2
  <2>4. new[i].pack = ours[h].pack
    BY <1>3, <2>1, <2>2
  <2>5. \A j \in k + 1 .. Len(theirs) : j \notin StatusChanges(theirs)
    BY <1>6, <2>3
  <2>6. <<CurrentStatus(SubSeq(ours, 1, h - 1)), packs[ours[h].pack].status>>
          \in Transitions
    BY <2>3 DEF PathLegal
  <2>7. i - 1 \in 0 .. Len(new) /\ h - 1 \in 0 .. Len(ours)
    BY <1>4, <1>5, <2>2, <2>3
  <2>8. new \in Chain
    BY <1>3 DEF Chain
  <2>9. ASSUME \A j \in 1 .. h - 1 : j \notin StatusChanges(ours)
        PROVE  CurrentStatus(SubSeq(new, 1, i - 1)) =
                 CurrentStatus(SubSeq(ours, 1, h - 1))
    <3>1. ASSUME NEW j \in 1 .. i - 1, j \in StatusChanges(new)
          PROVE  FALSE
      <4>1. CASE j <= k
        <5>1. j \in 1 .. k /\ j \in 1 .. Len(theirs) /\ j \in 1 .. h - 1
          BY <1>4, <1>5, <2>3, <3>1, <4>1
        <5>2. QED
          BY <1>7, <1>9, <2>9, <3>1, <5>1
      <4>2. CASE j > k /\ j <= Len(theirs)
        <5>1. j \in 1 .. Len(theirs) /\ j \in k + 1 .. Len(theirs)
          BY <1>4, <1>5, <3>1, <4>2
        <5>2. QED
          BY <1>7, <2>5, <3>1, <5>1
      <4>3. CASE j > Len(theirs)
        <5>1. /\ j \in Len(theirs) + 1 .. Len(new)
              /\ j - Len(theirs) + k \in 1 .. h - 1
          BY <1>4, <1>5, <2>1, <2>2, <2>3, <3>1, <4>3
        <5>2. QED
          BY <1>8, <2>9, <3>1, <5>1
      <4>4. QED
        BY <1>4, <1>5, <4>1, <4>2, <4>3
    <3>2. QED
      BY <2>7, <2>8, <2>9, <3>1, StatusAt
  <2>10. ASSUME NEW l \in 1 .. h - 1, LastChange(ours, h - 1, l)
         PROVE  CurrentStatus(SubSeq(new, 1, i - 1)) =
                  CurrentStatus(SubSeq(ours, 1, h - 1))
    <3>1. PICK j : j = IF l <= k THEN l ELSE l + Len(theirs) - k
      OBVIOUS
    <3>2. l \in StatusChanges(ours) /\ \A x \in l + 1 .. h - 1 : x \notin StatusChanges(ours)
      BY <2>10 DEF LastChange
    <3>3. /\ j \in 1 .. i - 1
          /\ j \in StatusChanges(new)
          /\ new[j].pack = ours[l].pack
      <4>1. CASE l <= k
        <5>1. j = l /\ l \in 1 .. k /\ l \in 1 .. Len(theirs)
          BY <1>4, <1>5, <3>1, <4>1
        <5>2. new[j] = ours[l]
          BY <1>3, <1>4, <5>1
        <5>3. QED
          BY <1>5, <1>7, <1>9, <2>2, <3>2, <5>1, <5>2
      <4>2. CASE l > k
        <5>1. /\ j \in Len(theirs) + 1 .. Len(new)
              /\ j - Len(theirs) + k = l
              /\ j \in 1 .. i - 1
          BY <1>3, <1>4, <1>5, <2>1, <2>2, <2>3, <3>1, <4>2
        <5>2. QED
          BY <1>3, <1>8, <3>2, <5>1
      <4>3. QED
        BY <1>4, <4>1, <4>2
    <3>4. ASSUME NEW x \in j + 1 .. i - 1, x \in StatusChanges(new)
          PROVE  FALSE
      <4>1. CASE x <= k
        <5>1. x \in 1 .. k /\ x \in 1 .. Len(theirs) /\ j < x
          BY <1>4, <1>5, <3>3, <3>4, <4>1
        <5>2. j = l
          BY <1>4, <1>5, <3>1, <4>1, <5>1
        <5>3. x \in l + 1 .. h - 1
          BY <2>3, <3>3, <3>4, <4>1, <5>2, <1>4
        <5>4. QED
          BY <1>7, <1>9, <3>2, <3>4, <5>1, <5>3
      <4>2. CASE x > k /\ x <= Len(theirs)
        <5>1. x \in 1 .. Len(theirs) /\ x \in k + 1 .. Len(theirs)
          BY <1>4, <1>5, <3>3, <3>4, <4>2
        <5>2. QED
          BY <1>7, <2>5, <3>4, <5>1
      <4>3. CASE x > Len(theirs)
        <5>1. x \in Len(theirs) + 1 .. Len(new)
          BY <1>4, <1>5, <2>2, <3>3, <3>4, <4>3
        <5>2. x - Len(theirs) + k \in l + 1 .. h - 1
          BY <1>4, <1>5, <2>1, <2>2, <3>1, <3>3, <3>4, <4>3
        <5>3. QED
          BY <1>8, <3>2, <3>4, <5>1, <5>2
      <4>4. QED
        BY <1>4, <1>5, <3>3, <4>1, <4>2, <4>3
    <3>5. LastChange(new, i - 1, j)
      BY <3>3, <3>4 DEF LastChange
    <3>6. CurrentStatus(SubSeq(new, 1, i - 1)) = packs[new[j].pack].status
      BY <2>7, <2>8, <3>3, <3>5, StatusAt
    <3>7. CurrentStatus(SubSeq(ours, 1, h - 1)) = packs[ours[l].pack].status
      BY <2>7, <2>10, StatusAt
    <3>8. QED
      BY <3>3, <3>6, <3>7
  <2>11. CurrentStatus(SubSeq(new, 1, i - 1)) =
           CurrentStatus(SubSeq(ours, 1, h - 1))
    <3>1. h - 1 \in Nat
      BY <1>4, <2>3
    <3>2. QED
      BY <2>9, <2>10, <3>1, LastChangeExists
  <2>12. QED
    BY <2>4, <2>6, <2>11
<1>12. \A i \in StatusChanges(new) : i <= Len(theirs) \/ i > Len(theirs)
  BY <1>5 DEF StatusChanges
<1>13. PathLegal(new)
  BY <1>10, <1>11, <1>12 DEF PathLegal
<1>14. QED
  BY <1>2, <1>13

(* A command that changes the status checks it against the status it read. *)
LEMMA PathCommit ==
    ASSUME TypeInv, [Next]_vars, NEW r \in Replicas, NEW t \in Tickets,
           NEW s \in Statuses \cup {NoChange}, CommitOps(r, t, s),
           PathLegal(local[r][t]),
           NEW c, c = Append(local[r][t], [pack |-> Len(packs) + 1, by |-> r])
    PROVE  PathLegal(c)'
<1>1. PICK old : old = local[r][t]
  OBVIOUS
<1>2. old \in Chain /\ Stored(t, old)
  BY <1>1 DEF TypeInv, TypeOK, KnownPacks
<1>3. Len(packs) \in Nat
  BY DEF TypeInv, TypeOK
<1>4. /\ Len(c) = Len(old) + 1
      /\ c \in Chain
      /\ \A i \in DOMAIN old : c[i] = old[i]
      /\ c[Len(old) + 1].pack = Len(packs) + 1
  BY <1>1, <1>2, <1>3, AppendCommit
<1>5. /\ DOMAIN old = 1 .. Len(old) /\ Len(old) \in Nat
      /\ DOMAIN c = 1 .. Len(old) + 1
  BY <1>2, <1>4 DEF Chain
<1>6. PathLegal(old)'
  BY <1>1, <1>2, PathStays
<1>7. packs'[Len(packs) + 1].status = s
  <2>1. PICK now : now = Witness(clock[r], local[r][t])
    OBVIOUS
  <2>2. PICK x : x = [ticket |-> t, status |-> s, create |-> 0,
                      edit |-> now.edit, seen |-> Visible(r)]
    OBVIOUS
  <2>3. x \in Pack /\ packs' = Append(packs, x)
    BY <2>1, <2>2, CommitOpsTree
  <2>4. packs'[Len(packs) + 1] = x
    BY <2>3, StoreTree DEF TypeInv
  <2>5. QED
    BY <2>2, <2>4
<1>8. ASSUME NEW i \in 1 .. Len(old) + 1
      PROVE  SubSeq(c, 1, i - 1) = SubSeq(old, 1, i - 1)
  <2>1. /\ i - 1 \in 0 .. Len(c) /\ i - 1 <= Len(old)
        /\ \A j \in 1 .. i - 1 : c[j] = old[j]
    BY <1>4, <1>5
  <2>2. QED
    BY <1>2, <1>4, <2>1, SameCut DEF Chain
<1>9. ASSUME NEW i \in StatusChanges(c)'
      PROVE  <<CurrentStatus(SubSeq(c, 1, i - 1))', packs'[c[i].pack].status>>
               \in Transitions
  <2>1. i \in 1 .. Len(old) + 1 /\ packs'[c[i].pack].status # NoChange
    BY <1>5, <1>9 DEF StatusChanges
  <2>2. CASE i <= Len(old)
    <3>1. i \in DOMAIN old /\ c[i] = old[i]
      BY <1>4, <1>5, <2>1, <2>2
    <3>2. i \in StatusChanges(old)'
      BY <2>1, <3>1 DEF StatusChanges
    <3>3. QED
      BY <1>6, <1>8, <2>1, <3>1, <3>2 DEF PathLegal
  <2>3. CASE i = Len(old) + 1
    <3>1. packs'[c[i].pack].status = s /\ s # NoChange
      BY <1>4, <1>7, <2>1, <2>3
    <3>2. <<CurrentStatus(old), s>> \in Transitions
      BY <1>1, <3>1 DEF CommitOps
    <3>3. CurrentStatus(old)' = CurrentStatus(old)
      BY <1>2, StatusStays
    <3>4. SubSeq(c, 1, i - 1) = old
      <4>1. SubSeq(c, 1, i - 1) = SubSeq(old, 1, Len(old))
        BY <1>5, <1>8, <2>3
      <4>2. SubSeq(old, 1, Len(old)) = old
        BY <1>2 DEF Chain
      <4>3. QED
        BY <4>1, <4>2
    <3>5. CurrentStatus(SubSeq(c, 1, i - 1))' = CurrentStatus(old)'
      BY <3>4
    <3>6. QED
      BY <3>1, <3>2, <3>3, <3>5
  <2>4. i <= Len(old) \/ i = Len(old) + 1
    BY <1>5, <2>1
  <2>5. QED
    BY <2>2, <2>3, <2>4
<1>10. QED
  BY <1>9 DEF PathLegal

(* A new ticket sets no status. *)
LEMMA PathNew ==
    ASSUME TypeInv, [Next]_vars, NEW r \in Replicas, NEW t \in Tickets,
           NewTicket(r, t),
           NEW c, c = <<[pack |-> Len(packs) + 1, by |-> r]>>
    PROVE  PathLegal(c)'
<1>1. PICK x : x = [ticket |-> t, status |-> NoChange,
                    create |-> clock[r].create, edit |-> clock[r].edit,
                    seen |-> Visible(r)]
  OBVIOUS
<1>2. x \in Pack /\ packs' = Append(packs, x) /\ x.status = NoChange
  BY <1>1, NewTicketTree
<1>3. packs'[Len(packs) + 1].status = NoChange
  BY <1>2, StoreTree DEF TypeInv
<1>4. DOMAIN c = {1} /\ c[1].pack = Len(packs) + 1
  OBVIOUS
<1>5. StatusChanges(c)' = {}
  BY <1>3, <1>4 DEF StatusChanges
<1>6. QED
  BY <1>5 DEF PathLegal

LEMMA StatusPathInit == Init => StatusPathLegal
BY DEF Init, StatusPathLegal, StatusChanges, Chains

LEMMA StatusPathStep ==
    TypeInv /\ StatusPathLegal /\ [Next]_vars => StatusPathLegal'
<1> SUFFICES ASSUME TypeInv, StatusPathLegal, [Next]_vars,
                    NEW t \in Tickets, NEW c \in Chains(t)'
             PROVE  PathLegal(c)'
  BY DEF StatusPathLegal, PathLegal
<1>1. ASSUME NEW d \in Chains(t)
      PROVE  d \in Chain /\ Stored(t, d) /\ PathLegal(d)
  BY ChainsStored, StatusPathByChain
<1>2. CASE c \in Chains(t)
  BY <1>1, <1>2, PathStays
<1>3. CASE c = << >>
  <2>1. StatusChanges(c)' = {}
    BY <1>3 DEF StatusChanges
  <2>2. QED
    BY <2>1 DEF PathLegal
<1>4. ASSUME NEW r \in Replicas, c = local'[r][t], Extended(r, t)
      PROVE  PathLegal(c)'
  <2>1. CASE /\ local'[r][t] = <<[pack |-> Len(packs) + 1, by |-> r]>>
             /\ NewTicket(r, t)
    BY <1>4, <2>1, PathNew
  <2>2. CASE /\ local'[r][t] =
                  Append(local[r][t], [pack |-> Len(packs) + 1, by |-> r])
             /\ \E s \in Statuses \cup {NoChange} : CommitOps(r, t, s)
    BY <1>1, <1>4, <2>2, ChainsOfRefs, PathCommit
  <2>3. ASSUME NEW m \in Remotes, MergeUpdated(r, m, t),
               local'[r][t] = Rebase(local[r][t], tracking[r][m][t], r)
        PROVE  PathLegal(c)'
    <3>1. PICK ours \in Chains(t), theirs \in Chains(t) :
             ours = local[r][t] /\ theirs = tracking[r][m][t]
      BY ChainsOfRefs
    <3>2. c = Rebase(ours, theirs, r)
      BY <1>4, <2>3, <3>1
    <3>3. ~ StatusConflict(ours, theirs) /\ packs' = packs
      BY <2>3, <3>1 DEF MergeUpdated
    <3>4. PathLegal(c)
      BY <1>1, <3>2, <3>3, PathRebase
    <3>5. QED
      BY <3>3, <3>4 DEF PathLegal, StatusChanges, CurrentStatus
  <2>4. QED
    BY <1>4, <2>1, <2>2, <2>3 DEF Extended
<1>5. QED
  BY <1>2, <1>3, <1>4, NewChains

(* The status changes of every chain are a path of the workflow, whatever  *)
(* workflow that is: checking a change when it is made, and refusing to    *)
(* rebase when both sides changed the status, is enough.                   *)
THEOREM StatusPathCorrect == Spec => []StatusPathLegal
<1>1. Init => TypeInv /\ StatusPathLegal
  BY TypeInvInit, StatusPathInit
<1>2. TypeInv /\ StatusPathLegal /\ [Next]_vars
        => TypeInv' /\ StatusPathLegal'
  BY TypeInvStep, StatusPathStep
<1>3. QED
  BY <1>1, <1>2, PTL DEF Spec

-----------------------------------------------------------------------------
(* With one remote no operation ever occurs twice *)

(* Two chains that share a tree share everything up to it.                 *)
SameHistory(a, b) ==
    \A i \in DOMAIN a, j \in DOMAIN b :
        a[i].pack = b[j].pack => i = j /\ \A l \in 1 .. i : a[l] = b[l]

(* All clones exchange tickets through one remote. *)
OneRemote == \A m, n \in Remotes : m = n

(* What makes rebasing safe: a clone has the trees of a remote at the      *)
(* places where the remote has them, and two clones share no tree that is  *)
(* not on a remote.                                                        *)
Once ==
    /\ \A r \in Replicas, t \in Tickets : Valid(local[r][t])
    /\ \A m \in Remotes, t \in Tickets : Valid(server[m][t])
    /\ \A r \in Replicas, m \in Remotes, t \in Tickets :
          SameHistory(local[r][t], server[m][t])
    /\ \A r, q \in Replicas, t \in Tickets : r # q =>
          \A p \in PackIds(local[r][t]) \cap PackIds(local[q][t]) :
             \E m \in Remotes : p \in PackIds(server[m][t])

LEMMA PrefixHistory ==
    ASSUME NEW a \in Chain, NEW b \in Chain, IsPrefix(a, b)
    PROVE  /\ PackIds(a) \subseteq PackIds(b)
           /\ Valid(b) => Valid(a) /\ SameHistory(a, b)
<1>1. Len(a) <= Len(b) /\ \A i \in 1 .. Len(a) : a[i] = b[i]
  BY PrefixElements DEF Chain
<1>2. /\ DOMAIN a = 1 .. Len(a) /\ Len(a) \in Nat
      /\ DOMAIN b = 1 .. Len(b) /\ Len(b) \in Nat
  BY DEF Chain
<1>3. DOMAIN a \subseteq DOMAIN b
  BY <1>1, <1>2
<1>4. QED
  BY <1>1, <1>2, <1>3 DEF PackIds, Valid, SameHistory

(* A commit of a new tree changes nothing. *)
LEMMA AppendHistory ==
    ASSUME NEW a \in Chain, NEW r \in Replicas, NEW n \in Nat,
           NEW b \in Chain
    PROVE  LET new == Append(a, [pack |-> n, by |-> r])
           IN  /\ Valid(a) /\ n \notin PackIds(a) => Valid(new)
               /\ SameHistory(a, b) /\ n \notin PackIds(b)
                     => SameHistory(new, b)
<1> DEFINE new == Append(a, [pack |-> n, by |-> r])
<1>1. /\ new \in Chain
      /\ Len(new) = Len(a) + 1
      /\ \A i \in DOMAIN a : new[i] = a[i]
      /\ new[Len(a) + 1] = [pack |-> n, by |-> r]
  BY AppendCommit
<1> HIDE DEF new
<1>2. /\ DOMAIN a = 1 .. Len(a) /\ Len(a) \in Nat
      /\ DOMAIN new = 1 .. Len(a) + 1
  BY <1>1 DEF Chain
<1>3. \A i \in DOMAIN new : i \in DOMAIN a \/ i = Len(a) + 1
  BY <1>2
<1>4. new[Len(a) + 1].pack = n
  BY <1>1
<1>5. ASSUME Valid(a), n \notin PackIds(a)
      PROVE  Valid(new)
  <2> SUFFICES ASSUME NEW i \in DOMAIN new, NEW j \in DOMAIN new,
                      new[i].pack = new[j].pack
               PROVE  i = j
    BY DEF Valid
  <2>1. i \in DOMAIN a => new[i].pack # n
    BY <1>1, <1>5 DEF PackIds
  <2>2. j \in DOMAIN a => new[j].pack # n
    BY <1>1, <1>5 DEF PackIds
  <2>3. QED
    BY <1>1, <1>3, <1>4, <1>5, <2>1, <2>2 DEF Valid
<1>6. ASSUME SameHistory(a, b), n \notin PackIds(b)
      PROVE  SameHistory(new, b)
  <2> SUFFICES ASSUME NEW i \in DOMAIN new, NEW j \in DOMAIN b,
                      new[i].pack = b[j].pack
               PROVE  i = j /\ \A l \in 1 .. i : new[l] = b[l]
    BY DEF SameHistory
  <2>1. i \in DOMAIN a
    BY <1>3, <1>4, <1>6 DEF PackIds
  <2>2. i = j /\ \A l \in 1 .. i : a[l] = b[l]
    BY <1>1, <1>6, <2>1 DEF SameHistory
  <2>3. \A l \in 1 .. i : l \in DOMAIN a
    BY <1>2, <2>1
  <2>4. QED
    BY <1>1, <2>2, <2>3
<1>7. QED
  BY <1>5, <1>6 DEF new

(* What a rebase stores again is not on the remote: if it were, the clone  *)
(* would have the whole remote chain, and there would be nothing to merge. *)
LEMMA RebaseHistory ==
    ASSUME NEW r \in Replicas, NEW ours \in Chain, NEW theirs \in Chain,
           NEW remote \in Chain, IsPrefix(theirs, remote),
           ~ IsPrefix(theirs, ours),
           Valid(ours), Valid(remote), SameHistory(ours, remote),
           NEW new, new = Rebase(ours, theirs, r)
    PROVE  Valid(new) /\ SameHistory(new, remote)
<1> DEFINE k == CommonAncestor(ours, theirs)
           L == Len(theirs)
<1>1. /\ new \in Seq(Commit)
      /\ Len(new) = L + (Len(ours) - k)
      /\ \A i \in 1 .. L : new[i] = theirs[i]
      /\ \A i \in L + 1 .. Len(new) : new[i].pack = ours[i - L + k].pack
  BY ChainCommits, RebaseProperties DEF Chain
<1>2. /\ k \in 0 .. Len(ours) /\ k <= L
      /\ \A i \in 1 .. k : ours[i] = theirs[i]
      /\ k < Len(ours) /\ k < L => ours[k + 1] # theirs[k + 1]
  BY CommonAncestorProperties DEF Chain
<1>3. L <= Len(remote) /\ \A i \in 1 .. L : theirs[i] = remote[i]
  BY PrefixElements DEF Chain
<1>4. /\ DOMAIN ours = 1 .. Len(ours) /\ Len(ours) \in Nat
      /\ L \in Nat
      /\ DOMAIN remote = 1 .. Len(remote) /\ Len(remote) \in Nat
      /\ DOMAIN new = 1 .. Len(new) /\ Len(new) \in Nat
  BY <1>1 DEF Chain
<1> HIDE DEF k, L
<1>5. ASSUME NEW i \in k + 1 .. Len(ours), NEW j \in DOMAIN remote
      PROVE  ours[i].pack # remote[j].pack
  <2> SUFFICES ASSUME ours[i].pack = remote[j].pack
               PROVE  FALSE
    OBVIOUS
  <2>1. i \in DOMAIN ours
    BY <1>2, <1>4
  <2>2. \A l \in 1 .. i : ours[l] = remote[l]
    BY <2>1 DEF SameHistory
  <2>3. CASE i <= L
    <3>1. k < Len(ours) /\ k < L /\ k + 1 \in 1 .. i /\ k + 1 \in 1 .. L
      BY <1>2, <1>4, <2>3
    <3>2. QED
      BY <1>2, <1>3, <2>2, <3>1
  <2>4. CASE L < i
    <3>1. L <= Len(ours) /\ \A l \in 1 .. L : l \in 1 .. i
      BY <1>4, <2>1, <2>4
    <3>2. \A l \in 1 .. L : theirs[l] = ours[l]
      BY <1>3, <2>2, <3>1
    <3>3. IsPrefix(theirs, ours)
      BY <3>1, <3>2, PrefixElements DEF Chain, L
    <3>4. QED
      BY <3>3
  <2>5. QED
    BY <1>2, <1>4, <2>3, <2>4
<1>6. ASSUME NEW i \in L + 1 .. Len(new)
       PROVE  /\ i - L + k \in k + 1 .. Len(ours)
              /\ i - L + k \in DOMAIN ours
              /\ new[i].pack = ours[i - L + k].pack
  <2>1. i - L + k \in k + 1 .. Len(ours)
    BY <1>1, <1>2, <1>4
  <2>2. i - L + k \in DOMAIN ours
    BY <1>2, <1>4, <2>1
  <2>3. QED
    BY <1>1, <2>1, <2>2
<1>7. ASSUME NEW i \in DOMAIN new
      PROVE  \/ i \in 1 .. L /\ i \in DOMAIN remote /\ new[i] = remote[i]
             \/ /\ i \in L + 1 .. Len(new)
                /\ i - L + k \in k + 1 .. Len(ours)
                /\ new[i].pack = ours[i - L + k].pack
  <2>1. i \in 1 .. L \/ i \in L + 1 .. Len(new)
    BY <1>4
  <2>2. CASE i \in 1 .. L
    <3>1. i \in DOMAIN remote
      BY <1>3, <1>4, <2>2
    <3>2. QED
      BY <1>1, <1>3, <2>2, <3>1
  <2>3. CASE i \in L + 1 .. Len(new)
    BY <1>6, <2>3
  <2>4. QED
    BY <2>1, <2>2, <2>3
<1>8. Valid(new)
  <2> SUFFICES ASSUME NEW i \in DOMAIN new, NEW j \in DOMAIN new,
                      new[i].pack = new[j].pack
               PROVE  i = j
    BY DEF Valid
  <2>1. CASE i \in 1 .. L /\ j \in 1 .. L
    <3>1. /\ i \in DOMAIN remote /\ j \in DOMAIN remote
          /\ new[i] = remote[i] /\ new[j] = remote[j]
      BY <1>1, <1>3, <1>4, <2>1
    <3>2. QED
      BY <3>1 DEF Valid
  <2>2. CASE i \in L + 1 .. Len(new) /\ j \in L + 1 .. Len(new)
    <3>1. /\ i - L + k \in DOMAIN ours /\ j - L + k \in DOMAIN ours
          /\ new[i].pack = ours[i - L + k].pack
          /\ new[j].pack = ours[j - L + k].pack
      BY <1>6, <2>2
    <3>2. i - L + k = j - L + k
      BY <3>1 DEF Valid
    <3>3. QED
      BY <1>2, <1>4, <2>2, <3>2
  <2>3. CASE i \in 1 .. L /\ j \in L + 1 .. Len(new)
    <3>1. i \in DOMAIN remote /\ new[i] = remote[i]
      BY <1>1, <1>3, <1>4, <2>3
    <3>2. /\ j - L + k \in k + 1 .. Len(ours)
          /\ new[j].pack = ours[j - L + k].pack
      BY <1>6, <2>3
    <3>3. QED
      BY <1>5, <3>1, <3>2
  <2>4. CASE j \in 1 .. L /\ i \in L + 1 .. Len(new)
    <3>1. j \in DOMAIN remote /\ new[j] = remote[j]
      BY <1>1, <1>3, <1>4, <2>4
    <3>2. /\ i - L + k \in k + 1 .. Len(ours)
          /\ new[i].pack = ours[i - L + k].pack
      BY <1>6, <2>4
    <3>3. QED
      BY <1>5, <3>1, <3>2
  <2>5. QED
    BY <1>7, <2>1, <2>2, <2>3, <2>4
<1>9. SameHistory(new, remote)
  <2> SUFFICES ASSUME NEW i \in DOMAIN new, NEW j \in DOMAIN remote,
                      new[i].pack = remote[j].pack
               PROVE  i = j /\ \A l \in 1 .. i : new[l] = remote[l]
    BY DEF SameHistory
  <2>1. i \in 1 .. L /\ i \in DOMAIN remote /\ new[i] = remote[i]
    BY <1>5, <1>7
  <2>2. i = j
    BY <2>1 DEF Valid
  <2>3. \A l \in 1 .. i : l \in 1 .. L
    BY <1>4, <2>1
  <2>4. QED
    BY <1>1, <1>3, <2>2, <2>3
<1>10. QED
  BY <1>8, <1>9

(* The trees of a local ref after a step: those it had, those of a remote, *)
(* or the new one, and then no other clone has moved.                      *)
LEMMA LocalPacks ==
    ASSUME TypeInv, TrackingBehindServer, [Next]_vars,
           NEW r \in Replicas, NEW t \in Tickets, NEW p \in PackIds(local'[r][t])
    PROVE  \/ p \in PackIds(local[r][t])
           \/ \E m \in Remotes : p \in PackIds(server[m][t])
           \/ /\ p = Len(packs) + 1
              /\ \A q \in Replicas : q # r => local'[q][t] = local[q][t]
<1>1. /\ local \in [Replicas -> [Tickets -> Chain]]
      /\ tracking \in [Replicas -> [Remotes -> [Tickets -> Chain]]]
      /\ server \in [Remotes -> [Tickets -> Chain]]
      /\ Len(packs) \in Nat
  BY DEF TypeInv, TypeOK
<1>2. ASSUME NEW m \in Remotes
      PROVE  PackIds(tracking[r][m][t]) \subseteq PackIds(server[m][t])
  BY <1>1, PrefixHistory DEF TrackingBehindServer
<1>3. CASE local'[r][t] = local[r][t]
  BY <1>3
<1>4. CASE local'[r][t] = << >>
  BY <1>4, EmptyChain
<1>5. CASE \E m \in Remotes : local'[r][t] = tracking[r][m][t]
  BY <1>2, <1>5
<1>6. CASE NewTicket(r, t)
  <2>1. local' = [local EXCEPT ![r][t] =
                    <<[pack |-> Len(packs) + 1, by |-> r]>>]
    BY <1>6 DEF NewTicket
  <2>2. local'[r][t] = <<[pack |-> Len(packs) + 1, by |-> r]>>
    BY <1>1, <2>1
  <2>3. PackIds(local'[r][t]) = {Len(packs) + 1}
    <3>1. PICK n \in Nat : n = Len(packs) + 1
      BY <1>1
    <3>2. PackIds(<<[pack |-> n, by |-> r]>>) = {n}
      BY FirstCommit
    <3>3. QED
      BY <2>2, <3>1, <3>2
  <2>4. \A q \in Replicas : q # r => local'[q][t] = local[q][t]
    BY <1>1, <2>1
  <2>5. QED
    BY <2>3, <2>4
<1>7. ASSUME NEW s \in Statuses \cup {NoChange}, CommitOps(r, t, s)
      PROVE  \/ p \in PackIds(local[r][t])
             \/ /\ p = Len(packs) + 1
                /\ \A q \in Replicas : q # r => local'[q][t] = local[q][t]
  <2>1. local' = [local EXCEPT ![r][t] =
                    Append(local[r][t], [pack |-> Len(packs) + 1, by |-> r])]
    BY <1>7 DEF CommitOps
  <2>2. local'[r][t] = Append(local[r][t], [pack |-> Len(packs) + 1, by |-> r])
    BY <1>1, <2>1
  <2>3. local[r][t] \in Chain
    BY <1>1
  <2>4. PackIds(local'[r][t]) = PackIds(local[r][t]) \cup {Len(packs) + 1}
    <3>1. PICK n \in Nat : n = Len(packs) + 1
      BY <1>1
    <3>2. PackIds(Append(local[r][t], [pack |-> n, by |-> r])) =
            PackIds(local[r][t]) \cup {n}
      BY <2>3, AppendCommit
    <3>3. QED
      BY <2>2, <3>1, <3>2
  <2>5. \A q \in Replicas : q # r => local'[q][t] = local[q][t]
    BY <1>1, <2>1
  <2>6. QED
    BY <2>4, <2>5
<1>8. ASSUME NEW m \in Remotes,
             local'[r][t] = Rebase(local[r][t], tracking[r][m][t], r)
      PROVE  p \in PackIds(local[r][t]) \/ p \in PackIds(server[m][t])
  <2>1. local[r][t] \in Chain /\ tracking[r][m][t] \in Chain
    BY <1>1
  <2>2. PackIds(local'[r][t]) = PackIds(local[r][t]) \cup PackIds(tracking[r][m][t])
    BY <1>8, <2>1, RebaseKeepsPacks
  <2>3. QED
    BY <1>2, <2>2
<1> DEFINE Result ==
             \/ p \in PackIds(local[r][t])
             \/ \E m \in Remotes : p \in PackIds(server[m][t])
             \/ /\ p = Len(packs) + 1
                /\ \A q \in Replicas : q # r => local'[q][t] = local[q][t]
<1>9. Extended(r, t) => Result
  <2>1. NewTicket(r, t) => Result
    BY <1>6
  <2>2. (\E s \in Statuses \cup {NoChange} : CommitOps(r, t, s)) => Result
    BY <1>7
  <2>3. (\E m \in Remotes : local'[r][t] = Rebase(local[r][t], tracking[r][m][t], r))
          => Result
    BY <1>8
  <2> HIDE DEF Result
  <2>4. QED
    BY <2>1, <2>2, <2>3 DEF Extended
<1>10. (local'[r][t] = local[r][t] \/ local'[r][t] = << >>
          \/ \E m \in Remotes : local'[r][t] = tracking[r][m][t]) => Result
  BY <1>3, <1>4, <1>5
<1> HIDE DEF Result
<1>11. Result
  BY <1>9, <1>10, LocalSteps
<1>12. QED
  BY <1>11 DEF Result

(* A local ref that moves while the remote stands still.                   *)
LEMMA OnceLocal ==
    ASSUME TypeInv, TrackingBehindServer, Once, [Next]_vars,
           OneRemote, NEW r \in Replicas, NEW t \in Tickets
    PROVE  /\ Valid(local'[r][t])
           /\ \A m \in Remotes : SameHistory(local'[r][t], server[m][t])
<1> DEFINE Good(c) == /\ Valid(c)
                      /\ \A m \in Remotes : SameHistory(c, server[m][t])
<1>1. /\ local[r][t] \in Chain
      /\ \A m \in Remotes : tracking[r][m][t] \in Chain
      /\ \A m \in Remotes : server[m][t] \in Chain
      /\ Len(packs) \in Nat
      /\ DOMAIN packs = 1 .. Len(packs)
  BY DEF TypeInv, TypeOK
<1>2. Good(local[r][t])
  BY DEF Once
<1>3. Good(<< >>)
  BY DEF Valid, SameHistory
<1>4. ASSUME NEW m \in Remotes
      PROVE  Good(tracking[r][m][t])
  <2>1. IsPrefix(tracking[r][m][t], server[m][t])
    BY DEF TrackingBehindServer
  <2>2. Valid(server[m][t])
    BY DEF Once
  <2>3. Valid(tracking[r][m][t]) /\ SameHistory(tracking[r][m][t], server[m][t])
    BY <1>1, <2>1, <2>2, PrefixHistory
  <2>4. \A n \in Remotes : n = m
    BY DEF OneRemote
  <2>5. QED
    BY <2>3, <2>4
<1>5. /\ Len(packs) + 1 \notin PackIds(local[r][t])
      /\ \A m \in Remotes : Len(packs) + 1 \notin PackIds(server[m][t])
      /\ Len(packs) + 1 \notin DOMAIN packs
  BY <1>1 DEF TypeInv, KnownPacks, Stored
<1>6. ASSUME NEW a \in Chain, Good(a), NEW n \in Nat, n = Len(packs) + 1,
             n \notin PackIds(a), NEW new, new = Append(a, [pack |-> n, by |-> r])
      PROVE  Good(new)
  <2>1. new = Append(a, [pack |-> n, by |-> r])
    BY <1>6
  <2>2. Valid(new)
    BY <1>6, <2>1, AppendHistory
  <2>3. ASSUME NEW m \in Remotes
        PROVE  SameHistory(new, server[m][t])
    <3>1. server[m][t] \in Chain /\ n \notin PackIds(server[m][t])
      BY <1>1, <1>5, <1>6
    <3>2. SameHistory(a, server[m][t])
      BY <1>6
    <3>3. QED
      BY <2>1, <3>1, <3>2, AppendHistory
  <2>4. QED
    BY <2>2, <2>3
<1>7. /\ Good(<<[pack |-> Len(packs) + 1, by |-> r]>>)
      /\ Good(Append(local[r][t], [pack |-> Len(packs) + 1, by |-> r]))
  <2>1. PICK n \in Nat : n = Len(packs) + 1
    BY <1>1
  <2>2. PICK new : new = <<[pack |-> n, by |-> r]>>
    OBVIOUS
  <2>3. new = Append(<< >>, [pack |-> n, by |-> r])
    BY <2>2
  <2>4. PICK longer : longer = Append(local[r][t], [pack |-> n, by |-> r])
    OBVIOUS
  <2>5. << >> \in Chain /\ n \notin PackIds(<< >>)
    BY EmptyChain
  <2> HIDE DEF Good
  <2>6. Good(new)
    BY <1>3, <1>6, <2>1, <2>3, <2>5
  <2>7. Good(longer)
    BY <1>1, <1>2, <1>5, <1>6, <2>1, <2>4
  <2>8. QED
    BY <2>1, <2>2, <2>4, <2>6, <2>7
<1>8. ASSUME NEW m \in Remotes, MergeUpdated(r, m, t)
      PROVE  Good(Rebase(local[r][t], tracking[r][m][t], r))
  <2>1. ~ IsPrefix(tracking[r][m][t], local[r][t])
    BY <1>8 DEF MergeUpdated, RemoteHasMore, NothingBetween
  <2>2. IsPrefix(tracking[r][m][t], server[m][t])
    BY DEF TrackingBehindServer
  <2>3. /\ Valid(server[m][t]) /\ Valid(local[r][t])
        /\ SameHistory(local[r][t], server[m][t])
    BY DEF Once
  <2>4. PICK new : new = Rebase(local[r][t], tracking[r][m][t], r)
    OBVIOUS
  <2>5. Valid(new) /\ SameHistory(new, server[m][t])
    BY <1>1, <2>1, <2>2, <2>3, <2>4, RebaseHistory
  <2>6. \A n \in Remotes : n = m
    BY DEF OneRemote
  <2>7. QED
    BY <2>4, <2>5, <2>6
<1> HIDE DEF Good
<1>9. Good(local'[r][t])
  <2>1. Extended(r, t) => Good(local'[r][t])
    BY <1>7, <1>8 DEF Extended
  <2>2. QED
    BY <1>2, <1>3, <1>4, <2>1, LocalSteps
<1>10. QED
  BY <1>9 DEF Good

(* The remote ref moves to the local ref of a clone: every other clone has *)
(* the trees it shares with that clone at the same places.                 *)
LEMMA OncePushed ==
    ASSUME TypeInv, Once, OneRemote,
           NEW r \in Replicas, NEW q \in Replicas, NEW m \in Remotes,
           NEW t \in Tickets, IsPrefix(server[m][t], local[r][t])
    PROVE  SameHistory(local[q][t], local[r][t])
<1>1. /\ local[r][t] \in Chain /\ local[q][t] \in Chain
      /\ server[m][t] \in Chain
  BY DEF TypeInv, TypeOK
<1>2. /\ Valid(local[r][t])
      /\ SameHistory(local[q][t], server[m][t])
  BY DEF Once
<1>3. CASE q = r
  BY <1>1, <1>2, <1>3, PrefixReflexive, PrefixHistory DEF Chain
<1>4. CASE q # r
  <2> SUFFICES ASSUME NEW i \in DOMAIN local[q][t], NEW j \in DOMAIN local[r][t],
                      local[q][t][i].pack = local[r][t][j].pack
               PROVE  i = j /\ \A l \in 1 .. i : local[q][t][l] = local[r][t][l]
    BY DEF SameHistory
  <2> DEFINE p == local[q][t][i].pack
  <2>1. p \in PackIds(local[r][t]) \cap PackIds(local[q][t])
    BY DEF PackIds
  <2>2. \E n \in Remotes : p \in PackIds(server[n][t])
    BY <1>4, <2>1 DEF Once
  <2>3. p \in PackIds(server[m][t])
    BY <2>2 DEF OneRemote
  <2>4. PICK k \in DOMAIN server[m][t] : server[m][t][k].pack = p
    BY <2>3 DEF PackIds
  <2>5. i = k /\ \A l \in 1 .. i : local[q][t][l] = server[m][t][l]
    BY <1>2, <2>4 DEF SameHistory
  <2>6. /\ Len(server[m][t]) <= Len(local[r][t])
        /\ \A l \in 1 .. Len(server[m][t]) : server[m][t][l] = local[r][t][l]
    BY <1>1, PrefixElements DEF Chain
  <2>7. /\ DOMAIN server[m][t] = 1 .. Len(server[m][t])
        /\ Len(server[m][t]) \in Nat
        /\ DOMAIN local[r][t] = 1 .. Len(local[r][t])
        /\ Len(local[r][t]) \in Nat
    BY <1>1 DEF Chain
  <2>8. i \in DOMAIN local[r][t] /\ local[r][t][i].pack = p
    BY <2>4, <2>5, <2>6, <2>7
  <2>9. i = j
    BY <1>2, <2>8 DEF Valid
  <2>10. \A l \in 1 .. i : l \in 1 .. Len(server[m][t])
    BY <2>5, <2>7
  <2>11. QED
    BY <2>5, <2>6, <2>9, <2>10
<1>5. QED
  BY <1>3, <1>4

LEMMA OnceInit == Init => Once
<1> SUFFICES ASSUME Init
             PROVE  Once
  OBVIOUS
<1>1. /\ \A r \in Replicas, t \in Tickets : local[r][t] = << >>
      /\ \A m \in Remotes, t \in Tickets : server[m][t] = << >>
  BY DEF Init
<1>2. Valid(<< >>) /\ SameHistory(<< >>, << >>) /\ PackIds(<< >>) = {}
  BY EmptyChain DEF Valid, SameHistory
<1>3. QED
  BY <1>1, <1>2 DEF Once

LEMMA OnceStep ==
    ASSUME TypeInv, TrackingBehindServer, Once, [Next]_vars,
           OneRemote
    PROVE  Once'
<1>1. ASSUME NEW m \in Remotes, NEW t \in Tickets
      PROVE  /\ Valid(server'[m][t])
             /\ PackIds(server[m][t]) \subseteq PackIds(server'[m][t])
  <2>1. Valid(server[m][t])
    BY DEF Once
  <2>2. ASSUME NEW r \in Replicas, server'[m][t] = local[r][t],
               IsPrefix(server[m][t], local[r][t])
        PROVE  /\ Valid(server'[m][t])
               /\ PackIds(server[m][t]) \subseteq PackIds(server'[m][t])
    <3>1. local[r][t] \in Chain /\ server[m][t] \in Chain
      BY DEF TypeInv, TypeOK
    <3>2. Valid(local[r][t])
      BY DEF Once
    <3>3. QED
      BY <2>2, <3>1, <3>2, PrefixHistory
  <2>3. QED
    BY <2>1, <2>2, ServerSteps
<1>2. ASSUME NEW r \in Replicas, NEW m \in Remotes, NEW t \in Tickets
      PROVE  SameHistory(local'[r][t], server'[m][t])
  <2>1. CASE server'[m][t] = server[m][t]
    BY <2>1, OnceLocal
  <2>2. ASSUME NEW q \in Replicas, server'[m][t] = local[q][t],
               IsPrefix(server[m][t], local[q][t]), local' = local
        PROVE  SameHistory(local'[r][t], server'[m][t])
    BY <2>2, OncePushed
  <2>3. QED
    BY <2>1, <2>2, ServerSteps
<1>3. ASSUME NEW r \in Replicas, NEW q \in Replicas, NEW t \in Tickets, r # q,
             NEW p \in PackIds(local'[r][t]), p \in PackIds(local'[q][t])
      PROVE  \E m \in Remotes : p \in PackIds(server'[m][t])
  <2>1. CASE \E m \in Remotes : p \in PackIds(server[m][t])
    BY <1>1, <2>1
  <2>2. CASE p \in PackIds(local[r][t]) /\ p \in PackIds(local[q][t])
    BY <1>1, <1>3, <2>2 DEF Once
  <2>3. ASSUME NEW a \in Replicas
        PROVE  Len(packs) + 1 \notin PackIds(local[a][t])
    <3>1. Len(packs) + 1 \notin DOMAIN packs
      BY DEF TypeInv, TypeOK
    <3>2. QED
      BY <3>1 DEF TypeInv, KnownPacks, Stored
  <2>4. \/ p \in PackIds(local[r][t])
        \/ \E m \in Remotes : p \in PackIds(server[m][t])
        \/ p = Len(packs) + 1 /\ local'[q][t] = local[q][t]
    BY <1>3, LocalPacks
  <2>5. \/ p \in PackIds(local[q][t])
        \/ \E m \in Remotes : p \in PackIds(server[m][t])
        \/ p = Len(packs) + 1 /\ local'[r][t] = local[r][t]
    BY <1>3, LocalPacks
  <2>6. QED
    BY <1>3, <2>1, <2>2, <2>3, <2>4, <2>5
<1>4. \A r \in Replicas, t \in Tickets : Valid(local'[r][t])
  BY OnceLocal
<1>5. QED
  BY <1>1, <1>2, <1>3, <1>4 DEF Once

LEMMA OnceIsEnough ==
    ASSUME TypeInv, TrackingBehindServer, Once
    PROVE  NoDuplicateOps
<1>1. ASSUME NEW r \in Replicas, NEW m \in Remotes, NEW t \in Tickets
      PROVE  Valid(tracking[r][m][t])
  <2>1. /\ tracking[r][m][t] \in Chain /\ server[m][t] \in Chain
        /\ IsPrefix(tracking[r][m][t], server[m][t])
    BY DEF TypeInv, TypeOK, TrackingBehindServer
  <2>2. QED
    BY <2>1, PrefixHistory DEF Once
<1>2. QED
  BY <1>1 DEF NoDuplicateOps, Chains, Once

(* With one remote every ref of every clone and of the remote validates,   *)
(* whatever is pulled, interrupted, pushed singly, removed or reset: no    *)
(* rebase ever stores an operation twice.  With two remotes, a pull from   *)
(* each can store one twice.                                               *)
THEOREM NoDuplicateOpsCorrect ==
    ASSUME OneRemote
    PROVE  Spec => []NoDuplicateOps
<1> DEFINE Inv == TypeInv /\ TrackingBehindServer /\ Once
<1>1. Init => Inv
  BY TypeInvInit, TrackingInit, OnceInit
<1>2. Inv /\ [Next]_vars => Inv'
  BY TypeInvStep, TrackingStep, OnceStep
<1>3. Inv => NoDuplicateOps
  BY OnceIsEnough
<1>4. QED
  BY <1>1, <1>2, <1>3, PTL DEF Spec

-----------------------------------------------------------------------------
(* TicketSync implements CloneRefs *)

(* The instance of CloneRefs uses the operators of CommitChains.           *)
LEMMA RefsOperators ==
    /\ \A a, b : Refs!IsPrefix(a, b) <=> IsPrefix(a, b)
    /\ \A a, b : Refs!NothingBetween(a, b) <=> NothingBetween(a, b)
    /\ \A a : Refs!PackIds(a) = PackIds(a)
    /\ \A a : Refs!Valid(a) <=> Valid(a)
    /\ \A a, k : Refs!Extra(a, k) = Extra(a, k)
    /\ \A a, b : Refs!CommonAncestor(a, b) = CommonAncestor(a, b)
    /\ \A a, b, r : Refs!Rebase(a, b, r) = Rebase(a, b, r)
<1>1. \A a, b : Refs!IsPrefix(a, b) <=> IsPrefix(a, b)
  BY DEF Refs!IsPrefix, IsPrefix
<1>2. \A a, b : Refs!NothingBetween(a, b) <=> NothingBetween(a, b)
  BY <1>1 DEF Refs!NothingBetween, NothingBetween
<1>3. \A a : Refs!PackIds(a) = PackIds(a)
  BY DEF Refs!PackIds, PackIds
<1>4. \A a : Refs!Valid(a) <=> Valid(a)
  BY DEF Refs!Valid, Valid
<1>5. \A a, k : Refs!Extra(a, k) = Extra(a, k)
  BY DEF Refs!Extra, Extra
<1>6. \A a, b : Refs!CommonAncestor(a, b) = CommonAncestor(a, b)
  BY DEF Refs!CommonAncestor, CommonAncestor
<1>7. \A a, r : Refs!Recommit(a, r) = Recommit(a, r)
  BY DEF Refs!Recommit, Recommit
<1>8. \A a, b, r : Refs!Rebase(a, b, r) = Rebase(a, b, r)
  BY <1>5, <1>6, <1>7 DEF Refs!Rebase, Rebase
<1>9. QED
  BY <1>1, <1>2, <1>3, <1>4, <1>5, <1>6, <1>8

(* Of a pack CloneRefs knows whether it sets the status.                   *)
Sets == [p \in DOMAIN packs |-> packs[p].status # NoChange]

LEMMA SetsGrow ==
    ASSUME TypeInv, [Next]_vars
    PROVE  IsPrefix(Sets, Sets')
<1>1. packs \in Seq(Pack) /\ packs' \in Seq(Pack)
  BY TypeInvStep DEF TypeInv, TypeOK
<1>2. \A p \in DOMAIN packs : p \in DOMAIN packs' /\ packs'[p] = packs[p]
  BY TreesStay
<1>3. /\ Sets \in Seq(BOOLEAN) /\ Sets' \in Seq(BOOLEAN)
      /\ Len(Sets) = Len(packs) /\ Len(Sets') = Len(packs')
  <2>1. /\ Sets \in [1 .. Len(packs) -> BOOLEAN]
        /\ Sets' \in [1 .. Len(packs') -> BOOLEAN]
    BY <1>1 DEF Sets
  <2>2. Len(packs) \in Nat /\ Len(packs') \in Nat
    BY <1>1
  <2>3. QED
    BY <2>1, <2>2
<1>4. \A p \in DOMAIN packs : Sets[p] = Sets'[p]
  BY <1>2 DEF Sets
<1>5. Len(packs) <= Len(packs')
  <2>1. Len(packs) \in DOMAIN packs \/ Len(packs) = 0
    BY <1>1
  <2>2. QED
    BY <1>1, <1>2, <2>1
<1>6. DOMAIN packs = 1 .. Len(packs)
  BY <1>1
<1>7. QED
  BY <1>3, <1>4, <1>5, <1>6, PrefixElements

(* A tree that is stored now is in no chain yet. *)
LEMMA NewTreeUnused ==
    ASSUME TypeInv
    PROVE  Refs!Unused(Len(packs) + 1)
<1>1. Len(packs) + 1 \notin DOMAIN packs
  BY DEF TypeInv, TypeOK
<1>2. QED
  BY <1>1, RefsOperators DEF TypeInv, KnownPacks, Stored, Refs!Unused

LEMMA CommitStep ==
    ASSUME TypeInv, [Next]_vars, NEW r \in Replicas, NEW t \in Tickets,
           Valid(local[r][t]),
           NEW x, packs' = Append(packs, x),
           local' = [local EXCEPT ![r][t] =
                       Append(@, [pack |-> Len(packs) + 1, by |-> r])],
           UNCHANGED <<tracking, server>>
    PROVE  Refs!Commit(r, t)
<1> DEFINE p == Len(packs) + 1
           sets == [n \in DOMAIN packs |-> packs[n].status # NoChange]
<1>1. IsPrefix(sets, sets')
  BY SetsGrow DEF Sets
<1>2. p \in DOMAIN sets'
  BY DEF TypeInv, TypeOK
<1>3. Refs!Unused(p)
  BY NewTreeUnused
<1> HIDE DEF p
<1>4. QED
  BY <1>1, <1>2, <1>3, RefsOperators DEF Refs!Commit, p
(* Whether two chains of a ticket are in conflict is seen from there.      *)
LEMMA SameConflict ==
    ASSUME TypeInv, NEW u \in Tickets, NEW v \in Tickets,
           NEW ours \in Chain, Stored(u, ours),
           NEW theirs \in Chain, Stored(v, theirs)
    PROVE  Refs!Conflict(ours, theirs) <=> StatusConflict(ours, theirs)
<1> DEFINE k == CommonAncestor(ours, theirs)
<1>1. /\ k \in 0 .. Len(ours) /\ k \in 0 .. Len(theirs)
      /\ Len(ours) \in Nat /\ Len(theirs) \in Nat
  BY CommonAncestorProperties DEF Chain
<1>2. ASSUME NEW t \in Tickets, NEW chain \in Chain, Stored(t, chain),
             NEW n \in 0 .. Len(chain)
      PROVE  Refs!SetsStatus(Extra(chain, n)) <=> StatusChanges(Extra(chain, n)) # {}
  <2>1. /\ Extra(chain, n) \in Seq(Commit)
        /\ Len(Extra(chain, n)) = Len(chain) - n
        /\ \A j \in 1 .. Len(chain) - n : Extra(chain, n)[j] = chain[j + n]
    BY ExtraProperties DEF Chain
  <2>2. Len(chain) \in Nat /\ DOMAIN chain = 1 .. Len(chain)
    BY DEF Chain
  <2>3. ASSUME NEW i \in DOMAIN Extra(chain, n)
        PROVE  Extra(chain, n)[i].pack \in DOMAIN packs
    <3>1. i \in 1 .. Len(chain) - n /\ i + n \in DOMAIN chain
      BY <2>1, <2>2
    <3>2. chain[i + n].pack \in DOMAIN packs
      BY <1>2, <3>1 DEF Stored, PackIds
    <3>3. QED
      BY <2>1, <3>1, <3>2
  <2>4. QED
    BY <2>3 DEF Refs!SetsStatus, StatusChanges
<1>3. /\ Refs!SetsStatus(Extra(ours, k)) <=> StatusChanges(Extra(ours, k)) # {}
      /\ Refs!SetsStatus(Extra(theirs, k)) <=> StatusChanges(Extra(theirs, k)) # {}
  BY <1>1, <1>2
<1>4. QED
  BY <1>3, RefsOperators DEF Refs!Conflict, StatusConflict

LEMMA MergeStep ==
    ASSUME TypeInv, NEW r \in Replicas, NEW m \in Remotes, NEW t \in Tickets,
           MergeTicket(r, m, t)
    PROVE  Refs!Merge(r, m, t) \/ UNCHANGED Refs!vars
<1>1. CASE CopyNew(r, m, t)
  BY <1>1, RefsOperators DEF CopyNew, Refs!Merge
<1>2. CASE MergeUpdated(r, m, t)
  <2>1. /\ local[r][t] \in Chain /\ Stored(t, local[r][t])
        /\ tracking[r][m][t] \in Chain /\ Stored(t, tracking[r][m][t])
    BY DEF TypeInv, TypeOK, KnownPacks
  <2>2. ~ Refs!Conflict(local[r][t], tracking[r][m][t])
    BY <1>2, <2>1, SameConflict DEF MergeUpdated
  <2>3. ~ NothingBetween(local[r][t], tracking[r][m][t])
    BY <1>2 DEF MergeUpdated, RemoteHasMore
  <2>4. QED
    BY <1>2, <2>2, <2>3, RefsOperators DEF MergeUpdated, Refs!Merge
<1>3. CASE SkipUpToDate(r, m, t) \/ SkipInvalid(r, m, t) \/ MergeConflict(r, m, t)
  BY <1>3 DEF SkipUpToDate, SkipInvalid, MergeConflict, Refs!vars
<1>4. QED
  BY <1>1, <1>2, <1>3 DEF MergeTicket

LEMMA NewTicketStep ==
    ASSUME TypeInv, [Next]_vars, NEW r \in Replicas, NEW t \in Tickets,
           NewTicket(r, t)
    PROVE  Refs!Commit(r, t)
<1>1. local[r][t] = << >>
  <2>1. local[r][t] \in Seq(Commit) /\ Stored(t, local[r][t])
    BY DEF TypeInv, TypeOK, KnownPacks, Chain
  <2>2. PackIds(local[r][t]) = {}
    BY <2>1 DEF Stored, NewTicket
  <2>3. Len(local[r][t]) = 0
    <3>1. 1 \notin DOMAIN local[r][t]
      BY <2>2 DEF PackIds
    <3>2. QED
      BY <2>1, <3>1
  <2>4. QED
    BY <2>1, <2>3
<1>2. Valid(local[r][t])
  BY <1>1 DEF Valid
<1>3. local' = [local EXCEPT ![r][t] =
                  Append(@, [pack |-> Len(packs) + 1, by |-> r])]
  BY <1>1 DEF NewTicket
<1>4. QED
  BY <1>2, <1>3, CommitStep DEF NewTicket

LEMMA PushAsPush ==
    ASSUME NEW r \in Replicas, NEW m \in Remotes, Push(r, m)
    PROVE  Refs!Push(r, m)
<1>1. ToPush(r, m) = Refs!ToPush(r, m)
  BY DEF ToPush, Refs!ToPush
<1>2. QED
  BY <1>1, RefsOperators
     DEF Push, CanFastForward, Refs!Push, Refs!Pushed

LEMMA RefsStep == TypeInv /\ [Next]_vars => [Refs!Next]_(Refs!vars)
<1> SUFFICES ASSUME TypeInv, [Next]_vars
             PROVE  [Refs!Next]_(Refs!vars)
  OBVIOUS
<1>1. ASSUME NEW r \in Replicas, NEW t \in Tickets, NewTicket(r, t)
      PROVE  Refs!Next
  BY <1>1, NewTicketStep DEF Refs!Next
<1>2. ASSUME NEW r \in Replicas, NEW t \in Tickets,
             NEW s \in Statuses \cup {NoChange}, CommitOps(r, t, s)
      PROVE  Refs!Next
  <2>1. Refs!Commit(r, t)
    BY <1>2, CommitStep DEF CommitOps
  <2>2. QED
    BY <2>1 DEF Refs!Next
<1>3. ASSUME NEW r \in Replicas, NEW m \in Remotes, StartPull(r, m)
      PROVE  Refs!Next
  <2>1. Refs!Fetch(r, m)
    BY <1>3, RefsOperators DEF StartPull, Refs!Fetch
  <2>2. QED
    BY <2>1 DEF Refs!Next
<1>4. ASSUME NEW r \in Replicas, NEW m \in Remotes, NEW t \in Tickets,
             MergeTicket(r, m, t)
      PROVE  [Refs!Next]_(Refs!vars)
  BY <1>4, MergeStep DEF Refs!Next
<1>5. ASSUME NEW r \in Replicas, NEW m \in Remotes, Push(r, m)
      PROVE  Refs!Next
  BY <1>5, PushAsPush DEF Refs!Next
<1>6. ASSUME NEW r \in Replicas, NEW m \in Remotes, NEW t \in Tickets,
             PushTicket(r, m, t)
      PROVE  Refs!Next
  <2>1. Refs!PushTicket(r, m, t)
    BY <1>6, RefsOperators
       DEF PushTicket, ToPush, CanFastForward, Refs!PushTicket, Refs!ToPush
  <2>2. QED
    BY <2>1 DEF Refs!Next
<1>7. ASSUME NEW r \in Replicas, NEW t \in Tickets, RemoveBug(r, t)
      PROVE  Refs!Next
  <2>1. Refs!RemoveTicket(r, t)
    BY <1>7 DEF RemoveBug, Refs!RemoveTicket
  <2>2. QED
    BY <2>1 DEF Refs!Next
<1>8. ASSUME NEW r \in Replicas, NEW m \in Remotes, NEW t \in Tickets,
             ResetBug(r, m, t)
      PROVE  Refs!Next
  <2>1. Refs!ResetTicket(r, m, t)
    BY <1>8 DEF ResetBug, Refs!ResetTicket
  <2>2. QED
    BY <2>1 DEF Refs!Next
<1>9. ASSUME NEW r \in Replicas, Abort(r) \/ RebuildClocks(r)
      PROVE  UNCHANGED Refs!vars
  BY <1>9 DEF Abort, RebuildClocks, Refs!vars
<1>10. UNCHANGED vars => UNCHANGED Refs!vars
  BY DEF vars, Refs!vars
<1>11. QED
  BY <1>1, <1>2, <1>3, <1>4, <1>5, <1>6, <1>7, <1>8, <1>9, <1>10 DEF Next

(* Whatever is pulled, interrupted, restamped or merged in whatever order, *)
(* the refs of the clones and of the remotes change only by whole commits, *)
(* fetches, merges, pushes, removals and resets.                           *)
THEOREM ImplementsCloneRefs == Spec => ActsOnRefs
<1>1. Init => Refs!Init
  <2>1. Init => [p \in DOMAIN packs |-> packs[p].status # NoChange] = << >>
    BY DEF Init
  <2>2. QED
    BY <2>1 DEF Init, Refs!Init, Refs!NoRefs
<1>2. QED
  BY <1>1, TypeInvInit, TypeInvStep, RefsStep, PTL
     DEF Spec, ActsOnRefs, Refs!Spec
=============================================================================
