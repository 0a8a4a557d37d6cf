-------------------------- MODULE SharedRefsProofs --------------------------
(***************************************************************************)
(* Proofs about SharedRefs, for every set of clones, identities, tickets   *)
(* and configurations and without a bound on what is written beyond        *)
(* MaxCommits and MaxCrashes, which are arbitrary.                         *)
(***************************************************************************)
EXTENDS SharedRefs, CommitChainsProofs

-----------------------------------------------------------------------------
(* The inductive invariant: no time is later than the number of commits    *)
(* made, no clock is further than the next one, and identities are in      *)
(* order.  The bound is what makes the maxima of Witness exist.            *)

Fine(m, x, chain) ==
    /\ chain \in Chain
    /\ \A j \in DOMAIN chain : chain[j].time <= m
    /\ x \in Identity => Ordered(chain)

TableOK(m, f) ==
    /\ f \in [Clone -> [Ref -> Chain]]
    /\ \A c \in Clone, x \in Ref : Fine(m, x, f[c][x])

RefsOK(m, f) ==
    /\ f \in [Ref -> Chain]
    /\ \A x \in Ref : Fine(m, x, f[x])

ClockOK(m, f) ==
    /\ f \in [Clone -> Nat \ {0}]
    /\ \A c \in Clone : f[c] <= m + 1

RestOK ==
    /\ backups \in [Clone -> [Config -> SUBSET Chain]]
    /\ todo \in [Clone -> SUBSET Ref]
    /\ crashes \in Nat

Inv ==
    /\ made \in Nat
    /\ TableOK(made, local)
    /\ TableOK(made, tracking)
    /\ RefsOK(made, server)
    /\ ClockOK(made, clock)
    /\ RestOK

-----------------------------------------------------------------------------
(* Tables and chains *)

(* Writing one entry of a table. *)
LEMMA SetEntry ==
    ASSUME NEW A, NEW B, NEW V, NEW f \in [A -> [B -> V]],
           NEW a \in A, NEW b \in B, NEW v \in V,
           NEW g, g = [f EXCEPT ![a][b] = v]
    PROVE  /\ g \in [A -> [B -> V]]
           /\ \A p \in A, q \in B :
                 g[p][q] = IF p = a /\ q = b THEN v ELSE f[p][q]
OBVIOUS

(* Writing one row. *)
LEMMA SetLine ==
    ASSUME NEW A, NEW V, NEW f \in [A -> V], NEW a \in A, NEW v \in V,
           NEW g, g = [f EXCEPT ![a] = v]
    PROVE  g \in [A -> V] /\ \A p \in A : g[p] = IF p = a THEN v ELSE f[p]
OBVIOUS

(* The elements of a chain are versions, and their times numbers.          *)
LEMMA ChainTimes ==
    ASSUME NEW chain \in Chain
    PROVE  /\ chain \in Seq(Version)
           /\ \A j \in DOMAIN chain : chain[j] \in Version
           /\ \A j \in DOMAIN chain : chain[j].time \in Nat
<1>1. chain \in Seq(Version)
  BY DEF Chain
<1>2. \A j \in DOMAIN chain : chain[j] \in Version
  BY <1>1
<1>3. \A v \in Version : v.time \in Nat
  BY DEF Version
<1>4. QED
  BY <1>1, <1>2, <1>3

(* More commits make no chain worse. *)
LEMMA FineGrows ==
    ASSUME NEW m \in Nat, NEW x, NEW chain, Fine(m, x, chain)
    PROVE  Fine(m + 1, x, chain)
<1>1. \A j \in DOMAIN chain : chain[j].time \in Nat
  BY ChainTimes DEF Fine
<1>2. QED
  BY <1>1 DEF Fine

(* One more commit, not earlier than the others. *)
LEMMA AppendFine ==
    ASSUME NEW m \in Nat, NEW x, NEW chain, Fine(m, x, chain),
           NEW v \in Version, v.time <= m + 1,
           x \in Identity => \A j \in DOMAIN chain : chain[j].time < v.time
    PROVE  Fine(m + 1, x, Append(chain, v))
<1> DEFINE new == Append(chain, v)
<1>1. chain \in Seq(Version) /\ \A j \in DOMAIN chain : chain[j].time \in Nat
  BY ChainTimes DEF Fine
<1>2. /\ new \in Seq(Version)
      /\ Len(new) = Len(chain) + 1
      /\ \A j \in 1 .. Len(chain) : new[j] = chain[j]
      /\ new[Len(chain) + 1] = v
      /\ DOMAIN new = 1 .. Len(chain) + 1
      /\ DOMAIN chain = 1 .. Len(chain)
      /\ Len(chain) \in Nat
  BY <1>1
<1> HIDE DEF new
<1>3. \A j \in DOMAIN new : new[j].time <= m + 1
  BY <1>1, <1>2 DEF Fine
<1>4. ASSUME x \in Identity
      PROVE  Ordered(new)
  <2>1. SUFFICES ASSUME NEW j \in DOMAIN new, NEW k \in DOMAIN new, j < k
                 PROVE  new[j].time < new[k].time
    BY DEF Ordered
  <2>2. CASE k = Len(chain) + 1
    BY <1>2, <1>4, <2>1, <2>2
  <2>3. CASE k # Len(chain) + 1
    <3>1. j \in DOMAIN chain /\ k \in DOMAIN chain
      BY <1>2, <2>1, <2>3
    <3>2. chain[j].time < chain[k].time
      BY <1>4, <2>1, <3>1 DEF Fine, Ordered
    <3>3. QED
      BY <1>2, <3>1, <3>2
  <2>4. QED
    BY <2>2, <2>3
<1>5. QED
  BY <1>2, <1>3, <1>4 DEF Fine, Chain, new

(* What Witness computes: the next time after the clock and the chain.     *)
LEMMA WitnessBounds ==
    ASSUME NEW m \in Nat, NEW x, NEW chain, Fine(m, x, chain),
           NEW now \in Nat \ {0}, now <= m + 1
    PROVE  /\ Witness(now, chain) \in Nat \ {0}
           /\ now <= Witness(now, chain)
           /\ Witness(now, chain) <= m + 1
           /\ \A j \in DOMAIN chain : chain[j].time < Witness(now, chain)
<1> DEFINE S == {now} \cup {chain[j].time + 1 : j \in DOMAIN chain}
<1>1. \A j \in DOMAIN chain : chain[j].time \in Nat /\ chain[j].time <= m
  BY ChainTimes DEF Fine
<1>2. /\ S \subseteq Nat /\ S # {}
      /\ now \in S /\ \A j \in DOMAIN chain : chain[j].time + 1 \in S
      /\ \A s \in S : s <= m + 1
  BY <1>1
<1> HIDE DEF S
<1>3. m + 1 \in Nat
  OBVIOUS
<1>4. Max(S) \in S /\ \A s \in S : s <= Max(S)
  BY <1>2, <1>3, MaxProperties
<1>5. PICK w : w = Witness(now, chain)
  OBVIOUS
<1>6. w \in S /\ \A s \in S : s <= w
  BY <1>4, <1>5 DEF Witness, S
<1>7. w \in Nat /\ now <= w /\ w <= m + 1
  BY <1>2, <1>6
<1>8. \A j \in DOMAIN chain : chain[j].time < w
  BY <1>1, <1>2, <1>6, <1>7
<1>9. QED
  BY <1>5, <1>7, <1>8
-----------------------------------------------------------------------------
(* The invariant holds initially *)

LEMMA EmptyFine ==
    ASSUME NEW x
    PROVE  << >> \in Chain /\ Fine(0, x, << >>)
<1>1. << >> \in Chain /\ DOMAIN << >> = {}
  BY DEF Chain
<1>2. QED
  BY <1>1 DEF Fine, Ordered

LEMMA InvInit == Init => Inv
<1> SUFFICES ASSUME Init PROVE Inv
  OBVIOUS
<1>1. RefsOK(0, NoRefs)
  BY EmptyFine DEF RefsOK, NoRefs
<1>2. TableOK(0, local) /\ TableOK(0, tracking)
  BY <1>1 DEF Init, TableOK, RefsOK
<1>3. ClockOK(0, clock)
  BY DEF Init, ClockOK, NewClock
<1>4. RestOK
  BY DEF Init, RestOK
<1>5. QED
  BY <1>1, <1>2, <1>3, <1>4 DEF Init, Inv

-----------------------------------------------------------------------------
(* Writing *)

(* What is fine stays fine when one more commit is made. *)
LEMMA TableGrows ==
    ASSUME NEW m \in Nat, NEW f, TableOK(m, f)
    PROVE  TableOK(m + 1, f)
BY FineGrows DEF TableOK

LEMMA RefsGrow ==
    ASSUME NEW m \in Nat, NEW f, RefsOK(m, f)
    PROVE  RefsOK(m + 1, f)
BY FineGrows DEF RefsOK

LEMMA TableEntry ==
    ASSUME NEW m \in Nat, NEW f, TableOK(m, f),
           NEW c \in Clone, NEW x \in Ref, NEW chain, Fine(m, x, chain),
           NEW g, g = [f EXCEPT ![c][x] = chain]
    PROVE  TableOK(m, g)
<1>1. f \in [Clone -> [Ref -> Chain]] /\ chain \in Chain
  BY DEF TableOK, Fine
<1>2. /\ g \in [Clone -> [Ref -> Chain]]
      /\ \A d \in Clone, y \in Ref :
            g[d][y] = IF d = c /\ y = x THEN chain ELSE f[d][y]
  BY <1>1, SetEntry
<1>3. ASSUME NEW d \in Clone, NEW y \in Ref
      PROVE  Fine(m, y, g[d][y])
  <2>1. CASE d = c /\ y = x
    BY <1>2, <2>1
  <2>2. CASE ~ (d = c /\ y = x)
    BY <1>2, <2>2 DEF TableOK
  <2>3. QED
    BY <2>1, <2>2
<1>4. QED
  BY <1>2, <1>3 DEF TableOK

(* A commit on a local ref, later than what it is made on. *)
LEMMA CommitTables ==
    ASSUME Inv, NEW c \in Clone, NEW x \in Ref,
           NEW time \in Nat, time <= made + 1,
           x \in Identity => \A j \in DOMAIN local[c][x] : local[c][x][j].time < time,
           Commit(c, x, time)
    PROVE  /\ made' = made + 1 /\ made' \in Nat
           /\ TableOK(made', local')
           /\ TableOK(made', tracking')
           /\ RefsOK(made', server')
           /\ RestOK'
<1> DEFINE v == [no |-> made + 1, time |-> time]
<1>1. made \in Nat /\ made' = made + 1 /\ made' \in Nat
  BY DEF Inv, Commit
<1>2. v \in Version /\ v.time <= made + 1 /\ v.time = time
  BY <1>1 DEF Version
<1>3. local' = [local EXCEPT ![c][x] = Append(local[c][x], v)]
  BY <1>1 DEF Commit
<1>4. Fine(made, x, local[c][x])
  BY DEF Inv, TableOK
<1> HIDE DEF v
<1>5. Fine(made + 1, x, Append(local[c][x], v))
  BY <1>1, <1>2, <1>4, AppendFine
<1>6. TableOK(made + 1, local) /\ TableOK(made + 1, tracking) /\ RefsOK(made + 1, server)
  BY <1>1, TableGrows, RefsGrow DEF Inv
<1>7. TableOK(made + 1, local')
  BY <1>1, <1>3, <1>5, <1>6, TableEntry
<1>8. tracking' = tracking /\ server' = server
  BY DEF Commit
<1>9. RestOK'
  BY DEF Inv, RestOK, Commit
<1>10. QED
  BY <1>1, <1>6, <1>7, <1>8, <1>9

LEMMA Kinds ==
    /\ Identity \subseteq Ref /\ Ticket \subseteq Ref /\ Config \subseteq Ref
    /\ \A t \in Ticket : t \notin Identity
    /\ \A n \in Config : n \notin Identity /\ n \notin Ticket
BY KindsOK DEF Ref

LEMMA ClockStep ==
    ASSUME NEW m \in Nat, NEW f, ClockOK(m, f),
           NEW c \in Clone, NEW t \in Nat \ {0}, t <= m + 1,
           NEW g, g = [f EXCEPT ![c] = t]
    PROVE  ClockOK(m, g)
BY SetLine DEF ClockOK

LEMMA ClockGrows ==
    ASSUME NEW m \in Nat, NEW f, ClockOK(m, f)
    PROVE  ClockOK(m + 1, f)
BY DEF ClockOK

LEMMA NewIdentityInv ==
    ASSUME Inv, NEW c \in Clone, NEW i \in Identity, NewIdentity(c, i)
    PROVE  Inv'
<1>1. made \in Nat /\ ClockOK(made, clock) /\ i \in Ref
  BY Kinds DEF Inv
<1>2. clock[c] \in Nat \ {0} /\ clock[c] <= made + 1
  BY <1>1 DEF ClockOK
<1>3. local[c][i] = << >> /\ Commit(c, i, clock[c])
  BY DEF NewIdentity, New
<1>4. \A j \in DOMAIN local[c][i] : local[c][i][j].time < clock[c]
  BY <1>3
<1>5. /\ made' = made + 1 /\ made' \in Nat
      /\ TableOK(made', local') /\ TableOK(made', tracking')
      /\ RefsOK(made', server') /\ RestOK'
  BY <1>1, <1>2, <1>3, <1>4, CommitTables
<1>6. clock' = [clock EXCEPT ![c] = clock[c] + 1]
  BY DEF NewIdentity
<1>7. ClockOK(made + 1, clock) /\ made + 1 \in Nat
  BY <1>1, ClockGrows
<1>8. clock[c] + 1 \in Nat \ {0} /\ clock[c] + 1 <= (made + 1) + 1
  BY <1>1, <1>2
<1>9. ClockOK(made + 1, clock')
  BY <1>6, <1>7, <1>8, ClockStep
<1>10. QED
  BY <1>5, <1>9 DEF Inv

LEMMA EditIdentityInv ==
    ASSUME Inv, NEW c \in Clone, NEW i \in Identity, EditIdentity(c, i)
    PROVE  Inv'
<1>1. made \in Nat /\ ClockOK(made, clock) /\ i \in Ref
  BY Kinds DEF Inv
<1>2. clock[c] \in Nat \ {0} /\ clock[c] <= made + 1
  BY <1>1 DEF ClockOK
<1>3. PICK now : now = Witness(clock[c], local[c][i])
  OBVIOUS
<1>4. Commit(c, i, now) /\ clock' = [clock EXCEPT ![c] = now + 1]
  BY <1>3 DEF EditIdentity
<1>5. Fine(made, i, local[c][i])
  BY <1>1 DEF Inv, TableOK
<1>6. /\ now \in Nat \ {0} /\ now <= made + 1
      /\ \A j \in DOMAIN local[c][i] : local[c][i][j].time < now
  BY <1>1, <1>2, <1>3, <1>5, WitnessBounds
<1>7. /\ made' = made + 1 /\ made' \in Nat
      /\ TableOK(made', local') /\ TableOK(made', tracking')
      /\ RefsOK(made', server') /\ RestOK'
  BY <1>1, <1>4, <1>6, CommitTables
<1>8. ClockOK(made + 1, clock) /\ made + 1 \in Nat
  BY <1>1, ClockGrows
<1>9. now + 1 \in Nat \ {0} /\ now + 1 <= (made + 1) + 1
  BY <1>1, <1>6
<1>10. ClockOK(made + 1, clock')
  BY <1>4, <1>8, <1>9, ClockStep
<1>11. QED
  BY <1>7, <1>10 DEF Inv

LEMMA ReadIdentitiesInv ==
    ASSUME Inv, NEW c \in Clone, NEW start \in {clock[c], NewClock},
           ReadIdentities(c, start)
    PROVE  Inv'
<1> DEFINE S == {start} \cup AllTimes(c, start)
<1>1. made \in Nat /\ ClockOK(made, clock)
  BY DEF Inv
<1>2. start \in Nat \ {0} /\ start <= made + 1
  BY <1>1 DEF ClockOK, NewClock
<1>3. ASSUME NEW i \in Identity
      PROVE  /\ Witness(start, local[c][i]) \in Nat
             /\ Witness(start, local[c][i]) <= made + 1
  <2>1. Fine(made, i, local[c][i])
    BY Kinds DEF Inv, TableOK
  <2>2. QED
    BY <1>1, <1>2, <2>1, WitnessBounds
<1>4. S \subseteq Nat /\ S # {} /\ start \in S /\ \A s \in S : s <= made + 1
  BY <1>2, <1>3 DEF AllTimes
<1> HIDE DEF S
<1>5. made + 1 \in Nat
  BY <1>1
<1>6. Max(S) \in S /\ \A s \in S : s <= Max(S)
  BY <1>4, <1>5, MaxProperties
<1>7. PICK now : now = Max(S)
  OBVIOUS
<1>8. now \in Nat \ {0} /\ now <= made + 1
  <2>1. now \in S /\ start <= now
    BY <1>4, <1>6, <1>7
  <2>2. QED
    BY <1>2, <1>4, <2>1
<1>9. clock' = [clock EXCEPT ![c] = now]
  BY <1>7 DEF ReadIdentities, S
<1>10. ClockOK(made, clock')
  BY <1>1, <1>8, <1>9, ClockStep
<1>11. UNCHANGED <<local, tracking, server, backups, todo, made, crashes>>
  BY DEF ReadIdentities, refs
<1>12. QED
  BY <1>10, <1>11 DEF Inv, RestOK

(* A new ticket, a new content of a configuration. *)
LEMMA TimelessCommitInv ==
    ASSUME Inv, NEW c \in Clone, NEW x \in Ticket \cup Config,
           Commit(c, x, 0), UNCHANGED clock
    PROVE  Inv'
<1>1. x \in Ref /\ x \notin Identity
  BY Kinds
<1>2. made \in Nat /\ ClockOK(made, clock)
  BY DEF Inv
<1>3. /\ made' = made + 1 /\ made' \in Nat
      /\ TableOK(made', local') /\ TableOK(made', tracking')
      /\ RefsOK(made', server') /\ RestOK'
  BY <1>1, <1>2, CommitTables
<1>4. ClockOK(made + 1, clock')
  BY <1>2, ClockGrows
<1>5. QED
  BY <1>3, <1>4 DEF Inv
-----------------------------------------------------------------------------
(* Pulling *)

(* A step of a pull that moves a local ref to its tracking ref.            *)
LEMMA MoveInv ==
    ASSUME Inv, NEW c \in Clone, NEW x \in Ref,
           local' = [local EXCEPT ![c][x] = tracking[c][x]],
           Continue(c, x),
           UNCHANGED <<tracking, server, backups, clock, made, crashes>>
    PROVE  Inv'
<1>1. made \in Nat /\ TableOK(made, local) /\ Fine(made, x, tracking[c][x])
  BY DEF Inv, TableOK
<1>2. TableOK(made, local')
  BY <1>1, TableEntry
<1>3. todo' \in [Clone -> SUBSET Ref]
  BY DEF Inv, RestOK, Continue
<1>4. QED
  BY <1>2, <1>3 DEF Inv, RestOK

(* A step that only takes refs off what a pull has to do. *)
LEMMA TodoInv ==
    ASSUME Inv, todo' \in [Clone -> SUBSET Ref],
           UNCHANGED <<local, tracking, server, backups, clock, made>>,
           crashes' \in Nat
    PROVE  Inv'
BY DEF Inv, RestOK

LEMMA TakeInv ==
    ASSUME Inv, NEW c \in Clone, NEW x \in Ref, Take(c, x)
    PROVE  Inv'
BY MoveInv DEF Take

LEMMA KeepInv ==
    ASSUME Inv, NEW c \in Clone, NEW x \in Ref, Keep(c, x)
    PROVE  Inv'
<1>1. todo' \in [Clone -> SUBSET Ref] /\ crashes' \in Nat
  BY DEF Inv, RestOK, Keep, Continue
<1>2. QED
  BY <1>1, TodoInv DEF Keep, refs

LEMMA ReplaceInv ==
    ASSUME Inv, NEW c \in Clone, NEW n \in Config, Replace(c, n)
    PROVE  Inv'
BY MoveInv, Kinds DEF Replace

LEMMA RefuseConfigInv ==
    ASSUME Inv, NEW c \in Clone, NEW n \in Config, RefuseConfig(c, n)
    PROVE  Inv'
<1>1. todo' \in [Clone -> SUBSET Ref] /\ crashes' \in Nat
  BY DEF Inv, RestOK, RefuseConfig
<1>2. QED
  BY <1>1, TodoInv DEF RefuseConfig, refs

LEMMA CrashInv ==
    ASSUME Inv, NEW c \in Clone, Crash(c)
    PROVE  Inv'
<1>1. todo' \in [Clone -> SUBSET Ref] /\ crashes' \in Nat
  BY DEF Inv, RestOK, Crash
<1>2. QED
  BY <1>1, TodoInv DEF Crash, refs

LEMMA BackUpInv ==
    ASSUME Inv, NEW c \in Clone, NEW n \in Config, BackUp(c, n)
    PROVE  Inv'
<1>1. local[c][n] \in Chain
  BY Kinds DEF Inv, TableOK
<1>2. backups' \in [Clone -> [Config -> SUBSET Chain]]
  <2>1. backups \in [Clone -> [Config -> SUBSET Chain]]
    BY DEF Inv, RestOK
  <2>2. backups' = [backups EXCEPT ![c][n] = backups[c][n] \cup {local[c][n]}]
    BY DEF BackUp
  <2>3. backups[c][n] \cup {local[c][n]} \in SUBSET Chain
    BY <1>1, <2>1
  <2>4. QED
    BY <2>1, <2>2, <2>3, SetEntry
<1>3. UNCHANGED <<local, tracking, server, clock, todo, made, crashes>>
  BY DEF BackUp
<1>4. QED
  BY <1>2, <1>3 DEF Inv, RestOK

(* A step that replaces the whole row of a clone. *)
LEMMA TableLine ==
    ASSUME NEW m \in Nat, NEW f, TableOK(m, f),
           NEW c \in Clone, NEW line, RefsOK(m, line),
           NEW g, g = [f EXCEPT ![c] = line]
    PROVE  TableOK(m, g)
<1>1. f \in [Clone -> [Ref -> Chain]] /\ line \in [Ref -> Chain]
  BY DEF TableOK, RefsOK
<1>2. /\ g \in [Clone -> [Ref -> Chain]]
      /\ \A d \in Clone : g[d] = IF d = c THEN line ELSE f[d]
  BY <1>1, SetLine
<1>3. ASSUME NEW d \in Clone, NEW y \in Ref
      PROVE  Fine(m, y, g[d][y])
  BY <1>2 DEF TableOK, RefsOK
<1>4. QED
  BY <1>2, <1>3 DEF TableOK

(* Every ref of a row comes from one of two other rows. *)
LEMMA MixedLine ==
    ASSUME NEW m, NEW f, RefsOK(m, f), NEW g, RefsOK(m, g),
           NEW S, NEW h, h = [x \in Ref |-> IF x \in S THEN f[x] ELSE g[x]]
    PROVE  RefsOK(m, h)
<1>1. ASSUME NEW x \in Ref
      PROVE  h[x] \in Chain /\ Fine(m, x, h[x])
  <2>1. CASE x \in S
    BY <2>1 DEF RefsOK
  <2>2. CASE x \notin S
    BY <2>2 DEF RefsOK
  <2>3. QED
    BY <2>1, <2>2
<1>2. QED
  BY <1>1 DEF RefsOK

LEMMA Lines ==
    ASSUME NEW m, NEW f, TableOK(m, f), NEW c \in Clone
    PROVE  RefsOK(m, f[c])
BY DEF TableOK, RefsOK

LEMMA RefuseIdentityInv ==
    ASSUME Inv, NEW c \in Clone, NEW i \in Identity, RefuseIdentity(c, i)
    PROVE  Inv'
<1>1. made \in Nat /\ TableOK(made, local) /\ TableOK(made, tracking)
  BY DEF Inv
<1>2. PICK some \in SUBSET Takable(c) :
        local' = [local EXCEPT ![c] =
                    [x \in Ref |-> IF x \in some THEN tracking[c][x] ELSE local[c][x]]]
  BY <1>1 DEF RefuseIdentity, TableOK
<1>3. RefsOK(made, [x \in Ref |-> IF x \in some THEN tracking[c][x] ELSE local[c][x]])
  BY <1>1, Lines, MixedLine
<1>4. TableOK(made, local')
  BY <1>1, <1>2, <1>3, TableLine
<1>5. todo' \in [Clone -> SUBSET Ref]
  BY DEF Inv, RestOK, RefuseIdentity
<1>6. UNCHANGED <<tracking, server, backups, clock, made, crashes>>
  BY DEF RefuseIdentity
<1>7. QED
  BY <1>4, <1>5, <1>6 DEF Inv, RestOK

LEMMA FetchInv ==
    ASSUME Inv, NEW c \in Clone, Fetch(c)
    PROVE  Inv'
<1>1. made \in Nat /\ TableOK(made, tracking) /\ RefsOK(made, server)
  BY DEF Inv
<1>2. TableOK(made, tracking')
  BY <1>1, TableLine DEF Fetch
<1>3. todo' \in [Clone -> SUBSET Ref]
  BY DEF Inv, RestOK, Fetch
<1>4. UNCHANGED <<local, server, backups, clock, made, crashes>>
  BY DEF Fetch
<1>5. QED
  BY <1>2, <1>3, <1>4 DEF Inv, RestOK

-----------------------------------------------------------------------------
(* Pushing *)

LEMMA PushInv ==
    ASSUME Inv, NEW c \in Clone, Push(c)
    PROVE  Inv'
<1>1. /\ made \in Nat /\ TableOK(made, local) /\ TableOK(made, tracking)
      /\ RefsOK(made, server)
  BY DEF Inv
<1>2. RefsOK(made, local[c]) /\ RefsOK(made, tracking[c])
  BY <1>1, Lines
<1>3. RefsOK(made, server')
  BY <1>1, <1>2, MixedLine DEF Push
<1>4. tracking' = [tracking EXCEPT ![c] =
                     [x \in Ref |-> IF x \in ToPush(c) THEN local[c][x] ELSE tracking[c][x]]]
  BY <1>1 DEF Push, TableOK
<1>5. RefsOK(made, [x \in Ref |-> IF x \in ToPush(c) THEN local[c][x] ELSE tracking[c][x]])
  BY <1>2, MixedLine
<1>6. TableOK(made, tracking')
  BY <1>1, <1>4, <1>5, TableLine
<1>7. UNCHANGED <<local, backups, clock, todo, made, crashes>>
  BY DEF Push
<1>8. QED
  BY <1>3, <1>6, <1>7 DEF Inv, RestOK

LEMMA PushTicketInv ==
    ASSUME Inv, NEW c \in Clone, NEW t \in Ticket, PushTicket(c, t)
    PROVE  Inv'
<1>1. t \in Ref /\ RefsOK(made, server) /\ Fine(made, t, local[c][t])
  BY Kinds DEF Inv, TableOK
<1>2. server' = [server EXCEPT ![t] = local[c][t]] /\ local[c][t] \in Chain
  BY <1>1 DEF PushTicket, Fine
<1>3. /\ server' \in [Ref -> Chain]
      /\ \A x \in Ref : server'[x] = IF x = t THEN local[c][t] ELSE server[x]
  BY <1>1, <1>2 DEF RefsOK
<1>4. RefsOK(made, server')
  BY <1>1, <1>3 DEF RefsOK
<1>5. UNCHANGED <<local, tracking, backups, clock, todo, made, crashes>>
  BY DEF PushTicket
<1>6. QED
  BY <1>4, <1>5 DEF Inv, RestOK

-----------------------------------------------------------------------------
(* Every step *)

LEMMA InvStep == Inv /\ [Next]_vars => Inv'
<1> SUFFICES ASSUME Inv, [Next]_vars PROVE Inv'
  OBVIOUS
<1>1. ASSUME NEW c \in Clone, NEW i \in Identity, NewIdentity(c, i) \/ EditIdentity(c, i)
      PROVE  Inv'
  BY <1>1, NewIdentityInv, EditIdentityInv
<1>2. ASSUME NEW c \in Clone, ReadIdentities(c, clock[c]) \/ ReadIdentities(c, NewClock)
      PROVE  Inv'
  BY <1>2, ReadIdentitiesInv
<1>3. ASSUME NEW c \in Clone, NEW t \in Ticket, NewTicket(c, t)
      PROVE  Inv'
  BY <1>3, TimelessCommitInv DEF NewTicket
<1>4. ASSUME NEW c \in Clone, NEW n \in Config, SetConfig(c, n)
      PROVE  Inv'
  BY <1>4, TimelessCommitInv DEF SetConfig
<1>5. ASSUME NEW c \in Clone, Fetch(c) \/ Crash(c) \/ Push(c)
      PROVE  Inv'
  BY <1>5, FetchInv, CrashInv, PushInv
<1>6. ASSUME NEW c \in Clone, NEW x \in Ref, Take(c, x) \/ Keep(c, x)
      PROVE  Inv'
  BY <1>6, TakeInv, KeepInv
<1>7. ASSUME NEW c \in Clone, NEW i \in Identity, RefuseIdentity(c, i)
      PROVE  Inv'
  BY <1>7, RefuseIdentityInv
<1>8. ASSUME NEW c \in Clone, NEW n \in Config,
             BackUp(c, n) \/ Replace(c, n) \/ RefuseConfig(c, n)
      PROVE  Inv'
  BY <1>8, BackUpInv, ReplaceInv, RefuseConfigInv
<1>9. ASSUME NEW c \in Clone, NEW t \in Ticket, PushTicket(c, t)
      PROVE  Inv'
  BY <1>9, PushTicketInv
<1>10. CASE UNCHANGED vars
  BY <1>10 DEF vars, refs, Inv, RestOK
<1>11. QED
  BY <1>1, <1>2, <1>3, <1>4, <1>5, <1>6, <1>7, <1>8, <1>9, <1>10
     DEF Next, Write, MergeRef

LEMMA InvImplies == Inv => TypeOK /\ TimesOrdered
<1> SUFFICES ASSUME Inv PROVE TypeOK /\ TimesOrdered
  OBVIOUS
<1>1. TypeOK
  BY DEF Inv, TypeOK, TableOK, RefsOK, ClockOK, RestOK
<1>2. ASSUME NEW i \in Identity, NEW chain \in Histories(i)
      PROVE  Ordered(chain)
  <2>1. /\ Ordered(server[i])
        /\ \A c \in Clone : Ordered(local[c][i]) /\ Ordered(tracking[c][i])
    BY Kinds DEF Inv, TableOK, RefsOK, Fine
  <2>2. QED
    BY <1>2, <2>1 DEF Histories
<1>3. QED
  BY <1>1, <1>2 DEF TimesOrdered

(* Refs, clocks, backups and pulls always have the types of SharedRefs.    *)
THEOREM TypeCorrect == Spec => []TypeOK
<1>1. Inv => TypeOK
  BY InvImplies
<1>2. QED
  BY InvInit, InvStep, <1>1, PTL DEF Spec

(* The versions of an identity are in the order of their Lamport times in  *)
(* every clone and in the remote, although merging witnesses none of them: *)
(* whoever writes a version has read the ones before it.                   *)
THEOREM TimesOrderedCorrect == Spec => []TimesOrdered
<1>1. Inv => TimesOrdered
  BY InvImplies
<1>2. QED
  BY InvInit, InvStep, <1>1, PTL DEF Spec
-----------------------------------------------------------------------------
(* What a step does to the refs: chains are extended, or replaced in a     *)
(* clone that has backed them up.                                          *)

LocalGrows ==
    \A c \in Clone, x \in Ref :
        \/ IsPrefix(local[c][x], local'[c][x])
        \/ x \in Config /\ local[c][x] \in backups[c][x]

BackupsKept ==
    \A c \in Clone, n \in Config : backups[c][n] \subseteq backups'[c][n]

ServerGrows == \A x \in Ref : IsPrefix(server[x], server'[x])

Progress == LocalGrows /\ BackupsKept /\ ServerGrows

LEMMA ChainTypes ==
    ASSUME Inv
    PROVE  /\ local \in [Clone -> [Ref -> Chain]]
           /\ tracking \in [Clone -> [Ref -> Chain]]
           /\ server \in [Ref -> Chain]
           /\ backups \in [Clone -> [Config -> SUBSET Chain]]
BY DEF Inv, TableOK, RefsOK, RestOK

LEMMA ChainPrefix ==
    ASSUME NEW a \in Chain
    PROVE  IsPrefix(a, a)
BY PrefixReflexive DEF Chain

LEMMA AppendExtends ==
    ASSUME NEW a \in Chain, NEW v \in Version
    PROVE  Append(a, v) \in Chain /\ IsPrefix(a, Append(a, v))
BY AppendPrefix DEF Chain

LEMMA LocalKept ==
    ASSUME Inv, UNCHANGED local
    PROVE  LocalGrows
BY ChainTypes, ChainPrefix DEF LocalGrows

LEMMA LocalEntry ==
    ASSUME Inv, NEW c \in Clone, NEW x \in Ref, NEW chain \in Chain,
           local' = [local EXCEPT ![c][x] = chain],
           \/ IsPrefix(local[c][x], chain)
           \/ x \in Config /\ local[c][x] \in backups[c][x]
    PROVE  LocalGrows
<1>1. \A d \in Clone, y \in Ref :
        local'[d][y] = IF d = c /\ y = x THEN chain ELSE local[d][y]
  BY ChainTypes, SetEntry
<1>2. ASSUME NEW d \in Clone, NEW y \in Ref, ~ (d = c /\ y = x)
      PROVE  IsPrefix(local[d][y], local'[d][y])
  BY <1>1, <1>2, ChainTypes, ChainPrefix
<1>3. QED
  BY <1>1, <1>2 DEF LocalGrows

LEMMA BackupsAsTheyWere ==
    ASSUME UNCHANGED backups
    PROVE  BackupsKept
BY DEF BackupsKept

LEMMA ServerAsItWas ==
    ASSUME Inv, UNCHANGED server
    PROVE  ServerGrows
BY ChainTypes, ChainPrefix DEF ServerGrows

LEMMA CommitProgress ==
    ASSUME Inv, NEW c \in Clone, NEW x \in Ref, NEW time \in Nat, Commit(c, x, time)
    PROVE  Progress
<1> DEFINE v == [no |-> made', time |-> time]
<1>1. v \in Version /\ local[c][x] \in Chain
  BY ChainTypes DEF Version, Commit, Inv
<1>2. local' = [local EXCEPT ![c][x] = Append(local[c][x], v)]
  BY DEF Commit
<1> HIDE DEF v
<1>3. LocalGrows
  BY <1>1, <1>2, AppendExtends, LocalEntry
<1>4. UNCHANGED <<server, backups>>
  BY DEF Commit
<1>5. QED
  BY <1>3, <1>4, BackupsAsTheyWere, ServerAsItWas DEF Progress

(* The times of identities are those of the clocks. *)
LEMMA EditProgress ==
    ASSUME Inv, NEW c \in Clone, NEW i \in Identity,
           NewIdentity(c, i) \/ EditIdentity(c, i)
    PROVE  Progress
<1>1. /\ made \in Nat /\ i \in Ref /\ Fine(made, i, local[c][i])
      /\ clock[c] \in Nat \ {0} /\ clock[c] <= made + 1
  BY Kinds DEF Inv, TableOK, ClockOK
<1>2. CASE NewIdentity(c, i)
  BY <1>1, <1>2, CommitProgress DEF NewIdentity
<1>3. CASE EditIdentity(c, i)
  <2>1. PICK now : now = Witness(clock[c], local[c][i])
    OBVIOUS
  <2>2. now \in Nat
    BY <1>1, <2>1, WitnessBounds
  <2>3. Commit(c, i, now)
    BY <1>3, <2>1 DEF EditIdentity
  <2>4. QED
    BY <1>1, <2>2, <2>3, CommitProgress
<1>4. QED
  BY <1>2, <1>3

LEMMA TimelessProgress ==
    ASSUME Inv, NEW c \in Clone, NEW x \in Ticket \cup Config, Commit(c, x, 0)
    PROVE  Progress
BY Kinds, CommitProgress

(* Steps that leave local refs, backups and the remote as they are.        *)
LEMMA QuietProgress ==
    ASSUME Inv, UNCHANGED <<local, server, backups>>
    PROVE  Progress
BY LocalKept, BackupsAsTheyWere, ServerAsItWas DEF Progress

LEMMA MoveProgress ==
    ASSUME Inv, NEW c \in Clone, NEW x \in Ref,
           local' = [local EXCEPT ![c][x] = tracking[c][x]],
           UNCHANGED <<server, backups>>,
           \/ IsPrefix(local[c][x], tracking[c][x])
           \/ x \in Config /\ local[c][x] \in backups[c][x]
    PROVE  Progress
<1>1. tracking[c][x] \in Chain
  BY ChainTypes
<1>2. LocalGrows
  BY <1>1, LocalEntry
<1>3. QED
  BY <1>2, BackupsAsTheyWere, ServerAsItWas DEF Progress

LEMMA BackUpProgress ==
    ASSUME Inv, NEW c \in Clone, NEW n \in Config, BackUp(c, n)
    PROVE  Progress
<1>1. backups' = [backups EXCEPT ![c][n] = backups[c][n] \cup {local[c][n]}]
  BY DEF BackUp
<1>2. backups[c][n] \cup {local[c][n]} \in SUBSET Chain
  BY ChainTypes, Kinds
<1>3. \A d \in Clone, m \in Config :
        backups'[d][m] = IF d = c /\ m = n
                         THEN backups[c][n] \cup {local[c][n]} ELSE backups[d][m]
  BY <1>1, <1>2, ChainTypes, SetEntry
<1>4. BackupsKept
  BY <1>3 DEF BackupsKept
<1>5. UNCHANGED <<local, server>>
  BY DEF BackUp
<1>6. QED
  BY <1>4, <1>5, LocalKept, ServerAsItWas DEF Progress

LEMMA RefuseIdentityProgress ==
    ASSUME Inv, NEW c \in Clone, NEW i \in Identity, RefuseIdentity(c, i)
    PROVE  Progress
<1>1. PICK some \in SUBSET Takable(c) :
        local' = [local EXCEPT ![c] =
                    [x \in Ref |-> IF x \in some THEN tracking[c][x] ELSE local[c][x]]]
  BY ChainTypes DEF RefuseIdentity
<1>2. ASSUME NEW d \in Clone, NEW x \in Ref
      PROVE  IsPrefix(local[d][x], local'[d][x])
  <2>1. CASE d = c /\ x \in some
    <3>1. local'[d][x] = tracking[c][x]
      BY <1>1, <2>1, ChainTypes
    <3>2. IsPrefix(local[c][x], tracking[c][x])
      BY <2>1 DEF Takable
    <3>3. QED
      BY <2>1, <3>1, <3>2
  <2>2. CASE ~ (d = c /\ x \in some)
    <3>1. local'[d][x] = local[d][x]
      BY <1>1, <2>2, ChainTypes
    <3>2. QED
      BY <3>1, ChainTypes, ChainPrefix
  <2>3. QED
    BY <2>1, <2>2
<1>3. UNCHANGED <<server, backups>>
  BY DEF RefuseIdentity
<1>4. QED
  BY <1>2, <1>3, BackupsAsTheyWere, ServerAsItWas DEF Progress, LocalGrows

LEMMA PushProgress ==
    ASSUME Inv, NEW c \in Clone, Push(c)
    PROVE  Progress
<1>1. ASSUME NEW x \in Ref
      PROVE  IsPrefix(server[x], server'[x])
  <2>1. CASE x \in ToPush(c)
    BY <2>1 DEF Push, FastForwards
  <2>2. CASE x \notin ToPush(c)
    BY <2>2, ChainTypes, ChainPrefix DEF Push
  <2>3. QED
    BY <2>1, <2>2
<1>2. UNCHANGED <<local, backups>>
  BY DEF Push
<1>3. QED
  BY <1>1, <1>2, LocalKept, BackupsAsTheyWere DEF Progress, ServerGrows

LEMMA PushTicketProgress ==
    ASSUME Inv, NEW c \in Clone, NEW t \in Ticket, PushTicket(c, t)
    PROVE  Progress
<1>1. ASSUME NEW x \in Ref
      PROVE  IsPrefix(server[x], server'[x])
  <2>1. CASE x = t
    BY <2>1, ChainTypes DEF PushTicket
  <2>2. CASE x # t
    <3>1. server'[x] = server[x]
      BY <2>2, ChainTypes DEF PushTicket
    <3>2. QED
      BY <3>1, ChainTypes, ChainPrefix
  <2>3. QED
    BY <2>1, <2>2
<1>2. UNCHANGED <<local, backups>>
  BY DEF PushTicket
<1>3. QED
  BY <1>1, <1>2, LocalKept, BackupsAsTheyWere DEF Progress, ServerGrows

LEMMA StepProgress == Inv /\ [Next]_vars => Progress
<1> SUFFICES ASSUME Inv, [Next]_vars PROVE Progress
  OBVIOUS
<1>1. ASSUME NEW c \in Clone, NEW i \in Identity, NewIdentity(c, i) \/ EditIdentity(c, i)
      PROVE  Progress
  BY <1>1, EditProgress
<1>2. ASSUME NEW c \in Clone, ReadIdentities(c, clock[c]) \/ ReadIdentities(c, NewClock)
      PROVE  Progress
  BY <1>2, QuietProgress DEF ReadIdentities, refs
<1>3. ASSUME NEW c \in Clone, NEW t \in Ticket, NewTicket(c, t)
      PROVE  Progress
  BY <1>3, TimelessProgress DEF NewTicket
<1>4. ASSUME NEW c \in Clone, NEW n \in Config, SetConfig(c, n)
      PROVE  Progress
  BY <1>4, TimelessProgress DEF SetConfig
<1>5. ASSUME NEW c \in Clone, Fetch(c) \/ Crash(c)
      PROVE  Progress
  BY <1>5, QuietProgress DEF Fetch, Crash, refs
<1>6. ASSUME NEW c \in Clone, NEW x \in Ref, Take(c, x)
      PROVE  Progress
  BY <1>6, MoveProgress DEF Take
<1>7. ASSUME NEW c \in Clone, NEW x \in Ref, Keep(c, x)
      PROVE  Progress
  BY <1>7, QuietProgress DEF Keep, refs
<1>8. ASSUME NEW c \in Clone, NEW i \in Identity, RefuseIdentity(c, i)
      PROVE  Progress
  BY <1>8, RefuseIdentityProgress
<1>9. ASSUME NEW c \in Clone, NEW n \in Config, BackUp(c, n)
      PROVE  Progress
  BY <1>9, BackUpProgress
<1>10. ASSUME NEW c \in Clone, NEW n \in Config, Replace(c, n)
       PROVE  Progress
  BY <1>10, Kinds, MoveProgress DEF Replace
<1>11. ASSUME NEW c \in Clone, NEW n \in Config, RefuseConfig(c, n)
       PROVE  Progress
  BY <1>11, QuietProgress DEF RefuseConfig, refs
<1>12. ASSUME NEW c \in Clone, Push(c)
       PROVE  Progress
  BY <1>12, PushProgress
<1>13. ASSUME NEW c \in Clone, NEW t \in Ticket, PushTicket(c, t)
       PROVE  Progress
  BY <1>13, PushTicketProgress
<1>14. CASE UNCHANGED vars
  BY <1>14, QuietProgress DEF vars, refs
<1>15. QED
  BY <1>1, <1>2, <1>3, <1>4, <1>5, <1>6, <1>7, <1>8, <1>9, <1>10, <1>11,
     <1>12, <1>13, <1>14
     DEF Next, Write, MergeRef

-----------------------------------------------------------------------------
(* Nothing is dropped *)

(* The elements of a chain are elements of all its extensions. *)
LEMMA PrefixRange ==
    ASSUME NEW a \in Chain, NEW b \in Chain, IsPrefix(a, b)
    PROVE  Range(a) \subseteq Range(b)
<1>1. /\ a \in Seq(Version) /\ b \in Seq(Version)
      /\ DOMAIN a = 1 .. Len(a) /\ DOMAIN b = 1 .. Len(b)
      /\ Len(a) \in Nat /\ Len(b) \in Nat
  BY DEF Chain
<1>2. Len(a) <= Len(b) /\ \A i \in 1 .. Len(a) : a[i] = b[i]
  BY <1>1, PrefixElements
<1>3. ASSUME NEW i \in DOMAIN a
      PROVE  i \in DOMAIN b /\ a[i] = b[i]
  BY <1>1, <1>2
<1>4. QED
  BY <1>3 DEF Range

(* A clone still has the contents of a configuration whose chain it has    *)
(* extended or backed up.                                                  *)
LEMMA HeldKept ==
    ASSUME Inv, Inv', Progress, NEW c \in Clone, NEW n \in Config
    PROVE  Held(c, n) \subseteq Held(c, n)'
<1>1. /\ n \in Ref
      /\ local[c][n] \in Chain /\ local'[c][n] \in Chain
  <2>1. local' \in [Clone -> [Ref -> Chain]]
    BY DEF Inv, TableOK
  <2>2. QED
    BY <2>1, Kinds, ChainTypes
<1>2. backups[c][n] \subseteq backups'[c][n]
  BY DEF Progress, BackupsKept
<1>3. ASSUME NEW e \in Range(local[c][n])
      PROVE  e \in Held(c, n)'
  <2>1. CASE IsPrefix(local[c][n], local'[c][n])
    <3>1. e \in Range(local'[c][n])
      BY <1>1, <1>3, <2>1, PrefixRange
    <3>2. QED
      BY <3>1 DEF Held
  <2>2. CASE local[c][n] \in backups[c][n]
    BY <1>2, <1>3, <2>2 DEF Held
  <2>3. QED
    BY <1>1, <2>1, <2>2 DEF Progress, LocalGrows
<1>4. ASSUME NEW chain \in backups[c][n], NEW e \in Range(chain)
      PROVE  e \in Held(c, n)'
  BY <1>2, <1>4 DEF Held
<1>5. QED
  BY <1>3, <1>4 DEF Held

(* No version of an identity and no ticket is ever replaced in a clone,    *)
(* and no content of a configuration lost: Identity.Merge and the merge of *)
(* tickets move refs forward only, UpdateConfigs backs up first.           *)
THEOREM NothingDroppedCorrect == Spec => NothingDropped
<1> DEFINE Kept == \A c \in Clone :
               /\ \A x \in Identity \cup Ticket : IsPrefix(local[c][x], local'[c][x])
               /\ \A n \in Config : Held(c, n) \subseteq Held(c, n)'
<1>1. ASSUME Inv, Inv', Progress
      PROVE  Kept
  <2>1. ASSUME NEW c \in Clone, NEW x \in Identity \cup Ticket
        PROVE  IsPrefix(local[c][x], local'[c][x])
    BY <1>1, Kinds DEF Progress, LocalGrows
  <2>2. QED
    BY <1>1, <2>1, HeldKept
<1>2. Inv /\ [Next]_vars => [Kept]_vars
  BY <1>1, InvStep, StepProgress
<1>3. QED
  BY InvInit, InvStep, <1>2, PTL DEF Spec, NothingDropped

-----------------------------------------------------------------------------
(* Divergence lasts *)

(* Two prefixes of one chain are prefixes of each other, one way or the    *)
(* other.                                                                  *)
LEMMA PrefixesComparable ==
    ASSUME NEW a \in Chain, NEW b \in Chain, NEW d \in Chain,
           IsPrefix(a, d), IsPrefix(b, d)
    PROVE  ~ Diverged(a, b)
<1>1. /\ a \in Seq(Version) /\ b \in Seq(Version) /\ d \in Seq(Version)
      /\ Len(a) \in Nat /\ Len(b) \in Nat
  BY DEF Chain
<1>2. /\ \A i \in 1 .. Len(a) : a[i] = d[i]
      /\ \A i \in 1 .. Len(b) : b[i] = d[i]
  BY <1>1, PrefixElements
<1>3. CASE Len(a) <= Len(b)
  <2>1. \A i \in 1 .. Len(a) : a[i] = b[i]
    BY <1>1, <1>2, <1>3
  <2>2. QED
    BY <1>1, <1>3, <2>1, PrefixElements DEF Diverged
<1>4. CASE Len(b) <= Len(a)
  <2>1. \A i \in 1 .. Len(b) : b[i] = a[i]
    BY <1>1, <1>2, <1>4
  <2>2. QED
    BY <1>1, <1>4, <2>1, PrefixElements DEF Diverged
<1>5. QED
  BY <1>1, <1>3, <1>4

(* Extending two chains that have diverged does not bring them together.   *)
LEMMA DivergedExtended ==
    ASSUME NEW a \in Chain, NEW b \in Chain, Diverged(a, b),
           NEW p \in Chain, NEW q \in Chain, IsPrefix(a, p), IsPrefix(b, q)
    PROVE  Diverged(p, q)
<1>1. /\ a \in Seq(Version) /\ b \in Seq(Version)
      /\ p \in Seq(Version) /\ q \in Seq(Version)
  BY DEF Chain
<1>2. ~ IsPrefix(p, q)
  BY <1>1, PrefixTransitive, PrefixesComparable
<1>3. ~ IsPrefix(q, p)
  BY <1>1, PrefixTransitive, PrefixesComparable
<1>4. QED
  BY <1>2, <1>3 DEF Diverged

(* Once a clone and the remote have different versions of an identity they *)
(* have so for ever: nothing rewrites a chain, nowhere.                    *)
THEOREM DivergenceLastsCorrect == Spec => DivergenceLasts
<1> DEFINE Lasts == \A c \in Clone, i \in Identity :
               Diverged(local[c][i], server[i]) => Diverged(local[c][i], server[i])'
<1>1. ASSUME Inv, Inv', Progress
      PROVE  Lasts
  <2>1. SUFFICES ASSUME NEW c \in Clone, NEW i \in Identity,
                        Diverged(local[c][i], server[i])
                 PROVE  Diverged(local'[c][i], server'[i])
    OBVIOUS
  <2>2. /\ i \in Ref
        /\ IsPrefix(local[c][i], local'[c][i]) /\ IsPrefix(server[i], server'[i])
    BY <1>1, Kinds DEF Progress, LocalGrows, ServerGrows
  <2>3. /\ local[c][i] \in Chain /\ server[i] \in Chain
        /\ local'[c][i] \in Chain /\ server'[i] \in Chain
    BY <1>1, <2>2 DEF Inv, TableOK, RefsOK
  <2>4. QED
    BY <2>1, <2>2, <2>3, DivergedExtended
<1>2. Inv /\ [Next]_vars => [Lasts]_vars
  BY <1>1, InvStep, StepProgress
<1>3. QED
  BY InvInit, InvStep, <1>2, PTL DEF Spec, DivergenceLasts

-----------------------------------------------------------------------------
(* SharedRefs implements PublishedHistory *)

(* The steps that touch neither the remote nor what is recorded of it.     *)
LEMMA UnpublishedStep ==
    ASSUME NEW c \in Clone, Write(c) \/ MergeRef(c) \/ Crash(c)
    PROVE  UNCHANGED <<server, tracking>>
<1>1. CASE Write(c)
  BY <1>1 DEF Write, NewIdentity, EditIdentity, ReadIdentities, NewTicket,
              SetConfig, Commit, refs
<1>2. CASE MergeRef(c)
  BY <1>2 DEF MergeRef, Take, Keep, RefuseIdentity, BackUp, Replace, RefuseConfig,
              refs
<1>3. QED
  BY <1>1, <1>2 DEF Crash, refs

(* A clone publishes, and records at most what it has published.           *)
LEMMA PublishStep ==
    ASSUME ServerGrows, NEW c \in Clone,
           \A q \in Clone, x \in Ref :
              \/ tracking'[q][x] = tracking[q][x]
              \/ q = c /\ tracking'[q][x] = server'[x]
    PROVE  History!Publish(c, "origin")
<1> DEFINE published == [m \in {"origin"} |-> server]
           known == [q \in Clone |-> [m \in {"origin"} |-> tracking[q]]]
<1>1. \A x \in Ref : IsPrefix(published["origin"][x], published'["origin"][x])
  BY DEF ServerGrows
<1>2. \A q \in Clone, m \in {"origin"}, x \in Ref :
         \/ known'[q][m][x] = known[q][m][x]
         \/ q = c /\ m = "origin" /\ known'[q][m][x] = published'[m][x]
  OBVIOUS
<1>3. \A m \in {"origin"} \ {"origin"} : published'[m] = published[m]
  OBVIOUS
<1> HIDE DEF published, known
<1>4. QED
  BY <1>1, <1>2, <1>3 DEF History!Publish, History!IsPrefix, IsPrefix, published, known

LEMMA HistoryStep ==
    Inv /\ [Next]_vars => [History!Next]_(History!vars)
<1> SUFFICES ASSUME Inv, [Next]_vars
             PROVE  [History!Next]_(History!vars)
  OBVIOUS
<1>1. ServerGrows
  BY StepProgress DEF Progress
<1>2. UNCHANGED <<server, tracking>> => UNCHANGED History!vars
  BY DEF History!vars
<1>3. ASSUME NEW c \in Clone, Push(c)
      PROVE  History!Next
  <2>1. \A q \in Clone, x \in Ref :
           \/ tracking'[q][x] = tracking[q][x]
           \/ q = c /\ tracking'[q][x] = server'[x]
    BY <1>3, ChainTypes DEF Push
  <2>2. History!Publish(c, "origin")
    BY <1>1, <2>1, PublishStep
  <2>3. QED
    BY <2>2 DEF History!Next
<1>4. ASSUME NEW c \in Clone, NEW t \in Ticket, PushTicket(c, t)
      PROVE  History!Next
  <2>1. tracking' = tracking
    BY <1>4 DEF PushTicket
  <2>2. History!Publish(c, "origin")
    BY <1>1, <2>1, PublishStep
  <2>3. QED
    BY <2>2 DEF History!Next
<1>5. ASSUME NEW c \in Clone, Fetch(c)
      PROVE  History!Next
  <2>1. /\ tracking' = [tracking EXCEPT ![c] = server]
        /\ server' = server
    BY <1>5 DEF Fetch
  <2>2. [q \in Clone |-> [m \in {"origin"} |-> tracking[q]]]'
          = [[q \in Clone |-> [m \in {"origin"} |-> tracking[q]]]
               EXCEPT ![c]["origin"] = [m \in {"origin"} |-> server]["origin"]]
    BY <2>1, ChainTypes
  <2>3. History!Learn(c, "origin")
    BY <2>1, <2>2 DEF History!Learn
  <2>4. QED
    BY <2>3 DEF History!Next
<1>6. ASSUME NEW c \in Clone, Write(c) \/ MergeRef(c) \/ Crash(c)
      PROVE  UNCHANGED <<server, tracking>>
  BY <1>6, UnpublishedStep
<1>7. CASE UNCHANGED vars
  BY <1>2, <1>7 DEF vars, refs
<1>8. QED
  BY <1>2, <1>3, <1>4, <1>5, <1>6, <1>7 DEF Next

(* Identities, tickets and configurations alike: what the remote publishes *)
(* of a ref is append-only, and a tracking ref is something the remote has *)
(* published, wherever a pull is cut short or refused.                     *)
THEOREM ImplementsHistory == Spec => PublishesHistory
<1>1. Init => History!Init
  BY DEF Init, NoRefs, History!Init
<1>2. QED
  BY <1>1, InvInit, InvStep, HistoryStep, PTL DEF Spec, PublishesHistory, History!Spec
=============================================================================
