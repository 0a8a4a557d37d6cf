-------------------------- MODULE RepoCacheProofs --------------------------
(***************************************************************************)
(* The cache of a clone, for any tickets, any size of the cache and any    *)
(* number of packs.  As long as no ticket is loaded while a pull runs, a   *)
(* loaded ticket is the one its ref holds, no operation is lost, and the   *)
(* cache file shows the refs.  The list of loaded tickets has each of them *)
(* once and stays within the limit, and the ticket in use is not evicted.  *)
(* The remote and the tracking refs are those of PublishedHistory, and     *)
(* every operation, in however many steps of whatever threads, changes the *)
(* refs as one step of CloneRefs does.                                     *)
(***************************************************************************)
EXTENDS RepoCache, CommitChainsProofs, FiniteSetTheorems

Commits == [pack : Nat, by : {Us, Them}]
Chains == Seq(Commits)
Packs == [ticket : Tickets, status : BOOLEAN]
BugCaches == [base : Chains, staged : Seq(Nat)]

(* A chain that is not empty holds a pack that has been written.           *)
Known(t, chain) ==
    chain # << >> => \E i \in 1 .. Len(packs) : packs[i].ticket = t

DataOK ==
    /\ packs \in Seq(Packs)
    /\ server \in [Tickets -> Chains]
    /\ tracking \in [Tickets -> Chains]
    /\ local \in [Tickets -> Chains]
    /\ bugs \in [Tickets -> BugCaches]

KnownChains ==
    \A t \in Tickets : /\ Known(t, server[t])
                       /\ Known(t, tracking[t])
                       /\ Known(t, local[t])
                       /\ Known(t, bugs[t].base)

(* Operations are staged in loaded tickets only. *)
StagedIsLoaded == \A t \in Tickets : NeedCommit(t) => Loaded(t)

NoneLoaded == \A t \in Tickets : ~ Loaded(t)

(* Where a session begins and ends nothing is loaded, and no pull runs     *)
(* before one is asked for.                                                *)
Bounds ==
    /\ main.at \in {"off", "opened", "closed"} => NoneLoaded
    /\ main.at \in {"off", "opened"} => ~ Pulling

(* The ghost: tickets and pulls keep apart. *)
Apart == Pulling /\ ~ mixed => NoneLoaded

(* The main thread works with a ticket.  *)
MainTicket ==
    main.at \in {"show", "notify", "saved", "write", "writeBack", "removed",
                 "reset"} => main.t \in Tickets

(* The merge under way has the ticket, and all its operations. *)
MergeUnderWay ==
    merger.at = "merge" =>
        /\ merger.t \in Tickets
        /\ merger.chain \in Chains
        /\ Known(merger.t, merger.chain)
        /\ ~ mixed =>
             PackIds(local[merger.t]) \subseteq PackIds(merger.chain)

Inv ==
    /\ DataOK
    /\ KnownChains
    /\ StagedIsLoaded
    /\ Bounds
    /\ Apart
    /\ MainTicket
    /\ MergeUnderWay
    /\ SingleCopy

Kept == \A t \in Tickets : PackIds(local[t]) \subseteq PackIds(local'[t])

-----------------------------------------------------------------------------
LEMMA OurCommits == Recommits(Commits, Us)
BY CommitsRecommit DEF Commits

(* More packs are written, never fewer. *)
LEMMA StaysKnown ==
    ASSUME packs \in Seq(Packs), NEW t \in Tickets, NEW status \in BOOLEAN,
           NewPack(t, status)
    PROVE  /\ packs' \in Seq(Packs)
           /\ \A u, chain : Known(u, chain) => Known(u, chain)'
           /\ \A chain : Known(t, chain)'
<1>1. PICK p : p = [ticket |-> t, status |-> status]
  OBVIOUS
<1>2. packs' = Append(packs, p) /\ p \in Packs /\ p.ticket = t
  BY <1>1 DEF NewPack, Packs
<1>3. /\ Len(packs') = Len(packs) + 1 /\ Len(packs) \in Nat
      /\ \A i \in 1 .. Len(packs) : packs'[i] = packs[i]
      /\ packs'[Len(packs) + 1] = p
      /\ packs' \in Seq(Packs)
  BY <1>2
<1>4. \A i \in 1 .. Len(packs) : i \in 1 .. Len(packs')
  BY <1>3
<1>5. Len(packs) + 1 \in 1 .. Len(packs')
  BY <1>3
<1>6. QED
  BY <1>2, <1>3, <1>4, <1>5 DEF Known

(* What loading a ticket does to the loaded ones. *)
LEMMA LoadEffect ==
    ASSUME bugs \in [Tickets -> BugCaches], NEW t \in Tickets,
           NEW chain \in Chains, Load(t, chain)
    PROVE  /\ bugs' \in [Tickets -> BugCaches]
           /\ \A u \in Tickets :
                 \/ bugs'[u] = NotLoaded
                 \/ u # t /\ bugs'[u] = bugs[u]
                 \/ u = t /\ bugs'[u] = [base |-> chain, staged |-> << >>]
           /\ mixed' = (mixed \/ Pulling)
<1>1. PICK out : out = Evicted([bugs EXCEPT ![t] = [base |-> chain, staged |-> << >>]],
                               Append(lru, t))
  OBVIOUS
<1>2. PICK loaded : loaded = [bugs EXCEPT ![t] = [base |-> chain, staged |-> << >>]]
  OBVIOUS
<1>3. /\ bugs' = [u \in Tickets |-> IF u \in out THEN NotLoaded ELSE loaded[u]]
      /\ mixed' = (mixed \/ Pulling)
  BY <1>1, <1>2 DEF Load
<1>4. NotLoaded \in BugCaches
  BY DEF NotLoaded, BugCaches, Chains
<1>5. [base |-> chain, staged |-> << >>] \in BugCaches
  BY DEF BugCaches
<1>6. \A u \in Tickets : /\ u # t => loaded[u] = bugs[u]
                         /\ u = t => loaded[u] = [base |-> chain, staged |-> << >>]
  BY <1>2
<1>7. QED
  BY <1>3, <1>4, <1>5, <1>6
-----------------------------------------------------------------------------
(* The invariant holds *)

LEMMA InvInit == Init => Inv
<1> SUFFICES ASSUME Init PROVE Inv
  OBVIOUS
<1>1. NotLoaded \in BugCaches /\ << >> \in Chains /\ << >> \in Seq(Packs)
  BY DEF NotLoaded, BugCaches, Chains
<1>2. DataOK
  BY <1>1 DEF Init, DataOK
<1>3. NoneLoaded /\ StagedIsLoaded
  BY DEF Init, NoneLoaded, StagedIsLoaded, Loaded, NeedCommit, NotLoaded
<1>4. KnownChains
  BY DEF Init, KnownChains, Known, NotLoaded
<1>5. Bounds /\ Apart /\ MainTicket /\ MergeUnderWay
  BY <1>3 DEF Init, Bounds, Apart, MainTicket, MergeUnderWay, Quiet, Pulling
<1>6. SingleCopy
  BY <1>3 DEF SingleCopy, Stale, NoneLoaded
<1>7. QED
  BY <1>2, <1>3, <1>4, <1>5, <1>6 DEF Inv

(* What the session has loaded and merges, when it stays as it is.         *)
LEMMA SameTickets ==
    ASSUME Inv, UNCHANGED <<packs, server, tracking, local, bugs>>
    PROVE  /\ DataOK' /\ KnownChains' /\ StagedIsLoaded'
           /\ NoneLoaded' <=> NoneLoaded
           /\ mixed' = mixed => SingleCopy'
BY DEF Inv, DataOK, KnownChains, Known, StagedIsLoaded, NoneLoaded, Loaded,
       NeedCommit, SingleCopy, Stale

(* Nothing is loaded and nothing is merged: the invariant is easy then.    *)
LEMMA NothingLoaded ==
    ASSUME DataOK', KnownChains', NoneLoaded', StagedIsLoaded', ~ Pulling',
           main'.at \in {"off", "opened", "closed"}
    PROVE  Inv'
BY DEF Inv, Bounds, Apart, MainTicket, MergeUnderWay, SingleCopy, Stale,
       NoneLoaded, Pulling

(* The process ends, one way or another. *)
LEMMA ForgetStep ==
    ASSUME Inv, Forget, UNCHANGED <<packs, server, tracking, local>>
    PROVE  DataOK' /\ KnownChains' /\ NoneLoaded' /\ StagedIsLoaded'
<1>1. NotLoaded \in BugCaches
  BY DEF NotLoaded, BugCaches, Chains
<1>2. bugs' = [t \in Tickets |-> NotLoaded]
  BY DEF Forget
<1>3. DataOK' /\ KnownChains'
  BY <1>1, <1>2 DEF Inv, DataOK, KnownChains, Known, NotLoaded
<1>4. QED
  BY <1>2, <1>3 DEF NoneLoaded, StagedIsLoaded, Loaded, NeedCommit, NotLoaded

LEMMA DieStep ==
    ASSUME Inv, Die
    PROVE  Inv' /\ local' = local
<1>1. Forget /\ UNCHANGED <<packs, server, tracking, local>>
  BY DEF Die, refs
<1>2. main'.at = "off" /\ ~ Pulling'
  BY DEF Die, Quiet, Pulling
<1>3. QED
  BY <1>1, <1>2, ForgetStep, NothingLoaded

LEMMA SessionStep ==
    ASSUME Inv,
           (\E rebuild \in BOOLEAN : Start(rebuild)) \/ Close \/ Exit
    PROVE  Inv' /\ local' = local
<1>1. ASSUME NEW rebuild \in BOOLEAN, Start(rebuild)
      PROVE  Inv' /\ local' = local
  <2>1. /\ UNCHANGED <<packs, server, tracking, local, bugs, merger, forwarder>>
        /\ main.at = "off" /\ main'.at = "opened"
    BY <1>1 DEF Start, refs, pull, Goto
  <2>2. NoneLoaded /\ ~ Pulling
    BY <2>1 DEF Inv, Bounds
  <2>3. QED
    BY <2>1, <2>2, SameTickets, NothingLoaded DEF Pulling
<1>2. CASE Close
  <2>1. /\ Forget /\ UNCHANGED <<packs, server, tracking, local, merger, forwarder, mixed>>
        /\ main'.at = "closed"
    BY <1>2 DEF Close, refs, pull, Goto
  <2>2. DataOK' /\ KnownChains' /\ NoneLoaded' /\ StagedIsLoaded'
    BY <2>1, ForgetStep
  <2>3. Bounds' /\ Apart' /\ MainTicket' /\ SingleCopy'
    BY <2>1, <2>2 DEF Bounds, Apart, MainTicket, SingleCopy, Stale, NoneLoaded
  <2>4. MergeUnderWay'
    BY <2>1 DEF Inv, MergeUnderWay, Known
  <2>5. QED
    BY <2>1, <2>2, <2>3, <2>4 DEF Inv
<1>3. CASE Exit
  <2>1. /\ UNCHANGED <<packs, server, tracking, local, bugs>>
        /\ main.at = "closed" /\ main'.at = "off" /\ ~ Pulling'
    BY <1>3 DEF Exit, refs, memory, Quiet, Pulling
  <2>2. NoneLoaded
    BY <2>1 DEF Inv, Bounds
  <2>3. QED
    BY <2>1, <2>2, SameTickets, NothingLoaded
<1>4. QED
  BY <1>1, <1>2, <1>3

(* Steps of the main thread between its actions on tickets.                *)
LEMMA MainStep ==
    ASSUME Inv,
           \/ \E t \in Tickets : OpenMissing(t)
           \/ SaveInvalid \/ Notify \/ Write \/ DropExcerpt \/ ReadReset
           \/ RefreshCache
    PROVE  Inv' /\ local' = local
<1>1. UNCHANGED <<packs, server, tracking, local, bugs, merger, forwarder, mixed>>
  BY DEF OpenMissing, SaveInvalid, Notify, Write, DropExcerpt, ReadReset,
         RefreshCache, refs, memory, pull, ghosts
<1>2. /\ main'.at \notin {"off", "opened", "closed"}
      /\ MainTicket'
  <2>1. CASE \/ \E t \in Tickets : OpenMissing(t)
             \/ SaveInvalid \/ DropExcerpt \/ ReadReset \/ RefreshCache
    <3>1. main'.at \in {"end", "writeEnd"}
      BY <2>1 DEF OpenMissing, SaveInvalid, DropExcerpt, ReadReset,
                  RefreshCache, Goto
    <3>2. QED
      BY <3>1 DEF MainTicket
  <2>2. CASE Notify
    <3>1. /\ main.at \in {"notify", "saved"} /\ main'.t = main.t
          /\ main'.at \in {"write", "writeBack"}
      BY <2>2 DEF Notify, Goto
    <3>2. QED
      BY <3>1 DEF Inv, MainTicket
  <2>3. CASE Write
    <3>1. \/ main.at = "write" /\ main' = [at |-> "show", t |-> main.t]
          \/ main'.at \in {"table", "end"}
      <4>1. CASE main.at = "write"
        BY <2>3, <4>1 DEF Write, Goto
      <4>2. CASE main.at = "writeBack"
        BY <2>3, <4>2 DEF Write, Goto
      <4>3. CASE main.at = "writeEnd"
        BY <2>3, <4>3 DEF Write, Goto
      <4>4. QED
        BY <2>3, <4>1, <4>2, <4>3 DEF Write
    <3>2. QED
      BY <3>1 DEF Inv, MainTicket
  <2>4. QED
    BY <2>1, <2>2, <2>3
<1>4. Bounds' /\ Apart' /\ MergeUnderWay'
  BY <1>1, <1>2, SameTickets DEF Inv, Bounds, Apart, Pulling, MergeUnderWay, Known
<1>5. QED
  BY <1>1, <1>2, <1>4, SameTickets DEF Inv
LEMMA OthersStep ==
    ASSUME Inv, NEW t \in Tickets, NEW status \in BOOLEAN,
           PushedByOthers(t, status)
    PROVE  Inv' /\ local' = local
<1>1. PICK c : c = [pack |-> Len(packs) + 1, by |-> Them]
  OBVIOUS
<1>2. /\ server' = [server EXCEPT ![t] = Append(@, c)]
      /\ NewPack(t, status)
      /\ UNCHANGED <<tracking, local, bugs, main, merger, forwarder, mixed>>
  BY <1>1 DEF PushedByOthers, memory, pull, ghosts
<1>3. packs \in Seq(Packs)
  BY DEF Inv, DataOK
<1>4. c \in Commits
  BY <1>1, <1>3 DEF Commits
<1>5. server' \in [Tickets -> Chains] /\ packs' \in Seq(Packs)
  BY <1>2, <1>3, <1>4, StaysKnown DEF Inv, DataOK, Chains
<1>6. DataOK'
  BY <1>2, <1>5 DEF Inv, DataOK
<1>7. KnownChains'
  <2>1. SUFFICES ASSUME NEW u \in Tickets
                 PROVE  Known(u, server[u])' /\ Known(u, tracking[u])'
                          /\ Known(u, local[u])' /\ Known(u, bugs[u].base)'
    BY DEF KnownChains
  <2>2. server \in [Tickets -> Chains]
    BY DEF Inv, DataOK
  <2>3. u # t => server'[u] = server[u]
    BY <1>2, <2>2
  <2>4. \A x, chain : Known(x, chain) => Known(x, chain)'
    BY <1>2, <1>3, StaysKnown
  <2>5. \A chain : Known(t, chain)'
    BY <1>2, <1>3, StaysKnown
  <2>6. /\ Known(u, server[u]) /\ Known(u, tracking[u]) /\ Known(u, local[u])
        /\ Known(u, bugs[u].base)
    BY DEF Inv, KnownChains
  <2>7. QED
    BY <1>2, <2>3, <2>4, <2>5, <2>6 DEF Known
<1>8. MergeUnderWay'
  <2>1. \A x, chain : Known(x, chain) => Known(x, chain)'
    BY <1>2, <1>3, StaysKnown
  <2>2. MergeUnderWay
    BY DEF Inv
  <2>3. QED
    BY <1>2, <2>1, <2>2 DEF MergeUnderWay, Known
<1>9. QED
  BY <1>2, <1>6, <1>7, <1>8 DEF Inv, StagedIsLoaded, Loaded, NeedCommit,
     Bounds, NoneLoaded, Apart, Pulling, MainTicket, SingleCopy, Stale

LEMMA ElsewhereStep ==
    ASSUME Inv, NEW t \in Tickets, PushedElsewhere(t)
    PROVE  Inv' /\ local' = local
<1>1. PICK i \in DOMAIN local[t] :
        server' = [server EXCEPT ![t] =
                     Append(@, [pack |-> local[t][i].pack, by |-> Them])]
  BY DEF PushedElsewhere
<1>2. PICK c : c = [pack |-> local[t][i].pack, by |-> Them]
  OBVIOUS
<1>3. /\ server' = [server EXCEPT ![t] = Append(@, c)]
      /\ server[t] # << >>
      /\ UNCHANGED <<packs, tracking, local, bugs, main, merger, forwarder, mixed>>
  BY <1>1, <1>2 DEF PushedElsewhere, memory, pull, ghosts
<1>4. c \in Commits
  <2>1. local[t] \in Seq(Commits)
    BY DEF Inv, DataOK, Chains
  <2>2. local[t][i] \in Commits
    BY <1>1, <2>1
  <2>3. QED
    BY <1>2, <2>2 DEF Commits
<1>5. /\ server' \in [Tickets -> Chains]
      /\ \A u \in Tickets : u # t => server'[u] = server[u]
  BY <1>3, <1>4 DEF Inv, DataOK, Chains
<1>6. DataOK'
  BY <1>3, <1>5 DEF Inv, DataOK
<1>7. \A u \in Tickets : Known(u, server'[u])
  BY <1>3, <1>5 DEF Inv, KnownChains, Known
<1>8. KnownChains'
  BY <1>3, <1>7 DEF Inv, KnownChains, Known
<1>9. QED
  BY <1>3, <1>6, <1>8 DEF Inv, StagedIsLoaded, Loaded, NeedCommit, Bounds,
     NoneLoaded, Apart, Pulling, MainTicket, MergeUnderWay, Known, SingleCopy,
     Stale

(* Opening a ticket: it is loaded from its ref, or was loaded before.      *)
LEMMA OpenStep ==
    ASSUME Inv, NEW t \in Tickets, OpenBug(t)
    PROVE  Inv' /\ local' = local
<1>1. /\ UNCHANGED <<packs, server, tracking, local, merger, forwarder>>
      /\ main'.at = "show" /\ main'.t = t
      /\ main.at \in {"opened", "table"}
  BY DEF OpenBug, refs, pull, Goto, Ready
<1>2. MainTicket' /\ Bounds'
  BY <1>1 DEF MainTicket, Bounds
<1>3. CASE UNCHANGED <<bugs, mixed>> /\ Loaded(t)
  <2>1. NoneLoaded' <=> NoneLoaded
    BY <1>1, <1>3, SameTickets
  <2>2. Apart' /\ MergeUnderWay'
    BY <1>1, <1>3, <2>1 DEF Inv, Apart, Pulling, MergeUnderWay, Known
  <2>3. QED
    BY <1>1, <1>2, <1>3, <2>2, SameTickets DEF Inv
<1>4. CASE Load(t, local[t])
  <2>1. local \in [Tickets -> Chains] /\ bugs \in [Tickets -> BugCaches]
    BY DEF Inv, DataOK
  <2>2. /\ bugs' \in [Tickets -> BugCaches]
        /\ \A u \in Tickets :
              \/ bugs'[u] = NotLoaded
              \/ u # t /\ bugs'[u] = bugs[u]
              \/ u = t /\ bugs'[u] = [base |-> local[t], staged |-> << >>]
        /\ mixed' = (mixed \/ Pulling)
    BY <1>4, <2>1, LoadEffect
  <2>3. DataOK' /\ KnownChains'
    BY <1>1, <2>2 DEF Inv, DataOK, KnownChains, Known, NotLoaded
  <2>4. StagedIsLoaded'
    BY <2>2 DEF Inv, StagedIsLoaded, NeedCommit, Loaded, NotLoaded
  <2>5. ASSUME ~ mixed', NEW u \in Tickets
        PROVE  bugs'[u].base = << >> \/ bugs'[u].base = local'[u]
    <3>1. ~ mixed
      BY <2>2, <2>5
    <3>2. bugs[u].base = << >> \/ bugs[u].base = local[u]
      BY <3>1 DEF Inv, SingleCopy, Stale, Loaded
    <3>3. QED
      BY <1>1, <2>2, <3>2 DEF NotLoaded
  <2>6. Apart' /\ MergeUnderWay'
    BY <1>1, <2>2 DEF Inv, Apart, Pulling, MergeUnderWay, Known
  <2>7. QED
    BY <1>1, <1>2, <2>3, <2>4, <2>5, <2>6
       DEF Inv, SingleCopy, Stale, Loaded
<1>5. QED
  BY <1>3, <1>4 DEF OpenBug, ghosts
(* A new ticket: no ref holds it yet. *)
LEMMA NewStep ==
    ASSUME Inv, NEW t \in Tickets, NewBug(t)
    PROVE  Inv' /\ Kept
<1>1. PICK chain : chain = <<[pack |-> Len(packs) + 1, by |-> Us]>>
  OBVIOUS
<1>2. /\ UNCHANGED <<server, tracking, merger, forwarder>>
      /\ NewPack(t, FALSE)
      /\ local' = [local EXCEPT ![t] = chain]
      /\ Load(t, local'[t])
      /\ main'.at = "notify" /\ main'.t = t
      /\ main.at \in {"opened", "table"}
      /\ \A i \in DOMAIN packs : packs[i].ticket # t
  BY <1>1 DEF NewBug, pull, Goto, Ready
<1>3. /\ packs \in Seq(Packs)
      /\ local \in [Tickets -> Chains] /\ bugs \in [Tickets -> BugCaches]
  BY DEF Inv, DataOK
<1>4. chain \in Chains
  <2>1. [pack |-> Len(packs) + 1, by |-> Us] \in Commits
    BY <1>3 DEF Commits
  <2>2. QED
    BY <1>1, <2>1 DEF Chains
<1>5. /\ packs' \in Seq(Packs)
      /\ \A u, x : Known(u, x) => Known(u, x)'
      /\ \A x : Known(t, x)'
  BY <1>2, <1>3, StaysKnown
<1>6. /\ local'[t] = chain
      /\ \A u \in Tickets : u # t => local'[u] = local[u]
      /\ local' \in [Tickets -> Chains]
  BY <1>2, <1>3, <1>4
<1>7. /\ bugs' \in [Tickets -> BugCaches]
      /\ \A u \in Tickets :
            \/ bugs'[u] = NotLoaded
            \/ u # t /\ bugs'[u] = bugs[u]
            \/ u = t /\ bugs'[u] = [base |-> chain, staged |-> << >>]
      /\ mixed' = (mixed \/ Pulling)
  <2>1. Load(t, chain)
    BY <1>2, <1>6
  <2>2. QED
    BY <1>3, <1>4, <2>1, LoadEffect
<1>8. chain # << >>
  BY <1>1
<1>9. local[t] = << >>
  <2>1. Known(t, local[t])
    BY DEF Inv, KnownChains
  <2>2. DOMAIN packs = 1 .. Len(packs)
    BY <1>3
  <2>3. QED
    BY <1>2, <2>1, <2>2 DEF Known
<1>10. DataOK'
  BY <1>2, <1>5, <1>6, <1>7 DEF Inv, DataOK
<1>11. KnownChains'
  <2>1. SUFFICES ASSUME NEW u \in Tickets
                 PROVE  Known(u, server[u])' /\ Known(u, tracking[u])'
                          /\ Known(u, local[u])' /\ Known(u, bugs[u].base)'
    BY DEF KnownChains
  <2>2. /\ Known(u, server[u]) /\ Known(u, tracking[u]) /\ Known(u, local[u])
        /\ Known(u, bugs[u].base)
    BY DEF Inv, KnownChains
  <2>3. CASE u = t
    BY <1>5, <2>3 DEF Known
  <2>4. CASE u # t
    <3>1. /\ server'[u] = server[u] /\ tracking'[u] = tracking[u]
          /\ local'[u] = local[u]
          /\ bugs'[u].base = << >> \/ bugs'[u].base = bugs[u].base
      BY <1>2, <1>6, <1>7, <2>4 DEF NotLoaded
    <3>2. QED
      BY <1>5, <2>2, <3>1 DEF Known
  <2>5. QED
    BY <2>3, <2>4
<1>12. StagedIsLoaded'
  BY <1>7, <1>8 DEF Inv, StagedIsLoaded, NeedCommit, Loaded, NotLoaded
<1>13. ASSUME ~ mixed', NEW u \in Tickets
       PROVE  bugs'[u].base = << >> \/ bugs'[u].base = local'[u]
  <2>1. ~ mixed
    BY <1>7, <1>13
  <2>2. bugs[u].base = << >> \/ bugs[u].base = local[u]
    BY <2>1 DEF Inv, SingleCopy, Stale, Loaded
  <2>3. QED
    BY <1>6, <1>7, <2>2 DEF NotLoaded
<1>14. MainTicket' /\ Bounds' /\ Apart'
  BY <1>2, <1>7 DEF MainTicket, Bounds, Apart, Pulling
<1>15. MergeUnderWay'
  <2>1. MergeUnderWay
    BY DEF Inv
  <2>2. merger.at = "merge" => mixed'
    BY <1>7 DEF Pulling
  <2>3. QED
    BY <1>2, <1>5, <2>1, <2>2 DEF MergeUnderWay, Known
<1>16. Kept
  <2>1. PackIds(local[t]) = {}
    BY <1>9 DEF PackIds
  <2>2. QED
    BY <1>6, <2>1 DEF Kept
<1>17. QED
  BY <1>10, <1>11, <1>12, <1>13, <1>14, <1>15, <1>16
     DEF Inv, SingleCopy, Stale, Loaded

(* Staging an operation. *)
LEMMA StageStep ==
    ASSUME Inv, NEW status \in BOOLEAN, Stage(status)
    PROVE  Inv' /\ local' = local
<1>1. PICK t : t = main.t
  OBVIOUS
<1>2. t \in Tickets
  BY <1>1 DEF Inv, MainTicket, Stage
<1>3. /\ UNCHANGED <<server, tracking, local, merger, forwarder, mixed>>
      /\ NewPack(t, status)
      /\ bugs' = [bugs EXCEPT ![t].staged = <<Len(packs) + 1>>]
      /\ main'.at = "notify" /\ main'.t = t
      /\ Loaded(t)
  BY <1>1 DEF Stage, refs, pull, ghosts, Goto
<1>4. /\ packs \in Seq(Packs) /\ bugs \in [Tickets -> BugCaches]
      /\ Len(packs) \in Nat
  BY DEF Inv, DataOK
<1>5. /\ packs' \in Seq(Packs)
      /\ \A u, x : Known(u, x) => Known(u, x)'
  BY <1>2, <1>3, <1>4, StaysKnown
<1>6. <<Len(packs) + 1>> \in Seq(Nat)
  BY <1>4
<1>7. /\ bugs' \in [Tickets -> BugCaches]
      /\ \A u \in Tickets : bugs'[u].base = bugs[u].base
      /\ \A u \in Tickets : u # t => bugs'[u] = bugs[u]
  BY <1>2, <1>3, <1>4, <1>6 DEF BugCaches
<1>8. DataOK'
  BY <1>3, <1>5, <1>7 DEF Inv, DataOK
<1>9. KnownChains'
  BY <1>3, <1>5, <1>7 DEF Inv, KnownChains, Known
<1>10. StagedIsLoaded'
  BY <1>3, <1>7 DEF Inv, StagedIsLoaded, NeedCommit, Loaded
<1>11. SingleCopy'
  BY <1>3, <1>7 DEF Inv, SingleCopy, Stale, Loaded
<1>12. NoneLoaded' <=> NoneLoaded
  BY <1>7 DEF NoneLoaded, Loaded
<1>13. MainTicket' /\ Bounds' /\ Apart'
  BY <1>2, <1>3, <1>12 DEF Inv, MainTicket, Bounds, Apart, Pulling
<1>14. MergeUnderWay'
  BY <1>3, <1>5 DEF Inv, MergeUnderWay, Known
<1>15. QED
  BY <1>3, <1>8, <1>9, <1>10, <1>11, <1>13, <1>14 DEF Inv
(* Saving: the ref is set to the loaded ticket with what was staged.       *)
LEMMA SaveStep ==
    ASSUME Inv, SaveAndBack
    PROVE  Inv' /\ (~ mixed => Kept)
<1>1. PICK t : t = main.t
  OBVIOUS
<1>2. /\ UNCHANGED <<packs, server, tracking, merger, forwarder, mixed>>
      /\ main'.at = "saved" /\ main'.t = t
      /\ main.at = "show" /\ Loaded(t)
  BY <1>1 DEF SaveAndBack, pull, ghosts, Goto
<1>3. t \in Tickets
  BY <1>1, <1>2 DEF Inv, MainTicket
<1>4. MainTicket' /\ Bounds'
  BY <1>2, <1>3 DEF MainTicket, Bounds
<1>5. CASE UNCHANGED <<local, bugs>>
  <2>1. DataOK' /\ KnownChains' /\ StagedIsLoaded' /\ SingleCopy'
          /\ (NoneLoaded' <=> NoneLoaded)
    BY <1>2, <1>5, SameTickets
  <2>2. Apart' /\ MergeUnderWay'
    BY <1>2, <1>5, <2>1 DEF Inv, Apart, Pulling, MergeUnderWay, Known
  <2>3. QED
    BY <1>4, <1>5, <2>1, <2>2 DEF Inv, Kept
<1>6. CASE NeedCommit(t) /\ Commit(t)
  <2>1. PICK c : c = [pack |-> bugs[t].staged[1], by |-> Us]
    OBVIOUS
  <2>2. PICK chain : chain = Append(bugs[t].base, c)
    OBVIOUS
  <2>3. /\ local' = [local EXCEPT ![t] = chain]
        /\ bugs' = [bugs EXCEPT ![t] = [base |-> chain, staged |-> << >>]]
    BY <1>6, <2>1, <2>2 DEF Commit
  <2>4. /\ bugs[t].base \in Chains /\ bugs[t].staged \in Seq(Nat)
        /\ bugs[t].staged # << >>
        /\ local \in [Tickets -> Chains] /\ bugs \in [Tickets -> BugCaches]
    BY <1>3, <1>6 DEF Inv, DataOK, BugCaches, NeedCommit
  <2>5. c \in Commits
    BY <2>1, <2>4 DEF Commits
  <2>6. chain \in Chains /\ chain # << >>
    <3>1. /\ chain \in Seq(Commits) /\ Len(chain) = Len(bugs[t].base) + 1
          /\ Len(bugs[t].base) \in Nat
      BY <2>2, <2>4, <2>5 DEF Chains
    <3>2. Len(chain) # 0
      BY <3>1
    <3>3. QED
      BY <3>1, <3>2 DEF Chains
  <2>7. [base |-> chain, staged |-> << >>] \in BugCaches
    BY <2>6 DEF BugCaches
  <2>8. /\ local' \in [Tickets -> Chains] /\ local'[t] = chain
        /\ bugs' \in [Tickets -> BugCaches]
        /\ bugs'[t] = [base |-> chain, staged |-> << >>]
        /\ \A u \in Tickets : u # t => local'[u] = local[u] /\ bugs'[u] = bugs[u]
    BY <1>3, <2>3, <2>4, <2>6, <2>7
  <2>9. DataOK'
    BY <1>2, <2>8 DEF Inv, DataOK
  <2>10. Known(t, chain)
    <3>1. Known(t, bugs[t].base)
      BY <1>3 DEF Inv, KnownChains
    <3>2. QED
      BY <1>2, <3>1 DEF Known, Loaded
  <2>11. KnownChains'
    BY <1>2, <1>3, <2>8, <2>10 DEF Inv, KnownChains, Known
  <2>12. StagedIsLoaded' /\ SingleCopy'
    BY <1>2, <1>3, <2>6, <2>8 DEF Inv, StagedIsLoaded, NeedCommit, Loaded,
                                  SingleCopy, Stale
  <2>13. mixed \/ ~ Pulling
    BY <1>2, <1>3 DEF Inv, Apart, NoneLoaded
  <2>14. Apart'
    BY <1>2, <2>13 DEF Apart, Pulling
  <2>15. MergeUnderWay'
    <3>1. merger.at = "merge" => mixed
      BY <2>13 DEF Pulling
    <3>2. QED
      BY <1>2, <3>1 DEF Inv, MergeUnderWay, Known
  <2>16. ASSUME ~ mixed PROVE Kept
    <3>1. bugs[t].base = local[t]
      BY <1>2, <1>3, <2>16 DEF Inv, SingleCopy, Stale
    <3>2. PackIds(chain) = PackIds(local[t]) \cup {c.pack}
      BY <2>2, <2>4, <2>5, <3>1, AppendPackId DEF Chains
    <3>3. QED
      BY <2>8, <3>2 DEF Kept
  <2>17. QED
    BY <1>4, <2>9, <2>11, <2>12, <2>14, <2>15, <2>16 DEF Inv
<1>7. QED
  BY <1>1, <1>5, <1>6 DEF SaveAndBack

(* Removing and resetting: the command has just been started. *)
LEMMA RemoveStep ==
    ASSUME Inv, NEW t \in Tickets, RemoveBug(t)
    PROVE  Inv'
<1>1. /\ UNCHANGED <<packs, server, bugs, merger, forwarder, mixed>>
      /\ local' = [local EXCEPT ![t] = << >>]
      /\ tracking' = [tracking EXCEPT ![t] = << >>]
      /\ main.at = "opened" /\ main'.at = "removed" /\ main'.t = t
  BY DEF RemoveBug, memory, pull, ghosts, Goto
<1>2. NoneLoaded /\ ~ Pulling
  BY <1>1 DEF Inv, Bounds
<1>3. NoneLoaded' /\ ~ Pulling' /\ StagedIsLoaded'
  BY <1>1, <1>2 DEF Inv, NoneLoaded, Loaded, Pulling, StagedIsLoaded, NeedCommit
<1>4. << >> \in Chains
  BY DEF Chains
<1>5. DataOK'
  BY <1>1, <1>4 DEF Inv, DataOK
<1>6. \A u \in Tickets : /\ local'[u] = local[u] \/ local'[u] = << >>
                         /\ tracking'[u] = tracking[u] \/ tracking'[u] = << >>
  BY <1>1 DEF Inv, DataOK
<1>7. KnownChains'
  BY <1>1, <1>6 DEF Inv, KnownChains, Known
<1>8. MainTicket' /\ Bounds' /\ Apart' /\ MergeUnderWay' /\ SingleCopy'
  BY <1>1, <1>3 DEF MainTicket, Bounds, Apart, MergeUnderWay, SingleCopy,
                    Stale, NoneLoaded, Pulling
<1>9. QED
  BY <1>3, <1>5, <1>7, <1>8 DEF Inv

LEMMA ResetStep ==
    ASSUME Inv, NEW t \in Tickets, ResetBug(t)
    PROVE  Inv'
<1>1. PICK chain : chain = IF NothingBetween(tracking[t], local[t])
                           THEN local[t] ELSE tracking[t]
  OBVIOUS
<1>2. /\ UNCHANGED <<packs, server, tracking, merger, forwarder>>
      /\ local' = [local EXCEPT ![t] = chain]
      /\ Load(t, local'[t])
      /\ main.at = "opened" /\ main'.at = "reset" /\ main'.t = t
      /\ local[t] # << >> /\ tracking[t] # << >>
  BY <1>1 DEF ResetBug, pull, Goto
<1>3. /\ local \in [Tickets -> Chains] /\ tracking \in [Tickets -> Chains]
      /\ bugs \in [Tickets -> BugCaches]
  BY DEF Inv, DataOK
<1>4. chain \in Chains /\ chain # << >> /\ Known(t, chain)
  BY <1>1, <1>2, <1>3 DEF Inv, KnownChains
<1>5. /\ local' \in [Tickets -> Chains] /\ local'[t] = chain
      /\ \A u \in Tickets : u # t => local'[u] = local[u]
  BY <1>2, <1>3, <1>4
<1>6. /\ bugs' \in [Tickets -> BugCaches]
      /\ \A u \in Tickets :
            \/ bugs'[u] = NotLoaded
            \/ u # t /\ bugs'[u] = bugs[u]
            \/ u = t /\ bugs'[u] = [base |-> chain, staged |-> << >>]
      /\ mixed' = (mixed \/ Pulling)
  <2>1. Load(t, chain)
    BY <1>2, <1>5
  <2>2. QED
    BY <1>3, <1>4, <2>1, LoadEffect
<1>7. NoneLoaded /\ ~ Pulling
  BY <1>2 DEF Inv, Bounds
<1>8. DataOK'
  BY <1>2, <1>5, <1>6 DEF Inv, DataOK
<1>9. \A u \in Tickets : \/ bugs'[u].base = << >>
                         \/ u = t /\ bugs'[u].base = local'[u]
  BY <1>5, <1>6, <1>7 DEF NoneLoaded, Loaded, NotLoaded
<1>10. KnownChains'
  <2>1. \A u \in Tickets : Known(u, server[u]) /\ Known(u, tracking[u])
                             /\ Known(u, local'[u])
    BY <1>4, <1>5 DEF Inv, KnownChains
  <2>2. \A u \in Tickets : Known(u, bugs'[u].base)
    BY <1>9, <2>1 DEF Known
  <2>3. QED
    BY <1>2, <2>1, <2>2 DEF KnownChains, Known
<1>11. StagedIsLoaded'
  BY <1>4, <1>6 DEF Inv, StagedIsLoaded, NeedCommit, Loaded, NotLoaded
<1>12. SingleCopy'
  BY <1>9 DEF SingleCopy, Stale, Loaded
<1>13. MainTicket' /\ Bounds' /\ Apart' /\ MergeUnderWay'
  BY <1>2, <1>7 DEF MainTicket, Bounds, Apart, MergeUnderWay, Pulling
<1>14. QED
  BY <1>8, <1>10, <1>11, <1>12, <1>13 DEF Inv
-----------------------------------------------------------------------------
(* Pulling *)

LEMMA StartPullStep ==
    ASSUME Inv, NEW fetched \in BOOLEAN, StartPull(fetched)
    PROVE  Inv' /\ local' = local
<1>1. /\ UNCHANGED <<packs, server, local, bugs>>
      /\ tracking' = server \/ tracking' = tracking
      /\ main'.at = "table"
      /\ merger'.at = "next"
      /\ mixed' = (mixed \/ \E t \in Tickets : Loaded(t))
  BY DEF StartPull, memory, Goto
<1>2. DataOK' /\ KnownChains'
  BY <1>1 DEF Inv, DataOK, KnownChains, Known
<1>3. StagedIsLoaded' /\ SingleCopy'
  BY <1>1 DEF Inv, StagedIsLoaded, NeedCommit, Loaded, SingleCopy, Stale
<1>4. MainTicket' /\ Bounds' /\ Apart' /\ MergeUnderWay'
  BY <1>1 DEF MainTicket, Bounds, Apart, NoneLoaded, Loaded, MergeUnderWay
<1>5. QED
  BY <1>1, <1>2, <1>3, <1>4 DEF Inv

(* The main thread is not disturbed when the goroutines pass results on.   *)
LEMMA PassOn ==
    ASSUME Inv,
           UNCHANGED <<packs, server, tracking, local, bugs, main, mixed>>,
           Pulling, merger'.at # "merge" \/ merger' = merger
    PROVE  Inv' /\ local' = local
<1>1. /\ DataOK' /\ KnownChains' /\ StagedIsLoaded' /\ SingleCopy'
      /\ NoneLoaded' <=> NoneLoaded
  BY SameTickets
<1>2. MainTicket' /\ Bounds' /\ Apart'
  BY <1>1 DEF Inv, MainTicket, Bounds, Apart, Pulling
<1>3. MergeUnderWay'
  BY DEF Inv, MergeUnderWay, Known
<1>4. QED
  BY <1>1, <1>2, <1>3 DEF Inv

LEMMA SkipStep ==
    ASSUME Inv, NEW t \in Tickets, MergeSkip(t)
    PROVE  Inv' /\ local' = local
<1>1. /\ UNCHANGED <<packs, server, tracking, local, bugs, main, forwarder, mixed>>
      /\ merger.at = "next" /\ merger' = [merger EXCEPT !.todo = @ \ {t}]
  BY DEF MergeSkip, refs, memory, ghosts
<1>2. merger'.at # "merge" \/ merger'.at = merger.at
  BY <1>1
<1>3. QED
  BY <1>1, <1>2, PassOn DEF Pulling

LEMMA ReadStep ==
    ASSUME Inv, NEW t \in Tickets, MergeRead(t)
    PROVE  Inv' /\ local' = local
<1>1. PICK result : result = Result(local[t], tracking[t])
  OBVIOUS
<1>2. PICK chain : chain = IF result = "updated"
                           THEN Rebase(local[t], tracking[t], Us)
                           ELSE tracking[t]
  OBVIOUS
<1>3. /\ UNCHANGED <<packs, server, tracking, local, bugs, main, forwarder, mixed>>
      /\ merger.at = "next"
      /\ merger'.at = "merge" => result \notin Refused
      /\ merger'.t = t /\ merger'.chain = chain
  BY <1>1, <1>2 DEF MergeRead, refs, memory, ghosts
<1>4. local[t] \in Chains /\ tracking[t] \in Chains
        /\ Known(t, local[t]) /\ Known(t, tracking[t])
  BY DEF Inv, DataOK, KnownChains
<1>5. /\ DataOK' /\ KnownChains' /\ StagedIsLoaded' /\ SingleCopy'
      /\ NoneLoaded' <=> NoneLoaded
  BY <1>3, SameTickets
<1>6. MainTicket' /\ Bounds' /\ Apart'
  BY <1>3, <1>5 DEF Inv, MainTicket, Bounds, Apart, Pulling
<1>7. PICK rebased : rebased = Rebase(local[t], tracking[t], Us)
  OBVIOUS
<1>8. /\ rebased \in Chains
      /\ PackIds(rebased) = PackIds(local[t]) \cup PackIds(tracking[t])
  BY <1>4, <1>7, OurCommits, RebasePackIds DEF Chains
<1>9. result = "new" => local[t] = << >>
  BY <1>1 DEF Result
<1>10. result \notin Refused => result \in {"new", "updated"}
  BY <1>1 DEF Result, Refused
<1>11. PackIds(<< >>) = {}
  BY DEF PackIds
<1>12. chain \in Chains
  BY <1>2, <1>4, <1>7, <1>8
<1>13. Known(t, chain)
  <2>1. CASE local[t] = << >> /\ tracking[t] = << >> /\ chain # tracking[t]
    <3>1. chain = rebased /\ result = "updated"
      BY <1>2, <1>7, <2>1
    <3>2. FALSE
      BY <1>1, <2>1, <3>1 DEF Result
    <3>3. QED
      BY <3>2
  <2>2. QED
    BY <1>4, <2>1 DEF Known
<1>14. result \notin Refused => PackIds(local[t]) \subseteq PackIds(chain)
  BY <1>2, <1>7, <1>8, <1>9, <1>10, <1>11
<1>15. MergeUnderWay'
  BY <1>3, <1>12, <1>13, <1>14 DEF MergeUnderWay, Known
<1>16. QED
  BY <1>3, <1>5, <1>6, <1>15 DEF Inv

LEMMA MergeStep ==
    ASSUME Inv, MergeWrite
    PROVE  Inv' /\ (~ mixed => Kept)
<1>1. PICK t : t = merger.t
  OBVIOUS
<1>2. PICK chain : chain = merger.chain
  OBVIOUS
<1>3. /\ UNCHANGED <<packs, server, tracking, bugs, main, forwarder, mixed>>
      /\ local' = [local EXCEPT ![t] = chain]
      /\ merger.at = "merge" /\ merger' = [merger EXCEPT !.at = "send"]
  BY <1>1, <1>2 DEF MergeWrite, memory, ghosts
<1>4. /\ t \in Tickets /\ chain \in Chains /\ Known(t, chain)
      /\ ~ mixed => PackIds(local[t]) \subseteq PackIds(chain)
  BY <1>1, <1>2, <1>3 DEF Inv, MergeUnderWay
<1>5. /\ local' \in [Tickets -> Chains] /\ local'[t] = chain
      /\ \A u \in Tickets : u # t => local'[u] = local[u]
  BY <1>3, <1>4 DEF Inv, DataOK
<1>6. DataOK' /\ StagedIsLoaded'
  BY <1>3, <1>5 DEF Inv, DataOK, StagedIsLoaded, NeedCommit, Loaded
<1>7. KnownChains'
  BY <1>3, <1>4, <1>5 DEF Inv, KnownChains, Known
<1>8. mixed \/ NoneLoaded
  BY <1>3 DEF Inv, Apart, Pulling
<1>9. SingleCopy' /\ Apart'
  BY <1>3, <1>8 DEF SingleCopy, Stale, Apart, NoneLoaded, Loaded
<1>10. Pulling
  BY <1>3 DEF Pulling
<1>11. NoneLoaded' <=> NoneLoaded
  BY <1>3 DEF NoneLoaded, Loaded
<1>12. MainTicket' /\ Bounds'
  BY <1>3, <1>10, <1>11 DEF Inv, MainTicket, Bounds
<1>13. MergeUnderWay'
  <2>1. merger'.at # "merge" \/ merger'.at = merger.at
    BY <1>3
  <2>2. QED
    BY <1>3, <1>4, <1>5, <2>1 DEF MergeUnderWay, Known
<1>14. Kept \/ mixed
  BY <1>4, <1>5 DEF Kept
<1>15. QED
  BY <1>6, <1>7, <1>9, <1>12, <1>13, <1>14 DEF Inv
LEMMA ResultStep ==
    ASSUME Inv, Forward \/ Consume \/ UpdateExcerpt \/ EndMerge \/ WriteMerged
    PROVE  Inv' /\ local' = local
<1>1. UNCHANGED <<packs, server, tracking, local, bugs, main, mixed>>
  BY DEF Forward, Consume, UpdateExcerpt, EndMerge, WriteMerged, refs, memory,
         ghosts
<1>2. Pulling
  BY DEF Forward, Consume, UpdateExcerpt, EndMerge, WriteMerged, Pulling
<1>3. merger'.at # "merge" \/ merger' = merger
  BY DEF Forward, Consume, UpdateExcerpt, EndMerge, WriteMerged, Quiet
<1>4. QED
  BY <1>1, <1>2, <1>3, PassOn

LEMMA PushStep ==
    ASSUME Inv, Push
    PROVE  Inv' /\ local' = local
<1>1. /\ UNCHANGED <<packs, local, bugs, main, merger, forwarder, mixed>>
      /\ server' = [t \in Tickets |-> IF t \in ToPush THEN local[t]
                                      ELSE server[t]]
      /\ tracking' = [t \in Tickets |-> IF t \in ToPush THEN local[t]
                                        ELSE tracking[t]]
  BY DEF Push, memory, pull, ghosts
<1>2. DataOK'
  BY <1>1 DEF Inv, DataOK
<1>3. \A t \in Tickets : /\ server'[t] = server[t] \/ server'[t] = local[t]
                         /\ tracking'[t] = tracking[t] \/ tracking'[t] = local[t]
  BY <1>1
<1>4. KnownChains'
  BY <1>1, <1>3 DEF Inv, KnownChains, Known
<1>5. QED
  BY <1>1, <1>2, <1>4 DEF Inv, StagedIsLoaded, NeedCommit, Loaded, Bounds,
     NoneLoaded, Apart, Pulling, MainTicket, MergeUnderWay, Known, SingleCopy,
     Stale

-----------------------------------------------------------------------------
(* Every step keeps the invariant; and the operations, unless a ticket is  *)
(* removed or reset, or was loaded during a pull.                          *)
LEMMA InvStep ==
    ASSUME Inv, [Next]_vars
    PROVE  /\ Inv'
           /\ \/ mixed
              \/ \E t \in Tickets : RemoveBug(t) \/ ResetBug(t)
              \/ Kept
<1>1. local' = local => Kept
  BY DEF Kept
<1>2. CASE \E t \in Tickets, status \in BOOLEAN : PushedByOthers(t, status)
  BY <1>1, <1>2, OthersStep
<1>3. CASE \E t \in Tickets : PushedElsewhere(t)
  BY <1>1, <1>3, ElsewhereStep
<1>4. CASE (\E rebuild \in BOOLEAN : Start(rebuild)) \/ Close \/ Exit
  BY <1>1, <1>4, SessionStep
<1>5. CASE Crash
  BY <1>1, <1>5, DieStep DEF Crash
<1>6. CASE \E t \in Tickets : OpenBug(t)
  BY <1>1, <1>6, OpenStep
<1>7. CASE \E t \in Tickets : NewBug(t)
  BY <1>7, NewStep
<1>8. CASE \E status \in BOOLEAN : Stage(status)
  BY <1>1, <1>8, StageStep
<1>9. CASE SaveAndBack
  BY <1>9, SaveStep
<1>10. CASE \/ \E t \in Tickets : OpenMissing(t)
           \/ SaveInvalid \/ Notify \/ Write \/ DropExcerpt \/ ReadReset
           \/ RefreshCache
  BY <1>1, <1>10, MainStep
<1>11. CASE \E t \in Tickets : RemoveBug(t) \/ ResetBug(t)
  BY <1>11, RemoveStep, ResetStep
<1>12. CASE \E fetched \in BOOLEAN : StartPull(fetched)
  BY <1>1, <1>12, StartPullStep
<1>13. CASE \E t \in Tickets : MergeSkip(t) \/ MergeRead(t)
  BY <1>1, <1>13, SkipStep, ReadStep
<1>14. CASE MergeWrite
  BY <1>14, MergeStep
<1>15. CASE Forward \/ Consume \/ UpdateExcerpt \/ EndMerge \/ WriteMerged
  BY <1>1, <1>15, ResultStep
<1>16. CASE ConsumeInvalid \/ UpdateClosed
  BY <1>1, <1>16, DieStep DEF ConsumeInvalid, UpdateClosed
<1>17. CASE Push
  BY <1>1, <1>17, PushStep
<1>18. CASE UNCHANGED vars
  <2>1. UNCHANGED <<packs, server, tracking, local, bugs, main, merger,
                    forwarder, mixed>>
    BY <1>18 DEF vars, refs, memory, pull, ghosts
  <2>2. QED
    BY <1>1, <2>1 DEF Inv, DataOK, KnownChains, Known, StagedIsLoaded,
       NeedCommit, Loaded, Bounds, NoneLoaded, Apart, Pulling, MainTicket,
       MergeUnderWay, SingleCopy, Stale
<1>19. QED
  BY <1>2, <1>3, <1>4, <1>5, <1>6, <1>7, <1>8, <1>9, <1>10, <1>11, <1>12, <1>13,
     <1>14, <1>15, <1>16, <1>17, <1>18 DEF Next, MainThread, Merging

LEMMA InvAlways == Spec => []Inv
<1>1. Inv /\ [Next]_vars => Inv'
  BY InvStep
<1>2. QED
  BY InvInit, <1>1, PTL DEF Spec

(* A loaded ticket is the ticket its ref holds: Bug.Commit, RemoveBug,     *)
(* ResetBug and the merges leave no old copy in RepoCache.bugs, in any     *)
(* session that loads no ticket while a pull runs.                         *)
THEOREM SingleCopyCorrect == Spec => []SingleCopy
<1>1. Inv => SingleCopy
  BY DEF Inv
<1>2. QED
  BY InvAlways, <1>1, PTL

(* No operation ever disappears from a local ticket, however saving,       *)
(* merging, rebasing, pushing and crashing interleave, except by rm and    *)
(* reset, or in a session that loaded a ticket while a pull was running.   *)
THEOREM OperationsKeptCorrect == Spec => OperationsKept
<1>1. Inv /\ [Next]_vars =>
        [ \/ mixed
          \/ \E t \in Tickets : RemoveBug(t) \/ ResetBug(t)
          \/ \A t \in Tickets : PackIds(local[t]) \subseteq PackIds(local'[t])
        ]_vars
  BY InvStep DEF Kept
<1>2. QED
  BY InvAlways, <1>1, PTL DEF Spec, OperationsKept

-----------------------------------------------------------------------------
(* Lists of tickets: what is loaded, oldest first *)

Distinct(s) == \A i, j \in 1 .. Len(s) : s[i] = s[j] => i = j

LruListsLoaded ==
    /\ lru \in Seq(Tickets) /\ Distinct(lru) /\ Len(lru) <= MaxLoaded
    /\ \A t \in Tickets : Loaded(t) <=> \E i \in 1 .. Len(lru) : lru[i] = t

(* The list has one more ticket. *)
Extends(longer, list, x) ==
    /\ Len(longer) = Len(list) + 1
    /\ longer[Len(list) + 1] = x
    /\ \A y : (\E i \in 1 .. Len(longer) : longer[i] = y)
                 <=> y = x \/ \E i \in 1 .. Len(list) : list[i] = y
    /\ Distinct(list) /\ (\A i \in 1 .. Len(list) : list[i] # x)
         => Distinct(longer)

LEMMA AppendList ==
    ASSUME NEW T, NEW list \in Seq(T), NEW x \in T,
           NEW longer, longer = Append(list, x)
    PROVE  longer \in Seq(T) /\ Extends(longer, list, x)
<1>1. /\ longer \in Seq(T) /\ Len(longer) = Len(list) + 1
      /\ Len(list) \in Nat
      /\ \A i \in 1 .. Len(list) : longer[i] = list[i]
      /\ longer[Len(list) + 1] = x
  OBVIOUS
<1>2. \A i : i \in 1 .. Len(longer) <=> i = Len(list) + 1 \/ i \in 1 .. Len(list)
  BY <1>1
<1>3. ASSUME Distinct(list), \A i \in 1 .. Len(list) : list[i] # x,
             NEW i \in 1 .. Len(longer), NEW j \in 1 .. Len(longer),
             longer[i] = longer[j]
      PROVE  i = j
  BY <1>1, <1>2, <1>3 DEF Distinct
<1>4. \A y : (\E i \in 1 .. Len(longer) : longer[i] = y)
               <=> y = x \/ \E i \in 1 .. Len(list) : list[i] = y
  BY <1>1, <1>2
<1>5. QED
  BY <1>1, <1>3, <1>4 DEF Distinct, Extends

(* The table that Among reads off at the end, up to k.                     *)
Table(order, S, k, f) ==
    f = [i \in 0 .. k |->
           IF i = 0 THEN << >>
           ELSE IF order[i] \in S THEN Append(f[i - 1], order[i])
                ELSE f[i - 1]]

LEMMA TableRow ==
    ASSUME NEW order, NEW S, NEW k \in Nat, NEW f, Table(order, S, k, f),
           NEW i \in 1 .. k
    PROVE  f[i] = IF order[i] \in S THEN Append(f[i - 1], order[i])
                  ELSE f[i - 1]
<1>1. PICK h : h = [j \in 0 .. k |->
                      IF j = 0 THEN << >>
                      ELSE IF order[j] \in S THEN Append(f[j - 1], order[j])
                           ELSE f[j - 1]]
  OBVIOUS
<1>2. h[i] = IF order[i] \in S THEN Append(f[i - 1], order[i]) ELSE f[i - 1]
  BY <1>1
<1>3. f = h
  BY <1>1, Zenon DEF Table
<1>4. QED
  BY <1>2, <1>3

(* Among goes through the list from left to right. *)
LEMMA AmongSteps ==
    ASSUME NEW T, NEW order \in Seq(T), NEW S
    PROVE  \E F : /\ F[0] = << >>
                  /\ \A i \in 1 .. Len(order) :
                       F[i] = IF order[i] \in S THEN Append(F[i - 1], order[i])
                              ELSE F[i - 1]
                  /\ Among(order, S) = F[Len(order)]
<1> DEFINE n == Len(order)
           HasTable(k) == \E f : Table(order, S, k, f)
           table == CHOOSE f : Table(order, S, n, f)
<1>1. HasTable(0)
  <2>1. Table(order, S, 0, [i \in 0 .. 0 |-> << >>])
    BY DEF Table
  <2>2. QED
    BY <2>1
<1>2. ASSUME NEW k \in Nat, HasTable(k)
      PROVE  HasTable(k + 1)
  <2>1. PICK f : Table(order, S, k, f)
    BY <1>2
  <2> DEFINE g == [i \in 0 .. k + 1 |->
                     IF i <= k THEN f[i]
                     ELSE IF order[i] \in S THEN Append(f[k], order[i]) ELSE f[k]]
  <2>2. ASSUME NEW i \in 0 .. k + 1
        PROVE  g[i] = IF i = 0 THEN << >>
                      ELSE IF order[i] \in S THEN Append(g[i - 1], order[i])
                           ELSE g[i - 1]
    <3>1. CASE i = 0
      <4>1. 0 \in 0 .. k /\ f[0] = << >>
        BY <2>1 DEF Table
      <4>2. g[0] = f[0]
        BY <4>1
      <4>3. QED
        BY <3>1, <4>1, <4>2
    <3>2. CASE i \in 1 .. k
      <4>1. g[i] = f[i] /\ g[i - 1] = f[i - 1]
        BY <3>2
      <4>2. f[i] = IF order[i] \in S THEN Append(f[i - 1], order[i]) ELSE f[i - 1]
        BY <2>1, <3>2, TableRow
      <4>3. QED
        BY <3>2, <4>1, <4>2
    <3>3. CASE i = k + 1
      <4>1. g[i - 1] = f[k]
        BY <3>3
      <4>2. QED
        BY <3>3, <4>1
    <3>4. QED
      BY <3>1, <3>2, <3>3
  <2>3. Table(order, S, k + 1, g)
    BY <2>2 DEF Table
  <2>4. QED
    BY <2>3
<1>3. HasTable(n)
  <2> HIDE DEF HasTable
  <2> DEFINE B == {k \in Nat : ~ HasTable(k)}
  <2>1. ASSUME B # {}
        PROVE  FALSE
    <3>1. PICK x \in B : \A y \in B : x <= y
      BY <2>1, NatMin
    <3>2. x # 0 /\ x \in Nat
      BY <1>1, <3>1
    <3>3. x - 1 \in Nat /\ x - 1 \notin B
      BY <3>1, <3>2
    <3>4. HasTable(x - 1 + 1)
      BY <1>2, <3>3
    <3>5. QED
      BY <3>1, <3>2, <3>4
  <2>2. n \in Nat
    OBVIOUS
  <2>3. QED
    BY <2>1, <2>2
<1>4. Table(order, S, n, table)
  BY <1>3
<1>5. Among(order, S) = table[n]
  BY DEF Among, Table
<1> HIDE DEF table
<1>6. table[0] = << >>
  BY <1>4 DEF Table
<1>7. ASSUME NEW i \in 1 .. n
      PROVE  table[i] = IF order[i] \in S THEN Append(table[i - 1], order[i])
                        ELSE table[i - 1]
  BY <1>4, TableRow
<1>8. QED
  BY <1>5, <1>6, <1>7

(* What Among returns: the tickets of the list that are in the set, as     *)
(* often as before, and all of the list if all are in the set.             *)
Picks(some, order, S) ==
    /\ Len(some) <= Len(order)
    /\ \A x : (\E j \in 1 .. Len(some) : some[j] = x)
                 <=> x \in S /\ \E i \in 1 .. Len(order) : order[i] = x
    /\ Distinct(order) => Distinct(some)
    /\ (\E i \in 1 .. Len(order) : order[i] \notin S) => Len(some) < Len(order)
    /\ (\A i \in 1 .. Len(order) : order[i] \in S) => some = order

LEMMA AmongProperties ==
    ASSUME NEW T, NEW order \in Seq(T), NEW S,
           NEW some, some = Among(order, S)
    PROVE  some \in Seq(T) /\ Picks(some, order, S)
<1> DEFINE n == Len(order)
<1>1. PICK F : /\ F[0] = << >>
               /\ \A i \in 1 .. n :
                    F[i] = IF order[i] \in S THEN Append(F[i - 1], order[i])
                           ELSE F[i - 1]
               /\ some = F[n]
  BY AmongSteps
<1> DEFINE Good(k) ==
             /\ F[k] \in Seq(T)
             /\ Len(F[k]) <= k
             /\ \A x : (\E j \in 1 .. Len(F[k]) : F[k][j] = x)
                         <=> x \in S /\ \E i \in 1 .. k : order[i] = x
             /\ Distinct(order) => Distinct(F[k])
             /\ (\E i \in 1 .. k : order[i] \notin S) => Len(F[k]) < k
             /\ (\A i \in 1 .. n : order[i] \in S) =>
                  Len(F[k]) = k /\ \A i \in 1 .. k : F[k][i] = order[i]
<1>2. Good(0)
  BY <1>1 DEF Distinct
<1>3. ASSUME NEW k \in 1 .. n, Good(k - 1)
      PROVE  Good(k)
  <2>1. PICK e : e = F[k - 1]
    OBVIOUS
  <2>2. order[k] \in T
    OBVIOUS
  <2>0. /\ e \in Seq(T) /\ Len(e) <= k - 1
        /\ \A x : (\E j \in 1 .. Len(e) : e[j] = x)
                    <=> x \in S /\ \E i \in 1 .. k - 1 : order[i] = x
        /\ Distinct(order) => Distinct(e)
        /\ (\E i \in 1 .. k - 1 : order[i] \notin S) => Len(e) < k - 1
        /\ (\A i \in 1 .. n : order[i] \in S) =>
             Len(e) = k - 1 /\ \A i \in 1 .. k - 1 : e[i] = order[i]
    BY <1>3, <2>1, Zenon
  <2>3. /\ e \in Seq(T) /\ Len(e) <= k - 1 /\ Len(e) \in Nat
        /\ \A x : (\E j \in 1 .. Len(e) : e[j] = x)
                    <=> x \in S /\ \E i \in 1 .. k - 1 : order[i] = x
        /\ Distinct(order) => Distinct(e)
        /\ (\E i \in 1 .. k - 1 : order[i] \notin S) => Len(e) < k - 1
        /\ (\A i \in 1 .. n : order[i] \in S) =>
             Len(e) = k - 1 /\ \A i \in 1 .. k - 1 : e[i] = order[i]
    BY <2>0
  <2>4. CASE order[k] \notin S
    <3>1. F[k] = e
      BY <1>1, <2>1, <2>4
    <3>2. \A x : x \in S => ((\E i \in 1 .. k : order[i] = x)
                               <=> \E i \in 1 .. k - 1 : order[i] = x)
      <4>1. \A i \in 1 .. k : i = k \/ i \in 1 .. k - 1
        OBVIOUS
      <4>2. \A i \in 1 .. k - 1 : i \in 1 .. k
        OBVIOUS
      <4>3. QED
        BY <2>4, <4>1, <4>2
    <3>3. ~ \A i \in 1 .. n : order[i] \in S
      BY <2>4
    <3>4. F[k] \in Seq(T) /\ Len(F[k]) < k
      BY <2>3, <3>1
    <3>5. \A x : (\E j \in 1 .. Len(F[k]) : F[k][j] = x)
                   <=> x \in S /\ \E i \in 1 .. k : order[i] = x
      BY <2>3, <3>1, <3>2
    <3>6. Distinct(order) => Distinct(F[k])
      BY <2>3, <3>1
    <3>7. QED
      BY <3>3, <3>4, <3>5, <3>6
  <2>5. CASE order[k] \in S
    <3>1. F[k] = Append(e, order[k])
      BY <1>1, <2>1, <2>5
    <3>2. /\ F[k] \in Seq(T) /\ Len(F[k]) = Len(e) + 1
          /\ \A i \in 1 .. Len(e) : F[k][i] = e[i]
          /\ F[k][Len(e) + 1] = order[k]
      BY <2>2, <2>3, <3>1
    <3>3. \A x : (\E j \in 1 .. Len(F[k]) : F[k][j] = x)
                   <=> x \in S /\ \E i \in 1 .. k : order[i] = x
      <4>1. \A j \in 1 .. Len(F[k]) : j \in 1 .. Len(e) \/ j = Len(e) + 1
        BY <2>3, <3>2
      <4>2. \A j \in 1 .. Len(e) : j \in 1 .. Len(F[k])
        BY <2>3, <3>2
      <4>3. Len(e) + 1 \in 1 .. Len(F[k])
        BY <2>3, <3>2
      <4>4. \A x : (\E j \in 1 .. Len(F[k]) : F[k][j] = x)
                     <=> x = order[k] \/ \E j \in 1 .. Len(e) : e[j] = x
        BY <3>2, <4>1, <4>2, <4>3
      <4>5. \A i \in 1 .. k : i = k \/ i \in 1 .. k - 1
        OBVIOUS
      <4>6. (\A i \in 1 .. k - 1 : i \in 1 .. k) /\ k \in 1 .. k
        OBVIOUS
      <4>7. \A x : (\E i \in 1 .. k : order[i] = x)
                     <=> x = order[k] \/ \E i \in 1 .. k - 1 : order[i] = x
        BY <4>5, <4>6
      <4>8. QED
        BY <2>3, <2>5, <4>4, <4>7
    <3>4. ASSUME Distinct(order) PROVE Distinct(F[k])
      <4>1. \A j \in 1 .. Len(e) : e[j] # order[k]
        <5>1. ASSUME NEW j \in 1 .. Len(e), e[j] = order[k] PROVE FALSE
          <6>1. PICK i \in 1 .. k - 1 : order[i] = order[k]
            BY <2>3, <5>1
          <6>2. i \in 1 .. n /\ i # k
            OBVIOUS
          <6>3. QED
            BY <3>4, <6>1, <6>2 DEF Distinct
        <5>2. QED
          BY <5>1
      <4>2. Distinct(e)
        BY <2>3, <3>4
      <4>3. SUFFICES ASSUME NEW i \in 1 .. Len(e) + 1, NEW j \in 1 .. Len(e) + 1,
                            F[k][i] = F[k][j]
                     PROVE  i = j
        BY <3>2 DEF Distinct
      <4>4. i \in 1 .. Len(e) \/ i = Len(e) + 1
        BY <2>3
      <4>5. j \in 1 .. Len(e) \/ j = Len(e) + 1
        BY <2>3
      <4>6. QED
        BY <3>2, <4>1, <4>2, <4>3, <4>4, <4>5 DEF Distinct
    <3>5. ASSUME \A i \in 1 .. n : order[i] \in S
          PROVE  Len(F[k]) = k /\ \A i \in 1 .. k : F[k][i] = order[i]
      BY <2>3, <3>2, <3>5
    <3>6. (\E i \in 1 .. k : order[i] \notin S) => Len(F[k]) < k
      <4>1. \A i \in 1 .. k : order[i] \notin S => i \in 1 .. k - 1
        BY <2>5
      <4>2. QED
        BY <2>3, <3>2, <4>1
    <3>7. QED
      BY <2>3, <3>2, <3>3, <3>4, <3>5, <3>6
  <2>6. QED
    BY <2>4, <2>5
<1>4. Good(n)
  <2> HIDE DEF Good
  <2> DEFINE B == {k \in 0 .. n : ~ Good(k)}
  <2>1. ASSUME B # {}
        PROVE  FALSE
    <3>0. B \subseteq Nat
      OBVIOUS
    <3>1. PICK x \in B : \A y \in B : x <= y
      <4> HIDE DEF B
      <4>1. QED
        BY <2>1, <3>0, NatMin
    <3>2. x \in 1 .. n /\ x - 1 \in 0 .. n /\ x - 1 \notin B
      BY <1>2, <3>1
    <3>3. Good(x)
      BY <1>3, <3>2
    <3>4. QED
      BY <3>1, <3>3
  <2>2. n \in 0 .. n
    OBVIOUS
  <2>3. QED
    BY <2>1, <2>2
<1>5. (\A i \in 1 .. n : order[i] \in S) => some = order
  <2>1. ASSUME Len(some) = n, \A i \in 1 .. n : some[i] = order[i]
        PROVE  some = order
    BY <1>1, <1>4, <2>1
  <2>2. QED
    BY <1>1, <1>4, <2>1
<1>6. some \in Seq(T)
  BY <1>1, <1>4
<1>7. QED
  BY <1>1, <1>4, <1>5, <1>6 DEF Picks

(* Used again: the same tickets in another order. *)
LEMMA TouchedList ==
    ASSUME LruListsLoaded, NEW t \in Tickets, Loaded(t),
           NEW order, order = Touched(t)
    PROVE  /\ order \in Seq(Tickets) /\ Distinct(order)
           /\ Len(order) <= MaxLoaded
           /\ \A u \in Tickets : Loaded(u) <=> \E i \in 1 .. Len(order) : order[i] = u
<1>1. PICK rest : rest = Among(lru, Tickets \ {t})
  OBVIOUS
<1>2. /\ lru \in Seq(Tickets) /\ Distinct(lru) /\ Len(lru) <= MaxLoaded
      /\ \A u \in Tickets : Loaded(u) <=> \E i \in 1 .. Len(lru) : lru[i] = u
  BY DEF LruListsLoaded
<1>3. \E i \in 1 .. Len(lru) : lru[i] \notin Tickets \ {t}
  BY <1>2
<1>0. rest \in Seq(Tickets) /\ Picks(rest, lru, Tickets \ {t})
  BY <1>1, <1>2, AmongProperties
<1>4. /\ rest \in Seq(Tickets) /\ Distinct(rest) /\ Len(rest) < Len(lru)
      /\ \A x : (\E j \in 1 .. Len(rest) : rest[j] = x)
                   <=> x \in Tickets \ {t} /\ \E i \in 1 .. Len(lru) : lru[i] = x
  BY <1>0, <1>2, <1>3 DEF Picks
<1>5. order = Append(rest, t)
  BY <1>1 DEF Touched
<1>6. \A i \in 1 .. Len(rest) : rest[i] # t
  BY <1>4
<1>7. order \in Seq(Tickets) /\ Extends(order, rest, t)
  BY <1>4, <1>5, AppendList
<1>8. Len(rest) \in Nat /\ Len(lru) \in Nat
  BY <1>2, <1>4
<1>9. Len(order) <= MaxLoaded
  BY <1>2, <1>4, <1>7, <1>8, CacheConstantsOK DEF Extends
<1>10. \A u : (\E i \in 1 .. Len(order) : order[i] = u)
                <=> u = t \/ \E i \in 1 .. Len(rest) : rest[i] = u
  BY <1>7 DEF Extends
<1>11. Distinct(order)
  BY <1>4, <1>6, <1>7 DEF Extends
<1>12. QED
  BY <1>2, <1>4, <1>7, <1>9, <1>10, <1>11

(* Nothing is staged: eviction takes the oldest ticket if there is one too *)
(* many.                                                                   *)
LEMMA EvictedOldest ==
    ASSUME NEW order \in Seq(Tickets), Len(order) \in 1 .. MaxLoaded + 1,
           NEW loaded, \A t \in Tickets : loaded[t].staged = << >>,
           NEW out, out = Evicted(loaded, order)
    PROVE  out = IF Len(order) <= MaxLoaded THEN {} ELSE {order[1]}
<1>1. PICK idle : idle = Among(order, Idle(loaded))
  OBVIOUS
<1>2. \A i \in 1 .. Len(order) : order[i] \in Idle(loaded)
  BY DEF Idle
<1>3. idle = order
  BY <1>1, <1>2, AmongProperties DEF Picks
<1>4. PICK excess : excess = Max({0, Len(order) - MaxLoaded})
  OBVIOUS
<1>5. out = {idle[i] : i \in {j \in DOMAIN idle : j <= excess}}
  BY <1>1, <1>4 DEF Evicted
<1>6. MaxLoaded \in Nat /\ Len(order) \in Nat
  BY CacheConstantsOK
<1>7. excess = IF Len(order) <= MaxLoaded THEN 0 ELSE 1
  BY <1>4, <1>6 DEF Max
<1>8. DOMAIN idle = 1 .. Len(order)
  BY <1>3
<1>9. CASE Len(order) <= MaxLoaded
  <2>1. {j \in DOMAIN idle : j <= excess} = {}
    BY <1>7, <1>8, <1>9
  <2>2. QED
    BY <1>5, <1>9, <2>1
<1>10. CASE ~ Len(order) <= MaxLoaded
  <2>1. {j \in DOMAIN idle : j <= excess} = {1}
    BY <1>6, <1>7, <1>8, <1>10
  <2>2. QED
    BY <1>3, <1>5, <1>10, <2>1
<1>11. QED
  BY <1>9, <1>10

(* A ticket that was not loaded is loaded while nothing is staged: it stays*)
(* in the cache, which stays within its limit.                             *)
LEMMA LoadList ==
    ASSUME LruListsLoaded, bugs \in [Tickets -> BugCaches],
           \A u \in Tickets : ~ NeedCommit(u),
           NEW t \in Tickets, ~ Loaded(t),
           NEW chain \in Chains, chain # << >>, Load(t, chain)
    PROVE  /\ LruListsLoaded'
           /\ bugs'[t].base = chain /\ bugs'[t].staged = << >>
<1>0. PICK new : new = [base |-> chain, staged |-> << >>]
  OBVIOUS
<1>1. PICK order : order = Append(lru, t)
  OBVIOUS
<1>2. PICK loaded : loaded = [bugs EXCEPT ![t] = new]
  OBVIOUS
<1>3. PICK out : out = Evicted(loaded, order)
  OBVIOUS
<1>4. /\ lru' = Among(order, Tickets \ out)
      /\ bugs' = [u \in Tickets |-> IF u \in out THEN NotLoaded ELSE loaded[u]]
  BY <1>0, <1>1, <1>2, <1>3 DEF Load
<1>5. /\ lru \in Seq(Tickets) /\ Distinct(lru) /\ Len(lru) <= MaxLoaded
      /\ \A u \in Tickets : Loaded(u) <=> \E i \in 1 .. Len(lru) : lru[i] = u
      /\ MaxLoaded \in Nat /\ MaxLoaded >= 1 /\ Len(lru) \in Nat
  BY CacheConstantsOK DEF LruListsLoaded
<1>6. \A i \in 1 .. Len(lru) : lru[i] # t
  BY <1>5
<1>7. /\ order \in Seq(Tickets) /\ Distinct(order)
      /\ Len(order) = Len(lru) + 1 /\ order[Len(lru) + 1] = t
      /\ \A u : (\E i \in 1 .. Len(order) : order[i] = u)
                    <=> u = t \/ \E i \in 1 .. Len(lru) : lru[i] = u
  <2>1. order \in Seq(Tickets) /\ Extends(order, lru, t)
    BY <1>1, <1>5, AppendList
  <2>2. QED
    BY <1>5, <1>6, <2>1 DEF Extends
<1>8. \A u \in Tickets : /\ u # t => loaded[u] = bugs[u]
                         /\ u = t => loaded[u] = new
  BY <1>2
<1>9. \A u \in Tickets : loaded[u].staged = << >>
  <2>1. \A u \in Tickets : bugs[u].staged = << >>
    BY DEF NeedCommit
  <2>2. new.staged = << >>
    BY <1>0
  <2>3. QED
    BY <1>8, <2>1, <2>2
<1>10. out = IF Len(order) <= MaxLoaded THEN {} ELSE {order[1]}
  <2>1. Len(order) \in 1 .. MaxLoaded + 1
    BY <1>5, <1>7
  <2>2. QED
    BY <1>3, <1>7, <1>9, <2>1, EvictedOldest
<1>11. t \notin out
  <2>1. ASSUME t \in out PROVE FALSE
    <3>1. Len(order) > MaxLoaded /\ order[1] = t
      BY <1>5, <1>7, <1>10, <2>1
    <3>2. 1 \in 1 .. Len(order) /\ Len(lru) + 1 \in 1 .. Len(order)
      BY <1>5, <1>7
    <3>3. 1 = Len(lru) + 1
      BY <1>7, <3>1, <3>2 DEF Distinct
    <3>4. QED
      BY <1>5, <1>7, <3>1, <3>3
  <2>2. QED
    BY <2>1
<1>12. bugs'[t] = new
  BY <1>4, <1>8, <1>11
<1>13. PICK list : list = lru'
  OBVIOUS
<1>14. /\ list \in Seq(Tickets) /\ Distinct(list)
       /\ Len(list) <= Len(order)
       /\ \A x : (\E j \in 1 .. Len(list) : list[j] = x)
                    <=> x \in Tickets \ out /\ \E i \in 1 .. Len(order) : order[i] = x
       /\ (\E i \in 1 .. Len(order) : order[i] \notin Tickets \ out)
            => Len(list) < Len(order)
  <2>1. list \in Seq(Tickets) /\ Picks(list, order, Tickets \ out)
    BY <1>4, <1>7, <1>13, AmongProperties
  <2>2. QED
    BY <1>7, <2>1 DEF Picks
<1>15. Len(list) <= MaxLoaded
  <2>1. CASE Len(order) <= MaxLoaded
    BY <1>5, <1>7, <1>14, <2>1
  <2>2. CASE Len(order) = MaxLoaded + 1
    <3>1. 1 \in 1 .. Len(order) /\ order[1] \notin Tickets \ out
      BY <1>5, <1>10, <2>2
    <3>2. Len(list) < Len(order)
      BY <1>14, <3>1
    <3>3. QED
      BY <1>5, <1>14, <2>2, <3>2
  <2>3. QED
    BY <1>5, <1>7, <2>1, <2>2
<1>16. ASSUME NEW u \in Tickets
       PROVE  bugs'[u].base # << >> <=> \E j \in 1 .. Len(list) : list[j] = u
  <2>1. CASE u \in out
    BY <1>4, <1>14, <2>1 DEF NotLoaded
  <2>2. CASE u = t
    <3>1. \E j \in 1 .. Len(list) : list[j] = u
      BY <1>7, <1>11, <1>14, <2>2
    <3>2. QED
      BY <1>0, <1>12, <2>2, <3>1
  <2>3. CASE u \notin out /\ u # t
    <3>1. bugs'[u] = bugs[u]
      BY <1>4, <1>8, <2>3
    <3>2. QED
      BY <1>5, <1>7, <1>14, <2>3, <3>1 DEF Loaded
  <2>4. QED
    BY <2>1, <2>2, <2>3
<1>17. QED
  BY <1>0, <1>12, <1>13, <1>14, <1>15, <1>16 DEF LruListsLoaded, Loaded

-----------------------------------------------------------------------------
(* What is loaded *)

(* Operations are staged in the ticket of the window, or in the one whose  *)
(* commit was refused.                                                     *)
EditInView ==
    \A t \in Tickets : NeedCommit(t) =>
        \/ main.at = "end"
        \/ main.t = t /\ main.at \in {"show", "notify", "write"}

(* The ticket the main thread works with stays loaded. *)
ViewIsLoaded ==
    main.at \in {"show", "notify", "saved", "reset", "write", "writeBack"} =>
        main.t \in Tickets /\ Loaded(main.t)

LoadedOK == LruListsLoaded /\ EditInView /\ ViewIsLoaded

(* Neither the cache nor the window changes. *)
LEMMA SameLoaded ==
    ASSUME LoadedOK, UNCHANGED <<bugs, lru, main>>
    PROVE  LoadedOK'
BY DEF LoadedOK, LruListsLoaded, EditInView, ViewIsLoaded, Loaded, NeedCommit

(* The window changes, nothing is staged. *)
LEMMA OtherWindow ==
    ASSUME LoadedOK, UNCHANGED <<bugs, lru>>,
           \/ \A t \in Tickets : ~ NeedCommit(t)
           \/ main'.at = "end",
           main'.at \notin {"show", "notify", "saved", "reset", "write", "writeBack"}
    PROVE  LoadedOK'
BY DEF LoadedOK, LruListsLoaded, EditInView, ViewIsLoaded, Loaded, NeedCommit

(* The process or its cache is gone. *)
LEMMA ForgetLoaded ==
    ASSUME Forget, main'.at \in {"off", "closed"}
    PROVE  LoadedOK'
<1>1. bugs' = [t \in Tickets |-> NotLoaded] /\ lru' = << >>
  BY DEF Forget
<1>2. \A t \in Tickets : ~ Loaded(t)' /\ ~ NeedCommit(t)'
  BY <1>1 DEF Loaded, NeedCommit, NotLoaded
<1>3. LruListsLoaded'
  BY <1>1, <1>2, CacheConstantsOK DEF LruListsLoaded, Distinct
<1>4. EditInView'
  BY <1>2 DEF EditInView
<1>5. ViewIsLoaded'
  BY DEF ViewIsLoaded
<1>6. QED
  BY <1>3, <1>4, <1>5 DEF LoadedOK

(* A ticket becomes the newest one. *)
LEMMA TouchLoaded ==
    ASSUME LoadedOK, NEW t \in Tickets, Loaded(t), lru' = Touched(t), bugs' = bugs
    PROVE  LruListsLoaded'
<1>1. PICK order : order = Touched(t)
  OBVIOUS
<1>2. /\ order \in Seq(Tickets) /\ Distinct(order) /\ Len(order) <= MaxLoaded
      /\ \A u \in Tickets : Loaded(u) <=> \E i \in 1 .. Len(order) : order[i] = u
  BY <1>1, TouchedList DEF LoadedOK
<1>3. lru' = order
  BY <1>1
<1>4. QED
  BY <1>2, <1>3 DEF LruListsLoaded, Loaded

(* A ticket is loaded, and shown. *)
LEMMA LoadLoaded ==
    ASSUME LoadedOK, Inv, NEW t \in Tickets, ~ Loaded(t), NEW chain \in Chains,
           chain # << >>, Load(t, chain),
           main.at \in {"opened", "table"}, main'.t = t
    PROVE  LoadedOK' /\ Loaded(t)'
<1>1. \A u \in Tickets : ~ NeedCommit(u)
  BY DEF LoadedOK, EditInView
<1>2. bugs \in [Tickets -> BugCaches]
  BY DEF Inv, DataOK
<1>3. LruListsLoaded' /\ Loaded(t)'
  BY <1>1, <1>2, LoadList DEF LoadedOK, Loaded
<1>4. \A u \in Tickets : bugs'[u].staged = << >>
  <2>1. \A u \in Tickets :
           \/ bugs'[u] = NotLoaded
           \/ u # t /\ bugs'[u] = bugs[u]
           \/ u = t /\ bugs'[u] = [base |-> chain, staged |-> << >>]
    BY <1>2, LoadEffect
  <2>2. QED
    BY <1>1, <2>1 DEF NotLoaded, NeedCommit
<1>5. EditInView'
  BY <1>4 DEF EditInView, NeedCommit
<1>6. ViewIsLoaded'
  BY <1>3 DEF ViewIsLoaded
<1>7. QED
  BY <1>3, <1>5, <1>6 DEF LoadedOK

(* A new ticket is in no ref and not loaded. *)
LEMMA NewIsNew ==
    ASSUME Inv, NEW t \in Tickets, NewBug(t)
    PROVE  \E chain \in Chains :
             /\ chain # << >> /\ local[t] = << >> /\ bugs[t].base = << >>
             /\ local' = [local EXCEPT ![t] = chain]
             /\ Load(t, chain)
<1>1. PICK chain : chain = <<[pack |-> Len(packs) + 1, by |-> Us]>>
  OBVIOUS
<1>2. /\ local' = [local EXCEPT ![t] = chain]
      /\ Load(t, local'[t])
      /\ \A i \in DOMAIN packs : packs[i].ticket # t
  BY <1>1 DEF NewBug
<1>3. /\ packs \in Seq(Packs) /\ local \in [Tickets -> Chains]
      /\ Known(t, local[t]) /\ Known(t, bugs[t].base)
  BY DEF Inv, DataOK, KnownChains
<1>4. chain \in Chains /\ chain # << >>
  <2>1. [pack |-> Len(packs) + 1, by |-> Us] \in Commits
    BY <1>3 DEF Commits
  <2>2. QED
    BY <1>1, <2>1 DEF Chains
<1>5. local[t] = << >> /\ bugs[t].base = << >>
  <2>1. DOMAIN packs = 1 .. Len(packs)
    BY <1>3
  <2>2. QED
    BY <1>2, <1>3, <2>1 DEF Known
<1>6. local'[t] = chain
  BY <1>2, <1>3
<1>7. QED
  BY <1>2, <1>4, <1>5, <1>6

LEMMA OpenLoaded ==
    ASSUME LoadedOK, Inv, NEW t \in Tickets, OpenBug(t) \/ NewBug(t)
    PROVE  LoadedOK'
<1>1. /\ main.at \in {"opened", "table"} /\ main'.t = t
      /\ \A u \in Tickets : ~ NeedCommit(u)
  <2>1. main.at \in {"opened", "table"}
    BY DEF OpenBug, NewBug, Ready
  <2>2. main'.t = t
    <3>1. CASE OpenBug(t)
      BY <3>1 DEF OpenBug, Goto
    <3>2. CASE NewBug(t)
      BY <3>2 DEF NewBug, Goto
    <3>3. QED
      BY <3>1, <3>2
  <2>3. QED
    BY <2>1, <2>2 DEF LoadedOK, EditInView
<1>2. CASE OpenBug(t) /\ Loaded(t)
  <2>1. lru' = Touched(t) /\ bugs' = bugs
    BY <1>2 DEF OpenBug
  <2>2. LruListsLoaded'
    BY <1>2, <2>1, TouchLoaded
  <2>3. EditInView' /\ ViewIsLoaded'
    BY <1>1, <1>2, <2>1 DEF EditInView, ViewIsLoaded, NeedCommit, Loaded
  <2>4. QED
    BY <2>2, <2>3 DEF LoadedOK
<1>3. CASE OpenBug(t) /\ ~ Loaded(t)
  <2>1. local[t] # << >> /\ Load(t, local[t])
    BY <1>3 DEF OpenBug
  <2>2. local[t] \in Chains
    BY DEF Inv, DataOK
  <2>3. QED
    BY <1>1, <1>3, <2>1, <2>2, LoadLoaded
<1>4. CASE NewBug(t)
  <2>1. PICK chain \in Chains :
             chain # << >> /\ bugs[t].base = << >> /\ Load(t, chain)
    BY <1>4, NewIsNew
  <2>2. ~ Loaded(t)
    BY <2>1 DEF Loaded
  <2>3. QED
    BY <1>1, <2>1, <2>2, LoadLoaded
<1>5. QED
  BY <1>2, <1>3, <1>4

LEMMA EditLoaded ==
    ASSUME LoadedOK, Inv, (\E status \in BOOLEAN : Stage(status)) \/ SaveAndBack
    PROVE  LoadedOK'
<1>1. PICK t : t = main.t
  OBVIOUS
<1>2. /\ t \in Tickets /\ Loaded(t) /\ main.at = "show" /\ lru' = lru
      /\ bugs \in [Tickets -> BugCaches]
      /\ \A u \in Tickets : NeedCommit(u) => u = t
  BY <1>1 DEF LoadedOK, ViewIsLoaded, EditInView, Stage, SaveAndBack, Inv, DataOK
<1>3. CASE \E status \in BOOLEAN : Stage(status)
  <2>1. /\ bugs' = [bugs EXCEPT ![t].staged = <<Len(packs) + 1>>]
        /\ main' = [at |-> "notify", t |-> t]
    BY <1>1, <1>3 DEF Stage, Goto
  <2>2. /\ \A u \in Tickets : bugs'[u].base = bugs[u].base
        /\ \A u \in Tickets : u # t => bugs'[u].staged = bugs[u].staged
    BY <1>2, <2>1 DEF BugCaches
  <2>3. LruListsLoaded'
    BY <1>2, <2>2 DEF LoadedOK, LruListsLoaded, Loaded
  <2>4. EditInView'
    BY <1>2, <2>1, <2>2 DEF EditInView, NeedCommit
  <2>5. ViewIsLoaded'
    BY <1>2, <2>1, <2>2 DEF ViewIsLoaded, Loaded
  <2>6. QED
    BY <2>3, <2>4, <2>5 DEF LoadedOK
<1>4. CASE SaveAndBack
  <2>1. main' = [at |-> "saved", t |-> t]
    BY <1>1, <1>4 DEF SaveAndBack, Goto
  <2>2. /\ \A u \in Tickets : bugs'[u].base # << >> <=> bugs[u].base # << >>
        /\ \A u \in Tickets : bugs'[u].staged = << >>
    <3>1. CASE ~ NeedCommit(t)
      BY <1>1, <1>2, <1>4, <3>1 DEF SaveAndBack, NeedCommit
    <3>2. CASE NeedCommit(t)
      <4>1. PICK chain : chain = Append(bugs[t].base, [pack |-> bugs[t].staged[1], by |-> Us])
        OBVIOUS
      <4>2. PICK saved : saved = [base |-> chain, staged |-> << >>]
        OBVIOUS
      <4>3. bugs' = [bugs EXCEPT ![t] = saved]
        BY <1>1, <1>4, <3>2, <4>1, <4>2 DEF SaveAndBack, Commit
      <4>4. bugs[t].base \in Chains /\ bugs[t].base # << >>
        BY <1>2 DEF BugCaches, Loaded
      <4>5. chain # << >>
        BY <4>1, <4>4 DEF Chains
      <4>6. saved.base = chain /\ saved.staged = << >>
        BY <4>2
      <4>7. \A u \in Tickets : bugs'[u] = IF u = t THEN saved ELSE bugs[u]
        BY <1>2, <4>3
      <4>8. QED
        BY <1>2, <4>4, <4>5, <4>6, <4>7 DEF NeedCommit
    <3>3. QED
      BY <3>1, <3>2
  <2>3. LruListsLoaded'
    BY <1>2, <2>2 DEF LoadedOK, LruListsLoaded, Loaded
  <2>4. EditInView'
    BY <2>2 DEF EditInView, NeedCommit
  <2>5. ViewIsLoaded'
    BY <1>2, <2>1, <2>2 DEF ViewIsLoaded, Loaded
  <2>6. QED
    BY <2>3, <2>4, <2>5 DEF LoadedOK
<1>5. QED
  BY <1>3, <1>4

LEMMA NotifyLoaded ==
    ASSUME LoadedOK, Notify \/ Write
    PROVE  LoadedOK'
<1>1. CASE Notify
  <2>1. /\ main.at \in {"notify", "saved"} /\ main'.t = main.t
        /\ main'.at = (IF main.at = "notify" THEN "write" ELSE "writeBack")
        /\ lru' = Touched(main.t) /\ bugs' = bugs
    BY <1>1 DEF Notify, Goto
  <2>2. main.t \in Tickets /\ Loaded(main.t)
    BY <2>1 DEF LoadedOK, ViewIsLoaded
  <2>3. LruListsLoaded'
    BY <2>1, <2>2, TouchLoaded
  <2>4. EditInView' /\ ViewIsLoaded'
    BY <2>1, <2>2 DEF LoadedOK, EditInView, ViewIsLoaded, NeedCommit, Loaded
  <2>5. QED
    BY <2>3, <2>4 DEF LoadedOK
<1>2. CASE Write
  <2>1. /\ UNCHANGED <<bugs, lru>> /\ main.at \in {"write", "writeBack", "writeEnd"}
        /\ main.at = "write" => main'.at = "show" /\ main'.t = main.t
        /\ main.at # "write" => main'.at \in {"table", "end"}
    <3>1. CASE main.at = "write"
      BY <1>2, <3>1 DEF Write, Goto, memory
    <3>2. CASE main.at = "writeBack"
      BY <1>2, <3>2 DEF Write, Goto, memory
    <3>3. CASE main.at = "writeEnd"
      BY <1>2, <3>3 DEF Write, Goto, memory
    <3>4. QED
      BY <1>2, <3>1, <3>2, <3>3 DEF Write
  <2>2. CASE main.at = "write"
    BY <2>1, <2>2 DEF LoadedOK, LruListsLoaded, EditInView, ViewIsLoaded,
                      NeedCommit, Loaded
  <2>3. CASE main.at # "write"
    <3>1. \A t \in Tickets : ~ NeedCommit(t)
      BY <2>1, <2>3 DEF LoadedOK, EditInView
    <3>2. QED
      BY <2>1, <2>3, <3>1, OtherWindow
  <2>4. QED
    BY <2>2, <2>3
<1>3. QED
  BY <1>1, <1>2

LEMMA CommandLoaded ==
    ASSUME LoadedOK, Inv,
           \/ \E t \in Tickets : RemoveBug(t) \/ ResetBug(t)
           \/ DropExcerpt \/ ReadReset \/ RefreshCache
    PROVE  LoadedOK'
<1>1. main.at \in {"opened", "removed", "reset"}
  BY DEF RemoveBug, ResetBug, DropExcerpt, ReadReset, RefreshCache
<1>2. \A t \in Tickets : ~ NeedCommit(t)
  BY <1>1 DEF LoadedOK, EditInView
<1>3. ASSUME NEW t \in Tickets, ResetBug(t)
      PROVE  LoadedOK'
  <2>1. PICK chain : chain = IF NothingBetween(tracking[t], local[t])
                             THEN local[t] ELSE tracking[t]
    OBVIOUS
  <2>2. /\ local' = [local EXCEPT ![t] = chain]
        /\ Load(t, local'[t])
        /\ main.at = "opened" /\ main'.t = t
        /\ local[t] # << >> /\ tracking[t] # << >>
    BY <1>3, <2>1 DEF ResetBug, Goto
  <2>3. local \in [Tickets -> Chains] /\ tracking \in [Tickets -> Chains]
    BY DEF Inv, DataOK
  <2>4. chain \in Chains /\ chain # << >> /\ local'[t] = chain
    BY <2>1, <2>2, <2>3
  <2>5. ~ Loaded(t)
    BY <2>2 DEF Inv, Bounds, NoneLoaded
  <2>6. QED
    BY <2>2, <2>4, <2>5, LoadLoaded
<1>4. CASE \/ \E t \in Tickets : RemoveBug(t)
           \/ DropExcerpt \/ ReadReset \/ RefreshCache
  <2>1. UNCHANGED <<bugs, lru>> /\ main'.at \in {"removed", "writeEnd"}
    BY <1>4 DEF RemoveBug, DropExcerpt, ReadReset, RefreshCache, memory, Goto
  <2>2. QED
    BY <1>2, <2>1, OtherWindow
<1>5. QED
  BY <1>3, <1>4

LEMMA LoadedStep ==
    ASSUME LoadedOK, Inv, [Next]_vars
    PROVE  LoadedOK'
<1>1. CASE \/ \E t \in Tickets, status \in BOOLEAN : PushedByOthers(t, status)
           \/ \E t \in Tickets : PushedElsewhere(t)
           \/ \E t \in Tickets : MergeSkip(t) \/ MergeRead(t)
           \/ MergeWrite \/ Forward \/ Consume \/ UpdateExcerpt \/ EndMerge
           \/ WriteMerged \/ Push \/ UNCHANGED vars
  <2>1. UNCHANGED <<bugs, lru, main>>
    BY <1>1 DEF PushedByOthers, PushedElsewhere, MergeSkip, MergeRead, MergeWrite,
                Forward, Consume, UpdateExcerpt, EndMerge, WriteMerged, Push,
                memory, vars
  <2>2. QED
    BY <2>1, SameLoaded
<1>2. CASE Close \/ Crash \/ ConsumeInvalid \/ UpdateClosed
  <2>1. Forget /\ main'.at \in {"off", "closed"}
    BY <1>2 DEF Close, Crash, ConsumeInvalid, UpdateClosed, Die, Goto, Quiet
  <2>2. QED
    BY <2>1, ForgetLoaded
<1>3. CASE \/ \E rebuild \in BOOLEAN : Start(rebuild)
           \/ Exit
           \/ \E t \in Tickets : OpenMissing(t)
           \/ \E fetched \in BOOLEAN : StartPull(fetched)
           \/ SaveInvalid
  <2>1. /\ UNCHANGED <<bugs, lru>>
        /\ main'.at \in {"opened", "off", "end", "table"}
        /\ main'.at = "end" \/ main.at \in {"off", "closed", "opened", "table"}
    BY <1>3 DEF Start, Exit, OpenMissing, StartPull, SaveInvalid, memory, Goto,
                Quiet, Ready
  <2>2. main.at \in {"off", "closed", "opened", "table"} =>
            \A t \in Tickets : ~ NeedCommit(t)
    BY DEF LoadedOK, EditInView
  <2>3. QED
    BY <2>1, <2>2, OtherWindow
<1>4. CASE \E t \in Tickets : OpenBug(t) \/ NewBug(t)
  BY <1>4, OpenLoaded
<1>5. CASE (\E status \in BOOLEAN : Stage(status)) \/ SaveAndBack
  BY <1>5, EditLoaded
<1>6. CASE Notify \/ Write
  BY <1>6, NotifyLoaded
<1>7. CASE \/ \E t \in Tickets : RemoveBug(t) \/ ResetBug(t)
           \/ DropExcerpt \/ ReadReset \/ RefreshCache
  BY <1>7, CommandLoaded
<1>8. QED
  BY <1>1, <1>2, <1>3, <1>4, <1>5, <1>6, <1>7 DEF Next, MainThread, Merging

LEMMA LoadedAlways == Spec => [](Inv /\ LoadedOK)
<1>1. Init => LoadedOK
  <2> SUFFICES ASSUME Init PROVE LoadedOK
    OBVIOUS
  <2>1. \A t \in Tickets : ~ Loaded(t) /\ ~ NeedCommit(t)
    BY DEF Init, Loaded, NeedCommit, NotLoaded
  <2>2. LruListsLoaded
    BY <2>1, CacheConstantsOK DEF Init, LruListsLoaded, Distinct
  <2>3. QED
    BY <2>1, <2>2 DEF Init, Quiet, LoadedOK, EditInView, ViewIsLoaded
<1>2. Inv /\ LoadedOK /\ [Next]_vars => LoadedOK'
  BY LoadedStep
<1>3. QED
  BY <1>1, <1>2, InvAlways, PTL DEF Spec

(* The ticket in the window, or being written, is never evicted by         *)
(* evictIfNeeded, for any size of the cache.                               *)
THEOREM ShownCorrect == Spec => []ShownIsLoaded
<1>1. LoadedOK => ShownIsLoaded
  BY DEF LoadedOK, ViewIsLoaded, ShownIsLoaded
<1>2. QED
  BY LoadedAlways, <1>1, PTL

(* A list without repetitions has as many tickets as it is long. *)
LEMMA ListSize ==
    ASSUME NEW T, NEW list \in Seq(T), Distinct(list),
           NEW S, \A x : x \in S <=> \E i \in 1 .. Len(list) : list[i] = x
    PROVE  Cardinality(S) = Len(list)
<1>1. \A i \in 1 .. Len(list) : list[i] \in S
  OBVIOUS
<1>2. list \in [1 .. Len(list) -> S]
  BY <1>1
<1>3. list \in Bijection(1 .. Len(list), S)
  BY <1>2 DEF Bijection, Injection, Surjection, Distinct, IsInjective
<1>4. ExistsBijection(1 .. Len(list), S)
  BY <1>3 DEF ExistsBijection
<1>5. Len(list) \in Nat
  OBVIOUS
<1>6. QED
  BY <1>4, <1>5, FS_CountingElements

(* The cache never keeps more tickets than defaultMaxLoadedBugs: with one  *)
(* edit at a time, evictIfNeeded always finds one to let go.               *)
THEOREM LimitCorrect == Spec => []WithinLimit
<1>1. LoadedOK => WithinLimit
  <2> SUFFICES ASSUME LoadedOK PROVE WithinLimit
    OBVIOUS
  <2>1. PICK S : S = {t \in Tickets : Loaded(t)}
    OBVIOUS
  <2>2. /\ lru \in Seq(Tickets) /\ Distinct(lru) /\ Len(lru) <= MaxLoaded
        /\ \A t \in Tickets : Loaded(t) <=> \E i \in 1 .. Len(lru) : lru[i] = t
    BY DEF LoadedOK, LruListsLoaded
  <2>3. \A x : x \in S <=> \E i \in 1 .. Len(lru) : lru[i] = x
    <3>1. \A i \in 1 .. Len(lru) : lru[i] \in Tickets
      BY <2>2
    <3>2. QED
      BY <2>1, <2>2, <3>1
  <2>4. Cardinality(S) = Len(lru)
    BY <2>2, <2>3, ListSize
  <2>5. QED
    BY <2>1, <2>2, <2>4 DEF WithinLimit
<1>2. QED
  BY LoadedAlways, <1>1, PTL

-----------------------------------------------------------------------------
(* The goroutines of a pull, and the types *)

Results == {"invalid", "conflict", "new", "updated"}
Accepted(goroutine) == goroutine.result \notin Refused

MergerTyped ==
    \/ merger = Quiet
    \/ merger \in [at : {"next"}, todo : SUBSET Tickets]
    \/ merger \in [at : {"merge", "send"}, todo : SUBSET Tickets, t : Tickets,
                   result : Results, chain : Chains]

ForwarderTyped ==
    \/ forwarder \in [at : {"off", "receive", "write"}, t : {None}]
    \/ forwarder \in [at : {"send", "update"}, t : Tickets, result : Results,
                      content : Seq(Nat)]

(* The merger has only tickets the remote has; every ticket is in one place*)
(* only: still to do, with the merger, or with the forwarder.              *)
PullOK ==
    /\ MergerTyped /\ ForwarderTyped
    /\ merger.at = "off" <=> forwarder.at \in {"off", "write"}
    /\ merger.at # "off" => \A t \in merger.todo : tracking[t] # << >>
    /\ merger.at \in {"merge", "send"} =>
         /\ merger.t \notin merger.todo /\ merger.chain # << >>
         /\ merger.at = "merge" => Accepted(merger)
    /\ forwarder.at \in {"send", "update"} =>
         /\ forwarder.t \notin merger.todo /\ forwarder.content # << >>
         /\ merger.at \in {"merge", "send"} => merger.t # forwarder.t
         /\ forwarder.at = "update" => Accepted(forwarder)

LEMMA MergerAt ==
    ASSUME MergerTyped
    PROVE  /\ merger.at \in {"off", "next", "merge", "send"}
           /\ merger.at = "off" => merger = Quiet
           /\ merger.at = "next" => merger \in [at : {"next"}, todo : SUBSET Tickets]
           /\ merger.at \in {"merge", "send"} =>
                merger \in [at : {"merge", "send"}, todo : SUBSET Tickets,
                            t : Tickets, result : Results, chain : Chains]
<1>1. CASE merger = Quiet
  BY <1>1 DEF Quiet
<1>2. CASE merger \in [at : {"next"}, todo : SUBSET Tickets]
  BY <1>2
<1>3. CASE merger \in [at : {"merge", "send"}, todo : SUBSET Tickets, t : Tickets,
                       result : Results, chain : Chains]
  BY <1>3
<1>4. QED
  BY <1>1, <1>2, <1>3 DEF MergerTyped

LEMMA ForwarderAt ==
    ASSUME ForwarderTyped
    PROVE  /\ forwarder.at \in {"off", "receive", "send", "update", "write"}
           /\ forwarder.at \in {"send", "update"} =>
                forwarder \in [at : {"send", "update"}, t : Tickets,
                               result : Results, content : Seq(Nat)]
<1>1. CASE forwarder \in [at : {"off", "receive", "write"}, t : {None}]
  BY <1>1
<1>2. CASE forwarder \in [at : {"send", "update"}, t : Tickets, result : Results,
                          content : Seq(Nat)]
  BY <1>2
<1>3. QED
  BY <1>1, <1>2 DEF ForwarderTyped

LEMMA ContentsType ==
    ASSUME NEW chain \in Chains
    PROVE  /\ Contents(chain) \in Seq(Nat)
           /\ chain # << >> => Contents(chain) # << >>
           /\ chain = << >> => Contents(chain) = << >>
<1>1. chain \in Seq(Commits)
  BY DEF Chains
<1>2. DOMAIN chain = 1 .. Len(chain) /\ Len(chain) \in Nat
  BY <1>1
<1>3. ASSUME NEW i \in 1 .. Len(chain)
      PROVE  chain[i].pack \in Nat
  <2>1. chain[i] \in Commits
    BY <1>1
  <2>2. QED
    BY <2>1 DEF Commits
<1>4. Contents(chain) = [i \in 1 .. Len(chain) |-> chain[i].pack]
  BY <1>2 DEF Contents
<1>5. Contents(chain) \in Seq(Nat) /\ Len(Contents(chain)) = Len(chain)
  BY <1>2, <1>3, <1>4
<1>6. QED
  BY <1>1, <1>5

(* The pull and the tracking refs stay as they are. *)
LEMMA SamePull ==
    ASSUME PullOK, UNCHANGED <<merger, forwarder>>,
           \A t \in Tickets : tracking[t] # << >> => tracking'[t] # << >>
    PROVE  PullOK'
<1>1. MergerTyped' /\ ForwarderTyped'
  BY DEF PullOK, MergerTyped, ForwarderTyped
<1>2. merger.at # "off" => merger.todo \subseteq Tickets
  BY MergerAt DEF PullOK
<1>3. QED
  BY <1>1, <1>2 DEF PullOK, Accepted

LEMMA NoPull ==
    ASSUME merger' = Quiet, forwarder' = Quiet
    PROVE  PullOK'
<1>1. MergerTyped' /\ ForwarderTyped'
  BY DEF MergerTyped, ForwarderTyped, Quiet
<1>2. merger'.at = "off" /\ forwarder'.at = "off"
  BY DEF Quiet
<1>3. QED
  BY <1>1, <1>2 DEF PullOK

LEMMA StartPullOK ==
    ASSUME NEW fetched \in BOOLEAN, StartPull(fetched)
    PROVE  PullOK'
<1>1. /\ merger' = [at |-> "next", todo |-> {t \in Tickets : tracking'[t] # << >>}]
      /\ forwarder' = [at |-> "receive", t |-> None]
  BY DEF StartPull
<1>2. MergerTyped' /\ ForwarderTyped'
  BY <1>1 DEF MergerTyped, ForwarderTyped
<1>3. /\ merger'.at = "next" /\ forwarder'.at = "receive"
      /\ \A t \in merger'.todo : tracking'[t] # << >>
  BY <1>1
<1>4. QED
  BY <1>2, <1>3 DEF PullOK

LEMMA SkipOK ==
    ASSUME PullOK, NEW t \in Tickets, MergeSkip(t)
    PROVE  PullOK'
<1>1. /\ merger.at = "next" /\ merger' = [merger EXCEPT !.todo = @ \ {t}]
      /\ UNCHANGED <<forwarder, tracking>>
  BY DEF MergeSkip, refs
<1>2. merger \in [at : {"next"}, todo : SUBSET Tickets]
  BY <1>1, MergerAt DEF PullOK
<1>3. /\ merger' \in [at : {"next"}, todo : SUBSET Tickets]
      /\ merger'.at = "next" /\ merger'.todo = merger.todo \ {t}
  BY <1>1, <1>2
<1>4. MergerTyped' /\ ForwarderTyped'
  BY <1>1, <1>3 DEF PullOK, MergerTyped, ForwarderTyped
<1>5. QED
  BY <1>1, <1>3, <1>4 DEF PullOK, Accepted

LEMMA ReadOK ==
    ASSUME Inv, PullOK, NEW t \in Tickets, MergeRead(t)
    PROVE  PullOK'
<1>1. PICK result : result = Result(local[t], tracking[t])
  OBVIOUS
<1>2. PICK chain : chain = IF result = "updated"
                           THEN Rebase(local[t], tracking[t], Us)
                           ELSE tracking[t]
  OBVIOUS
<1>3. /\ UNCHANGED <<tracking, forwarder>>
      /\ merger.at = "next" /\ t \in merger.todo
      /\ merger' = [at |-> IF result \in Refused THEN "send" ELSE "merge",
                    todo |-> IF result = "conflict" THEN {} ELSE merger.todo \ {t},
                    t |-> t, result |-> result, chain |-> chain]
  BY <1>1, <1>2 DEF MergeRead, refs
<1>4. merger \in [at : {"next"}, todo : SUBSET Tickets]
  BY <1>3, MergerAt DEF PullOK
<1>5. result \in Results /\ (result = "updated" => local[t] # << >>)
  BY <1>1 DEF Result, Results
<1>6. local[t] \in Chains /\ tracking[t] \in Chains /\ tracking[t] # << >>
  BY <1>3 DEF Inv, DataOK, PullOK
<1>7. PICK rebased : rebased = Rebase(local[t], tracking[t], Us)
  OBVIOUS
<1>8. /\ rebased \in Chains
      /\ PackIds(rebased) = PackIds(local[t]) \cup PackIds(tracking[t])
  BY <1>6, <1>7, OurCommits, RebasePackIds DEF Chains
<1>9. rebased # << >>
  <2>1. tracking[t][1].pack \in PackIds(tracking[t])
    <3>1. 1 \in DOMAIN tracking[t]
      BY <1>6 DEF Chains
    <3>2. QED
      BY <3>1 DEF PackIds
  <2>2. PackIds(<< >>) = {}
    BY DEF PackIds
  <2>3. QED
    BY <1>8, <2>1, <2>2
<1>10. chain \in Chains /\ chain # << >>
  BY <1>2, <1>6, <1>7, <1>8, <1>9
<1>11. PICK todo : todo = IF result = "conflict" THEN {} ELSE merger.todo \ {t}
  OBVIOUS
<1>12. todo \in SUBSET Tickets /\ todo \subseteq merger.todo /\ t \notin todo
  BY <1>4, <1>11
<1>13. /\ merger'.at \in {"merge", "send"}
       /\ merger'.at = "merge" => result \notin Refused
       /\ merger'.todo = todo /\ merger'.t = t /\ merger'.result = result
       /\ merger'.chain = chain
       /\ merger' \in [at : {"merge", "send"}, todo : SUBSET Tickets, t : Tickets,
                       result : Results, chain : Chains]
  BY <1>3, <1>5, <1>10, <1>11, <1>12
<1>14. MergerTyped' /\ ForwarderTyped'
  BY <1>3, <1>13 DEF PullOK, MergerTyped, ForwarderTyped
<1>15. forwarder.at \in {"send", "update"} => forwarder.t # t
  BY <1>3 DEF PullOK
<1>16. QED
  BY <1>3, <1>10, <1>12, <1>13, <1>14, <1>15 DEF PullOK, Accepted

LEMMA WriteOK ==
    ASSUME PullOK, MergeWrite
    PROVE  PullOK'
<1>1. /\ merger.at = "merge" /\ merger' = [merger EXCEPT !.at = "send"]
      /\ UNCHANGED <<forwarder, tracking>>
  BY DEF MergeWrite
<1>2. merger \in [at : {"merge", "send"}, todo : SUBSET Tickets, t : Tickets,
                  result : Results, chain : Chains]
  BY <1>1, MergerAt DEF PullOK
<1>3. /\ merger' \in [at : {"merge", "send"}, todo : SUBSET Tickets, t : Tickets,
                      result : Results, chain : Chains]
      /\ merger'.at = "send" /\ merger'.todo = merger.todo /\ merger'.t = merger.t
      /\ merger'.chain = merger.chain /\ merger'.result = merger.result
  BY <1>1, <1>2
<1>4. MergerTyped' /\ ForwarderTyped'
  BY <1>1, <1>3 DEF PullOK, MergerTyped, ForwarderTyped
<1>5. QED
  BY <1>1, <1>3, <1>4 DEF PullOK, Accepted

LEMMA ForwardOK ==
    ASSUME PullOK, Forward
    PROVE  PullOK'
<1>1. PICK content : content = Contents(merger.chain)
  OBVIOUS
<1>2. /\ merger.at = "send" /\ forwarder.at = "receive"
      /\ forwarder' = [at |-> "send", t |-> merger.t, result |-> merger.result,
                       content |-> content]
      /\ merger' = [at |-> "next", todo |-> merger.todo]
      /\ tracking' = tracking
  BY <1>1 DEF Forward, refs
<1>3. merger \in [at : {"merge", "send"}, todo : SUBSET Tickets, t : Tickets,
                  result : Results, chain : Chains]
  BY <1>2, MergerAt DEF PullOK
<1>4. content \in Seq(Nat) /\ content # << >>
  BY <1>1, <1>2, <1>3, ContentsType DEF PullOK
<1>5. /\ merger'.at = "next" /\ merger'.todo = merger.todo
      /\ forwarder'.at = "send" /\ forwarder'.t = merger.t
      /\ forwarder'.content = content
  BY <1>2
<1>6. MergerTyped' /\ ForwarderTyped'
  BY <1>2, <1>3, <1>4 DEF MergerTyped, ForwarderTyped
<1>7. QED
  BY <1>2, <1>4, <1>5, <1>6 DEF PullOK

LEMMA ConsumeOK ==
    ASSUME PullOK, Consume
    PROVE  PullOK'
<1>1. /\ forwarder.at = "send" /\ forwarder.result \notin Refused
      /\ forwarder' = [forwarder EXCEPT !.at = "update"]
      /\ UNCHANGED <<merger, tracking>>
  BY DEF Consume, refs
<1>2. forwarder \in [at : {"send", "update"}, t : Tickets, result : Results,
                     content : Seq(Nat)]
  BY <1>1, ForwarderAt DEF PullOK
<1>3. /\ forwarder' \in [at : {"send", "update"}, t : Tickets, result : Results,
                         content : Seq(Nat)]
      /\ forwarder'.at = "update" /\ forwarder'.t = forwarder.t
      /\ forwarder'.content = forwarder.content
      /\ forwarder'.result = forwarder.result
  BY <1>1, <1>2
<1>4. MergerTyped' /\ ForwarderTyped'
  BY <1>1, <1>3 DEF PullOK, MergerTyped, ForwarderTyped
<1>5. QED
  BY <1>1, <1>3, <1>4 DEF PullOK, Accepted

LEMMA UpdateOK ==
    ASSUME PullOK, UpdateExcerpt \/ EndMerge \/ WriteMerged
    PROVE  PullOK'
<1>1. CASE UpdateExcerpt
  <2>1. /\ forwarder.at = "update" /\ forwarder' = [at |-> "receive", t |-> None]
        /\ UNCHANGED <<merger, tracking>>
    BY <1>1 DEF UpdateExcerpt, refs
  <2>2. forwarder'.at = "receive" /\ ForwarderTyped'
    BY <2>1 DEF ForwarderTyped
  <2>3. MergerTyped'
    BY <2>1 DEF PullOK, MergerTyped
  <2>4. QED
    BY <2>1, <2>2, <2>3 DEF PullOK, Accepted
<1>2. CASE EndMerge
  <2>1. merger' = Quiet /\ forwarder' = [at |-> "write", t |-> None]
    BY <1>2 DEF EndMerge
  <2>2. merger'.at = "off" /\ forwarder'.at = "write"
    BY <2>1 DEF Quiet
  <2>3. MergerTyped' /\ ForwarderTyped'
    BY <2>1 DEF MergerTyped, ForwarderTyped
  <2>4. QED
    BY <2>2, <2>3 DEF PullOK
<1>3. CASE WriteMerged
  <2>1. forwarder.at = "write" /\ forwarder' = Quiet /\ merger' = merger
    BY <1>3 DEF WriteMerged
  <2>2. merger = Quiet
    BY <2>1, MergerAt DEF PullOK
  <2>3. QED
    BY <2>1, <2>2, NoPull
<1>4. QED
  BY <1>1, <1>2, <1>3

LEMMA PullStep ==
    ASSUME Inv, PullOK, [Next]_vars
    PROVE  PullOK'
<1>1. CASE \/ \E t \in Tickets, status \in BOOLEAN : PushedByOthers(t, status)
           \/ \E t \in Tickets : PushedElsewhere(t)
           \/ \E rebuild \in BOOLEAN : Start(rebuild)
           \/ \E t \in Tickets : OpenBug(t) \/ OpenMissing(t) \/ NewBug(t)
           \/ \E status \in BOOLEAN : Stage(status)
           \/ SaveAndBack \/ SaveInvalid \/ Notify \/ Write
           \/ \E t \in Tickets : ResetBug(t)
           \/ DropExcerpt \/ ReadReset \/ RefreshCache
           \/ Close \/ UNCHANGED vars
  <2>1. UNCHANGED <<merger, forwarder, tracking>>
    BY <1>1 DEF PushedByOthers, PushedElsewhere, Start, OpenBug, OpenMissing,
                NewBug, Stage, SaveAndBack, SaveInvalid, Notify, Write, ResetBug,
                DropExcerpt, ReadReset, RefreshCache, Close, refs, pull, vars
  <2>2. QED
    BY <2>1, SamePull
<1>2. CASE Exit \/ Crash \/ ConsumeInvalid \/ UpdateClosed
  BY <1>2, NoPull DEF Exit, Crash, ConsumeInvalid, UpdateClosed, Die
<1>3. CASE \E t \in Tickets : RemoveBug(t)
  <2>1. main.at = "opened" /\ UNCHANGED <<merger, forwarder>>
    BY <1>3 DEF RemoveBug, pull
  <2>2. merger.at = "off" /\ forwarder.at = "off"
    BY <2>1 DEF Inv, Bounds, Pulling
  <2>3. MergerTyped' /\ ForwarderTyped'
    BY <2>1 DEF PullOK, MergerTyped, ForwarderTyped
  <2>4. QED
    BY <2>1, <2>2, <2>3 DEF PullOK
<1>4. CASE \E fetched \in BOOLEAN : StartPull(fetched)
  BY <1>4, StartPullOK
<1>5. CASE \E t \in Tickets : MergeSkip(t) \/ MergeRead(t)
  BY <1>5, SkipOK, ReadOK
<1>6. CASE MergeWrite
  BY <1>6, WriteOK
<1>7. CASE Forward
  BY <1>7, ForwardOK
<1>8. CASE Consume
  BY <1>8, ConsumeOK
<1>9. CASE UpdateExcerpt \/ EndMerge \/ WriteMerged
  BY <1>9, UpdateOK
<1>10. CASE Push
  <2>1. /\ UNCHANGED <<merger, forwarder>>
        /\ tracking' = [t \in Tickets |-> IF t \in ToPush THEN local[t]
                                          ELSE tracking[t]]
    BY <1>10 DEF Push, pull
  <2>2. \A t \in Tickets : tracking[t] # << >> => tracking'[t] # << >>
    BY <2>1 DEF ToPush
  <2>3. QED
    BY <2>1, <2>2, SamePull
<1>11. QED
  BY <1>1, <1>2, <1>3, <1>4, <1>5, <1>6, <1>7, <1>8, <1>9, <1>10
     DEF Next, MainThread, Merging

(* The types of what the cache shows. *)
ShownTyped ==
    /\ excerpts \in Excerpts
    /\ file = None \/ file \in Excerpts
    /\ main.t \in Tickets \cup {None}

LEMMA BuiltType ==
    ASSUME Inv
    PROVE  Built \in Excerpts /\ NoExcerpts \in Excerpts
<1>1. \A t \in Tickets : NewExcerpt(Contents(local[t])) \in Seq(Nat) \cup {None}
  <2>1. \A t \in Tickets : local[t] \in Chains
    BY DEF Inv, DataOK
  <2>2. \A t \in Tickets : Contents(local[t]) \in Seq(Nat)
    BY <2>1, ContentsType
  <2>3. QED
    BY <2>2 DEF NewExcerpt
<1>2. QED
  BY <1>1 DEF Built, NoExcerpts, Excerpts

LEMMA SnapshotType ==
    ASSUME Inv, NEW t \in Tickets
    PROVE  Snapshot(t) \in Seq(Nat)
<1>1. bugs[t].base \in Chains /\ bugs[t].staged \in Seq(Nat)
  BY DEF Inv, DataOK, BugCaches
<1>2. Contents(bugs[t].base) \in Seq(Nat)
  BY <1>1, ContentsType
<1>3. QED
  BY <1>1, <1>2 DEF Snapshot

LEMMA ShownStep ==
    ASSUME Inv, LoadedOK, PullOK, ShownTyped, [Next]_vars
    PROVE  ShownTyped'
<1>1. ASSUME NEW t \in Tickets, NEW content \in Seq(Nat) \cup {None},
             excerpts' = [excerpts EXCEPT ![t] = content]
      PROVE  excerpts' \in Excerpts
  BY <1>1 DEF ShownTyped, Excerpts
<1>2. CASE \/ \E t \in Tickets, status \in BOOLEAN : PushedByOthers(t, status)
           \/ \E t \in Tickets : PushedElsewhere(t)
           \/ \E t \in Tickets : MergeSkip(t) \/ MergeRead(t)
           \/ MergeWrite \/ Forward \/ Consume \/ EndMerge
           \/ Push \/ UNCHANGED vars
  <2>1. UNCHANGED <<excerpts, file, main>>
    BY <1>2 DEF PushedByOthers, PushedElsewhere, MergeSkip, MergeRead, MergeWrite,
                Forward, Consume, EndMerge, Push, memory, vars
  <2>2. QED
    BY <2>1 DEF ShownTyped
<1>3. CASE Close \/ Crash \/ ConsumeInvalid \/ UpdateClosed
  <2>1. /\ excerpts' = NoExcerpts /\ main'.t = None
        /\ file' = None \/ file' = file
    BY <1>3 DEF Close, Crash, ConsumeInvalid, UpdateClosed, Die, Forget, Goto,
                Quiet
  <2>2. QED
    BY <2>1, BuiltType DEF ShownTyped
<1>4. CASE \E rebuild \in BOOLEAN : Start(rebuild)
  <2>1. /\ main'.t = None /\ file' = excerpts'
        /\ excerpts' = Built \/ (file # None /\ excerpts' = file)
    BY <1>4 DEF Start, Goto
  <2>2. QED
    BY <2>1, BuiltType DEF ShownTyped
<1>5. CASE \/ \E t \in Tickets : OpenBug(t) \/ OpenMissing(t) \/ NewBug(t)
           \/ \E t \in Tickets : RemoveBug(t) \/ ResetBug(t)
           \/ Exit
  <2>1. UNCHANGED <<excerpts, file>>
    BY <1>5 DEF OpenBug, OpenMissing, NewBug, RemoveBug, ResetBug, Exit, memory
  <2>2. main'.t \in Tickets \cup {None}
    <3>1. CASE Exit
      BY <3>1 DEF Exit, Quiet
    <3>2. ASSUME NEW t \in Tickets,
                 OpenBug(t) \/ OpenMissing(t) \/ NewBug(t) \/ RemoveBug(t)
                   \/ ResetBug(t)
          PROVE  main'.t \in Tickets \cup {None}
      <4>1. CASE OpenMissing(t)
        BY <4>1 DEF OpenMissing, Goto
      <4>2. CASE OpenBug(t)
        BY <4>2 DEF OpenBug, Goto
      <4>3. CASE NewBug(t)
        BY <4>3 DEF NewBug, Goto
      <4>4. CASE RemoveBug(t)
        BY <4>4 DEF RemoveBug, Goto
      <4>5. CASE ResetBug(t)
        BY <4>5 DEF ResetBug, Goto
      <4>6. QED
        BY <3>2, <4>1, <4>2, <4>3, <4>4, <4>5
    <3>3. QED
      BY <1>5, <3>1, <3>2
  <2>3. QED
    BY <2>1, <2>2 DEF ShownTyped
<1>6. CASE (\E status \in BOOLEAN : Stage(status)) \/ SaveAndBack \/ SaveInvalid
           \/ \E fetched \in BOOLEAN : StartPull(fetched)
  <2>1. /\ UNCHANGED <<excerpts, file>>
        /\ main'.t = main.t \/ main'.t = None
    BY <1>6 DEF Stage, SaveAndBack, SaveInvalid, StartPull, memory, Goto
  <2>2. QED
    BY <2>1 DEF ShownTyped
<1>7. CASE Notify \/ ReadReset
  <2>1. /\ excerpts' = [excerpts EXCEPT ![main.t] = Snapshot(main.t)]
        /\ file' = file /\ main'.t = main.t
        /\ main.at \in {"notify", "saved", "reset"}
    BY <1>7 DEF Notify, ReadReset, Goto
  <2>2. main.t \in Tickets
    BY <2>1 DEF LoadedOK, ViewIsLoaded
  <2>3. Snapshot(main.t) \in Seq(Nat)
    BY <2>2, SnapshotType
  <2>4. QED
    BY <1>1, <2>1, <2>2, <2>3 DEF ShownTyped
<1>8. CASE DropExcerpt
  <2>1. /\ excerpts' = [excerpts EXCEPT ![main.t] = None]
        /\ file' = file /\ main'.t = main.t /\ main.at = "removed"
    BY <1>8 DEF DropExcerpt, Goto
  <2>2. main.t \in Tickets
    BY <2>1 DEF Inv, MainTicket
  <2>3. QED
    BY <1>1, <2>1, <2>2 DEF ShownTyped
<1>9. CASE RefreshCache
  <2>1. /\ excerpts' = [t \in Tickets |-> IF OutOfDate(t) THEN Built[t]
                                          ELSE excerpts[t]]
        /\ file' = file /\ main'.t = None
    BY <1>9 DEF RefreshCache, Goto
  <2>2. \A t \in Tickets : /\ Built[t] \in Seq(Nat) \cup {None}
                           /\ excerpts[t] \in Seq(Nat) \cup {None}
    BY BuiltType DEF Excerpts, ShownTyped
  <2>3. QED
    BY <2>1, <2>2 DEF ShownTyped, Excerpts
<1>10. CASE Write
  <2>1. /\ excerpts' = excerpts /\ file' = excerpts
        /\ main'.t = main.t \/ main'.t = None
    <3>1. CASE main.at = "write"
      BY <1>10, <3>1 DEF Write, Goto, memory
    <3>2. CASE main.at = "writeBack"
      BY <1>10, <3>2 DEF Write, Goto, memory
    <3>3. CASE main.at = "writeEnd"
      BY <1>10, <3>3 DEF Write, Goto, memory
    <3>4. QED
      BY <1>10, <3>1, <3>2, <3>3 DEF Write
  <2>2. QED
    BY <2>1 DEF ShownTyped
<1>11. CASE UpdateExcerpt
  <2>1. /\ excerpts' = [excerpts EXCEPT ![forwarder.t] = forwarder.content]
        /\ UNCHANGED <<file, main>> /\ forwarder.at = "update"
    BY <1>11 DEF UpdateExcerpt
  <2>2. forwarder.t \in Tickets /\ forwarder.content \in Seq(Nat)
    BY <2>1, ForwarderAt DEF PullOK
  <2>3. QED
    BY <1>1, <2>1, <2>2 DEF ShownTyped
<1>12. CASE WriteMerged
  BY <1>12 DEF WriteMerged, memory, ShownTyped
<1>13. QED
  BY <1>2, <1>3, <1>4, <1>5, <1>6, <1>7, <1>8, <1>9, <1>10, <1>11, <1>12
     DEF Next, MainThread, Merging

Typed == Inv /\ LoadedOK /\ PullOK /\ ShownTyped

LEMMA TypedAlways == Spec => []Typed
<1>1. Init => PullOK /\ ShownTyped
  <2> SUFFICES ASSUME Init PROVE PullOK /\ ShownTyped
    OBVIOUS
  <2>1. MergerTyped /\ ForwarderTyped
    BY DEF Init, Quiet, MergerTyped, ForwarderTyped
  <2>2. PullOK
    BY <2>1 DEF Init, Quiet, PullOK
  <2>3. NoExcerpts \in Excerpts
    BY DEF NoExcerpts, Excerpts
  <2>4. QED
    BY <2>2, <2>3 DEF Init, Quiet, ShownTyped
<1>2. Inv /\ LoadedOK /\ PullOK /\ ShownTyped /\ [Next]_vars => PullOK' /\ ShownTyped'
  BY PullStep, ShownStep
<1>3. Inv /\ LoadedOK /\ PullOK /\ ShownTyped => Typed
  BY DEF Typed
<1>4. QED
  BY <1>1, <1>2, <1>3, LoadedAlways, PTL DEF Spec

(* For any tickets and any size of the cache: the refs, the excerpts and   *)
(* the file keep their types, and RepoCache.loadedBugs lists exactly the   *)
(* tickets in RepoCache.bugs, each of them once.                           *)
THEOREM TypeCorrect == Spec => []TypeOK
<1>1. Typed => TypeOK
  <2> SUFFICES ASSUME Typed PROVE TypeOK
    OBVIOUS
  <2>1. \A t \in Tickets : /\ server[t] \in Seq([pack : Nat, by : {Us, Them}])
                           /\ tracking[t] \in Seq([pack : Nat, by : {Us, Them}])
                           /\ local[t] \in Seq([pack : Nat, by : {Us, Them}])
    BY DEF Typed, Inv, DataOK, Chains, Commits
  <2>2. /\ lru \in Seq(Tickets) /\ Distinct(lru)
        /\ \A t \in Tickets : Loaded(t) <=> \E i \in 1 .. Len(lru) : lru[i] = t
    BY DEF Typed, LoadedOK, LruListsLoaded
  <2>3. DOMAIN lru = 1 .. Len(lru) /\ \A i \in 1 .. Len(lru) : lru[i] \in Tickets
    BY <2>2
  <2>4. \A x : x \in ToSet(lru) <=> \E i \in 1 .. Len(lru) : lru[i] = x
    BY <2>3 DEF ToSet
  <2>5. ToSet(lru) = {t \in Tickets : Loaded(t)}
    BY <2>2, <2>3, <2>4
  <2>6. Cardinality(ToSet(lru)) = Len(lru)
    BY <2>2, <2>4, ListSize
  <2>7. /\ merger.at \in {"off", "next", "merge", "send"}
        /\ forwarder.at \in {"off", "receive", "send", "update", "write"}
    BY MergerAt, ForwarderAt DEF Typed, PullOK
  <2>8. QED
    BY <2>1, <2>5, <2>6, <2>7 DEF TypeOK, Typed, ShownTyped
<1>2. QED
  BY TypedAlways, <1>1, PTL

-----------------------------------------------------------------------------
(* The excerpts and the file *)

(* What the excerpt of a ticket should show. *)
Content(t) == IF NeedCommit(t) THEN Snapshot(t)
              ELSE NewExcerpt(Contents(local[t]))

(* Somebody is about to update the excerpt: the main thread, or a goroutine*)
(* that has the result of a merge.                                         *)
Pending(t) ==
    \/ main.at \in {"notify", "saved", "removed", "reset"} /\ main.t = t
    \/ merger.at = "send" /\ Accepted(merger) /\ merger.t = t
    \/ forwarder.at \in {"send", "update"} /\ Accepted(forwarder)
         /\ forwarder.t = t

ClosedQuiet == main.at = "closed" => ~ Pulling

RemovedIsGone ==
    main.at = "removed" => NoneLoaded /\ ~ Pulling /\ local[main.t] = << >>

(* A result that is passed on is what the ref holds now. *)
ResultsCurrent ==
    /\ merger.at = "send" /\ Accepted(merger) =>
         merger.chain = local[merger.t]
    /\ forwarder.at \in {"send", "update"} /\ Accepted(forwarder) =>
         forwarder.content = Contents(local[forwarder.t])

ExcerptsCurrent ==
    Running => \A t \in Tickets : excerpts[t] = Content(t) \/ Pending(t)

FileCurrent ==
    /\ ~ Running => file = None \/ file = Built
    /\ main.at \in {"opened", "table", "show", "end"} /\ ~ Pulling =>
         file = excerpts

Clean == ClosedQuiet /\ RemovedIsGone /\ ResultsCurrent /\ ExcerptsCurrent
           /\ FileCurrent

FaithfulOK == (mixed => damaged) /\ (~ damaged => Clean)

(* While a pull runs nothing is loaded, without damage. *)
LEMMA PullAlone ==
    ASSUME Typed, FaithfulOK, ~ damaged
    PROVE  /\ Pulling => NoneLoaded
           /\ \A t \in Tickets : NeedCommit(t) => Loaded(t)
           /\ \A t \in Tickets : Loaded(t) => bugs[t].base = local[t] /\ ~ Pulling
BY DEF Typed, FaithfulOK, Inv, Apart, StagedIsLoaded, NoneLoaded, SingleCopy, Stale

LEMMA SameContent ==
    ASSUME NEW t \in Tickets, local'[t] = local[t],
           bugs'[t] = bugs[t] \/ (~ NeedCommit(t) /\ ~ NeedCommit(t)')
    PROVE  Content(t)' = Content(t)
<1>1. CASE bugs'[t] = bugs[t]
  BY <1>1 DEF Content, NeedCommit, Snapshot, NewExcerpt, Contents
<1>2. CASE ~ NeedCommit(t) /\ ~ NeedCommit(t)'
  BY <1>2 DEF Content, NewExcerpt, Contents
<1>3. QED
  BY <1>1, <1>2

(* The snapshot of a loaded ticket is what its excerpt should show. *)
LEMMA SnapshotContent ==
    ASSUME Typed, NEW t \in Tickets, Loaded(t), bugs[t].base = local[t]
    PROVE  Snapshot(t) = Content(t)
<1>1. CASE NeedCommit(t)
  BY <1>1 DEF Content
<1>2. CASE ~ NeedCommit(t)
  <2>1. local[t] \in Chains /\ local[t] # << >>
    BY DEF Typed, Inv, DataOK, Loaded
  <2>2. Contents(local[t]) \in Seq(Nat) /\ Contents(local[t]) # << >>
    BY <2>1, ContentsType
  <2>3. bugs[t].staged = << >>
    BY <1>2 DEF NeedCommit
  <2>4. Snapshot(t) = Contents(local[t])
    BY <2>2, <2>3 DEF Snapshot
  <2>5. QED
    BY <1>2, <2>2, <2>4 DEF Content, NewExcerpt
<1>3. QED
  BY <1>1, <1>2

(* The main thread changes its ticket, and then its excerpt. *)
LEMMA EditClean ==
    ASSUME Clean, ~ Pulling, Running,
           main.at \notin {"notify", "saved", "removed", "reset"},
           NEW t \in Tickets,
           UNCHANGED <<excerpts, merger, forwarder>>,
           \A u \in Tickets : u # t =>
               local'[u] = local[u] /\ ~ NeedCommit(u) /\ ~ NeedCommit(u)',
           main'.t = t, main'.at \in {"notify", "saved", "removed", "reset"},
           main'.at = "removed" => NoneLoaded' /\ local'[t] = << >>
    PROVE  Clean'
<1>1. merger.at = "off" /\ forwarder.at = "off" /\ ~ Pulling'
  BY DEF Pulling
<1>2. \A u \in Tickets : excerpts[u] = Content(u)
  BY <1>1 DEF Clean, ExcerptsCurrent, Pending
<1>3. \A u \in Tickets : u # t => Content(u)' = Content(u)
  BY SameContent
<1>4. ExcerptsCurrent'
  BY <1>2, <1>3 DEF ExcerptsCurrent, Pending
<1>5. ResultsCurrent'
  BY <1>1 DEF ResultsCurrent
<1>6. FileCurrent' /\ ClosedQuiet' /\ RemovedIsGone'
  BY <1>1 DEF FileCurrent, ClosedQuiet, RemovedIsGone, Running
<1>7. QED
  BY <1>4, <1>5, <1>6 DEF Clean

(* The main thread updates the excerpt. *)
LEMMA ReadClean ==
    ASSUME Typed, Clean, ~ Pulling, NEW t \in Tickets, main.t = t,
           main.at \in {"notify", "saved", "removed", "reset"},
           excerpts' = [excerpts EXCEPT ![t] = Content(t)],
           UNCHANGED <<bugs, local, merger, forwarder>>,
           main'.at \in {"write", "writeBack", "writeEnd"}
    PROVE  Clean'
<1>1. merger.at = "off" /\ forwarder.at = "off" /\ ~ Pulling'
  BY DEF Pulling
<1>2. \A u \in Tickets : excerpts[u] = Content(u) \/ u = t
  BY <1>1 DEF Clean, ExcerptsCurrent, Pending, Running
<1>3. \A u \in Tickets : Content(u)' = Content(u)
  BY SameContent
<1>4. \A u \in Tickets : excerpts'[u] = IF u = t THEN Content(t) ELSE excerpts[u]
  BY DEF Typed, ShownTyped, Excerpts
<1>5. ExcerptsCurrent'
  BY <1>2, <1>3, <1>4 DEF ExcerptsCurrent
<1>6. ResultsCurrent'
  BY <1>1 DEF ResultsCurrent
<1>7. FileCurrent' /\ ClosedQuiet' /\ RemovedIsGone'
  BY <1>1 DEF FileCurrent, ClosedQuiet, RemovedIsGone, Running
<1>8. QED
  BY <1>5, <1>6, <1>7 DEF Clean

(* The window changes, nothing else does. *)
LEMMA WindowClean ==
    ASSUME Clean, UNCHANGED <<excerpts, local, merger, forwarder>>,
           \A u \in Tickets : \/ bugs'[u] = bugs[u]
                              \/ ~ NeedCommit(u) /\ ~ NeedCommit(u)',
           Running, Running', main.at \notin {"notify", "saved", "removed", "reset"},
           main'.at \notin {"closed", "removed"},
           main'.at \in {"opened", "table", "show", "end"} /\ ~ Pulling =>
               file' = excerpts
    PROVE  Clean'
<1>1. \A u \in Tickets : Content(u)' = Content(u)
  BY SameContent
<1>2. \A u \in Tickets : Pending(u) => Pending(u)'
  BY DEF Pending, Accepted
<1>3. ExcerptsCurrent'
  BY <1>1, <1>2 DEF Clean, ExcerptsCurrent
<1>4. ResultsCurrent'
  BY DEF Clean, ResultsCurrent, Accepted
<1>5. FileCurrent' /\ ClosedQuiet' /\ RemovedIsGone'
  BY DEF Clean, FileCurrent, ClosedQuiet, RemovedIsGone, Pulling
<1>6. QED
  BY <1>3, <1>4, <1>5 DEF Clean

LEMMA StartClean ==
    ASSUME Typed, FaithfulOK, NEW rebuild \in BOOLEAN, Start(rebuild)
    PROVE  FaithfulOK'
<1>1. /\ main.at = "off" /\ mixed' = FALSE
      /\ UNCHANGED <<local, bugs, merger, forwarder>>
      /\ file' = excerpts' /\ main' = [at |-> "opened", t |-> None]
  BY DEF Start, refs, pull, Goto
<1>2. NoneLoaded /\ ~ Pulling
  BY <1>1 DEF Typed, Inv, Bounds
<1>3. merger.at = "off" /\ forwarder.at = "off" /\ ~ Pulling'
  BY <1>1, <1>2 DEF Pulling
<1>4. \A u \in Tickets : /\ ~ NeedCommit(u)
                         /\ Built[u] = Content(u)
                         /\ Content(u)' = Content(u)
  <2>1. \A u \in Tickets : ~ NeedCommit(u)
    BY <1>2 DEF Typed, Inv, StagedIsLoaded, NoneLoaded
  <2>2. \A u \in Tickets : Content(u)' = Content(u)
    BY <1>1, SameContent
  <2>3. QED
    BY <2>1, <2>2 DEF Built, Content
<1>5. ~ damaged' => excerpts' = Built
  <2>1. CASE rebuild \/ file = None
    BY <2>1 DEF Start
  <2>2. CASE ~ (rebuild \/ file = None)
    BY <1>1, <2>2 DEF Start, FaithfulOK, Clean, FileCurrent, Running
  <2>3. QED
    BY <2>1, <2>2
<1>6. ~ damaged' => Clean'
  BY <1>1, <1>3, <1>4, <1>5 DEF Clean, ClosedQuiet, RemovedIsGone, ResultsCurrent,
     ExcerptsCurrent, FileCurrent, Running
<1>7. QED
  BY <1>1, <1>6 DEF FaithfulOK

LEMMA StopClean ==
    ASSUME Typed, FaithfulOK, Close \/ Exit
    PROVE  FaithfulOK'
<1>1. mixed' = mixed /\ file' = file /\ local' = local
  BY DEF Close, Exit, refs, ghosts
<1>2. CASE Close
  <2>1. /\ main.at \in {"opened", "table", "show", "end"} /\ main'.at = "closed"
        /\ UNCHANGED <<merger, forwarder>>
        /\ damaged' = (damaged \/ Pulling \/ \E t \in Tickets : NeedCommit(t))
    BY <1>2 DEF Close, Goto, pull
  <2>2. ~ damaged' => Clean'
    <3> SUFFICES ASSUME ~ damaged' PROVE Clean'
      OBVIOUS
    <3>1. ~ Pulling /\ (\A t \in Tickets : ~ NeedCommit(t)) /\ Clean
      BY <2>1 DEF FaithfulOK
    <3>2. merger.at = "off" /\ forwarder.at = "off" /\ ~ Pulling'
      BY <2>1, <3>1 DEF Pulling
    <3>3. \A t \in Tickets : excerpts[t] = Built[t]
      BY <2>1, <3>1, <3>2 DEF Clean, ExcerptsCurrent, Running, Pending, Content, Built
    <3>4. file = excerpts
      BY <2>1, <3>1 DEF Clean, FileCurrent
    <3>5. excerpts = Built
      BY <3>3 DEF Typed, ShownTyped, Excerpts, Built
    <3>6. Built' = Built
      BY <1>1 DEF Built, NewExcerpt, Contents
    <3>7. QED
      BY <1>1, <2>1, <3>2, <3>4, <3>5, <3>6 DEF Clean, ClosedQuiet, RemovedIsGone,
         ResultsCurrent, ExcerptsCurrent, FileCurrent, Running
  <2>3. QED
    BY <1>1, <2>1, <2>2 DEF FaithfulOK
<1>3. CASE Exit
  <2>1. /\ main.at = "closed" /\ damaged' = damaged
        /\ main'.at = "off" /\ merger'.at = "off" /\ forwarder'.at = "off"
    BY <1>3 DEF Exit, Quiet, ghosts
  <2>2. Built' = Built
    BY <1>1 DEF Built, NewExcerpt, Contents
  <2>3. Clean => Clean'
    BY <1>1, <2>1, <2>2 DEF Clean, ClosedQuiet, RemovedIsGone, ResultsCurrent,
       ExcerptsCurrent, FileCurrent, Running
  <2>4. QED
    BY <1>1, <2>1, <2>3 DEF FaithfulOK
<1>4. QED
  BY <1>2, <1>3

(* Nothing is staged while the list of tickets is shown. *)
LEMMA ReadyQuiet ==
    ASSUME Typed, main.at \in {"opened", "table"}
    PROVE  Running /\ \A t \in Tickets : ~ NeedCommit(t)
BY DEF Typed, LoadedOK, EditInView, Running

(* After a load, nothing is staged. *)
LEMMA LoadQuiet ==
    ASSUME Typed, NEW t \in Tickets, NEW chain \in Chains, Load(t, chain),
           \A u \in Tickets : ~ NeedCommit(u)
    PROVE  /\ \A u \in Tickets : ~ NeedCommit(u)'
           /\ mixed' = (mixed \/ Pulling) /\ damaged' = (damaged \/ Pulling)
<1>1. bugs \in [Tickets -> BugCaches]
  BY DEF Typed, Inv, DataOK
<1>2. \A u \in Tickets :
         \/ bugs'[u] = NotLoaded
         \/ u # t /\ bugs'[u] = bugs[u]
         \/ u = t /\ bugs'[u] = [base |-> chain, staged |-> << >>]
  BY <1>1, LoadEffect
<1>3. \A u \in Tickets : ~ NeedCommit(u)'
  BY <1>2 DEF NotLoaded, NeedCommit
<1>4. QED
  BY <1>3 DEF Load

LEMMA OpenClean ==
    ASSUME Typed, FaithfulOK, NEW t \in Tickets, OpenBug(t)
    PROVE  FaithfulOK'
<1>1. /\ main.at \in {"opened", "table"} /\ main' = [at |-> "show", t |-> t]
      /\ UNCHANGED <<excerpts, file, local, merger, forwarder>>
  BY DEF OpenBug, Ready, Goto, refs, pull
<1>2. Running /\ \A u \in Tickets : ~ NeedCommit(u)
  BY <1>1, ReadyQuiet
<1>3. /\ \A u \in Tickets : ~ NeedCommit(u)'
      /\ (mixed' => damaged') /\ (~ damaged' => ~ damaged /\ ~ Pulling)
  <2>1. CASE Loaded(t)
    <3>1. bugs' = bugs /\ mixed' = mixed /\ damaged' = damaged
      BY <2>1 DEF OpenBug, ghosts
    <3>2. ~ damaged => ~ Pulling
      BY <2>1, PullAlone
    <3>3. QED
      BY <1>2, <3>1, <3>2 DEF NeedCommit, FaithfulOK
  <2>2. CASE ~ Loaded(t)
    <3>1. Load(t, local[t]) /\ local[t] \in Chains
      BY <2>2 DEF OpenBug, Typed, Inv, DataOK
    <3>2. QED
      BY <1>2, <3>1, LoadQuiet DEF FaithfulOK
  <2>3. QED
    BY <2>1, <2>2
<1>4. ASSUME ~ damaged' PROVE Clean'
  <2>1. Clean /\ ~ Pulling
    BY <1>3, <1>4 DEF FaithfulOK
  <2>2. file' = excerpts
    BY <1>1, <2>1 DEF Clean, FileCurrent
  <2>3. Running' /\ main'.at = "show"
    BY <1>1 DEF Running
  <2>4. QED
    BY <1>1, <1>2, <1>3, <2>1, <2>2, <2>3, WindowClean
<1>5. QED
  BY <1>3, <1>4 DEF FaithfulOK

LEMMA NewClean ==
    ASSUME Typed, FaithfulOK, NEW t \in Tickets, NewBug(t)
    PROVE  FaithfulOK'
<1>1. PICK chain \in Chains :
           local' = [local EXCEPT ![t] = chain] /\ Load(t, chain)
  BY NewIsNew DEF Typed
<1>2. /\ main.at \in {"opened", "table"} /\ main' = [at |-> "notify", t |-> t]
      /\ UNCHANGED <<excerpts, merger, forwarder>>
  BY DEF NewBug, Ready, Goto, pull
<1>3. Running /\ \A u \in Tickets : ~ NeedCommit(u)
  BY <1>2, ReadyQuiet
<1>4. /\ \A u \in Tickets : ~ NeedCommit(u)'
      /\ mixed' = (mixed \/ Pulling) /\ damaged' = (damaged \/ Pulling)
  BY <1>1, <1>3, LoadQuiet
<1>5. \A u \in Tickets : u # t => local'[u] = local[u]
  BY <1>1 DEF Typed, Inv, DataOK
<1>6. ASSUME ~ damaged' PROVE Clean'
  <2>1. Clean /\ ~ Pulling
    BY <1>4, <1>6 DEF FaithfulOK
  <2>2. main'.t = t /\ main'.at = "notify"
    BY <1>2
  <2>3. QED
    BY <1>2, <1>3, <1>4, <1>5, <2>1, <2>2, EditClean
<1>7. QED
  BY <1>4, <1>6 DEF FaithfulOK

LEMMA ResetClean ==
    ASSUME Typed, FaithfulOK, NEW t \in Tickets, ResetBug(t)
    PROVE  FaithfulOK'
<1>1. PICK chain : chain = IF NothingBetween(tracking[t], local[t])
                           THEN local[t] ELSE tracking[t]
  OBVIOUS
<1>2. /\ local' = [local EXCEPT ![t] = chain]
      /\ Load(t, local'[t])
      /\ main.at = "opened" /\ main' = [at |-> "reset", t |-> t]
      /\ UNCHANGED <<excerpts, merger, forwarder>>
  BY <1>1 DEF ResetBug, Goto, pull
<1>3. local \in [Tickets -> Chains] /\ tracking \in [Tickets -> Chains]
  BY DEF Typed, Inv, DataOK
<1>4. /\ chain \in Chains /\ local'[t] = chain
      /\ \A u \in Tickets : u # t => local'[u] = local[u]
  BY <1>1, <1>2, <1>3
<1>5. Running /\ \A u \in Tickets : ~ NeedCommit(u)
  BY <1>2, ReadyQuiet
<1>6. /\ \A u \in Tickets : ~ NeedCommit(u)'
      /\ mixed' = (mixed \/ Pulling) /\ damaged' = (damaged \/ Pulling)
  BY <1>2, <1>4, <1>5, LoadQuiet
<1>7. ASSUME ~ damaged' PROVE Clean'
  <2>1. Clean /\ ~ Pulling
    BY <1>6, <1>7 DEF FaithfulOK
  <2>2. main'.t = t /\ main'.at = "reset"
    BY <1>2
  <2>3. QED
    BY <1>2, <1>4, <1>5, <1>6, <2>1, <2>2, EditClean
<1>8. QED
  BY <1>6, <1>7 DEF FaithfulOK

LEMMA EditedClean ==
    ASSUME Typed, FaithfulOK, (\E status \in BOOLEAN : Stage(status)) \/ SaveAndBack
    PROVE  FaithfulOK'
<1>1. PICK t : t = main.t
  OBVIOUS
<1>2. /\ t \in Tickets /\ Loaded(t) /\ main.at = "show"
      /\ \A u \in Tickets : u # t => ~ NeedCommit(u)
      /\ bugs \in [Tickets -> BugCaches] /\ local \in [Tickets -> Chains]
  BY <1>1 DEF Typed, LoadedOK, ViewIsLoaded, EditInView, Stage, SaveAndBack, Inv, DataOK
<1>3. /\ UNCHANGED <<excerpts, merger, forwarder, mixed, damaged>>
      /\ main'.t = t /\ main'.at \in {"notify", "saved"}
  BY <1>1 DEF Stage, SaveAndBack, Goto, pull, ghosts
<1>4. \A u \in Tickets : u # t => local'[u] = local[u] /\ bugs'[u] = bugs[u]
  <2>1. CASE \E status \in BOOLEAN : Stage(status)
    <3>1. local' = local /\ bugs' = [bugs EXCEPT ![t].staged = <<Len(packs) + 1>>]
      BY <1>1, <2>1 DEF Stage, refs
    <3>2. QED
      BY <1>2, <3>1
  <2>2. CASE SaveAndBack /\ ~ NeedCommit(t)
    BY <1>1, <2>2 DEF SaveAndBack
  <2>3. CASE SaveAndBack /\ NeedCommit(t)
    <3>1. PICK chain : chain = Append(bugs[t].base, [pack |-> bugs[t].staged[1], by |-> Us])
      OBVIOUS
    <3>2. /\ local' = [local EXCEPT ![t] = chain]
          /\ bugs' = [bugs EXCEPT ![t] = [base |-> chain, staged |-> << >>]]
      BY <1>1, <2>3, <3>1 DEF SaveAndBack, Commit
    <3>3. QED
      BY <1>2, <3>2
  <2>4. QED
    BY <2>1, <2>2, <2>3
<1>5. \A u \in Tickets : u # t => ~ NeedCommit(u)'
  BY <1>2, <1>4 DEF NeedCommit
<1>6. ASSUME ~ damaged PROVE Clean'
  <2>1. Clean /\ ~ Pulling
    BY <1>2, <1>6, PullAlone DEF FaithfulOK
  <2>2. Running /\ main.at \notin {"notify", "saved", "removed", "reset"}
    BY <1>2 DEF Running
  <2>3. main'.at # "removed" /\ main'.at \in {"notify", "saved", "removed", "reset"}
    BY <1>3
  <2>4. QED
    BY <1>2, <1>3, <1>4, <1>5, <2>1, <2>2, <2>3, EditClean
<1>7. QED
  BY <1>3, <1>6 DEF FaithfulOK

LEMMA RemoveClean ==
    ASSUME Typed, FaithfulOK, NEW t \in Tickets, RemoveBug(t)
    PROVE  FaithfulOK'
<1>1. /\ main.at = "opened" /\ main' = [at |-> "removed", t |-> t]
      /\ local' = [local EXCEPT ![t] = << >>]
      /\ UNCHANGED <<excerpts, bugs, merger, forwarder, mixed, damaged>>
  BY DEF RemoveBug, Goto, memory, pull, ghosts
<1>2. NoneLoaded /\ ~ Pulling /\ local \in [Tickets -> Chains]
  BY <1>1 DEF Typed, Inv, Bounds, DataOK
<1>3. Running /\ \A u \in Tickets : ~ NeedCommit(u)
  BY <1>1, ReadyQuiet
<1>4. NoneLoaded' /\ \A u \in Tickets : ~ NeedCommit(u)'
  BY <1>1, <1>2, <1>3 DEF NoneLoaded, Loaded, NeedCommit
<1>5. local'[t] = << >> /\ \A u \in Tickets : u # t => local'[u] = local[u]
  BY <1>1, <1>2
<1>6. ASSUME ~ damaged PROVE Clean'
  <2>1. Clean
    BY <1>6 DEF FaithfulOK
  <2>2. main'.t = t /\ main'.at = "removed"
    BY <1>1
  <2>3. QED
    BY <1>1, <1>2, <1>3, <1>4, <1>5, <2>1, <2>2, EditClean
<1>7. QED
  BY <1>1, <1>6 DEF FaithfulOK

(* The main thread writes the excerpt of the ticket it works with. *)
LEMMA NotifyClean ==
    ASSUME Typed, FaithfulOK, Notify \/ ReadReset \/ DropExcerpt
    PROVE  FaithfulOK'
<1>1. PICK t : t = main.t
  OBVIOUS
<1>2. /\ UNCHANGED <<bugs, local, merger, forwarder, mixed, damaged>>
      /\ main'.at \in {"write", "writeBack", "writeEnd"}
  BY DEF Notify, ReadReset, DropExcerpt, Goto, refs, pull, ghosts
<1>3. CASE Notify \/ ReadReset
  <2>1. /\ main.at \in {"notify", "saved", "reset"}
        /\ excerpts' = [excerpts EXCEPT ![t] = Snapshot(t)]
    BY <1>1, <1>3 DEF Notify, ReadReset
  <2>2. t \in Tickets /\ Loaded(t)
    BY <1>1, <2>1 DEF Typed, LoadedOK, ViewIsLoaded
  <2>3. ASSUME ~ damaged PROVE Clean'
    <3>1. Clean /\ ~ Pulling /\ bugs[t].base = local[t]
      BY <2>2, <2>3, PullAlone DEF FaithfulOK
    <3>2. Snapshot(t) = Content(t)
      BY <2>2, <3>1, SnapshotContent
    <3>3. QED
      BY <1>1, <1>2, <2>1, <2>2, <3>1, <3>2, ReadClean
  <2>4. QED
    BY <1>2, <2>3 DEF FaithfulOK
<1>4. CASE DropExcerpt
  <2>1. /\ main.at = "removed" /\ t \in Tickets
        /\ excerpts' = [excerpts EXCEPT ![t] = None]
    BY <1>1, <1>4 DEF DropExcerpt, Typed, Inv, MainTicket
  <2>2. ASSUME ~ damaged PROVE Clean'
    <3>1. Clean /\ ~ Pulling /\ NoneLoaded /\ local[t] = << >>
      BY <1>1, <2>1, <2>2 DEF FaithfulOK, Clean, RemovedIsGone
    <3>2. ~ NeedCommit(t)
      BY <2>1, <3>1 DEF Typed, Inv, StagedIsLoaded, NoneLoaded
    <3>3. Contents(local[t]) = << >>
      BY <2>1, <3>1, ContentsType DEF Typed, Inv, DataOK
    <3>4. Content(t) = None
      BY <3>2, <3>3 DEF Content, NewExcerpt
    <3>5. QED
      BY <1>1, <1>2, <2>1, <3>1, <3>4, ReadClean
  <2>3. QED
    BY <1>2, <2>2 DEF FaithfulOK
<1>5. QED
  BY <1>3, <1>4

LEMMA WriteClean ==
    ASSUME Typed, FaithfulOK, Write
    PROVE  FaithfulOK'
<1>1. /\ main.at \in {"write", "writeBack", "writeEnd"} /\ file' = excerpts
      /\ UNCHANGED <<excerpts, local, bugs, merger, forwarder, mixed, damaged>>
  BY DEF Write, refs, memory, pull, ghosts
<1>2. main'.at \in {"show", "table", "end"}
  <2>1. CASE main.at = "write"
    BY <2>1 DEF Write, Goto
  <2>2. CASE main.at = "writeBack"
    BY <2>2 DEF Write, Goto
  <2>3. CASE main.at = "writeEnd"
    BY <2>3 DEF Write, Goto
  <2>4. QED
    BY <1>1, <2>1, <2>2, <2>3
<1>3. Running /\ Running' /\ main.at \notin {"notify", "saved", "removed", "reset"}
      /\ main'.at \notin {"closed", "removed"}
  BY <1>1, <1>2 DEF Running
<1>4. Clean => Clean'
  BY <1>1, <1>3, WindowClean
<1>5. QED
  BY <1>1, <1>4 DEF FaithfulOK

LEMMA RefreshClean ==
    ASSUME Typed, FaithfulOK, RefreshCache
    PROVE  FaithfulOK'
<1>1. /\ main.at = "opened" /\ main' = [at |-> "writeEnd", t |-> None]
      /\ UNCHANGED <<bugs, local, merger, forwarder, mixed, damaged>>
      /\ excerpts' = [t \in Tickets |-> IF OutOfDate(t) THEN Built[t]
                                        ELSE excerpts[t]]
  BY DEF RefreshCache, Goto, refs, pull, ghosts
<1>2. ~ Pulling /\ Running /\ \A t \in Tickets : ~ NeedCommit(t)
  BY <1>1, ReadyQuiet DEF Typed, Inv, Bounds
<1>3. merger.at = "off" /\ forwarder.at = "off" /\ ~ Pulling'
  BY <1>1, <1>2 DEF Pulling
<1>4. \A t \in Tickets : Content(t)' = Content(t) /\ Built[t] = Content(t)
  <2>1. \A t \in Tickets : Content(t)' = Content(t)
    BY <1>1, SameContent
  <2>2. QED
    BY <1>2, <2>1 DEF Content, Built
<1>5. ASSUME ~ damaged PROVE Clean'
  <2>1. \A t \in Tickets : excerpts[t] = Content(t)
    BY <1>1, <1>2, <1>3, <1>5 DEF FaithfulOK, Clean, ExcerptsCurrent, Pending
  <2>2. \A t \in Tickets : excerpts'[t] = Content(t)'
    BY <1>1, <1>4, <2>1
  <2>3. QED
    BY <1>1, <1>3, <2>2 DEF Clean, ExcerptsCurrent, ResultsCurrent, FileCurrent,
       ClosedQuiet, RemovedIsGone, Running
<1>6. QED
  BY <1>1, <1>5 DEF FaithfulOK

LEMMA EndClean ==
    ASSUME Typed, FaithfulOK, (\E t \in Tickets : OpenMissing(t)) \/ SaveInvalid
    PROVE  FaithfulOK'
<1>1. /\ main.at \in {"opened", "table", "show"} /\ main'.at = "end"
      /\ UNCHANGED <<file, excerpts, local, bugs, merger, forwarder, mixed, damaged>>
  BY DEF OpenMissing, SaveInvalid, Ready, Goto, refs, memory, pull, ghosts
<1>2. Running /\ Running' /\ main.at \notin {"notify", "saved", "removed", "reset"}
      /\ main'.at \notin {"closed", "removed"}
  BY <1>1 DEF Running
<1>3. Clean /\ ~ Pulling => file' = excerpts
  BY <1>1 DEF Clean, FileCurrent
<1>4. Clean => Clean'
  BY <1>1, <1>2, <1>3, WindowClean
<1>5. QED
  BY <1>1, <1>4 DEF FaithfulOK

LEMMA StartPullClean ==
    ASSUME Typed, FaithfulOK, NEW fetched \in BOOLEAN, StartPull(fetched)
    PROVE  FaithfulOK'
<1>1. /\ main.at \in {"opened", "table"} /\ main' = [at |-> "table", t |-> None]
      /\ ~ Pulling /\ merger'.at = "next" /\ forwarder'.at = "receive"
      /\ UNCHANGED <<file, excerpts, local, bugs>>
      /\ mixed' = (mixed \/ \E t \in Tickets : Loaded(t))
      /\ damaged' = (damaged \/ \E t \in Tickets : Loaded(t))
  BY DEF StartPull, Ready, Goto, memory
<1>2. ASSUME ~ damaged' PROVE Clean'
  <2>1. Clean
    BY <1>1, <1>2 DEF FaithfulOK
  <2>2. merger.at = "off" /\ forwarder.at = "off" /\ Pulling'
    BY <1>1 DEF Pulling
  <2>3. \A t \in Tickets : excerpts[t] = Content(t) /\ Content(t)' = Content(t)
    <3>1. \A t \in Tickets : Content(t)' = Content(t)
      BY <1>1, SameContent
    <3>2. QED
      BY <1>1, <2>1, <2>2, <3>1 DEF Clean, ExcerptsCurrent, Running, Pending
  <2>4. QED
    BY <1>1, <2>2, <2>3 DEF Clean, ExcerptsCurrent, ResultsCurrent, FileCurrent,
       ClosedQuiet, RemovedIsGone, Running
<1>3. QED
  BY <1>1, <1>2 DEF FaithfulOK

(* A goroutine goes on, the excerpts and the file stay as they are. *)
LEMMA GoOnClean ==
    ASSUME Typed, FaithfulOK, ~ damaged, Pulling, Pulling',
           UNCHANGED <<main, excerpts, file, bugs>>,
           \A t \in Tickets : local'[t] = local[t] \/ Pending(t)',
           \A t \in Tickets : Pending(t) => Pending(t)',
           ResultsCurrent'
    PROVE  Clean'
<1>1. Clean /\ NoneLoaded /\ \A t \in Tickets : ~ NeedCommit(t)
  BY PullAlone DEF FaithfulOK, NoneLoaded
<1>2. \A t \in Tickets : local'[t] = local[t] => Content(t)' = Content(t)
  BY SameContent
<1>3. main.at \notin {"off", "closed", "removed"}
  BY <1>1 DEF Typed, Inv, Bounds, Clean, ClosedQuiet, RemovedIsGone
<1>4. ExcerptsCurrent'
  BY <1>1, <1>2, <1>3 DEF Clean, ExcerptsCurrent, Running
<1>5. FileCurrent' /\ ClosedQuiet' /\ RemovedIsGone'
  BY <1>3 DEF FileCurrent, ClosedQuiet, RemovedIsGone, Running
<1>6. QED
  BY <1>4, <1>5 DEF Clean

LEMMA MergeClean ==
    ASSUME Typed, FaithfulOK,
           \/ \E t \in Tickets : MergeSkip(t) \/ MergeRead(t)
           \/ MergeWrite \/ Forward \/ Consume \/ EndMerge
    PROVE  FaithfulOK'
<1>1. UNCHANGED <<main, excerpts, file, bugs, mixed, damaged>>
  BY DEF MergeSkip, MergeRead, MergeWrite, Forward, Consume, EndMerge, memory, ghosts
<1>2. SUFFICES ASSUME ~ damaged PROVE Clean'
  BY <1>1 DEF FaithfulOK
<1>3. Clean /\ local \in [Tickets -> Chains]
  BY <1>2 DEF FaithfulOK, Typed, Inv, DataOK
<1>4. ASSUME NEW t \in Tickets, MergeSkip(t)
      PROVE  Clean'
  <2>1. /\ merger.at = "next" /\ merger' = [merger EXCEPT !.todo = @ \ {t}]
        /\ UNCHANGED <<local, forwarder>>
    BY <1>4 DEF MergeSkip, refs
  <2>2. merger'.at = "next"
    BY <2>1, MergerAt DEF Typed, PullOK
  <2>3. ResultsCurrent'
    BY <1>3, <2>1, <2>2 DEF Clean, ResultsCurrent, Accepted
  <2>4. \A u \in Tickets : Pending(u) => Pending(u)'
    BY <1>1, <2>1 DEF Pending, Accepted
  <2>5. QED
    BY <1>1, <1>2, <2>1, <2>2, <2>3, <2>4, GoOnClean DEF Pulling
<1>5. ASSUME NEW t \in Tickets, MergeRead(t)
      PROVE  Clean'
  <2>1. PICK result : result = Result(local[t], tracking[t])
    OBVIOUS
  <2>2. /\ merger.at = "next" /\ UNCHANGED <<local, forwarder>>
        /\ merger'.at = (IF result \in Refused THEN "send" ELSE "merge")
        /\ merger'.result = result
    BY <1>5, <2>1 DEF MergeRead, refs
  <2>3. merger'.at # "off" /\ (merger'.at = "send" => ~ Accepted(merger'))
    BY <2>2 DEF Accepted
  <2>4. ResultsCurrent'
    BY <1>3, <2>2, <2>3 DEF Clean, ResultsCurrent, Accepted
  <2>5. \A u \in Tickets : Pending(u) => Pending(u)'
    BY <1>1, <2>2 DEF Pending, Accepted
  <2>6. QED
    BY <1>1, <1>2, <2>2, <2>3, <2>4, <2>5, GoOnClean DEF Pulling
<1>6. CASE MergeWrite
  <2>1. /\ merger.at = "merge" /\ merger' = [merger EXCEPT !.at = "send"]
        /\ local' = [local EXCEPT ![merger.t] = merger.chain]
        /\ UNCHANGED forwarder
    BY <1>6 DEF MergeWrite
  <2>2. merger \in [at : {"merge", "send"}, todo : SUBSET Tickets, t : Tickets,
                    result : Results, chain : Chains]
    BY <2>1, MergerAt DEF Typed, PullOK
  <2>3. /\ merger'.at = "send" /\ merger'.t = merger.t /\ merger.t \in Tickets
        /\ merger'.chain = merger.chain /\ merger'.result = merger.result
    BY <2>1, <2>2
  <2>4. /\ local'[merger.t] = merger.chain
        /\ \A u \in Tickets : u # merger.t => local'[u] = local[u]
    BY <1>3, <2>1, <2>3
  <2>5. Accepted(merger) /\ Accepted(merger')
    BY <2>1, <2>3 DEF Typed, PullOK, Accepted
  <2>6. forwarder.at \in {"send", "update"} =>
            forwarder.t \in Tickets /\ forwarder.t # merger.t
    BY <2>1, ForwarderAt DEF Typed, PullOK
  <2>7. ResultsCurrent'
    BY <1>3, <2>1, <2>3, <2>4, <2>6 DEF Clean, ResultsCurrent, Accepted, Contents
  <2>8. \A u \in Tickets : Pending(u) => Pending(u)'
    BY <1>1, <2>1 DEF Pending, Accepted
  <2>9. \A u \in Tickets : local'[u] = local[u] \/ Pending(u)'
    BY <2>3, <2>4, <2>5 DEF Pending, Accepted
  <2>10. QED
    BY <1>1, <1>2, <2>1, <2>3, <2>7, <2>8, <2>9, GoOnClean DEF Pulling
<1>7. CASE Forward
  <2>1. PICK content : content = Contents(merger.chain)
    OBVIOUS
  <2>2. /\ merger.at = "send" /\ forwarder.at = "receive" /\ local' = local
        /\ forwarder'.at = "send" /\ forwarder'.t = merger.t
        /\ forwarder'.result = merger.result /\ forwarder'.content = content
        /\ merger'.at = "next"
    BY <1>7, <2>1 DEF Forward, refs
  <2>3. ResultsCurrent'
    BY <1>3, <2>1, <2>2 DEF Clean, ResultsCurrent, Accepted
  <2>4. \A u \in Tickets : Pending(u) => Pending(u)'
    BY <1>1, <2>2 DEF Pending, Accepted
  <2>5. QED
    BY <1>1, <1>2, <2>2, <2>3, <2>4, GoOnClean DEF Pulling
<1>8. CASE Consume
  <2>1. /\ forwarder.at = "send" /\ forwarder' = [forwarder EXCEPT !.at = "update"]
        /\ UNCHANGED <<local, merger>>
    BY <1>8 DEF Consume, refs
  <2>2. forwarder \in [at : {"send", "update"}, t : Tickets, result : Results,
                       content : Seq(Nat)]
    BY <2>1, ForwarderAt DEF Typed, PullOK
  <2>3. /\ forwarder'.at = "update" /\ forwarder'.t = forwarder.t
        /\ forwarder'.content = forwarder.content
        /\ forwarder'.result = forwarder.result
    BY <2>1, <2>2
  <2>4. ResultsCurrent'
    BY <1>3, <2>1, <2>3 DEF Clean, ResultsCurrent, Accepted
  <2>5. \A u \in Tickets : Pending(u) => Pending(u)'
    BY <1>1, <2>1, <2>3 DEF Pending, Accepted
  <2>6. QED
    BY <1>1, <1>2, <2>1, <2>3, <2>4, <2>5, GoOnClean DEF Pulling
<1>9. CASE EndMerge
  <2>1. /\ merger.at = "next" /\ forwarder.at = "receive" /\ local' = local
        /\ merger'.at = "off" /\ forwarder'.at = "write"
    BY <1>9 DEF EndMerge, Quiet, refs
  <2>2. ResultsCurrent'
    BY <2>1 DEF ResultsCurrent
  <2>3. \A u \in Tickets : Pending(u) => Pending(u)'
    BY <1>1, <2>1 DEF Pending
  <2>4. QED
    BY <1>1, <1>2, <2>1, <2>2, <2>3, GoOnClean DEF Pulling
<1>10. QED
  BY <1>4, <1>5, <1>6, <1>7, <1>8, <1>9

LEMMA UpdateClean ==
    ASSUME Typed, FaithfulOK, UpdateExcerpt \/ WriteMerged
    PROVE  FaithfulOK'
<1>1. UNCHANGED <<main, bugs, local, merger, mixed, damaged>>
  BY DEF UpdateExcerpt, WriteMerged, refs, memory, ghosts
<1>2. SUFFICES ASSUME ~ damaged PROVE Clean'
  BY <1>1 DEF FaithfulOK
<1>3. Pulling
  BY DEF UpdateExcerpt, WriteMerged, Pulling
<1>4. Clean /\ NoneLoaded /\ \A t \in Tickets : ~ NeedCommit(t)
  BY <1>2, <1>3, PullAlone DEF FaithfulOK, NoneLoaded
<1>5. main.at \notin {"off", "closed", "removed"}
  BY <1>3, <1>4 DEF Typed, Inv, Bounds, Clean, ClosedQuiet, RemovedIsGone
<1>6. \A t \in Tickets : Content(t)' = Content(t)
  BY <1>1, SameContent
<1>7. CASE UpdateExcerpt
  <2>1. PICK t : t = forwarder.t
    OBVIOUS
  <2>2. PICK content : content = forwarder.content
    OBVIOUS
  <2>3. /\ forwarder.at = "update" /\ forwarder'.at = "receive" /\ file' = file
        /\ excerpts' = [excerpts EXCEPT ![t] = content]
    BY <1>7, <2>1, <2>2 DEF UpdateExcerpt
  <2>4. t \in Tickets /\ content # << >> /\ Accepted(forwarder) /\ merger.at # "off"
    BY <2>1, <2>2, <2>3, ForwarderAt DEF Typed, PullOK
  <2>5. content = Contents(local[t])
    BY <1>4, <2>1, <2>2, <2>3, <2>4 DEF Clean, ResultsCurrent
  <2>6. content = Content(t)
    BY <1>4, <2>4, <2>5 DEF Content, NewExcerpt
  <2>7. \A u \in Tickets : excerpts'[u] = IF u = t THEN content ELSE excerpts[u]
    BY <2>3, <2>4 DEF Typed, ShownTyped, Excerpts
  <2>8. \A u \in Tickets : u # t /\ Pending(u) => Pending(u)'
    BY <1>1, <2>1 DEF Pending, Accepted
  <2>9. ExcerptsCurrent'
    BY <1>4, <1>5, <1>6, <2>6, <2>7, <2>8 DEF Clean, ExcerptsCurrent, Running
  <2>10. ResultsCurrent'
    BY <1>1, <1>4, <2>3 DEF Clean, ResultsCurrent, Accepted
  <2>11. FileCurrent' /\ ClosedQuiet' /\ RemovedIsGone'
    BY <1>1, <1>5, <2>4 DEF FileCurrent, ClosedQuiet, RemovedIsGone, Running, Pulling
  <2>12. QED
    BY <2>9, <2>10, <2>11 DEF Clean
<1>8. CASE WriteMerged
  <2>1. /\ forwarder.at = "write" /\ forwarder'.at = "off"
        /\ file' = excerpts /\ excerpts' = excerpts
    BY <1>8 DEF WriteMerged, Quiet, memory
  <2>2. merger.at = "off"
    BY <2>1 DEF Typed, PullOK
  <2>3. \A u \in Tickets : Pending(u) => Pending(u)'
    BY <1>1, <2>1 DEF Pending, Accepted
  <2>4. ExcerptsCurrent'
    BY <1>4, <1>5, <1>6, <2>1, <2>3 DEF Clean, ExcerptsCurrent, Running
  <2>5. ResultsCurrent' /\ FileCurrent' /\ ClosedQuiet' /\ RemovedIsGone'
    BY <1>1, <1>5, <2>1, <2>2 DEF ResultsCurrent, FileCurrent, ClosedQuiet,
       RemovedIsGone, Running
  <2>6. QED
    BY <2>4, <2>5 DEF Clean
<1>9. QED
  BY <1>7, <1>8

LEMMA FaithfulStep ==
    ASSUME Typed, FaithfulOK, [Next]_vars
    PROVE  FaithfulOK'
<1>1. CASE \/ \E t \in Tickets, status \in BOOLEAN : PushedByOthers(t, status)
           \/ \E t \in Tickets : PushedElsewhere(t)
           \/ Push \/ UNCHANGED vars
  <2>1. UNCHANGED <<local, file, excerpts, bugs, main, merger, forwarder, mixed,
                    damaged>>
    BY <1>1 DEF PushedByOthers, PushedElsewhere, Push, refs, memory, pull, ghosts,
                vars
  <2>2. \A t \in Tickets : Content(t)' = Content(t) /\ (Pending(t) => Pending(t)')
    <3>1. \A t \in Tickets : Content(t)' = Content(t)
      BY <2>1, SameContent
    <3>2. \A t \in Tickets : Pending(t) => Pending(t)'
      BY <2>1 DEF Pending, Accepted
    <3>3. QED
      BY <3>1, <3>2
  <2>3. Clean => ExcerptsCurrent'
    BY <2>1, <2>2 DEF Clean, ExcerptsCurrent, Running
  <2>4. Clean => ResultsCurrent'
    BY <2>1 DEF Clean, ResultsCurrent, Accepted
  <2>5. Built' = Built
    BY <2>1 DEF Built, NewExcerpt, Contents
  <2>6. Clean => FileCurrent' /\ ClosedQuiet' /\ RemovedIsGone'
    BY <2>1, <2>5 DEF Clean, FileCurrent, ClosedQuiet, RemovedIsGone, Running,
                      Pulling, NoneLoaded, Loaded
  <2>7. QED
    BY <2>1, <2>3, <2>4, <2>6 DEF Clean, FaithfulOK
<1>2. CASE Crash \/ ConsumeInvalid \/ UpdateClosed
  BY <1>2 DEF Crash, ConsumeInvalid, UpdateClosed, Die, FaithfulOK
<1>3. CASE \E rebuild \in BOOLEAN : Start(rebuild)
  BY <1>3, StartClean
<1>4. CASE Close \/ Exit
  BY <1>4, StopClean
<1>5. CASE \E t \in Tickets : OpenBug(t) \/ NewBug(t)
  BY <1>5, OpenClean, NewClean
<1>6. CASE \E t \in Tickets : RemoveBug(t) \/ ResetBug(t)
  BY <1>6, RemoveClean, ResetClean
<1>7. CASE (\E t \in Tickets : OpenMissing(t)) \/ SaveInvalid
  BY <1>7, EndClean
<1>8. CASE (\E status \in BOOLEAN : Stage(status)) \/ SaveAndBack
  BY <1>8, EditedClean
<1>9. CASE Notify \/ ReadReset \/ DropExcerpt
  BY <1>9, NotifyClean
<1>10. CASE Write
  BY <1>10, WriteClean
<1>11. CASE RefreshCache
  BY <1>11, RefreshClean
<1>12. CASE \E fetched \in BOOLEAN : StartPull(fetched)
  BY <1>12, StartPullClean
<1>13. CASE \/ \E t \in Tickets : MergeSkip(t) \/ MergeRead(t)
            \/ MergeWrite \/ Forward \/ Consume \/ EndMerge
  BY <1>13, MergeClean
<1>14. CASE UpdateExcerpt \/ WriteMerged
  BY <1>14, UpdateClean
<1>15. QED
  BY <1>1, <1>2, <1>3, <1>4, <1>5, <1>6, <1>7, <1>8, <1>9, <1>10, <1>11, <1>12,
     <1>13, <1>14 DEF Next, MainThread, Merging

(* For any tickets, clones' writes and any size of the cache: what the next*)
(* command finds in the bug-cache file are the excerpts buildCache would   *)
(* make of the refs, unless a session was cut short, dropped work or loaded*)
(* a ticket while it pulled.                                               *)
THEOREM FaithfulCorrect == Spec => []CacheFaithful
<1>1. Init => FaithfulOK
  <2> SUFFICES ASSUME Init PROVE FaithfulOK
    OBVIOUS
  <2>1. main.at = "off" /\ merger.at = "off" /\ forwarder.at = "off"
    BY DEF Init, Quiet
  <2>2. file = None /\ ~ mixed
    BY DEF Init
  <2>3. QED
    BY <2>1, <2>2 DEF FaithfulOK, Clean, ClosedQuiet, RemovedIsGone, ResultsCurrent,
                      ExcerptsCurrent, FileCurrent, Running
<1>2. Typed /\ FaithfulOK /\ [Next]_vars => FaithfulOK'
  BY FaithfulStep
<1>3. FaithfulOK => CacheFaithful
  BY DEF FaithfulOK, Clean, FileCurrent, Running, CacheFaithful
<1>4. QED
  BY <1>1, <1>2, <1>3, TypedAlways, PTL DEF Spec

-----------------------------------------------------------------------------
(* RepoCache implements PublishedHistory *)

(* The steps that move no ref of the remote and no tracking ref.           *)
LocalStep ==
    \/ \E rebuild \in BOOLEAN : Start(rebuild)
    \/ \E t \in Tickets : OpenBug(t) \/ OpenMissing(t) \/ NewBug(t) \/ ResetBug(t)
    \/ \E status \in BOOLEAN : Stage(status)
    \/ SaveAndBack \/ SaveInvalid \/ Notify \/ Write
    \/ DropExcerpt \/ ReadReset \/ RefreshCache
    \/ Close \/ Exit \/ Crash
    \/ Merging

LEMMA LocalSteps ==
    ASSUME LocalStep
    PROVE  UNCHANGED <<server, tracking>>
<1>1. CASE \/ \E rebuild \in BOOLEAN : Start(rebuild)
           \/ \E t \in Tickets : OpenBug(t) \/ OpenMissing(t) \/ NewBug(t) \/ ResetBug(t)
           \/ \E status \in BOOLEAN : Stage(status)
  BY <1>1 DEF Start, OpenBug, OpenMissing, NewBug, ResetBug, Stage, refs
<1>2. CASE \/ SaveAndBack \/ SaveInvalid \/ Notify \/ Write
           \/ DropExcerpt \/ ReadReset \/ RefreshCache
           \/ Close \/ Exit \/ Crash
  BY <1>2 DEF SaveAndBack, SaveInvalid, Notify, Write, DropExcerpt, ReadReset,
              RefreshCache, Close, Exit, Crash, Die, refs
<1>3. CASE \/ \E t \in Tickets : MergeSkip(t) \/ MergeRead(t)
           \/ MergeWrite \/ Forward \/ Consume \/ ConsumeInvalid
           \/ UpdateExcerpt \/ UpdateClosed \/ EndMerge \/ WriteMerged
  BY <1>3 DEF MergeSkip, MergeRead, MergeWrite, Forward, Consume, ConsumeInvalid,
              UpdateExcerpt, UpdateClosed, EndMerge, WriteMerged, Die, refs
<1>4. QED
  BY <1>1, <1>2, <1>3 DEF LocalStep, Merging

(* The remote grows, by what somebody else pushes. *)
LEMMA GrowsByOne ==
    ASSUME Inv, NEW t \in Tickets, NEW c \in Commits,
           server' = [server EXCEPT ![t] = Append(@, c)]
    PROVE  \A u \in Tickets : IsPrefix(server[u], server'[u])
<1> SUFFICES ASSUME NEW u \in Tickets
             PROVE  IsPrefix(server[u], server'[u])
  OBVIOUS
<1>1. server \in [Tickets -> Chains]
  BY DEF Inv, DataOK
<1>2. server[u] \in Seq(Commits) /\ server'[u] \in Seq(Commits)
  BY <1>1 DEF Chains
<1>3. server'[u] = server[u] \/ server'[u] = Append(server[u], c)
  BY <1>1
<1>4. IsPrefix(server[u], Append(server[u], c))
  BY <1>2, AppendPrefix
<1>5. QED
  BY <1>2, <1>3, <1>4, PrefixReflexive

LEMMA OthersGrow ==
    ASSUME Inv, NEW t \in Tickets,
           (\E status \in BOOLEAN : PushedByOthers(t, status)) \/ PushedElsewhere(t)
    PROVE  \A u \in Tickets : IsPrefix(server[u], server'[u])
<1>1. CASE \E status \in BOOLEAN : PushedByOthers(t, status)
  <2>1. [pack |-> Len(packs) + 1, by |-> Them] \in Commits
    BY DEF Inv, DataOK, Commits
  <2>2. QED
    BY <1>1, <2>1, GrowsByOne DEF PushedByOthers
<1>2. CASE PushedElsewhere(t)
  <2>1. PICK i \in DOMAIN local[t] :
          server' = [server EXCEPT ![t] =
                       Append(@, [pack |-> local[t][i].pack, by |-> Them])]
    BY <1>2 DEF PushedElsewhere
  <2>2. local[t] \in Seq(Commits)
    BY DEF Inv, DataOK, Chains
  <2>3. local[t][i] \in Commits
    BY <2>1, <2>2
  <2>4. [pack |-> local[t][i].pack, by |-> Them] \in Commits
    BY <2>3 DEF Commits
  <2>5. QED
    BY <2>1, <2>4, GrowsByOne
<1>3. QED
  BY <1>1, <1>2

(* What a push leaves in the remote and in the tracking refs.              *)
LEMMA PushedRefs ==
    ASSUME Inv, Push
    PROVE  \A t \in Tickets :
             /\ IsPrefix(server[t], server'[t])
             /\ \/ tracking'[t] = tracking[t]
                \/ tracking'[t] = server'[t]
<1> SUFFICES ASSUME NEW t \in Tickets
             PROVE  /\ IsPrefix(server[t], server'[t])
                    /\ \/ tracking'[t] = tracking[t]
                       \/ tracking'[t] = server'[t]
  OBVIOUS
<1>1. IsPrefix(server[t], server[t])
  BY PrefixReflexive DEF Inv, DataOK, Chains
<1>2. /\ server'[t] = IF t \in ToPush THEN local[t] ELSE server[t]
      /\ tracking'[t] = IF t \in ToPush THEN local[t] ELSE tracking[t]
      /\ t \in ToPush => IsPrefix(server[t], local[t])
  BY DEF Push
<1>3. QED
  BY <1>1, <1>2

(* The variables of PublishedHistory. *)
LEMMA OfOriginAt ==
    /\ Origin = {"origin"}
    /\ \A table : OfOrigin(table)["origin"] = table
BY DEF Origin, OfOrigin

LEMMA PublishOfOrigin ==
    ASSUME NEW r \in {Us, Them},
           \A t \in Tickets : IsPrefix(server[t], server'[t]),
           \/ tracking' = tracking
           \/ /\ r = Us
              /\ \A t \in Tickets : tracking'[t] \in {tracking[t], server'[t]}
    PROVE  History!Publish(r, "origin")
<1> DEFINE known == [q \in {Us, Them} |->
                       OfOrigin(IF q = Us THEN tracking
                                ELSE [t \in Tickets |-> << >>])]
<1>1. ASSUME NEW q \in {Us, Them}, NEW t \in Tickets
      PROVE  \/ known'[q]["origin"][t] = known[q]["origin"][t]
             \/ q = r /\ known'[q]["origin"][t] = OfOrigin(server)'["origin"][t]
  <2>1. CASE q # Us
    BY <2>1, OfOriginAt
  <2>2. CASE q = Us
    BY <2>2, OfOriginAt
  <2>3. QED
    BY <2>1, <2>2
<1> HIDE DEF known
<1>2. \A t \in Tickets :
         IsPrefix(OfOrigin(server)["origin"][t], OfOrigin(server)'["origin"][t])
  BY OfOriginAt
<1>3. QED
  BY <1>1, <1>2, OfOriginAt DEF History!Publish, History!IsPrefix, IsPrefix, known

LEMMA CacheHistoryStep == Inv /\ [Next]_vars => [History!Next]_(History!vars)
<1> SUFFICES ASSUME Inv, [Next]_vars
             PROVE  [History!Next]_(History!vars)
  OBVIOUS
<1>0. "origin" \in Origin
  BY OfOriginAt
<1>1. ASSUME NEW r \in {Us, Them}, History!Publish(r, "origin")
      PROVE  History!Next
  BY <1>0, <1>1 DEF History!Next
<1>2. ASSUME NEW t \in Tickets, NEW status \in BOOLEAN, PushedByOthers(t, status)
      PROVE  History!Next
  <2>1. tracking' = tracking
    BY <1>2 DEF PushedByOthers
  <2>2. QED
    BY <1>1, <1>2, <2>1, OthersGrow, PublishOfOrigin
<1>3. ASSUME NEW t \in Tickets, PushedElsewhere(t)
      PROVE  History!Next
  <2>1. tracking' = tracking
    BY <1>3 DEF PushedElsewhere
  <2>2. QED
    BY <1>1, <1>3, <2>1, OthersGrow, PublishOfOrigin
<1>4. ASSUME Push
      PROVE  History!Next
  BY <1>1, <1>4, PushedRefs, PublishOfOrigin
<1>5. UNCHANGED <<server, tracking>> => UNCHANGED History!vars
  BY DEF History!vars, OfOrigin
<1>6. ASSUME NEW fetched \in BOOLEAN, StartPull(fetched)
      PROVE  [History!Next]_(History!vars)
  <2>1. server' = server /\ tracking' \in {server, tracking}
    BY <1>6 DEF StartPull
  <2>2. CASE tracking' = server
    <3>1. [q \in {Us, Them} |-> OfOrigin(IF q = Us THEN tracking
                                         ELSE [t \in Tickets |-> << >>])]'
            = [[q \in {Us, Them} |-> OfOrigin(IF q = Us THEN tracking
                                         ELSE [t \in Tickets |-> << >>])]
                 EXCEPT ![Us]["origin"] = OfOrigin(server)["origin"]]
      BY <2>2 DEF OfOrigin, Origin
    <3>2. OfOrigin(server)' = OfOrigin(server)
      BY <2>1
    <3>3. History!Learn(Us, "origin")
      BY <3>1, <3>2 DEF History!Learn
    <3>4. QED
      BY <1>0, <3>3 DEF History!Next
  <2>3. QED
    BY <1>5, <2>1, <2>2
<1>7. ASSUME NEW t \in Tickets, RemoveBug(t)
      PROVE  History!Next
  <2>1. server' = server /\ tracking' = [tracking EXCEPT ![t] = << >>]
    BY <1>7 DEF RemoveBug
  <2>2. History!Forget(Us, t)
    BY <2>1 DEF History!Forget, OfOrigin
  <2>3. QED
    BY <2>2 DEF History!Next
<1>8. LocalStep => UNCHANGED <<server, tracking>>
  BY LocalSteps
<1>9. UNCHANGED vars => UNCHANGED <<server, tracking>>
  BY DEF vars, refs
<1>10. QED
  BY <1>2, <1>3, <1>4, <1>5, <1>6, <1>7, <1>8, <1>9 DEF Next, MainThread, LocalStep

(* The remote of a clone whose threads pull, merge and push is append-only *)
(* too, and the tracking refs record only what it has published.           *)
THEOREM ImplementsHistory == Spec => PublishesHistory
<1>1. Init => History!Init
  BY DEF Init, History!Init, OfOrigin
<1>2. QED
  BY <1>1, InvAlways, CacheHistoryStep, PTL DEF Spec, PublishesHistory, History!Spec

-----------------------------------------------------------------------------
(* Every operation shows in the refs as one step *)

(* Every chain is made of packs that have been written, and what is staged *)
(* is such a pack.                                                         *)
Written(chain) == PackIds(chain) \subseteq 1 .. Len(packs)

ChainsWritten ==
    /\ \A t \in Tickets : /\ Written(server[t]) /\ Written(tracking[t])
                          /\ Written(local[t]) /\ Written(bugs[t].base)
    /\ \A t \in Tickets : NeedCommit(t) => bugs[t].staged[1] \in 1 .. Len(packs)
    /\ merger.at = "merge" => Written(merger.chain)

(* What is staged is in no ref yet. *)
InNoRef(p) ==
    \A t \in Tickets : /\ p \notin PackIds(server[t])
                       /\ p \notin PackIds(tracking[t])
                       /\ p \notin PackIds(local[t])

StagedIsNew ==
    ~ mixed => \A t \in Tickets : NeedCommit(t) => InNoRef(bugs[t].staged[1])

(* The tracking refs are cuts of the remote's history. *)
TrackingBehind == \A t \in Tickets : IsPrefix(tracking[t], server[t])

(* The chain that a pull makes of ours and theirs. *)
MakesOf(ours, theirs, chain) ==
    /\ Valid(theirs)
    /\ \/ ours = << >> /\ chain = theirs
       \/ /\ ours # << >> /\ ~ NothingBetween(ours, theirs)
          /\ ~ StatusConflict(ours, theirs)
          /\ chain = Rebase(ours, theirs, Us)

(* What the merger is about to write is still right: the refs are as they  *)
(* were when it read them.                                                 *)
MergeStillRight ==
    ~ mixed /\ merger.at = "merge" =>
        MakesOf(local[merger.t], tracking[merger.t], merger.chain)

Whole == ChainsWritten /\ StagedIsNew /\ TrackingBehind /\ MergeStillRight

LEMMA WholeInit == Init => Whole
<1> SUFFICES ASSUME Init PROVE Whole
  OBVIOUS
<1>1. PackIds(<< >>) = {}
  BY DEF PackIds
<1>2. ChainsWritten
  BY <1>1 DEF Init, ChainsWritten, Written, NeedCommit, NotLoaded, Quiet
<1>3. StagedIsNew
  BY DEF Init, StagedIsNew, NeedCommit, NotLoaded
<1>4. TrackingBehind
  <2>1. << >> \in Chains
    BY DEF Chains
  <2>2. IsPrefix(<< >>, << >>)
    BY <2>1, PrefixReflexive DEF Chains
  <2>3. QED
    BY <2>2 DEF Init, TrackingBehind
<1>5. MergeStillRight
  BY DEF Init, MergeStillRight, Quiet
<1>6. QED
  BY <1>2, <1>3, <1>4, <1>5 DEF Whole

(* More packs are written. *)
LEMMA PacksGrow ==
    ASSUME Inv, NEW t \in Tickets, NEW status \in BOOLEAN, NewPack(t, status)
    PROVE  /\ packs' \in Seq(Packs)
           /\ Len(packs) \in Nat /\ Len(packs') = Len(packs) + 1
           /\ \A i \in 1 .. Len(packs) : packs'[i] = packs[i]
<1>1. packs \in Seq(Packs)
  BY DEF Inv, DataOK
<1>2. PICK p : p = [ticket |-> t, status |-> status]
  OBVIOUS
<1>3. packs' = Append(packs, p) /\ p \in Packs
  BY <1>2 DEF NewPack, Packs
<1>4. QED
  BY <1>1, <1>3

LEMMA WrittenStays ==
    ASSUME Len(packs) \in Nat, Len(packs') \in Nat, Len(packs) <= Len(packs'),
           NEW chain, Written(chain)
    PROVE  Written(chain)'
BY DEF Written

(* The packs of a part of a chain. *)
LEMMA ExtraPacks ==
    ASSUME NEW chain \in Chains, NEW n \in 0 .. Len(chain)
    PROVE  \A i \in DOMAIN Extra(chain, n) : Extra(chain, n)[i].pack \in PackIds(chain)
<1>1. chain \in Seq(Commits) /\ Len(chain) \in Nat
  BY DEF Chains
<1>2. /\ Extra(chain, n) \in Seq(Commits)
      /\ Len(Extra(chain, n)) = Len(chain) - n
      /\ \A j \in 1 .. Len(chain) - n : Extra(chain, n)[j] = chain[j + n]
  BY <1>1, ExtraProperties
<1>3. ASSUME NEW i \in DOMAIN Extra(chain, n)
      PROVE  Extra(chain, n)[i].pack \in PackIds(chain)
  <2>1. i \in 1 .. Len(chain) - n /\ i + n \in DOMAIN chain
    BY <1>1, <1>2
  <2>2. QED
    BY <1>2, <2>1 DEF PackIds
<1>4. QED
  BY <1>3

LEMMA CommonAncestorAt ==
    ASSUME NEW ours \in Chains, NEW theirs \in Chains
    PROVE  /\ CommonAncestor(ours, theirs) \in 0 .. Len(ours)
           /\ CommonAncestor(ours, theirs) \in 0 .. Len(theirs)
<1>1. LET k == CommonAncestor(ours, theirs)
      IN  k \in 0 .. Len(ours) /\ k <= Len(theirs)
  BY CommonAncestorProperties DEF Chains
<1>2. Len(ours) \in Nat /\ Len(theirs) \in Nat
  BY DEF Chains
<1>3. QED
  BY <1>1, <1>2

(* Whether two chains are in conflict depends on their own packs only.     *)
LEMMA ConflictStays ==
    ASSUME NEW ours \in Chains, Written(ours),
           NEW theirs \in Chains, Written(theirs),
           \A i \in 1 .. Len(packs) : packs'[i] = packs[i]
    PROVE  StatusConflict(ours, theirs)' <=> StatusConflict(ours, theirs)
<1> DEFINE k == CommonAncestor(ours, theirs)
<1>1. k \in 0 .. Len(ours) /\ k \in 0 .. Len(theirs)
  BY CommonAncestorAt
<1>2. /\ \A i \in DOMAIN Extra(ours, k) :
            packs'[Extra(ours, k)[i].pack] = packs[Extra(ours, k)[i].pack]
      /\ \A i \in DOMAIN Extra(theirs, k) :
            packs'[Extra(theirs, k)[i].pack] = packs[Extra(theirs, k)[i].pack]
  BY <1>1, ExtraPacks DEF Written
<1>3. /\ StatusChanged(Extra(ours, k))' <=> StatusChanged(Extra(ours, k))
      /\ StatusChanged(Extra(theirs, k))' <=> StatusChanged(Extra(theirs, k))
  BY <1>2 DEF StatusChanged
<1>4. QED
  BY <1>3 DEF StatusConflict

(* The merge under way is as good as before if the refs of its ticket are. *)
LEMMA StillRight ==
    ASSUME Inv, Whole,
           \A i \in 1 .. Len(packs) : packs'[i] = packs[i],
           ~ mixed' /\ merger'.at = "merge" =>
              /\ ~ mixed /\ merger.at = "merge"
              /\ merger'.t = merger.t /\ merger'.chain = merger.chain
              /\ local'[merger.t] = local[merger.t]
              /\ tracking'[merger.t] = tracking[merger.t]
    PROVE  MergeStillRight'
<1> SUFFICES ASSUME ~ mixed', merger'.at = "merge"
             PROVE  MakesOf(local[merger.t], tracking[merger.t], merger.chain)'
  BY DEF MergeStillRight
<1>1. PICK t : t = merger.t
  OBVIOUS
<1>2. PICK ours, theirs, chain :
        ours = local[t] /\ theirs = tracking[t] /\ chain = merger.chain
  OBVIOUS
<1>3. /\ t \in Tickets
      /\ ours \in Chains /\ theirs \in Chains
      /\ Written(ours) /\ Written(theirs)
  BY <1>1, <1>2 DEF Inv, MergeUnderWay, DataOK, Whole, ChainsWritten
<1>4. MakesOf(ours, theirs, chain)
  BY <1>1, <1>2 DEF Whole, MergeStillRight
<1>5. StatusConflict(ours, theirs)' <=> StatusConflict(ours, theirs)
  BY <1>3, ConflictStays
<1>6. /\ local'[merger'.t] = ours /\ tracking'[merger'.t] = theirs
      /\ merger'.chain = chain
  BY <1>1, <1>2
<1>7. MakesOf(ours, theirs, chain)'
  BY <1>4, <1>5, <1>6 DEF MakesOf
<1>8. QED
  BY <1>6, <1>7

(* The refs and the packs stay; what is loaded comes from the refs.        *)
LEMMA QuietWhole ==
    ASSUME Inv, Whole, UNCHANGED <<packs, server, tracking, local>>,
           \A t \in Tickets :
              \/ bugs'[t] = bugs[t]
              \/ /\ bugs'[t].staged = << >>
                 /\ bugs'[t].base = << >> \/ bugs'[t].base = local[t],
           merger'.at # "merge" \/ merger' = merger,
           ~ mixed' => ~ mixed \/ (NoneLoaded' /\ ~ Pulling'),
           StagedIsLoaded'
    PROVE  Whole'
<1>1. PackIds(<< >>) = {}
  BY DEF PackIds
<1>2. ChainsWritten'
  <2>1. \A t \in Tickets : Written(bugs'[t].base)
    BY <1>1 DEF Whole, ChainsWritten, Written
  <2>2. \A t \in Tickets : NeedCommit(t)' => bugs'[t].staged[1] \in 1 .. Len(packs)
    BY DEF Whole, ChainsWritten, NeedCommit
  <2>3. QED
    BY <2>1, <2>2 DEF Whole, ChainsWritten, Written
<1>3. StagedIsNew'
  <2>1. ASSUME ~ mixed', NEW t \in Tickets, NeedCommit(t)'
        PROVE  bugs'[t] = bugs[t] /\ NeedCommit(t) /\ ~ mixed
    <3>1. ~ mixed
      BY <2>1 DEF NoneLoaded, StagedIsLoaded
    <3>2. QED
      BY <2>1, <3>1 DEF NeedCommit
  <2>2. QED
    BY <2>1 DEF Whole, StagedIsNew, InNoRef
<1>4. TrackingBehind'
  BY DEF Whole, TrackingBehind
<1>5. MergeStillRight'
  <2>1. ~ mixed' /\ merger'.at = "merge" => ~ mixed
    BY DEF Pulling
  <2>2. QED
    BY <2>1, StillRight
<1>6. QED
  BY <1>2, <1>3, <1>4, <1>5 DEF Whole

(* Others push: a new pack, or one that we have not published yet.         *)
RemoteGains(t) ==
    /\ UNCHANGED <<tracking, local, bugs, main, merger, forwarder, mixed>>
    /\ \A u \in Tickets : u # t => server'[u] = server[u]
    /\ Len(packs) \in Nat /\ Len(packs') \in Nat /\ Len(packs) <= Len(packs')
    /\ \A i \in 1 .. Len(packs) : packs'[i] = packs[i]
    /\ PackIds(server'[t]) \subseteq 1 .. Len(packs')
    /\ \A p \in 1 .. Len(packs) : p \in PackIds(server'[t]) =>
          p \in PackIds(server[t]) \cup PackIds(local[t])

LEMMA OthersGain ==
    ASSUME Inv, Whole, NEW t \in Tickets,
           (\E status \in BOOLEAN : PushedByOthers(t, status)) \/ PushedElsewhere(t)
    PROVE  RemoteGains(t)
<1>1. /\ server \in [Tickets -> Chains] /\ Written(server[t]) /\ Written(local[t])
      /\ server[t] \in Seq(Commits) /\ local[t] \in Seq(Commits)
      /\ Len(packs) \in Nat
  BY DEF Inv, DataOK, Chains, Whole, ChainsWritten
<1>2. ASSUME NEW c \in Commits, server' = [server EXCEPT ![t] = Append(@, c)]
      PROVE  /\ PackIds(server'[t]) = PackIds(server[t]) \cup {c.pack}
             /\ \A u \in Tickets : u # t => server'[u] = server[u]
  BY <1>1, <1>2, AppendPackId
<1>3. ASSUME NEW status \in BOOLEAN, PushedByOthers(t, status)
      PROVE  RemoteGains(t)
  <2>1. PICK c : c = [pack |-> Len(packs) + 1, by |-> Them]
    OBVIOUS
  <2>2. c \in Commits /\ c.pack = Len(packs) + 1
    BY <1>1, <2>1 DEF Commits
  <2>3. /\ server' = [server EXCEPT ![t] = Append(@, c)]
        /\ NewPack(t, status)
        /\ UNCHANGED <<tracking, local, bugs, main, merger, forwarder, mixed>>
    BY <1>3, <2>1 DEF PushedByOthers, memory, pull, ghosts
  <2>4. /\ Len(packs') = Len(packs) + 1
        /\ \A i \in 1 .. Len(packs) : packs'[i] = packs[i]
    BY <2>3, PacksGrow
  <2>5. PackIds(server'[t]) = PackIds(server[t]) \cup {Len(packs) + 1}
          /\ \A u \in Tickets : u # t => server'[u] = server[u]
    BY <1>2, <2>2, <2>3
  <2>6. QED
    BY <1>1, <2>3, <2>4, <2>5 DEF Written, RemoteGains
<1>4. ASSUME PushedElsewhere(t)
      PROVE  RemoteGains(t)
  <2>1. PICK i \in DOMAIN local[t] :
          server' = [server EXCEPT ![t] =
                       Append(@, [pack |-> local[t][i].pack, by |-> Them])]
    BY <1>4 DEF PushedElsewhere
  <2>2. PICK c : c = [pack |-> local[t][i].pack, by |-> Them]
    OBVIOUS
  <2>3. local[t][i] \in Commits
    BY <1>1, <2>1
  <2>4. c \in Commits /\ c.pack \in PackIds(local[t])
    BY <2>1, <2>2, <2>3 DEF Commits, PackIds
  <2>5. /\ server' = [server EXCEPT ![t] = Append(@, c)]
        /\ UNCHANGED <<packs, tracking, local, bugs, main, merger, forwarder, mixed>>
    BY <1>4, <2>1, <2>2 DEF PushedElsewhere, memory, pull, ghosts
  <2>6. PackIds(server'[t]) = PackIds(server[t]) \cup {c.pack}
          /\ \A u \in Tickets : u # t => server'[u] = server[u]
    BY <1>2, <2>4, <2>5
  <2>7. QED
    BY <1>1, <2>4, <2>5, <2>6 DEF Written, RemoteGains
<1>5. QED
  BY <1>3, <1>4

LEMMA OthersWhole ==
    ASSUME Inv, Whole, NEW t \in Tickets,
           (\E status \in BOOLEAN : PushedByOthers(t, status)) \/ PushedElsewhere(t)
    PROVE  Whole'
<1>1. RemoteGains(t)
  BY OthersGain
<1>2. \A chain : Written(chain) => Written(chain)'
  BY <1>1, WrittenStays DEF RemoteGains
<1>3. ChainsWritten'
  <2>1. \A u \in Tickets : PackIds(server'[u]) \subseteq 1 .. Len(packs')
    BY <1>1, <1>2 DEF RemoteGains, Whole, ChainsWritten, Written
  <2>2. \A u \in Tickets : NeedCommit(u)' => bugs'[u].staged[1] \in 1 .. Len(packs')
    BY <1>1 DEF RemoteGains, Whole, ChainsWritten, NeedCommit
  <2>3. QED
    BY <1>1, <1>2, <2>1, <2>2 DEF RemoteGains, Whole, ChainsWritten, Written
<1>4. StagedIsNew'
  <2>1. \A u \in Tickets : NeedCommit(u) => bugs[u].staged[1] \in 1 .. Len(packs)
    BY DEF Whole, ChainsWritten
  <2>2. QED
    BY <1>1, <2>1 DEF RemoteGains, Whole, StagedIsNew, InNoRef, NeedCommit
<1>5. TrackingBehind'
  <2>1. SUFFICES ASSUME NEW u \in Tickets
                 PROVE  IsPrefix(tracking[u], server'[u])
    BY <1>1 DEF RemoteGains, TrackingBehind
  <2>2. IsPrefix(tracking[u], server[u]) /\ IsPrefix(server[u], server'[u])
    BY OthersGrow DEF Whole, TrackingBehind
  <2>3. tracking[u] \in Seq(Commits) /\ server[u] \in Seq(Commits)
          /\ server'[u] \in Seq(Commits)
    <3>1. Inv'
      BY OthersStep, ElsewhereStep
    <3>2. QED
      BY <3>1 DEF Inv, DataOK, Chains
  <2>4. QED
    BY <2>2, <2>3, PrefixTransitive
<1>6. MergeStillRight'
  BY <1>1, StillRight DEF RemoteGains
<1>7. QED
  BY <1>3, <1>4, <1>5, <1>6 DEF Whole

(* An operation is staged: the pack is new, and nothing else is staged.    *)
LEMMA StageWhole ==
    ASSUME Inv, LoadedOK, Whole, NEW status \in BOOLEAN, Stage(status)
    PROVE  Whole'
<1>1. PICK t : t = main.t
  OBVIOUS
<1>2. t \in Tickets
  BY <1>1 DEF Inv, MainTicket, Stage
<1>3. /\ UNCHANGED <<server, tracking, local, merger, forwarder, mixed>>
      /\ NewPack(t, status)
      /\ bugs' = [bugs EXCEPT ![t].staged = <<Len(packs) + 1>>]
      /\ main.at = "show" /\ ~ NeedCommit(t)
  BY <1>1 DEF Stage, refs, pull, ghosts
<1>4. /\ bugs \in [Tickets -> BugCaches]
      /\ Len(packs) \in Nat /\ Len(packs') = Len(packs) + 1
      /\ \A i \in 1 .. Len(packs) : packs'[i] = packs[i]
  BY <1>2, <1>3, PacksGrow DEF Inv, DataOK
<1>5. /\ bugs'[t].staged[1] = Len(packs) + 1
      /\ \A u \in Tickets : bugs'[u].base = bugs[u].base
      /\ \A u \in Tickets : u # t => bugs'[u] = bugs[u]
  BY <1>2, <1>3, <1>4 DEF BugCaches
<1>6. \A u \in Tickets : ~ NeedCommit(u)
  BY <1>1, <1>3 DEF LoadedOK, EditInView
<1>7. \A chain : Written(chain) => Written(chain)'
  BY <1>4, WrittenStays
<1>8. \A u \in Tickets : NeedCommit(u)' => u = t
  BY <1>5, <1>6 DEF NeedCommit
<1>9. ChainsWritten'
  <2>1. Len(packs) + 1 \in 1 .. Len(packs')
    BY <1>4
  <2>2. QED
    BY <1>3, <1>5, <1>7, <1>8, <2>1 DEF Whole, ChainsWritten, Written
<1>10. StagedIsNew'
  <2>1. Len(packs) + 1 \notin 1 .. Len(packs)
    BY <1>4
  <2>2. InNoRef(Len(packs) + 1)
    BY <2>1 DEF Whole, ChainsWritten, Written, InNoRef
  <2>3. QED
    BY <1>3, <1>5, <1>8, <2>2 DEF StagedIsNew, InNoRef
<1>11. TrackingBehind' /\ MergeStillRight'
  BY <1>3, <1>4, StillRight DEF Whole, TrackingBehind
<1>12. QED
  BY <1>9, <1>10, <1>11 DEF Whole

(* A new ticket has no refs, and outside a pull nothing is being merged.   *)
LEMMA NoRefYet ==
    ASSUME Inv, NEW t \in Tickets, NewBug(t)
    PROVE  server[t] = << >> /\ tracking[t] = << >> /\ local[t] = << >>
<1>1. packs \in Seq(Packs) /\ \A i \in DOMAIN packs : packs[i].ticket # t
  BY DEF Inv, DataOK, NewBug
<1>2. QED
  BY <1>1 DEF Inv, KnownChains, Known

LEMMA NewBugWhole ==
    ASSUME Inv, LoadedOK, Whole, NEW t \in Tickets, NewBug(t)
    PROVE  Whole'
<1>1. PICK c : c = [pack |-> Len(packs) + 1, by |-> Us]
  OBVIOUS
<1>2. /\ UNCHANGED <<server, tracking, merger, forwarder>>
      /\ NewPack(t, FALSE)
      /\ local' = [local EXCEPT ![t] = <<c>>]
      /\ Load(t, local'[t])
      /\ main.at \in {"opened", "table"}
  BY <1>1 DEF NewBug, pull, Ready
<1>3. /\ local \in [Tickets -> Chains] /\ bugs \in [Tickets -> BugCaches]
      /\ Len(packs) \in Nat /\ Len(packs') = Len(packs) + 1
      /\ \A i \in 1 .. Len(packs) : packs'[i] = packs[i]
  BY <1>2, PacksGrow DEF Inv, DataOK
<1>4. c \in Commits /\ c.pack = Len(packs) + 1
  BY <1>1, <1>3 DEF Commits
<1>5. <<c>> \in Chains /\ PackIds(<<c>>) = {Len(packs) + 1}
  <2>1. <<c>> \in Seq(Commits) /\ DOMAIN <<c>> = {1} /\ <<c>>[1] = c
    BY <1>4
  <2>2. QED
    BY <1>4, <2>1 DEF PackIds, Chains
<1>6. /\ local'[t] = <<c>>
      /\ \A u \in Tickets : u # t => local'[u] = local[u]
  BY <1>2, <1>3
<1>7. /\ \A u \in Tickets :
            \/ bugs'[u] = NotLoaded
            \/ u # t /\ bugs'[u] = bugs[u]
            \/ u = t /\ bugs'[u] = [base |-> <<c>>, staged |-> << >>]
      /\ mixed' = (mixed \/ Pulling)
  BY <1>2, <1>3, <1>5, <1>6, LoadEffect
<1>8. \A u \in Tickets : ~ NeedCommit(u)
  BY <1>2 DEF LoadedOK, EditInView
<1>9. \A u \in Tickets : ~ NeedCommit(u)'
  BY <1>7, <1>8 DEF NeedCommit, NotLoaded
<1>10. \A chain : Written(chain) => Written(chain)'
  BY <1>3, WrittenStays
<1>11. ChainsWritten'
  <2>1. PackIds(<< >>) \subseteq 1 .. Len(packs') /\ PackIds(<<c>>) \subseteq 1 .. Len(packs')
    BY <1>3, <1>5 DEF PackIds
  <2>2. \A u \in Tickets : PackIds(bugs'[u].base) \subseteq 1 .. Len(packs')
    BY <1>7, <1>10, <2>1 DEF Whole, ChainsWritten, Written, NotLoaded
  <2>3. \A u \in Tickets : PackIds(local'[u]) \subseteq 1 .. Len(packs')
    BY <1>6, <1>10, <2>1 DEF Whole, ChainsWritten, Written
  <2>4. QED
    BY <1>2, <1>9, <1>10, <2>2, <2>3 DEF Whole, ChainsWritten, Written
<1>12. StagedIsNew'
  BY <1>9 DEF StagedIsNew
<1>13. TrackingBehind'
  BY <1>2 DEF Whole, TrackingBehind
<1>14. MergeStillRight'
  BY <1>2, <1>3, <1>7, StillRight DEF Pulling
<1>15. QED
  BY <1>11, <1>12, <1>13, <1>14 DEF Whole

(* A ticket is saved; no pull runs then, or the session is mixed.          *)
LEMMA SaveWhole ==
    ASSUME Inv, LoadedOK, Whole, SaveAndBack
    PROVE  Whole'
<1>1. PICK t : t = main.t
  OBVIOUS
<1>2. /\ UNCHANGED <<packs, server, tracking, merger, forwarder, mixed>>
      /\ main.at = "show" /\ Loaded(t)
  BY <1>1 DEF SaveAndBack, pull, ghosts
<1>3. t \in Tickets
  BY <1>1, <1>2 DEF Inv, MainTicket
<1>4. CASE UNCHANGED <<local, bugs>>
  <2>1. StagedIsLoaded'
    BY <1>4 DEF Inv, StagedIsLoaded, NeedCommit, Loaded
  <2>2. QED
    BY <1>2, <1>4, <2>1, QuietWhole
<1>5. CASE NeedCommit(t) /\ Commit(t)
  <2>1. PICK c : c = [pack |-> bugs[t].staged[1], by |-> Us]
    OBVIOUS
  <2>2. PICK chain : chain = Append(bugs[t].base, c)
    OBVIOUS
  <2>3. /\ local' = [local EXCEPT ![t] = chain]
        /\ bugs' = [bugs EXCEPT ![t] = [base |-> chain, staged |-> << >>]]
    BY <1>5, <2>1, <2>2 DEF Commit
  <2>4. /\ bugs[t].base \in Seq(Commits) /\ bugs[t].staged \in Seq(Nat)
        /\ bugs[t].staged # << >>
        /\ local \in [Tickets -> Chains] /\ bugs \in [Tickets -> BugCaches]
    BY <1>3, <1>5 DEF Inv, DataOK, BugCaches, NeedCommit, Chains
  <2>5. c \in Commits /\ c.pack = bugs[t].staged[1]
    BY <2>1, <2>4 DEF Commits
  <2>6. PackIds(chain) = PackIds(bugs[t].base) \cup {c.pack}
    BY <2>2, <2>4, <2>5, AppendPackId
  <2>7. /\ local'[t] = chain
        /\ bugs'[t].base = chain /\ bugs'[t].staged = << >>
        /\ \A u \in Tickets : u # t => local'[u] = local[u] /\ bugs'[u] = bugs[u]
    BY <1>3, <2>3, <2>4
  <2>8. Written(chain)
    BY <1>3, <1>5, <2>5, <2>6 DEF Whole, ChainsWritten, Written
  <2>9. \A u \in Tickets : ~ NeedCommit(u)'
    <3>1. \A u \in Tickets : NeedCommit(u) => u = t
      BY <1>1, <1>2 DEF LoadedOK, EditInView
    <3>2. QED
      BY <2>7, <3>1 DEF NeedCommit
  <2>10. ChainsWritten'
    <3>1. \A u \in Tickets : Written(local'[u]) /\ Written(bugs'[u].base)
      BY <2>7, <2>8 DEF Whole, ChainsWritten
    <3>2. QED
      BY <1>2, <2>9, <3>1 DEF Whole, ChainsWritten, Written
  <2>11. StagedIsNew' /\ TrackingBehind'
    BY <1>2, <2>9 DEF StagedIsNew, Whole, TrackingBehind
  <2>12. MergeStillRight'
    <3>1. mixed \/ merger.at # "merge"
      BY <1>2, <1>3 DEF Inv, Apart, NoneLoaded, Pulling
    <3>2. QED
      BY <1>2, <3>1 DEF MergeStillRight
  <2>13. QED
    BY <2>10, <2>11, <2>12 DEF Whole
<1>6. QED
  BY <1>1, <1>4, <1>5 DEF SaveAndBack

(* rm and reset are the first thing their session does. *)
LEMMA RemoveWhole ==
    ASSUME Inv, Whole, NEW t \in Tickets, RemoveBug(t)
    PROVE  Whole'
<1>1. /\ UNCHANGED <<packs, server, bugs, merger, forwarder, mixed>>
      /\ local' = [local EXCEPT ![t] = << >>]
      /\ tracking' = [tracking EXCEPT ![t] = << >>]
      /\ main.at = "opened"
  BY DEF RemoveBug, memory, pull, ghosts
<1>2. merger.at # "merge" /\ \A u \in Tickets : ~ NeedCommit(u)
  BY <1>1 DEF Inv, Bounds, Pulling, NoneLoaded, StagedIsLoaded
<1>3. \A u \in Tickets : /\ local'[u] = local[u] \/ local'[u] = << >>
                         /\ tracking'[u] = tracking[u] \/ tracking'[u] = << >>
  BY <1>1 DEF Inv, DataOK
<1>4. Written(<< >>)
  BY DEF Written, PackIds
<1>5. ChainsWritten'
  <2>1. \A u \in Tickets : Written(local'[u]) /\ Written(tracking'[u])
    BY <1>3, <1>4 DEF Whole, ChainsWritten
  <2>2. \A u \in Tickets : ~ NeedCommit(u)'
    BY <1>1, <1>2 DEF NeedCommit
  <2>3. QED
    BY <1>1, <1>2, <2>1, <2>2 DEF Whole, ChainsWritten, Written
<1>6. StagedIsNew'
  BY <1>1, <1>2 DEF StagedIsNew, NeedCommit
<1>7. TrackingBehind'
  <2>1. \A u \in Tickets : IsPrefix(<< >>, server[u])
    BY EmptyPrefix DEF Inv, DataOK, Chains
  <2>2. QED
    BY <1>1, <1>3, <2>1 DEF Whole, TrackingBehind
<1>8. MergeStillRight'
  BY <1>1, <1>2 DEF MergeStillRight
<1>9. QED
  BY <1>5, <1>6, <1>7, <1>8 DEF Whole

LEMMA ResetWhole ==
    ASSUME Inv, Whole, NEW t \in Tickets, ResetBug(t)
    PROVE  Whole'
<1>1. PICK chain : chain = IF NothingBetween(tracking[t], local[t])
                           THEN local[t] ELSE tracking[t]
  OBVIOUS
<1>2. /\ UNCHANGED <<packs, server, tracking, merger, forwarder>>
      /\ local' = [local EXCEPT ![t] = chain]
      /\ Load(t, local'[t])
      /\ main.at = "opened"
  BY <1>1 DEF ResetBug, pull
<1>3. /\ chain \in Chains /\ Written(chain)
      /\ local \in [Tickets -> Chains] /\ bugs \in [Tickets -> BugCaches]
  BY <1>1 DEF Inv, DataOK, Whole, ChainsWritten
<1>4. /\ local'[t] = chain
      /\ \A u \in Tickets : u # t => local'[u] = local[u]
  BY <1>2, <1>3
<1>5. merger.at # "merge" /\ \A u \in Tickets : ~ NeedCommit(u)
  BY <1>2 DEF Inv, Bounds, Pulling, NoneLoaded, StagedIsLoaded
<1>6. \A u \in Tickets :
         \/ bugs'[u] = NotLoaded
         \/ u # t /\ bugs'[u] = bugs[u]
         \/ u = t /\ bugs'[u] = [base |-> chain, staged |-> << >>]
  BY <1>2, <1>3, <1>4, LoadEffect
<1>7. \A u \in Tickets : ~ NeedCommit(u)'
  BY <1>5, <1>6 DEF NeedCommit, NotLoaded
<1>8. Written(<< >>)
  BY DEF Written, PackIds
<1>9. ChainsWritten'
  <2>1. \A u \in Tickets : Written(local'[u]) /\ Written(bugs'[u].base)
    BY <1>3, <1>4, <1>6, <1>8 DEF Whole, ChainsWritten, NotLoaded
  <2>2. QED
    BY <1>2, <1>5, <1>7, <2>1 DEF Whole, ChainsWritten, Written
<1>10. StagedIsNew' /\ TrackingBehind' /\ MergeStillRight'
  BY <1>2, <1>5, <1>7 DEF StagedIsNew, Whole, TrackingBehind, MergeStillRight
<1>11. QED
  BY <1>9, <1>10 DEF Whole

LEMMA FetchWhole ==
    ASSUME Inv, Whole, NEW fetched \in BOOLEAN, StartPull(fetched)
    PROVE  Whole'
<1>1. /\ UNCHANGED <<packs, server, local, bugs>>
      /\ tracking' = server \/ tracking' = tracking
      /\ merger'.at = "next"
      /\ ~ mixed' => ~ mixed
  BY DEF StartPull, memory
<1>2. ChainsWritten' /\ StagedIsNew' /\ MergeStillRight'
  BY <1>1 DEF Whole, ChainsWritten, Written, StagedIsNew, InNoRef, NeedCommit,
              MergeStillRight
<1>3. TrackingBehind'
  <2>1. \A u \in Tickets : IsPrefix(server[u], server[u])
    BY PrefixReflexive DEF Inv, DataOK, Chains
  <2>2. QED
    BY <1>1, <2>1 DEF Whole, TrackingBehind
<1>4. QED
  BY <1>2, <1>3 DEF Whole

(* A pull has read a ticket, and later writes what it made of it.          *)
LEMMA ReadWhole ==
    ASSUME Inv, Whole, NEW t \in Tickets, MergeRead(t)
    PROVE  Whole'
<1>1. PICK result, ours, theirs :
        result = Result(local[t], tracking[t]) /\ ours = local[t] /\ theirs = tracking[t]
  OBVIOUS
<1>2. PICK chain : chain = IF result = "updated" THEN Rebase(ours, theirs, Us)
                           ELSE theirs
  OBVIOUS
<1>3. /\ UNCHANGED <<packs, server, tracking, local, bugs, main, forwarder, mixed>>
      /\ ours # << >> => ~ NothingBetween(ours, theirs)
      /\ merger'.at = "merge" => result \notin Refused
      /\ merger'.t = t /\ merger'.chain = chain
  BY <1>1, <1>2 DEF MergeRead, refs, memory, ghosts
<1>4. /\ ours \in Seq(Commits) /\ theirs \in Seq(Commits)
      /\ Written(ours) /\ Written(theirs)
  BY <1>1 DEF Inv, DataOK, Chains, Whole, ChainsWritten
<1>5. \/ result = "invalid"
      \/ result = "new" /\ Valid(theirs) /\ ours = << >>
      \/ result = "conflict"
      \/ result = "updated" /\ Valid(theirs) /\ ours # << >>
           /\ ~ StatusConflict(ours, theirs)
  BY <1>1 DEF Result
<1>6. result \notin Refused => MakesOf(ours, theirs, chain)
  BY <1>2, <1>3, <1>5 DEF MakesOf, Refused
<1>7. Written(chain)
  <2>1. PackIds(Rebase(ours, theirs, Us)) = PackIds(ours) \cup PackIds(theirs)
    BY <1>4, OurCommits, RebasePackIds
  <2>2. QED
    BY <1>2, <1>4, <2>1 DEF Written
<1>8. ChainsWritten'
  BY <1>3, <1>7 DEF Whole, ChainsWritten, Written, NeedCommit
<1>9. StagedIsNew' /\ TrackingBehind'
  BY <1>3 DEF Whole, StagedIsNew, InNoRef, NeedCommit, TrackingBehind
<1>10. MergeStillRight'
  <2>1. MakesOf(ours, theirs, chain)' <=> MakesOf(ours, theirs, chain)
    BY <1>3 DEF MakesOf, StatusConflict, StatusChanged
  <2>2. local'[merger'.t] = ours /\ tracking'[merger'.t] = theirs
          /\ merger'.chain = chain
    BY <1>1, <1>3
  <2>3. merger'.at = "merge" => MakesOf(ours, theirs, chain)'
    BY <1>3, <1>6, <2>1
  <2>4. merger'.at = "merge" =>
          MakesOf(local[merger.t], tracking[merger.t], merger.chain)'
    BY <2>2, <2>3
  <2>5. QED
    BY <2>4 DEF MergeStillRight
<1>11. QED
  BY <1>8, <1>9, <1>10 DEF Whole

LEMMA WriteWhole ==
    ASSUME Inv, Whole, MergeWrite
    PROVE  Whole'
<1>1. PICK t, chain : t = merger.t /\ chain = merger.chain
  OBVIOUS
<1>2. /\ UNCHANGED <<packs, server, tracking, bugs, main, forwarder, mixed>>
      /\ local' = [local EXCEPT ![t] = chain]
      /\ merger.at = "merge" /\ merger' = [merger EXCEPT !.at = "send"]
  BY <1>1 DEF MergeWrite, memory, ghosts
<1>3. Written(chain)
  BY <1>1, <1>2 DEF Whole, ChainsWritten
<1>4. \A u \in Tickets : local'[u] = local[u] \/ local'[u] = chain
  BY <1>2 DEF Inv, DataOK
<1>5. merger'.at # "merge"
  BY <1>2
<1>6. ChainsWritten'
  BY <1>1, <1>2, <1>3, <1>4, <1>5 DEF Whole, ChainsWritten, Written, NeedCommit
<1>7. StagedIsNew'
  <2>1. ~ mixed' => \A u \in Tickets : ~ NeedCommit(u)
    BY <1>2 DEF Inv, Apart, Pulling, NoneLoaded, StagedIsLoaded
  <2>2. QED
    BY <1>2, <2>1 DEF StagedIsNew, NeedCommit
<1>8. TrackingBehind'
  BY <1>2 DEF Whole, TrackingBehind
<1>9. QED
  BY <1>5, <1>6, <1>7, <1>8 DEF Whole, MergeStillRight

(* A push leaves the tracking ref alone that a pull under way has read: its*)
(* ticket is behind the remote, and the push would be refused, or there is *)
(* no ref to push.                                                         *)
LEMMA PushWhole ==
    ASSUME Inv, Whole, Push
    PROVE  Whole'
<1>1. /\ UNCHANGED <<packs, local, bugs, main, merger, forwarder, mixed>>
      /\ server' = [t \in Tickets |-> IF t \in ToPush THEN local[t] ELSE server[t]]
      /\ tracking' = [t \in Tickets |-> IF t \in ToPush THEN local[t]
                                        ELSE tracking[t]]
      /\ \A t \in ToPush : IsPrefix(server[t], local[t])
  BY DEF Push, memory, pull, ghosts
<1>2. \A t \in Tickets :
         \/ server'[t] = server[t] /\ tracking'[t] = tracking[t]
         \/ t \in ToPush /\ server'[t] = local[t] /\ tracking'[t] = local[t]
  BY <1>1
<1>3. ChainsWritten'
  BY <1>1, <1>2 DEF Whole, ChainsWritten, Written, NeedCommit
<1>4. StagedIsNew'
  BY <1>1, <1>2 DEF Whole, StagedIsNew, InNoRef, NeedCommit
<1>5. TrackingBehind'
  <2>1. \A t \in Tickets : IsPrefix(local[t], local[t])
    BY PrefixReflexive DEF Inv, DataOK, Chains
  <2>2. QED
    BY <1>2, <2>1 DEF Whole, TrackingBehind
<1>6. ASSUME ~ mixed, merger.at = "merge"
      PROVE  tracking'[merger.t] = tracking[merger.t]
  <2>1. PICK t : t = merger.t
    OBVIOUS
  <2>2. t \in Tickets
    BY <1>6, <2>1 DEF Inv, MergeUnderWay
  <2>3. local[t] = << >> \/ ~ IsPrefix(tracking[t], local[t])
    BY <1>6, <2>1 DEF Whole, MergeStillRight, MakesOf, NothingBetween
  <2>4. /\ tracking[t] \in Seq(Commits) /\ server[t] \in Seq(Commits)
        /\ local[t] \in Seq(Commits)
    BY <2>2 DEF Inv, DataOK, Chains
  <2>5. t \in ToPush => IsPrefix(tracking[t], local[t]) /\ local[t] # << >>
    <3>1. IsPrefix(tracking[t], server[t])
      BY <2>2 DEF Whole, TrackingBehind
    <3>2. t \in ToPush => IsPrefix(tracking[t], local[t])
      BY <1>1, <2>4, <3>1, PrefixTransitive
    <3>3. QED
      BY <3>2 DEF ToPush
  <2>6. QED
    BY <1>2, <2>1, <2>2, <2>3, <2>5
<1>7. MergeStillRight'
  BY <1>1, <1>6, StillRight
<1>8. QED
  BY <1>3, <1>4, <1>5, <1>7 DEF Whole

(* The steps that leave the refs and what is staged alone. *)
LEMMA OpenWhole ==
    ASSUME Inv, Whole, NEW t \in Tickets, OpenBug(t)
    PROVE  Whole'
<1>1. UNCHANGED <<packs, server, tracking, local, merger, forwarder>>
  BY DEF OpenBug, refs, pull
<1>2. StagedIsLoaded'
  BY OpenStep DEF Inv
<1>3. CASE UNCHANGED <<bugs, mixed>>
  BY <1>1, <1>2, <1>3, QuietWhole
<1>4. CASE Load(t, local[t])
  <2>1. /\ \A u \in Tickets :
              \/ bugs'[u] = NotLoaded
              \/ u # t /\ bugs'[u] = bugs[u]
              \/ u = t /\ bugs'[u] = [base |-> local[t], staged |-> << >>]
        /\ mixed' = (mixed \/ Pulling)
    BY <1>4, LoadEffect DEF Inv, DataOK
  <2>2. \A u \in Tickets :
           \/ bugs'[u] = bugs[u]
           \/ /\ bugs'[u].staged = << >>
              /\ bugs'[u].base = << >> \/ bugs'[u].base = local[u]
    BY <2>1 DEF NotLoaded
  <2>3. ~ mixed' => ~ mixed
    BY <2>1
  <2>4. QED
    BY <1>1, <1>2, <2>2, <2>3, QuietWhole
<1>5. QED
  BY <1>3, <1>4 DEF OpenBug, ghosts

LEMMA DropWhole ==
    ASSUME Inv, Whole, Close \/ Die
    PROVE  Whole'
<1>1. /\ Forget /\ UNCHANGED <<packs, server, tracking, local, mixed>>
      /\ merger' = Quiet \/ merger' = merger
  BY DEF Close, Die, refs, pull
<1>2. \A t \in Tickets : bugs'[t].staged = << >> /\ bugs'[t].base = << >>
  BY <1>1 DEF Forget, NotLoaded
<1>3. StagedIsLoaded'
  BY <1>2 DEF StagedIsLoaded, NeedCommit
<1>4. merger'.at # "merge" \/ merger' = merger
  BY <1>1 DEF Quiet
<1>5. QED
  BY <1>1, <1>2, <1>3, <1>4, QuietWhole

LEMMA SessionWhole ==
    ASSUME Inv, Whole, \E rebuild \in BOOLEAN : Start(rebuild)
    PROVE  Whole'
<1>1. /\ UNCHANGED <<packs, server, tracking, local, bugs, merger, forwarder>>
      /\ main.at = "off"
  BY DEF Start, refs, pull
<1>2. NoneLoaded' /\ ~ Pulling' /\ StagedIsLoaded'
  BY <1>1 DEF Inv, Bounds, NoneLoaded, Loaded, Pulling, StagedIsLoaded, NeedCommit
<1>3. QED
  BY <1>1, <1>2, QuietWhole

LEMMA ElseWhole ==
    ASSUME Inv, Whole,
           UNCHANGED <<packs, server, tracking, local, bugs, mixed>>,
           merger'.at # "merge" \/ merger' = merger
    PROVE  Whole'
<1>1. StagedIsLoaded'
  BY DEF Inv, StagedIsLoaded, NeedCommit, Loaded
<1>2. QED
  BY <1>1, QuietWhole

LEMMA PullWhole ==
    ASSUME Inv, Whole, Merging \/ \E fetched \in BOOLEAN : StartPull(fetched)
    PROVE  Whole'
<1>1. CASE \E t \in Tickets : MergeSkip(t)
  <2>1. /\ UNCHANGED <<packs, server, tracking, local, bugs, mixed>>
        /\ merger.at = "next"
        /\ \E t \in Tickets : merger' = [merger EXCEPT !.todo = @ \ {t}]
    BY <1>1 DEF MergeSkip, refs, memory, ghosts
  <2>2. merger'.at # "merge"
    BY <2>1
  <2>3. QED
    BY <2>1, <2>2, ElseWhole
<1>2. CASE \E t \in Tickets : MergeRead(t)
  BY <1>2, ReadWhole
<1>3. CASE MergeWrite
  BY <1>3, WriteWhole
<1>4. CASE Forward \/ Consume \/ UpdateExcerpt \/ EndMerge \/ WriteMerged
  <2>1. /\ UNCHANGED <<packs, server, tracking, local, bugs, mixed>>
        /\ merger'.at # "merge" \/ merger' = merger
    BY <1>4 DEF Forward, Consume, UpdateExcerpt, EndMerge, WriteMerged, Quiet,
                refs, memory, ghosts
  <2>2. QED
    BY <2>1, ElseWhole
<1>5. CASE ConsumeInvalid \/ UpdateClosed
  BY <1>5, DropWhole DEF ConsumeInvalid, UpdateClosed
<1>6. CASE \E fetched \in BOOLEAN : StartPull(fetched)
  BY <1>6, FetchWhole
<1>7. QED
  BY <1>1, <1>2, <1>3, <1>4, <1>5, <1>6 DEF Merging

LEMMA WholeStep ==
    ASSUME Inv, LoadedOK, Whole, [Next]_vars
    PROVE  Whole'
<1>1. CASE \E t \in Tickets :
              (\E status \in BOOLEAN : PushedByOthers(t, status)) \/ PushedElsewhere(t)
  BY <1>1, OthersWhole
<1>2. CASE (\E rebuild \in BOOLEAN : Start(rebuild)) \/ Crash \/ Close
  BY <1>2, SessionWhole, DropWhole DEF Crash
<1>3. CASE Exit
  <2>1. /\ UNCHANGED <<packs, server, tracking, local, bugs, mixed>>
        /\ merger'.at # "merge"
    BY <1>3 DEF Exit, Quiet, refs, memory, ghosts
  <2>2. QED
    BY <2>1, ElseWhole
<1>4. CASE \E t \in Tickets : OpenBug(t) \/ NewBug(t) \/ RemoveBug(t) \/ ResetBug(t)
  BY <1>4, OpenWhole, NewBugWhole, RemoveWhole, ResetWhole
<1>5. CASE SaveAndBack \/ \E status \in BOOLEAN : Stage(status)
  BY <1>5, SaveWhole, StageWhole
<1>6. CASE \/ \E t \in Tickets : OpenMissing(t)
           \/ SaveInvalid \/ Notify \/ Write \/ DropExcerpt \/ ReadReset
           \/ RefreshCache \/ UNCHANGED vars
  <2>1. UNCHANGED <<packs, server, tracking, local, bugs, mixed, merger>>
    BY <1>6 DEF OpenMissing, SaveInvalid, Notify, Write, DropExcerpt, ReadReset,
                RefreshCache, vars, refs, memory, pull, ghosts
  <2>2. QED
    BY <2>1, ElseWhole
<1>7. CASE Push
  BY <1>7, PushWhole
<1>8. CASE Merging \/ \E fetched \in BOOLEAN : StartPull(fetched)
  BY <1>8, PullWhole
<1>9. QED
  BY <1>1, <1>2, <1>3, <1>4, <1>5, <1>6, <1>7, <1>8 DEF Next, MainThread

(* The instance of CloneRefs uses the operators of CommitChains, and has   *)
(* this clone and its remote.                                              *)
LEMMA RefsOperators ==
    /\ \A a, b : Refs!IsPrefix(a, b) <=> IsPrefix(a, b)
    /\ \A a, b : Refs!NothingBetween(a, b) <=> NothingBetween(a, b)
    /\ \A a : Refs!PackIds(a) = PackIds(a)
    /\ \A a : Refs!Valid(a) <=> Valid(a)
    /\ \A a, k : Refs!Extra(a, k) = Extra(a, k)
    /\ \A a, b : Refs!CommonAncestor(a, b) = CommonAncestor(a, b)
    /\ \A a, b, r : Refs!Rebase(a, b, r) = Rebase(a, b, r)
<1>1. \A a, b : Refs!IsPrefix(a, b) <=> IsPrefix(a, b)
  BY DEF Refs!IsPrefix, IsPrefix
<1>2. \A a, b : Refs!NothingBetween(a, b) <=> NothingBetween(a, b)
  BY <1>1 DEF Refs!NothingBetween, NothingBetween
<1>3. \A a : Refs!PackIds(a) = PackIds(a)
  BY DEF Refs!PackIds, PackIds
<1>4. \A a : Refs!Valid(a) <=> Valid(a)
  BY DEF Refs!Valid, Valid
<1>5. \A a, k : Refs!Extra(a, k) = Extra(a, k)
  BY DEF Refs!Extra, Extra
<1>6. \A a, b : Refs!CommonAncestor(a, b) = CommonAncestor(a, b)
  BY DEF Refs!CommonAncestor, CommonAncestor
<1>7. \A a, r : Refs!Recommit(a, r) = Recommit(a, r)
  BY DEF Refs!Recommit, Recommit
<1>8. \A a, b, r : Refs!Rebase(a, b, r) = Rebase(a, b, r)
  BY <1>5, <1>6, <1>7 DEF Refs!Rebase, Rebase
<1>9. QED
  BY <1>1, <1>2, <1>3, <1>4, <1>5, <1>6, <1>8

(* Of a pack CloneRefs knows whether it sets the status.                   *)
Sets == [p \in DOMAIN packs |-> packs[p].status]

LEMMA SetsGrow ==
    ASSUME Inv, packs' \in Seq(Packs), Len(packs) <= Len(packs'),
           \A p \in 1 .. Len(packs) : packs'[p] = packs[p]
    PROVE  IsPrefix(Sets, Sets')
<1>1. packs \in Seq(Packs)
  BY DEF Inv, DataOK
<1>2. /\ Sets \in Seq(BOOLEAN) /\ Sets' \in Seq(BOOLEAN)
      /\ Len(Sets) = Len(packs) /\ Len(Sets') = Len(packs')
  <2>1. /\ Sets \in [1 .. Len(packs) -> BOOLEAN]
        /\ Sets' \in [1 .. Len(packs') -> BOOLEAN]
    <3>1. DOMAIN packs = 1 .. Len(packs) /\ DOMAIN packs' = 1 .. Len(packs')
      BY <1>1
    <3>2. /\ \A p \in DOMAIN packs : packs[p] \in Packs
          /\ \A p \in DOMAIN packs' : packs'[p] \in Packs
      BY <1>1
    <3>3. \A x \in Packs : x.status \in BOOLEAN
      BY DEF Packs
    <3>4. QED
      BY <3>1, <3>2, <3>3, Zenon DEF Sets
  <2>2. Len(packs) \in Nat /\ Len(packs') \in Nat
    BY <1>1
  <2>3. QED
    BY <2>1, <2>2
<1>3. \A p \in 1 .. Len(packs) : Sets[p] = Sets'[p]
  BY <1>1, <1>2 DEF Sets
<1>4. QED
  BY <1>2, <1>3, PrefixElements

LEMMA SetsStay ==
    ASSUME Inv, packs' = packs
    PROVE  IsPrefix(Sets, Sets')
<1>1. packs \in Seq(Packs) /\ Len(packs) \in Nat
  BY DEF Inv, DataOK
<1>2. QED
  BY <1>1, SetsGrow

LEMMA SetsMore ==
    ASSUME Inv, NEW t \in Tickets, NEW status \in BOOLEAN, NewPack(t, status)
    PROVE  IsPrefix(Sets, Sets')
<1>1. /\ packs' \in Seq(Packs)
      /\ Len(packs) \in Nat /\ Len(packs') = Len(packs) + 1
      /\ \A i \in 1 .. Len(packs) : packs'[i] = packs[i]
  BY PacksGrow
<1>2. QED
  BY <1>1, SetsGrow

(* A step of others, or one that only stages. *)
LEMMA ElsewhereRefs ==
    ASSUME IsPrefix(Sets, Sets'), UNCHANGED <<tracking, local>>,
           \A t \in Tickets : IsPrefix(server[t], server'[t])
    PROVE  Refs!Next
<1>1. /\ \A t \in Tickets : IsPrefix(OfOrigin(server)["origin"][t],
                                     OfOrigin(server)'["origin"][t])
      /\ Origin = {"origin"}
  BY OfOriginAt
<1>2. UNCHANGED <<[r \in {Us} |-> OfOrigin(tracking)], [r \in {Us} |-> local]>>
  BY DEF OfOrigin
<1>3. Refs!Elsewhere
  BY <1>1, <1>2, RefsOperators DEF Refs!Elsewhere, Sets
<1>4. QED
  BY <1>3 DEF Refs!Next

(* A commit on top of what the ref holds, of a pack in no ref.             *)
LEMMA CommitRefs ==
    ASSUME IsPrefix(Sets, Sets'), Inv, NEW t \in Tickets, NEW p \in DOMAIN packs',
           Valid(local[t]), InNoRef(p),
           local' = [local EXCEPT ![t] = Append(local[t], [pack |-> p, by |-> Us])],
           UNCHANGED <<server, tracking>>
    PROVE  Refs!Next
<1>1. p \in DOMAIN Sets'
  BY DEF Sets
<1>2. Refs!Unused(p)
  BY RefsOperators, OfOriginAt DEF InNoRef, Refs!Unused
<1>3. [r \in {Us} |-> local]' =
        [[r \in {Us} |-> local] EXCEPT ![Us][t] = Append(@, [pack |-> p, by |-> Us])]
  OBVIOUS
<1>4. UNCHANGED <<OfOrigin(server), [r \in {Us} |-> OfOrigin(tracking)]>>
  BY DEF OfOrigin
<1>5. Refs!Commit(Us, t)
  <2>1. Valid([r \in {Us} |-> local][Us][t])
    OBVIOUS
  <2>2. QED
    BY <1>1, <1>2, <1>3, <1>4, <2>1, RefsOperators DEF Refs!Commit, Sets
<1>6. QED
  BY <1>5 DEF Refs!Next

(* Whether two chains are in conflict is seen from there. *)
LEMMA SameConflict ==
    ASSUME Inv, NEW ours \in Chains, Written(ours),
           NEW theirs \in Chains, Written(theirs)
    PROVE  Refs!Conflict(ours, theirs) <=> StatusConflict(ours, theirs)
<1> DEFINE k == CommonAncestor(ours, theirs)
<1>1. k \in 0 .. Len(ours) /\ k \in 0 .. Len(theirs)
  BY CommonAncestorAt
<1>2. DOMAIN packs = 1 .. Len(packs)
  BY DEF Inv, DataOK
<1>3. ASSUME NEW chain \in Chains, Written(chain), NEW n \in 0 .. Len(chain)
      PROVE  Refs!SetsStatus(Extra(chain, n)) <=> StatusChanged(Extra(chain, n))
  <2>1. \A i \in DOMAIN Extra(chain, n) : Extra(chain, n)[i].pack \in DOMAIN packs
    BY <1>2, <1>3, ExtraPacks DEF Written
  <2>2. QED
    BY <2>1 DEF Refs!SetsStatus, StatusChanged
<1>4. /\ Refs!SetsStatus(Extra(ours, k)) <=> StatusChanged(Extra(ours, k))
      /\ Refs!SetsStatus(Extra(theirs, k)) <=> StatusChanged(Extra(theirs, k))
  BY <1>1, <1>3
<1>5. QED
  BY <1>4, RefsOperators DEF Refs!Conflict, StatusConflict

(* The write of a merge is the merge: what was read is still there.        *)
LEMMA MergeRefs ==
    ASSUME Inv, Whole, ~ mixed, MergeWrite
    PROVE  Refs!Next
<1>1. PICK t, chain : t = merger.t /\ chain = merger.chain
  OBVIOUS
<1>2. /\ t \in Tickets
      /\ MakesOf(local[t], tracking[t], chain)
      /\ local' = [local EXCEPT ![t] = chain]
      /\ UNCHANGED <<packs, server, tracking>>
  BY <1>1 DEF MergeWrite, Inv, MergeUnderWay, Whole, MergeStillRight
<1>3. PICK ours, theirs : ours = local[t] /\ theirs = tracking[t]
  OBVIOUS
<1>4. /\ ours \in Chains /\ Written(ours)
      /\ theirs \in Chains /\ Written(theirs)
  BY <1>2, <1>3 DEF Inv, DataOK, Whole, ChainsWritten
<1>5. Refs!Conflict(ours, theirs) <=> StatusConflict(ours, theirs)
  BY <1>4, SameConflict
<1>6. /\ [r \in {Us} |-> local][Us][t] = ours
      /\ [r \in {Us} |-> OfOrigin(tracking)][Us]["origin"][t] = theirs
  BY <1>3, OfOriginAt
<1>7. [r \in {Us} |-> local]' = [[r \in {Us} |-> local] EXCEPT ![Us][t] = chain]
  BY <1>2
<1>8. UNCHANGED <<[p \in DOMAIN packs |-> packs[p].status], OfOrigin(server),
                  [r \in {Us} |-> OfOrigin(tracking)]>>
  BY <1>2 DEF OfOrigin
<1>9. /\ Valid(theirs)
      /\ \/ ours = << >> /\ chain = theirs
         \/ /\ ours # << >> /\ ~ NothingBetween(ours, theirs)
            /\ ~ StatusConflict(ours, theirs)
            /\ chain = Rebase(ours, theirs, Us)
  BY <1>2, <1>3 DEF MakesOf
<1>10. Refs!Merge(Us, "origin", t)
  BY <1>5, <1>6, <1>7, <1>8, <1>9, RefsOperators DEF Refs!Merge
<1>11. QED
  BY <1>2, <1>10, OfOriginAt DEF Refs!Next

(* A push is one step. *)
LEMMA PushRefs ==
    ASSUME Push
    PROVE  Refs!Next
<1> DEFINE L == [r \in {Us} |-> local]
           T == [r \in {Us} |-> OfOrigin(tracking)]
<1>1. L[Us] = local /\ T[Us]["origin"] = tracking /\ OfOrigin(server)["origin"] = server
  BY OfOriginAt
<1>2. Refs!ToPush(Us, "origin") = ToPush
  BY <1>1 DEF Refs!ToPush, ToPush
<1>3. \A table : Refs!Pushed(Us, "origin", table)
                   = [t \in Tickets |-> IF t \in ToPush THEN local[t] ELSE table[t]]
  BY <1>1, <1>2 DEF Refs!Pushed
<1>4. /\ server' = Refs!Pushed(Us, "origin", server)
      /\ tracking' = Refs!Pushed(Us, "origin", tracking)
  BY <1>3 DEF Push
<1>5. OfOrigin(server)' = [OfOrigin(server) EXCEPT !["origin"] =
                             Refs!Pushed(Us, "origin", @)]
  BY <1>1, <1>4 DEF OfOrigin, Origin
<1>6. T' = [T EXCEPT ![Us]["origin"] = Refs!Pushed(Us, "origin", @)]
  BY <1>1, <1>4 DEF OfOrigin, Origin
<1>7. UNCHANGED <<[p \in DOMAIN packs |-> packs[p].status], L>>
  BY DEF Push
<1>8. \A t \in Refs!ToPush(Us, "origin") :
         Refs!IsPrefix(OfOrigin(server)["origin"][t], L[Us][t])
  BY <1>1, <1>2, RefsOperators DEF Push
<1>9. Refs!Push(Us, "origin")
  BY <1>5, <1>6, <1>7, <1>8 DEF Refs!Push
<1>10. QED
  BY <1>9, OfOriginAt DEF Refs!Next

(* A fetch is one step; a fetch that fails is none. *)
LEMMA FetchRefs ==
    ASSUME Whole, NEW fetched \in BOOLEAN, StartPull(fetched)
    PROVE  Refs!Next \/ UNCHANGED Refs!vars
<1>1. /\ UNCHANGED <<packs, server, local>>
      /\ tracking' = server \/ tracking' = tracking
  BY DEF StartPull
<1>2. CASE tracking' = tracking
  BY <1>1, <1>2 DEF Refs!vars, OfOrigin
<1>3. CASE tracking' = server
  <2> DEFINE T == [r \in {Us} |-> OfOrigin(tracking)]
  <2>1. T[Us]["origin"] = tracking /\ OfOrigin(server)["origin"] = server
    BY OfOriginAt
  <2>2. T' = [T EXCEPT ![Us]["origin"] = OfOrigin(server)["origin"]]
    BY <1>3 DEF OfOrigin, Origin
  <2>3. UNCHANGED <<[p \in DOMAIN packs |-> packs[p].status], OfOrigin(server),
                    [r \in {Us} |-> local]>>
    BY <1>1 DEF OfOrigin
  <2>4. \A t \in Tickets : Refs!IsPrefix(T[Us]["origin"][t], OfOrigin(server)["origin"][t])
    BY <2>1, RefsOperators DEF Whole, TrackingBehind
  <2>5. Refs!Fetch(Us, "origin")
    BY <2>2, <2>3, <2>4 DEF Refs!Fetch
  <2>6. QED
    BY <2>5, OfOriginAt DEF Refs!Next
<1>4. QED
  BY <1>1, <1>2, <1>3

LEMMA RemoveRefs ==
    ASSUME NEW t \in Tickets, RemoveBug(t)
    PROVE  Refs!Next
<1> DEFINE T == [r \in {Us} |-> OfOrigin(tracking)]
           L == [r \in {Us} |-> local]
<1>1. /\ UNCHANGED <<packs, server>>
      /\ local[t] # << >>
      /\ local' = [local EXCEPT ![t] = << >>]
      /\ tracking' = [tracking EXCEPT ![t] = << >>]
  BY DEF RemoveBug
<1>2. L' = [L EXCEPT ![Us][t] = << >>] /\ L[Us][t] # << >>
  BY <1>1
<1>3. T' = [T EXCEPT ![Us] = [m \in Origin |-> [@[m] EXCEPT ![t] = << >>]]]
  BY <1>1 DEF OfOrigin
<1>4. UNCHANGED <<[p \in DOMAIN packs |-> packs[p].status], OfOrigin(server)>>
  BY <1>1 DEF OfOrigin
<1>5. Refs!RemoveTicket(Us, t)
  BY <1>2, <1>3, <1>4 DEF Refs!RemoveTicket
<1>6. QED
  BY <1>5 DEF Refs!Next

LEMMA ResetRefs ==
    ASSUME Inv, NEW t \in Tickets, ResetBug(t)
    PROVE  Refs!Next \/ UNCHANGED Refs!vars
<1> DEFINE T == [r \in {Us} |-> OfOrigin(tracking)]
           L == [r \in {Us} |-> local]
<1>1. PICK chain : chain = IF NothingBetween(tracking[t], local[t])
                           THEN local[t] ELSE tracking[t]
  OBVIOUS
<1>2. /\ UNCHANGED <<packs, server, tracking>>
      /\ local[t] # << >> /\ tracking[t] # << >>
      /\ local' = [local EXCEPT ![t] = chain]
  BY <1>1 DEF ResetBug
<1>3. UNCHANGED <<[p \in DOMAIN packs |-> packs[p].status], OfOrigin(server), T>>
  BY <1>2 DEF OfOrigin
<1>4. CASE chain = local[t]
  <2>1. local' = local
    BY <1>2, <1>4 DEF Inv, DataOK
  <2>2. QED
    BY <1>3, <2>1 DEF Refs!vars
<1>5. CASE chain = tracking[t]
  <2>1. L[Us][t] = local[t] /\ T[Us]["origin"][t] = tracking[t]
    BY OfOriginAt
  <2>2. L' = [L EXCEPT ![Us][t] = T[Us]["origin"][t]]
    BY <1>2, <1>5, <2>1
  <2>3. Refs!ResetTicket(Us, "origin", t)
    BY <1>2, <1>3, <2>1, <2>2 DEF Refs!ResetTicket
  <2>4. QED
    BY <2>3, OfOriginAt DEF Refs!Next
<1>6. QED
  BY <1>1, <1>4, <1>5

(* A ticket is saved on top of what its ref holds. *)
LEMMA SaveRefs ==
    ASSUME Inv, Whole, ~ mixed, SaveAndBack
    PROVE  Refs!Next \/ UNCHANGED Refs!vars
<1>1. PICK t : t = main.t
  OBVIOUS
<1>2. /\ UNCHANGED <<packs, server, tracking>>
      /\ main.at = "show" /\ Loaded(t)
  BY <1>1 DEF SaveAndBack
<1>3. t \in Tickets
  BY <1>1, <1>2 DEF Inv, MainTicket
<1>4. CASE UNCHANGED local
  BY <1>2, <1>4 DEF Refs!vars, OfOrigin
<1>5. CASE NeedCommit(t) /\ Commit(t)
  <2>1. bugs[t].base = local[t]
    BY <1>2, <1>3 DEF Inv, SingleCopy, Stale
  <2>2. /\ Valid(local[t])
        /\ local' = [local EXCEPT ![t] =
                       Append(local[t], [pack |-> bugs[t].staged[1], by |-> Us])]
    BY <1>5, <2>1 DEF Commit
  <2>3. bugs[t].staged[1] \in DOMAIN packs' /\ InNoRef(bugs[t].staged[1])
    BY <1>2, <1>3, <1>5 DEF Whole, ChainsWritten, StagedIsNew, Inv, DataOK
  <2>4. IsPrefix(Sets, Sets')
    BY <1>2, SetsStay
  <2>5. QED
    BY <1>2, <1>3, <2>2, <2>3, <2>4, CommitRefs
<1>6. QED
  BY <1>1, <1>4, <1>5 DEF SaveAndBack

LEMMA NewBugRefs ==
    ASSUME Inv, Whole, NEW t \in Tickets, NewBug(t)
    PROVE  Refs!Next
<1>1. /\ UNCHANGED <<server, tracking>>
      /\ NewPack(t, FALSE)
      /\ local' = [local EXCEPT ![t] = <<[pack |-> Len(packs) + 1, by |-> Us]>>]
  BY DEF NewBug
<1>2. IsPrefix(Sets, Sets')
  BY <1>1, SetsMore
<1>3. /\ packs' \in Seq(Packs)
      /\ Len(packs) \in Nat /\ Len(packs') = Len(packs) + 1
  BY <1>1, PacksGrow
<1>4. PICK p : p = Len(packs) + 1
  OBVIOUS
<1>5. p \in DOMAIN packs'
  BY <1>3, <1>4
<1>6. p \notin 1 .. Len(packs)
  BY <1>3, <1>4
<1>7. InNoRef(p)
  BY <1>6 DEF Whole, ChainsWritten, Written, InNoRef
<1>8. local[t] = << >>
  BY NoRefYet
<1>9. Valid(local[t])
  BY <1>8 DEF Valid
<1>10. local' = [local EXCEPT ![t] = Append(local[t], [pack |-> p, by |-> Us])]
  BY <1>1, <1>4, <1>8
<1>11. QED
  BY <1>1, <1>2, <1>5, <1>7, <1>9, <1>10, CommitRefs

(* A step that leaves the refs alone may stage a pack. *)
LEMMA StageRefs ==
    ASSUME Inv, NEW status \in BOOLEAN, Stage(status)
    PROVE  Refs!Next
<1>1. main.t \in Tickets
  BY DEF Inv, MainTicket, Stage
<1>2. IsPrefix(Sets, Sets')
  BY <1>1, SetsMore DEF Stage
<1>3. \A t \in Tickets : IsPrefix(server[t], server[t])
  BY PrefixReflexive DEF Inv, DataOK, Chains
<1>4. UNCHANGED <<server, tracking, local>>
  BY DEF Stage, refs
<1>5. QED
  BY <1>2, <1>3, <1>4, ElsewhereRefs

LEMMA OthersRefs ==
    ASSUME Inv, NEW t \in Tickets,
           (\E status \in BOOLEAN : PushedByOthers(t, status)) \/ PushedElsewhere(t)
    PROVE  Refs!Next
<1>1. UNCHANGED <<tracking, local>>
  BY DEF PushedByOthers, PushedElsewhere
<1>2. IsPrefix(Sets, Sets')
  BY SetsMore, SetsStay DEF PushedByOthers, PushedElsewhere
<1>3. QED
  BY <1>1, <1>2, OthersGrow, ElsewhereRefs

(* The steps that change neither refs nor packs. *)
RefsKept ==
    \/ \E rebuild \in BOOLEAN : Start(rebuild)
    \/ \E t \in Tickets : OpenBug(t) \/ OpenMissing(t) \/ MergeSkip(t) \/ MergeRead(t)
    \/ SaveInvalid \/ Notify \/ Write \/ DropExcerpt \/ ReadReset \/ RefreshCache
    \/ Close \/ Exit \/ Crash
    \/ Forward \/ Consume \/ ConsumeInvalid \/ UpdateExcerpt \/ UpdateClosed
    \/ EndMerge \/ WriteMerged
    \/ UNCHANGED vars

LEMMA RefsStutter ==
    ASSUME RefsKept
    PROVE  UNCHANGED Refs!vars
<1>1. UNCHANGED <<packs, server, tracking, local>>
  <2>1. CASE \/ \E rebuild \in BOOLEAN : Start(rebuild)
             \/ \E t \in Tickets : OpenBug(t) \/ OpenMissing(t) \/ MergeSkip(t)
                                     \/ MergeRead(t)
             \/ UNCHANGED vars
    BY <2>1 DEF Start, OpenBug, OpenMissing, MergeSkip, MergeRead, refs, vars
  <2>2. CASE \/ SaveInvalid \/ Notify \/ Write \/ DropExcerpt \/ ReadReset
             \/ RefreshCache \/ Close \/ Exit \/ Crash
    BY <2>2 DEF SaveInvalid, Notify, Write, DropExcerpt, ReadReset, RefreshCache,
                Close, Exit, Crash, Die, refs
  <2>3. CASE \/ Forward \/ Consume \/ ConsumeInvalid \/ UpdateExcerpt
             \/ UpdateClosed \/ EndMerge \/ WriteMerged
    BY <2>3 DEF Forward, Consume, ConsumeInvalid, UpdateExcerpt, UpdateClosed,
                EndMerge, WriteMerged, Die, refs
  <2>4. QED
    BY <2>1, <2>2, <2>3 DEF RefsKept
<1>2. QED
  BY <1>1 DEF Refs!vars, OfOrigin

LEMMA AtomicStep ==
    Inv /\ LoadedOK /\ Whole /\ [Next]_vars => [mixed \/ Refs!Next]_(Refs!vars)
<1> SUFFICES ASSUME Inv, Whole, [Next]_vars, ~ mixed
             PROVE  Refs!Next \/ UNCHANGED Refs!vars
  OBVIOUS
<1>1. CASE \E t \in Tickets :
              (\E status \in BOOLEAN : PushedByOthers(t, status)) \/ PushedElsewhere(t)
  BY <1>1, OthersRefs
<1>2. CASE \E t \in Tickets : NewBug(t) \/ RemoveBug(t) \/ ResetBug(t)
  BY <1>2, NewBugRefs, RemoveRefs, ResetRefs
<1>3. CASE SaveAndBack \/ \E status \in BOOLEAN : Stage(status)
  BY <1>3, SaveRefs, StageRefs
<1>4. CASE MergeWrite \/ Push \/ \E fetched \in BOOLEAN : StartPull(fetched)
  BY <1>4, MergeRefs, PushRefs, FetchRefs
<1>5. CASE RefsKept
  BY <1>5, RefsStutter
<1>6. QED
  BY <1>1, <1>2, <1>3, <1>4, <1>5 DEF Next, MainThread, Merging, RefsKept

LEMMA WholeAlways == Spec => [](Inv /\ LoadedOK /\ Whole)
<1>1. Inv /\ LoadedOK /\ Whole /\ [Next]_vars => Whole'
  BY WholeStep
<1>2. QED
  BY LoadedAlways, WholeInit, <1>1, PTL DEF Spec

(* Save, merge, fetch, push, rm and reset are one step each of the refs,   *)
(* though a ticket is read long before it is saved and a merge reads the   *)
(* refs before it writes them, and others and goroutines act in between:   *)
(* in any session that loads no ticket while a pull runs.                  *)
THEOREM OperationsAtomicCorrect == Spec => OperationsAtomic
<1>1. QED
  BY WholeAlways, AtomicStep, PTL DEF Spec, OperationsAtomic
=============================================================================
