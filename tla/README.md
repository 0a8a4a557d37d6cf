# A TLA+ model of git-ticket

git-ticket keeps tickets inside a git repository: every ticket is a ref that
points to a chain of commits, every commit holds a pack of operations, and
clones exchange tickets by fetching, rebasing and pushing those refs.  There is
no server logic: everything that makes tickets consistent is in the client.
This directory states what that client must guarantee, models the code that
has to guarantee it, checks the models with TLC and proves the most important
results with TLAPS.

Paths below are relative to `src/`.

## 1. Inventory

| Component | State it keeps | Operations | Where |
|---|---|---|---|
| Ticket chains | a ref per ticket, commits, trees with Lamport times | commit, read, validate, merge, remove, reset | `bug/bug.go`, `bug/bug_actions.go` |
| Git access | refs, tracking refs, remotes, clock files | fetch, push, push one ref, merge-base, commits-between | `repository/git.go` |
| Workflow | status, labels, CCB approvals, checklist reviews of a ticket | the commands `ccb ...`, `status ...`, `label ...`, `assign`, `review checklist` | `bug/workflow.go`, `bug/snapshot.go`, `bug/op_*.go`, `commands/` |
| RepoCache | excerpts (memory and file), loaded tickets, LRU list, mutexes | resolve, evict, update, new, remove, reset, refresh, merge | `cache/repo_cache*.go`, `cache/bug_cache.go` |
| Merge stream | unbuffered channels between three goroutines | produce, relay, consume, stop reading | `cache/repo_cache_common.go`, `*/..._actions.go` |
| Lamport clocks | a counter and its file | increment, witness, load, write | `util/lamport` |
| Repository lock | the lock file with a process id | test, create, write, remove | `cache/repo_cache.go` |
| Identities | a ref per identity, versions with keys and times | commit, read, merge (fast-forward only) | `identity/`, `cache/repo_cache_identity.go` |
| Configuration | a ref per config | set, update from the remote, back up on conflict | `config/` |
| Validator | a keyring with expiry times | read versions, validate commits | `validate/` |
| Selection, editor buffers | small files | select, edit | `commands/select`, `input/` |
| Query language | none | lex, parse, filter | `query/`, `cache/filter.go` |
| Terminal interface | screen state | render, dispatch, save, pull, push | `termui/` |
| Web board | the columns of a page, its placeholder, what is dragged; requests | drag, drop, answer; check and take the clone, read, stage, commit, close | `webui/static/src/js/home.js`, `webui/webui.go` |
| Web checklist page | the checklist shown, the alert | mouse events, tabs, load | `webui/static/src/js/checklist.js` |
| Web forms, sessions, configuration | flash messages in a cookie, the loaded configuration | create, comment, load | `webui/` |
| Review imports | none of their own | fetch from Gitea and Phabricator | `bug/review` |

How they interact.  A command opens the git repository (which rebuilds missing
clock files), takes the lock file, loads the RepoCache, reads a ticket (which
witnesses its Lamport times), stages operations (each of which rewrites the
excerpt file), commits them (which ticks the clocks and moves the ticket's ref)
and removes the lock file.  `pull` fetches all tracking refs and then merges
the identities, ticket by ticket the tickets, and the configurations; `push`
sends all refs or one.  Clones share nothing but the refs of the remotes.  The
web server does for every request what a command does, in a goroutine of its
own; a page in a browser keeps what it was given and changes it itself when it
hears that a request has succeeded.

What is hard here: any interleaving of commits, pulls and pushes of several
clones, where each rebase rewrites commits others may have; pulls that stop
half way; tracking refs that lag behind; refs that are removed, reset and come
back; Lamport clocks that are lost and rebuilt; commands that fail between two
operations; files that are read and written without atomicity; a workflow
whose rules are spread over hooks, label arithmetic and command code; three kinds
of refs with three ways of merging that travel together, so that one that is
stuck holds up the others; and pages whose handlers go on after an answer that
came late, or never.

What makes each component correct:

* ticket chains - an operation occurs once, after everything its author had
  seen, and never disappears without the user asking; status changes form a
  path of the workflow; the remote history only grows; clones converge;
* clocks - a pack is stamped later than every pack its author had read;
* workflow - one workflow, a status that belongs to it, no status without the
  approvals it stands for, nothing of an approval left after a rejection;
* RepoCache - an excerpt shows the committed ticket; one instance per ticket;
  no caller blocks for ever;
* merge stream - every merged ticket reaches the cache file;
* lock - one process at a time, and a crash never locks the repository for good;
* identities - a history is never altered; versions are stamped in causal order;
* configuration - a local change is adopted or backed up, never dropped;
* web board - a page shows what is stored, and no request keeps the clone;
* web checklist - the alert shows the comment on the question under the mouse.

## 2. Modules

| Module | What it is |
|---|---|
| `CommitChains` | chains of commits, common ancestor, rebase: the pure part of `Bug.Merge` |
| `TicketSync` | clones, remotes, refs and clocks; one action per operation |
| `PublishedHistory` | an abstract specification: remotes publish append-only histories |
| `CloneRefs` | an abstract specification: every operation is one step, from the refs as they are at that moment |
| `TicketWorkflow` | one ticket under the commands that change its workflow state |
| `MemClock` | the Lamport clock in memory, shared by goroutines |
| `AtomicClock` | the abstract specification: every clock operation is one atomic step |
| `RepoSession` | the sessions that open one clone: clock file, lock file, crashes |
| `RepoCache` | the cache of one session: loaded tickets, excerpts, the goroutines of a pull |
| `SharedRefs` | identities and configurations of several clones, next to the tickets they travel with |
| `WebBoard` | the board of the web interface: pages, requests and their handlers, the clone they compete for |
| `WebChecklist` | the checklist page: mouse, alert, reloads |
| `MCTicketSync`, `MCTicketWorkflow`, `MCMemClock`, `MCRepoSession`, `MCRepoCache`, `MCSharedRefs`, `MCWebBoard`, `MCWebChecklist` | instances for TLC |
| `CommitChainsProofs` | lemmas about maxima, prefixes, the common ancestor and the rebase |
| `TicketSyncProofs` | types, tracking refs, refinement of `PublishedHistory` and `CloneRefs`, nothing is lost; causal order, Lamport times, status paths, no operation twice |
| `TicketWorkflowProofs` | types, excerpt, rejection; one workflow, its statuses, approvals behind the work |
| `MemClockProofs` | `MemClock` implements `AtomicClock` |
| `RepoSessionProofs` | exclusion by the lock file, order of create times |
| `RepoCacheProofs` | a loaded ticket is the one of its ref, no operation is lost under the cache; types, the list of loaded tickets and its limit, the ticket shown, the cache file; refinement of `PublishedHistory` and `CloneRefs` |
| `SharedRefsProofs` | types, order of versions, nothing dropped, divergence of identities lasts; refinement of `PublishedHistory` |
| `WebBoardProofs` | types, the lock and what a handler has read, the placeholder, the board |

`TicketSync` takes two things for granted that the smaller modules examine: its
clocks are atomic counters (`MemClock`), and one command at a time works on a
clone (`RepoSession`, with the exceptions found there).  `RepoCache` opens up
that one session: what `TicketSync` treats as one step, a commit or the merge of
a ticket, is there split where another goroutine can get in between.  What the
two have in common is `CloneRefs`: `TicketSync` implements it for all clones, and
`RepoCache` for its one clone, as long as no ticket is loaded while a pull runs.
So what `TicketSync` assumes of a command, that it is one step on the refs, is
what `RepoCache` shows of its threads.
`SharedRefs` adds what `TicketSync` leaves out of a pull and a push, the refs of
identities and configurations, and in turn reduces a ticket to one commit.  All
three use the chains of `CommitChains`.  `WebBoard` starts where `RepoSession`
ends, with a lock that excludes unless two openings race, and asks what requests
and pages make of it.

### TicketSync

A commit hash covers the tree and all ancestors, so a chain is the sequence of
its commits and the prefix of length i stands for the hash of the i-th commit.
Two refs share a commit exactly when they agree up to it, ancestry is the prefix
order, `git merge-base` is the longest common prefix.  A commit is the number of
its tree in `packs` and the replica that stored it: a rebase reuses the tree and
makes a new commit, and two replicas that rebase the same pack make different
ones.  (Two rebases of the same pack by the same replica onto the same parent in
different seconds also differ in git; in the model they are the same commit,
which only makes chains agree more often than `git` would.)  Of the operations in
a pack the model keeps the status they set; `seen` is a history field, used by
the properties only.

| Variable | Code |
|---|---|
| `local[r][t]` | `refs/bugs/<t>` of clone r |
| `tracking[r][m][t]` | `refs/remotes/<m>/bugs/<t>` of clone r |
| `server[m][t]` | `refs/bugs/<t>` of remote m |
| `clock[r]` | the clocks `bug-create` and `bug-edit` |
| `merging[r]` | the loop of `bug.MergeAll`: refs still to visit |

| Action | Code |
|---|---|
| `NewTicket`, `CommitOps` | `NewBugRaw`; any command that stages operations, with `Bug.Commit` |
| `StartPull` | `FetchRefs` and the listing of the remote refs |
| `SkipUpToDate`, `SkipInvalid`, `CopyNew`, `MergeUpdated`, `MergeConflict` | one turn of the loop of `MergeAll`, by the way it ends |
| `Abort` | the process ends during the loop (killed, or `Pull` returned early) |
| `Push`, `PushTicket` | `PushRefs`, `PushSingleRef` |
| `RemoveBug`, `ResetBug` | `git ticket rm`, in one step although it deletes its refs one by one (`bug/bug.go:332`); `git ticket reset` |
| `RebuildClocks` | `NewGitRepo` after the clock files were lost, where nothing cuts it short (`RepoSession` examines what happens when something does) |

The lock file is taken for granted: one command at a time works on a clone
(`Idle`), while commands of different clones interleave freely, also between the
tickets of a merge.

### TicketWorkflow

The compiled ticket (`ticket`), the excerpt in the cache file (`excerpt`, reduced
to its status, workflows and given approvals) and two history variables: the approvals the last vetting and acceptance relied on
(`grounds`), and whether the last change of workflow added workflow labels other
than the one it went by (`muddled`, finding 5).  The transition tables are those
of `bug/workflow.go`; an approval is none (no entry), added, approved or blocked.

| Operator | Code |
|---|---|
| `Stage` | `notifyUpdated`, which leads to `bugUpdated`: the excerpt is made of the staged ticket and written |
| `Record` | `BugCache.Commit`, when it succeeds |
| `FailAfterStaging` | a commit that fails (git, the signing key), a command that returns an error between its two operations, a process that dies there: the excerpt stays, the ticket is as it was |
| `Commit` | either of the two: every command can end in both ways |
| `AddLabel`, `CanRemove`, `Relabel`, `ChangeLabels` | the two loops of the code, with the variable `newWorkflow` they share, over any list of labels |

The commands are those of the command line, each of which stages what it does and
commits it.  The terminal interface stages several changes before it commits
them (`termui/show_bug.go:374`), and its dialog of labels adds and removes in one
change (`termui/label_select.go:317`): it is left out here, and there an excerpt
may be more than one command ahead of its ticket.

### MemClock

One action per atomic instruction of `util/lamport/mem_clock.go`: the add of
`Increment`, the load and the compare-and-swap of `Witness`.  Operations are
called and return, so that the refinement of `AtomicClock` says that each takes
effect at one instant in between (the clock is linearizable).  The counter is a
natural number: 64 bits are not used up by tickets.

### RepoSession

A session is a command, alone in its process, or a request of the web server,
one of many in its process.

| `pc[s]` | Code |
|---|---|
| `start` | `NewGitRepo` loads the clock files, or finds that they must be rebuilt |
| `load`, `fillFirst`, `fillRead`, `editRead`, `fillLoad` | `bug.ClockLoader`: a clock without a file gets one that says 1, then the tickets are read and witnessed one by one, in any order |
| `check`, `remove` | `repoIsAvailable`: read the lock file, remove it if stale |
| `create`, `write` | `RepoCache.lock`: create or truncate the file, write the pid |
| `build` | `NewNamedRepoCache` loads or builds the cache, or fails |
| `hold`, `fillNew`, `fillTime`, `fillSeen`, `commit` | the session works: tickets are created and read |
| `end` | closed, failed, refused or dead |

At a place with `fill` in its name a clock file has been truncated and is not
written yet.  A process may die at each of them, and wherever else it is.
`clockFile` is the file of the create clock; of the file of the edit clock only
its existence is kept (`editFile`), since both have to exist, or they are rebuilt;
`todo[s]` is what a rebuild has still to read.  The lock file carries a number, so
that a pid written to a file that has been removed meanwhile goes nowhere.

`raced`, `overlapped` and `cut` are history variables that tell when the code's
own assumptions were broken: two sessions between test and lock at once (which a
comment of `repoIsAvailable` admits), a session that loads its clocks while
another one is open, and a death in the middle of a rebuild when both clocks have
files already (finding 15).  Left out: processes of different users, reused pids,
and the instant between `Close` and `os.Exit` of an interrupted command.

### RepoCache

One session at a time on one clone, a command or the terminal interface.  The
content of a ticket, and of an excerpt, is the list of its operation packs.

| Variable | Code |
|---|---|
| `excerpts`, `file` | `RepoCache.bugExcerpts`, and the file it is written to |
| `bugs[t]` | `RepoCache.bugs`: the chain a loaded ticket was read from, the pack it has staged |
| `lru` | `RepoCache.loadedBugs` |
| `main` | the thread of the command or of the interface, and the ticket it works with |
| `merger`, `forwarder` | the goroutines of `bug.MergeAll` and of `RepoCache.MergeAll`, joined by unbuffered channels |
| `server[t]`, `tracking[t]`, `local[t]` | the refs, as in `TicketSync` |

| Action | Code |
|---|---|
| `Start`, `Close`, `Exit`, `Crash` | `NewNamedRepoCache`, `RepoCache.Close`, the end of the process |
| `OpenBug`, `OpenMissing` | `ResolveBug` from a window or a command, with the eviction |
| `NewBug`, `Stage`, `SaveAndBack`, `SaveInvalid` | `NewBugRaw`, the methods of `BugCache`, `Bug.Commit` |
| `Notify`, `Write` | `bugUpdated`: excerpt and order of use, then the file |
| `RemoveBug`, `DropExcerpt`; `ResetBug`, `ReadReset`; `RefreshCache` | the commands `rm`, `reset`, `cache refresh` |
| `StartPull`, `MergeSkip`, `MergeRead`, `MergeWrite` | the fetch and the loop of `bug.MergeAll`: refs are read, then written |
| `Forward`, `Consume`, `UpdateExcerpt`, `EndMerge`, `WriteMerged` | a result on its way to the consumer and to the excerpts |
| `ConsumeInvalid`, `UpdateClosed` | the ways in which a result ends the process |
| `Push`; `PushedByOthers`, `PushedElsewhere` | `PushRefs`; other clones, which may have packs of this one from another remote (finding 1) |

A command is a session that opens, stages and saves one ticket and is closed;
the interface is a session that does so again and again.  `mixed` and `damaged`
are history variables: a ticket was loaded while a pull was running (the code
has no protection against it, finding 10); that happened, or work in progress was
dropped, since the cache file was built.  Bounds: one pull at a time, one staged
operation per ticket, `MaxPacks`.  Left out: concurrent requests of the web
interface, each of which has a `RepoCache` of its own, identities and
configurations.  A mutex is held for a whole action.

### SharedRefs

| Variable | Code |
|---|---|
| `local[c][x]`, `tracking[c][x]`, `server[x]` | the refs of the three kinds, `refs/identities`, `refs/bugs`, `refs/configs` |
| `backups[c][n]` | `refs/conflicts/config-<name>-<commit>` |
| `clock[c]` | the clock `identity-edit` |
| `todo[c]` | the refs that the loops of `Pull` have still to handle |

| Action | Code |
|---|---|
| `NewIdentity`, `EditIdentity` | `user create`; `user edit` and the `user key` commands, which read the identity (and witness its times) before `Identity.Commit` |
| `ReadIdentities` | all local identities are read: a refresh, a new cache, or `identity.ClockLoader` for a clock file that is missing |
| `NewTicket`, `SetConfig` | `NewBugRaw`; `config.SetConfig` |
| `Fetch` | `FetchRefs`, and the listing of the remote refs |
| `Take`, `Keep` | a new or fast-forwarded ref; a local ref that is ahead |
| `RefuseIdentity` | `ErrNonFastForwardMerge`: no other identity is merged, `Pull` fails, and of the tickets those that the goroutine still reaches |
| `BackUp`, `Replace`, `RefuseConfig` | the three outcomes of a conflict in `UpdateConfigs` |
| `Crash` | the process ends during a pull; or the terminal interface, whose pull ends before the configurations |
| `Push`, `PushTicket` | `PushRefs` of all kinds, `PushSingleRef` of a ticket |

A version is its number and its time; what it says (names, keys, metadata, the
text of a configuration) is left out, and so is the time of a ticket, which is
the subject of `TicketSync`.  `SetConfig` of the content stored last is no step.
The clock of identities is the only one: `Identity.Commit` takes its time from it.

### WebBoard

| Variable | Code |
|---|---|
| `chain[t]`, `excerpt[t]` | the commits of a ticket, as far as they set its status; its excerpt in the cache file |
| `lock`, `cli` | the lock file: none, empty, with the pid of the server, with that of a command; a command has the clone open |
| `at[r]`, `job[r]`, `ok[r]` | where a request is, in `repoCacheMiddleware`, in its handler, or answered |
| `base[r]`, `seen[r]` | what its `RepoCache` has read: the ticket, the excerpts |
| `mode[p]`, `place[p]`, `hole[p]`, `shown[p]`, `drag[p]` | a page: loaded or not, the column of each ticket, `placeholder`, `dragged` |

| Action | Code |
|---|---|
| `Check`, `Create` | `repoIsAvailable`; `lock` creates the file, which is empty |
| `Take` | the pid is written and the cache loaded or built; or that fails, and the middleware answers with an error and leaves the file |
| `Close` | the deferred `RepoCache.Close` |
| `Read`, `Stage`, `Commit` | `handleApiSetStatus`: `ResolveBug`, `SetStatus`, `CommitAsNeeded` |
| `Load`, `Show`, `Ignore` | a page is opened or reloaded, comes, or is not waited for any more |
| `DragStart`, `DragOver`, `Drop`, `Answer` | the event handlers of `home.js`; `Drop` ends at its first `await`, `Answer` is the rest |
| `GiveUp` | a drag that ends outside the columns, for which there is no handler |
| `CliOpen`, `CliChange`, `CliClose` | a command on the same clone |
| `Dies` | the server dies and is started again; the next session removes the lock file it left if there is a pid in it, and cannot parse it if there is none |

A handler that is refused, finds no such ticket, or may not make the transition
answers with an error; a cache may fail to load, and a commit may fail.  `raced`,
`left`, `staged`, `crossed`, `gone` and `others` are history variables that name
the exceptions of the properties; `left` says that the lock file is nobody's, as
what created it failed in `NewRepoCache` (finding 9) or died before it had written
its pid (finding 6).  Left out: where in its column a ticket stands, the text of
the alert, the query of the page, colours, and errors of the disk elsewhere than
in the loading of the cache and in a commit.

### WebChecklist

`answers` is what the tickets say, `page` what they said when the page was made;
`mouse` is where the mouse is, `over` the badge the browser has last reported.
`MouseEnter` and `MouseLeave` are the two handlers of `checklist.js`, `Load` the
handler of the server with the template, `Review` an answer given elsewhere.  The
alert lies over the page (`styles/checklist.css`), so that a badge may be covered
by the alert it makes appear: `Covered` says which.

## 3. What the runs check

| Run | Instance | Shows |
|---|---|---|
| `sync_safety` | 2 clones, 1 remote, 1 ticket, 2 statuses, 4 packs, chains to 4 | operations are never duplicated, reordered or lost; status paths stay legal |
| `sync_tickets` | 2 clones, 2 tickets, 3 packs | Lamport times follow causality across tickets; `TicketSync` implements `CloneRefs` |
| `sync_remotes` | 1 clone, 2 remotes, 4 packs, chains to 6 | `TicketSync` implements `PublishedHistory`, also when operations are duplicated between remotes, tickets no longer validate and pushes are refused |
| `sync_convergence` | 2 clones, 1 ticket, 3 packs, fairness | the clones converge |
| `workflow_ccb` | 1 user, who is in the CCB, approvals of 3 statuses, 1 checklist, 4 lists of labels | a workflow, and one only unless it was muddled; a status of it; an excerpt at most one command ahead, whichever commands failed; approvals behind every status; a rejection clears them |
| `clock` | 3 goroutines, times 1, 3, 5, increments up to 5, fairness | the clock is linearizable, times are fresh, a witness ends however often it loses its swap |
| `session` | 1 command, 2 requests of a server, 1 crash, up to 3 tickets, of which none or two came with the clone | the lock excludes, also requests of one process; create times follow the order of creation, also after a rebuild of the clocks |
| `cache` | 2 tickets, 1 of them loaded, 3 packs | the cache file follows the refs, a loaded ticket is the one of its ref, the ticket shown is never evicted, nothing is lost; `RepoCache` implements `CloneRefs` |
| `cache_lost` | violation of `NothingLost` without the exception for pulls | finding 10 |
| `shared` | 2 clones, 1 identity, 1 ticket, 1 configuration, 4 commits, 1 pull cut short, fairness | versions are in the order of their times, nothing is dropped, a divergence of identities lasts, and a clone that is not stuck ends with what the remote has |
| `board` | 1 page, 2 requests, 1 ticket and a link, 2 statuses, 2 changes, 1 death of the server, fairness | what a handler has read is current when it commits; a page shows what is stored, and its placeholder when something is dragged; no request keeps the clone, but for one whose cache fails or whose server dies inside the lock |
| `checklist` | 2 reviewers, 2 badges, 1 of them covered, 2 comments, fairness | the alert comes to rest on the right comment |

The bounds.  Two clones and one remote are enough for every concurrent edit: a
third clone only adds a second concurrent rebase, which two clones also reach by
taking turns.  Four packs allow two commits on each side of a common ancestor,
the least that distinguishes the order of rebased commits; `MaxChain` only stops
the growth of chains with duplicated packs, which exist with two remotes only
(there one clone is enough, as it can take both sides).
Two tickets are needed for causality across tickets and for the merge loop.  The
workflow needs no bound: its state space is finite once the users, the statuses
asked for approval and the label lists are.  One user is enough for every check
of approvals to fail and to pass: an approval may be asked for or not, given,
blocked or withdrawn.  What a user outside the CCB may not do is only removed
behaviour, and is left to the proofs, which hold for any users.  The lists take a
ticket from every workflow to `eng`: alone, next to the old workflow
(`eng bogus`, which looks up a workflow that does not exist last), together with
`qa`, after a workflow that does not exist; and from `eng` to `qa`.  Three goroutines are the fewest of
which two get in the way of a third; with more time to count, the same loop runs
more often.  Three sessions allow one to race, one to be raced and one to come
later; two tickets show an order, a third one shows it after a restart.  A clone
that is copied with two tickets has clocks to rebuild from the start, by two
turns of the loop, before a third ticket tells whether they were; the two
requests of the server are interchangeable, so the run uses symmetry.  A cache
of one ticket evicts with two; three packs let a clone and the server both have
something the other lacks.  The two tickets are interchangeable, no definition of
`RepoCache` names one, so the run uses symmetry (it states no liveness).
Four commits allow an identity to diverge, or a configuration to be stored twice
independently, and still one more change on each side; one ref of each kind is
enough, since a ref that is refused holds up those of the other kinds.  Two
requests on one page are two drops whose answers cross, a drop that a reload
overtakes, or two pages' worth of requests that compete for the clone; with two
statuses a drop may be refused or take a ticket back; the link is what else a
browser lets one drag.  One ticket is enough, as drops of different tickets meet
only in the placeholder and the lock, and the same ticket may be dropped twice.
The checklist has a covered badge and one that is not.

Fairness (`sync_convergence`).  The tool never synchronises by itself.  The
assumption is that the users of every clone keep pulling and keep pushing until a
push succeeds (strong fairness, since others can get in between), and that a
merge once started goes on.  Convergence is claimed from the moment nobody
removes or resets tickets or kills a merge.

Fairness (`clock`).  The Go scheduler lets every goroutine that can run
make its next step; nobody is obliged to call the clock.

Fairness (`shared`).  As for `sync_convergence`: users keep pulling and pushing
(pushes with strong fairness, others may get in between), and a pull that is not
cut short goes through all its refs.  The bound on commits is what makes the users stop changing
things, and a clone that is stuck is excepted by name (`Stuck`).

Fairness (`board`).  The goroutines of the server run.  Users, browsers and
commands need do nothing: a command may keep the clone for ever, and the
property says no more than that no request does.  It ends where `left` is set:
what is then in the way is no request, but a file that nobody removes.

Fairness (`checklist`).  The browser reports where the mouse is.  That the mouse
rests and nobody reloads the page is a premise of the property, not an assumption.

## 4. What is proved

Every safety invariant and every action property of the passing runs is a theorem
for all values of the constants.  The theorems are about `Spec`, without fairness.  What they
assume of the constants is in the `ASSUME`s of the modules, which TLC evaluates;
one theorem has a hypothesis of its own, `OneRemote`.  In most cases the
invariant is not inductive as it stands, and what has to be added is the reason
why the code is right.

Tickets (`TicketSyncProofs`), for any replicas, remotes, tickets, statuses and
workflow:

* `TypeCorrect` - `Spec => []TypeOK`.  `TypeOK` is not inductive: a rebase or a
  witness reads `packs[c.pack]` for commits of a chain, so the chain must only
  hold stored packs.  The invariant is `TypeInv`, `TypeOK /\ KnownPacks`, where
  `KnownPacks` says that every chain of every ref holds packs that exist and
  belong to its ticket.  It is part of all invariants below.
* `TrackingCorrect` - `Spec => []TrackingBehindServer`: a tracking ref is a
  prefix of the remote's ref, from which a fetch is always a fast-forward.  No run
  states it by itself; the refinements below rest on it.
* `ImplementsHistory` - `Spec => PublishesHistory`: every step publishes,
  records or forgets as `PublishedHistory` allows, or changes neither.
* `ImplementsCloneRefs` - `Spec => ActsOnRefs`: every step is an operation of
  `CloneRefs` on the refs as they are, or changes none.  A commit adds a pack that
  is in no chain, because chains hold packs that exist and the new one gets the
  next number; a ticket that a pull copies or rebases is the valid one that the
  tracking ref holds at that moment, since only the pull itself moves it.
* `NothingIsLost` - `Spec => NothingLost`: it rests on the lemma that a rebase
  keeps the packs of both sides, which rests on the characterisation of the
  common ancestor (the longest common prefix exists and is unique).
* `CausalOrderCorrect` - `Spec => []CausallyOrdered`.  A rebase puts our packs
  behind all of theirs and leaves each side in its order, so a pack that was
  behind what its author had seen is so again; this holds with any number of
  remotes, and of chains with duplicated packs.
* `CausalTimesCorrect` - `Spec => []CausalTimes`.  Added: `ClockPast`, the clocks
  of a clone are past the times of all packs in its refs.  A merge witnesses what
  it adds, a rebuilt clock witnesses everything, and a pack gets its times from a
  clock that is past what its author had read.
* `StatusPathCorrect` - `Spec => []StatusPathLegal`.  That one side of a merge
  has changed no status is what makes the two paths one: the last status of the
  chain below is the one the first change above was checked against.
* `NoDuplicateOpsCorrect` - `Spec => []NoDuplicateOps` under the hypothesis
  `OneRemote`, without which it is false (finding 1).  Added: `Once`, a clone has
  the packs of the remote at the places where the remote has them, and two clones
  have no pack in common that is not on the remote.  A push, which is a
  fast-forward, is the only way a pack leaves its clone; so what a rebase puts on
  top of the remote's chain is not in it.

The workflow of a ticket (`TicketWorkflowProofs`), for any users, members of the
CCB, checklists and label lists (`LabelsOK`: a label is one of a workflow or of a
checklist, told apart by their prefixes):

* `TypeCorrect` - whatever labels are added and removed, and whichever commands
  fail.
* `ExcerptCorrect` (`ExcerptFaithful`) - the excerpt is one command ahead of the
  ticket at most, however many commands fail between the staging and the commit,
  or die there.  What a command stages starts from the ticket and not from the
  excerpt, so the excerpts of failed commands do not add up.
* `RejectionCorrect` (`RejectionClears`) - every way into `rejected` of the
  workflow `eng` is by a clearing edge, and the excerpt of a failed command plays
  no part in it.
* `OneWorkflowCorrect`, `StatusCorrect` (`StatusInWorkflow`) - for any lists of
  labels.  No list takes a workflow away without a new one (lemma
  `ChangeEffect`): either the workflows that were there stay, and the status
  with them, or the status is reset to one that every workflow knows.  Unless the
  change muddled the labels, it leaves the workflow as it was or replaces it by
  one other.
* `ApprovalCorrect` (`WorkIsApproved`) - a ticket at work in `eng` has approvals
  in `grounds`, because the edges into work demand one, those within it start
  there, and a workflow is entered at its beginning.  The last is what a muddled
  change breaks: a ticket of `qa` at work gets `eng` besides, keeps its status,
  and `eng` is found first (finding 5).

Clocks and sessions (`MemClockProofs`, `RepoSessionProofs`):

* `TypeCorrect`, `ImplementsAtomicClock`, `FreshTimes` of `MemClock` - the clock
  is linearizable and hands out every time once, for any number of goroutines.
  The invariant adds that a thread about to swap had loaded a value its time is
  not behind; with it, a swap that succeeds is the atomic witness and one that
  fails is a stutter.
* `ExclusiveCorrect` - `Spec => []Exclusive`.  The invariant: as long as no
  openings raced, at most one session is past the test, and the lock file shows
  how far it is (absent before creation, without a pid until it is written, then
  with the pid of a living process, which is what makes the next test fail).
* `TypeCorrect` of `RepoSession` - the shapes of the two invariants together.
* `CreateOrderCorrect` - `Spec => []CreateOrderAlone`.  The invariant, as long as
  no two sessions were open at once: one session at most is open, and until a
  rebuild is cut short with both files there,
  - the tickets are in the order of their times;
  - while nobody has the clone open and both clocks have files, the one of the
    create clock is empty or past all tickets (`FileAhead`);
  - the clock in the memory of the open session is past all tickets but those it
    has still to read in a rebuild, the file says the same or is empty, and a time
    taken but not yet committed lies between the tickets and the clock
    (`ClockOf`).

  So a crash may leave a file unreadable, ahead of the tickets, or behind them
  next to a clock without a file, which makes the next session rebuild both; only
  if it comes in a rebuild when both have files is it left behind them for good,
  which is the exception `cut`.

Both hold for any sessions, processes and tickets, under the assumption that a
command has a process of its own.

The cache (`RepoCacheProofs`), for any tickets, any size of the cache and any
number of packs:

* `SingleCopyCorrect`, `OperationsKeptCorrect` - as long as no ticket is loaded
  while a pull runs, a loaded ticket is the one its ref holds, and no step but
  `rm` and `reset` removes an operation from a ticket.  The
  invariant adds that a pull and loaded tickets exclude each other until `mixed`
  is set, that the chain a merge is about to write has all operations of the ref
  it replaces, and that a chain which is not empty stems from a pack that was
  written (so that `NewBug` never meets a ref).
* `ShownCorrect` (`ShownIsLoaded`), `LimitCorrect` (`WithinLimit`) - the invariant
  `LoadedOK`: the list of loaded tickets has no repetitions, is not longer than
  the limit and lists what is loaded; something is staged in the ticket of the
  window only; that ticket is loaded.  Where a ticket is loaded nothing is staged,
  so eviction takes exactly the oldest, which is not the one just loaded as long
  as the limit is at least one.
* `TypeCorrect` - `Spec => []TypeOK`.  Added: `PullOK`, on its way through a pull a
  ticket is in one place, still to do, with the merger or with the forwarder, and
  what is handed on is never empty.
* `FaithfulCorrect` - `Spec => []CacheFaithful`.  Added: `Clean`, until `damaged`
  is set.  While the cache is open an excerpt shows its ref (and what is staged),
  or somebody is about to update it (`Pending`): the main thread after an edit, or
  a goroutine that holds the result of a merge.  Such a result is the chain the
  ref holds now, since no other thread moves a ref while the pull runs alone.  And
  whenever nothing is under way the file has been written after the last excerpt.
  This is the argument for the order the code works in: the ref, then the excerpt,
  then the file, before the window or the session ends.
* `ImplementsHistory` - `Spec => PublishesHistory`: what the clone and the others
  push and fetch is append-only, also when a merge is interrupted or a ticket is
  saved behind its back.
* `OperationsAtomicCorrect` - `Spec => OperationsAtomic`: until a ticket is loaded
  while a pull runs, every step on the refs is an operation of `CloneRefs`, however
  long ago its thread has read what it works with.  Added: `Whole`.  Every chain
  and everything staged is made of packs that were written (`ChainsWritten`); what
  is staged is in no ref yet (`StagedIsNew`); tracking refs are cuts of the
  remote's history (`TrackingBehind`); and what the merger is about to write is
  what a merge of the refs would still give (`MergeStillRight`).  The last one is
  about the gap between `MergeRead` and `MergeWrite`: `rm` and `reset` are sessions
  without a pull, a commit needs a loaded ticket, a fetch waits for the pull to end,
  and a push leaves the tracking ref alone, since the ref it would have to push is
  behind the remote and would be refused, or does not exist.  With
  `SingleCopy` a commit goes on top of the ref as it is, which closes the other
  gap, between the reading of a ticket and its commit.  Once `mixed` is set both
  arguments fail, and so does the code (finding 10).

Identities and configurations (`SharedRefsProofs`), for any clones:

* `TypeCorrect`, `TimesOrderedCorrect` - `Spec => []TypeOK` and
  `Spec => []TimesOrdered`.  Merging witnesses no time, so a clock may be behind
  the versions of its own clone and nothing about it can be invariant but a bound:
  no time is later than the number of commits made, and no clock further than the
  next one.  The bound makes the maximum of `Witness` exist; that an identity is
  read before it is edited does the rest.
* `NothingDroppedCorrect` - `Spec => NothingDropped`.  Every step is of one form
  (`Progress`): a local chain is extended, or it belongs to a configuration and
  its old value is in the backups.
* `DivergenceLastsCorrect` - `Spec => DivergenceLasts`: chains of identities are
  only extended, and two prefixes of one sequence are comparable, so two chains
  that differ somewhere can never get a common extension.
* `ImplementsHistory` - `Spec => PublishesHistory`, with refs of all three kinds in
  the place of tickets: a tracking ref is a prefix of the remote's, which only
  grows, also when a pull is cut short or refused and a configuration is replaced.

The web board (`WebBoardProofs`), for any pages, requests, tickets, statuses and
transitions:

* `TypeCorrect`, `BaseIsCurrentCorrect`, `PlaceholderCorrect`, `BoardCorrect` -
  one inductive invariant, `Inv`.  It adds to the four properties that a job
  belongs to its page (`JobsMatch`: a drop to an open page, a load to a page that
  waits for it alone), that until drags and answers cross a page has one drop under
  way and its placeholder stays where that was dropped (`PagesMatch`), that the
  lock excludes until two openings race, whether its pid is written yet or not
  (`LockExcludes`), and that what sessions
  and excerpts know is current (`SessionsCurrent`).  `BoardShows` speaks of the
  moments between the commit and the answer too: the stored status is then the
  column of the placeholder, not that of the page.

Only TLC checks:

* liveness: `Convergence` (of tickets and of shared refs), `WitnessEnds`,
  `CloneGivenBack`, `AlertSettles`, the only question asked of `WebChecklist`.
  Fairness and ENABLED are out of the prover's reach.

`RepoCache` writes the filter of a list as a recursive function (`Among`), and
`TicketWorkflow` the search in one with `SelectInSeq`, because the prover cannot
expand the recursion inside `SelectSeq`.  That `Among` has a value, and what it
returns, is proved by the least counterexample in the length of the list
(`NatMin`), since the induction theorems cannot be used.

## 5. Findings

Finding 10 is a run of its own.  Most others are stated as properties next to
the code they are about, and TLC shows their violation when they are added to a
configuration of the module: `NoDuplicateOps` (finding 1) to
`TicketSync_remotes.cfg`, `MergeAllCompletes` (2)
to `TicketSync_tickets.cfg` with the statuses, the transitions and the
`MaxPacks = 4` of `TicketSync_safety.cfg`, `ApprovalRecorded` (3) as an invariant
and `ApproversKept` (4) to `TicketWorkflow_ccb.cfg`, where `OneWorkflow` and
`WorkIsApproved` (5) fail without `~ muddled`, `StaleLockCleaned` (6),
`BrokenClockRebuilt` (7), `CreateOrder` (8), `LockedByCache` (9) and
`CreateOrderAfterCrash` (15) to `RepoSession.cfg`,
`RefreshRepairs` (11) to `RepoCache.cfg`, `AlertSettlesEverywhere` (12) to
`WebChecklist.cfg`.  Findings 13 and 14 are what the properties of `SharedRefs`
and `WebBoard` except by name: `Stuck`, `crossed`, `gone`; findings 6 and 9 are
the two exceptions of `CloneGivenBack` (`left`), 15 is one of `CreateOrderAlone`
(`cut`).

1. *Two remotes duplicate operations.*  `Bug.Merge` is documented to rebase the
   operations the other side does not have.  It rebases all packs after the
   common ancestor *commit*; a pack already published elsewhere under another
   hash is rebased again.  The chain then has colliding operation ids, is refused
   by `Bug.Validate` in every clone, and the ticket cannot be committed to.
2. *A conflict stops MergeAll*, although it "will merge all the available remote
   bug".
3. *`ccb approve` can lose the approval*: if the approvals of the status are
   complete but another hook refuses the transition, the command fails before
   the commit.
4. *`ClearAllCcbApprovals` removes the approvers* it is documented to keep.
5. *A workflow label that does not exist, given after a valid one, leaves two
   workflows* and the old status: `ChangeLabels` then forgets that it has found a
   workflow.  With `label add workflow:eng workflow:bogus` a ticket of `qa` that is
   in progress is at work in `eng`, the workflow found first, without any approval
   of the CCB.  Two that do exist, given at once, leave two workflows as well, but
   a status that is reset.
6. *A crash while the lock file is written locks the clone for good*: an empty
   lock file is an error, not a stale lock.  The same goes for a web server that
   dies there in one of its requests.
7. *A broken clock file is not rebuilt*, although `ClockLoader` says so: the
   opening of the repository fails.  A crash is not even needed, another session
   in the middle of `PersistedClock.Write` is enough.
8. *Clocks are loaded before the lock is taken.*  A command that starts while
   another one is finishing creates its ticket with a time already used, and
   sets the clock file back.
9. *A cache that cannot be built leaves its lock file behind*: harmless in a
   command, but it makes the web server refuse every later request.
10. *A ticket that is open while a pull merges it loses operations*, although
    "the cache guarantee that a single instance of a Bug is loaded at once".
    `MergeAll` reads tickets of its own, past the cache; then `Bug.Merge` sets the
    ref over a commit made meanwhile, or `Bug.Commit` over what was merged.
11. *`RefreshCache` does not synchronise the cache with the refs*: it compares
    times of last operations and never drops the excerpt of a ticket that is gone.
12. *A comment whose alert covers its badge flickers for ever*: the alert appears,
    the browser reports that the mouse has left the badge, the alert is hidden,
    the browser reports that the mouse is over the badge.
13. *An identity that was edited in two clones holds up everything*: the clone
    whose push came second can push nothing any more, not even tickets, and its
    pulls fail before the configurations.  "Manual cleaning would be required",
    says the comment; `DivergenceLasts` says that nothing else will help.  The
    same holds of a configuration that two clones have each created: `UpdateConfigs`
    is documented to back the local one up and replace it (`config/config.go:152`),
    but fails when there is no common ancestor (`:199`).
14. *A drop is applied where the placeholder is when the answer comes*, not where
    the ticket was dropped, so that a drag begun meanwhile takes the first ticket
    along on the page (not in the repository).  A drag that ends outside the
    columns, and an answer that never comes, leave the placeholder on the page.
15. *A rebuild of the clocks that is cut short is never finished.*  The new files
    say 1 and follow the tickets as they are read; as soon as both clocks have
    files, `NewGitRepo` takes them as they are.  If the process dies in between, the
    clocks stay behind the tickets that were not reached, and a new ticket may get a
    create time that is not past theirs, until those are read for another reason.

Met while reading, and not modelled:

* `identity/version.go:21` calls the time of a version one of "the bug edition
  lamport clock"; `Identity.Commit` uses a clock of its own.
* `loadConfig` (`webui/webui.go:426`) runs for every request and appends the
  cross-reference rules to those that are there; it fails, and with it every
  request, when the repository has no configuration `webui`.
* The tabs of the checklist page call `selectReviewer`, which is local to the
  handler in `checklist.js:7`: a click shows no other checklist.
* The pull of the terminal interface prints `err.Error()` where the error is
  `result.Err` (`termui/bug_table.go:500`), so that a result with an error ends the
  interface.
* `UpdateIdentity` passes `skipGiteaId` where `skipPhabId` is expected
  (`cache/repo_cache_identity.go:363`).
* An assignee that does not exist is reported as an error of the workflow field
  (`CreateTicketAction.Validate` in `webui/handle_create_ticket.go`).

## 6. State of the work

Everything that was planned for tickets, workflow, clocks, sessions, cache,
identities, configurations and the two interactive pages of the web interface is
modelled and checked.  What would come next:

1. Composition of the workflow with replicated chains: hooks are not run again
   after a merge, so that an approval withdrawn in one clone does not stop a
   transition made in another.  The product of both state spaces is out of the
   reach of TLC as the modules stand.
2. Proofs: the safety properties are done, and the refinements of clones, cache and
   shared refs.  Left is an abstract specification for the board, for which the
   invariant of section 4 is the refinement mapping half written.

## 7. Not modelled

* The commit validator: a walk over a commit graph that compares signatures with
  the keys of identity versions; the signatures are made outside the program, and
  without them nothing is left but the walk.
* The selected ticket and the editor buffers: one file with an id, and texts that
  an editor rewrites between two commands; nothing else reads them.
* The query language: a pure function of a string and an excerpt, whose
  difficulty is in the parsing of characters.
* The imports from Gitea and Phabricator: clients of external services, stored as
  one operation.
* Web forms, sessions and the configuration of the web interface: sequential
  handlers whose outcome is a page.
* Of identities and configurations, their contents and caches in memory; of the
  terminal interface, rendering and dialogs; of tickets, titles, comments and
  reviews, which no rule of the workflow reads.

Character-level parsing, formatting, rendering, key cryptography, code generation
and the random ticket generator are left out everywhere.  Network and disk errors
of git commands are modelled only where the code continues after them.
