# A TLA+ model of spawnery

Spawnery runs long-lived agent sandboxes ("spawns").  A control plane (`internal/cp`,
`cmd/spawnery_cp`) keeps one row per spawn in a database and drives it through create,
suspend, resume, migrate, recreate, fork and stop.  Nodes (`internal/node`,
`internal/spawnlet`, `cmd/spawnlet`) hold the pods; each keeps one bidirectional stream
to the control plane.  An account service (`internal/authsvc`) issues and revokes tokens
and keeps the owner's GitHub link.  Browsers and the CLI talk to an agent through the
control plane's router and a pump on the node.

The project models six parts of it, each with the goroutines, handlers and faults that
meet in it: the life of a spawn, the readoption of pods by a restarted node, forking, the
GitHub link, the way of a sign-out to a live session, and the session pump.  Rows and
sessions of different spawns never meet in a statement (every `WHERE` names the id), so
one spawn, one link, one account and one session are enough for each.

## 1. Inventory

| Component | State | Operations | Talks to |
|---|---|---|---|
| spawn rows (`cp/store/spawns.go`, `reconcile.go`) | `spawns.status`, `status_seq`, `claim_*`; `spawn_containers`, one row per generation | Create, ClaimStarting, SetActive, SetSuspended, RevertSuspended, SetError, MarkDeleted, MarkUnreachable, MarkReachable, Adopt, Acquire, Heartbeat, Release, TransitionClaimed, boot sweep; fork statements | called by all of `cp` |
| lifecycle drivers (`cp/lifecycle.go`, `server.go`) | goroutine locals, `suspendWaiters` | SuspendSpawn, ResumeSpawn, MigrateSpawn, RecreateSpawn, provisionSpawn, stop, reconcileLateSuspend | store, scheduler, router |
| claim and lock (`server.go`, `cp/lock`) | lease in the row, heartbeat goroutine; holder in memory | acquire, renew, release; lock, unlock | store |
| scheduler (`cp/scheduler`) | `pending`, `inflight` | Provision, OnStatus, Progress | registry, node streams |
| router (`cp/router`) | spawn -> stream; attached clients, rosters | Bind, Drop, DropNode, StopOnNode, SuspendOnNode; attach, detach, forward | node streams, clients |
| receive loop (`server.go` runNode) | one per stream | Register, Heartbeat (inventory), Status, SuspendComplete; teardown | everything above |
| readoption (`cp/readopt.go`, `node/readopt.go`, `spawnlet/adopt.go`) | `readoptState` (done, gate, waiting id, answer channel), egress floor, manager store | report, decide, deliver, adopt with rollback, reap | store, container runtime |
| forking (`cp/fork*.go`, `node/fork.go`, `spawnlet/manager_fork*.go`) | source in Forking with its deadline, fork row, transfer set, ingress barrier, pause, node job | ForkSpawn, turn boundary, capture, source restored, export and import, unwind, recovery sweep, reclaim sweep | store, node, pump |
| GitHub link (`authsvc/github_*.go`, `store/github_links.go`) | `github_links` row with `pending_*` stage, mint lock, link flows | start, callback, redeem, mint (refresh, stage, commit), kill switch, reaper | GitHub, nodes |
| sign-out (`authsvc/refresh.go`, `logout.go`, `store/revocations.go`; `node/revocation*.go`, `sessionauth.go`) | refresh families, compacted revocation log; checkpoint, denied tokens and cutoff on the node; live authorizations | login with cap, refresh, reuse detection, logout; page fetch and apply; open, bind, re-authenticate, expire, revoke, close | pump, clients |
| session pump (`node/pump.go`) | busy, queue, prompt in flight, fork barrier, pending permissions, frame log, client cursors | prompt, cancel, answer, attach, detach; turn end, notification, permission request; barrier; stop | agent, router, forking |
| pod manager (`spawnlet/manager.go`, `store.go`) | store of pods, reservations | Create, Stop, SnapshotForSuspend, FinishSuspend, pause, capture | container runtime |
| registry, model switch, intents, secret delivery, profiles, pki, sidecar, adapters, CLI, web | see `PROJECT.json` | | |

What makes them hard to get right:

* two kinds of mutual exclusion that do not exclude each other: suspend, resume, migrate,
  fork and the late reconciler take a leased claim in the row; create, recreate and stop an
  in-memory lock; receive loops neither;
* repository methods of several statements without a transaction; leases that expire
  under a live driver; request contexts that die;
* replies that race stall timers and come back after the driver gave up; streams that
  break with messages in flight and return before the old stream's teardown is done;
* goroutines of a dead connection that run on beside their successors and share a channel
  with them (readoption);
* a pause and a barrier on a live agent that one of four parties has to lift (fork);
* a token that is spent before its successor is stored (GitHub), and an HTTP handler
  whose clock reading is older than its transaction (sign-out);
* a log of revocations that is compacted while nodes read it page by page;
* a mutex released before the effect it decided on: turns, permission answers and log
  frames of the pump.

The correctness conditions that follow:

* spawn: status and container rows agree; only one generation lives; a fenced write
  never acts on an old read; a transient status has somebody who resolves it; leases are
  neither stolen nor kept; an episode runs on one node; orphans are reaped, dead pods noticed;
* readoption: no running pod of a live, unowned episode is destroyed unless its own
  rebuild failed; verdicts are still true when applied; starts are not blocked for ever;
* fork: the source leaves Forking, its pause and its barrier end; a failed fork is
  unwound, an active one never;
* GitHub: no refresh chain is dropped silently; a delivery id names one tuple; a closed
  link stays closed;
* sign-out: every revoked token is denied by something a node will fetch, nobody else's
  is; a bound session is authorized; only the sessions meant are closed;
* pump: one turn at a time, every prompt in order, one answer per permission request, a
  fork sees a quiet agent, a transcript without holes, and nothing waits for ever.

## 2. Modules

| Module | Models |
|---|---|
| `SpawnStore` | the row and one operator per SQL statement; `StoreSpec` is the abstract specification: any client issuing any statement in any order |
| `SpawnLifecycle` | drivers, claim heartbeat, lock, waiter table, scheduler, router, receive loops, nodes, network, faults; EXTENDS `SpawnStore`, implements `StoreSpec` |
| `PodCustody` | what readoption promises about pods, without the handshake |
| `Readopt` | the handshake; implements `PodCustody` |
| `SpawnFork` | forking, with its sweeps and the node's jobs |
| `GitHubLink` | the account service's side of a GitHub link, and GitHub |
| `SessionRevocation` | sign-out, revocation feed, node store, session authorizations |
| `Pump` | the session pump, with tab, route and agent as environment |
| `MC*` | symmetry sets; the budgets of `Pump` |
| `*Proofs` | theorems, one module per component that has any |

The modules meet where one assumes what another shows: `Pump` assumes that a fork gives
its barrier back, which is `SpawnFork`'s BarrierGivenBack (but see the leak under known
deviations: there `Pump`'s NothingStuck fails with it); `SpawnFork` assumes that a granted
boundary is a quiet agent, which is `Pump`'s ForkSeesQuiet; `Readopt` treats drivers as an
environment that moves the ledger as `SpawnLifecycle` does; `SessionRevocation` binds
clients to a pump whose inside is `Pump`.

### SpawnStore

`status`, `claim`, `expired` (the deadline has passed) and `containers` (a sequence
indexed by generation; a row is live while `ended_at` is NULL, that is while its phase is
not `stopped` or `lost`).  `status_seq` is only compared for equality with a value read
before, so instead of a counter the model keeps, per driver, `seen`: the status it read,
or `"stale"` once the sequence number has moved.  No bound on the counter is needed.
A method with several statements is several operators; a guard query directly followed by
the `UPDATE` whose `WHERE` repeats it is one.

### SpawnLifecycle

A *driver* is one goroutine that runs one operation: `pc` is the statement it is
about to issue, the other per-driver variables its locals.  One action is one store
statement with the in-memory work next to it.

| pc | Code |
|---|---|
| `acquire`, `lock`, `exit` | acquireClaim; `s.locks.Lock` and the Get behind it; Release or unlock |
| `sGet sTrans sWait sDrain` | suspendLocked: read, Active->Suspending, wait loop, drain after the stall |
| `revGet* revTrans*` | handleSuspendReply's revert, three attempts |
| `susp0 susp1 susp2`, `rev0 rev1 rev2`, `err1 err2` | SetSuspended, RevertSuspended, SetError, one pc per statement |
| `lGet lFlip` | reconcileLateSuspend |
| `rGet rClaim rRead rTrans`, `fail` | resumeLocked up to Provision; failResume |
| `prov wait`, `act1 act2 actFail` | scheduler.Provision; SetActive, two statements, and its compensation |
| `cFence cClaim`, `xFence xDel1 xDel2` | RecreateSpawn; stop and terminateSpawn |

The receive loop of a node (`rx`) has its own intermediate states: between the waiter
lookup and the channel write of `deliver`, between the lost sweep's read and its
MarkUnreachable, between the adopter's Bind and its MarkReachable.  `dropped` is the gap
between DropNode and MarkUnreachable in the teardown of a broken stream.

A sender (`route`, `target`) belongs to one stream and is dead after that stream broke.
Pods and FinishSuspend goroutines carry the same flag: they report over the stream they
were started from.  The network is a set of messages, because Start and Suspend run on
their own goroutines on the node; a broken stream loses what is in flight.

Abstractions: acquireClaim's three Get/Acquire attempts are one step; timers fire at any
time; everything that may refuse before Provision (placement, intents, secrets, transfer
set) is one nondeterministic failure; store errors other than conflicts and dead contexts,
`forking`, markers, digests and progress are left out; reconcileLateSuspend's Get and
LatestContainer are one read; a driver runs once.  Bounds: `MaxGen` container rows,
the number of drivers, one heartbeat in flight per node.

### Readopt and PodCustody

The node process has just started: pods run, its memory is empty.  Each connection starts
one attempt goroutine (`att`, its `pc` the next step of reconcileManagedPods,
applyReadopt, Adopt and reapPod); `done`, `gate`, `waiting` and `answer` are the fields of
`readoptState`, which outlive connections.  An attempt of a broken connection runs on:
under its cancelled context every runtime call fails, except the rollback of the egress
floor and the Stop of a pod, which run WithoutCancel (`adopt.go:212`; `docker_pod.go:187`,
`cri/backend.go:388-393`).  Drivers move the ledger (`live`, `last`, `busy`) at any
time; starts wait behind the gate.  `PodCustody` promises that the pod of the live episode of
a spawn no driver is working on is destroyed only after its own rebuild failed.  `CustodyKept`
is `PodCustody!Spec` under the mapping `rebuilding <- Rebuilding`: spawns some attempt, of
whichever connection, failed to rebuild from the very pod that runs.  The promise says nothing
of why a rebuild failed; that a broken stream is reason enough is a known deviation.
Abstractions: the content of an adopted pod (mounts, relays, watchers) is one entry in the
manager store; one report or answer is on the stream at a time (one attempt per connection
sends one report).  Bounds: `MaxGen`, `MaxConn` (the last connection stays up).

### SpawnFork

One source and, per fork, the driver (`pc` follows forkSpawnClaimed and, after a failure,
unwindFailedFork), the fork row and transfer set, and the job on the node (`warm`, `snap`,
`delta`, `resume`, `report`, `seed`, `import`).  Beside them the recovery sweep (`rec`) and
the reclaim sweep (`sweep`).  Commands and replies are sets, since the node serves each on
its own goroutine; a broken stream empties them.  A wait for the turn boundary is a loop that
checks its context and then takes the barrier, two steps (`NodeChecks`, then `NodeBarrier` or
`NodeRetries`): a release may fall between them.  `lease` names its holder; the sequence
number is not repeated here (SpawnStore).  Abstractions: key exchange, artifact copying,
naming and quotas are "may fail"; the other operations that may move the source away are
one action (`left`); the age test of the reclaim sweep is "the driver is dead" (`Reclaimable`).
That a Restoring set older than staleRestoringForkGrace has no living driver is an assumption
about time: the grace adds up the driver's waits but not its wait for the source lock, and a
reclaim under a slow living driver is outside the model.  Bounds: the number of forks, `MaxFaults` faults in a behaviour.

### GitHubLink

GitHub issues numbered tuples; exchanging a refresh token spends one and issues the next.
A mint is `refresh`, `stage`, `commit` (or `mark`) under the process's mint lock; redeem
and revoke do not take it.  A crash forgets mints, flows and the lock, and keeps the row.
`lost` records the tuples whose successor was dropped before it was staged, the one loss
the write-ahead design accepts.  Answers that change nothing are stuttering.
`QuietRelink` restricts redeems to moments without a rotation in progress.  The code does not
enforce it (redeem takes no mint lock and does not look at `pending_*`): RelinkIsTrue and
DeliveryNamesOneTuple are checked and proved under it, ChainKept and RevokedIsInert are proved
without it, and `relink_race` shows what happens otherwise.  Bound: `MaxTuples`.

### SessionRevocation

One account, one node, one (spawn, session, client) key.  The account service side is a
clock, families, tokens and the compacted log; the node side is the durable store, its
in-memory snapshot, the consumer with its fetched page, and the registry with the pending
attaches and close functions that run after the unlock.  Tokens live `Life` ticks from the
second they are stamped with.  A login carries a clock reading taken before its
transaction (`stamp`); `LateLogout` lets the account-wide sign-out do the same.  Left out:
signatures, terminal sessions, the control plane's copy of the feed.  Bounds: clock,
tokens, sign-outs, attachments, faults.

### Pump

Every goroutine of pump.go takes the mutex for one critical section and does the rest
after the unlock.  The section is an action; the rest is the goroutine's `job`: frames to
log, then a prompt to send, then a line to write, each a step of its own.  The actors are
the node's receive loop (`rx`, which clients share), readLoop (`rd`), the fork goroutine
and the timer of each permission request.  Frames are their numbers; `sent[k]` is what the loop
of the k-th attachment has sent since its cursor or its last reset, and `shown` what the tab
displays.  A tab has one client id for all its connections (`AcpSessionPanel.tsx:18`, `:79`): an
attachment replaces its predecessor, whose loop may still take a wake-up and send a batch before
it sees `done` (a `select` over both), and whatever is sent to the id reaches the connection that is up.  The agent, the tab and the control plane's route are
environment: messages to the node are in order (one stream), and frames to the tab are
delivered as they are sent.  The model starts after the ACP handshake; the death of the
agent belongs to `SpawnLifecycle`.  Bounds: each behaviour has a `budget` of prompts,
controls, permission requests, attachments, notifications and forks, chosen in Init.

## 3. Runs

| Run | Instance | Checks |
|---|---|---|
| `concurrent_ops` | create + 2 of {suspend, recreate, stop, resume}, MaxGen 2 | TypeOK, DormantHasNoEpisode, OneWaiter, TransientOwned, SeqFencesStatus, LiveIsLatest, StoreSpec, DeletedIsFinal, LeaseNotStolen |
| `migration` | create + migrate, 2 nodes, disconnects | EpisodeOnOneNode, DormantHasNoEpisode |
| `failures` | create + one of {suspend, recreate, stop}, crashes and broken streams | SuspendingFromActive, LeaseFreed |
| `progress` | create + one of {suspend, recreate, stop, resume}, agents dying, leases renewed late | TransientResolves, EveryOpReturns, OrphanReaped, DeadPodNoticed |
| `readopt` | 1 pod, 2 generations, 2 connections, broken stream, node restart, store and runtime errors, moving ledger | VerdictsStayTrue, CustodyKept, GateOpens |
| `fork` | 1 fork to the same or another node, one fault of any kind | ActiveForkIsSeeded, ForkingResolves, PauseEnds, BarrierGivenBack, FailedForkUnwound |
| `github_link` | 2 mints, 2 flows, 2 identities, 4 tuples, QuietRelink | ChainKept, RelinkIsTrue, DeliveryNamesOneTuple, RevokedIsInert |
| `session_revocation` | 2 families, cap 1, 2 tokens, 2 sign-outs everywhere, 2 attachments, 1 fault, pages of one event | SignOutNotLost, NoFalseDenial, AttachedIsAuthorized, DenialSticks, LiveSessionKept |
| `pump` | 4 budgets: 4 prompts and 2 forks; 2 prompts, control, permission, fork; prompt, control, permission, 1 tab; 2 attachments, 3 notifications.  Queue and log of 2, channel of 1 | AgentProtocolKept, PromptsInOrder, ForkSeesQuiet, SentInOrder, NothingStuck |
| `stranded`, `relink_race`, `sign_out_lost` | see below | each refutes a statement of a comment or document |

Why the bounds are enough: in the lifecycle runs every creation is concurrent with the
operations, so three drivers mean the creating goroutine and two users, and the races of
interest are between two of them; two generations are an old and a new episode.  Two
connections are one attempt that outlives its stream and its successor.  One fork meets
both sweeps and the node's jobs; a second one would only meet the first at the source
lock.  Four tuples allow a link, a rotation and a relink with its rotation.  Two families
under a cap of one make every login evict; two sign-outs make compaction delete; pages of
one event make the node always lag.  Queue, log and channel of the pump are filled and
overrun.  A lease that passes its deadline before it is
renewed is in `progress`; that another driver then takes it over under its living holder is
left to the theorems (`LeasesNotStolen`, `SuspendsOnlyActive` hold under every fault and for
any number of drivers).  OneWaiter holds only without such a takeover (known deviations).

Ids that are interchangeable are symmetric in the runs without liveness.  Deadlock is
checked in the lifecycle runs, where heartbeats never stop; the other models end when
their budgets, attempts, tokens or tuples are used up, and switch the check off.

### Fairness

No fairness on users, faults, or on which outcome (success, failure, timeout) a step has.

* `SpawnLifecycle`: each driver, late goroutine, Provision call, claim heartbeat, receive
  loop, message, node step and the redial loop, and the deadline of a lease whose control
  plane died.  Goroutines are scheduled by the Go runtime; every wait is a `select` with a
  timer; streams deliver or break; the node heartbeats every five seconds and redials for
  ever (`attach.go` Run).
* `Readopt`: attempts run, the node redials, the control plane answers a report it
  received, drivers end (EveryOpReturns).
* `SpawnFork`: drivers, node messages and jobs run; leases of dead holders and the capture
  deadline pass; the node reconnects; the sweeps are periodic.  The recovery sweep's steps
  that need the lease, or the stream, are strongly fair: the reconciler comes back every
  tick, so it meets a lease that is free again and again.
* `Pump`: goroutines and the writer run, the agent ends a turn when it waits for nothing,
  permission timers fire, and a fork gives its barrier back.
* `GitHubLink`, `SessionRevocation`: safety only.

### What the violations show

* `stranded`: a client that disconnects during the suspend wait leaves the spawn in
  Suspending; the "recovery sweep" of the comment does not exist (`ListStranded` has no
  caller).
* `relink_race` (QuietRelink off): redeem takes no mint lock and leaves a staged rotation
  in place; the commit then installs the old link's tuple under the version the relink
  was given.  One delivery id names two tuples.  With two identities the same schedule breaks
  `TokenMatchesIdentity` (in the module, checked by no run): the row names the new login and
  serves a token of the old one.
* `sign_out_lost` (LateLogout on): a sign-out everywhere whose clock reading predates a
  login lists the login's token; a later sign-out with a newer cutoff finds the family
  revoked, lists nothing, and compaction deletes the only event that names the token.

### Known deviations without a run of their own

Met while modelling.  The first group is reproduced by TLC after adding the formula to the
module or changing a constant of a run; the rest was read in the code.

Lifecycle, with TLC:

* SetError is two statements (`spawns.go:387-404`); a recreate in between loses its new
  container row to the second one, and an active spawn has none.
* DormantHasNoEpisode fails with `"crash" \in Faults`: a crash between these statements.
* The generation fence of reconcileLateSuspend is a read before the flip, and recreate does
  not take the claim (`lifecycle.go:629`).
* The teardown of the old stream marks the spawn unreachable after the new stream bound
  it; the adopter returns early while a route is bound (`server.go:940`), so it stays so.
* A rolled-back migration does not clean its target: when its resume stalls or times out, the
  route is dropped (`lifecycle.go:956`, `:969`) before failResume's StopOnNode (`:1001`), which
  sends over that route, and Provision binds one only on ACTIVE.  No Stop is sent; the Start on its
  way brings up an agent behind the suspended spawn, against "target artifacts cleaned"
  (`:1015-1016`), until a later heartbeat has it stopped.  The formula, with 2 nodes, 2 drivers and
  `Ops = {"migrate"}`: `status = "suspended" /\ ~ClaimHeld /\ toNode = {} =>
  \A n \in Nodes : pod[n].st # "running"`.
* So two agents of different generations may run at once on two nodes: with a second migration
  after a rolled-back one, and with a recreate elsewhere while the Start of the creation is in
  flight.  What holds, and is proved, is EpisodeOnOneNode: one generation is never on two nodes,
  so adoptOrStop cannot adopt the wrong pod.
* OneWaiter fails with `"expiry" \in Faults`: a superseded suspend keeps waiting and its
  deferred unregister removes its successor's waiter (`lifecycle.go:61-62`, `:103`).
* A driver told that its claim is lost still commits a status (`store.go:119-122`).
* Resuming is entered from another status than Starting by a migration that races the
  creation's SetError (`lifecycle.go:809`).
* A SuspendComplete that arrives while the stalled driver still holds its claim does not
  turn Errored into Suspended (`lifecycle.go:512`).

Readoption, with TLC: `BlipSparesPods` ("A CP blip must never become data loss",
`node/readopt.go:18`) fails on the `readopt` instance with `Faults = {"break"}` in 11 steps: the
report is answered with ADOPT, the stream breaks, the rebuild fails because the context of the
attempt is cancelled (adoptPod), and applyReadopt reaps the pod (`node/readopt.go:179-181`).
The capture before the reap fails under the same context (`adopt.go:81`, "non-fatal"), the Stop
does not (`adopt.go:90`): a live episode is destroyed uncaptured while the control plane is away.

Fork, with TLC: `BarrierLifted` ("release must cancel pending acquire", `fork_test.go:935`) fails on
the `fork` instance without any fault in 14 steps.  acquireForkBarrier checks its context
(`node/fork.go:393-398`) and takes the barrier (`:399`, `:461-464`) without looking again; a
ReleaseForkTurnBoundary in between (`:311-329`) finds no barrier and cancels a context nobody
reads any more.  The barrier stays up for a fork that is over, and input to the source is held
until something else releases the barriers of the generation.  BarrierGivenBack is
what holds: a barrier whose fork still waits, holds it or has its release under way is lifted.

Pump, with TLC: `ShownInOrder` fails on the `pump` instance in 11 steps.  `pump.go:187` says that ids
are normally unique per connection, but the web client uses one id for all connections of a
tab (`AcpSessionPanel.tsx:18`, `:79`): after a reconnect the old clientLoop still sends what it
was woken for, beside the new one, and the tab shows frames twice or out of order.  SentInOrder, per
attachment, is what holds.

Read in the code:

* Stop destroys the pod and drops the route before MarkDeleted, which refuses Suspending
  and Resuming (`server.go:1706`): the caller gets an error and the pod is gone.
  RecreateSpawn runs SetError and SetActive under the request context (`lifecycle.go:1336`).
  The node's slot counter is decremented for stops of spawns without a slot
  (`attach.go:1478`).
* Readoption: the header of `node/readopt.go` (15-16) promises a retry that `done = true`
  (156) excludes; a late attempt overwrites the waiting id and drops the current answer;
  the gate is also opened by a timeout, against `attach.go:607-609`; the rollback of a dead
  attempt (`adopt.go:212`) removes the floor a later attempt installed.
* Fork: a source unpaused by the recovery sweep during its capture gives a torn fork
  (`fork.go:222`, against the design document's coherence claim); SourceRestored is not sent
  when the capture fails (`fork_materializer.go:450` calls it always sent); forks whose
  driver died while Pending or Capturing are never reclaimed; sweepFailedForks stops at its
  first error; a cross-node delta on the source is never released; a late job writes after
  the clean-up; UnpauseIfPaused releases the barrier of any fork of the generation;
  startFork registers its intent under the source's id (`fork.go:263`).
* GitHub: a mint in flight may mark a freshly relinked row relink_required; a stale stage
  may belong to the previous identity; the kill switch may race a rotation and leave the
  successor alive; the fan-out signal is lost while a node is disconnected
  (`cp/github_fanout.go:100-117`); a control plane restart empties its link index.
* Sign-out: a login whose clock reading predates a concurrent sign-out everywhere gets a
  token that is denied at once; after an ambiguous commit and a restart a denied token is
  accepted until it is fetched again; bindPendingClient's result is ignored
  (`attach.go:2078`, `2149`), and a pump that exits early leaves an open pending for ever
  (`2114-2123`); `tmuxrelay.go:201-203` replaces an entry without closing its PTY;
  the control plane's registry fans out explicit tokens only (`cp/auth/revocation.go`), and
  its RevokeAccount has no caller; enforceCapOrEvict and Insert are not atomic.
* Router: a client whose Open could not be sent stays registered (`ws.go:131-136`); Open is
  sent after the unlock and may be overtaken by its successor's.
* Pump: fromClient logs its "user" and "busy" frames after the unlock, so a drain may log
  first, and a late "busy" may follow the final "idle"; the cursor check misses a restarted
  pump whose numbers have passed the client's cursor; after the agent's death nobody calls
  stop(), and a sendLine on a full channel blocks the node's receive loop; the first
  session's pump is registered before its handshake (`attach.go:1405-1414`).

## 4. Proofs

Theorems hold for every value of the constants under the ASSUMEs of the modules (bounds
are positive, the markers for "nobody" are none of the ids).

`SpawnStoreProofs`: `StoreInv` is the type invariant with SeqFencesStatus and LiveIsLatest.
It is inductive as it stands: a statement that changes the status bumps the sequence number,
which outdates every read; ClaimStarting ends whatever is live in the transaction that appends
the next row; Adopt and SetActive only touch a live row.  DeletedIsFinal follows: every status
predicate excludes `deleted`, and TransitionClaimed, which has none, needs a current read, which
by SeqFencesStatus is not of a deleted row.

`SpawnLifecycleProofs`:

1. `StepRefines`: every step of the system is a statement of the store or leaves the row alone.
   With it `Refinement` (Spec => StoreSpec), and the store's results carry over (`RowFences`,
   `DeletedForGood`).
2. `TypeCorrect`, from `Inv == TypeOK /\ StoreInv`; the store half is needed because the
   generation a suspend picks must be one of the rows.
3. `LeasesNotStolen`: Acquire needs a free or expired lease, Release is fenced by the lease,
   a crash orphans it.
4. `WaiterUnique`: OneWaiter if no lease expires under its driver.  The strengthening is
   ClaimExclusive (a driver past acquire owns the unexpired claim) and SuspendUnderClaim (whoever is
   in suspendLocked is such a driver): only then is the waiter slot a suspend clears its own.
   The assumption is necessary (known deviations).
5. `SuspendsOnlyActive`, under every fault: a driver about to write Suspending has read Active or
   has a stale read (ReadActive); TransitionClaimed refuses the stale read, and by SeqFencesStatus
   a current one is the row's status.
6. `DormantEnded`: DormantHasNoEpisode with lease expiry, broken streams and dying agents.  SetError,
   SetSuspended, RevertSuspended and MarkDeleted flip the status and end the row in two statements;
   the strengthening `CutInv` says that a driver between them is not abandoned: only recreate and
   stop run the second statement under the request's context.  Hence the hypotheses: no crash, and
   no disconnect where those two operations are allowed (`RequestsKept`).
7. `TransientsOwned`: on top of the waiter invariant, `NoCut` (contexts are alive), `OpInv` (which
   operation a control point belongs to) and `OwnedInv` (suspending with a live episode has a
   suspend that is past its transition, resuming has its resume).  The claim makes that driver the
   only one that may move the status on.  Expiry, disconnect and crash are excluded; `stranded` is
   the counterexample for the second.
8. `EpisodesApart`, under every fault: `StartInv` says that the permission to start a generation is
   in one place, with the driver that was given the generation, in the Start message, or used up by
   a pod (`StartOnce`), and that nobody is ahead of the row (`StartKnown`), so the next
   generation is new to everybody.

`ReadoptProofs`: `ReadoptTypeCorrect`; `VerdictsTrue`, because a reap is only decided for a
generation that has no live row and generations are never reused, wherever the verdict
travels (stream, channel, attempt of a dead connection); `ReadoptKeepsCustody`, the refinement of
PodCustody: with the verdict invariant every ReapPod, on a live or a dead connection, is a Destroy
of a pod whose episode is over or whose own rebuild failed, every gated start a Start, every driver
step a Ledger step.

`SpawnForkProofs`: `ActiveForkKeepsRepo`.  The strengthening `SeedInv` says that
the driver of an active fork has nothing left to unwind, that a failed transfer set belongs to a
driver that is unwinding or gone, and that the reclaim sweep only holds forks no driver can still
activate.

`GitHubLinkProofs`: `ChainNeverDropped` and `RevokedInert` from
`LinkInv == TypeOK /\ ChainInv`, whose parts say that a mint past its first step holds the lock
(LockInv), how GitHub's books relate (BookInv), what each mint and flow holds (MintInv, FlowInv).
`DeliveryIdsUnique` and `RelinkTrue` assume QuietRelink and add `QuietInv`: while a mint rotates,
the row is the one it read.  Without the assumption both are false (`relink_race`; known
deviations).

`SessionRevocationProofs`: everything rests on `BaseInv`, the types with `RecordShape` (a record
holds an attachment and a token together) and `FeedInv`: tokens are stamped no later than the
clock (TokenInv), the log is numbered and has one account event (LogInv), memory and disk agree
unless a commit was ambiguous (StoreInv), and a page in hand is the next part of the log
(PageInv).

1. `DenialJustified`: `JustInv`, every event, page and store only names tokens of revoked families;
   the steps copy from one to the next.
2. `DenialsStick` and `LiveSessionsKept`, the action properties: a page only adds, pruning only
   takes expired tokens; closeAttachment compares the attachment it was made for.
3. `TransportsAuthorized`: `RegInv` adds where an attachment is (`PlaceInv`: opened once, in one of
   opening, pending, binding, attached) and whose record it is (`RecordInv`).  That nothing is
   being bound before the pump is ready had to be added to make it inductive.
4. `SignOutsReachNodes`, if a sign-out everywhere commits with the clock it reads (~LateLogout; without
   it the statement is false, `sign_out_lost`): `CutoffInv`, an account event lists no token
   stamped after its cutoff, which is what lets compaction merge events.

`PumpProofs`: `PumpInv` is the types and four invariants, for any budget, queue, log and channel.

1. `TurnInv`: a started prompt is in one place (a goroutine's hands, the channel, the agent, its
   result) and until its turn has ended the pump is busy; a held barrier means not busy.  Gives half
   of `OneConversation` and `QuietCapture`.
2. `AnswerInv`: an unanswered permission request is in one place as well.  The other half of
   `OneConversation`.
3. `QueueInv` and `OrderInv`: what was accepted is what the agent received, then the prompt on its
   way, then the queue.  Gives `OrderKept`.  QueueInv (prompts wait only for a turn or for a fork)
   was found in the proof: without it a new prompt could overtake a queued one.
4. `ViewInv`: the loop of an attachment, replaced or not, goes on where its last send left off
   (`LoopInv` for the batch in its hands, `SentInv` for its cursor).  Gives `StreamInOrder`:
   SentInOrder for every attachment.  The transcript of the tab mixes two of them (known deviations).

Each inductive invariant was checked by TLC on the runs' instances before it was proved, `StartInv`
with two nodes, crashes and broken streams.

Only model-checked, because fairness and ENABLED are beyond the prover: LeaseFreed, TransientResolves,
EveryOpReturns, OrphanReaped, DeadPodNoticed, GateOpens, ForkingResolves, PauseEnds, BarrierGivenBack,
FailedForkUnwound, NothingStuck.  Every other property of a passing run has a theorem.

## 5. Not modelled, and the plan

Left out for good: cryptography and certificates, container runtime and file I/O, generated code
(a quarter of the repository's Go), adapters, CLI, web, telemetry, and the CRUD of profiles,
bundles and skills, which is one versioned statement each.

Next, most important first:

1. `RouterLeases`: client leases and rosters of the router.
2. `NodeRegistry`, `NodeSlots`: tokens, displacement of streams, slots on both sides.
3. `StartStall`: the scheduler's stall timer, backstop and generation-fenced progress.
4. `SecretReplay`, `ModelSwitch`, the tmux relay, `acpmux`.
5. Proofs of the safety halves of the liveness properties (what bounds each wait), and a type
   theorem for `SpawnFork` and `GitHubLink`.
