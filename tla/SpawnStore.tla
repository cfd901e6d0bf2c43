----------------------------- MODULE SpawnStore -----------------------------
(***************************************************************************)
(* The durable record of ONE spawn in the control plane's database, and    *)
(* the SQL statements of internal/cp/store/spawns.go that read and write   *)
(* it.  Spawn rows are independent of each other: every statement is keyed *)
(* by the spawn id.                                                        *)
(*                                                                         *)
(* A repository method is a sequence of statements, and only ClaimStarting *)
(* runs inside a transaction, so one operator below is one statement (a    *)
(* guard query directly followed by the UPDATE it guards counts as one).   *)
(*                                                                         *)
(* status_seq is only ever compared for equality with a value read         *)
(* earlier, so the model keeps, for every driver, the status it read while *)
(* the sequence number has not moved since, and Stale afterwards.          *)
(***************************************************************************)
EXTENDS Naturals, Sequences, FiniteSets

CONSTANTS Nodes,      \* node ids
          Drivers,    \* control-plane goroutines that drive the spawn
          NoNode,     \* node_id "" of a container that is not placed yet
          NoLease,    \* claim_lease_id NULL
          Orphan,     \* a lease whose control plane died with it
          MaxGen      \* bound: generations (container rows) per spawn

ASSUME MaxGenAssumption == MaxGen \in Nat \ {0}
ASSUME LeaseAssumption == NoLease \notin Drivers /\ Orphan \notin Drivers /\ NoLease # Orphan
ASSUME NodeAssumption == NoNode \notin Nodes

VARIABLES status,      \* spawns.status
          containers,  \* spawn_containers rows, indexed by generation
          claim,       \* claim_lease_id
          expired,     \* claim_deadline < now
          seen         \* per driver: the status it read, or Stale

storeVars == <<status, containers, claim, expired, seen>>

Statuses == {"starting", "active", "suspending", "suspended", "resuming",
             "unreachable", "errored", "deleted"}
Stale == "stale"
EndedPhases == {"stopped", "lost"}      \* the row has ended_at set
Phases == {"starting", "active"} \cup EndedPhases
Container == [node : Nodes \cup {NoNode}, phase : Phases]

StoreTypeOK ==
  /\ status \in Statuses
  /\ containers \in Seq(Container)
  /\ Len(containers) \in 1 .. MaxGen
  /\ claim \in Drivers \cup {NoLease, Orphan}
  /\ expired \in BOOLEAN
  /\ seen \in [Drivers -> Statuses \cup {Stale}]

-----------------------------------------------------------------------------
(* Reads *)

IsLive(c) == c.phase \notin EndedPhases

LiveGens == {g \in DOMAIN containers : IsLive(containers[g])}

MaxGeneration == Len(containers)
\* Mutant: the generation handed to the driver is one too high.
NewGenerationSkips == MaxGeneration + 2
NewGeneration == MaxGeneration + 1

\* Mutant: the deadline is not looked at.
ClaimHeldForever == claim # NoLease
ClaimHeld == claim # NoLease /\ ~expired

\* Get hides deleted rows; the driver keeps the (status, status_seq) it read.
Get(d) ==
  /\ status # "deleted"
  /\ seen' = [seen EXCEPT ![d] = status]
  /\ UNCHANGED <<status, containers, claim, expired>>

-----------------------------------------------------------------------------
(* Statements *)

\* status_seq = status_seq + 1: no earlier read is current any more.
BumpSeq == seen' = [d \in Drivers |-> Stale]

\* Mutant: the sequence number is not bumped.
GuardStatusNoBump(from, to) ==
  /\ status \in from
  /\ status' = to
  /\ UNCHANGED <<containers, claim, expired, seen>>

\* UPDATE spawns SET status = to WHERE status IN (from).
GuardStatus(from, to) ==
  /\ status \in from
  /\ status' = to
  /\ BumpSeq
  /\ UNCHANGED <<containers, claim, expired>>

\* Mutant: only rows that became active are ended.
EndAllActive(cs, p) ==
  [g \in DOMAIN cs |-> IF cs[g].phase = "active" THEN [cs[g] EXCEPT !.phase = p] ELSE cs[g]]

EndAll(cs, p) ==
  [g \in DOMAIN cs |-> IF IsLive(cs[g]) THEN [cs[g] EXCEPT !.phase = p] ELSE cs[g]]

\* UPDATE spawn_containers SET ended_at, phase = p WHERE ended_at IS NULL:
\* the WHERE clause names the spawn, not a generation.
EndLiveContainer(p) ==
  /\ containers' = EndAll(containers, p)
  /\ UNCHANGED <<status, claim, expired, seen>>

\* Mutant: the old live row is kept.
ClaimStartingKeepsOld(from) ==
  /\ status \in from
  /\ MaxGeneration < MaxGen
  /\ status' = "starting"
  /\ BumpSeq
  /\ containers' = Append(containers, [node |-> NoNode, phase |-> "starting"])
  /\ UNCHANGED <<claim, expired>>

\* One transaction: status guard, end the live row, insert generation max+1.
ClaimStarting(from) ==
  /\ status \in from
  /\ MaxGeneration < MaxGen
  /\ status' = "starting"
  /\ BumpSeq
  /\ containers' = Append(EndAll(containers, "lost"), [node |-> NoNode, phase |-> "starting"])
  /\ UNCHANGED <<claim, expired>>

SetActiveFrom == {"starting", "resuming"}
\* SetActive, first statement.
SetActiveStatus == GuardStatus(SetActiveFrom, "active")
\* SetActive, second statement, WHERE generation = g AND ended_at IS NULL.
SetActiveContainer(g, n) ==
  /\ g \in LiveGens
  /\ containers' = [containers EXCEPT ![g] = [node |-> n, phase |-> "active"]]
  /\ UNCHANGED <<status, claim, expired, seen>>

\* guardContainerGen: a SELECT of its own, before the UPDATE it guards.
GuardContainerGen(g) == g \in LiveGens

\* SetSuspended and RevertSuspended, the guardStatus statement.
SetSuspendedStatus == GuardStatus({"suspending"}, "suspended")
RevertSuspendedStatus == GuardStatus(SetActiveFrom, "suspended")

SetErrorFrom == {"starting", "active", "suspending", "resuming", "unreachable"}
SetErrorStatus == GuardStatus(SetErrorFrom, "errored")

MarkDeletedFrom == {"starting", "active", "suspended", "unreachable", "errored"}
MarkDeletedStatus == GuardStatus(MarkDeletedFrom, "deleted")

ReconcileSuspendedAfterError == GuardStatus({"errored"}, "suspended")

\* Rows already past starting/active are left alone; the live row is kept.
MarkUnreachable ==
  IF status \in {"starting", "active"}
  THEN GuardStatus({"starting", "active"}, "unreachable")
  ELSE UNCHANGED storeVars

\* The sweep a starting control plane runs before it serves; the lease of the
\* process that died stays in the row.
MarkBootUnreachable ==
  /\ status' = IF status \in {"starting", "active", "suspending"} THEN "unreachable" ELSE status
  /\ BumpSeq
  /\ claim' = IF claim = NoLease THEN NoLease ELSE Orphan
  /\ UNCHANGED <<containers, expired>>

\* Adopt: rebind the live row's node_id; no seq bump.
AdoptContainer(g, n) ==
  /\ g \in LiveGens
  /\ containers' = [containers EXCEPT ![g].node = n]
  /\ UNCHANGED <<status, claim, expired, seen>>

\* MarkReachable, the guardStatus statement; any other status is left alone.
MarkReachableStatus ==
  IF status = "unreachable" THEN GuardStatus({"unreachable"}, "active") ELSE UNCHANGED storeVars

\* Mutant: a held lease is overwritten.
AcquireUnguarded(d) ==
  /\ claim' = d
  /\ expired' = FALSE
  /\ BumpSeq
  /\ UNCHANGED <<status, containers>>

Acquire(d) ==
  /\ ~ClaimHeld
  /\ claim' = d
  /\ expired' = FALSE
  /\ BumpSeq
  /\ UNCHANGED <<status, containers>>

\* Lease-fenced; extends the deadline, no seq bump.
HeartbeatClaim(d) ==
  /\ claim = d
  /\ expired' = FALSE
  /\ UNCHANGED <<status, containers, claim, seen>>

Release(d) ==
  IF claim = d
  THEN /\ claim' = NoLease
       /\ expired' = FALSE
       /\ BumpSeq
       /\ UNCHANGED <<status, containers>>
  ELSE UNCHANGED storeVars

\* Mutant: not fenced by the sequence number.
TransitionUnsequenced(d, g) == claim = d /\ g \in LiveGens

\* Sequence-, lease- and generation-fenced; there is no status predicate.
TransitionAllowed(d, g) == seen[d] # Stale /\ claim = d /\ g \in LiveGens
TransitionClaimed(d, g, to) ==
  /\ TransitionAllowed(d, g)
  /\ status' = to
  /\ BumpSeq
  /\ UNCHANGED <<containers, claim, expired>>

\* A claim_deadline passes.
ExpireLease ==
  /\ claim # NoLease
  /\ ~expired
  /\ expired' = TRUE
  /\ UNCHANGED <<status, containers, claim, seen>>

-----------------------------------------------------------------------------
(* What the store promises to any set of clients that issue its statements  *)
(* in any order.                                                            *)

\* Create: the row and its first container.
StoreInit ==
  /\ status = "starting"
  /\ containers = <<[node |-> NoNode, phase |-> "starting"]>>
  /\ claim = NoLease
  /\ expired = FALSE
  /\ seen = [d \in Drivers |-> Stale]

ResumeFrom == {"suspended"}
RecreateFrom == {"unreachable", "errored"}
ClaimedTargets == {"suspending", "resuming", "active"}

ClaimStatement(d) ==
  \/ Get(d) \/ Acquire(d) \/ HeartbeatClaim(d) \/ Release(d)
  \/ \E g \in LiveGens, to \in ClaimedTargets : TransitionClaimed(d, g, to)
StatusStatement ==
  \/ SetActiveStatus \/ SetSuspendedStatus \/ RevertSuspendedStatus \/ SetErrorStatus
  \/ MarkDeletedStatus \/ ReconcileSuspendedAfterError
  \/ MarkUnreachable \/ MarkReachableStatus \/ MarkBootUnreachable
ContainerStatement ==
  \/ \E from \in {ResumeFrom, RecreateFrom} : ClaimStarting(from)
  \/ \E p \in EndedPhases : EndLiveContainer(p)
  \/ \E g \in LiveGens, n \in Nodes \cup {NoNode} : SetActiveContainer(g, n) \/ AdoptContainer(g, n)

StoreNext ==
  \/ \E d \in Drivers : ClaimStatement(d)
  \/ StatusStatement
  \/ ContainerStatement
  \/ ExpireLease

StoreSpec == StoreInit /\ [][StoreNext]_storeVars

\* status_seq is a sound optimistic lock: while a driver's (status, status_seq)
\* pair is current, the status it read is the row's status, and it is never
\* "deleted".  TransitionClaimed drops its status predicate on this ground
\* (store.go:129-134).
SeqFencesStatus == \A d \in Drivers : seen[d] \in {Stale, status} \ {"deleted"}

\* Only the newest generation can be live, whatever statements of ClaimStarting,
\* SetError and endLiveContainer interleave: the "generation = g AND ended_at IS
\* NULL" fences accept at most the current episode.
LiveIsLatest == LiveGens \subseteq {MaxGeneration}

\* MarkDeleted is terminal: no driver, receive loop or boot sweep that read the
\* row before it was deleted brings the spawn back.
DeletedIsFinal == [][status = "deleted" => status' = "deleted"]_status

=============================================================================
