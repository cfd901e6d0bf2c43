------------------------------ MODULE SpawnFork ------------------------------
(* Forking a live spawn: internal/cp/fork.go, fork_materializer.go,          *)
(* fork_cleanup.go, fork_recovery.go and the fork statements of              *)
(* internal/cp/store, against internal/node/fork.go and                      *)
(* internal/spawnlet/manager_fork*.go.                                       *)
(*                                                                           *)
(* One source spawn, and per fork a driver (the ForkSpawn request), a job on *)
(* the node and the rows of the fork.  Beside them the reconciler's two      *)
(* sweeps.  Timers may fire whenever their wait is on.  The lease and seq    *)
(* columns are SpawnStore's; here the lease names who holds it.              *)
EXTENDS Naturals, FiniteSets

CONSTANTS
  Forks,     \* ids of the forks asked for
  Targets,   \* where requests place them: subset of {"source", "other"}
  None, Rec, \* no holder; the recovery sweep
  MaxFaults, \* bound on breaks, crashes, expiries and pod deaths together
  Faults     \* subset of {"break", "crash", "expiry", "poddeath", "runtime", "leave"}

ASSUME ForkAssumption ==
  /\ None \notin Forks /\ Rec \notin Forks /\ None # Rec
  /\ MaxFaults \in Nat

VARIABLES
  status, lease, leaseLive, overdue, \* source row: status, claim, fork_capture_deadline passed
  fst, ts, fclaim, cross, \* fork row status and claim, transfer set status; other target node
  pc, rest, stash, held, guard, lock, \* drivers: sourceRestored, pendingComplete,
                          \* barrierAcquired, restoreOnFailure; the source's lock
  rec, sweep,             \* the reconciler's steps
  linked, toNode, inbox,  \* the streams, commands and replies under way
  alive, paused, barrier, waits,      \* source pod, pause, ingress barrier, who waits for it
  checked,                \* waits that have seen their context alive and acquire next
  job, cancelled,         \* node jobs and their contexts
  seeded,                 \* forks with a repo of their own on the target node
  budget

rowVars == <<status, lease, leaseLive, overdue>>
forkRows == <<fst, ts, fclaim, cross>>
drvVars == <<pc, rest, stash, held, guard, lock>>
sweepVars == <<rec, sweep>>
linkVars == <<linked, toNode, inbox>>
podVars == <<alive, paused, barrier, waits, checked>>
jobVars == <<job, cancelled, seeded>>
vars == <<rowVars, forkRows, drvVars, sweepVars, linkVars, podVars, jobVars, budget>>

Pcs == {"idle", "prepare", "gate", "boundary", "lock", "check", "send", "wait", "start",
        "activate", "fail", "fence", "clean", "delete", "restore", "release", "done", "dead"}
Jobs == {"none", "warm", "snap", "delta", "resume", "report", "seed", "import"}
Commands == [m : {"boundary", "unbound", "fork", "cancel", "import"}, f : Forks]
Replies == [m : {"bound", "unboundable", "restored", "exported", "ok", "err"}, f : Forks]

SourceTypeOK ==
  /\ status \in {"active", "forking", "errored", "left"}
  /\ lease \in Forks \cup {None, Rec} /\ leaseLive \in BOOLEAN /\ overdue \in BOOLEAN
  /\ lock \in Forks \cup {None}
  /\ alive \in BOOLEAN /\ paused \in BOOLEAN
  /\ barrier \in Forks \cup {None} /\ waits \subseteq Forks /\ checked \subseteq Forks

ForkTypeOK ==
  /\ fst \in [Forks -> {"none", "starting", "unreachable", "active", "deleted"}]
  /\ ts \in [Forks -> {"none", "pending", "restoring", "active", "failed"}]
  /\ pc \in [Forks -> Pcs] /\ seeded \subseteq Forks
  /\ sweep \subseteq Forks \X {"clean", "delete"}

TypeOK ==
  /\ SourceTypeOK /\ ForkTypeOK
  /\ fclaim \in [Forks -> {None, Rec} \cup Forks] /\ cross \subseteq Forks
  /\ rest \in [Forks -> BOOLEAN] /\ stash \in [Forks -> {"none", "ok", "err"}]
  /\ held \in [Forks -> BOOLEAN] /\ guard \in [Forks -> BOOLEAN]
  /\ rec \in {"idle", "unpause", "finish", "lost"}
  /\ linked \in BOOLEAN /\ toNode \subseteq Commands /\ inbox \subseteq Replies
  /\ job \in [Forks -> Jobs] /\ cancelled \in [Forks -> {"no", "yes", "gone"}]
  /\ budget \in 0..MaxFaults

Each(v) == [f \in Forks |-> v]

Init ==
  /\ status = "active" /\ lease = None /\ leaseLive = FALSE /\ overdue = FALSE
  /\ fst = Each("none") /\ ts = Each("none") /\ fclaim = Each(None) /\ cross = {}
  /\ pc = Each("idle") /\ rest = Each(FALSE) /\ stash = Each("none")
  /\ held = Each(FALSE) /\ guard = Each(FALSE) /\ lock = None
  /\ rec = "idle" /\ sweep = {}
  /\ linked = TRUE /\ toNode = {} /\ inbox = {}
  /\ alive = TRUE /\ paused = FALSE /\ barrier = None /\ waits = {} /\ checked = {}
  /\ job = Each("none") /\ cancelled = Each("no")
  /\ seeded = {}
  /\ budget = MaxFaults

Goto(f, p) == pc' = [pc EXCEPT ![f] = p]
Cmd(m, f) == [m |-> m, f |-> f]
Send(m, f) == toNode' = IF linked THEN toNode \cup {Cmd(m, f)} ELSE toNode
Reply(m, f) == inbox' = IF linked THEN inbox \cup {Cmd(m, f)} ELSE inbox
Claimable == lease = None \/ ~leaseLive

(* The source runs again, whoever counted on the pause.                      *)
Unpause == paused' = FALSE

ReleaseBarrier(f) == barrier' = IF barrier = f THEN None ELSE barrier

---------------------------------------------------------------------------
(* forkSpawnClaimed.                                                         *)

(* Preconditions, then fork row, artifacts and transfer set in one tx.       *)
CreateRows(f) ==
  /\ pc[f] = "idle" /\ status = "active" /\ Claimable
  /\ fst' = [fst EXCEPT ![f] = "starting"]
  /\ ts' = [ts EXCEPT ![f] = "pending"]
  /\ \/ "source" \in Targets /\ UNCHANGED cross
     \/ "other" \in Targets /\ cross' = cross \cup {f}
  /\ Goto(f, "prepare")
  /\ UNCHANGED <<rowVars, fclaim, rest, stash, held, guard, lock, sweepVars, linkVars, podVars,
                 jobVars, budget>>

(* Capturing, second headroom check, Restoring.                              *)
Prepare(f) ==
  /\ pc[f] = "prepare"
  /\ \/ ts' = [ts EXCEPT ![f] = "restoring"] /\ Goto(f, "gate")
     \/ Goto(f, "fail") /\ UNCHANGED ts
  /\ UNCHANGED <<rowVars, cross, fst, fclaim, rest, stash, held, guard, lock, sweepVars, linkVars,
                 podVars, jobVars, budget>>

(* WaitForForkTurnBoundary asks the node to hold the source's input.         *)
AskBoundary(f) ==
  /\ pc[f] = "gate"
  /\ Send("boundary", f)
  /\ Goto(f, IF linked THEN "boundary" ELSE "fail")
  /\ UNCHANGED <<rowVars, forkRows, rest, stash, held, guard, lock, sweepVars, linked, inbox,
                 podVars, jobVars, budget>>

BoundaryHeld(f) ==
  /\ pc[f] = "boundary" /\ Cmd("bound", f) \in inbox
  /\ inbox' = inbox \ {Cmd("bound", f)}
  /\ held' = [held EXCEPT ![f] = TRUE]
  /\ Goto(f, "lock")
  /\ UNCHANGED <<rowVars, forkRows, rest, stash, guard, lock, sweepVars, linked, toNode, podVars,
                 jobVars, budget>>

(* Mutant: a wait that gives up does not take the request back.              *)
BoundaryMissedNoRelease(f) ==
  /\ pc[f] = "boundary"
  /\ inbox' = {r \in inbox : r.f # f}
  /\ Goto(f, "fail")
  /\ UNCHANGED <<rowVars, forkRows, rest, stash, held, guard, lock, sweepVars, linked, toNode,
                 podVars, jobVars, budget>>

(* Timeout, cancelled request or a refusal: the request is taken back.       *)
BoundaryMissed(f) ==
  /\ pc[f] = "boundary"
  /\ inbox' = {r \in inbox : r.f # f}
  /\ Send("unbound", f)
  /\ Goto(f, "fail")
  /\ UNCHANGED <<rowVars, forkRows, rest, stash, held, guard, lock, sweepVars, linked, podVars,
                 jobVars, budget>>

(* locks.Lock, then acquireClaim.                                            *)
LockSource(f) ==
  /\ pc[f] = "lock" /\ lock = None
  /\ lock' = f
  /\ IF Claimable
       THEN /\ lease' = f /\ leaseLive' = TRUE
            /\ Goto(f, "check")
       ELSE /\ UNCHANGED <<lease, leaseLive>>
            /\ Goto(f, "fail")
  /\ UNCHANGED <<status, overdue, forkRows, rest, stash, held, guard, sweepVars, linkVars,
                 podVars, jobVars, budget>>

(* The source must still be active in the same episode; SetForking.          *)
BeginForking(f) ==
  /\ pc[f] = "check"
  /\ IF status = "active"
       THEN /\ status' = "forking" /\ overdue' = FALSE
            /\ guard' = [guard EXCEPT ![f] = TRUE]
            /\ Goto(f, "send")
       ELSE /\ UNCHANGED <<status, overdue, guard>>
            /\ Goto(f, "fail")
  /\ UNCHANGED <<lease, leaseLive, forkRows, rest, stash, held, lock, sweepVars, linkVars,
                 podVars, jobVars, budget>>

(* ForkSameNode or ForkTransferExport.                                       *)
SendFork(f) ==
  /\ pc[f] = "send"
  /\ Send("fork", f)
  /\ Goto(f, IF linked THEN "wait" ELSE "fail")
  /\ UNCHANGED <<rowVars, forkRows, rest, stash, held, guard, lock, sweepVars, linked, inbox,
                 podVars, jobVars, budget>>

(* restoreForkingSource: done already, or the transition under the lease.    *)
Restorable(f) == status = "active" \/ (status = "forking" /\ lease = f)
DropLease(f) ==
  /\ lease' = IF lease = f THEN None ELSE lease
  /\ leaseLive' = (lease # f /\ leaseLive)

(* The node reports the source running: status, lease, lock and barrier are  *)
(* given back before the fork is stood up.                                   *)
OnSourceRestored(f) ==
  /\ pc[f] = "wait" /\ Cmd("restored", f) \in inbox /\ Restorable(f)
  /\ inbox' = inbox \ {Cmd("restored", f)}
  /\ status' = "active" /\ overdue' = FALSE
  /\ lock' = None /\ DropLease(f)
  /\ guard' = [guard EXCEPT ![f] = FALSE]
  /\ rest' = [rest EXCEPT ![f] = TRUE]
  /\ held' = [held EXCEPT ![f] = FALSE]
  /\ Send("unbound", f)
  /\ Goto(f, CASE stash[f] = "ok" -> "start" [] stash[f] = "err" -> "fail" [] OTHER -> "wait")
  /\ UNCHANGED <<forkRows, stash, sweepVars, linked, podVars, jobVars, budget>>

(* ... or cannot take it back: another owner has moved the row on.           *)
SourceNotRestored(f) ==
  /\ pc[f] = "wait" /\ Cmd("restored", f) \in inbox /\ ~Restorable(f)
  /\ inbox' = {r \in inbox : r.f # f}
  /\ IF f \in cross THEN Send("cancel", f) ELSE UNCHANGED toNode
  /\ Goto(f, "fail")
  /\ UNCHANGED <<rowVars, forkRows, rest, stash, held, guard, lock, sweepVars, linked, podVars,
                 jobVars, budget>>

(* Complete (or Imported): stashed until the source is known to be restored. *)
OnComplete(f, r) ==
  /\ pc[f] = "wait" /\ r \in {"ok", "err"} /\ Cmd(r, f) \in inbox
  /\ inbox' = inbox \ {Cmd(r, f)}
  /\ IF rest[f]
       THEN /\ Goto(f, IF r = "ok" THEN "start" ELSE "fail")
            /\ UNCHANGED stash
       ELSE /\ stash' = [stash EXCEPT ![f] = r]
            /\ UNCHANGED pc
  /\ UNCHANGED <<rowVars, forkRows, rest, held, guard, lock, sweepVars, linked, toNode, podVars,
                 jobVars, budget>>

(* Exported: pass the ciphertext on to the target.                           *)
OnExported(f) ==
  /\ pc[f] = "wait" /\ Cmd("exported", f) \in inbox
  /\ inbox' = inbox \ {Cmd("exported", f)}
  /\ Send("import", f)
  /\ Goto(f, IF linked THEN "wait" ELSE "fail")
  /\ UNCHANGED <<rowVars, forkRows, rest, stash, held, guard, lock, sweepVars, linked, podVars,
                 jobVars, budget>>

(* Timeout, cancelled request or lost claim: cancel the node's job.          *)
WaitEnds(f) ==
  /\ pc[f] = "wait"
  /\ inbox' = {r \in inbox : r.f # f}
  /\ Send("cancel", f)
  /\ Goto(f, "fail")
  /\ UNCHANGED <<rowVars, forkRows, rest, stash, held, guard, lock, sweepVars, linked, podVars,
                 jobVars, budget>>

(* SetPins and startFork: Provision from the seeded repo, or a failure.      *)
StartFork(f) ==
  /\ pc[f] = "start"
  /\ \/ f \in seeded /\ linked /\ Goto(f, "activate")
     \/ Goto(f, "fail")
  /\ UNCHANGED <<rowVars, forkRows, rest, stash, held, guard, lock, sweepVars, linkVars, podVars,
                 jobVars, budget>>

(* activateForkAndTransferSet, one tx.                                       *)
Activate(f) ==
  /\ pc[f] = "activate"
  /\ IF fst[f] = "starting"
       THEN /\ fst' = [fst EXCEPT ![f] = "active"]
            /\ ts' = [ts EXCEPT ![f] = "active"]
            /\ Goto(f, "release")
       ELSE /\ Goto(f, "fail")
            /\ UNCHANGED <<fst, ts>>
  /\ UNCHANGED <<rowVars, cross, fclaim, rest, stash, held, guard, lock, sweepVars, linkVars, podVars,
                 jobVars, budget>>

---------------------------------------------------------------------------
(* failForkAfterRow and unwindFailedFork; then the deferred calls.           *)

MarkFailed(f) ==
  /\ pc[f] = "fail"
  /\ ts' = [ts EXCEPT ![f] = "failed"]
  /\ Goto(f, "fence")
  /\ UNCHANGED <<rowVars, cross, fst, fclaim, rest, stash, held, guard, lock, sweepVars, linkVars,
                 podVars, jobVars, budget>>

Unwindable(f) == fst[f] \notin {"none", "active", "deleted"} /\ fclaim[f] = None

(* Acquire the fork row, or leave it to whoever holds it.                    *)
Fence(f) ==
  /\ pc[f] = "fence"
  /\ IF Unwindable(f)
       THEN fclaim' = [fclaim EXCEPT ![f] = f] /\ Goto(f, "clean")
       ELSE UNCHANGED fclaim /\ Goto(f, "restore")
  /\ UNCHANGED <<rowVars, cross, fst, ts, rest, stash, held, guard, lock, sweepVars, linkVars, podVars,
                 jobVars, budget>>

(* Revoke the key, empty the bucket, release the delta on the TARGET node.   *)
CleanUp(f) == seeded' = seeded \ {f}

Clean(f) ==
  /\ pc[f] = "clean"
  /\ \/ linked /\ CleanUp(f) /\ Goto(f, "delete")
     \/ Goto(f, "restore") /\ UNCHANGED seeded
  /\ UNCHANGED <<rowVars, forkRows, rest, stash, held, guard, lock, sweepVars, linkVars, podVars,
                 job, cancelled, budget>>

(* MarkDeletedClaimed, fenced by the claim and by the status sequence.       *)
Delete(f, by) ==
  IF fclaim[f] = by /\ fst[f] # "active"
    THEN /\ fst' = [fst EXCEPT ![f] = "deleted"]
         /\ fclaim' = [fclaim EXCEPT ![f] = None]
    ELSE UNCHANGED <<fst, fclaim>>

DeleteRow(f) ==
  /\ pc[f] = "delete"
  /\ Delete(f, f)
  /\ Goto(f, "restore")
  /\ UNCHANGED <<rowVars, ts, cross, rest, stash, held, guard, lock, sweepVars, linkVars, podVars,
                 jobVars, budget>>

(* restoreForkingSourceAfterUnpause; a failure is logged.                    *)
RestoreSource(f) ==
  /\ pc[f] = "restore"
  /\ Goto(f, "release")
  /\ \/ /\ guard[f] /\ linked /\ alive
        /\ Unpause
        /\ barrier' = None
        /\ IF status = "forking" /\ lease = f
             THEN status' = "active" /\ overdue' = FALSE /\ DropLease(f)
             ELSE UNCHANGED rowVars
     \/ UNCHANGED <<rowVars, paused, barrier>>
  /\ UNCHANGED <<forkRows, rest, stash, held, guard, lock, sweepVars,
                 linkVars, alive, waits, checked, job, cancelled, seeded, budget>>

(* The request is over: its local state goes.                                *)
Forget(f) ==
  /\ rest' = [rest EXCEPT ![f] = FALSE] /\ stash' = [stash EXCEPT ![f] = "none"]
  /\ held' = [held EXCEPT ![f] = FALSE] /\ guard' = [guard EXCEPT ![f] = FALSE]

(* releaseSource and the barrier.                                            *)
ReleaseAll(f) ==
  /\ pc[f] = "release"
  /\ Goto(f, "done")
  /\ lock' = IF lock = f THEN None ELSE lock
  /\ DropLease(f)
  /\ Forget(f)
  /\ IF held[f] THEN Send("unbound", f) ELSE UNCHANGED toNode
  /\ UNCHANGED <<status, overdue, forkRows, sweepVars, linked, inbox, podVars, jobVars, budget>>

---------------------------------------------------------------------------
(* The reconciler: recoverForkingSources, then sweepFailedForks.             *)

(* Mutant: an expired claim still counts as held.                            *)
RecoverableUnclaimed == status = "forking" /\ lease = None

Recoverable == status = "forking" /\ (Claimable \/ overdue)

(* AcquireForkingRecovery takes the claim even from a live driver.           *)
RecoverAcquire ==
  /\ rec = "idle" /\ Recoverable
  /\ lease' = Rec /\ leaseLive' = TRUE
  /\ rec' = "unpause"
  /\ UNCHANGED <<status, overdue, forkRows, drvVars, sweep, linkVars, podVars, jobVars, budget>>

(* UnpauseIfPaused: done, refused, or no answer (the claim then expires).    *)
RecoverUnpause ==
  /\ rec = "unpause"
  /\ \/ /\ linked /\ alive
        /\ Unpause /\ barrier' = None
        /\ \/ rec' = "finish" /\ UNCHANGED budget
           \/ rec' = "idle" /\ "break" \in Faults /\ budget > 0 /\ budget' = budget - 1
     \/ /\ ~(linked /\ alive)
        /\ rec' = "lost"
        /\ UNCHANGED <<paused, barrier, budget>>
  /\ UNCHANGED <<rowVars, forkRows, drvVars, sweep, linkVars, alive, waits, checked, job,
                 cancelled, seeded>>

(* TransitionForkingRecovered or MarkForkingLost, on the claim just taken.   *)
RecoverFinish ==
  /\ rec \in {"finish", "lost"}
  /\ rec' = "idle"
  /\ IF status = "forking" /\ lease = Rec
       THEN /\ status' = IF rec = "finish" THEN "active" ELSE "errored"
            /\ lease' = None /\ leaseLive' = FALSE /\ overdue' = FALSE
       ELSE UNCHANGED rowVars
  /\ UNCHANGED <<forkRows, drvVars, sweep, linkVars, podVars, jobVars, budget>>

(* reconcileInventory: a forking source the node does not report is lost.    *)
InventoryLost ==
  /\ status = "forking" /\ linked /\ ~alive
  /\ status' = "errored" /\ lease' = None /\ leaseLive' = FALSE /\ overdue' = FALSE
  /\ UNCHANGED <<forkRows, drvVars, sweepVars, linkVars, podVars, jobVars, budget>>

(* Mutant: the sweep only looks at stale Restoring sets.                     *)
ReclaimableStale(f) == ts[f] = "restoring" /\ pc[f] = "dead"

(* Mutant: a fork in Restoring is stale at once.                             *)
ReclaimableAtOnce(f) == ts[f] \in {"failed", "restoring"}

(* Failed, or Restoring for longer than any driver can take.  The grace is    *)
(* the driver's waits added up (staleRestoringForkGrace); the driver's wait   *)
(* for the source's lock is not in the sum and is taken to be shorter than    *)
(* the slack: that a stale set has no driver is an assumption about time.     *)
Reclaimable(f) == ts[f] = "failed" \/ (ts[f] = "restoring" /\ pc[f] = "dead")

SweepAcquire(f) ==
  /\ sweep = {} /\ Reclaimable(f) /\ Unwindable(f)
  /\ sweep' = {<<f, "clean">>}
  /\ fclaim' = [fclaim EXCEPT ![f] = Rec]
  /\ UNCHANGED <<rowVars, cross, fst, ts, drvVars, rec, linkVars, podVars, jobVars, budget>>

SweepClean(f) ==
  /\ sweep = {<<f, "clean">>}
  /\ \/ linked /\ CleanUp(f) /\ sweep' = {<<f, "delete">>}
     \/ ~linked /\ sweep' = {} /\ UNCHANGED seeded
  /\ UNCHANGED <<rowVars, forkRows, drvVars, rec, linkVars, podVars, job, cancelled, budget>>

SweepDelete(f) ==
  /\ sweep = {<<f, "delete">>} /\ sweep' = {}
  /\ Delete(f, Rec)
  /\ UNCHANGED <<rowVars, ts, cross, drvVars, rec, linkVars, podVars, jobVars, budget>>

---------------------------------------------------------------------------
(* The node: barrier and jobs.                                               *)

TakeCmd(m, f) == Cmd(m, f) \in toNode /\ toNode' = toNode \ {Cmd(m, f)}

NodeBoundary(f) ==
  /\ TakeCmd("boundary", f)
  /\ IF alive THEN waits' = waits \cup {f} /\ UNCHANGED inbox
              ELSE Reply("unboundable", f) /\ UNCHANGED waits
  /\ UNCHANGED <<rowVars, forkRows, drvVars, sweepVars, linked, alive, paused, barrier, checked,
                 jobVars, budget>>

(* acquireForkBarrier, a round of its loop: the context is not cancelled ... *)
NodeChecks(f) ==
  /\ f \in waits \ checked
  /\ checked' = checked \cup {f}
  /\ UNCHANGED <<rowVars, forkRows, drvVars, sweepVars, linkVars, alive, paused, barrier, waits,
                 jobVars, budget>>

(* ... and then, whatever has become of the context meanwhile, no turn is in *)
(* flight and nobody else's barrier is up: tryAcquireForkBarrier succeeds.   *)
(* Without a pod there is no pump to ask and the wait fails.                 *)
NodeBarrier(f) ==
  /\ f \in checked
  /\ checked' = checked \ {f} /\ waits' = waits \ {f}
  /\ \/ alive /\ barrier \in {None, f} /\ barrier' = f /\ Reply("bound", f)
     \/ ~alive /\ Reply("unboundable", f) /\ UNCHANGED barrier
  /\ UNCHANGED <<rowVars, forkRows, drvVars, sweepVars, linked, toNode, alive, paused, jobVars,
                 budget>>

(* A turn is in flight or another barrier is up: the loop goes round, or has *)
(* been cancelled and ends (its error has no reader then).                   *)
NodeRetries(f) ==
  /\ f \in checked /\ alive
  /\ checked' = checked \ {f}
  /\ UNCHANGED <<rowVars, forkRows, drvVars, sweepVars, linkVars, alive, paused, barrier, waits,
                 jobVars, budget>>

(* ReleaseForkTurnBoundary, behind the request it takes back: cancels a wait *)
(* and releases a barrier that is up, but does not wait for the goroutine of *)
(* a wait that is between its check and its acquisition.                     *)
NodeUnbound(f) ==
  /\ TakeCmd("unbound", f) /\ Cmd("boundary", f) \notin toNode
  /\ waits' = waits \ {f}
  /\ ReleaseBarrier(f)
  /\ UNCHANGED <<rowVars, forkRows, drvVars, sweepVars, linked, inbox, alive, paused, checked,
                 jobVars, budget>>

NodeCancel(f) ==
  /\ TakeCmd("cancel", f) /\ Cmd("fork", f) \notin toNode /\ Cmd("import", f) \notin toNode
  /\ cancelled' = IF job[f] # "none" /\ cancelled[f] = "no"
                    THEN [cancelled EXCEPT ![f] = "yes"] ELSE cancelled
  /\ UNCHANGED <<rowVars, forkRows, drvVars, sweepVars, linked, inbox, podVars, job, seeded,
                 budget>>

JobStart(f) ==
  /\ \/ TakeCmd("fork", f) /\ job' = [job EXCEPT ![f] = "warm"]
     \/ TakeCmd("import", f) /\ job' = [job EXCEPT ![f] = "import"]
  /\ job[f] = "none"
  /\ cancelled' = [cancelled EXCEPT ![f] = "no"]
  /\ UNCHANGED <<rowVars, forkRows, drvVars, sweepVars, linked, inbox, podVars, seeded,
                 budget>>

(* Pause after the warm snapshot, final snapshot, rootfs capture.            *)
JobPause(f) ==
  /\ job[f] = "warm" /\ alive /\ cancelled[f] = "no"
  /\ paused' = TRUE
  /\ job' = [job EXCEPT ![f] = "snap"]
  /\ UNCHANGED <<rowVars, forkRows, drvVars, sweepVars, linkVars, alive, barrier, waits, checked,
                 cancelled, seeded, budget>>

JobSnapshot(f) ==
  /\ job[f] = "snap" /\ alive /\ cancelled[f] = "no"
  /\ job' = [job EXCEPT ![f] = "delta"]
  /\ UNCHANGED <<rowVars, forkRows, drvVars, sweepVars, linkVars, podVars, cancelled, seeded,
                 budget>>

(* A commit that is under way may land although its context was cancelled.   *)
JobDelta(f) ==
  /\ job[f] = "delta" /\ alive
  /\ job' = [job EXCEPT ![f] = "resume"]
  /\ UNCHANGED <<rowVars, forkRows, drvVars, sweepVars, linkVars, podVars, cancelled, seeded,
                 budget>>

(* restoreSource (never cancelled), then SourceRestored goes out.            *)
JobResume(f) ==
  /\ job[f] = "resume"
  /\ Unpause
  /\ job' = [job EXCEPT ![f] = "report"]
  /\ UNCHANGED <<rowVars, forkRows, drvVars, sweepVars, linkVars, alive, barrier, waits, checked,
                 cancelled, seeded, budget>>

JobReport(f) ==
  /\ job[f] = "report" /\ cancelled[f] # "gone"
  /\ Reply("restored", f)
  /\ job' = [job EXCEPT ![f] = "seed"]
  /\ UNCHANGED <<rowVars, forkRows, drvVars, sweepVars, linked, toNode, podVars, cancelled,
                 seeded, budget>>

(* The job returns: its barrier goes and the outcome is reported.            *)
EndJob(f, outcome) ==
  /\ job' = [job EXCEPT ![f] = "none"] /\ cancelled' = [cancelled EXCEPT ![f] = "no"]
  /\ ReleaseBarrier(f)
  /\ IF cancelled[f] = "gone" THEN UNCHANGED inbox ELSE Reply(outcome, f)
  /\ UNCHANGED <<rowVars, forkRows, drvVars, sweepVars, linked, toNode, alive, waits,
                 checked, budget>>

(* Seed the fork's own repo ...                                              *)
JobSeed(f) ==
  /\ job[f] = "import" \/ (job[f] = "seed" /\ f \notin cross)
  /\ seeded' = seeded \cup {f}
  /\ EndJob(f, "ok")
  /\ UNCHANGED paused

(* ... or, for another node, seal it and hand over the ciphertext.           *)
JobExported(f) ==
  /\ job[f] = "seed" /\ f \in cross
  /\ EndJob(f, "exported")
  /\ UNCHANGED <<paused, seeded>>

(* Mutant: a job that fails in its capture does not restore the source.      *)
JobFailKeepsPause(f) ==
  /\ job[f] \in {"warm", "snap", "delta", "report", "seed", "import"}
  /\ cancelled[f] # "no" \/ ~alive \/ "runtime" \in Faults
  /\ EndJob(f, "err")
  /\ UNCHANGED <<paused, seeded>>

(* A step fails: the deferred restore unpauses whatever is paused, and the   *)
(* error is reported in place of the completion.                             *)
JobFail(f) ==
  /\ job[f] \in {"warm", "snap", "delta", "report", "seed", "import"}
  /\ cancelled[f] # "no" \/ ~alive \/ "runtime" \in Faults
  /\ \/ job[f] \in {"warm", "snap", "delta"} /\ Unpause
     \/ job[f] \notin {"snap", "delta"} /\ UNCHANGED paused
  /\ EndJob(f, "err")
  /\ UNCHANGED seeded

---------------------------------------------------------------------------
(* Time and faults.                                                          *)

DeadlinePasses ==
  /\ status = "forking" /\ ~overdue
  /\ overdue' = TRUE
  /\ UNCHANGED <<status, lease, leaseLive, forkRows, drvVars, sweepVars, linkVars, podVars,
                 jobVars, budget>>

HolderGone == (lease \in Forks /\ pc[lease] = "dead") \/ (lease = Rec /\ rec = "idle")

(* A claim nobody renews runs out; under a live driver only by a fault.      *)
ClaimExpires ==
  /\ lease # None /\ leaseLive
  /\ IF HolderGone THEN UNCHANGED budget
     ELSE "expiry" \in Faults /\ budget > 0 /\ budget' = budget - 1
  /\ leaseLive' = FALSE
  /\ UNCHANGED <<status, lease, overdue, forkRows, drvVars, sweepVars, linkVars, podVars, jobVars>>

(* The claim of an unwind that gave up runs out.                             *)
ForkClaimExpires(f) ==
  /\ fclaim[f] # None /\ (\A p \in sweep : p[1] # f) /\ pc[f] \notin {"clean", "delete"}
  /\ fclaim' = [fclaim EXCEPT ![f] = None]
  /\ UNCHANGED <<rowVars, cross, fst, ts, drvVars, sweepVars, linkVars, podVars, jobVars, budget>>

Cut ==
  /\ linked' = FALSE /\ toNode' = {} /\ inbox' = {}
  /\ barrier' = None /\ waits' = {} /\ checked' = {}
  /\ cancelled' = [f \in Forks |-> IF job[f] = "none" THEN "no" ELSE "gone"]

(* The node's stream breaks: the attacher, its barrier and its contexts go.  *)
Break ==
  /\ "break" \in Faults /\ budget > 0 /\ linked
  /\ Cut
  /\ budget' = budget - 1
  /\ UNCHANGED <<rowVars, forkRows, drvVars, sweepVars, alive, paused, job, seeded>>

Reconnect ==
  /\ ~linked
  /\ linked' = TRUE
  /\ UNCHANGED <<rowVars, forkRows, drvVars, sweepVars, toNode, inbox, podVars, jobVars, budget>>

(* The control plane dies with its drivers; its boot sweep leaves Forking.   *)
Crash ==
  /\ "crash" \in Faults /\ budget > 0
  /\ Cut
  /\ budget' = budget - 1
  /\ pc' = [f \in Forks |-> IF pc[f] \in {"idle", "done"} THEN pc[f] ELSE "dead"]
  /\ rest' = Each(FALSE) /\ stash' = Each("none") /\ held' = Each(FALSE) /\ guard' = Each(FALSE)
  /\ lock' = None /\ rec' = "idle" /\ sweep' = {}
  /\ fst' = [f \in Forks |-> IF fst[f] = "starting" THEN "unreachable" ELSE fst[f]]
  /\ UNCHANGED <<rowVars, cross, ts, fclaim, alive, paused, job, seeded>>

PodDies ==
  /\ "poddeath" \in Faults /\ budget > 0 /\ alive
  /\ alive' = FALSE /\ paused' = FALSE /\ barrier' = None
  /\ budget' = budget - 1
  /\ UNCHANGED <<rowVars, forkRows, drvVars, sweepVars, linkVars, waits, checked,
                 jobVars>>

(* Another operation takes the source out of Active.                         *)
SourceLeaves ==
  /\ "leave" \in Faults /\ status = "active" /\ Claimable /\ lock = None
  /\ status' = "left"
  /\ UNCHANGED <<lease, leaseLive, overdue, forkRows, drvVars, sweepVars, linkVars, podVars,
                 jobVars, budget>>

---------------------------------------------------------------------------
Driver(f) ==
  \/ Prepare(f) \/ AskBoundary(f) \/ BoundaryHeld(f) \/ BoundaryMissed(f) \/ LockSource(f)
  \/ BeginForking(f) \/ SendFork(f) \/ OnSourceRestored(f) \/ SourceNotRestored(f)
  \/ OnComplete(f, "ok") \/ OnComplete(f, "err") \/ OnExported(f) \/ WaitEnds(f)
  \/ StartFork(f) \/ Activate(f) \/ MarkFailed(f) \/ Fence(f) \/ Clean(f) \/ DeleteRow(f)
  \/ RestoreSource(f) \/ ReleaseAll(f)

NodeMsg(f) == NodeBoundary(f) \/ NodeUnbound(f) \/ NodeCancel(f) \/ JobStart(f)

NodeWait(f) == NodeChecks(f) \/ NodeBarrier(f) \/ NodeRetries(f)

Job(f) ==
  \/ JobPause(f) \/ JobSnapshot(f) \/ JobDelta(f) \/ JobResume(f) \/ JobReport(f) \/ JobSeed(f)
  \/ JobExported(f) \/ JobFail(f)

Recover == RecoverAcquire \/ RecoverUnpause \/ RecoverFinish

Next ==
  \/ \E f \in Forks : CreateRows(f) \/ Driver(f) \/ NodeMsg(f) \/ NodeWait(f) \/ Job(f)
                      \/ SweepAcquire(f) \/ SweepClean(f) \/ SweepDelete(f)
                      \/ ForkClaimExpires(f)
  \/ Recover \/ InventoryLost
  \/ DeadlinePasses \/ ClaimExpires \/ Break \/ Reconnect \/ Crash \/ PodDies \/ SourceLeaves

Spec == Init /\ [][Next]_vars

(* Requests, goroutines, timers and the periodic reconciler make progress;   *)
(* a broken stream is redialled.                                             *)
FairSpec ==
  /\ Spec
  /\ \A f \in Forks : /\ WF_vars(Driver(f)) /\ WF_vars(NodeMsg(f)) /\ WF_vars(NodeWait(f))
                      /\ WF_vars(Job(f)) /\ WF_vars(ForkClaimExpires(f))
                      /\ WF_vars(SweepAcquire(f)) /\ WF_vars(SweepClean(f) \/ SweepDelete(f))
  /\ SF_vars(RecoverAcquire) /\ WF_vars(RecoverUnpause) /\ SF_vars(RecoverFinish)
  /\ WF_vars(ClaimExpires /\ HolderGone) /\ WF_vars(DeadlinePasses) /\ WF_vars(Reconnect)

---------------------------------------------------------------------------
(* A fork that runs keeps its repo: neither the driver's unwind nor the      *)
(* sweep (fork_cleanup.go) empties the bucket of a fork that is active.      *)
ActiveForkIsSeeded == \A f \in Forks : fst[f] = "active" => f \in seeded /\ ts[f] = "active"

(* A source never stays in Forking: driver, recovery sweep or inventory      *)
(* resolves it (fork.go restoreForkingSource, fork_recovery.go).             *)
ForkingResolves == status = "forking" ~> status # "forking"

(* A paused source runs again: the job's deferred restore, the driver or the *)
(* recovery sweep unpauses it (manager_fork.go restoreSource).               *)
PauseEnds == paused ~> ~paused

(* The ingress barrier a fork was granted is lifted again on every path: the *)
(* wait for it timed out as it went up, the capture ended or failed, the     *)
(* request was cancelled or its driver died (node/fork.go                    *)
(* releaseForkBarrier, cp/fork.go releaseBarrier).                           *)
BarrierGivenBack ==
  \A f \in Forks :
    barrier = f /\ (pc[f] = "boundary" \/ held[f] \/ Cmd("unbound", f) \in toNode)
      ~> barrier # f

(* "release must cancel pending acquire" (node/fork_test.go): input to the   *)
(* source is not held for a fork that is over.                               *)
BarrierLifted ==
  \A f \in Forks : (barrier = f /\ pc[f] \in {"done", "dead"}) ~> barrier # f

(* A failed fork is unwound in the end, by its driver or by the sweep, and   *)
(* its row goes last (fork_cleanup.go).                                      *)
FailedForkUnwound == \A f \in Forks : ts[f] = "failed" ~> (fst[f] = "deleted" /\ ts[f] = "failed")

=============================================================================
