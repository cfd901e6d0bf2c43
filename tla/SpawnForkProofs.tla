--------------------------- MODULE SpawnForkProofs ---------------------------
(* A fork that went active keeps its repo, for any number of forks of one    *)
(* source, under every fault.                                                *)
EXTENDS SpawnFork, TLAPS

frame == <<fst, ts, pc, seeded, sweep>>

\* Where a driver is once it has marked its transfer set failed.
Unwinding == {"fence", "clean", "delete", "restore", "release", "done", "dead"}

(* Inductive: the sweep only holds forks no driver can still activate, and   *)
(* an activated fork's driver has nothing left to unwind.                    *)
SeedInv ==
  \A f \in Forks :
    /\ fst[f] = "active" => /\ f \in seeded /\ ts[f] = "active"
                            /\ pc[f] \in {"release", "done", "dead"}
    /\ pc[f] = "activate" => f \in seeded
    /\ ts[f] = "failed" => pc[f] \in Unwinding
    /\ <<f, "clean">> \in sweep \/ <<f, "delete">> \in sweep
         => ts[f] = "failed" \/ (ts[f] = "restoring" /\ pc[f] = "dead")

IInv == ForkTypeOK /\ SeedInv

---------------------------------------------------------------------------
(* How a step can touch the frame.                                           *)

\* A driver moves on and touches nothing else of the frame.
Moves(f) ==
  /\ UNCHANGED <<fst, ts, seeded, sweep>>
  /\ \E q \in Pcs :
       /\ pc' = [pc EXCEPT ![f] = q]
       /\ pc[f] \notin {"done", "dead"} /\ (pc[f] = "release" => q = "done")
       /\ pc[f] \in Unwinding => q \in Unwinding
       /\ q = "activate" => f \in seeded

\* Steps of the driver that touch no row, transfer set or repo.
LEMMA DriverMoves ==
  ASSUME ForkTypeOK, NEW f \in Forks,
         \/ AskBoundary(f) \/ BoundaryHeld(f) \/ BoundaryMissed(f) \/ LockSource(f)
         \/ BeginForking(f) \/ SendFork(f) \/ SourceNotRestored(f)
         \/ OnExported(f) \/ WaitEnds(f) \/ StartFork(f) \/ Fence(f)
         \/ RestoreSource(f) \/ ReleaseAll(f)
  PROVE  Moves(f)
<1> USE DEF Moves, Goto, Pcs, Unwinding, forkRows, jobVars, sweepVars
<1>1. CASE AskBoundary(f) \/ BoundaryHeld(f) \/ BoundaryMissed(f) \/ LockSource(f)
  BY <1>1 DEF AskBoundary, BoundaryHeld, BoundaryMissed, LockSource
<1>2. CASE BeginForking(f) \/ SendFork(f) \/ SourceNotRestored(f)
  BY <1>2 DEF BeginForking, SendFork, SourceNotRestored
<1>3. CASE OnExported(f) \/ WaitEnds(f) \/ StartFork(f) \/ Fence(f)
  BY <1>3 DEF OnExported, WaitEnds, StartFork, Fence
<1>4. CASE RestoreSource(f) \/ ReleaseAll(f)
  BY <1>4 DEF RestoreSource, ReleaseAll
<1>5. QED
  BY <1>1, <1>2, <1>3, <1>4

\* The node's answers only move the driver.
LEMMA AnswerMoves ==
  ASSUME ForkTypeOK, NEW f \in Forks,
         OnSourceRestored(f) \/ OnComplete(f, "ok") \/ OnComplete(f, "err")
  PROVE  Moves(f)
<1>1. UNCHANGED <<fst, ts, seeded, sweep>> /\ pc[f] = "wait"
  BY DEF OnSourceRestored, OnComplete, forkRows, jobVars, sweepVars
<1>2. \E q \in {"start", "fail", "wait"} : pc' = [pc EXCEPT ![f] = q]
  BY <1>1 DEF OnSourceRestored, OnComplete, Goto, ForkTypeOK
<1>3. QED
  BY <1>1, <1>2 DEF Moves, Pcs, Unwinding

\* Everyone but driver, sweep and crash leaves the frame alone, or adds a repo.
LEMMA OthersKeep ==
  ASSUME NEW f \in Forks,
         \/ NodeMsg(f) \/ NodeWait(f) \/ Job(f) \/ ForkClaimExpires(f) \/ Recover
         \/ InventoryLost
         \/ DeadlinePasses \/ ClaimExpires \/ Break \/ Reconnect \/ PodDies \/ SourceLeaves
  PROVE  UNCHANGED <<fst, ts, pc, sweep>> /\ seeded' \in {seeded, seeded \cup {f}}
<1> USE DEF rowVars, forkRows, drvVars, sweepVars, jobVars
<1>1. CASE NodeMsg(f)
  BY <1>1 DEF NodeMsg, NodeBoundary, NodeUnbound, NodeCancel, JobStart
<1>0. CASE NodeWait(f)
  BY <1>0 DEF NodeWait, NodeChecks, NodeBarrier, NodeRetries
<1>2. CASE Job(f)
  BY <1>2 DEF Job, JobPause, JobSnapshot, JobDelta, JobResume, JobReport, JobSeed, JobExported,
              JobFail, EndJob
<1>3. CASE ForkClaimExpires(f) \/ Recover \/ InventoryLost
  BY <1>3 DEF ForkClaimExpires, Recover, RecoverAcquire, RecoverUnpause, RecoverFinish, InventoryLost
<1>4. CASE DeadlinePasses \/ ClaimExpires \/ Break \/ Reconnect \/ PodDies \/ SourceLeaves
  BY <1>4 DEF DeadlinePasses, ClaimExpires, Break, Cut, Reconnect, PodDies, SourceLeaves
<1>5. QED
  BY <1>0, <1>1, <1>2, <1>3, <1>4

---------------------------------------------------------------------------
(* Each kind of step keeps the invariant.                                    *)

\* Moves of a driver keep the invariant.
LEMMA MovesKeep ==
  ASSUME IInv, NEW f \in Forks, Moves(f)
  PROVE  IInv'
  BY DEF IInv, ForkTypeOK, SeedInv, Moves, Unwinding

\* Steps that at most seed a repo keep the invariant.
LEMMA OthersKeepInv ==
  ASSUME IInv, NEW f \in Forks,
         UNCHANGED <<fst, ts, pc, sweep>>, seeded' \in {seeded, seeded \cup {f}}
  PROVE  IInv'
  BY DEF IInv, ForkTypeOK, SeedInv, Unwinding

\* The driver's writes to the fork row keep the invariant.
LEMMA RowsKeep ==
  ASSUME IInv, NEW f \in Forks, CreateRows(f) \/ Prepare(f) \/ Activate(f) \/ MarkFailed(f)
  PROVE  IInv'
<1> USE DEF IInv, ForkTypeOK, SeedInv, Goto, Pcs, Unwinding, jobVars, sweepVars
<1>1. CASE CreateRows(f)
  BY <1>1 DEF CreateRows
<1>2. CASE Prepare(f)
  BY <1>2 DEF Prepare
<1>3. CASE Activate(f)
  BY <1>3 DEF Activate
<1>4. CASE MarkFailed(f)
  BY <1>4 DEF MarkFailed
<1>5. QED
  BY <1>1, <1>2, <1>3, <1>4

\* The unwind of a failed fork empties no active one.
LEMMA CleanKeeps ==
  ASSUME IInv, NEW f \in Forks, Clean(f) \/ DeleteRow(f)
  PROVE  IInv'
<1> USE DEF IInv, ForkTypeOK, SeedInv, Goto, Pcs, Unwinding, forkRows, jobVars, sweepVars
<1>1. CASE Clean(f)
  BY <1>1 DEF Clean, CleanUp
<1>2. CASE DeleteRow(f)
  BY <1>2 DEF DeleteRow, Delete
<1>3. QED
  BY <1>1, <1>2

\* The reclaim sweep empties no active fork.
LEMMA SweepKeeps ==
  ASSUME IInv, NEW f \in Forks, SweepAcquire(f) \/ SweepClean(f) \/ SweepDelete(f)
  PROVE  IInv'
<1> USE DEF IInv, ForkTypeOK, SeedInv, Unwinding, forkRows, drvVars, jobVars
<1>1. CASE SweepAcquire(f)
  BY <1>1 DEF SweepAcquire, Reclaimable
<1>2. CASE SweepClean(f)
  BY <1>2 DEF SweepClean, CleanUp
<1>3. CASE SweepDelete(f)
  BY <1>3 DEF SweepDelete, Delete
<1>4. QED
  BY <1>1, <1>2, <1>3

\* A crash forgets drivers and sweeps, and keeps the rows.
LEMMA CrashKeeps ==
  ASSUME IInv, Crash
  PROVE  IInv'
  BY DEF IInv, ForkTypeOK, SeedInv, Crash, Pcs, Unwinding

\* The invariant holds initially.
LEMMA IInvInit ==
  ASSUME Init
  PROVE  IInv
  BY DEF Init, Each, IInv, ForkTypeOK, SeedInv, Pcs, Unwinding

\* Every step keeps the invariant.
LEMMA IInvStep ==
  ASSUME IInv, [Next]_vars
  PROVE  IInv'
<1>1. CASE UNCHANGED vars
  BY <1>1 DEF IInv, ForkTypeOK, SeedInv, vars, forkRows, drvVars, sweepVars, jobVars
<1>2. ASSUME NEW f \in Forks, Driver(f)
      PROVE  IInv'
  BY <1>2, DriverMoves, AnswerMoves, MovesKeep, RowsKeep, CleanKeeps DEF Driver, IInv
<1>3. ASSUME NEW f \in Forks, NodeMsg(f) \/ NodeWait(f) \/ Job(f) \/ ForkClaimExpires(f)
      PROVE  IInv'
  BY <1>3, OthersKeep, OthersKeepInv
<1>4. CASE Recover \/ InventoryLost \/ DeadlinePasses \/ ClaimExpires \/ Break \/ Reconnect
           \/ PodDies \/ SourceLeaves
  <2>1. CASE Forks = {}
    <3>1. ForkTypeOK'
      BY <1>4, <2>1 DEF IInv, ForkTypeOK, Recover, RecoverAcquire, RecoverUnpause, RecoverFinish,
         InventoryLost, DeadlinePasses, ClaimExpires, Break, Cut, Reconnect, PodDies, SourceLeaves,
         rowVars, forkRows, drvVars, sweepVars, jobVars
    <3>2. QED
      BY <2>1, <3>1 DEF IInv, SeedInv
  <2>2. CASE Forks # {}
    BY <1>4, <2>2, OthersKeep, OthersKeepInv
  <2>3. QED
    BY <2>1, <2>2
<1>5. QED
  BY <1>1, <1>2, <1>3, <1>4, RowsKeep, SweepKeeps, CrashKeeps DEF Next

\* A fork that runs keeps the repo it runs on: no unwind, by its driver or by
\* the sweep (fork_cleanup.go), empties the bucket of an active fork.
THEOREM ActiveForkKeepsRepo == Spec => []ActiveForkIsSeeded
<1>1. IInv => ActiveForkIsSeeded
  BY DEF IInv, SeedInv, ActiveForkIsSeeded
<1>2. QED
  BY <1>1, IInvInit, IInvStep, PTL DEF Spec

=============================================================================
