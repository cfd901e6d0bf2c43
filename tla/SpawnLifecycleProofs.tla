------------------------ MODULE SpawnLifecycleProofs ------------------------
(***************************************************************************)
(* The drivers, receive loops and nodes of SpawnLifecycle use the store as *)
(* SpawnStore says, and what follows from it.                              *)
(***************************************************************************)
EXTENDS SpawnLifecycle, SpawnStoreProofs

-----------------------------------------------------------------------------
(* Every step of the system is a statement of the store, or leaves it alone *)

\* Acquire and Release are the only statements of withClaim.
LEMMA ClaimStepRefines ==
  ASSUME TypeOK, NEW d \in Drivers, ClaimStep(d)
  PROVE  StoreNext \/ UNCHANGED storeVars
  BY DEF ClaimStep, AcquireClaim, TakeLock, Exit, StoreNext, ClaimStatement

\* suspendLocked, handleSuspendReply and reconcileLateSuspend.
LEMMA SuspendStepRefines ==
  ASSUME TypeOK, NEW d \in Drivers, SuspendStep(d)
  PROVE  StoreNext \/ UNCHANGED storeVars
<1>1. CASE SuspendTransition(d)
  BY <1>1 DEF SuspendTransition, StoreNext, ClaimStatement, TransitionClaimed, TransitionAllowed, ClaimedTargets
<1>2. CASE RevertTransition(d)
  BY <1>2 DEF RevertTransition, StoreNext, ClaimStatement, TransitionClaimed, TransitionAllowed, ClaimedTargets
<1>3. CASE SuspendGet(d) \/ RevertGet(d)
  BY <1>3 DEF SuspendGet, RevertGet, StoreNext, ClaimStatement
<1>4. CASE SetSuspended(d) \/ SetError(d) \/ LateFlip(d)
  BY <1>4 DEF SetSuspended, SetError, LateFlip, StoreNext, StatusStatement
<1>5. CASE EndSuspended(d) \/ EndErrored(d)
  BY <1>5 DEF EndSuspended, EndErrored, StoreNext, ContainerStatement, EndedPhases
<1>6. CASE TakeReply(d) \/ SuspendStall(d) \/ SuspendWedged(d) \/ SuspendBail(d)
           \/ GuardEpisode(d) \/ SuspendExit(d) \/ LateGet(d)
  BY <1>6 DEF TakeReply, SuspendStall, SuspendWedged, SuspendBail, GuardEpisode, SuspendExit, LateGet
<1>7. QED
  BY <1>1, <1>2, <1>3, <1>4, <1>5, <1>6 DEF SuspendStep

\* resumeLocked, failResume, provisionSpawn and RecreateSpawn.
LEMMA ResumeStepRefines ==
  ASSUME TypeOK, NEW d \in Drivers, ResumeStep(d)
  PROVE  StoreNext \/ UNCHANGED storeVars
<1>1. CASE StartEpisode(d)
  BY <1>1 DEF StartEpisode, ClaimFrom, StoreNext, ContainerStatement
<1>2. CASE ResumeRead(d)
  BY <1>2 DEF ResumeRead, StoreNext, ClaimStatement
<1>3. CASE ResumeTransition(d)
  BY <1>3 DEF ResumeTransition, StoreNext, ClaimStatement, TransitionClaimed, TransitionAllowed, ClaimedTargets
<1>4. CASE RevertSuspended(d) \/ SetActive(d)
  BY <1>4 DEF RevertSuspended, SetActive, StoreNext, StatusStatement
<1>5. CASE EndReverted(d)
  BY <1>5 DEF EndReverted, StoreNext, ContainerStatement, EndedPhases
<1>6. CASE ActivateContainer(d)
  <2>1. target[d].node \in Nodes \cup {NoNode}
    BY DEF TypeOK, DriverTypeOK, Sender, NoSender
  <2>2. QED
    BY <1>6, <2>1 DEF ActivateContainer, SetActiveContainer, StoreNext, ContainerStatement
<1>7. CASE ResumeGet(d) \/ FailResume(d) \/ Provision(d) \/ ProvisionDone(d) \/ ResumeStall(d)
           \/ ResumeBail(d) \/ ActivateFailed(d)
  BY <1>7 DEF ResumeGet, FailResume, Provision, ProvisionDone, ResumeStall, ResumeBail, ActivateFailed
<1>8. QED
  BY <1>1, <1>2, <1>3, <1>4, <1>5, <1>6, <1>7 DEF ResumeStep

\* stop and the fences of RecreateSpawn.
LEMMA LockedStepRefines ==
  ASSUME TypeOK, NEW d \in Drivers, LockedStep(d)
  PROVE  StoreNext \/ UNCHANGED storeVars
  BY DEF LockedStep, FenceOld, MarkDeleted, EndDeleted, StoreNext, StatusStatement, ContainerStatement, EndedPhases

\* The receive loop writes the row only through Adopt.
LEMMA RecvMessageRefines ==
  ASSUME TypeOK, NEW m \in toCP, RecvMessage(m)
  PROVE  StoreNext \/ UNCHANGED storeVars
<1>1. m.node \in Nodes
  BY DEF TypeOK, NetTypeOK, NodeMsg
<1>2. QED
  BY <1>1 DEF RecvMessage, RecvStatus, RecvSuspendComplete, RecvInventory, AdoptContainer, StoreNext, ContainerStatement

\* All of them together: one step, at most one statement.
LEMMA StepRefines ==
  ASSUME TypeOK, [Next]_vars
  PROVE  StoreNext \/ UNCHANGED storeVars
<1>1. ASSUME NEW d \in Drivers, DriverStep(d)
      PROVE  StoreNext \/ UNCHANGED storeVars
  BY <1>1, ClaimStepRefines, SuspendStepRefines, ResumeStepRefines, LockedStepRefines DEF DriverStep
<1>2. ASSUME NEW d \in Drivers, NEW o \in Ops, Begin(d, o)
      PROVE  UNCHANGED storeVars
  BY <1>2 DEF Begin
<1>3. ASSUME NEW d \in Drivers, BeginLate(d) \/ ProvisionReturn(d) \/ ClaimHeartbeat(d) \/ ClientDisconnect(d)
      PROVE  StoreNext \/ UNCHANGED storeVars
  BY <1>3 DEF BeginLate, ProvisionReturn, ClaimHeartbeat, ClientDisconnect, StoreNext, ClaimStatement
<1>4. ASSUME NEW m \in toNode, NodeMessage(m) PROVE UNCHANGED storeVars
  BY <1>4 DEF NodeMessage, NodeStart, NodeStop, NodeSuspend
<1>5. ASSUME NEW f \in fin, NodeFinishSuspend(f) PROVE UNCHANGED storeVars
  BY <1>5 DEF NodeFinishSuspend
<1>6. ASSUME NEW n \in Nodes, NodeStep(n) \/ NodePodDies(n) \/ NodeHeartbeat(n) \/ NodeDown(n) \/ NodeUp(n)
      PROVE  UNCHANGED storeVars
  BY <1>6 DEF NodeStep, NodeCommit, NodeReady, NodeStartFails, NodePodDies, NodeHeartbeat, NodeDown, NodeUp
<1>7. ASSUME NEW n \in Nodes, LoopStep(n)
      PROVE  StoreNext \/ UNCHANGED storeVars
  BY <1>7 DEF LoopStep, Deliver, MarkReachable, MarkLost, MarkDropped, StoreNext, StatusStatement
<1>8. CASE LeaseExpires \/ CPRestart
  BY <1>8 DEF LeaseExpires, CPRestart, StoreNext, StatusStatement
<1>9. CASE UNCHANGED vars
  BY <1>9 DEF vars
<1>10. QED
  BY <1>1, <1>2, <1>3, <1>4, <1>5, <1>6, <1>7, <1>8, <1>9, RecvMessageRefines DEF Next

-----------------------------------------------------------------------------
(* Type correctness *)

\* A message is only sent over a live stream, so it names a node.
LEMMA SentType ==
  ASSUME TypeOK, NEW s \in Sender, NEW g \in Gens, NEW type \in {"start", "suspend", "stop"}
  PROVE  Sent(type, s, g) \subseteq CPMsg
  BY DEF TypeOK, NetTypeOK, Sent, Sender, NoSender, CPMsg

\* Generations a driver or a message may carry.
LEMMA GenType == 0 \in Gens /\ 1 \in Gens /\ \A g \in 1 .. MaxGen : g \in Gens
  BY MaxGenAssumption DEF Gens

\* Types under withClaim and the lock.
LEMMA ClaimStepTypes ==
  ASSUME TypeOK, NEW d \in Drivers, ClaimStep(d)
  PROVE  DriverTypeOK' /\ MemTypeOK' /\ NetTypeOK'
<1> USE DEF TypeOK, DriverTypeOK, MemTypeOK, NetTypeOK
<1> USE DEF Goto, At, Return, locals, memVars, netVars, Pcs, SuspendPcs, ResumePcs, LockPcs
<1>1. CASE AcquireClaim(d)
  BY <1>1, GenType DEF AcquireClaim, ClaimedPc, LockOps, ClaimOps
<1>2. CASE TakeLock(d)
  BY <1>2 DEF TakeLock, LockedPc
<1>3. CASE Exit(d)
  BY <1>3, GenType DEF Exit, LockOps, Replies, Sender
<1>4. QED
  BY <1>1, <1>2, <1>3 DEF ClaimStep

\* A live generation is one a driver can hold.
LEMMA LiveGenType ==
  ASSUME TypeOK, NEW g \in LiveGens
  PROVE  g \in 1 .. MaxGen /\ g \in Gens
<1>1. DOMAIN containers = 1 .. Len(containers) /\ Len(containers) \in 1 .. MaxGen
  BY LenProperties DEF TypeOK, StoreTypeOK
<1>2. QED
  BY <1>1, MaxGenAssumption DEF LiveGens, Gens

\* Types under suspendLocked.
LEMMA SuspendStepTypes ==
  ASSUME TypeOK, NEW d \in Drivers, SuspendStep(d)
  PROVE  DriverTypeOK' /\ MemTypeOK' /\ NetTypeOK'
<1> USE DEF TypeOK, DriverTypeOK, MemTypeOK, NetTypeOK
<1> USE DEF Goto, At, ExitPc, locals, memVars, netVars,
            Pcs, SuspendPcs, ResumePcs, LockPcs, RevertGets, RevertTranss
<1>1. CASE SuspendGet(d)
  BY <1>1, LiveGenType DEF SuspendGet
<1>2. CASE SuspendTransition(d)
  <2>1. Sent("suspend", route, gen[d]) \subseteq CPMsg
    BY SentType
  <2>2. QED
    BY <1>2, <2>1 DEF SuspendTransition
<1>3. CASE TakeReply(d)
  BY <1>3 DEF TakeReply, ReplyPc, Replies, Sender
<1>4. CASE SuspendStall(d) \/ SuspendWedged(d) \/ SuspendBail(d) \/ SuspendExit(d)
  BY <1>4 DEF SuspendStall, SuspendWedged, SuspendBail, SuspendExit, Drop, Sender
<1>5. CASE RevertGet(d)
  <2>1. RevertAttempt[pc[d]] \in Pcs
    BY <1>5 DEF RevertGet, RevertAttempt
  <2>2. QED
    BY <1>5, <2>1 DEF RevertGet
<1>6. CASE RevertTransition(d)
  <2>1. RevertRetry[pc[d]] \in Pcs
    BY <1>6 DEF RevertTransition, RevertRetry
  <2>2. QED
    BY <1>6, <2>1 DEF RevertTransition
<1>7. CASE GuardEpisode(d)
  BY <1>7 DEF GuardEpisode
<1>8. CASE EndSuspended(d)
  BY <1>8 DEF EndSuspended, ClaimOps, LockOps
<1>9. CASE SetSuspended(d) \/ SetError(d) \/ EndErrored(d) \/ LateGet(d) \/ LateFlip(d)
  BY <1>9 DEF SetSuspended, SetError, EndErrored, LateGet, LateFlip
<1>10. QED
  BY <1>1, <1>2, <1>3, <1>4, <1>5, <1>6, <1>7, <1>8, <1>9 DEF SuspendStep

\* Types under resumeLocked and Provision.
LEMMA ResumeStepTypes ==
  ASSUME TypeOK, NEW d \in Drivers, ResumeStep(d)
  PROVE  DriverTypeOK' /\ MemTypeOK' /\ NetTypeOK'
<1> USE DEF TypeOK, DriverTypeOK, MemTypeOK, NetTypeOK
<1> USE DEF Goto, At, FailPc, locals, memVars, netVars, Pcs, SuspendPcs, ResumePcs, LockPcs
<1>0. NoSender \in Sender /\ \A n \in Nodes : StreamOf(n) \in Sender
  BY DEF Sender, StreamOf
<1>1. CASE StartEpisode(d)
  <2>1. ClaimStarting(ClaimFrom(d)) => NewGeneration \in Gens
    BY MaxGenAssumption DEF StoreTypeOK, ClaimStarting, NewGeneration, MaxGeneration, Gens
  <2>2. QED
    BY <1>1, <2>1 DEF StartEpisode
<1>2. CASE ResumeGet(d) \/ ResumeRead(d) \/ ResumeTransition(d) \/ RevertSuspended(d) \/ EndReverted(d)
           \/ SetActive(d) \/ ActivateContainer(d)
  BY <1>2 DEF ResumeGet, ResumeRead, ResumeTransition, RevertSuspended, EndReverted, SetActive, ActivateContainer
<1>3. CASE FailResume(d) \/ ActivateFailed(d)
  <2>1. Sent("stop", route, 0) \subseteq CPMsg
    BY SentType, GenType
  <2>2. QED
    BY <1>0, <1>3, <2>1 DEF FailResume, ActivateFailed, StopOnNode, Drop
<1>4. CASE Provision(d)
  <2>1. \A n \in Nodes : Sent("start", StreamOf(n), gen[d]) \subseteq CPMsg
    BY <1>0, SentType
  <2>2. QED
    BY <1>0, <1>4, <2>1 DEF Provision
<1>5. CASE ProvisionDone(d) \/ ResumeStall(d) \/ ResumeBail(d)
  BY <1>0, <1>5 DEF ProvisionDone, ResumeStall, ResumeBail, Drop
<1>6. QED
  BY <1>1, <1>2, <1>3, <1>4, <1>5 DEF ResumeStep

\* Types under the locked operations.
LEMMA LockedStepTypes ==
  ASSUME TypeOK, NEW d \in Drivers, LockedStep(d)
  PROVE  DriverTypeOK' /\ MemTypeOK' /\ NetTypeOK'
<1> USE DEF TypeOK, DriverTypeOK, MemTypeOK, NetTypeOK
<1>1. Sent("stop", route, 0) \subseteq CPMsg
  BY SentType, GenType
<1>2. QED
  BY <1>1 DEF LockedStep, FenceOld, MarkDeleted, EndDeleted, StopOnNode, Drop, Goto, At, Sender,
              locals, memVars, netVars, Pcs, LockPcs

\* Types under every step of a driver.
LEMMA DriverTypes ==
  ASSUME TypeOK, NEW d \in Drivers,
         \/ DriverStep(d) \/ \E o \in Ops : Begin(d, o)
         \/ BeginLate(d) \/ ProvisionReturn(d) \/ ClaimHeartbeat(d) \/ ClientDisconnect(d)
  PROVE  DriverTypeOK' /\ MemTypeOK' /\ NetTypeOK'
<1> USE DEF TypeOK, DriverTypeOK, MemTypeOK, NetTypeOK
<1> USE DEF Goto, At, locals, memVars, netVars, Pcs, SuspendPcs, ResumePcs, LockPcs
<1>1. CASE DriverStep(d)
  BY <1>1, ClaimStepTypes, SuspendStepTypes, ResumeStepTypes, LockedStepTypes DEF DriverStep
<1>2. ASSUME NEW o \in Ops, Begin(d, o)
      PROVE  DriverTypeOK' /\ MemTypeOK' /\ NetTypeOK'
  BY <1>2, GenType, OpsAssumption DEF Begin, StartDriver, ClaimOps, LockOps
<1>3. CASE BeginLate(d)
  BY <1>3 DEF BeginLate, StartDriver, ClaimOps, LockOps
<1>4. CASE ProvisionReturn(d)
  BY <1>4 DEF ProvisionReturn, Sender
<1>5. CASE ClaimHeartbeat(d) \/ ClientDisconnect(d)
  BY <1>5 DEF ClaimHeartbeat, ClientDisconnect
<1>6. QED
  BY <1>1, <1>2, <1>3, <1>4, <1>5

\* What a node sends is a well-typed message.
LEMMA ReplyType ==
  ASSUME NEW n \in Nodes, NEW g \in Gens, NEW type \in {"active", "error", "ok", "abort", "inventory"}
  PROVE  Reply(type, n, g) \in NodeMsg
  BY DEF Reply, NodeMsg

\* Types under the steps of the nodes.
LEMMA NodeTypes ==
  ASSUME TypeOK,
         \/ \E m \in toNode : NodeMessage(m)
         \/ \E f \in fin : NodeFinishSuspend(f)
         \/ \E n \in Nodes : NodeStep(n) \/ NodePodDies(n) \/ NodeHeartbeat(n) \/ NodeUp(n)
  PROVE  DriverTypeOK' /\ MemTypeOK' /\ NetTypeOK'
<1> USE DEF TypeOK
<1> USE GenType
<1>0. /\ NoPod \in Pod
      /\ \A n \in Nodes : pod[n] \in Pod /\ pod[n].gen \in Gens
      /\ \A n \in Nodes, st \in PodStates : [pod[n] EXCEPT !.st = st] \in Pod
  BY DEF NetTypeOK, NoPod, Pod, PodStates
<1>1. ASSUME NEW m \in toNode, NodeMessage(m) PROVE NetTypeOK'
  <2>0. m.node \in Nodes /\ m.gen \in Gens
    BY DEF NetTypeOK, CPMsg
  <2>1. CASE NodeStart(m)
    <3>1. [gen |-> m.gen, st |-> "creating", live |-> TRUE] \in Pod
      BY <2>0 DEF Pod, PodStates
    <3>2. QED
      BY <2>0, <2>1, <3>1, ReplyType DEF NodeStart, NetTypeOK
  <2>2. CASE NodeStop(m)
    BY <1>0, <2>0, <2>2, ReplyType DEF NodeStop, StartAborted, StatusSent, NetTypeOK
  <2>3. CASE NodeSuspend(m)
    <3>1. [pod EXCEPT ![m.node].st = "gated"] \in [Nodes -> Pod]
      BY <1>0, <2>0 DEF NetTypeOK, PodStates
    <3>2. [node |-> m.node, gen |-> m.gen, live |-> TRUE] \in Finishing
      BY <2>0 DEF Finishing
    <3>3. QED
      BY <2>0, <2>3, <3>1, <3>2, ReplyType DEF NodeSuspend, StartAborted, StatusSent, NetTypeOK
  <2>4. QED
    BY <1>1, <2>1, <2>2, <2>3 DEF NodeMessage
<1>2. ASSUME NEW f \in fin, NodeFinishSuspend(f) PROVE NetTypeOK'
  <2>0. f.node \in Nodes /\ f.gen \in Gens
    BY DEF NetTypeOK, Finishing
  <2>1. QED
    BY <1>0, <1>2, <2>0, ReplyType DEF NodeFinishSuspend, StatusSent, NetTypeOK
<1>3. ASSUME NEW n \in Nodes, NodeStep(n) \/ NodePodDies(n) PROVE NetTypeOK'
  <2>1. /\ StatusSent("active", pod[n].live, n, 0) \subseteq NodeMsg
        /\ StatusSent("error", pod[n].live, n, 0) \subseteq NodeMsg
    BY ReplyType DEF StatusSent, NetTypeOK
  <2>2. \A st \in PodStates : [pod EXCEPT ![n].st = st] \in [Nodes -> Pod]
    BY <1>0 DEF NetTypeOK
  <2>3. [pod EXCEPT ![n] = NoPod] \in [Nodes -> Pod]
    BY <1>0 DEF NetTypeOK
  <2>4. "attaching" \in PodStates /\ "running" \in PodStates
    BY DEF PodStates
  <2>5. QED
    BY <1>3, <2>1, <2>2, <2>3, <2>4
       DEF NodeStep, NodeCommit, NodeReady, NodeStartFails, NodePodDies, NetTypeOK
<1>4. ASSUME NEW n \in Nodes, NodeHeartbeat(n) \/ NodeUp(n) PROVE NetTypeOK'
  <2>1. Inventory(n) \in NodeMsg
    BY <1>0, ReplyType DEF Inventory
  <2>2. QED
    BY <1>4, <2>1 DEF NodeHeartbeat, NodeUp, NetTypeOK
<1>5. UNCHANGED <<drvVars, memVars>>
  BY DEF NodeMessage, NodeStart, NodeStop, NodeSuspend, NodeFinishSuspend, NodeStep, NodeCommit, NodeReady,
         NodeStartFails, NodePodDies, NodeHeartbeat, NodeUp
<1>6. DriverTypeOK' /\ MemTypeOK'
  BY <1>5 DEF DriverTypeOK, MemTypeOK, drvVars, locals, memVars
<1>7. QED
  BY <1>1, <1>2, <1>3, <1>4, <1>6

\* Types under the receive loops.
LEMMA ReceiveTypes ==
  ASSUME TypeOK, (\E m \in toCP : RecvMessage(m)) \/ (\E n \in Nodes : LoopStep(n))
  PROVE  DriverTypeOK' /\ MemTypeOK' /\ NetTypeOK'
<1> USE DEF TypeOK, DriverTypeOK, MemTypeOK, NetTypeOK, drvVars, locals, memVars, netVars
<1>0. Receiving \in Rx /\ NoSender \in Sender /\ \A n \in Nodes : StreamOf(n) \in Sender
  BY GenType DEF Receiving, Rx, Replies, Sender, StreamOf
<1>1. ASSUME NEW m \in toCP, RecvMessage(m)
      PROVE  DriverTypeOK' /\ MemTypeOK' /\ NetTypeOK'
  <2>0. /\ m.node \in Nodes /\ m.gen \in Gens /\ rx[m.node] \in Rx
        /\ m.type \in {"active", "error", "ok", "abort", "inventory"}
    BY DEF NodeMsg
  <2>1. CASE RecvStatus(m)
    BY <2>0, <2>1 DEF RecvStatus
  <2>2. CASE RecvSuspendComplete(m)
    <3>1. waiter # NoDriver /\ m.type \in {"ok", "abort"}
            => [st |-> "deliver", to |-> waiter, msg |-> m.type, gen |-> m.gen] \in Rx
      BY <2>0 DEF Rx, Replies
    <3>2. QED
      BY <2>0, <2>2, <3>1 DEF RecvSuspendComplete, LateAfter
  <2>3. CASE RecvInventory(m)
    <3>1. /\ [rx[m.node] EXCEPT !.st = "reach", !.gen = m.gen] \in Rx
          /\ [rx[m.node] EXCEPT !.st = "lost"] \in Rx
      BY <2>0 DEF Rx
    <3>2. Sent("stop", StreamOf(m.node), m.gen) \subseteq CPMsg
      BY <1>0, <2>0, SentType
    <3>3. QED
      BY <1>0, <2>0, <2>3, <3>1, <3>2 DEF RecvInventory
  <2>4. QED
    BY <1>1, <2>1, <2>2, <2>3 DEF RecvMessage
<1>2. ASSUME NEW n \in Nodes, LoopStep(n)
      PROVE  DriverTypeOK' /\ MemTypeOK' /\ NetTypeOK'
  <2>0. rx[n].to \in Drivers \cup {NoDriver} /\ rx[n].msg \in Replies /\ rx[n].gen \in Gens
    BY DEF Rx
  <2>1. CASE Deliver(n)
    BY <1>0, <2>0, <2>1 DEF Deliver, LateAfter
  <2>2. CASE MarkReachable(n) \/ MarkLost(n) \/ MarkDropped(n)
    BY <1>0, <2>2 DEF MarkReachable, MarkLost, MarkDropped, Drop
  <2>3. QED
    BY <1>2, <2>1, <2>2 DEF LoopStep
<1>3. QED
  BY <1>1, <1>2

\* Muting goroutines keeps pods and FinishSuspend goroutines well typed.
LEMMA MutedType ==
  ASSUME NetTypeOK, NEW ns
  PROVE  Muted(ns) \in [Nodes -> Pod] /\ MutedFin(ns) \subseteq Finishing
<1>1. \A n \in Nodes : [pod[n] EXCEPT !.live = FALSE] \in Pod
  BY DEF NetTypeOK, Pod
<1>2. \A f \in fin : f \in Finishing /\ [f EXCEPT !.live = FALSE] \in Finishing
  BY DEF NetTypeOK, Finishing
<1>3. QED
  BY <1>1, <1>2 DEF Muted, MutedFin, NetTypeOK

\* Types under node loss, lease expiry and a restart.
LEMMA FaultTypes ==
  ASSUME TypeOK, (\E n \in Nodes : NodeDown(n)) \/ LeaseExpires \/ CPRestart
  PROVE  DriverTypeOK' /\ MemTypeOK' /\ NetTypeOK'
<1> USE DEF TypeOK, DriverTypeOK, MemTypeOK, NetTypeOK, drvVars, locals, memVars, netVars
<1>1. ASSUME NEW n \in Nodes, NodeDown(n)
      PROVE  DriverTypeOK' /\ MemTypeOK' /\ NetTypeOK'
  <2>1. \A d \in Drivers : target[d].node = n => [target[d] EXCEPT !.live = FALSE] \in Sender
    <3>1. SUFFICES ASSUME NEW d \in Drivers, target[d].node = n
                   PROVE  [target[d] EXCEPT !.live = FALSE] \in Sender
      OBVIOUS
    <3>2. target[d] \in [node : Nodes, live : BOOLEAN]
      BY <3>1, NodeAssumption DEF Sender, NoSender
    <3>3. [target[d] EXCEPT !.live = FALSE] \in [node : Nodes, live : BOOLEAN]
      BY <3>2
    <3>4. QED
      BY <3>3 DEF Sender
  <2>2. QED
    BY <1>1, <2>1, MutedType DEF NodeDown, Drop, Sender
<1>2. CASE LeaseExpires
  BY <1>2 DEF LeaseExpires
<1>3. CASE CPRestart
  BY <1>3, GenType, MutedType DEF CPRestart, At, Pcs, ClaimOps, LockOps, Replies, Sender, Receiving, Rx
<1>4. QED
  BY <1>1, <1>2, <1>3

\* The inductive invariant: types, and the store's own invariant carried over
\* by the refinement.
Inv == TypeOK /\ StoreInv

\* The freshly created spawn.
LEMMA InitInv == Init => Inv
<1> SUFFICES ASSUME Init PROVE Inv
  OBVIOUS
<1>1. StoreInv
  BY InitStore DEF Init
<1>2. DriverTypeOK
  BY GenType DEF Init, DriverTypeOK, Pcs, LockPcs, ClaimOps, LockOps, Replies, Sender
<1>3. MemTypeOK
  BY GenType DEF Init, MemTypeOK, Sender, Receiving, Rx, Replies
<1>4. NetTypeOK
  BY GenType DEF Init, NetTypeOK, NoPod, Pod, PodStates
<1>5. QED
  BY <1>1, <1>2, <1>3, <1>4 DEF Inv, TypeOK, StoreInv

\* Every step keeps types and store invariant.
LEMMA StepInv == Inv /\ [Next]_vars => Inv'
<1> SUFFICES ASSUME Inv, [Next]_vars PROVE Inv'
  OBVIOUS
<1>1. StoreInv'
  BY StepRefines, StoreStepKeepsInv DEF Inv
<1>2. DriverTypeOK' /\ MemTypeOK' /\ NetTypeOK'
  <2>1. CASE UNCHANGED vars
    BY <2>1 DEF Inv, TypeOK, DriverTypeOK, MemTypeOK, NetTypeOK, vars, drvVars, locals, memVars, netVars
  <2>2. CASE Next
    BY <2>2, DriverTypes, NodeTypes, ReceiveTypes, FaultTypes DEF Inv, Next
  <2>3. QED
    BY <2>1, <2>2
<1>3. QED
  BY <1>1, <1>2 DEF Inv, TypeOK, StoreInv

\* Every reachable state of the system satisfies the inductive invariant.
THEOREM Invariant == Spec => []Inv
  BY InitInv, StepInv, PTL DEF Spec

\* Type correctness of the whole system, for any nodes, drivers, operations,
\* faults and number of generations.
THEOREM TypeCorrect == Spec => []TypeOK
<1>1. Inv => TypeOK
  BY DEF Inv
<1>2. QED
  BY <1>1, Invariant, PTL

\* The drivers, receive loops and the boot sweep touch the row only through the
\* store's statements, each with its own guards and fences.
THEOREM Refinement == Spec => StoreSpec
<1>1. Init => StoreInit
  BY DEF Init
<1>2. Inv /\ [Next]_vars => [StoreNext]_storeVars
  BY StepRefines DEF Inv
<1>3. QED
  BY <1>1, <1>2, Invariant, PTL DEF Spec, StoreSpec

\* The row's fences hold for the control plane as it is: a current read is
\* accurate, and at most the newest generation is live.
THEOREM RowFences == Spec => [](SeqFencesStatus /\ LiveIsLatest)
  BY Refinement, StoreSeqFences, StoreLiveIsLatest, PTL

\* No interleaving of drivers, receive loops, crashes and boot sweeps brings a
\* deleted spawn back.
THEOREM DeletedForGood == Spec => DeletedIsFinal
  BY Refinement, StoreDeletedIsFinal, PTL

-----------------------------------------------------------------------------
(* Frames: what a step of one driver leaves alone of another *)

DriverAction(e) ==
  \/ DriverStep(e) \/ (\E o \in Ops : Begin(e, o)) \/ BeginLate(e)
  \/ ProvisionReturn(e) \/ ClaimHeartbeat(e) \/ ClientDisconnect(e)

\* The program counter and operation of another driver.
LEMMA DriverFrame ==
  ASSUME TypeOK, NEW d \in Drivers, NEW e \in Drivers, d # e, DriverAction(e)
  PROVE  pc'[d] = pc[d] /\ op'[d] = op[d]
<1> USE DEF TypeOK, DriverTypeOK, Goto, Return, locals
<1>1. CASE ClaimStep(e)
  BY <1>1 DEF ClaimStep, AcquireClaim, TakeLock, Exit
<1>2. CASE SuspendStep(e)
  BY <1>2 DEF SuspendStep, SuspendGet, SuspendTransition, TakeReply, SuspendStall, SuspendWedged, SuspendBail,
              RevertGet, RevertTransition, GuardEpisode, SetSuspended, EndSuspended, SuspendExit,
              SetError, EndErrored, LateGet, LateFlip
<1>3. CASE ResumeStep(e)
  BY <1>3 DEF ResumeStep, ResumeGet, StartEpisode, ResumeRead, ResumeTransition, FailResume, RevertSuspended,
              EndReverted, Provision, ProvisionDone, ResumeStall, ResumeBail, SetActive,
              ActivateContainer, ActivateFailed
<1>4. CASE LockedStep(e)
  BY <1>4 DEF LockedStep, FenceOld, MarkDeleted, EndDeleted
<1>5. CASE (\E o \in Ops : Begin(e, o)) \/ BeginLate(e) \/ ProvisionReturn(e) \/ ClaimHeartbeat(e)
           \/ ClientDisconnect(e)
  BY <1>5 DEF Begin, BeginLate, StartDriver, ProvisionReturn, ClaimHeartbeat, ClientDisconnect
<1>6. QED
  BY <1>1, <1>2, <1>3, <1>4, <1>5 DEF DriverAction, DriverStep

\* A step that is nobody's own either leaves every driver where it is or kills
\* them all.
OtherAction ==
  \/ \E m \in toNode : NodeMessage(m)
  \/ \E f \in fin : NodeFinishSuspend(f)
  \/ \E m \in toCP : RecvMessage(m)
  \/ \E n \in Nodes : NodeStep(n) \/ NodePodDies(n) \/ NodeHeartbeat(n) \/ LoopStep(n) \/ NodeDown(n) \/ NodeUp(n)
  \/ LeaseExpires

\* Nodes, receive loops and time leave drivers, waiter and lease holder alone.
LEMMA OtherFrame ==
  ASSUME TypeOK, OtherAction
  PROVE  /\ UNCHANGED <<pc, op, waiter, claim>>
         /\ UNCHANGED expired \/ LeaseExpires
<1> USE DEF drvVars, locals, memVars, storeVars
<1>1. CASE \E m \in toNode : NodeMessage(m)
  BY <1>1 DEF NodeMessage, NodeStart, NodeStop, NodeSuspend
<1>2. CASE \E f \in fin : NodeFinishSuspend(f)
  BY <1>2 DEF NodeFinishSuspend
<1>3. CASE \E m \in toCP : RecvMessage(m)
  BY <1>3 DEF RecvMessage, RecvStatus, RecvSuspendComplete, RecvInventory, AdoptContainer
<1>4. CASE \E n \in Nodes : NodeStep(n) \/ NodePodDies(n) \/ NodeHeartbeat(n) \/ NodeDown(n) \/ NodeUp(n)
  BY <1>4 DEF NodeStep, NodeCommit, NodeReady, NodeStartFails, NodePodDies, NodeHeartbeat, NodeDown, NodeUp
<1>5. CASE \E n \in Nodes : LoopStep(n)
  BY <1>5 DEF LoopStep, Deliver, MarkReachable, MarkReachableStatus, MarkLost, MarkDropped, MarkUnreachable, GuardStatus
<1>6. CASE LeaseExpires
  BY <1>6 DEF LeaseExpires, ExpireLease
<1>7. QED
  BY <1>1, <1>2, <1>3, <1>4, <1>5, <1>6 DEF OtherAction

\* A step is a driver's, somebody else's, or a restart.
LEMMA NextCases ==
  ASSUME [Next]_vars
  PROVE  (\E d \in Drivers : DriverAction(d)) \/ OtherAction \/ CPRestart \/ UNCHANGED vars
  BY DEF Next, DriverAction, OtherAction

-----------------------------------------------------------------------------
(* Leases *)

\* A driver's step moves the lease only by taking a free or expired one, or by
\* releasing its own.
LEMMA DriverClaim ==
  ASSUME TypeOK, NEW e \in Drivers, DriverAction(e)
  PROVE  \/ UNCHANGED <<claim, expired>>
         \/ ~ClaimHeld /\ claim' = e /\ expired' = FALSE /\ At(e, "acquire")
         \/ claim = e /\ claim' = e /\ expired' = FALSE
         \/ claim = e /\ claim' = NoLease /\ At(e, "exit") /\ pc'[e] = "done"
<1> USE DEF storeVars
<1>1. CASE ClaimStep(e)
  BY <1>1 DEF ClaimStep, AcquireClaim, Acquire, TakeLock, Exit, Release, Return, Goto, TypeOK, DriverTypeOK
<1>2. CASE SuspendStep(e)
  BY <1>2 DEF SuspendStep, SuspendGet, SuspendTransition, TakeReply, SuspendStall, SuspendWedged, SuspendBail,
              RevertGet, RevertTransition, GuardEpisode, SetSuspended, EndSuspended, SuspendExit,
              SetError, EndErrored, LateGet, LateFlip, Get, TransitionClaimed, EndLiveContainer,
              SetSuspendedStatus, SetErrorStatus, ReconcileSuspendedAfterError, GuardStatus
<1>3. CASE ResumeStep(e)
  BY <1>3 DEF ResumeStep, ResumeGet, StartEpisode, ResumeRead, ResumeTransition, FailResume, RevertSuspended,
              EndReverted, Provision, ProvisionDone, ResumeStall, ResumeBail, SetActive,
              ActivateContainer, ActivateFailed, Get, TransitionClaimed, EndLiveContainer, ClaimStarting,
              SetActiveStatus, RevertSuspendedStatus, GuardStatus, SetActiveContainer
<1>4. CASE LockedStep(e)
  BY <1>4 DEF LockedStep, FenceOld, MarkDeleted, EndDeleted, MarkDeletedStatus, GuardStatus, EndLiveContainer
<1>5. CASE (\E o \in Ops : Begin(e, o)) \/ BeginLate(e) \/ ProvisionReturn(e) \/ ClaimHeartbeat(e)
           \/ ClientDisconnect(e)
  BY <1>5 DEF Begin, BeginLate, ProvisionReturn, ClaimHeartbeat, HeartbeatClaim, ClientDisconnect
<1>6. QED
  BY <1>1, <1>2, <1>3, <1>4, <1>5 DEF DriverAction, DriverStep

\* An unexpired lease ends only with its holder's Release or with the control
\* plane, under every fault.
THEOREM LeasesNotStolen == Spec => LeaseNotStolen
<1> DEFINE Kept == \A d \in Drivers : claim = d /\ ~expired /\ claim' # d => At(d, "exit") \/ claim' = Orphan
<1>1. Inv /\ [Next]_vars => [Kept]_claim
  <2> SUFFICES ASSUME Inv, [Next]_vars, NEW d \in Drivers, claim = d, ~expired, claim' # d
               PROVE  At(d, "exit") \/ claim' = Orphan
    OBVIOUS
  <2>1. ASSUME NEW e \in Drivers, DriverAction(e) PROVE At(d, "exit")
    BY <2>1, DriverClaim, LeaseAssumption DEF Inv, ClaimHeld
  <2>2. CASE OtherAction
    BY <2>2, OtherFrame DEF Inv
  <2>3. CASE CPRestart
    BY <2>3, LeaseAssumption DEF CPRestart, MarkBootUnreachable
  <2>4. CASE UNCHANGED vars
    BY <2>4 DEF vars, storeVars
  <2>5. QED
    BY <2>1, <2>2, <2>3, <2>4, NextCases
<1>2. QED
  BY <1>1, Invariant, PTL DEF Spec, LeaseNotStolen

\* Without lease expiry the claim is a mutual exclusion: whoever is between
\* AcquireClaim and Release holds it.  Every control point of suspendLocked is
\* in that interval.
ClaimExclusive ==
  /\ claim \in Drivers => ~expired
  /\ \A d \in Drivers : Claiming(d) => claim = d
SuspendUnderClaim == \A d \in Drivers : pc[d] \in SuspendPcs => op[d] \in ClaimOps

\* A driver's own step: where it stands under the claim afterwards.
LEMMA OwnStep ==
  ASSUME TypeOK, SuspendUnderClaim, NEW e \in Drivers, DriverAction(e)
  PROVE  /\ pc'[e] \in SuspendPcs => op'[e] \in ClaimOps
         /\ Claiming(e)' => Claiming(e) \/ claim' = e
<1> USE DEF TypeOK, DriverTypeOK, Goto, At, Return, locals, Claiming, SuspendUnderClaim
<1> USE DEF SuspendPcs, RevertGets, RevertTranss, ClaimOps, LockOps
<1>1. CASE ClaimStep(e)
  BY <1>1 DEF ClaimStep, AcquireClaim, ClaimedPc, Acquire, SuspendOps, TakeLock, LockedPc, Exit
<1>2. CASE SuspendStep(e)
  <2>1. CASE EndSuspended(e) \/ SuspendExit(e) \/ LateGet(e) \/ LateFlip(e)
    BY <2>1 DEF EndSuspended, SuspendExit, LateGet, LateFlip
  <2>2. CASE SuspendGet(e) \/ SuspendTransition(e) \/ TakeReply(e) \/ SuspendStall(e) \/ SuspendWedged(e)
             \/ RevertGet(e) \/ RevertTransition(e) \/ SetSuspended(e) \/ SuspendBail(e)
    BY <2>2 DEF SuspendGet, SuspendTransition, TakeReply, ReplyPc, SuspendStall, SuspendWedged, RevertGet,
                RevertTransition, SetSuspended, SuspendBail
  <2>3. CASE GuardEpisode(e)
    BY <2>3 DEF GuardEpisode
  <2>4. CASE SetError(e) \/ EndErrored(e)
    BY <2>4 DEF SetError, EndErrored, ExitPc, SuspendOps
  <2>5. QED
    BY <1>2, <2>1, <2>2, <2>3, <2>4 DEF SuspendStep
<1>3. CASE ResumeStep(e)
  BY <1>3 DEF ResumeStep, ResumeGet, StartEpisode, ResumeRead, ResumeTransition, FailResume, RevertSuspended,
              EndReverted, Provision, ProvisionDone, ResumeStall, ResumeBail, SetActive,
              ActivateContainer, ActivateFailed, FailPc
<1>4. CASE LockedStep(e)
  BY <1>4 DEF LockedStep, FenceOld, MarkDeleted, EndDeleted
<1>5. CASE \E o \in Ops : Begin(e, o)
  BY <1>5, OpsAssumption DEF Begin, StartDriver
<1>6. CASE BeginLate(e) \/ ProvisionReturn(e) \/ ClaimHeartbeat(e) \/ ClientDisconnect(e)
  BY <1>6 DEF BeginLate, StartDriver, ProvisionReturn, ClaimHeartbeat, ClientDisconnect
<1>7. QED
  BY <1>1, <1>2, <1>3, <1>4, <1>5, <1>6 DEF DriverAction, DriverStep

\* Only a driver inside suspendLocked moves the waiter entry, and whoever enters
\* the wait has just registered itself.
LEMMA DriverWaiter ==
  ASSUME TypeOK, NEW e \in Drivers, DriverAction(e)
  PROVE  /\ waiter' = waiter \/ pc[e] \in SuspendPcs
         /\ pc'[e] = "sWait" => waiter' = e \/ (pc[e] = "sWait" /\ waiter' = waiter)
<1> USE DEF TypeOK, DriverTypeOK, Goto, At, Return, locals, memVars
<1>1. CASE ClaimStep(e)
  BY <1>1 DEF ClaimStep, AcquireClaim, ClaimedPc, TakeLock, LockedPc, Exit
<1>2. CASE SuspendStep(e)
  <2>1. CASE SuspendTransition(e) \/ SuspendStall(e) \/ SuspendExit(e)
    BY <2>1 DEF SuspendTransition, SuspendStall, SuspendExit, SuspendPcs
  <2>2. CASE SuspendGet(e) \/ TakeReply(e) \/ SuspendWedged(e) \/ SuspendBail(e) \/ GuardEpisode(e)
             \/ SetSuspended(e) \/ EndSuspended(e) \/ SetError(e) \/ EndErrored(e) \/ LateGet(e) \/ LateFlip(e)
    BY <2>2 DEF SuspendGet, TakeReply, ReplyPc, SuspendWedged, SuspendBail, GuardEpisode, SetSuspended,
                EndSuspended, SetError, EndErrored, LateGet, LateFlip, ExitPc
  <2>3. CASE RevertGet(e) \/ RevertTransition(e)
    <3>1. /\ pc[e] \in RevertGets => RevertAttempt[pc[e]] # "sWait"
          /\ pc[e] \in RevertTranss => RevertRetry[pc[e]] # "sWait"
      BY DEF RevertGets, RevertTranss, RevertAttempt, RevertRetry
    <3>2. QED
      BY <2>3, <3>1 DEF RevertGet, RevertTransition
  <2>4. QED
    BY <1>2, <2>1, <2>2, <2>3 DEF SuspendStep
<1>3. CASE ResumeStep(e)
  BY <1>3 DEF ResumeStep, ResumeGet, StartEpisode, ResumeRead, ResumeTransition, FailResume, RevertSuspended,
              EndReverted, Provision, ProvisionDone, ResumeStall, ResumeBail, SetActive,
              ActivateContainer, ActivateFailed, FailPc
<1>4. CASE LockedStep(e)
  BY <1>4 DEF LockedStep, FenceOld, MarkDeleted, EndDeleted
<1>5. CASE (\E o \in Ops : Begin(e, o)) \/ BeginLate(e) \/ ProvisionReturn(e) \/ ClaimHeartbeat(e)
           \/ ClientDisconnect(e)
  BY <1>5 DEF Begin, BeginLate, StartDriver, ProvisionReturn, ClaimHeartbeat, ClientDisconnect
<1>6. QED
  BY <1>1, <1>2, <1>3, <1>4, <1>5 DEF DriverAction, DriverStep

\* The strengthening of OneWaiter that is inductive without lease expiry.
WaiterInv == Inv /\ ClaimExclusive /\ SuspendUnderClaim /\ OneWaiter

\* A driver's step keeps the strengthening.
LEMMA DriverKeepsWaiterInv ==
  ASSUME WaiterInv, NEW e \in Drivers, DriverAction(e)
  PROVE  (ClaimExclusive /\ SuspendUnderClaim /\ OneWaiter)'
<1> USE DEF WaiterInv, Inv
<1>1. \A d \in Drivers \ {e} : pc'[d] = pc[d] /\ op'[d] = op[d]
  BY DriverFrame
<1>2. SuspendUnderClaim'
  BY <1>1, OwnStep DEF SuspendUnderClaim
<1>3. (claim \in Drivers => ~expired)'
  BY DriverClaim, LeaseAssumption DEF ClaimExclusive
<1>4. ASSUME NEW d \in Drivers, Claiming(d)' PROVE claim' = d
  <2>1. CASE d # e
    <3>1. Claiming(d) /\ claim = d /\ ~expired
      BY <1>1, <1>4, <2>1 DEF Claiming, ClaimExclusive
    <3>2. QED
      BY <2>1, <3>1, DriverClaim, LeaseAssumption DEF ClaimHeld
  <2>2. CASE d = e
    <3>1. CASE Claiming(e)
      BY <1>4, <2>2, <3>1, DriverClaim DEF ClaimExclusive, Claiming
    <3>2. CASE ~Claiming(e)
      BY <1>4, <2>2, <3>2, OwnStep
    <3>3. QED
      BY <3>1, <3>2
  <2>3. QED
    BY <2>1, <2>2
<1>5. ASSUME NEW d \in Drivers, At(d, "sWait")' PROVE waiter' = d
  <2>1. CASE d # e
    <3>1. pc[d] = "sWait" /\ waiter = d /\ claim = d
      BY <1>1, <1>5, <2>1 DEF At, OneWaiter, ClaimExclusive, SuspendUnderClaim, Claiming, SuspendPcs
    <3>2. pc[e] \notin SuspendPcs
      BY <2>1, <3>1 DEF ClaimExclusive, SuspendUnderClaim, Claiming, SuspendPcs, RevertGets, RevertTranss
    <3>3. QED
      BY <3>1, <3>2, DriverWaiter
  <2>2. CASE d = e
    BY <1>5, <2>2, DriverWaiter DEF At, OneWaiter
  <2>3. QED
    BY <2>1, <2>2
<1>6. QED
  BY <1>2, <1>3, <1>4, <1>5 DEF ClaimExclusive, OneWaiter

\* Without lease expiry the strengthening is an invariant.
THEOREM WaiterInvariant ==
  ASSUME "expiry" \notin Faults
  PROVE  Spec => []WaiterInv
<1>1. Init => WaiterInv
  <2> SUFFICES ASSUME Init PROVE WaiterInv
    OBVIOUS
  <2>1. ClaimExclusive /\ SuspendUnderClaim /\ OneWaiter
    BY LeaseAssumption
       DEF Init, StoreInit, ClaimExclusive, SuspendUnderClaim, OneWaiter, Claiming, At, ClaimOps, SuspendPcs,
           RevertGets, RevertTranss
  <2>2. QED
    BY <2>1, InitInv DEF WaiterInv
<1>2. WaiterInv /\ [Next]_vars => WaiterInv'
  <2> SUFFICES ASSUME WaiterInv, [Next]_vars PROVE (ClaimExclusive /\ SuspendUnderClaim /\ OneWaiter)'
    BY StepInv DEF WaiterInv
  <2>1. ASSUME NEW e \in Drivers, DriverAction(e) PROVE (ClaimExclusive /\ SuspendUnderClaim /\ OneWaiter)'
    BY <2>1, DriverKeepsWaiterInv
  <2>2. CASE OtherAction
    <3>1. UNCHANGED <<pc, op, waiter, claim>>
      BY <2>2, OtherFrame DEF WaiterInv, Inv
    <3>2. (claim \in Drivers => ~expired)'
      <4>1. CASE LeaseExpires
        BY <4>1, LeaseAssumption DEF LeaseExpires, ExpireLease
      <4>2. CASE UNCHANGED expired
        BY <3>1, <4>2 DEF WaiterInv, ClaimExclusive
      <4>3. QED
        BY <2>2, <4>1, <4>2, OtherFrame DEF WaiterInv, Inv
    <3>3. QED
      BY <3>1, <3>2 DEF WaiterInv, ClaimExclusive, SuspendUnderClaim, OneWaiter, Claiming, At
  <2>3. CASE CPRestart
    BY <2>3, LeaseAssumption
       DEF CPRestart, MarkBootUnreachable, ClaimExclusive, SuspendUnderClaim, OneWaiter, Claiming, At, ClaimOps,
           SuspendPcs, RevertGets, RevertTranss
  <2>4. CASE UNCHANGED vars
    BY <2>4 DEF vars, storeVars, drvVars, locals, memVars, WaiterInv, ClaimExclusive, SuspendUnderClaim, OneWaiter,
                Claiming, At
  <2>5. QED
    BY <2>1, <2>2, <2>3, <2>4, NextCases
<1>3. QED
  BY <1>1, <1>2, PTL DEF Spec

\* "The DB claim serialises suspends, so at most one waiter per spawn is ever
\* live" (lifecycle.go:61-62) as long as no lease expires: crashes, node losses,
\* pod deaths and disconnects do not break it.
THEOREM WaiterUnique ==
  ASSUME "expiry" \notin Faults
  PROVE  Spec => []OneWaiter
<1>1. WaiterInv => OneWaiter
  BY DEF WaiterInv
<1>2. QED
  BY <1>1, WaiterInvariant, PTL

-----------------------------------------------------------------------------
(* What a suspend read is what it overwrites *)

\* While its read is current, a driver about to issue Active->Suspending read
\* "active".
ReadActive == \A d \in Drivers : pc[d] = "sTrans" => seen[d] \in {Stale, "active"}

\* What a step may do to driver d's read when it is not d's own Get.
Undisturbed(d) == seen'[d] \in {Stale, seen[d]}

\* A bump of the sequence number outdates every read.
LEMMA BumpUndisturbed ==
  ASSUME NEW d \in Drivers, BumpSeq
  PROVE  seen'[d] = Stale
  BY DEF BumpSeq

\* Reads of others, and everything a driver does outside SuspendTransition.
LEMMA DriverReads ==
  ASSUME TypeOK, NEW e \in Drivers, DriverAction(e), ~SuspendTransition(e)
  PROVE  /\ \A d \in Drivers \ {e} : Undisturbed(d)
         /\ status' = "suspending" => status = "suspending"
         /\ pc'[e] = "sTrans" => \/ seen'[e] = "active"
                                 \/ pc[e] = "sTrans" /\ seen'[e] \in {Stale, seen[e]}
<1> USE BumpUndisturbed DEF Undisturbed, TypeOK, StoreTypeOK, DriverTypeOK, Goto, At, Return, locals, storeVars
<1>1. CASE ClaimStep(e)
  BY <1>1 DEF ClaimStep, AcquireClaim, ClaimedPc, Acquire, TakeLock, LockedPc, Exit, Release
<1>2. CASE SuspendStep(e)
  <2>1. CASE SuspendGet(e)
    BY <2>1 DEF SuspendGet, Get
  <2>2. CASE RevertGet(e) \/ RevertTransition(e)
    <3>1. /\ pc[e] \in RevertGets => RevertAttempt[pc[e]] # "sTrans"
          /\ pc[e] \in RevertTranss => RevertRetry[pc[e]] # "sTrans"
      BY DEF RevertGets, RevertTranss, RevertAttempt, RevertRetry
    <3>2. QED
      BY <2>2, <3>1 DEF RevertGet, RevertTransition, Get, TransitionClaimed
  <2>3. CASE TakeReply(e) \/ SuspendStall(e) \/ SuspendWedged(e) \/ SuspendBail(e) \/ GuardEpisode(e)
             \/ SuspendExit(e) \/ LateGet(e)
    BY <2>3 DEF TakeReply, ReplyPc, SuspendStall, SuspendWedged, SuspendBail, GuardEpisode, SuspendExit, LateGet, ExitPc
  <2>4. CASE SetSuspended(e) \/ EndSuspended(e) \/ SetError(e) \/ EndErrored(e) \/ LateFlip(e)
    BY <2>4 DEF SetSuspended, EndSuspended, SetError, EndErrored, LateFlip, ExitPc, EndLiveContainer,
                SetSuspendedStatus, SetErrorStatus, ReconcileSuspendedAfterError, GuardStatus
  <2>5. QED
    BY <1>2, <2>1, <2>2, <2>3, <2>4 DEF SuspendStep
<1>3. CASE ResumeStep(e)
  <2>1. CASE StartEpisode(e) \/ ResumeRead(e) \/ ResumeTransition(e)
    BY <2>1 DEF StartEpisode, ResumeRead, ResumeTransition, ClaimStarting, Get, TransitionClaimed
  <2>2. CASE RevertSuspended(e) \/ EndReverted(e) \/ SetActive(e) \/ ActivateContainer(e)
    BY <2>2 DEF RevertSuspended, EndReverted, SetActive, ActivateContainer, EndLiveContainer,
                RevertSuspendedStatus, SetActiveStatus, SetActiveContainer, GuardStatus
  <2>3. CASE ResumeGet(e) \/ FailResume(e) \/ Provision(e) \/ ProvisionDone(e) \/ ResumeStall(e)
             \/ ResumeBail(e) \/ ActivateFailed(e)
    BY <2>3 DEF ResumeGet, FailResume, Provision, ProvisionDone, ResumeStall, ResumeBail, ActivateFailed, FailPc
  <2>4. QED
    BY <1>3, <2>1, <2>2, <2>3 DEF ResumeStep
<1>4. CASE LockedStep(e)
  BY <1>4 DEF LockedStep, FenceOld, MarkDeleted, EndDeleted, MarkDeletedStatus, GuardStatus, EndLiveContainer
<1>5. CASE (\E o \in Ops : Begin(e, o)) \/ BeginLate(e) \/ ProvisionReturn(e) \/ ClaimHeartbeat(e)
           \/ ClientDisconnect(e)
  BY <1>5 DEF Begin, BeginLate, StartDriver, ProvisionReturn, ClaimHeartbeat, HeartbeatClaim, ClientDisconnect
<1>6. QED
  BY <1>1, <1>2, <1>3, <1>4, <1>5 DEF DriverAction, DriverStep

\* Nodes, receive loops, time and restarts never write "suspending".
LEMMA OtherReads ==
  ASSUME TypeOK, OtherAction \/ CPRestart
  PROVE  /\ \A d \in Drivers : Undisturbed(d)
         /\ status' = "suspending" => status = "suspending"
<1> USE BumpUndisturbed DEF Undisturbed, storeVars
<1>1. CASE \E m \in toNode : NodeMessage(m)
  BY <1>1 DEF NodeMessage, NodeStart, NodeStop, NodeSuspend
<1>2. CASE \E f \in fin : NodeFinishSuspend(f)
  BY <1>2 DEF NodeFinishSuspend
<1>3. CASE \E m \in toCP : RecvMessage(m)
  BY <1>3 DEF RecvMessage, RecvStatus, RecvSuspendComplete, RecvInventory, AdoptContainer
<1>4. CASE \E n \in Nodes : NodeStep(n) \/ NodePodDies(n) \/ NodeHeartbeat(n) \/ NodeDown(n) \/ NodeUp(n)
  BY <1>4 DEF NodeStep, NodeCommit, NodeReady, NodeStartFails, NodePodDies, NodeHeartbeat, NodeDown, NodeUp
<1>5. CASE \E n \in Nodes : LoopStep(n)
  BY <1>5 DEF LoopStep, Deliver, MarkReachable, MarkReachableStatus, MarkLost, MarkDropped, MarkUnreachable, GuardStatus
<1>6. CASE LeaseExpires \/ CPRestart
  BY <1>6 DEF LeaseExpires, ExpireLease, CPRestart, MarkBootUnreachable
<1>7. QED
  BY <1>1, <1>2, <1>3, <1>4, <1>5, <1>6 DEF OtherAction

\* One step keeps ReadActive, and enters Suspending only from Active.
LEMMA SuspendFromActiveStep ==
  ASSUME Inv, ReadActive, [Next]_vars
  PROVE  /\ ReadActive'
         /\ status' = "suspending" => status \in {"suspending", "active"}
<1> USE DEF Inv
<1>1. ASSUME NEW e \in Drivers, DriverAction(e), ~SuspendTransition(e)
      PROVE  ReadActive' /\ (status' = "suspending" => status = "suspending")
  <2>1. \A d \in Drivers \ {e} : pc'[d] = pc[d] /\ Undisturbed(d)
    BY <1>1, DriverFrame, DriverReads
  <2>2. /\ status' = "suspending" => status = "suspending"
        /\ pc'[e] = "sTrans" => seen'[e] = "active" \/ (pc[e] = "sTrans" /\ seen'[e] \in {Stale, seen[e]})
    BY <1>1, DriverReads
  <2>3. QED
    BY <2>1, <2>2 DEF ReadActive, Undisturbed
<1>2. ASSUME NEW e \in Drivers, SuspendTransition(e)
      PROVE  ReadActive' /\ (status' = "suspending" => status \in {"suspending", "active"})
  <2>1. CASE TransitionClaimed(e, gen[e], "suspending")
    <3>1. seen[e] = status /\ seen[e] = "active"
      BY <1>2, <2>1 DEF SuspendTransition, At, TransitionClaimed, TransitionAllowed, ReadActive,
                        StoreInv, SeqFencesStatus
    <3>2. ReadActive'
      BY <2>1 DEF TransitionClaimed, BumpSeq, ReadActive
    <3>3. QED
      BY <3>1, <3>2
  <2>2. CASE ~TransitionClaimed(e, gen[e], "suspending")
    BY <1>2, <2>2 DEF SuspendTransition, storeVars, Goto, ReadActive, TypeOK, DriverTypeOK
  <2>3. QED
    BY <2>1, <2>2
<1>3. CASE OtherAction
  BY <1>3, OtherFrame, OtherReads DEF ReadActive, Undisturbed
<1>4. CASE CPRestart
  <2>1. ReadActive'
    BY <1>4 DEF CPRestart, At, ReadActive
  <2>2. status' = "suspending" => status = "suspending"
    BY <1>4 DEF CPRestart, MarkBootUnreachable
  <2>3. QED
    BY <2>1, <2>2
<1>5. CASE UNCHANGED vars
  BY <1>5 DEF vars, storeVars, drvVars, ReadActive
<1>6. QED
  BY <1>1, <1>2, <1>3, <1>4, <1>5, NextCases

\* suspendLocked's TransitionClaimed needs no status predicate: the sequence
\* number it passes proves the row is still Active, under every interleaving and
\* every fault, lease expiry and lost leases included.
THEOREM SuspendsOnlyActive == Spec => SuspendingFromActive
<1>1. Init => ReadActive
  <2>1. SUFFICES ASSUME Init, NEW d \in Drivers PROVE pc[d] # "sTrans"
    BY DEF ReadActive
  <2>2. PICK creator \in Drivers : pc = [e \in Drivers |-> IF e = creator THEN "lock" ELSE "idle"]
    BY <2>1 DEF Init
  <2>3. QED
    BY <2>2
<1>2. Inv /\ ReadActive /\ [Next]_vars => ReadActive'
  BY SuspendFromActiveStep
<1>3. Inv /\ ReadActive /\ [Next]_vars => [status' = "suspending" => status = "active"]_status
  BY SuspendFromActiveStep
<1>4. QED
  BY <1>1, <1>2, <1>3, Invariant, PTL DEF Spec, SuspendingFromActive

-----------------------------------------------------------------------------
(* Dormant spawns *)

\* Of the locals, a driver's context and generation are its own, too.
LEMMA DriverLocals ==
  ASSUME TypeOK, NEW d \in Drivers, NEW e \in Drivers, d # e, DriverAction(e)
  PROVE  cut'[d] = cut[d] /\ gen'[d] = gen[d]
<1> USE DEF TypeOK, DriverTypeOK, Return, locals
<1>1. CASE ClaimStep(e)
  BY <1>1 DEF ClaimStep, AcquireClaim, TakeLock, Exit
<1>2. CASE SuspendStep(e)
  BY <1>2 DEF SuspendStep, SuspendGet, SuspendTransition, TakeReply, SuspendStall, SuspendWedged, SuspendBail,
              RevertGet, RevertTransition, GuardEpisode, SetSuspended, EndSuspended, SuspendExit,
              SetError, EndErrored, LateGet, LateFlip
<1>3. CASE ResumeStep(e)
  BY <1>3 DEF ResumeStep, ResumeGet, StartEpisode, ResumeRead, ResumeTransition, FailResume, RevertSuspended,
              EndReverted, Provision, ProvisionDone, ResumeStall, ResumeBail, SetActive,
              ActivateContainer, ActivateFailed
<1>4. CASE LockedStep(e)
  BY <1>4 DEF LockedStep, FenceOld, MarkDeleted, EndDeleted
<1>5. CASE (\E o \in Ops : Begin(e, o)) \/ BeginLate(e) \/ ProvisionReturn(e) \/ ClaimHeartbeat(e)
           \/ ClientDisconnect(e)
  BY <1>5 DEF Begin, BeginLate, StartDriver, ProvisionReturn, ClaimHeartbeat, ClientDisconnect
<1>6. QED
  BY <1>1, <1>2, <1>3, <1>4, <1>5 DEF DriverAction, DriverStep

\* Nodes, receive loops and time do not touch them either.
LEMMA OtherLocals ==
  ASSUME TypeOK, OtherAction
  PROVE  UNCHANGED <<cut, gen>>
<1> USE DEF drvVars, locals
<1>1. CASE \E m \in toNode : NodeMessage(m)
  BY <1>1 DEF NodeMessage, NodeStart, NodeStop, NodeSuspend
<1>2. CASE \E f \in fin : NodeFinishSuspend(f)
  BY <1>2 DEF NodeFinishSuspend
<1>3. CASE \E m \in toCP : RecvMessage(m)
  BY <1>3 DEF RecvMessage, RecvStatus, RecvSuspendComplete, RecvInventory
<1>4. CASE \E n \in Nodes : NodeStep(n) \/ NodePodDies(n) \/ NodeHeartbeat(n) \/ NodeDown(n) \/ NodeUp(n)
  BY <1>4 DEF NodeStep, NodeCommit, NodeReady, NodeStartFails, NodePodDies, NodeHeartbeat, NodeDown, NodeUp
<1>5. CASE \E n \in Nodes : LoopStep(n)
  BY <1>5 DEF LoopStep, Deliver, MarkReachable, MarkLost, MarkDropped
<1>6. CASE LeaseExpires
  BY <1>6 DEF LeaseExpires
<1>7. QED
  BY <1>1, <1>2, <1>3, <1>4, <1>5, <1>6 DEF OtherAction

\* endLiveContainer leaves no live row.
LEMMA EndedNone ==
  ASSUME StoreTypeOK, NEW p \in EndedPhases, EndLiveContainer(p)
  PROVE  LiveGens' = {}
<1>1. /\ DOMAIN EndAll(containers, p) = 1 .. Len(containers)
      /\ \A g \in 1 .. Len(containers) : ~IsLive(EndAll(containers, p)[g])
  BY EndAllProperties DEF StoreTypeOK
<1>2. QED
  BY <1>1 DEF EndLiveContainer, LiveGens

\* The statements on one container row end nothing and revive nothing.
LEMMA RowKept ==
  ASSUME StoreTypeOK, NEW g \in LiveGens, NEW n, SetActiveContainer(g, n) \/ AdoptContainer(g, n)
  PROVE  LiveGens' = LiveGens
<1>1. DOMAIN containers = 1 .. Len(containers) /\ \A h \in DOMAIN containers : containers[h] \in Container
  BY ElementOfSeq, LenProperties DEF StoreTypeOK
<1>2. DOMAIN containers' = DOMAIN containers
  BY DEF SetActiveContainer, AdoptContainer
<1>3. \A h \in DOMAIN containers : h # g => containers'[h] = containers[h]
  BY DEF SetActiveContainer, AdoptContainer
<1>4. IsLive(containers[g]) /\ IsLive(containers'[g])
  <2>1. g \in DOMAIN containers /\ IsLive(containers[g])
    BY DEF LiveGens
  <2>2. CASE SetActiveContainer(g, n)
    BY <2>1, <2>2 DEF SetActiveContainer, IsLive, EndedPhases
  <2>3. CASE AdoptContainer(g, n)
    BY <1>1, <2>1, <2>3 DEF AdoptContainer, IsLive, Container
  <2>4. QED
    BY <2>1, <2>2, <2>3
<1>5. QED
  BY <1>2, <1>3, <1>4 DEF LiveGens

\* recreate and stop run even the second statement of SetError and MarkDeleted
\* under the request's context; a driver of another operation detaches from it.
RequestOps == {"recreate", "stop"}
CutAt(d) ==
  /\ cut[d] => op[d] \notin RequestOps
  /\ pc[d] = "idle" => ~cut[d]
  /\ op[d] \in RequestOps => op[d] \in Ops
  /\ pc[d] \in {"xFence", "xDel1", "xDel2"} => op[d] = "stop"
CutInv == \A d \in Drivers : CutAt(d)

\* No client abandons a recreate or a stop.
RequestsKept == "disconnect" \in Faults => Ops \cap RequestOps = {}

\* A driver's own step keeps its part of CutInv.
LEMMA OwnCut ==
  ASSUME TypeOK, RequestsKept, NEW e \in Drivers, CutAt(e), DriverAction(e)
  PROVE  CutAt(e)'
<1> USE DEF TypeOK, DriverTypeOK, Goto, At, Return, locals, CutAt, RequestOps
<1>1. CASE ClaimStep(e)
  <2>1. CASE AcquireClaim(e)
    BY <2>1 DEF AcquireClaim, ClaimedPc
  <2>2. CASE TakeLock(e)
    BY <2>2 DEF TakeLock, LockedPc
  <2>3. CASE Exit(e)
    BY <2>3 DEF Exit
  <2>4. QED
    BY <1>1, <2>1, <2>2, <2>3 DEF ClaimStep
<1>2. CASE SuspendStep(e)
  <2>1. CASE RevertGet(e) \/ RevertTransition(e)
    <3>1. /\ pc[e] \in RevertGets => RevertAttempt[pc[e]] \notin {"idle", "xFence", "xDel1", "xDel2"}
          /\ pc[e] \in RevertTranss => RevertRetry[pc[e]] \notin {"idle", "xFence", "xDel1", "xDel2"}
      BY DEF RevertGets, RevertTranss, RevertAttempt, RevertRetry
    <3>2. QED
      BY <2>1, <3>1 DEF RevertGet, RevertTransition
  <2>2. CASE EndSuspended(e)
    BY <2>2 DEF EndSuspended
  <2>3. CASE SuspendGet(e) \/ SuspendTransition(e) \/ TakeReply(e) \/ SuspendStall(e) \/ SuspendWedged(e)
             \/ SuspendBail(e)
    BY <2>3 DEF SuspendGet, SuspendTransition, TakeReply, ReplyPc, SuspendStall, SuspendWedged, SuspendBail, ExitPc
  <2>4. CASE GuardEpisode(e) \/ SetSuspended(e) \/ SuspendExit(e) \/ SetError(e) \/ EndErrored(e)
             \/ LateGet(e) \/ LateFlip(e)
    BY <2>4 DEF GuardEpisode, SetSuspended, SuspendExit, SetError, EndErrored, LateGet, LateFlip, ExitPc
  <2>5. QED
    BY <1>2, <2>1, <2>2, <2>3, <2>4 DEF SuspendStep
<1>3. CASE ResumeStep(e)
  BY <1>3 DEF ResumeStep, ResumeGet, StartEpisode, ResumeRead, ResumeTransition, FailResume, RevertSuspended,
              EndReverted, Provision, ProvisionDone, ResumeStall, ResumeBail, SetActive,
              ActivateContainer, ActivateFailed, FailPc
<1>4. CASE LockedStep(e)
  BY <1>4 DEF LockedStep, FenceOld, MarkDeleted, EndDeleted
<1>5. CASE \E o \in Ops : Begin(e, o)
  BY <1>5, OpsAssumption DEF Begin, StartDriver
<1>6. CASE BeginLate(e) \/ ProvisionReturn(e)
  BY <1>6 DEF BeginLate, StartDriver, ProvisionReturn
<1>7. CASE ClaimHeartbeat(e)
  BY <1>7 DEF ClaimHeartbeat, Claiming, ClaimOps
<1>8. CASE ClientDisconnect(e)
  BY <1>8 DEF ClientDisconnect, RequestsKept
<1>9. QED
  BY <1>1, <1>2, <1>3, <1>4, <1>5, <1>6, <1>7, <1>8 DEF DriverAction, DriverStep

\* Every step that is not a restart keeps CutInv.
LEMMA StepCut ==
  ASSUME TypeOK, RequestsKept, CutInv, [Next]_vars, ~CPRestart
  PROVE  CutInv'
<1>1. ASSUME NEW e \in Drivers, DriverAction(e) PROVE CutInv'
  <2>1. \A d \in Drivers \ {e} : cut'[d] = cut[d] /\ pc'[d] = pc[d] /\ op'[d] = op[d]
    BY <1>1, DriverFrame, DriverLocals
  <2>2. CutAt(e)'
    BY <1>1, OwnCut DEF CutInv
  <2>3. QED
    BY <2>1, <2>2 DEF CutInv, CutAt
<1>2. CASE OtherAction
  BY <1>2, OtherFrame, OtherLocals DEF CutInv, CutAt
<1>3. CASE UNCHANGED vars
  BY <1>3 DEF vars, drvVars, locals, CutInv, CutAt
<1>4. QED
  BY <1>1, <1>2, <1>3, NextCases

Dormant == {"suspended", "errored", "deleted"}

\* A step of a driver leads out of the dormant states, or into one with the
\* trailing endLiveContainer still to come, or ends the live row; otherwise the
\* spawn was dormant before and no row became live.
DormantStep(e) ==
  \/ status' \notin Dormant
  \/ pc'[e] \in EndPcs
  \/ LiveGens' = {}
  \/ status \in Dormant /\ LiveGens' = LiveGens /\ pc[e] \notin EndPcs

\* Every step of a driver is of this kind.
LEMMA DriverDormant ==
  ASSUME TypeOK, CutInv, NEW e \in Drivers, DriverAction(e)
  PROVE  DormantStep(e)
<1> USE DEF TypeOK, DriverTypeOK, Goto, At, Return, locals, storeVars, DormantStep, EndPcs, Dormant
<1>0. containers' = containers => LiveGens' = LiveGens
  BY DEF LiveGens
<1>1. CASE ClaimStep(e)
  BY <1>0, <1>1 DEF ClaimStep, AcquireClaim, Acquire, TakeLock, Exit, Release
<1>2. CASE SuspendStep(e)
  <2>1. CASE EndSuspended(e)
    BY <2>1, EndedNone DEF EndSuspended, EndedPhases
  <2>2. CASE EndErrored(e)
    <3>1. StoreCtx(e)
      BY DEF StoreCtx, CutInv, CutAt, RequestOps
    <3>2. QED
      BY <2>2, <3>1, EndedNone DEF EndErrored, EndedPhases
  <2>3. CASE SuspendGet(e) \/ SuspendTransition(e) \/ RevertGet(e) \/ RevertTransition(e)
    BY <1>0, <2>3 DEF SuspendGet, SuspendTransition, RevertGet, RevertTransition, Get, TransitionClaimed,
                      RevertGets, RevertTranss
  <2>4. CASE TakeReply(e) \/ SuspendStall(e) \/ SuspendWedged(e) \/ SuspendBail(e) \/ GuardEpisode(e)
             \/ SuspendExit(e) \/ LateGet(e)
    BY <1>0, <2>4 DEF TakeReply, SuspendStall, SuspendWedged, SuspendBail, GuardEpisode, SuspendExit, LateGet
  <2>5. CASE SetSuspended(e) \/ SetError(e) \/ LateFlip(e)
    BY <1>0, <2>5 DEF SetSuspended, SetError, LateFlip, SetSuspendedStatus, SetErrorStatus,
                      ReconcileSuspendedAfterError, GuardStatus
  <2>6. QED
    BY <1>2, <2>1, <2>2, <2>3, <2>4, <2>5 DEF SuspendStep
<1>3. CASE ResumeStep(e)
  <2>1. CASE EndReverted(e)
    BY <2>1, EndedNone DEF EndReverted, EndedPhases
  <2>2. CASE ActivateContainer(e)
    <3>1. CASE SetActiveContainer(gen[e], target[e].node)
      <4>1. LiveGens' = LiveGens
        BY <3>1, RowKept DEF SetActiveContainer
      <4>2. QED
        BY <2>2, <3>1, <4>1 DEF ActivateContainer, SetActiveContainer
    <3>2. CASE UNCHANGED storeVars
      BY <1>0, <2>2, <3>2 DEF ActivateContainer
    <3>3. QED
      BY <2>2, <3>1, <3>2 DEF ActivateContainer
  <2>3. CASE StartEpisode(e) \/ ResumeRead(e) \/ ResumeTransition(e)
    BY <1>0, <2>3 DEF StartEpisode, ResumeRead, ResumeTransition, ClaimStarting, Get, TransitionClaimed
  <2>4. CASE RevertSuspended(e) \/ SetActive(e)
    BY <1>0, <2>4 DEF RevertSuspended, SetActive, RevertSuspendedStatus, SetActiveStatus, GuardStatus
  <2>5. CASE ResumeGet(e) \/ FailResume(e) \/ Provision(e) \/ ProvisionDone(e) \/ ResumeStall(e)
             \/ ResumeBail(e) \/ ActivateFailed(e)
    BY <1>0, <2>5 DEF ResumeGet, FailResume, Provision, ProvisionDone, ResumeStall, ResumeBail, ActivateFailed
  <2>6. QED
    BY <1>3, <2>1, <2>2, <2>3, <2>4, <2>5 DEF ResumeStep
<1>4. CASE LockedStep(e)
  <2>1. CASE EndDeleted(e)
    <3>1. Ctx(e)
      BY <2>1 DEF EndDeleted, Ctx, CutInv, CutAt, RequestOps
    <3>2. QED
      BY <2>1, <3>1, EndedNone DEF EndDeleted, EndedPhases
  <2>2. CASE FenceOld(e) \/ MarkDeleted(e)
    BY <1>0, <2>2 DEF FenceOld, MarkDeleted, MarkDeletedStatus, GuardStatus
  <2>3. QED
    BY <1>4, <2>1, <2>2 DEF LockedStep
<1>5. CASE (\E o \in Ops : Begin(e, o)) \/ BeginLate(e) \/ ProvisionReturn(e) \/ ClaimHeartbeat(e)
           \/ ClientDisconnect(e)
  <2>1. status' = status /\ containers' = containers
    BY <1>5 DEF Begin, BeginLate, ProvisionReturn, ClaimHeartbeat, HeartbeatClaim, ClientDisconnect
  <2>2. pc'[e] = pc[e] \/ pc[e] = "idle"
    BY <1>5 DEF Begin, BeginLate, StartDriver, ProvisionReturn, ClaimHeartbeat, ClientDisconnect
  <2>3. QED
    BY <1>0, <2>1, <2>2
<1>6. QED
  BY <1>1, <1>2, <1>3, <1>4, <1>5 DEF DriverAction, DriverStep

\* Nodes, receive loops and time wake a spawn up or leave it as it is.
LEMMA OtherDormant ==
  ASSUME TypeOK, OtherAction
  PROVE  status' \notin Dormant \/ (status' = status /\ LiveGens' = LiveGens)
<1> USE DEF storeVars, Dormant
<1>0. containers' = containers => LiveGens' = LiveGens
  BY DEF LiveGens
<1>1. CASE \E m \in toNode : NodeMessage(m)
  BY <1>0, <1>1 DEF NodeMessage, NodeStart, NodeStop, NodeSuspend
<1>2. CASE \E f \in fin : NodeFinishSuspend(f)
  BY <1>0, <1>2 DEF NodeFinishSuspend
<1>3. ASSUME NEW m \in toCP, RecvMessage(m) PROVE status' = status /\ LiveGens' = LiveGens
  <2>1. CASE AdoptContainer(m.gen, m.node)
    <3>1. LiveGens' = LiveGens
      BY <2>1, RowKept DEF AdoptContainer, TypeOK
    <3>2. QED
      BY <2>1, <3>1 DEF AdoptContainer
  <2>2. CASE UNCHANGED storeVars
    BY <1>0, <2>2
  <2>3. QED
    BY <1>3, <2>1, <2>2 DEF RecvMessage, RecvStatus, RecvSuspendComplete, RecvInventory
<1>4. CASE \E n \in Nodes : NodeStep(n) \/ NodePodDies(n) \/ NodeHeartbeat(n) \/ NodeDown(n) \/ NodeUp(n)
  BY <1>0, <1>4 DEF NodeStep, NodeCommit, NodeReady, NodeStartFails, NodePodDies, NodeHeartbeat, NodeDown, NodeUp
<1>5. CASE \E n \in Nodes : LoopStep(n)
  BY <1>0, <1>5 DEF LoopStep, Deliver, MarkReachable, MarkReachableStatus, MarkLost, MarkDropped, MarkUnreachable,
                    GuardStatus
<1>6. CASE LeaseExpires
  BY <1>0, <1>6 DEF LeaseExpires, ExpireLease
<1>7. QED
  BY <1>1, <1>2, <1>3, <1>4, <1>5, <1>6 DEF OtherAction

\* SetSuspended, SetError, MarkDeleted and RevertSuspended are two statements
\* each; whatever runs in between, a spawn that rests has no live container row
\* left behind, for any drivers, nodes, generations, lease expiries, broken
\* streams and dying agents.  It needs the process to survive and the request of
\* a recreate or a stop not to be abandoned between the two statements.
THEOREM DormantEnded ==
  ASSUME "crash" \notin Faults, RequestsKept
  PROVE  Spec => []DormantHasNoEpisode
<1>1. Init => CutInv /\ DormantHasNoEpisode
  <2> SUFFICES ASSUME Init PROVE CutInv /\ DormantHasNoEpisode
    OBVIOUS
  <2>1. PICK creator \in Drivers : pc = [e \in Drivers |-> IF e = creator THEN "lock" ELSE "idle"]
    BY DEF Init
  <2>2. CutInv
    BY <2>1 DEF Init, CutInv, CutAt, RequestOps
  <2>3. DormantHasNoEpisode
    BY DEF Init, StoreInit, DormantHasNoEpisode
  <2>4. QED
    BY <2>2, <2>3
<1>2. Inv /\ CutInv /\ DormantHasNoEpisode /\ [Next]_vars => CutInv' /\ DormantHasNoEpisode'
  <2> SUFFICES ASSUME Inv, CutInv, DormantHasNoEpisode, [Next]_vars PROVE CutInv' /\ DormantHasNoEpisode'
    OBVIOUS
  <2> USE DEF Inv
  <2>1. ~CPRestart
    BY DEF CPRestart
  <2>2. CutInv'
    BY <2>1, StepCut
  <2>3. ASSUME NEW e \in Drivers, DriverAction(e) PROVE DormantHasNoEpisode'
    <3>1. \A d \in Drivers \ {e} : pc'[d] = pc[d]
      BY <2>3, DriverFrame
    <3>2. DormantStep(e)
      BY <2>3, DriverDormant
    <3>3. SUFFICES ASSUME Settled', status' \in Dormant PROVE LiveGens' = {}
      BY DEF DormantHasNoEpisode, Dormant
    <3>4. pc'[e] \notin EndPcs
      BY <3>3 DEF Settled
    <3>5. CASE status \in Dormant /\ LiveGens' = LiveGens /\ pc[e] \notin EndPcs
      <4>1. Settled
        BY <3>1, <3>3, <3>5 DEF Settled
      <4>2. QED
        BY <3>5, <4>1 DEF DormantHasNoEpisode, Dormant
    <3>6. QED
      BY <3>2, <3>3, <3>4, <3>5 DEF DormantStep
  <2>4. CASE OtherAction
    <3>1. pc' = pc
      BY <2>4, OtherFrame
    <3>2. QED
      BY <2>2, <2>4, <3>1, OtherDormant DEF DormantHasNoEpisode, Settled, Dormant
  <2>5. CASE UNCHANGED vars
    BY <2>2, <2>5 DEF vars, storeVars, drvVars, DormantHasNoEpisode, Settled, LiveGens
  <2>6. QED
    BY <2>1, <2>2, <2>3, <2>4, <2>5, NextCases
<1>3. QED
  BY <1>1, <1>2, Invariant, PTL DEF Spec

-----------------------------------------------------------------------------
(* Transient statuses *)

\* While no lease expires and no client leaves, no context is cancelled: the
\* heartbeat of a claim finds its own lease.
NoCut == \A d \in Drivers : ~cut[d]

\* Every step keeps contexts alive.
LEMMA StepNoCut ==
  ASSUME "disconnect" \notin Faults, TypeOK, ClaimExclusive, NoCut, [Next]_vars
  PROVE  NoCut'
<1>1. ASSUME NEW e \in Drivers, DriverAction(e) PROVE NoCut'
  <2> USE DEF TypeOK, DriverTypeOK, Return, locals
  <2>1. ~cut[e] /\ (Claiming(e) => claim = e)
    BY DEF NoCut, ClaimExclusive
  <2>2. ~cut'[e]
    <3>1. CASE ClaimStep(e)
      BY <2>1, <3>1 DEF ClaimStep, AcquireClaim, TakeLock, Exit
    <3>2. CASE SuspendStep(e)
      BY <2>1, <3>2
         DEF SuspendStep, SuspendGet, SuspendTransition, TakeReply, SuspendStall, SuspendWedged, SuspendBail,
             RevertGet, RevertTransition, GuardEpisode, SetSuspended, EndSuspended, SuspendExit,
             SetError, EndErrored, LateGet, LateFlip
    <3>3. CASE ResumeStep(e)
      BY <2>1, <3>3
         DEF ResumeStep, ResumeGet, StartEpisode, ResumeRead, ResumeTransition, FailResume, RevertSuspended,
             EndReverted, Provision, ProvisionDone, ResumeStall, ResumeBail, SetActive,
             ActivateContainer, ActivateFailed
    <3>4. CASE LockedStep(e)
      BY <2>1, <3>4 DEF LockedStep, FenceOld, MarkDeleted, EndDeleted
    <3>5. CASE (\E o \in Ops : Begin(e, o)) \/ BeginLate(e) \/ ProvisionReturn(e)
      BY <2>1, <3>5 DEF Begin, BeginLate, StartDriver, ProvisionReturn
    <3>6. CASE ClaimHeartbeat(e) \/ ClientDisconnect(e)
      BY <2>1, <3>6 DEF ClaimHeartbeat, ClientDisconnect
    <3>7. QED
      BY <1>1, <3>1, <3>2, <3>3, <3>4, <3>5, <3>6 DEF DriverAction, DriverStep
  <2>3. QED
    BY <1>1, <2>2, DriverLocals DEF NoCut
<1>2. CASE OtherAction
  BY <1>2, OtherLocals DEF NoCut
<1>3. CASE CPRestart
  BY <1>3 DEF CPRestart, NoCut
<1>4. CASE UNCHANGED vars
  BY <1>4 DEF vars, drvVars, locals, NoCut
<1>5. QED
  BY <1>1, <1>2, <1>3, <1>4, NextCases

\* The control points of suspendLocked and of resumeLocked with failResume belong
\* to their operations; a migration changes its name between the two.
SuspendPoints == {"sGet", "sTrans", "sWait", "sDrain", "susp0", "susp1", "susp2"} \cup RevertGets \cup RevertTranss
ResumePoints == {"rGet", "rClaim", "rRead", "rTrans", "fail", "rev0", "rev1", "rev2"}
OpAt(d) ==
  /\ pc[d] = "acquire" => op[d] \in ClaimOps
  /\ pc[d] \in {"cFence", "cClaim"} => op[d] = "recreate"
  /\ pc[d] \in {"prov", "wait", "act1", "act2", "actFail"} => op[d] # "migrate"
  /\ pc[d] \in SuspendPoints => op[d] \in SuspendOps
  /\ pc[d] \in ResumePoints => op[d] \in {"resume", "relocate"}
OpInv == \A d \in Drivers : OpAt(d)

\* A driver's own step keeps its part of OpInv.
LEMMA OwnOp ==
  ASSUME TypeOK, NEW e \in Drivers, OpAt(e), DriverAction(e)
  PROVE  OpAt(e)'
<1> USE DEF TypeOK, DriverTypeOK, Goto, At, Return, locals, OpAt
<1> USE DEF SuspendPoints, ResumePoints, RevertGets, RevertTranss, SuspendOps
<1>1. CASE ClaimStep(e)
  <2>1. CASE AcquireClaim(e)
    BY <2>1 DEF AcquireClaim, ClaimedPc, ClaimOps
  <2>2. CASE TakeLock(e)
    BY <2>2 DEF TakeLock, LockedPc
  <2>3. CASE Exit(e)
    BY <2>3 DEF Exit
  <2>4. QED
    BY <1>1, <2>1, <2>2, <2>3 DEF ClaimStep
<1>2. CASE SuspendStep(e)
  <2>1. CASE RevertGet(e) \/ RevertTransition(e)
    <3>1. /\ pc[e] \in RevertGets => RevertAttempt[pc[e]] \in RevertTranss
          /\ pc[e] \in RevertTranss => RevertRetry[pc[e]] \in RevertGets \cup {"sExit"}
      BY DEF RevertAttempt, RevertRetry
    <3>2. QED
      BY <2>1, <3>1 DEF RevertGet, RevertTransition
  <2>2. CASE EndSuspended(e) \/ SuspendExit(e)
    BY <2>2 DEF EndSuspended, SuspendExit
  <2>3. CASE SuspendGet(e) \/ SuspendTransition(e) \/ TakeReply(e) \/ SuspendStall(e) \/ SuspendWedged(e)
             \/ SuspendBail(e)
    BY <2>3 DEF SuspendGet, SuspendTransition, TakeReply, ReplyPc, SuspendStall, SuspendWedged, SuspendBail, ExitPc
  <2>4. CASE GuardEpisode(e) \/ SetSuspended(e) \/ SetError(e) \/ EndErrored(e) \/ LateGet(e) \/ LateFlip(e)
    BY <2>4 DEF GuardEpisode, SetSuspended, SetError, EndErrored, LateGet, LateFlip, ExitPc
  <2>5. QED
    BY <1>2, <2>1, <2>2, <2>3, <2>4 DEF SuspendStep
<1>3. CASE ResumeStep(e)
  <2>1. CASE StartEpisode(e)
    BY <2>1 DEF StartEpisode, ResumeOps, MigrateOps
  <2>2. CASE ResumeGet(e) \/ ResumeRead(e) \/ ResumeTransition(e) \/ FailResume(e) \/ RevertSuspended(e)
             \/ EndReverted(e) \/ SetActive(e) \/ ActivateContainer(e)
    BY <2>2 DEF ResumeGet, ResumeRead, ResumeTransition, FailResume, RevertSuspended, EndReverted, SetActive,
                ActivateContainer
  <2>3. CASE Provision(e) \/ ProvisionDone(e) \/ ResumeStall(e) \/ ResumeBail(e) \/ ActivateFailed(e)
    BY <2>3 DEF Provision, ProvisionDone, ResumeStall, ResumeBail, ActivateFailed, FailPc, ResumeOps, MigrateOps
  <2>4. QED
    BY <1>3, <2>1, <2>2, <2>3 DEF ResumeStep
<1>4. CASE LockedStep(e)
  BY <1>4 DEF LockedStep, FenceOld, MarkDeleted, EndDeleted
<1>5. CASE (\E o \in Ops : Begin(e, o)) \/ BeginLate(e) \/ ProvisionReturn(e) \/ ClaimHeartbeat(e)
           \/ ClientDisconnect(e)
  BY <1>5, OpsAssumption
     DEF Begin, BeginLate, StartDriver, ProvisionReturn, ClaimHeartbeat, ClientDisconnect, ClaimOps, LockOps
<1>6. QED
  BY <1>1, <1>2, <1>3, <1>4, <1>5 DEF DriverAction, DriverStep

\* Every step keeps OpInv.
LEMMA StepOp ==
  ASSUME TypeOK, OpInv, [Next]_vars
  PROVE  OpInv'
<1>1. ASSUME NEW e \in Drivers, DriverAction(e) PROVE OpInv'
  <2>1. \A d \in Drivers \ {e} : pc'[d] = pc[d] /\ op'[d] = op[d]
    BY <1>1, DriverFrame
  <2>2. OpAt(e)'
    BY <1>1, OwnOp DEF OpInv
  <2>3. QED
    BY <2>1, <2>2 DEF OpInv, OpAt
<1>2. CASE OtherAction
  BY <1>2, OtherFrame DEF OpInv, OpAt
<1>3. CASE CPRestart
  BY <1>3 DEF CPRestart, At, OpInv, OpAt, SuspendPoints, ResumePoints, RevertGets, RevertTranss
<1>4. CASE UNCHANGED vars
  BY <1>4 DEF vars, drvVars, locals, OpInv, OpAt
<1>5. QED
  BY <1>1, <1>2, <1>3, <1>4, NextCases

\* Only Active->Suspending leads into Suspending, only Starting->Resuming into
\* Resuming, and while the status stays Suspending no row becomes live.
LEMMA DriverTransient ==
  ASSUME TypeOK, NEW e \in Drivers, DriverAction(e)
  PROVE  /\ status' = "resuming" => status = "resuming" \/ (ResumeTransition(e) /\ pc'[e] = "prov")
         /\ status' = "suspending" => /\ LiveGens' \subseteq LiveGens
                                      /\ status = "suspending" \/ TransitionClaimed(e, gen[e], "suspending")
<1> USE DEF TypeOK, DriverTypeOK, Goto, At, locals, storeVars
<1>0. containers' = containers => LiveGens' = LiveGens
  BY DEF LiveGens
<1>1. CASE ClaimStep(e)
  BY <1>0, <1>1 DEF ClaimStep, AcquireClaim, Acquire, TakeLock, Exit, Release
<1>2. CASE SuspendStep(e)
  <2>1. CASE EndSuspended(e) \/ EndErrored(e)
    <3>1. status' = status /\ (LiveGens' = {} \/ containers' = containers)
      BY <2>1, EndedNone DEF EndSuspended, EndErrored, EndLiveContainer, EndedPhases
    <3>2. QED
      BY <1>0, <3>1
  <2>2. CASE SuspendGet(e) \/ SuspendTransition(e) \/ RevertGet(e) \/ RevertTransition(e)
    BY <1>0, <2>2 DEF SuspendGet, SuspendTransition, RevertGet, RevertTransition, Get, TransitionClaimed
  <2>3. CASE TakeReply(e) \/ SuspendStall(e) \/ SuspendWedged(e) \/ SuspendBail(e) \/ GuardEpisode(e)
             \/ SuspendExit(e) \/ LateGet(e)
    BY <1>0, <2>3 DEF TakeReply, SuspendStall, SuspendWedged, SuspendBail, GuardEpisode, SuspendExit, LateGet
  <2>4. CASE SetSuspended(e) \/ SetError(e) \/ LateFlip(e)
    BY <1>0, <2>4 DEF SetSuspended, SetError, LateFlip, SetSuspendedStatus, SetErrorStatus,
                      ReconcileSuspendedAfterError, GuardStatus
  <2>5. QED
    BY <1>2, <2>1, <2>2, <2>3, <2>4 DEF SuspendStep
<1>3. CASE ResumeStep(e)
  <2>1. CASE EndReverted(e)
    BY <2>1, EndedNone DEF EndReverted, EndLiveContainer, EndedPhases
  <2>2. CASE ActivateContainer(e)
    <3>1. status' = status /\ LiveGens' = LiveGens
      BY <1>0, <2>2, RowKept DEF ActivateContainer, SetActiveContainer
    <3>2. QED
      BY <3>1
  <2>3. CASE StartEpisode(e) \/ ResumeRead(e) \/ ResumeTransition(e)
    BY <1>0, <2>3 DEF StartEpisode, ResumeRead, ResumeTransition, ClaimStarting, Get, TransitionClaimed
  <2>4. CASE RevertSuspended(e) \/ SetActive(e)
    BY <1>0, <2>4 DEF RevertSuspended, SetActive, RevertSuspendedStatus, SetActiveStatus, GuardStatus
  <2>5. CASE ResumeGet(e) \/ FailResume(e) \/ Provision(e) \/ ProvisionDone(e) \/ ResumeStall(e)
             \/ ResumeBail(e) \/ ActivateFailed(e)
    BY <1>0, <2>5 DEF ResumeGet, FailResume, Provision, ProvisionDone, ResumeStall, ResumeBail, ActivateFailed
  <2>6. QED
    BY <1>3, <2>1, <2>2, <2>3, <2>4, <2>5 DEF ResumeStep
<1>4. CASE LockedStep(e)
  <2>1. CASE EndDeleted(e)
    <3>1. status' = status /\ (LiveGens' = {} \/ containers' = containers)
      BY <2>1, EndedNone DEF EndDeleted, EndLiveContainer, EndedPhases
    <3>2. QED
      BY <1>0, <3>1
  <2>2. CASE FenceOld(e) \/ MarkDeleted(e)
    BY <1>0, <2>2 DEF FenceOld, MarkDeleted, MarkDeletedStatus, GuardStatus
  <2>3. QED
    BY <1>4, <2>1, <2>2 DEF LockedStep
<1>5. CASE (\E o \in Ops : Begin(e, o)) \/ BeginLate(e) \/ ProvisionReturn(e) \/ ClaimHeartbeat(e)
           \/ ClientDisconnect(e)
  BY <1>0, <1>5 DEF Begin, BeginLate, ProvisionReturn, ClaimHeartbeat, HeartbeatClaim, ClientDisconnect
<1>6. QED
  BY <1>1, <1>2, <1>3, <1>4, <1>5 DEF DriverAction, DriverStep

\* The statements that outdate a read while the status stays Suspending all need
\* the lease, so the reads of its holder stay current.
LEMMA HolderReads ==
  ASSUME TypeOK, NEW d \in Drivers, NEW e \in Drivers, d # e, DriverAction(e),
         claim = d, ~expired, status' = "suspending"
  PROVE  seen'[d] = seen[d]
<1> USE LeaseAssumption DEF TypeOK, StoreTypeOK, locals, storeVars
<1>0. ClaimHeld
  BY DEF ClaimHeld
<1>1. CASE ClaimStep(e)
  BY <1>0, <1>1 DEF ClaimStep, AcquireClaim, Acquire, TakeLock, Exit, Release
<1>2. CASE SuspendStep(e)
  <2>1. CASE SuspendGet(e) \/ SuspendTransition(e) \/ RevertGet(e) \/ RevertTransition(e)
    BY <2>1 DEF SuspendGet, SuspendTransition, RevertGet, RevertTransition, Get, TransitionClaimed, TransitionAllowed
  <2>2. CASE TakeReply(e) \/ SuspendStall(e) \/ SuspendWedged(e) \/ SuspendBail(e) \/ GuardEpisode(e)
             \/ SuspendExit(e) \/ LateGet(e) \/ EndSuspended(e) \/ EndErrored(e)
    BY <2>2 DEF TakeReply, SuspendStall, SuspendWedged, SuspendBail, GuardEpisode, SuspendExit, LateGet,
                EndSuspended, EndErrored, EndLiveContainer
  <2>3. CASE SetSuspended(e) \/ SetError(e) \/ LateFlip(e)
    BY <2>3 DEF SetSuspended, SetError, LateFlip, SetSuspendedStatus, SetErrorStatus,
                ReconcileSuspendedAfterError, GuardStatus
  <2>4. QED
    BY <1>2, <2>1, <2>2, <2>3 DEF SuspendStep
<1>3. CASE ResumeStep(e)
  <2>1. CASE StartEpisode(e) \/ ResumeRead(e) \/ ResumeTransition(e)
    BY <2>1 DEF StartEpisode, ResumeRead, ResumeTransition, ClaimStarting, Get, TransitionClaimed, TransitionAllowed
  <2>2. CASE RevertSuspended(e) \/ SetActive(e) \/ EndReverted(e) \/ ActivateContainer(e)
    BY <2>2 DEF RevertSuspended, SetActive, RevertSuspendedStatus, SetActiveStatus, GuardStatus, EndReverted,
                EndLiveContainer, ActivateContainer, SetActiveContainer
  <2>3. CASE ResumeGet(e) \/ FailResume(e) \/ Provision(e) \/ ProvisionDone(e) \/ ResumeStall(e)
             \/ ResumeBail(e) \/ ActivateFailed(e)
    BY <2>3 DEF ResumeGet, FailResume, Provision, ProvisionDone, ResumeStall, ResumeBail, ActivateFailed
  <2>4. QED
    BY <1>3, <2>1, <2>2, <2>3 DEF ResumeStep
<1>4. CASE LockedStep(e)
  BY <1>4 DEF LockedStep, FenceOld, MarkDeleted, EndDeleted, MarkDeletedStatus, GuardStatus, EndLiveContainer
<1>5. CASE (\E o \in Ops : Begin(e, o)) \/ BeginLate(e) \/ ProvisionReturn(e) \/ ClaimHeartbeat(e)
           \/ ClientDisconnect(e)
  BY <1>5 DEF Begin, BeginLate, ProvisionReturn, ClaimHeartbeat, HeartbeatClaim, ClientDisconnect
<1>6. QED
  BY <1>1, <1>2, <1>3, <1>4, <1>5 DEF DriverAction, DriverStep

\* Nodes, receive loops and time enter no transient status, and leave the rows
\* and every read of a spawn that stays Suspending alone.
LEMMA OtherTransient ==
  ASSUME TypeOK, OtherAction
  PROVE  /\ status' = "resuming" => status = "resuming"
         /\ status' = "suspending" => status = "suspending" /\ LiveGens' = LiveGens /\ seen' = seen
<1> USE DEF storeVars
<1>0. containers' = containers => LiveGens' = LiveGens
  BY DEF LiveGens
<1>1. CASE \E m \in toNode : NodeMessage(m)
  BY <1>0, <1>1 DEF NodeMessage, NodeStart, NodeStop, NodeSuspend
<1>2. CASE \E f \in fin : NodeFinishSuspend(f)
  BY <1>0, <1>2 DEF NodeFinishSuspend
<1>3. ASSUME NEW m \in toCP, RecvMessage(m) PROVE status' = status /\ LiveGens' = LiveGens /\ seen' = seen
  <2>1. CASE AdoptContainer(m.gen, m.node)
    <3>1. LiveGens' = LiveGens
      BY <2>1, RowKept DEF AdoptContainer, TypeOK
    <3>2. QED
      BY <2>1, <3>1 DEF AdoptContainer
  <2>2. CASE UNCHANGED storeVars
    BY <1>0, <2>2
  <2>3. QED
    BY <1>3, <2>1, <2>2 DEF RecvMessage, RecvStatus, RecvSuspendComplete, RecvInventory
<1>4. CASE \E n \in Nodes : NodeStep(n) \/ NodePodDies(n) \/ NodeHeartbeat(n) \/ NodeDown(n) \/ NodeUp(n)
  BY <1>0, <1>4 DEF NodeStep, NodeCommit, NodeReady, NodeStartFails, NodePodDies, NodeHeartbeat, NodeDown, NodeUp
<1>5. CASE \E n \in Nodes : LoopStep(n)
  BY <1>0, <1>5 DEF LoopStep, Deliver, MarkReachable, MarkReachableStatus, MarkLost, MarkDropped, MarkUnreachable,
                    GuardStatus
<1>6. CASE LeaseExpires
  BY <1>0, <1>6 DEF LeaseExpires, ExpireLease
<1>7. QED
  BY <1>1, <1>2, <1>3, <1>4, <1>5, <1>6 DEF OtherAction

\* The owner of a Suspending spawn can finish: the live row is its episode, and
\* the read its revert will be fenced by is current.
SuspendHeld(d) ==
  /\ SuspendOwner(d)
  /\ LiveGens \subseteq {gen[d]}
  /\ pc[d] \in RevertTranss => seen[d] = "suspending"

\* Its own steps either resolve the status or leave it the owner.
LEMMA SuspendOwnStep ==
  ASSUME TypeOK, NEW d \in Drivers, SuspendHeld(d), ~cut[d], DriverAction(d),
         status = "suspending", status' = "suspending", LiveGens' # {}
  PROVE  SuspendHeld(d)'
<1> DEFINE Points == {"sWait", "sDrain", "susp0", "susp1", "err1"} \cup RevertGets \cup RevertTranss
<1>0. claim = d /\ op[d] \in SuspendOps /\ pc[d] \in Points /\ LiveGens' \subseteq LiveGens
  BY DriverTransient DEF SuspendHeld, SuspendOwner
<1>1. SUFFICES ASSUME TRUE
               PROVE  /\ claim' = d /\ gen'[d] = gen[d] /\ op'[d] = op[d] /\ pc'[d] \in Points
                      /\ pc'[d] \in RevertTranss => seen'[d] = "suspending"
  BY <1>0 DEF SuspendHeld, SuspendOwner
<1> USE <1>0 DEF TypeOK, DriverTypeOK, StoreTypeOK, Goto, At, locals, storeVars, RevertGets, RevertTranss, SuspendOps
<1>2. CASE TakeReply(d) \/ SuspendStall(d) \/ SuspendWedged(d) \/ SuspendBail(d)
  BY <1>2 DEF TakeReply, ReplyPc, SuspendStall, SuspendWedged, SuspendBail, SuspendHeld
<1>3. CASE RevertGet(d)
  <2>1. RevertAttempt[pc[d]] \in RevertTranss
    BY <1>3 DEF RevertGet, RevertAttempt
  <2>2. QED
    BY <1>3, <2>1 DEF RevertGet, Get
<1>4. CASE RevertTransition(d)
  <2>1. gen[d] \in LiveGens /\ seen[d] = "suspending"
    BY <1>4 DEF SuspendHeld, RevertTransition
  <2>2. TransitionClaimed(d, gen[d], "active")
    BY <1>4, <2>1 DEF RevertTransition, TransitionAllowed, Stale
  <2>3. QED
    BY <2>2 DEF TransitionClaimed
<1>5. CASE GuardEpisode(d)
  BY <1>5 DEF GuardEpisode
<1>6. CASE SetSuspended(d) \/ SetError(d)
  <2>1. StoreCtx(d) /\ status \in SetErrorFrom
    BY DEF StoreCtx, SetErrorFrom
  <2>2. QED
    BY <1>6, <2>1 DEF SetSuspended, SetError, SetSuspendedStatus, SetErrorStatus, GuardStatus
<1>7. CASE ProvisionReturn(d) \/ ClaimHeartbeat(d) \/ ClientDisconnect(d)
  BY <1>7 DEF ProvisionReturn, ClaimHeartbeat, HeartbeatClaim, ClientDisconnect, SuspendHeld
<1>8. CASE (\E o \in Ops : Begin(d, o)) \/ BeginLate(d)
  BY <1>8 DEF Begin, BeginLate, StartDriver
<1>9. CASE ClaimStep(d) \/ LockedStep(d)
  BY <1>9 DEF ClaimStep, AcquireClaim, TakeLock, Exit, LockedStep, FenceOld, MarkDeleted, EndDeleted
<1>10. CASE SuspendGet(d) \/ SuspendTransition(d) \/ EndSuspended(d) \/ SuspendExit(d) \/ EndErrored(d)
            \/ LateGet(d) \/ LateFlip(d)
  BY <1>10 DEF SuspendGet, SuspendTransition, EndSuspended, SuspendExit, EndErrored, LateGet, LateFlip
<1>11. CASE ResumeStep(d)
  BY <1>11 DEF ResumeStep, ResumeGet, StartEpisode, ResumeRead, ResumeTransition, FailResume, RevertSuspended,
               EndReverted, Provision, ProvisionDone, ResumeStall, ResumeBail, SetActive,
               ActivateContainer, ActivateFailed
<1>12. QED
  BY <1>2, <1>3, <1>4, <1>5, <1>6, <1>7, <1>8, <1>9, <1>10, <1>11 DEF DriverAction, DriverStep, SuspendStep

\* The same for the owner of a Resuming spawn.
LEMMA ResumeOwnStep ==
  ASSUME TypeOK, NEW d \in Drivers, ResumeOwner(d), ~cut[d], DriverAction(d),
         status = "resuming", status' = "resuming"
  PROVE  ResumeOwner(d)'
<1> USE DEF TypeOK, DriverTypeOK, Goto, At, locals, storeVars, ResumeOwner
<1>0. op[d] \in ResumeOps /\ "relocate" \in ResumeOps /\ StoreCtx(d)
  BY DEF StoreCtx, ResumeOps, MigrateOps
<1>1. CASE Provision(d) \/ ProvisionDone(d) \/ ResumeStall(d) \/ ResumeBail(d) \/ FailResume(d) \/ ActivateFailed(d)
  BY <1>0, <1>1 DEF Provision, ProvisionDone, ResumeStall, ResumeBail, FailResume, ActivateFailed, FailPc
<1>2. CASE GuardEpisode(d)
  BY <1>0, <1>2 DEF GuardEpisode
<1>3. CASE SetActive(d) \/ RevertSuspended(d) \/ SetError(d)
  BY <1>0, <1>3 DEF SetActive, RevertSuspended, SetError, SetActiveStatus, RevertSuspendedStatus, SetErrorStatus,
                    GuardStatus, SetActiveFrom, SetErrorFrom
<1>4. CASE ProvisionReturn(d) \/ ClaimHeartbeat(d) \/ ClientDisconnect(d)
  BY <1>0, <1>4 DEF ProvisionReturn, ClaimHeartbeat, ClientDisconnect
<1>5. CASE (\E o \in Ops : Begin(d, o)) \/ BeginLate(d)
  BY <1>5 DEF Begin, BeginLate, StartDriver
<1>6. CASE ClaimStep(d) \/ LockedStep(d)
  BY <1>6 DEF ClaimStep, AcquireClaim, TakeLock, Exit, LockedStep, FenceOld, MarkDeleted, EndDeleted
<1>7. CASE SuspendGet(d) \/ SuspendTransition(d) \/ TakeReply(d) \/ SuspendStall(d) \/ SuspendWedged(d)
           \/ SuspendBail(d) \/ RevertGet(d) \/ RevertTransition(d) \/ SetSuspended(d) \/ EndSuspended(d)
           \/ SuspendExit(d) \/ EndErrored(d) \/ LateGet(d) \/ LateFlip(d)
  BY <1>7 DEF SuspendGet, SuspendTransition, TakeReply, SuspendStall, SuspendWedged, SuspendBail, RevertGet,
              RevertTransition, SetSuspended, EndSuspended, SuspendExit, EndErrored, LateGet, LateFlip,
              RevertGets, RevertTranss
<1>8. CASE ResumeGet(d) \/ StartEpisode(d) \/ ResumeRead(d) \/ ResumeTransition(d) \/ EndReverted(d)
           \/ ActivateContainer(d)
  BY <1>8 DEF ResumeGet, StartEpisode, ResumeRead, ResumeTransition, EndReverted, ActivateContainer
<1>9. QED
  BY <1>1, <1>2, <1>3, <1>4, <1>5, <1>6, <1>7, <1>8 DEF DriverAction, DriverStep, SuspendStep, ResumeStep

\* The inductive form of TransientOwned.
OwnedInv ==
  /\ status = "suspending" /\ LiveGens # {} => \E d \in Drivers : SuspendHeld(d)
  /\ status = "resuming" => \E d \in Drivers : ResumeOwner(d)

\* A driver's step keeps it.
LEMMA DriverOwned ==
  ASSUME WaiterInv, NoCut, OpInv, OwnedInv, NEW e \in Drivers, DriverAction(e)
  PROVE  OwnedInv'
<1> USE DEF WaiterInv, Inv
<1>0. \A d \in Drivers \ {e} : pc'[d] = pc[d] /\ op'[d] = op[d] /\ gen'[d] = gen[d]
  BY DriverFrame, DriverLocals
<1>1. ASSUME status' = "suspending", LiveGens' # {} PROVE \E d \in Drivers : SuspendHeld(d)'
  <2>1. LiveGens' \subseteq LiveGens
    BY <1>1, DriverTransient
  <2>2. CASE status = "suspending"
    <3>1. PICK d \in Drivers : SuspendHeld(d)
      BY <1>1, <2>1, <2>2 DEF OwnedInv
    <3>2. CASE d = e
      BY <1>1, <2>2, <3>1, <3>2, SuspendOwnStep DEF NoCut
    <3>3. CASE d # e
      <4>1. claim = d /\ ~expired
        BY <3>1 DEF SuspendHeld, SuspendOwner, ClaimExclusive
      <4>2. claim' = d
        BY <3>3, <4>1, DriverClaim, LeaseAssumption DEF ClaimHeld
      <4>3. seen'[d] = seen[d]
        BY <1>1, <3>3, <4>1, HolderReads
      <4>4. QED
        BY <1>0, <2>1, <3>1, <3>3, <4>2, <4>3 DEF SuspendHeld, SuspendOwner
    <3>4. QED
      BY <3>2, <3>3
  <2>3. CASE status # "suspending"
    <3>1. TransitionClaimed(e, gen[e], "suspending")
      BY <1>1, <2>3, DriverTransient
    <3>2. SuspendTransition(e)
      BY <1>1, <2>3, DriverReads
    <3>3. gen'[e] = gen[e] /\ op'[e] = op[e] /\ pc'[e] = "sWait" /\ claim' = e
      BY <1>1, <2>3, <3>1, <3>2
         DEF SuspendTransition, TransitionClaimed, TransitionAllowed, Goto, TypeOK, DriverTypeOK, storeVars
    <3>4. LiveGens \subseteq {gen[e]}
      BY <3>1 DEF TransitionClaimed, TransitionAllowed, StoreInv, LiveIsLatest
    <3>5. op[e] \in SuspendOps
      BY <3>2 DEF SuspendTransition, At, OpInv, OpAt, SuspendPoints
    <3>6. SuspendHeld(e)'
      BY <2>1, <3>3, <3>4, <3>5 DEF SuspendHeld, SuspendOwner, RevertTranss
    <3>7. QED
      BY <3>6
  <2>4. QED
    BY <2>2, <2>3
<1>2. ASSUME status' = "resuming" PROVE \E d \in Drivers : ResumeOwner(d)'
  <2>1. CASE status = "resuming"
    <3>1. PICK d \in Drivers : ResumeOwner(d)
      BY <2>1 DEF OwnedInv
    <3>2. CASE d = e
      BY <1>2, <2>1, <3>1, <3>2, ResumeOwnStep DEF NoCut
    <3>3. CASE d # e
      BY <1>0, <3>1, <3>3 DEF ResumeOwner
    <3>4. QED
      BY <3>2, <3>3
  <2>2. CASE status # "resuming"
    <3>1. ResumeTransition(e) /\ pc'[e] = "prov"
      BY <1>2, <2>2, DriverTransient
    <3>2. op[e] \in ResumeOps /\ op'[e] = op[e]
      BY <3>1 DEF ResumeTransition, At, locals, OpInv, OpAt, ResumePoints, ResumeOps, MigrateOps
    <3>3. ResumeOwner(e)'
      BY <3>1, <3>2 DEF ResumeOwner
    <3>4. QED
      BY <3>3
  <2>3. QED
    BY <2>1, <2>2
<1>3. QED
  BY <1>1, <1>2 DEF OwnedInv

\* "Suspending" and "resuming" with a live episode have a driver that will still
\* write the status: no path through suspendLocked, handleSuspendReply,
\* resumeLocked and failResume returns without resolving it, for any drivers,
\* nodes and generations, with node losses and agent deaths.  Lease expiry, an
\* abandoned request and a crash are what it does not survive.
THEOREM TransientsOwned ==
  ASSUME "expiry" \notin Faults, "disconnect" \notin Faults, "crash" \notin Faults
  PROVE  Spec => []TransientOwned
<1>1. Init => NoCut /\ OpInv /\ OwnedInv
  <2> SUFFICES ASSUME Init PROVE NoCut /\ OpInv /\ OwnedInv
    OBVIOUS
  <2>1. PICK creator \in Drivers : pc = [e \in Drivers |-> IF e = creator THEN "lock" ELSE "idle"]
    BY DEF Init
  <2>2. NoCut /\ OwnedInv
    BY DEF Init, StoreInit, NoCut, OwnedInv
  <2>3. OpInv
    BY <2>1 DEF OpInv, OpAt, SuspendPoints, ResumePoints, RevertGets, RevertTranss
  <2>4. QED
    BY <2>2, <2>3
<1>2. WaiterInv /\ NoCut /\ OpInv /\ OwnedInv /\ [Next]_vars => NoCut' /\ OpInv' /\ OwnedInv'
  <2> SUFFICES ASSUME WaiterInv, NoCut, OpInv, OwnedInv, [Next]_vars PROVE NoCut' /\ OpInv' /\ OwnedInv'
    OBVIOUS
  <2>1. NoCut' /\ OpInv'
    BY StepNoCut, StepOp DEF WaiterInv, Inv
  <2>2. ~CPRestart
    BY DEF CPRestart
  <2>3. ASSUME NEW e \in Drivers, DriverAction(e) PROVE OwnedInv'
    BY <2>3, DriverOwned
  <2>4. ASSUME OtherAction PROVE OwnedInv'
    <3>1. UNCHANGED <<pc, op, gen, claim>>
      BY <2>4, OtherFrame, OtherLocals DEF WaiterInv, Inv
    <3>2. /\ status' = "resuming" => status = "resuming"
          /\ status' = "suspending" => status = "suspending" /\ LiveGens' = LiveGens /\ seen' = seen
      BY <2>4, OtherTransient DEF WaiterInv, Inv
    <3>3. QED
      BY <3>1, <3>2 DEF OwnedInv, SuspendHeld, SuspendOwner, ResumeOwner
  <2>5. ASSUME UNCHANGED vars PROVE OwnedInv'
    BY <2>5 DEF vars, storeVars, drvVars, locals, OwnedInv, SuspendHeld, SuspendOwner, ResumeOwner, LiveGens
  <2>6. QED
    BY <2>1, <2>2, <2>3, <2>4, <2>5, NextCases
<1>3. OwnedInv => TransientOwned
  BY DEF OwnedInv, TransientOwned, SuspendHeld
<1>4. QED
  BY <1>1, <1>2, <1>3, WaiterInvariant, PTL DEF Spec

-----------------------------------------------------------------------------
(* One node per generation *)

\* The permission to start generation g is in one place: with the driver that was
\* given g and has not sent Start yet, in the Start message, or used up by the
\* pod.
Starter(d) == pc[d] \in {"rRead", "rTrans", "prov"} \/ (pc[d] = "lock" /\ op[d] = "create")
Starts == {m \in toNode : m.type = "start"}
Here(n) == pod[n].st # "none"

\* Nobody is ahead of the row, so the next generation is new to everybody.
StartKnown ==
  /\ \A d \in Drivers : Starter(d) => gen[d] <= MaxGeneration
  /\ \A m \in Starts : m.gen <= MaxGeneration
  /\ \A n \in Nodes : Here(n) => pod[n].gen <= MaxGeneration
StartOnce ==
  /\ \A d, e \in Drivers : Starter(d) /\ Starter(e) /\ gen[d] = gen[e] => d = e
  /\ \A d \in Drivers, m \in Starts : Starter(d) => gen[d] # m.gen
  /\ \A d \in Drivers, n \in Nodes : Starter(d) /\ Here(n) => gen[d] # pod[n].gen
  /\ \A m1, m2 \in Starts : m1.gen = m2.gen => m1 = m2
  /\ \A m \in Starts, n \in Nodes : Here(n) => m.gen # pod[n].gen
  /\ EpisodeOnOneNode
StartInv == StartKnown /\ StartOnce

\* A step of a driver: it passes its permission on unchanged, drops it, is given
\* the next generation, or turns it into a Start.
Passes(e) ==
  /\ Starter(e)' => Starter(e) /\ gen'[e] = gen[e]
  /\ Starts' = Starts
  /\ MaxGeneration' = MaxGeneration
Opens(e) ==
  /\ gen'[e] = MaxGeneration + 1
  /\ MaxGeneration' = MaxGeneration + 1
  /\ Starts' = Starts
Places(e) ==
  /\ Starter(e) /\ ~Starter(e)'
  /\ \E m \in CPMsg : m.gen = gen[e] /\ Starts' = Starts \cup {m}
  /\ MaxGeneration' = MaxGeneration

\* Other messages than Start.
LEMMA SentOther ==
  ASSUME NEW type, type # "start", NEW s, NEW g, toNode' = Sent(type, s, g)
  PROVE  Starts' = Starts
  BY DEF Sent, Starts

\* endLiveContainer and the statements on one row keep the number of rows.
LEMMA RowsKept ==
  ASSUME StoreTypeOK,
         \/ \E p \in EndedPhases : EndLiveContainer(p)
         \/ \E g \in LiveGens, n \in Nodes \cup {NoNode} : SetActiveContainer(g, n) \/ AdoptContainer(g, n)
  PROVE  MaxGeneration' = MaxGeneration
<1>1. CASE \E p \in EndedPhases : EndLiveContainer(p)
  BY <1>1, EndAllProperties DEF EndLiveContainer, StoreTypeOK, MaxGeneration
<1>2. ASSUME NEW g \in LiveGens, NEW n \in Nodes \cup {NoNode}, SetActiveContainer(g, n) \/ AdoptContainer(g, n)
      PROVE  MaxGeneration' = MaxGeneration
  <2>1. containers \in Seq(Container) /\ g \in 1 .. Len(containers)
    BY LenProperties DEF StoreTypeOK, LiveGens
  <2>2. containers[g] \in Container
    BY <2>1, ElementOfSeq
  <2>3. PICK c \in Container : containers' = [containers EXCEPT ![g] = c]
    BY <1>2, <2>2 DEF SetActiveContainer, AdoptContainer, Container, Phases
  <2>4. Len(containers') = Len(containers)
    BY <2>1, <2>3, ExceptSeq
  <2>5. QED
    BY <2>4 DEF MaxGeneration
<1>3. QED
  BY <1>1, <1>2

\* ClaimStarting adds one row.
LEMMA RowAdded ==
  ASSUME StoreTypeOK, NEW from, ClaimStarting(from)
  PROVE  MaxGeneration' = MaxGeneration + 1
<1>1. EndAll(containers, "lost") \in Seq(Container) /\ Len(EndAll(containers, "lost")) = Len(containers)
  BY EndAllProperties DEF StoreTypeOK, EndedPhases
<1>2. QED
  BY <1>1, AppendProperties DEF ClaimStarting, MaxGeneration, Container, Phases

\* What the steps of drivers do with permissions.
LEMMA DriverStarts ==
  ASSUME TypeOK, NEW e \in Drivers, DriverAction(e)
  PROVE  (Passes(e) \/ Opens(e) \/ Places(e)) /\ pod' = pod
<1> USE DEF TypeOK, DriverTypeOK, Goto, At, Return, locals, memVars, netVars, storeVars
<1>0. /\ toNode' = toNode => Starts' = Starts
      /\ containers' = containers => MaxGeneration' = MaxGeneration
  BY DEF Starts, MaxGeneration
<1>1. CASE ClaimStep(e)
  <2>1. pod' = pod /\ toNode' = toNode /\ containers' = containers
    BY <1>1 DEF ClaimStep, AcquireClaim, Acquire, TakeLock, Exit, Release
  <2>2. Starter(e)' => Starter(e) /\ gen'[e] = gen[e]
    BY <1>1 DEF ClaimStep, AcquireClaim, ClaimedPc, TakeLock, LockedPc, Exit, Starter
  <2>3. QED
    BY <1>0, <2>1, <2>2 DEF Passes
<1>2. CASE SuspendStep(e)
  <2>1. pod' = pod /\ ~Starter(e)'
    <3>1. CASE RevertGet(e) \/ RevertTransition(e)
      <4>1. /\ pc[e] \in RevertGets => RevertAttempt[pc[e]] \in RevertTranss
            /\ pc[e] \in RevertTranss => RevertRetry[pc[e]] \in RevertGets \cup {"sExit"}
        BY DEF RevertAttempt, RevertRetry, RevertGets, RevertTranss
      <4>2. QED
        BY <3>1, <4>1 DEF RevertGet, RevertTransition, Starter, RevertGets, RevertTranss
    <3>2. CASE SuspendGet(e) \/ SuspendTransition(e) \/ TakeReply(e) \/ SuspendStall(e) \/ SuspendWedged(e)
               \/ SuspendBail(e)
      BY <3>2 DEF SuspendGet, SuspendTransition, TakeReply, ReplyPc, SuspendStall, SuspendWedged, SuspendBail, ExitPc,
                  Starter
    <3>3. CASE GuardEpisode(e) \/ SetSuspended(e) \/ EndSuspended(e) \/ SuspendExit(e) \/ SetError(e)
               \/ EndErrored(e) \/ LateGet(e) \/ LateFlip(e)
      BY <3>3 DEF GuardEpisode, SetSuspended, EndSuspended, SuspendExit, SetError, EndErrored, LateGet, LateFlip,
                  ExitPc, Starter
    <3>4. QED
      BY <1>2, <3>1, <3>2, <3>3 DEF SuspendStep
  <2>2. Starts' = Starts
    <3>1. CASE SuspendTransition(e)
      BY <1>0, <3>1, SentOther DEF SuspendTransition
    <3>2. CASE ~SuspendTransition(e)
      BY <1>0, <1>2, <3>2
         DEF SuspendStep, SuspendGet, TakeReply, SuspendStall, SuspendWedged, SuspendBail,
             RevertGet, RevertTransition, GuardEpisode, SetSuspended, EndSuspended, SuspendExit,
             SetError, EndErrored, LateGet, LateFlip
    <3>3. QED
      BY <3>1, <3>2
  <2>3. MaxGeneration' = MaxGeneration
    <3>1. CASE EndSuspended(e) \/ EndErrored(e)
      BY <1>0, <3>1, RowsKept DEF EndSuspended, EndErrored, EndedPhases
    <3>2. CASE ~(EndSuspended(e) \/ EndErrored(e))
      BY <1>0, <1>2, <3>2
         DEF SuspendStep, SuspendGet, SuspendTransition, TakeReply, SuspendStall, SuspendWedged, SuspendBail,
             RevertGet, RevertTransition, GuardEpisode, SetSuspended, SuspendExit, SetError, LateGet, LateFlip,
             Get, TransitionClaimed, SetSuspendedStatus, SetErrorStatus, ReconcileSuspendedAfterError, GuardStatus
    <3>3. QED
      BY <3>1, <3>2
  <2>4. QED
    BY <2>1, <2>2, <2>3 DEF Passes
<1>3. CASE ResumeStep(e)
  <2>1. CASE StartEpisode(e)
    <3>1. CASE ClaimStarting(ClaimFrom(e)) /\ gen' = [gen EXCEPT ![e] = NewGeneration]
      BY <1>0, <2>1, <3>1, RowAdded DEF StartEpisode, NewGeneration, Opens
    <3>2. CASE UNCHANGED <<storeVars, gen>> /\ Goto(e, "exit")
      BY <1>0, <2>1, <3>2 DEF StartEpisode, Starter, Passes
    <3>3. QED
      BY <2>1, <3>1, <3>2 DEF StartEpisode
  <2>2. CASE Provision(e)
    <3>1. containers' = containers /\ pod' = pod /\ Starter(e)
      BY <2>2 DEF Provision, Starter
    <3>2. ~Starter(e)'
      BY <2>2 DEF Provision, FailPc, Starter
    <3>3. CASE UNCHANGED toNode
      BY <1>0, <3>1, <3>2, <3>3 DEF Passes
    <3>4. ASSUME NEW n \in up, toNode' = Sent("start", StreamOf(n), gen[e]) PROVE Places(e)
      <4>1. [type |-> "start", node |-> n, gen |-> gen[e]] \in CPMsg
        BY DEF NetTypeOK, CPMsg
      <4>2. Starts' = Starts \cup {[type |-> "start", node |-> n, gen |-> gen[e]]}
        BY <3>4 DEF Sent, StreamOf, Starts
      <4>3. QED
        BY <1>0, <3>1, <3>2, <4>1, <4>2 DEF Places
    <3>5. QED
      BY <2>2, <3>1, <3>3, <3>4 DEF Provision
  <2>3. CASE ActivateContainer(e) \/ EndReverted(e)
    <3>1. target[e].node \in Nodes \cup {NoNode}
      BY DEF Sender, NoSender
    <3>2. MaxGeneration' = MaxGeneration
      <4>1. CASE EndReverted(e)
        BY <4>1, RowsKept DEF EndReverted, EndedPhases
      <4>2. CASE ActivateContainer(e)
        BY <1>0, <3>1, <4>2, RowsKept DEF ActivateContainer, SetActiveContainer
      <4>3. QED
        BY <2>3, <4>1, <4>2
    <3>3. QED
      BY <1>0, <2>3, <3>2 DEF ActivateContainer, EndReverted, Starter, Passes
  <2>4. CASE FailResume(e) \/ ActivateFailed(e)
    <3>1. Starts' = Starts
      BY <1>0, <2>4, SentOther DEF FailResume, ActivateFailed, StopOnNode
    <3>2. QED
      BY <1>0, <2>4, <3>1 DEF FailResume, ActivateFailed, FailPc, Starter, Passes
  <2>5. CASE ResumeGet(e) \/ ResumeRead(e) \/ ResumeTransition(e) \/ RevertSuspended(e) \/ SetActive(e)
    <3>1. containers' = containers /\ pod' = pod /\ toNode' = toNode
      BY <2>5 DEF ResumeGet, ResumeRead, ResumeTransition, RevertSuspended, SetActive, Get, TransitionClaimed,
                  RevertSuspendedStatus, SetActiveStatus, GuardStatus
    <3>2. Starter(e)' => Starter(e) /\ gen'[e] = gen[e]
      BY <2>5 DEF ResumeGet, ResumeRead, ResumeTransition, RevertSuspended, SetActive, Starter
    <3>3. QED
      BY <1>0, <3>1, <3>2 DEF Passes
  <2>6. CASE ProvisionDone(e) \/ ResumeStall(e) \/ ResumeBail(e)
    BY <1>0, <2>6 DEF ProvisionDone, ResumeStall, ResumeBail, FailPc, Starter, Passes
  <2>7. QED
    BY <1>3, <2>1, <2>2, <2>3, <2>4, <2>5, <2>6 DEF ResumeStep
<1>4. CASE LockedStep(e)
  <2>1. pod' = pod /\ ~Starter(e)'
    BY <1>4 DEF LockedStep, FenceOld, MarkDeleted, EndDeleted, Starter
  <2>2. Starts' = Starts
    BY <1>0, <1>4, SentOther DEF LockedStep, FenceOld, MarkDeleted, EndDeleted, StopOnNode
  <2>3. MaxGeneration' = MaxGeneration
    BY <1>0, <1>4, RowsKept DEF LockedStep, FenceOld, MarkDeleted, EndDeleted, MarkDeletedStatus, GuardStatus, EndedPhases
  <2>4. QED
    BY <2>1, <2>2, <2>3 DEF Passes
<1>5. CASE (\E o \in Ops : Begin(e, o)) \/ BeginLate(e) \/ ProvisionReturn(e) \/ ClaimHeartbeat(e)
           \/ ClientDisconnect(e)
  <2>1. pod' = pod /\ toNode' = toNode /\ containers' = containers
    BY <1>5 DEF Begin, BeginLate, ProvisionReturn, ClaimHeartbeat, HeartbeatClaim, ClientDisconnect
  <2>2. Starter(e)' => Starter(e) /\ gen'[e] = gen[e]
    BY <1>5, OpsAssumption DEF Begin, BeginLate, StartDriver, ProvisionReturn, ClaimHeartbeat, ClientDisconnect, Starter
  <2>3. QED
    BY <1>0, <2>1, <2>2 DEF Passes
<1>6. QED
  BY <1>1, <1>2, <1>3, <1>4, <1>5 DEF DriverAction, DriverStep

\* What everybody else does with them: a Start becomes a pod, or nothing new
\* appears.
Boots ==
  \E m \in Starts : /\ Starts' = Starts \ {m}
                    /\ \A n \in Nodes : Here(n)' => \/ Here(n) /\ pod'[n].gen = pod[n].gen
                                                    \/ n = m.node /\ pod'[n].gen = m.gen
Settles ==
  /\ Starts' \subseteq Starts
  /\ \A n \in Nodes : Here(n)' => Here(n) /\ pod'[n].gen = pod[n].gen

\* Every step of the nodes, the receive loops, time and a restart is of this kind.
LEMMA OtherStarts ==
  ASSUME TypeOK, OtherAction \/ CPRestart
  PROVE  (Boots \/ Settles) /\ MaxGeneration' = MaxGeneration
<1> USE DEF TypeOK, netVars, storeVars
<1>0. /\ toNode' \subseteq toNode => Starts' \subseteq Starts
      /\ pod' = pod => \A n \in Nodes : Here(n)' => Here(n) /\ pod'[n].gen = pod[n].gen
      /\ containers' = containers => MaxGeneration' = MaxGeneration
      /\ pod \in [Nodes -> Pod]
  BY DEF Starts, Here, MaxGeneration, NetTypeOK
<1>1. ASSUME NEW m \in toNode, NodeMessage(m) PROVE (Boots \/ Settles) /\ containers' = containers
  <2>0. m.node \in Nodes
    BY DEF NetTypeOK, CPMsg
  <2>1. CASE NodeStart(m)
    <3>1. containers' = containers /\ Starts' = Starts \ {m} /\ m \in Starts
      BY <2>1 DEF NodeStart, Starts
    <3>2. \A n \in Nodes : Here(n)' => (Here(n) /\ pod'[n].gen = pod[n].gen) \/ (n = m.node /\ pod'[n].gen = m.gen)
      BY <1>0, <2>0, <2>1 DEF NodeStart, Here
    <3>3. QED
      BY <3>1, <3>2 DEF Boots
  <2>2. CASE NodeStop(m)
    <3>1. toNode' \subseteq toNode /\ containers' = containers
      BY <2>2 DEF NodeStop
    <3>2. \A n \in Nodes : Here(n)' => Here(n) /\ pod'[n].gen = pod[n].gen
      BY <1>0, <2>0, <2>2 DEF NodeStop, Here, NoPod
    <3>3. QED
      BY <1>0, <3>1, <3>2 DEF Settles
  <2>3. CASE NodeSuspend(m)
    <3>1. toNode' \subseteq toNode /\ containers' = containers
      BY <2>3 DEF NodeSuspend
    <3>2. \A n \in Nodes : Here(n)' => Here(n) /\ pod'[n].gen = pod[n].gen
      BY <1>0, <2>0, <2>3 DEF NodeSuspend, Here, InStore, Pod
    <3>3. QED
      BY <1>0, <3>1, <3>2 DEF Settles
  <2>4. QED
    BY <1>1, <2>1, <2>2, <2>3 DEF NodeMessage
<1>2. ASSUME NEW f \in fin, NodeFinishSuspend(f) PROVE Settles /\ containers' = containers
  <2>1. toNode' \subseteq toNode /\ containers' = containers /\ f.node \in Nodes
    BY <1>2 DEF NodeFinishSuspend, NetTypeOK, Finishing
  <2>2. \A n \in Nodes : Here(n)' => Here(n) /\ pod'[n].gen = pod[n].gen
    BY <1>0, <1>2, <2>1 DEF NodeFinishSuspend, Here, NoPod
  <2>3. QED
    BY <1>0, <2>1, <2>2 DEF Settles
<1>3. ASSUME NEW m \in toCP, RecvMessage(m) PROVE Settles /\ MaxGeneration' = MaxGeneration
  <2>0. m.node \in Nodes
    BY DEF NetTypeOK, NodeMsg
  <2>1. pod' = pod
    BY <1>3 DEF RecvMessage, RecvStatus, RecvSuspendComplete, RecvInventory
  <2>2. Starts' \subseteq Starts
    BY <1>0, <1>3, SentOther DEF RecvMessage, RecvStatus, RecvSuspendComplete, RecvInventory
  <2>3. MaxGeneration' = MaxGeneration
    BY <1>0, <1>3, <2>0, RowsKept DEF RecvMessage, RecvStatus, RecvSuspendComplete, RecvInventory, AdoptContainer
  <2>4. QED
    BY <1>0, <2>1, <2>2, <2>3 DEF Settles
<1>4. ASSUME NEW n \in Nodes, NodeStep(n) \/ NodePodDies(n) PROVE Settles /\ containers' = containers
  <2>1. toNode' \subseteq toNode /\ containers' = containers
    BY <1>4 DEF NodeStep, NodeCommit, NodeReady, NodeStartFails, NodePodDies
  <2>2. \A k \in Nodes : Here(k)' => Here(k) /\ pod'[k].gen = pod[k].gen
    BY <1>0, <1>4 DEF NodeStep, NodeCommit, NodeReady, NodeStartFails, NodePodDies, Here, NoPod, Pod
  <2>3. QED
    BY <1>0, <2>1, <2>2 DEF Settles
<1>5. ASSUME NEW n \in Nodes, NodeHeartbeat(n) \/ NodeUp(n) \/ LoopStep(n) PROVE Settles /\ containers' = containers
  <2>1. toNode' \subseteq toNode /\ pod' = pod
    BY <1>5 DEF NodeHeartbeat, NodeUp, LoopStep, Deliver, MarkReachable, MarkLost, MarkDropped
  <2>2. containers' = containers
    BY <1>5 DEF NodeHeartbeat, NodeUp, LoopStep, Deliver, MarkReachable, MarkReachableStatus, MarkLost, MarkDropped,
                MarkUnreachable, GuardStatus
  <2>3. QED
    BY <1>0, <2>1, <2>2 DEF Settles
<1>6. ASSUME NEW ns \in SUBSET Nodes, pod' = Muted(ns)
      PROVE  \A n \in Nodes : Here(n)' => Here(n) /\ pod'[n].gen = pod[n].gen
  BY <1>0, <1>6 DEF Muted, Here, Pod
<1>7. ASSUME NEW n \in Nodes, NodeDown(n) PROVE Settles /\ containers' = containers
  BY <1>0, <1>6, <1>7 DEF NodeDown, Settles
<1>8. CASE LeaseExpires
  BY <1>0, <1>8 DEF LeaseExpires, ExpireLease, Settles
<1>9. CASE CPRestart
  BY <1>0, <1>6, <1>9 DEF CPRestart, MarkBootUnreachable, Settles
<1>10. QED
  BY <1>0, <1>1, <1>2, <1>3, <1>4, <1>5, <1>7, <1>8, <1>9 DEF OtherAction

\* A driver's step keeps the permissions apart.
LEMMA DriverStartInv ==
  ASSUME TypeOK, StartInv, NEW e \in Drivers, DriverAction(e)
  PROVE  StartInv'
<1>0. /\ \A d \in Drivers \ {e} : (Starter(d)' <=> Starter(d)) /\ gen'[d] = gen[d]
      /\ \A n \in Nodes : (Here(n)' <=> Here(n)) /\ pod'[n] = pod[n]
  BY DriverFrame, DriverLocals, DriverStarts DEF Starter, Here
<1>1. /\ MaxGeneration \in Nat /\ \A d \in Drivers : gen[d] \in Nat
      /\ \A m \in Starts : m.gen \in Nat
      /\ \A n \in Nodes : pod[n].gen \in Nat
  BY LenProperties DEF TypeOK, StoreTypeOK, MaxGeneration, DriverTypeOK, NetTypeOK, Starts, CPMsg, Pod, Gens
<1>2. CASE Passes(e)
  BY <1>0, <1>2 DEF Passes, StartInv, StartKnown, StartOnce, EpisodeOnOneNode, Here
<1>3. CASE Opens(e)
  <2>1. StartKnown'
    BY <1>0, <1>1, <1>3 DEF Opens, StartInv, StartKnown
  <2>2. /\ \A d \in Drivers \ {e} : Starter(d) => gen[d] # gen'[e]
        /\ \A m \in Starts : m.gen # gen'[e]
        /\ \A n \in Nodes : Here(n) => pod[n].gen # gen'[e]
    BY <1>1, <1>3 DEF Opens, StartInv, StartKnown
  <2>3. StartOnce'
    BY <1>0, <1>3, <2>2 DEF Opens, StartInv, StartOnce, EpisodeOnOneNode, Here
  <2>4. QED
    BY <2>1, <2>3 DEF StartInv
<1>4. CASE Places(e)
  <2>1. PICK m \in CPMsg : m.gen = gen[e] /\ Starts' = Starts \cup {m}
    BY <1>4 DEF Places
  <2>2. StartKnown'
    BY <1>0, <1>4, <2>1 DEF Places, StartInv, StartKnown
  <2>3. /\ \A d \in Drivers : Starter(d)' => d # e /\ Starter(d) /\ gen[d] # m.gen
        /\ \A k \in Starts : k.gen # m.gen
        /\ \A n \in Nodes : Here(n) => pod[n].gen # m.gen
    BY <1>0, <1>4, <2>1 DEF Places, StartInv, StartOnce
  <2>4. StartOnce'
    <3>1. /\ \A d, f \in Drivers : Starter(d)' /\ Starter(f)' /\ gen'[d] = gen'[f] => d = f
          /\ \A d \in Drivers, n \in Nodes : Starter(d)' /\ Here(n)' => gen'[d] # pod'[n].gen
          /\ EpisodeOnOneNode'
      BY <1>0, <2>3 DEF StartInv, StartOnce, EpisodeOnOneNode, Here
    <3>2. \A d \in Drivers, k \in Starts' : Starter(d)' => gen'[d] # k.gen
      BY <1>0, <2>1, <2>3 DEF StartInv, StartOnce
    <3>3. \A k1, k2 \in Starts' : k1.gen = k2.gen => k1 = k2
      BY <2>1, <2>3 DEF StartInv, StartOnce
    <3>4. \A k \in Starts', n \in Nodes : Here(n)' => k.gen # pod'[n].gen
      BY <1>0, <2>1, <2>3 DEF StartInv, StartOnce
    <3>5. QED
      BY <3>1, <3>2, <3>3, <3>4 DEF StartOnce
  <2>5. QED
    BY <2>2, <2>4 DEF StartInv
<1>5. QED
  BY <1>2, <1>3, <1>4, DriverStarts

\* So does everybody else's.
LEMMA OtherStartInv ==
  ASSUME StartInv, Boots \/ Settles, MaxGeneration' = MaxGeneration,
         \A d \in Drivers : Starter(d)' => Starter(d) /\ gen'[d] = gen[d]
  PROVE  StartInv'
<1>1. CASE Settles
  BY <1>1 DEF Settles, StartInv, StartKnown, StartOnce, EpisodeOnOneNode, Here
<1>2. CASE Boots
  <2>1. PICK m \in Starts :
          /\ Starts' = Starts \ {m}
          /\ \A n \in Nodes : Here(n)' => \/ Here(n) /\ pod'[n].gen = pod[n].gen
                                          \/ n = m.node /\ pod'[n].gen = m.gen
    BY <1>2 DEF Boots
  <2>2. StartKnown'
    BY <2>1 DEF StartInv, StartKnown
  <2>3. StartOnce'
    BY <2>1 DEF StartInv, StartOnce, EpisodeOnOneNode, Here
  <2>4. QED
    BY <2>2, <2>3 DEF StartInv
<1>3. QED
  BY <1>1, <1>2

\* "Split-brain is not expressible": for any nodes, drivers and generations and
\* under every fault (crashes, broken streams, late leases, abandoned requests) a
\* generation is started on one node only, so the pod that adoptOrStop takes for
\* the live generation is the only one.
THEOREM EpisodesApart == Spec => []EpisodeOnOneNode
<1>1. Init => StartInv
  <2> SUFFICES ASSUME Init PROVE StartInv
    OBVIOUS
  <2>1. PICK creator \in Drivers : pc = [e \in Drivers |-> IF e = creator THEN "lock" ELSE "idle"]
    BY DEF Init
  <2>2. Starts = {} /\ MaxGeneration = 1 /\ \A n \in Nodes : ~Here(n)
    BY DEF Init, StoreInit, Starts, MaxGeneration, Here, NoPod
  <2>3. \A d \in Drivers : gen[d] = 1 /\ (Starter(d) => d = creator)
    BY <2>1 DEF Init, Starter
  <2>4. QED
    BY <2>2, <2>3 DEF StartInv, StartKnown, StartOnce, EpisodeOnOneNode, Here
<1>2. Inv /\ StartInv /\ [Next]_vars => StartInv'
  <2> SUFFICES ASSUME Inv, StartInv, [Next]_vars PROVE StartInv'
    OBVIOUS
  <2> USE DEF Inv
  <2>1. ASSUME NEW e \in Drivers, DriverAction(e) PROVE StartInv'
    BY <2>1, DriverStartInv
  <2>2. CASE OtherAction
    <3>1. \A d \in Drivers : Starter(d)' => Starter(d) /\ gen'[d] = gen[d]
      BY <2>2, OtherFrame, OtherLocals DEF Starter
    <3>2. QED
      BY <2>2, <3>1, OtherStarts, OtherStartInv
  <2>3. CASE CPRestart
    <3>1. \A d \in Drivers : ~Starter(d)'
      BY <2>3 DEF CPRestart, At, Starter
    <3>2. QED
      BY <2>3, <3>1, OtherStarts, OtherStartInv
  <2>4. CASE UNCHANGED vars
    <3>1. /\ Starts' = Starts /\ MaxGeneration' = MaxGeneration /\ pod' = pod
          /\ \A d \in Drivers : (Starter(d)' <=> Starter(d)) /\ gen'[d] = gen[d]
      BY <2>4 DEF vars, storeVars, drvVars, locals, netVars, Starts, MaxGeneration, Starter
    <3>2. Settles
      BY <3>1 DEF Settles, Here
    <3>3. QED
      BY <3>1, <3>2, OtherStartInv
  <2>5. QED
    BY <2>1, <2>2, <2>3, <2>4, NextCases
<1>3. StartInv => EpisodeOnOneNode
  BY DEF StartInv, StartOnce
<1>4. QED
  BY <1>1, <1>2, <1>3, Invariant, PTL DEF Spec

=============================================================================
