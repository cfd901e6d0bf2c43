--------------------------- MODULE SpawnLifecycle ---------------------------
(***************************************************************************)
(* The life of one spawn: the control-plane goroutines ("drivers") that    *)
(* create, suspend, resume, migrate, recreate and stop it, the router,     *)
(* scheduler and waiter state they share, the per-node receive loops, and  *)
(* the pods on the nodes.                                                  *)
(*                                                                         *)
(* Two kinds of mutual exclusion meet here.  suspend, resume, migrate and  *)
(* the late-suspend reconciler take the row's leased claim (withClaim);    *)
(* create, recreate and stop take an in-memory lock (s.locks).  Neither    *)
(* excludes the other.                                                     *)
(*                                                                         *)
(* A step is one store statement with the in-memory work next to it.  The  *)
(* network is a set of messages: the node runs Start and Suspend on        *)
(* goroutines of their own, so it may reorder them.  A broken stream loses *)
(* its messages.                                                           *)
(***************************************************************************)
EXTENDS SpawnStore

CONSTANTS NoDriver,   \* no lock holder, no waiter, no pending start
          Ops,        \* the operations users issue in this instance
          Faults      \* the faults the environment injects

\* "migrate" found the spawn active and suspends first, "relocate" found it suspended.
ClaimOps == {"suspend", "resume", "migrate", "relocate", "late"}
LockOps == {"create", "recreate", "stop"}
SuspendOps == {"suspend", "migrate"}    \* in suspendLocked
MigrateOps == {"migrate", "relocate"}
ResumeOps == {"resume"} \cup MigrateOps
AllFaults == {"disconnect",  \* a client drops its request
              "expiry",      \* a lease deadline passes un-renewed
              "crash",       \* the control plane dies and restarts
              "nodeloss",    \* a node's stream breaks
              "poddeath"}    \* an agent exits on its own

ASSUME OpsAssumption == Ops \subseteq {"suspend", "resume", "migrate", "recreate", "stop"}
ASSUME FaultsAssumption == Faults \subseteq AllFaults
ASSUME NoDriverAssumption == NoDriver \notin Drivers

VARIABLES
  \* drivers
  pc,       \* where each driver is
  op,       \* the operation it runs
  gen,      \* the generation it drives
  target,   \* the sender of the node it placed the spawn on
  cut,      \* its context was cancelled
  inbox,    \* its suspend waiter's channel (capacity 1)
  prov,     \* its scheduler.Provision call
  res,      \* that call's result channel (capacity 1)
  \* shared control-plane memory
  route,    \* router: the sender the spawn is bound to
  lock,     \* s.locks: the holder
  waiter,   \* suspendWaiters: the driver registered for the spawn
  pending,  \* scheduler.pending: the driver waiting for ACTIVE
  late,     \* reconcileLateSuspend goroutines not yet run, by generation
  rx,       \* per node: what its receive loop is in the middle of
  dropped,  \* nodes whose teardown dropped the route, MarkUnreachable still to come
  \* nodes and network
  up,       \* nodes with a live stream
  pod,      \* per node: the spawn's pod; live while its goroutines can still report
  fin,      \* FinishSuspend goroutines, [node, gen, live]
  toNode, toCP

locals == <<op, gen, target, cut, inbox, prov, res>>
drvVars == <<pc, locals>>
memVars == <<route, lock, waiter, pending, late, rx, dropped>>
netVars == <<up, pod, fin, toNode, toCP>>
vars == <<storeVars, drvVars, memVars, netVars>>

\* handleSuspendReply's revert: three attempts of a Get and a transition.
RevertAttempt == [revGet |-> "revTrans", revGet2 |-> "revTrans2", revGet3 |-> "revTrans3"]
RevertRetry == [revTrans |-> "revGet2", revTrans2 |-> "revGet3", revTrans3 |-> "sExit"]
RevertGets == {"revGet", "revGet2", "revGet3"}
RevertTranss == {"revTrans", "revTrans2", "revTrans3"}

SuspendPcs == {"sGet", "sTrans", "sWait", "sDrain", "susp0", "susp1", "susp2", "sExit"}
              \cup RevertGets \cup RevertTranss
ResumePcs == {"rGet", "rClaim", "rRead", "rTrans", "fail", "rev0", "rev1", "rev2"}
LockPcs == {"lock", "cFence", "cClaim", "xFence", "xDel1", "xDel2"}
Pcs == {"idle", "done", "acquire", "lGet", "lFlip", "prov", "wait", "act1", "act2", "actFail",
        "err1", "err2", "exit"} \cup SuspendPcs \cup ResumePcs \cup LockPcs

Gens == 0 .. MaxGen
\* A NodeSender belongs to one stream; live until that stream breaks.
NoSender == [node |-> NoNode, live |-> FALSE]
Sender == [node : Nodes, live : BOOLEAN] \cup {NoSender}
StreamOf(n) == [node |-> n, live |-> TRUE]
NoPod == [gen |-> 0, st |-> "none", live |-> FALSE]
PodStates == {"none", "creating", "attaching", "running", "gated"}
Pod == [gen : Gens, st : PodStates, live : BOOLEAN]
Finishing == [node : Nodes, gen : Gens, live : BOOLEAN]
Replies == {"none", "ok", "abort"}
CPMsg == [type : {"start", "suspend", "stop"}, node : Nodes, gen : Gens]
NodeMsg == [type : {"active", "error", "ok", "abort", "inventory"}, node : Nodes, gen : Gens]
Rx == [st : {"recv", "deliver", "reach", "lost"}, to : Drivers \cup {NoDriver}, msg : Replies, gen : Gens]
Receiving == [st |-> "recv", to |-> NoDriver, msg |-> "none", gen |-> 0]

DriverTypeOK ==
  /\ pc \in [Drivers -> Pcs]
  /\ op \in [Drivers -> ClaimOps \cup LockOps]
  /\ gen \in [Drivers -> Gens]
  /\ target \in [Drivers -> Sender]
  /\ cut \in [Drivers -> BOOLEAN]
  /\ inbox \in [Drivers -> Replies]
  /\ prov \in [Drivers -> {"none", "wait", "ok", "err"}]
  /\ res \in [Drivers -> {"none", "active", "error"}]
MemTypeOK ==
  /\ route \in Sender
  /\ lock \in Drivers \cup {NoDriver}
  /\ waiter \in Drivers \cup {NoDriver}
  /\ pending \in Drivers \cup {NoDriver}
  /\ late \subseteq Gens
  /\ rx \in [Nodes -> Rx]
  /\ dropped \subseteq Nodes
NetTypeOK ==
  /\ up \subseteq Nodes
  /\ pod \in [Nodes -> Pod]
  /\ fin \subseteq Finishing
  /\ toNode \subseteq CPMsg
  /\ toCP \subseteq NodeMsg
TypeOK == StoreTypeOK /\ DriverTypeOK /\ MemTypeOK /\ NetTypeOK

\* CreateSpawn has inserted the row and launched its provisionSpawn goroutine.
Init ==
  /\ StoreInit
  /\ \E creator \in Drivers : pc = [d \in Drivers |-> IF d = creator THEN "lock" ELSE "idle"]
  /\ op = [d \in Drivers |-> "create"]
  /\ gen = [d \in Drivers |-> 1]
  /\ target = [d \in Drivers |-> NoSender]
  /\ cut = [d \in Drivers |-> FALSE]
  /\ inbox = [d \in Drivers |-> "none"]
  /\ prov = [d \in Drivers |-> "none"]
  /\ res = [d \in Drivers |-> "none"]
  /\ route = NoSender
  /\ lock = NoDriver
  /\ waiter = NoDriver
  /\ pending = NoDriver
  /\ late = {}
  /\ rx = [n \in Nodes |-> Receiving]
  /\ dropped = {}
  /\ up = Nodes
  /\ pod = [n \in Nodes |-> NoPod]
  /\ fin = {}
  /\ toNode = {}
  /\ toCP = {}

-----------------------------------------------------------------------------
(* Shared pieces *)

At(d, l) == pc[d] = l
Goto(d, l) == pc' = [pc EXCEPT ![d] = l]

\* The goroutine ends; its locals go with it.
Return(d) ==
  /\ Goto(d, "done")
  /\ op' = [op EXCEPT ![d] = "create"]
  /\ gen' = [gen EXCEPT ![d] = 1]
  /\ cut' = [cut EXCEPT ![d] = FALSE]

\* A message reaches a node only over a live stream.
Sent(type, s, g) ==
  IF s.live THEN toNode \cup {[type |-> type, node |-> s.node, gen |-> g]} ELSE toNode

\* Router.StopOnNode: a Stop with generation 0, over the route if there is one.
StopOnNode == toNode' = Sent("stop", route, 0)
Drop == route' = NoSender
Bound == route # NoSender

\* The request context still lives; recreate and stop run even their
\* compensating statements under it, everybody else detaches from it.
Ctx(d) == ~cut[d]
StoreCtx(d) == op[d] \notin {"recreate", "stop"} \/ ~cut[d]

\* suspendLocked returns through its deferred unregister.
ExitPc(d) == IF op[d] \in SuspendOps THEN "sExit" ELSE "exit"
FailPc(d) == IF op[d] \in ResumeOps THEN "fail" ELSE "err1"

-----------------------------------------------------------------------------
(* withClaim and the per-spawn lock *)

\* A handler starts, on a goroutine of its own.
StartDriver(d, o, g, l) ==
  /\ At(d, "idle")
  /\ Goto(d, l)
  /\ op' = [op EXCEPT ![d] = o]
  /\ gen' = [gen EXCEPT ![d] = g]
  /\ UNCHANGED <<target, cut, inbox, res>>

\* MigrateSpawn decides before the claim whether it must suspend first.
Begin(d, o) ==
  /\ o = "migrate" => status \in {"active", "suspended"}
  /\ LET run == IF o = "migrate" /\ status = "suspended" THEN "relocate" ELSE o
     IN  StartDriver(d, run, 0, IF o \in LockOps THEN "lock" ELSE "acquire")
  /\ UNCHANGED <<storeVars, prov, memVars, netVars>>

\* The goroutine a receive loop launched for an unclaimed SuspendComplete.
BeginLate(d) ==
  \E g \in late :
    /\ StartDriver(d, "late", g, "acquire")
    /\ late' = late \ {g}
    /\ UNCHANGED <<storeVars, prov, route, lock, waiter, pending, rx, dropped, netVars>>

\* acquireClaim: Get, then Acquire on the sequence number it read, three
\* attempts without a pause.  An attempt succeeds exactly when the row did not
\* move between the two, so success is one step; it gives up ("spawn busy")
\* when another lease is held.
ClaimedPc(d) == CASE op[d] \in SuspendOps -> "sGet"
                  [] op[d] = "late" -> "lGet"
                  [] OTHER -> "rGet"

AcquireClaim(d) ==
  /\ At(d, "acquire")
  /\ \/ Ctx(d) /\ status # "deleted" /\ Acquire(d) /\ Goto(d, ClaimedPc(d))
        /\ UNCHANGED <<op, gen, cut>>
     \/ (~Ctx(d) \/ status = "deleted" \/ ClaimHeld) /\ Return(d) /\ UNCHANGED storeVars
  /\ UNCHANGED <<target, inbox, prov, res, memVars, netVars>>

Claiming(d) == op[d] \in ClaimOps /\ pc[d] \notin {"idle", "acquire", "done"}

\* The heartbeat goroutine of a claim: renew, or cancel the driver; it ends
\* with the driver's context.
ClaimHeartbeat(d) ==
  /\ Claiming(d)
  /\ ~cut[d]
  /\ \/ expired /\ HeartbeatClaim(d) /\ UNCHANGED cut
     \/ claim # d /\ cut' = [cut EXCEPT ![d] = TRUE] /\ UNCHANGED storeVars
  /\ UNCHANGED <<pc, op, gen, target, inbox, prov, res, memVars, netVars>>

\* Mutant: the per-spawn lock is not unlocked.
ExitKeepsLock(d) ==
  /\ At(d, "exit")
  /\ IF op[d] \in ClaimOps THEN Release(d) ELSE UNCHANGED storeVars
  /\ Return(d)
  /\ inbox' = [inbox EXCEPT ![d] = "none"]
  /\ target' = IF prov[d] = "none" THEN [target EXCEPT ![d] = NoSender] ELSE target
  /\ UNCHANGED <<prov, res, memVars, netVars>>

\* claim.Release, or unlock.
Exit(d) ==
  /\ At(d, "exit")
  /\ IF op[d] \in ClaimOps
     THEN Release(d) /\ UNCHANGED lock
     ELSE lock' = NoDriver /\ UNCHANGED storeVars
  /\ Return(d)
  /\ inbox' = [inbox EXCEPT ![d] = "none"]
  /\ target' = IF prov[d] = "none" THEN [target EXCEPT ![d] = NoSender] ELSE target
  /\ UNCHANGED <<prov, res, route, waiter, pending, late, rx, dropped, netVars>>

\* s.locks.Lock, then the Get every locked operation starts with.
LockedPc(d) ==
  CASE op[d] = "create" /\ status = "starting" -> "prov"
    [] op[d] = "recreate" /\ Ctx(d) /\ status \in {"unreachable", "errored"} -> "cFence"
    [] op[d] = "stop" /\ Ctx(d) /\ status # "deleted" -> "xFence"
    [] OTHER -> "exit"

TakeLock(d) ==
  /\ At(d, "lock")
  /\ lock = NoDriver
  /\ lock' = d
  /\ Goto(d, LockedPc(d))
  /\ UNCHANGED <<storeVars, locals, route, waiter, pending, late, rx, dropped, netVars>>

-----------------------------------------------------------------------------
(* suspendLocked and handleSuspendReply *)

SuspendGet(d) ==
  /\ At(d, "sGet")
  /\ \/ /\ Ctx(d) /\ status = "active" /\ Get(d)
        /\ \E g \in LiveGens : gen' = [gen EXCEPT ![d] = g]
        /\ Goto(d, "sTrans")
     \/ /\ ~Ctx(d) \/ status # "active" \/ LiveGens = {}
        /\ Goto(d, "exit")
        /\ UNCHANGED <<storeVars, gen>>
  /\ UNCHANGED <<op, target, cut, inbox, prov, res, memVars, netVars>>

\* Active->Suspending; the waiter is registered before Suspend is sent over
\* the route, if there is one.
SuspendTransition(d) ==
  /\ At(d, "sTrans")
  /\ \/ /\ Ctx(d) /\ TransitionClaimed(d, gen[d], "suspending")
        /\ waiter' = d
        /\ toNode' = Sent("suspend", route, gen[d])
        /\ Goto(d, "sWait")
     \/ /\ ~Ctx(d) \/ ~TransitionAllowed(d, gen[d])
        /\ Goto(d, "exit")
        /\ UNCHANGED <<storeVars, waiter, toNode>>
  /\ UNCHANGED <<op, gen, target, cut, inbox, prov, res,
                 route, lock, pending, late, rx, dropped, up, pod, fin, toCP>>

\* A reply is taken from the waiter's channel: straight from the wait, or by
\* the drain after the stall unregistered the waiter.
ReplyPc(d) == IF inbox[d] = "abort" THEN "revGet" ELSE "susp0"

TakeReply(d) ==
  /\ pc[d] \in {"sWait", "sDrain"}
  /\ inbox[d] # "none"
  /\ Goto(d, ReplyPc(d))
  /\ inbox' = [inbox EXCEPT ![d] = "none"]
  /\ route' = IF inbox[d] = "ok" THEN NoSender ELSE route
  /\ UNCHANGED <<storeVars, op, gen, target, cut, prov, res,
                 lock, waiter, pending, late, rx, dropped, netVars>>

\* The stall window or the backstop fires: unregister first.
SuspendStall(d) ==
  /\ At(d, "sWait")
  /\ waiter' = NoDriver
  /\ Goto(d, "sDrain")
  /\ UNCHANGED <<storeVars, locals, route, lock, pending, late, rx, dropped, netVars>>

\* Mutant: a stalled suspend returns without SetError.
SuspendWedgedReturns(d) ==
  /\ At(d, "sDrain")
  /\ inbox[d] = "none"
  /\ Drop
  /\ Goto(d, "sExit")
  /\ UNCHANGED <<storeVars, locals, lock, waiter, pending, late, rx, dropped, netVars>>

\* Nothing was buffered: drop the route and go to 'error'.
SuspendWedged(d) ==
  /\ At(d, "sDrain")
  /\ inbox[d] = "none"
  /\ Drop
  /\ Goto(d, "err1")
  /\ UNCHANGED <<storeVars, locals, lock, waiter, pending, late, rx, dropped, netVars>>

\* Claim lost or client gone: bail, commit no further transition.
SuspendBail(d) ==
  /\ At(d, "sWait")
  /\ cut[d]
  /\ Goto(d, ExitPc(d))
  /\ UNCHANGED <<storeVars, locals, memVars, netVars>>

\* Gate abort: re-read and revert to Active; a conflict is retried.
RevertGet(d) ==
  /\ pc[d] \in RevertGets
  /\ \/ Get(d) /\ Goto(d, RevertAttempt[pc[d]])
     \/ status = "deleted" /\ Goto(d, "sExit") /\ UNCHANGED storeVars
  /\ UNCHANGED <<locals, memVars, netVars>>

RevertTransition(d) ==
  /\ pc[d] \in RevertTranss
  /\ \/ TransitionClaimed(d, gen[d], "active") /\ Goto(d, "sExit")
     \/ /\ ~TransitionAllowed(d, gen[d])
        /\ Goto(d, RevertRetry[pc[d]])
        /\ UNCHANGED storeVars
  /\ UNCHANGED <<locals, memVars, netVars>>

\* SetSuspended and RevertSuspended start with guardContainerGen; a refusal
\* is compensated with SetError.
GuardEpisode(d) ==
  /\ pc[d] \in {"susp0", "rev0"}
  /\ Goto(d, CASE ~GuardContainerGen(gen[d]) -> "err1"
               [] At(d, "susp0") -> "susp1"
               [] OTHER -> "rev1")
  /\ UNCHANGED <<storeVars, locals, memVars, netVars>>

\* SetSuspended, status statement.
SetSuspended(d) ==
  /\ At(d, "susp1")
  /\ \/ SetSuspendedStatus /\ Goto(d, "susp2")
     \/ /\ status # "suspending"
        /\ Goto(d, "err1")
        /\ UNCHANGED storeVars
  /\ UNCHANGED <<locals, memVars, netVars>>

\* SetSuspended, trailing endLiveContainer; a migration has a resume to go.
EndSuspended(d) ==
  /\ At(d, "susp2")
  /\ EndLiveContainer("stopped")
  /\ Goto(d, "sExit")
  /\ op' = IF op[d] = "migrate" THEN [op EXCEPT ![d] = "relocate"] ELSE op
  /\ UNCHANGED <<gen, target, cut, inbox, prov, res, memVars, netVars>>

\* suspendLocked's deferred unregister, whoever's waiter it finds.
SuspendExit(d) ==
  /\ At(d, "sExit")
  /\ waiter' = NoDriver
  /\ Goto(d, IF op[d] = "relocate" THEN "rGet" ELSE "exit")
  /\ UNCHANGED <<storeVars, locals, route, lock, pending, late, rx, dropped, netVars>>

\* SetError: status statement, then endLiveContainer.
SetError(d) ==
  /\ At(d, "err1")
  /\ \/ StoreCtx(d) /\ SetErrorStatus /\ Goto(d, "err2")
     \/ /\ ~StoreCtx(d) \/ status \notin SetErrorFrom
        /\ Goto(d, ExitPc(d))
        /\ UNCHANGED storeVars
  /\ UNCHANGED <<locals, memVars, netVars>>

EndErrored(d) ==
  /\ At(d, "err2")
  /\ IF StoreCtx(d) THEN EndLiveContainer("lost") ELSE UNCHANGED storeVars
  /\ Goto(d, ExitPc(d))
  /\ UNCHANGED <<locals, memVars, netVars>>

-----------------------------------------------------------------------------
(* reconcileLateSuspend *)

LateGet(d) ==
  /\ At(d, "lGet")
  /\ \/ Ctx(d) /\ status = "errored" /\ MaxGeneration = gen[d] /\ Goto(d, "lFlip")
     \/ (~Ctx(d) \/ status # "errored" \/ MaxGeneration # gen[d]) /\ Goto(d, "exit")
  /\ UNCHANGED <<storeVars, locals, memVars, netVars>>

LateFlip(d) ==
  /\ At(d, "lFlip")
  /\ Goto(d, "exit")
  /\ IF Ctx(d) /\ status = "errored" THEN ReconcileSuspendedAfterError ELSE UNCHANGED storeVars
  /\ UNCHANGED <<locals, memVars, netVars>>

-----------------------------------------------------------------------------
(* resumeLocked and failResume *)

\* Placement, artifacts or a migration's transfer set may also refuse here.
ResumeGet(d) ==
  /\ At(d, "rGet")
  /\ \/ Ctx(d) /\ status = "suspended" /\ Goto(d, "rClaim")
     \/ Goto(d, "exit")
  /\ UNCHANGED <<storeVars, locals, memVars, netVars>>

\* ClaimStarting of a resume (Suspended) or a recreate (Unreachable, Errored).
\* At the bound MaxGen the transaction fails.
ClaimFrom(d) == IF op[d] \in ResumeOps THEN ResumeFrom ELSE RecreateFrom

StartEpisode(d) ==
  /\ pc[d] \in {"rClaim", "cClaim"}
  /\ \/ /\ Ctx(d) /\ ClaimStarting(ClaimFrom(d))
        /\ gen' = [gen EXCEPT ![d] = NewGeneration]
        /\ Goto(d, IF op[d] \in ResumeOps THEN "rRead" ELSE "prov")
     \/ /\ ~Ctx(d) \/ status \notin ClaimFrom(d) \/ MaxGeneration = MaxGen
        /\ Goto(d, "exit")
        /\ UNCHANGED <<storeVars, gen>>
  /\ UNCHANGED <<op, target, cut, inbox, prov, res, memVars, netVars>>

ResumeRead(d) ==
  /\ At(d, "rRead")
  /\ \/ Ctx(d) /\ Get(d) /\ Goto(d, "rTrans")
     \/ (~Ctx(d) \/ status = "deleted") /\ Goto(d, "fail") /\ UNCHANGED storeVars
  /\ UNCHANGED <<locals, memVars, netVars>>

\* Starting->Resuming.
ResumeTransition(d) ==
  /\ At(d, "rTrans")
  /\ \/ Ctx(d) /\ TransitionClaimed(d, gen[d], "resuming") /\ Goto(d, "prov")
     \/ /\ ~Ctx(d) \/ ~TransitionAllowed(d, gen[d])
        /\ Goto(d, "fail")
        /\ UNCHANGED storeVars
  /\ UNCHANGED <<locals, memVars, netVars>>

\* A plain resume goes to 'error'; a migration stops the target and rolls back.
FailResume(d) ==
  /\ At(d, "fail")
  /\ IF op[d] \in MigrateOps
     THEN StopOnNode /\ Drop /\ Goto(d, "rev0")
     ELSE Goto(d, "err1") /\ UNCHANGED <<toNode, route>>
  /\ UNCHANGED <<storeVars, locals, lock, waiter, pending, late, rx, dropped, up, pod, fin, toCP>>

RevertSuspended(d) ==
  /\ At(d, "rev1")
  /\ \/ RevertSuspendedStatus /\ Goto(d, "rev2")
     \/ /\ status \notin SetActiveFrom
        /\ Goto(d, "err1")
        /\ UNCHANGED storeVars
  /\ UNCHANGED <<locals, memVars, netVars>>

\* Mutant: the failed episode's row is left live.
EndRevertedKeepsRow(d) ==
  /\ At(d, "rev2")
  /\ Goto(d, "exit")
  /\ UNCHANGED <<storeVars, locals, memVars, netVars>>

EndReverted(d) ==
  /\ At(d, "rev2")
  /\ EndLiveContainer("stopped")
  /\ Goto(d, "exit")
  /\ UNCHANGED <<locals, memVars, netVars>>

-----------------------------------------------------------------------------
(* scheduler.Provision and the wait for it *)

\* Pick a connected node, enter the pending table (over any other entry),
\* send Start; or fail before that (no node, intent not signed, secrets).
Provision(d) ==
  /\ At(d, "prov")
  /\ \/ \E n \in up :
          /\ Ctx(d)
          /\ target' = [target EXCEPT ![d] = StreamOf(n)]
          /\ pending' = d
          /\ prov' = [prov EXCEPT ![d] = "wait"]
          /\ toNode' = Sent("start", StreamOf(n), gen[d])
          /\ Goto(d, "wait")
     \/ Goto(d, FailPc(d)) /\ UNCHANGED <<target, pending, prov, toNode>>
  /\ UNCHANGED <<storeVars, op, gen, cut, inbox, res,
                 route, lock, waiter, late, rx, dropped, up, pod, fin, toCP>>

\* ACTIVE binds the route; ERROR, the stall window, the backstop or a dead
\* context fail the call.  Either way the deferred delete empties the pending
\* table.  A resume runs the call on a goroutine and may have left its loop,
\* then the outcome is discarded; the others run it inline.
ProvisionReturn(d) ==
  /\ prov[d] = "wait"
  /\ \E outcome \in {"ok", "err"} :
       /\ outcome = "ok" => res[d] = "active"
       /\ route' = IF outcome = "ok" THEN target[d] ELSE route
       /\ prov' = [prov EXCEPT ![d] = IF At(d, "wait") THEN outcome ELSE "none"]
       /\ target' = IF At(d, "wait") THEN target ELSE [target EXCEPT ![d] = NoSender]
  /\ res' = [res EXCEPT ![d] = "none"]
  /\ pending' = NoDriver
  /\ UNCHANGED <<storeVars, pc, op, gen, cut, inbox,
                 lock, waiter, late, rx, dropped, netVars>>

\* Mutant: a failed provision is retried on another node.
ProvisionDoneRetries(d) ==
  /\ At(d, "wait")
  /\ prov[d] \in {"ok", "err"}
  /\ Goto(d, IF prov[d] = "ok" THEN "act1" ELSE "prov")
  /\ prov' = [prov EXCEPT ![d] = "none"]
  /\ UNCHANGED <<storeVars, op, gen, target, cut, inbox, res, memVars, netVars>>

ProvisionDone(d) ==
  /\ At(d, "wait")
  /\ prov[d] \in {"ok", "err"}
  /\ Goto(d, IF prov[d] = "ok" THEN "act1" ELSE FailPc(d))
  /\ prov' = [prov EXCEPT ![d] = "none"]
  /\ UNCHANGED <<storeVars, op, gen, target, cut, inbox, res, memVars, netVars>>

\* resumeLocked's own stall window: cancel Provision, drop the route, fail.
\* An outcome already in provCh is discarded.
ResumeStall(d) ==
  /\ At(d, "wait")
  /\ op[d] \in ResumeOps
  /\ Drop
  /\ Goto(d, "fail")
  /\ prov' = [prov EXCEPT ![d] = IF @ = "wait" THEN "wait" ELSE "none"]
  /\ UNCHANGED <<storeVars, op, gen, target, cut, inbox, res,
                 lock, waiter, pending, late, rx, dropped, netVars>>

ResumeBail(d) ==
  /\ At(d, "wait")
  /\ op[d] \in ResumeOps
  /\ cut[d]
  /\ Goto(d, "exit")
  /\ prov' = [prov EXCEPT ![d] = IF @ = "wait" THEN "wait" ELSE "none"]
  /\ UNCHANGED <<storeVars, op, gen, target, cut, inbox, res, memVars, netVars>>

\* SetActive: the status flips first, the container row is checked second.
SetActive(d) ==
  /\ At(d, "act1")
  /\ \/ StoreCtx(d) /\ SetActiveStatus /\ Goto(d, "act2")
     \/ /\ ~StoreCtx(d) \/ status \notin SetActiveFrom
        /\ Goto(d, "actFail")
        /\ UNCHANGED storeVars
  /\ UNCHANGED <<locals, memVars, netVars>>

\* Mutant: WHERE ended_at IS NULL is missing.
ActivateContainerUnfenced(d) ==
  /\ At(d, "act2")
  /\ containers' = [containers EXCEPT ![gen[d]] = [node |-> target[d].node, phase |-> "active"]]
  /\ Goto(d, "exit")
  /\ UNCHANGED <<status, claim, expired, seen, locals, memVars, netVars>>

ActivateContainer(d) ==
  /\ At(d, "act2")
  /\ \/ StoreCtx(d) /\ SetActiveContainer(gen[d], target[d].node) /\ Goto(d, "exit")
     \/ /\ ~StoreCtx(d) \/ gen[d] \notin LiveGens
        /\ Goto(d, "actFail")
        /\ UNCHANGED storeVars
  /\ UNCHANGED <<locals, memVars, netVars>>

\* SetActive was refused: stop the pod just started and compensate.
ActivateFailed(d) ==
  /\ At(d, "actFail")
  /\ StopOnNode
  /\ Drop
  /\ Goto(d, FailPc(d))
  /\ UNCHANGED <<storeVars, locals, lock, waiter, pending, late, rx, dropped, up, pod, fin, toCP>>

-----------------------------------------------------------------------------
(* provisionSpawn, RecreateSpawn and stop: under the in-memory lock *)

\* Tell the node to stop and drop the route, before the store is asked.
FenceOld(d) ==
  /\ pc[d] \in {"cFence", "xFence"}
  /\ StopOnNode
  /\ Drop
  /\ Goto(d, IF At(d, "cFence") THEN "cClaim" ELSE "xDel1")
  /\ UNCHANGED <<storeVars, locals, lock, waiter, pending, late, rx, dropped, up, pod, fin, toCP>>

MarkDeleted(d) ==
  /\ At(d, "xDel1")
  /\ \/ Ctx(d) /\ MarkDeletedStatus /\ Goto(d, "xDel2")
     \/ /\ ~Ctx(d) \/ status \notin MarkDeletedFrom
        /\ Goto(d, "exit")
        /\ UNCHANGED storeVars
  /\ UNCHANGED <<locals, memVars, netVars>>

EndDeleted(d) ==
  /\ At(d, "xDel2")
  /\ IF Ctx(d) THEN EndLiveContainer("lost") ELSE UNCHANGED storeVars
  /\ Goto(d, "exit")
  /\ UNCHANGED <<locals, memVars, netVars>>

-----------------------------------------------------------------------------
(* The node: handle, startSpawn, stopSpawn, suspendSpawn *)

InStore(n) == pod[n].st \in {"attaching", "running", "gated"}
Reply(type, n, g) == [type |-> type, node |-> n, gen |-> g]

\* Mutant: a message for the pod's own generation is refused too.
StaleGenOrSame(m) == m.gen # 0 /\ InStore(m.node) /\ m.gen <= pod[m.node].gen

\* A control message for an older generation than the pod in the store.
StaleGen(m) == m.gen # 0 /\ InStore(m.node) /\ m.gen < pod[m.node].gen

\* startSpawn: a second pod or reservation for the spawn is refused.
NodeStart(m) ==
  /\ m \in toNode /\ m.type = "start"
  /\ toNode' = toNode \ {m}
  /\ IF pod[m.node].st = "none"
     THEN /\ pod' = [pod EXCEPT ![m.node] = [gen |-> m.gen, st |-> "creating", live |-> TRUE]]
          /\ UNCHANGED toCP
     ELSE /\ toCP' = toCP \cup {Reply("error", m.node, 0)}
          /\ UNCHANGED pod
  /\ UNCHANGED <<storeVars, drvVars, memVars, up, fin>>

\* Create commits the pod to the node's store: from now on it is in the inventory.
NodeCommit(n) ==
  /\ pod[n].st = "creating"
  /\ pod' = [pod EXCEPT ![n].st = "attaching"]
  /\ UNCHANGED <<storeVars, drvVars, memVars, up, fin, toNode, toCP>>

\* A goroutine reports over the stream it was started from, never over the
\* one the node dialled afterwards.
StatusSent(type, live, n, g) == IF live THEN toCP \cup {Reply(type, n, g)} ELSE toCP

NodeReady(n) ==
  /\ pod[n].st = "attaching"
  /\ pod' = [pod EXCEPT ![n].st = "running"]
  /\ toCP' = StatusSent("active", pod[n].live, n, 0)
  /\ UNCHANGED <<storeVars, drvVars, memVars, up, fin, toNode>>

NodeStartFails(n) ==
  /\ pod[n].st \in {"creating", "attaching"}
  /\ pod' = [pod EXCEPT ![n] = NoPod]
  /\ toCP' = StatusSent("error", pod[n].live, n, 0)
  /\ UNCHANGED <<storeVars, drvVars, memVars, up, fin, toNode>>

\* The startSpawn of an attaching pod that was taken away reports ERROR.
StartAborted(n) == IF pod[n].st = "attaching" THEN StatusSent("error", pod[n].live, n, 0) ELSE toCP

\* stopSpawn stops whatever generation the store holds; a pod still being
\* created is not in the store and survives.
NodeStop(m) ==
  /\ m \in toNode /\ m.type = "stop"
  /\ toNode' = toNode \ {m}
  /\ IF InStore(m.node) /\ ~StaleGen(m)
     THEN /\ pod' = [pod EXCEPT ![m.node] = NoPod]
          /\ toCP' = StartAborted(m.node)
     ELSE UNCHANGED <<pod, toCP>>
  /\ UNCHANGED <<storeVars, drvVars, memVars, up, fin>>

\* The suspend gate: the snapshot succeeds and the pod is left paused, or it
\* fails (or the spawn is unknown) and an error reply and ACTIVE go out.
NodeSuspend(m) ==
  /\ m \in toNode /\ m.type = "suspend"
  /\ toNode' = toNode \ {m}
  /\ \/ StaleGen(m) /\ UNCHANGED <<pod, fin, toCP>>
     \/ /\ ~StaleGen(m) /\ InStore(m.node)
        /\ pod' = [pod EXCEPT ![m.node].st = "gated"]
        /\ fin' = fin \cup {[node |-> m.node, gen |-> m.gen, live |-> TRUE]}
        /\ toCP' = StartAborted(m.node)
     \/ /\ ~StaleGen(m)
        /\ toCP' = toCP \cup {Reply("abort", m.node, m.gen), Reply("active", m.node, 0)}
        /\ UNCHANGED <<pod, fin>>
  /\ UNCHANGED <<storeVars, drvVars, memVars, up>>

\* FinishSuspend claims the pod from the store and replies; if the pod is gone
\* or the teardown fails only an ERROR status goes out.
NodeFinishSuspend(f) ==
  /\ f \in fin
  /\ fin' = fin \ {f}
  /\ pod' = IF InStore(f.node) THEN [pod EXCEPT ![f.node] = NoPod] ELSE pod
  /\ \/ InStore(f.node) /\ toCP' = StatusSent("ok", f.live, f.node, f.gen)
     \/ toCP' = StatusSent("error", f.live, f.node, 0)
  /\ UNCHANGED <<storeVars, drvVars, memVars, up, toNode>>

\* agentDeathReclaim.
NodePodDies(n) ==
  /\ "poddeath" \in Faults
  /\ pod[n].st = "running"
  /\ pod' = [pod EXCEPT ![n] = NoPod]
  /\ toCP' = StatusSent("error", pod[n].live, n, 0)
  /\ UNCHANGED <<storeVars, drvVars, memVars, up, fin, toNode>>

Inventory(n) == Reply("inventory", n, IF InStore(n) THEN pod[n].gen ELSE 0)

\* A heartbeat carries the running inventory; one is in flight at a time.
NodeHeartbeat(n) ==
  /\ n \in up
  /\ \A m \in toCP : ~(m.type = "inventory" /\ m.node = n)
  /\ toCP' = toCP \cup {Inventory(n)}
  /\ UNCHANGED <<storeVars, drvVars, memVars, up, pod, fin, toNode>>

-----------------------------------------------------------------------------
(* The control plane's receive loop for a node (runNode) *)

Idle(n) == rx[n] = Receiving

\* scheduler.OnStatus: matched by spawn id only.
RecvStatus(m) ==
  /\ m \in toCP /\ m.type \in {"active", "error"} /\ Idle(m.node)
  /\ toCP' = toCP \ {m}
  /\ res' = IF pending # NoDriver /\ res[pending] = "none" /\ prov[pending] = "wait"
            THEN [res EXCEPT ![pending] = m.type] ELSE res
  /\ UNCHANGED <<storeVars, pc, op, gen, target, cut, inbox, prov, memVars, up, pod, fin, toNode>>

\* A reply no waiter takes is handed to a reconcileLateSuspend goroutine.
LateAfter(type, g) == IF type = "ok" THEN late \cup {g} ELSE late

\* suspendWaiters.deliver: the waiter is looked up under the mutex ...
RecvSuspendComplete(m) ==
  /\ m \in toCP /\ m.type \in {"ok", "abort"} /\ Idle(m.node)
  /\ toCP' = toCP \ {m}
  /\ IF waiter # NoDriver /\ gen[waiter] = m.gen
     THEN /\ rx' = [rx EXCEPT ![m.node] = [st |-> "deliver", to |-> waiter, msg |-> m.type, gen |-> m.gen]]
          /\ UNCHANGED late
     ELSE /\ late' = LateAfter(m.type, m.gen)
          /\ UNCHANGED rx
  /\ UNCHANGED <<storeVars, drvVars, route, lock, waiter, pending, dropped, up, pod, fin, toNode>>

\* ... and its channel is written after the mutex is released; a full channel
\* refuses, and nobody reads the channel of a driver that has returned.
Deliver(n) ==
  /\ rx[n].st = "deliver"
  /\ rx' = [rx EXCEPT ![n] = Receiving]
  /\ IF inbox[rx[n].to] = "none" /\ ~At(rx[n].to, "done")
     THEN /\ inbox' = [inbox EXCEPT ![rx[n].to] = rx[n].msg]
          /\ UNCHANGED late
     ELSE /\ late' = IF At(rx[n].to, "done") THEN late ELSE LateAfter(rx[n].msg, rx[n].gen)
          /\ UNCHANGED inbox
  /\ UNCHANGED <<storeVars, pc, op, gen, target, cut, prov, res,
                 route, lock, waiter, pending, dropped, netVars>>

\* Mutant: a spawn that still has a route is taken to be alive.
NotReportedUnbound(n) ==
  /\ \E g \in LiveGens : containers[g] = [node |-> n, phase |-> "active"]
  /\ status \notin {"deleted", "suspending", "resuming"}
  /\ ~ClaimHeld
  /\ ~Bound

\* reconcileInventory.  A reported pod whose generation is live is adopted, any
\* other is told to stop; an unreported one is lost.
NotReported(n) ==
  /\ \E g \in LiveGens : containers[g] = [node |-> n, phase |-> "active"]
  /\ status \notin {"deleted", "suspending", "resuming"}
  /\ ~ClaimHeld

RecvInventory(m) ==
  /\ m \in toCP /\ m.type = "inventory" /\ Idle(m.node)
  /\ toCP' = toCP \ {m}
  /\ \/ /\ AdoptContainer(m.gen, m.node)
        /\ IF Bound
           THEN UNCHANGED <<route, rx>>
           ELSE /\ route' = StreamOf(m.node)
                /\ rx' = [rx EXCEPT ![m.node] = [@ EXCEPT !.st = "reach", !.gen = m.gen]]
        /\ UNCHANGED toNode
     \/ /\ m.gen # 0 /\ m.gen \notin LiveGens
        /\ toNode' = Sent("stop", StreamOf(m.node), m.gen)
        /\ UNCHANGED <<storeVars, route, rx>>
     \/ /\ m.gen = 0
        /\ rx' = IF NotReported(m.node) THEN [rx EXCEPT ![m.node].st = "lost"] ELSE rx
        /\ UNCHANGED <<storeVars, route, toNode>>
  /\ UNCHANGED <<drvVars, lock, waiter, pending, late, dropped, up, pod, fin>>

\* The adopter's MarkReachable after a fresh bind.
MarkReachable(n) ==
  /\ rx[n].st = "reach"
  /\ rx' = [rx EXCEPT ![n] = Receiving]
  /\ IF GuardContainerGen(rx[n].gen) THEN MarkReachableStatus ELSE UNCHANGED storeVars
  /\ UNCHANGED <<drvVars, route, lock, waiter, pending, late, dropped, netVars>>

\* The sweep decided before; the status guard is evaluated again by the UPDATE.
MarkLost(n) ==
  /\ rx[n].st = "lost"
  /\ rx' = [rx EXCEPT ![n] = Receiving]
  /\ Drop
  /\ MarkUnreachable
  /\ UNCHANGED <<drvVars, lock, waiter, pending, late, dropped, netVars>>

-----------------------------------------------------------------------------
(* Faults *)

\* The goroutines the nodes in ns started from the broken stream are mute.
Muted(ns) == [n \in Nodes |-> IF n \in ns THEN [pod[n] EXCEPT !.live = FALSE] ELSE pod[n]]
MutedFin(ns) == {IF f.node \in ns THEN [f EXCEPT !.live = FALSE] ELSE f : f \in fin}

\* The stream breaks: messages in flight are lost, runNode's teardown drops
\* the node's routes and, in a statement of its own, marks them unreachable.
NodeDown(n) ==
  /\ "nodeloss" \in Faults
  /\ n \in up
  /\ Idle(n)
  /\ up' = up \ {n}
  /\ toNode' = {m \in toNode : m.node # n}
  /\ toCP' = {m \in toCP : m.node # n}
  /\ IF route.node = n THEN Drop /\ dropped' = dropped \cup {n} ELSE UNCHANGED <<route, dropped>>
  /\ target' = [d \in Drivers |-> IF target[d].node = n THEN [target[d] EXCEPT !.live = FALSE] ELSE target[d]]
  /\ pod' = Muted({n})
  /\ fin' = MutedFin({n})
  /\ UNCHANGED <<storeVars, pc, op, gen, cut, inbox, prov, res, lock, waiter, pending, late, rx>>

MarkDropped(n) ==
  /\ n \in dropped
  /\ dropped' = dropped \ {n}
  /\ MarkUnreachable
  /\ UNCHANGED <<drvVars, route, lock, waiter, pending, late, rx, netVars>>

\* The node dials again; Register carries its inventory.
NodeUp(n) ==
  /\ n \notin up
  /\ up' = up \cup {n}
  /\ toCP' = toCP \cup {Inventory(n)}
  /\ UNCHANGED <<storeVars, drvVars, memVars, pod, fin, toNode>>

ClientDisconnect(d) ==
  /\ "disconnect" \in Faults
  /\ pc[d] \notin {"idle", "exit", "done"}
  /\ op[d] \notin {"create", "late"}
  /\ ~cut[d]
  /\ cut' = [cut EXCEPT ![d] = TRUE]
  /\ UNCHANGED <<storeVars, pc, op, gen, target, inbox, prov, res, memVars, netVars>>

LeaseExpires ==
  /\ claim = Orphan \/ "expiry" \in Faults
  /\ ExpireLease
  /\ UNCHANGED <<drvVars, memVars, netVars>>

\* The control plane dies; its memory and streams go, and the next process
\* sweeps the row before serving.
CPRestart ==
  /\ "crash" \in Faults
  /\ MarkBootUnreachable
  /\ pc' = [d \in Drivers |-> IF At(d, "idle") THEN "idle" ELSE "done"]
  /\ prov' = [d \in Drivers |-> "none"]
  /\ op' = [d \in Drivers |-> "create"]
  /\ gen' = [d \in Drivers |-> 1]
  /\ target' = [d \in Drivers |-> NoSender]
  /\ cut' = [d \in Drivers |-> FALSE]
  /\ inbox' = [d \in Drivers |-> "none"]
  /\ res' = [d \in Drivers |-> "none"]
  /\ route' = NoSender
  /\ lock' = NoDriver
  /\ waiter' = NoDriver
  /\ pending' = NoDriver
  /\ late' = {}
  /\ rx' = [n \in Nodes |-> Receiving]
  /\ dropped' = {}
  /\ up' = {}
  /\ toNode' = {}
  /\ toCP' = {}
  /\ pod' = Muted(Nodes)
  /\ fin' = MutedFin(Nodes)

-----------------------------------------------------------------------------

ClaimStep(d) == AcquireClaim(d) \/ TakeLock(d) \/ Exit(d)
SuspendStep(d) ==
  \/ SuspendGet(d) \/ SuspendTransition(d)
  \/ TakeReply(d) \/ SuspendStall(d) \/ SuspendWedged(d) \/ SuspendBail(d)
  \/ RevertGet(d) \/ RevertTransition(d)
  \/ GuardEpisode(d) \/ SetSuspended(d) \/ EndSuspended(d) \/ SuspendExit(d)
  \/ SetError(d) \/ EndErrored(d)
  \/ LateGet(d) \/ LateFlip(d)
ResumeStep(d) ==
  \/ ResumeGet(d) \/ StartEpisode(d) \/ ResumeRead(d) \/ ResumeTransition(d)
  \/ FailResume(d) \/ RevertSuspended(d) \/ EndReverted(d)
  \/ Provision(d) \/ ProvisionDone(d) \/ ResumeStall(d) \/ ResumeBail(d)
  \/ SetActive(d) \/ ActivateContainer(d) \/ ActivateFailed(d)
LockedStep(d) ==
  FenceOld(d) \/ MarkDeleted(d) \/ EndDeleted(d)
DriverStep(d) == ClaimStep(d) \/ SuspendStep(d) \/ ResumeStep(d) \/ LockedStep(d)

NodeMessage(m) == NodeStart(m) \/ NodeStop(m) \/ NodeSuspend(m)
NodeStep(n) == NodeCommit(n) \/ NodeReady(n) \/ NodeStartFails(n)
RecvMessage(m) == RecvStatus(m) \/ RecvSuspendComplete(m) \/ RecvInventory(m)
LoopStep(n) == Deliver(n) \/ MarkReachable(n) \/ MarkLost(n) \/ MarkDropped(n)

Next ==
  \/ \E d \in Drivers :
       \/ DriverStep(d)
       \/ \E o \in Ops : Begin(d, o)
       \/ BeginLate(d)
       \/ ProvisionReturn(d)
       \/ ClaimHeartbeat(d)
       \/ ClientDisconnect(d)
  \/ \E m \in toNode : NodeMessage(m)
  \/ \E f \in fin : NodeFinishSuspend(f)
  \/ \E m \in toCP : RecvMessage(m)
  \/ \E n \in Nodes : NodeStep(n) \/ NodePodDies(n) \/ NodeHeartbeat(n) \/ LoopStep(n) \/ NodeDown(n) \/ NodeUp(n)
  \/ LeaseExpires
  \/ CPRestart

Spec == Init /\ [][Next]_vars

\* Goroutines and timers run, streams deliver, nodes heartbeat and redial.
Fairness ==
  /\ \A d \in Drivers :
       /\ WF_vars(DriverStep(d))
       /\ WF_vars(BeginLate(d))
       /\ WF_vars(ProvisionReturn(d))
       /\ WF_vars(ClaimHeartbeat(d))
  /\ \A m \in CPMsg : WF_vars(NodeMessage(m))
  /\ \A m \in NodeMsg : WF_vars(RecvMessage(m))
  /\ \A f \in Finishing : WF_vars(NodeFinishSuspend(f))
  /\ \A n \in Nodes :
       /\ WF_vars(NodeStep(n))
       /\ WF_vars(LoopStep(n))
       /\ WF_vars(NodeHeartbeat(n))
       /\ WF_vars(NodeUp(n))
  /\ WF_vars(claim = Orphan /\ LeaseExpires)

FairSpec == Spec /\ Fairness

-----------------------------------------------------------------------------
(* Safety *)

\* A driver between a status statement and the endLiveContainer that follows it.
EndPcs == {"susp2", "rev2", "err2", "xDel2"}
Settled == \A d \in Drivers : pc[d] \notin EndPcs

\* Once every driver has finished the second statement of its SetSuspended,
\* SetError, MarkDeleted or RevertSuspended, a dormant spawn has no live
\* container row, so adoptOrStop reaps its pods instead of adopting them.
DormantHasNoEpisode == Settled /\ status \in {"suspended", "errored", "deleted"} => LiveGens = {}

\* The converse: a spawn that runs, or is being provisioned by create or
\* recreate, has a live container row for its pod to be adopted under.
RunningHasRow == Settled /\ status \in {"active", "starting"} => LiveGens # {}

\* A suspend driver that will still write the status out of "suspending".
SuspendOwner(d) ==
  /\ claim = d
  /\ op[d] \in SuspendOps
  /\ pc[d] \in {"sWait", "sDrain", "susp0", "susp1", "err1"} \cup RevertGets \cup RevertTranss
ResumeOwner(d) ==
  /\ op[d] \in ResumeOps
  /\ pc[d] \in {"prov", "wait", "act1", "actFail", "fail", "rev0", "rev1", "err1"}

\* A transient status with a live episode is owned by a driver that has yet to
\* resolve it: every return of suspendLocked, handleSuspendReply, resumeLocked
\* and failResume leaves Suspending and Resuming behind (while no context is
\* cancelled and no lease expires).
TransientOwned ==
  /\ status = "suspending" /\ LiveGens # {} => \E d \in Drivers : SuspendOwner(d)
  /\ status = "resuming" /\ LiveGens # {} => \E d \in Drivers : ResumeOwner(d)

\* A driver blocked on its waiter's channel is the registered waiter: "the DB
\* claim serialises suspends, so at most one waiter per spawn is ever live"
\* (lifecycle.go:61-62).
OneWaiter == \A d \in Drivers : At(d, "sWait") => waiter = d

\* A generation has a pod on at most one node.  adoptOrStop adopts whatever pod
\* reports the live generation, so this is what keeps two nodes from serving
\* the same episode ("split-brain is not expressible", restart-readoption design
\* 4.3): no retry, restart or failed operation sends a second Start for it.
EpisodeOnOneNode ==
  \A n1, n2 \in Nodes :
    pod[n1].st # "none" /\ pod[n2].st # "none" /\ pod[n1].gen = pod[n2].gen => n1 = n2

-----------------------------------------------------------------------------
(* Action properties *)

\* TransitionClaimed has no status predicate, yet suspendLocked only ever moves
\* an Active spawn to Suspending, however long ago it read the row.
SuspendingFromActive == [][status' = "suspending" => status = "active"]_status

\* A lease that has not expired is given up only by its holder's own Release
\* (or with the control plane's memory): the Release of a driver whose lease
\* was taken over leaves the new lease alone.
LeaseNotStolen ==
  [][\A d \in Drivers : claim = d /\ ~expired /\ claim' # d => At(d, "exit") \/ claim' = Orphan]_claim

\* reconcileLateSuspend's "Gen fence" (lifecycle.go:617-619): the flip to
\* Suspended is only made for the newest episode.
LateFlipFenced ==
  [][\A d \in Drivers : At(d, "lFlip") /\ pc'[d] # "lFlip" /\ status' # status
        => MaxGeneration = gen[d]]_vars

-----------------------------------------------------------------------------
(* Liveness, under FairSpec *)

\* No transition hangs: a spawn that is starting, suspending or resuming
\* reaches a status in which it rests.
TransientResolves ==
  status \in {"starting", "suspending", "resuming"} ~>
    status \notin {"starting", "suspending", "resuming"}

\* Every goroutine of the control plane returns: the lock, the claim, the waiter
\* channel, the pending table and the stall timers never wait on each other.
EveryOpReturns == \A d \in Drivers : ~At(d, "idle") ~> At(d, "done")

\* A lease never blocks the spawn for ever: its driver releases it, or it
\* expires after the control plane that held it died.
LeaseFreed == ClaimHeld ~> ~ClaimHeld

\* A pod left running outside the live generation (its Start was overtaken by a
\* recreate, a stop or a failed provision) is found by the inventory sweep and
\* stopped.
Orphaned(n) == pod[n].st = "running" /\ pod[n].gen \notin LiveGens
OrphanReaped == \A n \in Nodes : Orphaned(n) ~> ~Orphaned(n)

\* A spawn recorded Active whose agent exited is noticed: some pod runs again
\* or the status changes.
Dead == status = "active" /\ \A n \in Nodes : pod[n].st = "none"
DeadPodNoticed == Dead ~> ~Dead

\* adoptOrStop's "Wait->adopt" (server.go:950-951): an unreachable spawn whose
\* node is back with the live pod becomes active again.
Returned(n) ==
  /\ status = "unreachable"
  /\ n \in up
  /\ pod[n].st = "running"
  /\ pod[n].gen \in LiveGens
AdoptedAgain == \A n \in Nodes : Returned(n) ~> ~Returned(n)

=============================================================================
