------------------------------- MODULE Readopt -------------------------------
(* Re-adoption of running pods after the node process restarted:             *)
(* internal/node/readopt.go (the handshake), internal/cp/readopt.go (the     *)
(* verdicts), internal/spawnlet/adopt.go (rebuild and reap) and the start    *)
(* gate of internal/node/attach.go.                                          *)
(*                                                                           *)
(* One attempt goroutine per connection; an attempt of a broken connection   *)
(* keeps running under a cancelled context, beside the next one.  Under a    *)
(* cancelled context every runtime call fails, except two that run           *)
(* WithoutCancel: the rollback of the egress floor and the Stop of a pod.    *)
EXTENDS Naturals, FiniteSets

CONSTANTS
  Spawns,
  MaxGen,   \* bound on generations
  MaxConn,  \* bound on connections; the last one stays up
  Faults    \* subset of {"break", "restart", "store", "runtime", "ledger"}

ASSUME ReadoptAssumption ==
  /\ MaxGen \in Nat \ {0}
  /\ MaxConn \in Nat \ {0}

VARIABLES
  live, last, busy,      \* the ledger, per spawn (see PodCustody)
  starts,                \* [spawn -> generation of a StartSpawn on the stream, or 0]
  pod,                   \* [spawn -> generation of the running pod, or 0]
  floor,                 \* [spawn -> generations whose egress rules are installed]
  tracked,               \* [spawn -> generation in the manager's store, or 0]
  linked, conns,         \* the stream is up; connections made so far
  done, gate, waiting, answer,  \* readoptState, which outlives connections
  att,                   \* [connection -> attempt goroutine]
  wire                   \* the report or the decisions under way, or NoMsg

ledgerVars == <<live, last, busy, starts>>
podVars == <<pod, floor, tracked>>
stateVars == <<done, gate, waiting, answer>>
vars == <<ledgerVars, podVars, linked, conns, stateVars, att, wire>>

Gens == 0..MaxGen
Conns == 1..MaxConn
Verdicts == {"none", "adopt", "reap", "defer"}
Pcs == {"idle", "begin", "list", "send", "wait", "apply", "floor", "env", "put", "dial",
        "reapVerdict", "reapFailed", "end"}

NoMsg == [type |-> "none"]
Reports == [type : {"report"}, id : Conns, obs : [Spawns -> Gens]]
Answers == [type : {"decisions"}, id : Conns, obs : [Spawns -> Gens],
            verdict : [Spawns -> Verdicts]]

Nothing == [s \in Spawns |-> 0]
Idle == [pc |-> "idle", obs |-> Nothing, todo |-> [s \in Spawns |-> "none"], cur |-> {}]

Attempts == [pc : Pcs, obs : [Spawns -> Gens], todo : [Spawns -> Verdicts], cur : SUBSET Spawns]

LedgerTypeOK ==
  /\ live \in [Spawns -> Gens] /\ last \in [Spawns -> 1..MaxGen] /\ starts \in [Spawns -> Gens]

PodTypeOK ==
  /\ pod \in [Spawns -> Gens] /\ floor \in [Spawns -> SUBSET Gens]
  /\ tracked \in [Spawns -> Gens]

LinkTypeOK ==
  /\ conns \in 0..MaxConn /\ waiting \in 0..MaxConn
  /\ answer \in Answers \cup {NoMsg}
  /\ wire \in Reports \cup Answers \cup {NoMsg}

FlagTypeOK ==
  linked \in BOOLEAN /\ done \in BOOLEAN /\ gate \in BOOLEAN /\ busy \in [Spawns -> BOOLEAN]

TypeOK ==
  LedgerTypeOK /\ PodTypeOK /\ LinkTypeOK /\ FlagTypeOK /\ att \in [Conns -> Attempts]

(* The node process has just started: its pods run, its memory is empty.     *)
Init ==
  /\ last \in [Spawns -> 1..MaxGen]
  /\ live \in {f \in [Spawns -> Gens] : \A s \in Spawns : f[s] \in {0, last[s]}}
  /\ pod \in {f \in [Spawns -> Gens] : \A s \in Spawns : f[s] <= last[s]}
  /\ floor = [s \in Spawns |-> IF pod[s] = 0 THEN {} ELSE {pod[s]}]
  /\ busy = [s \in Spawns |-> FALSE]
  /\ starts = Nothing
  /\ tracked = Nothing
  /\ linked = FALSE /\ conns = 0
  /\ done = FALSE /\ gate = FALSE /\ waiting = 0 /\ answer = NoMsg
  /\ att = [c \in Conns |-> Idle]
  /\ wire = NoMsg

(* The context of connection c is not cancelled.                             *)
Alive(c) == linked /\ c = conns

---------------------------------------------------------------------------
(* The ledger: what the lifecycle drivers do to the rows meanwhile.          *)

(* A driver claims the spawn, or enters Suspending, Resuming or Forking.     *)
DriverBegins(s) ==
  /\ "ledger" \in Faults
  /\ live[s] # 0 /\ ~busy[s]
  /\ busy' = [busy EXCEPT ![s] = TRUE]
  /\ UNCHANGED <<live, last, starts, podVars, linked, conns, stateVars, att, wire>>

(* ... and finishes: the row lives on, or has ended.                         *)
DriverEnds(s) ==
  /\ busy[s]
  /\ busy' = [busy EXCEPT ![s] = FALSE]
  /\ live' \in {live, [live EXCEPT ![s] = 0]}
  /\ UNCHANGED <<last, starts, podVars, linked, conns, stateVars, att, wire>>

(* ClaimStarting of the next episode; its StartSpawn goes to the node.       *)
StartEpisode(s) ==
  /\ "ledger" \in Faults
  /\ ~busy[s] /\ last[s] < MaxGen
  /\ last' = [last EXCEPT ![s] = @ + 1]
  /\ live' = [live EXCEPT ![s] = last[s] + 1]
  /\ busy' = [busy EXCEPT ![s] = TRUE]
  /\ starts' = IF linked THEN [starts EXCEPT ![s] = last[s] + 1] ELSE starts
  /\ UNCHANGED <<podVars, linked, conns, stateVars, att, wire>>

---------------------------------------------------------------------------
(* Connections and the node process.                                         *)

(* runOnce: register, then the attempt on a goroutine of its own.            *)
Connect ==
  /\ ~linked /\ conns < MaxConn
  /\ conns' = conns + 1 /\ linked' = TRUE
  /\ att' = [att EXCEPT ![conns + 1].pc = "begin"]
  /\ UNCHANGED <<ledgerVars, podVars, stateVars, wire>>

(* The stream dies: messages under way are lost, the attempt runs on.        *)
Break ==
  /\ "break" \in Faults
  /\ linked /\ conns < MaxConn
  /\ linked' = FALSE
  /\ wire' = NoMsg /\ starts' = Nothing
  /\ UNCHANGED <<live, last, busy, podVars, conns, stateVars, att>>

(* The process ends (SIGTERM detaches, a crash does the same to the pods)    *)
(* and a new one boots: pods and firewall rules stay, memory is gone.        *)
NodeRestart ==
  /\ "restart" \in Faults
  /\ linked /\ conns < MaxConn
  /\ linked' = FALSE
  /\ wire' = NoMsg /\ starts' = Nothing
  /\ tracked' = Nothing
  /\ done' = FALSE /\ gate' = FALSE /\ waiting' = 0 /\ answer' = NoMsg
  /\ att' = [c \in Conns |-> IF c <= conns THEN [Idle EXCEPT !.pc = "end"] ELSE att[c]]
  /\ UNCHANGED <<live, last, busy, pod, floor, conns>>

---------------------------------------------------------------------------
(* reconcileManagedPods, one attempt per connection.                         *)

Goto(c, pc) == att' = [att EXCEPT ![c].pc = pc]

(* Nothing to do once an attempt has completed.                              *)
Begin(c) ==
  /\ att[c].pc = "begin"
  /\ Goto(c, IF done THEN "end" ELSE "list")
  /\ UNCHANGED <<ledgerVars, podVars, linked, conns, stateVars, wire>>

UntrackedPods == [s \in Spawns |-> IF tracked[s] = 0 THEN pod[s] ELSE 0]

ListPods(c) ==
  /\ att[c].pc = "list" /\ Alive(c)
  /\ att' = [att EXCEPT ![c].pc = "send", ![c].obs = UntrackedPods]
  /\ UNCHANGED <<ledgerVars, podVars, linked, conns, stateVars, wire>>

(* The runtime cannot be listed: serve anyway, the next connection retries.  *)
ListFails(c) ==
  /\ att[c].pc = "list"
  /\ ~Alive(c) \/ "runtime" \in Faults
  /\ gate' = TRUE
  /\ Goto(c, "end")
  /\ UNCHANGED <<ledgerVars, podVars, linked, conns, done, waiting, answer, wire>>

(* A send on a dead stream ends the attempt with the gate shut.              *)
SendReport(c) ==
  /\ att[c].pc = "send"
  /\ waiting' = c
  /\ IF Alive(c)
       THEN /\ wire' = [type |-> "report", id |-> c, obs |-> att[c].obs]
            /\ Goto(c, "wait")
       ELSE /\ Goto(c, "end")
            /\ UNCHANGED wire
  /\ UNCHANGED <<ledgerVars, podVars, linked, conns, done, gate, answer>>

(* Mutant: a store error counts as "no live row".                            *)
VerdictErrorReaps(s, g) ==
  IF g = 0 THEN {"none"}
  ELSE (IF "store" \in Faults THEN {"reap"} ELSE {})
       \cup {IF live[s] # g THEN "reap" ELSE IF busy[s] THEN "defer" ELSE "adopt"}

(* readoptDecision: a failed read defers; reap needs the positive fact that  *)
(* the pod's generation is not the live one.                                 *)
Verdict(s, g) ==
  IF g = 0 THEN {"none"}
  ELSE (IF "store" \in Faults THEN {"defer"} ELSE {})
       \cup {IF live[s] # g THEN "reap" ELSE IF busy[s] THEN "defer" ELSE "adopt"}

(* handleManagedPodsReport answers every report, pod by pod.                 *)
Decide ==
  /\ wire.type = "report"
  /\ \E v \in [Spawns -> Verdicts] :
        /\ \A s \in Spawns : v[s] \in Verdict(s, wire.obs[s])
        /\ wire' = [type |-> "decisions", id |-> wire.id, obs |-> wire.obs, verdict |-> v]
  /\ UNCHANGED <<ledgerVars, podVars, linked, conns, stateVars, att>>

(* readoptState.deliver: only for the request waited on, keep the first.     *)
Deliver ==
  /\ wire.type = "decisions"
  /\ answer' = IF waiting = wire.id /\ answer = NoMsg THEN wire ELSE answer
  /\ wire' = NoMsg
  /\ UNCHANGED <<ledgerVars, podVars, linked, conns, done, gate, waiting, att>>

(* A verdict counts for the very generation it was asked about.              *)
Applicable(s, obs, d) ==
  /\ d.verdict[s] \in {"adopt", "reap"}
  /\ obs[s] # 0 /\ d.obs[s] = obs[s]

(* The wait ends with whatever is buffered, be it the answer to an earlier   *)
(* attempt: the channel outlives the connection and is not checked again.    *)
TakeAnswer(c) ==
  /\ att[c].pc = "wait" /\ answer # NoMsg
  /\ att' = [att EXCEPT ![c].pc = "apply",
                        ![c].todo = [s \in Spawns |->
                           IF Applicable(s, att[c].obs, answer) THEN answer.verdict[s] ELSE "none"]]
  /\ answer' = NoMsg
  /\ UNCHANGED <<ledgerVars, podVars, linked, conns, done, gate, waiting, wire>>

WaitCancelled(c) ==
  /\ att[c].pc = "wait" /\ ~Alive(c)
  /\ Goto(c, "end")
  /\ UNCHANGED <<ledgerVars, podVars, linked, conns, stateVars, wire>>

(* The control plane is silent: serve anyway, waitingID stays.               *)
WaitTimesOut(c) ==
  /\ att[c].pc = "wait"
  /\ gate' = TRUE
  /\ Goto(c, "end")
  /\ UNCHANGED <<ledgerVars, podVars, linked, conns, done, waiting, answer, wire>>

(* The loop over the pods: applyReadopt for the next one.                    *)
ApplyNext(c) ==
  /\ att[c].pc = "apply"
  /\ \E s \in Spawns :
        /\ att[c].todo[s] # "none"
        /\ att' = [att EXCEPT ![c].cur = {s}, ![c].todo[s] = "none",
                              ![c].pc = IF att[c].todo[s] = "reap" THEN "reapVerdict" ELSE "floor"]
  /\ UNCHANGED <<ledgerVars, podVars, linked, conns, stateVars, wire>>

(* Mutant: the gate is only opened for an attempt that is still connected.   *)
ApplyDoneShut(c) ==
  /\ att[c].pc = "apply" /\ \A s \in Spawns : att[c].todo[s] = "none"
  /\ done' = TRUE /\ waiting' = 0 /\ gate' = (gate \/ Alive(c))
  /\ att' = [att EXCEPT ![c] = [Idle EXCEPT !.pc = "end"]]
  /\ UNCHANGED <<ledgerVars, podVars, linked, conns, answer, wire>>

(* After the loop the handshake counts as completed, whatever was left.      *)
ApplyDone(c) ==
  /\ att[c].pc = "apply" /\ \A s \in Spawns : att[c].todo[s] = "none"
  /\ done' = TRUE /\ waiting' = 0 /\ gate' = TRUE
  /\ att' = [att EXCEPT ![c] = [Idle EXCEPT !.pc = "end"]]
  /\ UNCHANGED <<ledgerVars, podVars, linked, conns, answer, wire>>

---------------------------------------------------------------------------
(* Manager.Adopt and adoptPod for the spawn the attempt is at.               *)

At(c, s, pc) == att[c].pc = pc /\ att[c].cur = {s}

(* Checks and mount table, then the floor: remove, apply, fail closed.  The   *)
(* rules that were removed stay removed when they cannot be applied again.   *)
AdoptFloor(c, s) ==
  /\ At(c, s, "floor")
  /\ \/ /\ Alive(c)
        /\ floor' = [floor EXCEPT ![s] = @ \cup {att[c].obs[s]}]
        /\ Goto(c, "env")
     \/ /\ ~Alive(c)
        /\ Goto(c, "reapFailed")
        /\ UNCHANGED floor
     \/ /\ "runtime" \in Faults
        /\ floor' \in {floor, [floor EXCEPT ![s] = @ \ {att[c].obs[s]}]}
        /\ Goto(c, "reapFailed")
  /\ UNCHANGED <<ledgerVars, pod, tracked, linked, conns, stateVars, wire>>

(* Read the sidecar's environment; a failure rolls the floor back.           *)
AdoptEnv(c, s) ==
  /\ At(c, s, "env")
  /\ \/ /\ Alive(c) /\ pod[s] = att[c].obs[s]
        /\ Goto(c, "put")
        /\ UNCHANGED floor
     \/ /\ ~Alive(c) \/ pod[s] # att[c].obs[s] \/ "runtime" \in Faults
        /\ floor' = [floor EXCEPT ![s] = @ \ {att[c].obs[s]}]
        /\ Goto(c, "reapFailed")
  /\ UNCHANGED <<ledgerVars, pod, tracked, linked, conns, stateVars, wire>>

(* store.Put, over whatever entry is there.                                  *)
AdoptPut(c, s) ==
  /\ At(c, s, "put")
  /\ tracked' = [tracked EXCEPT ![s] = att[c].obs[s]]
  /\ Goto(c, "dial")
  /\ UNCHANGED <<ledgerVars, pod, floor, linked, conns, stateVars, wire>>

(* Re-dial the agent; a failure detaches whatever entry is there now.        *)
AdoptDial(c, s) ==
  /\ At(c, s, "dial")
  /\ \/ /\ Alive(c) /\ pod[s] = att[c].obs[s]
        /\ Goto(c, "apply")
        /\ UNCHANGED tracked
     \/ /\ ~Alive(c) \/ pod[s] # att[c].obs[s] \/ "runtime" \in Faults
        /\ tracked' = [tracked EXCEPT ![s] = 0]
        /\ Goto(c, "reapFailed")
  /\ UNCHANGED <<ledgerVars, pod, floor, linked, conns, stateVars, wire>>

(* Mutant: the stop goes by the name of the spawn, not by the container ids  *)
(* of the pod that was listed.                                               *)
ReapPodByName(c, s) ==
  /\ At(c, s, "reapVerdict") \/ At(c, s, "reapFailed")
  /\ pod' \in {pod, [pod EXCEPT ![s] = 0]}
  /\ floor' \in {floor, [floor EXCEPT ![s] = @ \ {att[c].obs[s]}]}
  /\ Goto(c, "apply")
  /\ UNCHANGED <<ledgerVars, tracked, linked, conns, stateVars, wire>>

(* Capture, stop the pod it was asked about, drop its floor whether or not   *)
(* the stop worked.  Both backends detach the stop from the context of the   *)
(* attempt, so it works on a dead connection too; the removal of the floor   *)
(* (and the capture) do not.                                                 *)
ReapPod(c, s) ==
  /\ At(c, s, "reapVerdict") \/ At(c, s, "reapFailed")
  /\ \/ pod' = IF pod[s] = att[c].obs[s] THEN [pod EXCEPT ![s] = 0] ELSE pod
     \/ "runtime" \in Faults /\ UNCHANGED pod
  /\ \/ /\ Alive(c)
        /\ floor' = [floor EXCEPT ![s] = @ \ {att[c].obs[s]}]
     \/ /\ ~Alive(c) \/ "runtime" \in Faults
        /\ UNCHANGED floor
  /\ Goto(c, "apply")
  /\ UNCHANGED <<ledgerVars, tracked, linked, conns, stateVars, wire>>

---------------------------------------------------------------------------
(* Work the control plane sends meanwhile.                                   *)

(* handle(Start) behind the gate.  A pod of the same name that nobody tracks *)
(* makes the start fail (Docker) or is replaced (CRI).                       *)
NodeStart(s) ==
  /\ starts[s] # 0 /\ linked /\ gate
  /\ starts' = [starts EXCEPT ![s] = 0]
  /\ \/ /\ tracked[s] = 0 /\ pod[s] < starts[s]
        /\ pod' = [pod EXCEPT ![s] = starts[s]]
        /\ tracked' = [tracked EXCEPT ![s] = starts[s]]
        /\ floor' = [floor EXCEPT ![s] = @ \cup {starts[s]}]
     \/ /\ tracked[s] # 0 \/ pod[s] # 0
        /\ UNCHANGED podVars
  /\ UNCHANGED <<live, last, busy, linked, conns, stateVars, att, wire>>

(* handle(Stop/Suspend) for a tracked pod: a driver at work, or the orphan   *)
(* arm of the inventory.                                                     *)
NodeStop(s) ==
  /\ tracked[s] # 0 /\ linked
  /\ busy[s] \/ live[s] # tracked[s]
  /\ tracked' = [tracked EXCEPT ![s] = 0]
  /\ floor' = [floor EXCEPT ![s] = @ \ {tracked[s]}]
  /\ pod' = IF pod[s] = tracked[s] THEN [pod EXCEPT ![s] = 0] ELSE pod
  /\ UNCHANGED <<ledgerVars, linked, conns, stateVars, att, wire>>

---------------------------------------------------------------------------
Attempt(c) ==
  \/ Begin(c) \/ ListPods(c) \/ ListFails(c) \/ SendReport(c)
  \/ TakeAnswer(c) \/ WaitCancelled(c) \/ WaitTimesOut(c)
  \/ ApplyNext(c) \/ ApplyDone(c)
  \/ \E s \in Spawns : \/ AdoptFloor(c, s) \/ AdoptEnv(c, s) \/ AdoptPut(c, s)
                       \/ AdoptDial(c, s) \/ ReapPod(c, s)

Next ==
  \/ Connect \/ Break \/ NodeRestart \/ Decide \/ Deliver
  \/ \E s \in Spawns : \/ DriverBegins(s) \/ DriverEnds(s) \/ StartEpisode(s)
                       \/ NodeStart(s) \/ NodeStop(s)
  \/ \E c \in Conns : Attempt(c)

Spec == Init /\ [][Next]_vars

(* Goroutines run, the redial loop redials, the control plane answers.       *)
FairSpec ==
  /\ Spec
  /\ WF_vars(Connect) /\ WF_vars(Decide) /\ WF_vars(Deliver)
  /\ \A c \in Conns : WF_vars(Attempt(c))
  /\ \A s \in Spawns : WF_vars(DriverEnds(s))

---------------------------------------------------------------------------
(* The spawns whose pod, as it was listed, could not be rebuilt.             *)
Rebuilding ==
  {s \in Spawns : \E c \in Conns : At(c, s, "reapFailed") /\ att[c].obs[s] = pod[s]}

(* The handshake keeps the promise of PodCustody: the pod of a live, unowned *)
(* episode only goes when its own rebuild failed under a verdict to adopt it *)
(* (readopt.go applyReadopt, cp/readopt.go readoptDecision), however old the *)
(* verdict is when it is applied and whichever connection applies it.        *)
Custody == INSTANCE PodCustody WITH rebuilding <- Rebuilding
CustodyKept == Custody!Spec

(* "A CP blip must never become data loss" (readopt.go): while the control   *)
(* plane is away, the pod of a live, unowned episode is not destroyed.       *)
BlipSparesPods ==
  [][\A s \in Spawns : ~linked /\ pod[s] # 0 /\ live[s] = pod[s] /\ ~busy[s]
        => pod'[s] = pod[s]]_vars

(* A verdict to reap generation g of s is under way: in the stream, in the   *)
(* answer channel or in an attempt.                                          *)
ReapUnderWay(s, g) ==
  \/ \E m \in {wire, answer} :
        m.type = "decisions" /\ m.verdict[s] = "reap" /\ m.obs[s] = g
  \/ \E c \in Conns : (att[c].todo[s] = "reap" \/ At(c, s, "reapVerdict")) /\ att[c].obs[s] = g

(* Generation g of s is over for good: it is not live, and g is not handed   *)
(* out again.                                                                *)
Over(s, g) == g # 0 /\ g # live[s] /\ g <= last[s]

(* A reap verdict stays true until it is applied, however many connections,  *)
(* restarts and new episodes later: the generation it names is over          *)
(* (cp/readopt.go readoptDecision, node/readopt.go applyReadopt).            *)
VerdictsStayTrue == \A s \in Spawns, g \in Gens : ReapUnderWay(s, g) => Over(s, g)

(* A wedged handshake does not wedge the node: the start gate opens          *)
(* (readopt.go openGate), whatever happens to the first connections.         *)
GateOpens == ~gate ~> gate

=============================================================================
