-------------------------------- MODULE Pump --------------------------------
(* The relay of one ACP session (internal/node/pump.go): it serialises the  *)
(* prompts of its clients onto one agent, holds them back while a fork is   *)
(* captured, answers the agent's permission requests, and replays an        *)
(* append-only log of numbered frames to whoever is attached.               *)
(*                                                                          *)
(* Every goroutine of the code takes p.mu for one critical section and does *)
(* the rest (log frames, send the prompt, write a line) after the unlock:   *)
(* the section is an action, the rest is the goroutine's job.  The agent    *)
(* and the browser tab with its control-plane route are the environment.    *)
(* The model starts when the ACP handshake is done.                         *)
EXTENDS Integers, Sequences, FiniteSets

CONSTANTS
  Perms,      \* permission requests the agent may make
  MaxQueued,  \* queue bound
  MaxLog,     \* frames the log retains
  LineCap,    \* buffer of the channel to the agent
  Budgets     \* what clients, forks and the agent may do in a behaviour

ASSUME PumpAssumption ==
  /\ {"rx", "rd", "fork"} \cap Perms = {}
  /\ {MaxLog, LineCap} \subseteq Nat \ {0}
  /\ MaxQueued \in Nat
  /\ Budgets \subseteq [prompts : Nat, controls : Nat, perms : SUBSET Perms, opens : Nat,
                        updates : Nat, forks : Nat]

VARIABLES
  budget,    \* bounds of this behaviour
  \* the turn
  busy,      \* a turn was started and has not ended
  queue,     \* prompts waiting for the turn, in order
  inflight,  \* the session/prompt sent last and not answered
  barrier,   \* the fork's ingress barrier is up
  fork,      \* the fork goroutine: idle, acquiring or holding the barrier
  forks,     \* forks started
  \* goroutines and channels
  job,       \* what each goroutine does after its critical section
  ended,     \* readLoop has matched the result of the turn in flight
  toAgent,   \* lines for the writer
  pending,   \* permission requests without an answer
  stopped,   \* stop() ran
  \* frame log and subscribers
  seq,       \* number of the last frame
  base,      \* number of the last frame trimmed
  conn,      \* client record and clientLoop of each attachment
  \* control plane and browser tab
  down,      \* messages to the node, in order
  routed,    \* attachments the control plane relays for
  socket,    \* the tab's live connection, 0 if it has none
  opened,    \* attachments made
  submitted, \* prompts clients have sent: they are numbered in that order
  controls,  \* cancel and set_mode frames they have sent
  shown,     \* what the tab shows: where it started, then frame numbers
  sent,      \* history: what each attachment was sent since its cursor or last reset
  told,      \* permission requests the tab was shown
  replied,   \* answers clients have sent, per request
  \* the agent
  turn,      \* prompts it has not answered
  asked,     \* permission requests it waits for
  answers,   \* answers it got, per request
  out,       \* its output, not yet read
  updates,   \* notifications it has sent
  \* history
  accepted,  \* prompts in the order the pump took them
  received   \* prompts in the order the agent got them

turnVars == <<busy, queue, inflight, barrier>>
forkVars == <<fork, forks>>
logVars == <<seq, base>>
tabVars == <<routed, socket, opened, submitted, controls, replied>>
viewVars == <<shown, sent>>
agentVars == <<turn, asked, answers, updates, received>>
vars == <<turnVars, forkVars, job, ended, toAgent, pending, stopped,
          logVars, conn, down, tabVars, viewVars, told, agentVars, out, accepted, budget>>

NoPrompt == 0
Conns == 1 .. budget.opens
\* The most attachments a behaviour may make.
MaxOpens == CHOOSE n \in {b.opens : b \in Budgets} : \A b \in Budgets : b.opens <= n

Actors == {"rx", "rd", "fork"} \cup Perms

PromptLine(p) == [kind |-> "prompt", id |-> p]
AnswerLine(q) == [kind |-> "answer", id |-> q]
ControlLine == [kind |-> "control", id |-> 0]

\* A job: frames to log, then a prompt to send, then a line to write.
NoLine == [kind |-> "none", id |-> 0]
Job(n, p, l) == [frames |-> n, prompt |-> p, line |-> l]
NoJob == Job(0, NoPrompt, NoLine)
Idle(a) == job[a] = NoJob
Does(a, j) == job' = [job EXCEPT ![a] = j]

Last(s) == s[Len(s)]
Max2(a, b) == IF a > b THEN a ELSE b

NewConn == [on |-> "none", cursor |-> 0, notify |-> FALSE, phase |-> "wait",
            reset |-> -1, lo |-> 0, hi |-> 0]
Live == {k \in Conns : conn[k].on = "live"}

----------------------------------------------------------------------------
(* The log.                                                                 *)

\* appendFrames of n frames: number them, trim, wake the clients.
AppendFrames(n) ==
  /\ seq' = seq + n
  /\ base' = Max2(base, seq + n - MaxLog)
  /\ conn' = [k \in Conns |-> IF k \in Live THEN [conn[k] EXCEPT !.notify = TRUE] ELSE conn[k]]

\* A goroutine logs the frames of its job.
LogFrames(a) ==
  /\ job[a].frames > 0
  /\ AppendFrames(job[a].frames)
  /\ Does(a, [job[a] EXCEPT !.frames = 0])
  /\ UNCHANGED <<turnVars, forkVars, ended, toAgent, pending, stopped, down,
                 tabVars, viewVars, told, agentVars, out, accepted, budget>>

\* sendPrompt: the request is recorded as in flight before it is written.
SendPrompt(a) ==
  /\ job[a].frames = 0
  /\ job[a].prompt # NoPrompt
  /\ inflight' = job[a].prompt
  /\ Does(a, Job(0, NoPrompt, PromptLine(job[a].prompt)))
  /\ UNCHANGED <<busy, queue, barrier, forkVars, ended, toAgent, pending, stopped,
                 logVars, conn, down, tabVars, viewVars, told, agentVars, out, accepted, budget>>

\* sendLine: blocks while the channel is full, gives up once stopped.
SendLine(a) ==
  /\ job[a].frames = 0
  /\ job[a].line # NoLine
  /\ \/ Len(toAgent) < LineCap /\ toAgent' = Append(toAgent, job[a].line)
     \/ stopped /\ UNCHANGED toAgent
  /\ Does(a, NoJob)
  /\ UNCHANGED <<turnVars, forkVars, ended, pending, stopped, logVars, conn, down,
                 tabVars, viewVars, told, agentVars, out, accepted, budget>>

----------------------------------------------------------------------------
(* The receive loop: what clients send.                                     *)

Receives(kind) ==
  /\ Idle("rx")
  /\ down # <<>>
  /\ Head(down).kind = kind
  /\ down' = Tail(down)

\* fromClient, a prompt: held back by the barrier, sent, queued or dropped.
TakePrompt(p) ==
  \/ /\ barrier \/ busy
     /\ Len(queue) < MaxQueued
     /\ queue' = Append(queue, p)
     /\ accepted' = Append(accepted, p)
     /\ Does("rx", Job(2, NoPrompt, NoLine))
     /\ UNCHANGED busy
  \/ /\ ~barrier /\ ~busy
     /\ busy' = TRUE
     /\ accepted' = Append(accepted, p)
     /\ Does("rx", Job(2, p, NoLine))
     /\ UNCHANGED queue
  \/ /\ barrier \/ busy
     /\ Len(queue) >= MaxQueued
     /\ Does("rx", Job(IF barrier THEN 1 ELSE 0, NoPrompt, NoLine))
     /\ UNCHANGED <<busy, queue, accepted>>

RecvPrompt ==
  /\ Receives("prompt")
  /\ IF stopped THEN UNCHANGED <<busy, queue, accepted, job>> ELSE TakePrompt(Head(down).id)
  /\ UNCHANGED <<inflight, barrier, forkVars, ended, toAgent, pending, stopped,
                 logVars, conn, tabVars, viewVars, told, agentVars, out, budget>>

\* Mutant: an answered request stays pending until its line is written.
ResolveKeeps(q, a) ==
  IF q \in pending
    THEN /\ Does(a, Job(0, NoPrompt, AnswerLine(q)))
         /\ UNCHANGED pending
    ELSE UNCHANGED <<pending, job>>

\* resolvePermission: the first answer wins.
Resolve(q, a) ==
  IF q \in pending
    THEN /\ pending' = pending \ {q}
         /\ Does(a, Job(0, NoPrompt, AnswerLine(q)))
    ELSE UNCHANGED <<pending, job>>

RecvAnswer ==
  /\ Receives("answer")
  /\ Resolve(Head(down).id, "rx")
  /\ UNCHANGED <<turnVars, forkVars, ended, toAgent, stopped, logVars, conn,
                 tabVars, viewVars, told, agentVars, out, accepted, budget>>

\* sendCancel, sendSetMode: one line, nothing recorded.
RecvControl ==
  /\ Receives("control")
  /\ Does("rx", IF stopped THEN NoJob ELSE Job(0, NoPrompt, ControlLine))
  /\ UNCHANGED <<turnVars, forkVars, ended, toAgent, pending, stopped, logVars, conn,
                 tabVars, viewVars, told, agentVars, out, accepted, budget>>

\* The timer of a request denies it.
PermTimeout(q) ==
  /\ q \in pending
  /\ Resolve(q, q)
  /\ UNCHANGED <<turnVars, forkVars, ended, toAgent, stopped, logVars, conn, down,
                 tabVars, viewVars, told, agentVars, out, accepted, budget>>

\* The control plane relays a frame by client id, and the tab has one id for
\* all its connections: what any attachment's loop sends reaches the
\* connection the tab has now.
Reaches == socket # 0

\* Mutant: the new loop is not woken for what the log already holds.
RecvOpenAsleep ==
  /\ Receives("open")
  /\ LET k == Head(down).id
     IN  IF stopped THEN UNCHANGED <<conn, sent, told>>
         ELSE /\ conn' = [i \in Conns |->
                   IF i = k
                     THEN [NewConn EXCEPT !.on = "live", !.cursor = Head(down).cursor]
                     ELSE IF i \in Live THEN [conn[i] EXCEPT !.on = "done"]
                     ELSE conn[i]]
              /\ sent' = [sent EXCEPT ![k] = <<Head(down).cursor>>]
              /\ told' = IF Reaches THEN told \cup pending ELSE told
  /\ UNCHANGED <<turnVars, forkVars, job, ended, toAgent, pending, stopped, logVars,
                 tabVars, shown, agentVars, out, accepted, budget>>

\* attachClient: replace the record of the same id, send the pending
\* permission requests again, wake the new loop.
RecvOpen ==
  /\ Receives("open")
  /\ LET k == Head(down).id
     IN  IF stopped THEN UNCHANGED <<conn, sent, told>>
         ELSE /\ conn' = [i \in Conns |->
                   IF i = k
                     THEN [NewConn EXCEPT !.on = "live", !.cursor = Head(down).cursor,
                                          !.notify = TRUE]
                     ELSE IF i \in Live THEN [conn[i] EXCEPT !.on = "done"]
                     ELSE conn[i]]
              /\ sent' = [sent EXCEPT ![k] = <<Head(down).cursor>>]
              /\ told' = IF Reaches THEN told \cup pending ELSE told
  /\ UNCHANGED <<turnVars, forkVars, job, ended, toAgent, pending, stopped, logVars,
                 tabVars, shown, agentVars, out, accepted, budget>>

\* detachClient.
RecvClose ==
  /\ Receives("close")
  /\ LET k == Head(down).id
     IN  conn' = [conn EXCEPT ![k].on = IF @ = "live" THEN "done" ELSE @]
  /\ UNCHANGED <<turnVars, forkVars, job, ended, toAgent, pending, stopped, logVars,
                 tabVars, viewVars, told, agentVars, out, accepted, budget>>

----------------------------------------------------------------------------
(* The agent's output: readLoop.                                            *)

Reads(kind) ==
  /\ Idle("rd") /\ ~ended
  /\ out # <<>>
  /\ Head(out).kind = kind
  /\ out' = Tail(out)

\* A result is looked up; the turn is ended under the lock taken again.
ReadResult ==
  /\ Reads("result")
  /\ ended' = (Head(out).id = inflight)
  /\ UNCHANGED <<turnVars, forkVars, job, toAgent, pending, stopped, logVars, conn,
                 down, tabVars, viewVars, told, agentVars, accepted, budget>>

\* handleTurnEnd: unless a fork holds prompts back, the next one starts.
TurnEnd ==
  /\ ended
  /\ ended' = FALSE
  /\ inflight' = NoPrompt
  /\ IF ~barrier /\ queue # <<>>
       THEN /\ busy' = TRUE
            /\ queue' = Tail(queue)
            /\ Does("rd", Job(1, Head(queue), NoLine))
       ELSE /\ busy' = FALSE
            /\ Does("rd", Job(1, NoPrompt, NoLine))
            /\ UNCHANGED queue
  /\ UNCHANGED <<barrier, forkVars, toAgent, pending, stopped, logVars, conn, down,
                 tabVars, viewVars, told, agentVars, out, accepted, budget>>

\* A session/update becomes a frame, if its kind is one the tab knows.
ReadUpdate ==
  /\ Reads("update")
  /\ AppendFrames(1) \/ UNCHANGED <<logVars, conn>>
  /\ UNCHANGED <<turnVars, forkVars, job, ended, toAgent, pending, stopped, down,
                 tabVars, viewVars, told, agentVars, accepted, budget>>

\* onPermissionRequest: recorded and broadcast, but not logged.
ReadAsk ==
  /\ Reads("ask")
  /\ LET q == Head(out).id
     IN  IF stopped THEN UNCHANGED <<pending, told>>
         ELSE /\ pending' = pending \cup {q}
              /\ told' = IF Live # {} /\ Reaches THEN told \cup {q} ELSE told
  /\ UNCHANGED <<turnVars, forkVars, job, ended, toAgent, stopped, logVars, conn, down,
                 tabVars, viewVars, agentVars, accepted, budget>>

----------------------------------------------------------------------------
(* The fork's ingress barrier.                                              *)

ForkStart ==
  /\ fork = "idle" /\ forks < budget.forks
  /\ fork' = "acquiring"
  /\ forks' = forks + 1
  /\ UNCHANGED <<turnVars, job, ended, toAgent, pending, stopped, logVars, conn, down, tabVars,
                 viewVars, told, agentVars, out, accepted, budget>>

\* Mutant: the barrier is granted while a prompt is on its way to the agent.
TryAcquireInflightOnly ==
  /\ fork = "acquiring"
  /\ barrier' = TRUE
  /\ fork' = IF inflight = NoPrompt THEN "held" ELSE "acquiring"
  /\ UNCHANGED <<busy, queue, inflight, forks, job, ended, toAgent, pending, stopped, logVars,
                 conn, down, tabVars, viewVars, told, agentVars, out, accepted, budget>>

\* tryAcquireForkBarrier, polled: it goes up at once and is granted when no
\* turn is left.
TryAcquire ==
  /\ fork = "acquiring"
  /\ barrier' = TRUE
  /\ fork' = IF ~busy /\ inflight = NoPrompt THEN "held" ELSE "acquiring"
  /\ UNCHANGED <<busy, queue, inflight, forks, job, ended, toAgent, pending, stopped, logVars,
                 conn, down, tabVars, viewVars, told, agentVars, out, accepted, budget>>

\* Mutant: the barrier falls and nobody starts what it held back.
ReleaseOnly ==
  /\ fork # "idle" /\ Idle("fork")
  /\ fork' = "idle"
  /\ barrier' = FALSE
  /\ UNCHANGED <<busy, queue, inflight, forks, job, ended, toAgent, pending, stopped, logVars,
                 conn, down, tabVars, viewVars, told, agentVars, out, accepted, budget>>

\* releaseForkBarrier: the capture is over, or the wait for the turn
\* boundary was cancelled; a prompt held back starts the next turn.
Release ==
  /\ fork # "idle" /\ Idle("fork")
  /\ fork' = "idle"
  /\ barrier' = FALSE
  /\ IF barrier /\ ~busy /\ inflight = NoPrompt /\ queue # <<>>
       THEN /\ busy' = TRUE
            /\ queue' = Tail(queue)
            /\ Does("fork", Job(1, Head(queue), NoLine))
       ELSE UNCHANGED <<busy, queue, job>>
  /\ UNCHANGED <<inflight, forks, ended, toAgent, pending, stopped, logVars, conn, down,
                 tabVars, viewVars, told, agentVars, out, accepted, budget>>

----------------------------------------------------------------------------
(* clientLoop of attachment k.                                              *)

LoopUnchanged ==
  UNCHANGED <<turnVars, forkVars, job, ended, toAgent, pending, stopped, logVars, down, tabVars,
              told, agentVars, out, accepted, budget>>

LoopExit(k) ==
  /\ conn[k].phase = "wait" /\ conn[k].on = "done"
  /\ conn' = [conn EXCEPT ![k].phase = "gone"]
  /\ UNCHANGED viewVars
  /\ LoopUnchanged

\* Mutant: a client that missed trimmed frames goes on at the window's start.
LoopScanNoReset(k) ==
  /\ conn[k].phase = "scan" \/ (conn[k].phase = "wait" /\ conn[k].notify)
  /\ LET c == conn[k]
         from == Max2(c.cursor, base)
     IN  conn' = [conn EXCEPT ![k].cursor = seq, ![k].notify = @ /\ c.phase = "scan",
                              ![k].lo = from, ![k].hi = seq,
                              ![k].phase = IF from < seq THEN "send" ELSE "wait"]
  /\ UNCHANGED viewVars
  /\ LoopUnchanged

\* Under the lock: a cursor outside the window is reset to its start, and
\* everything after it is copied.
LoopScan(k) ==
  /\ conn[k].phase = "scan" \/ (conn[k].phase = "wait" /\ conn[k].notify)
  /\ LET c == conn[k]
         outside == c.cursor < base \/ c.cursor > seq
         from == IF outside THEN base ELSE c.cursor
     IN  conn' = [conn EXCEPT ![k].cursor = seq, ![k].notify = @ /\ c.phase = "scan",
                              ![k].reset = IF outside THEN base ELSE -1,
                              ![k].lo = from, ![k].hi = seq,
                              ![k].phase = IF outside \/ from < seq THEN "send" ELSE "wait"]
  /\ UNCHANGED viewVars
  /\ LoopUnchanged

\* One frame of the copy is sent.  The tab clears what it shows on a reset
\* and appends any other frame.
LoopSend(k) ==
  /\ conn[k].phase = "send"
  /\ LET c == conn[k]
     IN  \/ /\ c.reset >= 0
            /\ conn' = [conn EXCEPT ![k].reset = -1,
                                    ![k].phase = IF c.lo < c.hi THEN "send" ELSE "scan"]
            /\ sent' = [sent EXCEPT ![k] = <<c.reset>>]
            /\ shown' = IF Reaches THEN <<c.reset>> ELSE shown
         \/ /\ c.reset < 0
            /\ conn' = [conn EXCEPT ![k].lo = c.lo + 1,
                                    ![k].phase = IF c.lo + 1 < c.hi THEN "send" ELSE "scan"]
            /\ sent' = [sent EXCEPT ![k] = Append(@, c.lo + 1)]
            /\ shown' = IF Reaches THEN Append(shown, c.lo + 1) ELSE shown
  /\ LoopUnchanged

----------------------------------------------------------------------------
(* stop().                                                                  *)

Stop ==
  /\ ~stopped
  /\ stopped' = TRUE
  /\ conn' = [k \in Conns |-> IF k \in Live THEN [conn[k] EXCEPT !.on = "done"] ELSE conn[k]]
  /\ pending' = {}
  /\ UNCHANGED <<turnVars, forkVars, job, ended, toAgent, logVars, down, tabVars, viewVars, told,
                 agentVars, out, accepted, budget>>

----------------------------------------------------------------------------
(* Browser tab and control plane (ws.go, router.go).                        *)

TabUnchanged ==
  UNCHANGED <<turnVars, forkVars, job, ended, toAgent, pending, stopped, logVars, conn, viewVars,
              told, agentVars, out, accepted, budget>>

\* The tab connects and resumes behind the last frame it shows; it has one id
\* for all its connections, so the route is replaced.
TabConnects ==
  /\ socket = 0 /\ opened < budget.opens
  /\ opened' = opened + 1
  /\ socket' = opened'
  /\ routed' = {opened'}
  /\ down' = Append(down, [kind |-> "open", id |-> opened', cursor |-> Last(shown)])
  /\ UNCHANGED <<submitted, controls, replied>>
  /\ TabUnchanged

TabDrops ==
  /\ socket # 0
  /\ socket' = 0
  /\ UNCHANGED <<routed, opened, submitted, controls, replied, down>>
  /\ TabUnchanged

\* The handler of a dead connection detaches it, if it is still routed.
CPDetaches(k) ==
  /\ k \in routed /\ k # socket
  /\ routed' = routed \ {k}
  /\ down' = Append(down, [kind |-> "close", id |-> k])
  /\ UNCHANGED <<socket, opened, submitted, controls, replied>>
  /\ TabUnchanged

\* A prompt of this tab or of another client of the session.
TabPrompts ==
  /\ submitted < budget.prompts
  /\ submitted' = submitted + 1
  /\ down' = Append(down, [kind |-> "prompt", id |-> submitted'])
  /\ UNCHANGED <<routed, socket, opened, controls, replied>>
  /\ TabUnchanged

\* A cancel or a mode switch.
TabControls ==
  /\ controls < budget.controls
  /\ controls' = controls + 1
  /\ down' = Append(down, [kind |-> "control", id |-> 0])
  /\ UNCHANGED <<routed, socket, opened, submitted, replied>>
  /\ TabUnchanged

\* Two tabs may answer the same request.
TabAnswers(q) ==
  /\ q \in told /\ replied[q] < 2
  /\ replied' = [replied EXCEPT ![q] = @ + 1]
  /\ down' = Append(down, [kind |-> "answer", id |-> q])
  /\ UNCHANGED <<routed, socket, opened, submitted, controls>>
  /\ TabUnchanged

----------------------------------------------------------------------------
(* The agent.                                                               *)

AgentUnchanged ==
  UNCHANGED <<turnVars, forkVars, job, ended, pending, stopped, logVars, conn, down, tabVars,
              viewVars, told, accepted, budget>>

\* writeLoop hands a line to the agent.
WriteLine ==
  /\ ~stopped
  /\ toAgent # <<>>
  /\ toAgent' = Tail(toAgent)
  /\ LET l == Head(toAgent)
     IN  \/ /\ l.kind = "prompt"
            /\ turn' = Append(turn, l.id)
            /\ received' = Append(received, l.id)
            /\ UNCHANGED <<asked, answers>>
         \/ /\ l.kind = "answer"
            /\ asked' = asked \ {l.id}
            /\ answers' = [answers EXCEPT ![l.id] = @ + 1]
            /\ UNCHANGED <<turn, received>>
         \/ /\ l.kind = "control"
            /\ UNCHANGED <<turn, received, asked, answers>>
  /\ UNCHANGED <<updates, out>>
  /\ AgentUnchanged

AgentUpdates ==
  /\ ~stopped /\ updates < budget.updates
  /\ updates' = updates + 1
  /\ out' = Append(out, [kind |-> "update"])
  /\ UNCHANGED <<toAgent, turn, asked, answers, received>>
  /\ AgentUnchanged

AgentAsks(q) ==
  /\ ~stopped /\ turn # <<>>
  /\ q \in budget.perms
  /\ q \notin asked /\ answers[q] = 0
  /\ asked' = asked \cup {q}
  /\ out' = Append(out, [kind |-> "ask", id |-> q])
  /\ UNCHANGED <<toAgent, turn, answers, updates, received>>
  /\ AgentUnchanged

AgentEnds ==
  /\ ~stopped /\ turn # <<>> /\ asked = {}
  /\ out' = Append(out, [kind |-> "result", id |-> Head(turn)])
  /\ turn' = Tail(turn)
  /\ UNCHANGED <<toAgent, asked, answers, updates, received>>
  /\ AgentUnchanged

----------------------------------------------------------------------------
Init ==
  /\ budget \in Budgets
  /\ busy = FALSE /\ queue = <<>> /\ inflight = NoPrompt /\ barrier = FALSE
  /\ fork = "idle" /\ forks = 0
  /\ job = [a \in Actors |-> NoJob]
  /\ ended = FALSE /\ toAgent = <<>> /\ pending = {} /\ stopped = FALSE
  /\ seq = 0 /\ base = 0
  /\ conn = [k \in Conns |-> NewConn]
  /\ down = <<>> /\ routed = {} /\ socket = 0 /\ opened = 0 /\ submitted = 0 /\ controls = 0
  /\ shown = <<0>> /\ sent = [k \in Conns |-> <<0>>] /\ told = {} /\ replied = [q \in Perms |-> 0]
  /\ turn = <<>> /\ asked = {} /\ answers = [q \in Perms |-> 0]
  /\ out = <<>> /\ updates = 0
  /\ accepted = <<>> /\ received = <<>>

JobStep(a) == LogFrames(a) \/ SendPrompt(a) \/ SendLine(a)
RecvLoop == RecvPrompt \/ RecvAnswer \/ RecvControl \/ RecvOpen \/ RecvClose
ReadLoop == ReadResult \/ TurnEnd \/ ReadUpdate \/ ReadAsk
ClientLoop(k) == LoopExit(k) \/ LoopScan(k) \/ LoopSend(k)
Fork == ForkStart \/ TryAcquire \/ Release
Tab ==
  \/ TabConnects \/ TabDrops
  \/ \E k \in Conns : CPDetaches(k)
  \/ TabPrompts \/ TabControls
  \/ \E q \in Perms : TabAnswers(q)
Agent == WriteLine \/ AgentUpdates \/ AgentEnds \/ \E q \in Perms : AgentAsks(q)

Next ==
  \/ \E a \in Actors : JobStep(a)
  \/ RecvLoop \/ ReadLoop
  \/ \E q \in Perms : PermTimeout(q)
  \/ \E k \in Conns : ClientLoop(k)
  \/ Fork \/ Stop \/ Tab \/ Agent

Spec == Init /\ [][Next]_vars

\* Goroutines run, the writer and the agent make progress, permission timers
\* fire, and a fork gives its barrier back: SpawnFork.BarrierGivenBack, which
\* leaves aside the race of a cancelled wait with its own acquisition.
FairSpec ==
  /\ Spec
  /\ \A a \in Actors : WF_vars(JobStep(a))
  /\ WF_vars(RecvLoop) /\ WF_vars(ReadLoop) /\ WF_vars(Release)
  /\ \A q \in Perms : WF_vars(PermTimeout(q))
  /\ \A k \in 1 .. MaxOpens : WF_vars(k \in Conns /\ ClientLoop(k))
  /\ WF_vars(WriteLine) /\ WF_vars(AgentEnds)

----------------------------------------------------------------------------
(* Properties.                                                              *)

\* Prompts handed to sendPrompt whose turn has not ended, wherever they are:
\* with a goroutine, in the channel, at the agent, or in its output.
Underway ==
  {<<"job", a>> : a \in {b \in Actors : job[b].prompt # NoPrompt}}
  \cup {<<"line", a>> : a \in {b \in Actors : job[b].line.kind = "prompt"}}
  \cup {<<"toAgent", i>> : i \in {j \in 1 .. Len(toAgent) : toAgent[j].kind = "prompt"}}
  \cup {<<"turn", i>> : i \in 1 .. Len(turn)}
  \cup {<<"out", i>> : i \in {j \in 1 .. Len(out) : out[j].kind = "result"}}

\* Answers to request q on their way to the agent.
Answering(q) ==
  {<<"line", a>> : a \in {b \in Actors : job[b].line = AnswerLine(q)}}
  \cup {<<"toAgent", i>> : i \in {j \in 1 .. Len(toAgent) : toAgent[j] = AnswerLine(q)}}

\* The agent never has two prompts to work on, whichever of the receive
\* loop, readLoop and the fork goroutine starts a turn.
OneTurn == \A x, y \in Underway : x = y

\* A permission request gets one answer, however many clients and timers
\* race for it.
AnsweredOnce ==
  \A q \in Perms :
    /\ \A x, y \in Answering(q) : x = y
    /\ Answering(q) # {} => answers[q] = 0
    /\ answers[q] <= 1

\* What the pump sends is a conversation: one turn at a time, one answer per
\* permission request (busy, inflightPromptID and pending in pump.go).
AgentProtocolKept == OneTurn /\ AnsweredOnce

\* The agent gets the prompts in the order the pump accepted them, across
\* the queue, direct sends and prompts held back by a fork (fromClient,
\* handleTurnEnd, releaseForkBarrier).
PromptsInOrder ==
  /\ Len(received) <= Len(accepted)
  /\ received = SubSeq(accepted, 1, Len(received))

\* While a fork holds the granted barrier the agent has nothing to do and
\* nothing on its way: the capture is at a turn boundary
\* (tryAcquireForkBarrier against fromClient's send after the unlock).
ForkSeesQuiet == fork = "held" => Underway = {} /\ asked = {}

\* What an attachment is sent has neither holes nor repetitions since the
\* cursor it asked for or the last reset, while the log grows and is trimmed
\* between its scans and its sends (clientLoop, attachClient, appendFrames).
SentInOrder ==
  \A k \in Conns : \A i \in 1 .. Len(sent[k]) - 1 : sent[k][i + 1] = sent[k][i] + 1

\* The transcript the tab shows is in order too.  It need not be: the loop of
\* a replaced attachment goes on with its copy of the log, and the frames
\* carry the id the new connection has as well (attachClient closes old.done,
\* which clientLoop reads between copies only).
ShownInOrder == \A i \in 1 .. Len(shown) - 1 : shown[i + 1] = shown[i] + 1

\* Unless the pump is stopped, every accepted prompt reaches the agent, every
\* permission request is answered and an attachment that stays is sent every
\* frame.
NothingStuck ==
  /\ received # accepted ~> (stopped \/ received = accepted)
  /\ \A q \in Perms : q \in pending ~> (stopped \/ answers[q] > 0)
  /\ \A k \in 1 .. MaxOpens :
       k \in Live /\ Last(sent[k]) < seq ~> (stopped \/ k \notin Live \/ Last(sent[k]) = seq)

=============================================================================
