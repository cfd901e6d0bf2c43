----------------------------- MODULE PumpProofs -----------------------------
(* What one pump does to its agent and to its clients, for any number of     *)
(* prompts, permission requests, forks and attachments and any bound on the  *)
(* queue, the log and the channel.                                           *)
EXTENDS Pump, TLAPS, SequenceTheorems

----------------------------------------------------------------------------
(* Types of what travels.                                                    *)

Prompts == Nat \ {0}
PromptLines == [kind : {"prompt"}, id : Prompts]
AnswerLines == [kind : {"answer"}, id : Perms]
Lines == PromptLines \cup AnswerLines \cup {ControlLine}
Jobs == [frames : Nat, prompt : Nat, line : Lines \cup {NoLine}]

Ask(q) == [kind |-> "ask", id |-> q]
Results == [kind : {"result"}, id : Prompts]
Outputs == Results \cup [kind : {"ask"}, id : Perms] \cup [kind : {"update"}]

\* Messages of the tab and the control plane to the node.
Downs == [kind : {"prompt"}, id : Prompts] \cup [kind : {"answer"}, id : Perms]
         \cup [kind : {"control"}, id : {0}] \cup [kind : {"close"}, id : Nat]
         \cup [kind : {"open"}, id : Nat, cursor : Int]

ChannelTypeOK ==
  /\ job \in [Actors -> Jobs]
  /\ toAgent \in Seq(Lines)
  /\ out \in Seq(Outputs)
  /\ down \in Seq(Downs)

PromptTypeOK ==
  /\ queue \in Seq(Prompts) /\ turn \in Seq(Prompts)
  /\ accepted \in Seq(Prompts) /\ received \in Seq(Prompts)
  /\ submitted \in Nat

PermTypeOK ==
  /\ pending \subseteq Perms /\ asked \subseteq Perms /\ told \subseteq Perms
  /\ answers \in [Perms -> Nat]

Marks == {"none", "live", "done"}
Phases == {"wait", "scan", "send", "gone"}
ConnType == [on : Marks, cursor : Int, notify : BOOLEAN, phase : Phases,
             reset : Int, lo : Int, hi : Int]

ViewTypeOK ==
  /\ budget \in Budgets
  /\ seq \in Nat /\ base \in Nat /\ base <= seq
  /\ conn \in [Conns -> ConnType]
  /\ opened \in 0 .. budget.opens /\ socket \in 0 .. opened
  /\ routed \subseteq 1 .. opened
  /\ shown \in Seq(Int) /\ shown # <<>>
  /\ sent \in [Conns -> Seq(Int) \ {<<>>}]

PumpTypeOK == ChannelTypeOK /\ PromptTypeOK /\ PermTypeOK /\ ViewTypeOK

----------------------------------------------------------------------------
(* Where a message is in a channel.                                          *)

Holds(s, S) == \E i \in 1 .. Len(s) : s[i] \in S
Once(s, S) == \A i, j \in 1 .. Len(s) : s[i] \in S /\ s[j] \in S => i = j

----------------------------------------------------------------------------
(* One turn: a prompt that was started is in exactly one place until its     *)
(* turn has ended, and until then the pump is busy.                          *)

Starting == {a \in Actors : job[a].prompt # NoPrompt \/ job[a].line \in PromptLines}

TurnPlaces ==
  /\ \A a, b \in Starting : a = b
  /\ Once(toAgent, PromptLines)
  /\ Len(turn) <= 1
  /\ Once(out, Results)

TurnExclusive ==
  /\ Starting # {} => /\ ~Holds(toAgent, PromptLines) /\ turn = <<>>
                      /\ ~Holds(out, Results) /\ ~ended
  /\ Holds(toAgent, PromptLines) => turn = <<>> /\ ~Holds(out, Results) /\ ~ended
  /\ turn # <<>> => ~Holds(out, Results) /\ ~ended
  /\ Holds(out, Results) => ~ended

TurnBusy ==
  ~busy => /\ Starting = {} /\ ~Holds(toAgent, PromptLines) /\ turn = <<>>
           /\ ~Holds(out, Results) /\ ~ended

TurnJobs ==
  /\ \A a \in Actors : job[a].prompt # NoPrompt => job[a].line = NoLine
  /\ \A q \in Perms : q \notin Starting
  /\ ended => job["rd"] = NoJob

ForkQuiet ==
  /\ fork = "held" => barrier /\ ~busy
  /\ asked # {} => turn # <<>>

TurnInv == TurnPlaces /\ TurnExclusive /\ TurnBusy /\ TurnJobs /\ ForkQuiet

----------------------------------------------------------------------------
(* One answer: an unanswered request is in the agent's output, pending, in a *)
(* goroutine's hands or in the channel, and in one of them only.             *)

Giving(q) == {a \in Actors : job[a].line = AnswerLine(q)}

AnswerPlaces(q) ==
  /\ \A a, b \in Giving(q) : a = b
  /\ Once(toAgent, {AnswerLine(q)})
  /\ Once(out, {Ask(q)})

AnswerExclusive(q) ==
  /\ Holds(out, {Ask(q)}) =>
       q \notin pending /\ Giving(q) = {} /\ ~Holds(toAgent, {AnswerLine(q)})
  /\ q \in pending => Giving(q) = {} /\ ~Holds(toAgent, {AnswerLine(q)})
  /\ Giving(q) # {} => ~Holds(toAgent, {AnswerLine(q)})

AnswerOwed(q) ==
  /\ q \notin asked => /\ ~Holds(out, {Ask(q)}) /\ q \notin pending
                       /\ Giving(q) = {} /\ ~Holds(toAgent, {AnswerLine(q)})
  /\ q \in asked => answers[q] = 0
  /\ answers[q] <= 1

AnswerInv == \A q \in Perms : AnswerPlaces(q) /\ AnswerExclusive(q) /\ AnswerOwed(q)

----------------------------------------------------------------------------
(* Order: unless the pump is stopped, what it accepted is what the agent     *)
(* received, then the prompt on its way, then the queue.                     *)

InTransit == IF Starting = {} /\ ~Holds(toAgent, PromptLines) THEN 0 ELSE 1

Prefix ==
  /\ Len(received) <= Len(accepted)
  /\ \A i \in 1 .. Len(received) : received[i] = accepted[i]

Accounted ==
  /\ Len(accepted) = Len(received) + InTransit + Len(queue)
  /\ \A i \in 1 .. Len(queue) : queue[i] = accepted[Len(received) + InTransit + i]
  /\ \A a \in Actors :
       /\ job[a].prompt # NoPrompt => job[a].prompt = accepted[Len(received) + 1]
       /\ job[a].line \in PromptLines => job[a].line.id = accepted[Len(received) + 1]
  /\ \A i \in 1 .. Len(toAgent) :
       toAgent[i] \in PromptLines => toAgent[i].id = accepted[Len(received) + 1]

\* Prompts wait only for a turn or for a fork.
QueueInv ==
  /\ ~busy => inflight = NoPrompt
  /\ ~barrier /\ ~busy => queue = <<>>

OrderInv == Prefix /\ (~stopped => Accounted)

----------------------------------------------------------------------------
(* The frames of an attachment: its loop goes on where it was.               *)

\* No frame of attachment k is under way, and the next is the one after c.
AtCursor(k, c) ==
  /\ conn[k].phase = "send" /\ conn[k].reset < 0 => conn[k].lo = c
  /\ conn[k].phase # "send" => conn[k].cursor = c

LoopInv ==
  \A k \in Conns : conn[k].phase = "send" =>
    /\ conn[k].hi = conn[k].cursor
    /\ conn[k].reset < 0 => conn[k].lo < conn[k].hi
    /\ conn[k].reset >= 0 => conn[k].reset = conn[k].lo /\ conn[k].lo <= conn[k].hi

SentInv == \A k \in Conns : AtCursor(k, Last(sent[k]))

ViewInv == LoopInv /\ SentInv /\ SentInOrder

----------------------------------------------------------------------------
(* Channels.                                                                 *)

\* Sending e.
LEMMA AppendHolds ==
  ASSUME NEW T, NEW s \in Seq(T), NEW e \in T, NEW S
  PROVE  /\ Append(s, e) \in Seq(T)
         /\ Holds(Append(s, e), S) <=> Holds(s, S) \/ e \in S
         /\ Once(s, S) /\ (e \notin S \/ ~Holds(s, S)) => Once(Append(s, e), S)
<1>1. /\ Append(s, e) \in Seq(T) /\ Len(Append(s, e)) = Len(s) + 1
      /\ \A i \in 1 .. Len(s) : Append(s, e)[i] = s[i]
      /\ Append(s, e)[Len(s) + 1] = e
      /\ Len(s) \in Nat
  BY AppendProperties, LenProperties
<1>2. Holds(Append(s, e), S) <=> Holds(s, S) \/ e \in S
  BY <1>1 DEF Holds
<1>3. ASSUME Once(s, S), e \notin S \/ ~Holds(s, S)
      PROVE  Once(Append(s, e), S)
  BY <1>1, <1>3 DEF Once, Holds
<1> QED
  BY <1>1, <1>2, <1>3

\* Receiving the first message.
LEMMA TailHolds ==
  ASSUME NEW T, NEW s \in Seq(T), s # <<>>, NEW S
  PROVE  /\ Head(s) \in T /\ Tail(s) \in Seq(T)
         /\ Holds(s, S) <=> Head(s) \in S \/ Holds(Tail(s), S)
         /\ Once(s, S) => Once(Tail(s), S) /\ (Head(s) \in S => ~Holds(Tail(s), S))
<1>1. /\ Head(s) \in T /\ Tail(s) \in Seq(T) /\ Len(Tail(s)) = Len(s) - 1
      /\ \A i \in 1 .. Len(Tail(s)) : Tail(s)[i] = s[i + 1]
      /\ Len(s) \in Nat \ {0} /\ Head(s) = s[1]
  BY HeadTailProperties, EmptySeq, LenProperties
<1>2. Holds(s, S) <=> Head(s) \in S \/ Holds(Tail(s), S)
  <2>1. ASSUME NEW i \in 1 .. Len(s), s[i] \in S
        PROVE  Head(s) \in S \/ Holds(Tail(s), S)
    <3>1. CASE i = 1
      BY <1>1, <2>1, <3>1
    <3>2. CASE i # 1
      <4>1. i - 1 \in 1 .. Len(Tail(s)) /\ Tail(s)[i - 1] = s[i]
        BY <1>1, <3>2
      <4> QED
        BY <4>1, <2>1 DEF Holds
    <3> QED
      BY <3>1, <3>2
  <2>2. Head(s) \in S => Holds(s, S)
    BY <1>1 DEF Holds
  <2>3. ASSUME NEW i \in 1 .. Len(Tail(s)), Tail(s)[i] \in S
        PROVE  Holds(s, S)
    <3>1. i + 1 \in 1 .. Len(s) /\ s[i + 1] \in S
      BY <1>1, <2>3
    <3> QED
      BY <3>1 DEF Holds
  <2> QED
    BY <2>1, <2>2, <2>3 DEF Holds
<1>3. ASSUME Once(s, S)
      PROVE  Once(Tail(s), S) /\ (Head(s) \in S => ~Holds(Tail(s), S))
  <2>1. ASSUME NEW i \in 1 .. Len(Tail(s)), Tail(s)[i] \in S
        PROVE  i + 1 \in 1 .. Len(s) /\ s[i + 1] \in S
    BY <1>1, <2>1
  <2>2. Once(Tail(s), S)
    <3> SUFFICES ASSUME NEW i \in 1 .. Len(Tail(s)), NEW j \in 1 .. Len(Tail(s)),
                        Tail(s)[i] \in S, Tail(s)[j] \in S
                 PROVE  i = j
      BY DEF Once
    <3>1. i + 1 = j + 1
      BY <2>1, <1>3 DEF Once
    <3> QED
      BY <3>1, <1>1
  <2>3. ASSUME Head(s) \in S, NEW i \in 1 .. Len(Tail(s)), Tail(s)[i] \in S
        PROVE  FALSE
    <3>1. i + 1 = 1
      BY <1>1, <2>1, <2>3, <1>3 DEF Once
    <3> QED
      BY <3>1, <1>1
  <2> QED
    BY <2>2, <2>3 DEF Holds
<1> QED
  BY <1>1, <1>2, <1>3

----------------------------------------------------------------------------
(* Types.                                                                    *)

\* The kinds of lines are told apart by their kind.
LEMMA LineKinds ==
  /\ \A p \in Prompts : PromptLine(p) \in PromptLines /\ PromptLine(p).id = p
  /\ \A q \in Perms : AnswerLine(q) \in AnswerLines /\ AnswerLine(q).id = q
  /\ NoLine \notin Lines /\ NoLine \notin PromptLines /\ NoLine \notin AnswerLines
  /\ ControlLine \notin PromptLines /\ ControlLine \notin AnswerLines /\ ControlLine # NoLine
  /\ \A l \in Lines : /\ l.kind = "prompt" => l \in PromptLines
                      /\ l.kind = "answer" => l \in AnswerLines /\ l = AnswerLine(l.id)
                      /\ l.kind = "control" => l = ControlLine
  /\ \A l \in PromptLines : l.kind = "prompt" /\ l.id \in Prompts /\ l \notin AnswerLines
  /\ \A l \in AnswerLines : l.kind = "answer" /\ l.id \in Perms /\ l \notin PromptLines
BY DEF PromptLine, AnswerLine, ControlLine, NoLine, PromptLines, AnswerLines, Lines

\* So are the agent's messages.
LEMMA OutputKinds ==
  /\ \A p \in Prompts : [kind |-> "result", id |-> p] \in Results
  /\ \A q \in Perms : Ask(q) \in Outputs /\ Ask(q) \notin Results /\ Ask(q).id = q
  /\ [kind |-> "update"] \in Outputs /\ [kind |-> "update"] \notin Results
  /\ \A q \in Perms : [kind |-> "update"] # Ask(q)
  /\ \A m \in Results : m.kind = "result" /\ m.id \in Prompts /\ \A q \in Perms : m # Ask(q)
  /\ \A m \in Outputs : /\ m.kind = "result" => m \in Results
                        /\ m.kind = "ask" => m.id \in Perms /\ m = Ask(m.id)
<1>1. [kind |-> "update"] \in [kind : {"update"}]
  OBVIOUS
<1>2. \A q \in Perms : [kind |-> "update"].kind # Ask(q).kind
  BY DEF Ask
<1>3. \A m \in [kind : {"update"}] : m.kind = "update"
  OBVIOUS
<1>4. \A q \in Perms : Ask(q) \in [kind : {"ask"}, id : Perms] /\ Ask(q).kind = "ask" /\ Ask(q).id = q
  BY DEF Ask
<1>5. \A m \in [kind : {"ask"}, id : Perms] : m.kind = "ask" /\ m.id \in Perms /\ m = Ask(m.id)
  BY DEF Ask
<1>6. \A m \in Results : m.kind = "result" /\ m.id \in Prompts
  BY DEF Results
<1>7. \A p \in Prompts : [kind |-> "result", id |-> p] \in Results
  BY DEF Results
<1>8. [kind |-> "update"].kind = "update"
  OBVIOUS
<1> QED
  BY <1>1, <1>2, <1>3, <1>4, <1>5, <1>6, <1>7, <1>8 DEF Outputs

\* A job has the parts it was made of.
LEMMA JobParts ==
  ASSUME NEW n \in Nat, NEW p \in Nat, NEW l \in Lines \cup {NoLine}
  PROVE  /\ Job(n, p, l) \in Jobs
         /\ Job(n, p, l).frames = n /\ Job(n, p, l).prompt = p /\ Job(n, p, l).line = l
BY DEF Job, Jobs

\* The fields of an idle goroutine's job.
LEMMA NoJobParts ==
  NoJob \in Jobs /\ NoJob.frames = 0 /\ NoJob.prompt = NoPrompt /\ NoJob.line = NoLine
BY JobParts DEF NoJob, NoPrompt

\* The goroutines that are always there.
LEMMA ActorNames == {"rx", "rd", "fork"} \subseteq Actors /\ Perms \subseteq Actors
BY DEF Actors

\* What a message to the node carries.
LEMMA DownKinds ==
  \A m \in Downs : /\ m.kind = "prompt" => m.id \in Prompts
                   /\ m.kind = "answer" => m.id \in Perms
                   /\ m.kind = "open" => m.id \in Nat /\ m.cursor \in Int
BY DEF Downs

\* What a new job does to the goroutines with a prompt or an answer in hand.
LEMMA NewJob ==
  ASSUME ChannelTypeOK, NEW a \in Actors, NEW j \in Jobs, Does(a, j)
  PROVE  /\ job' \in [Actors -> Jobs]
         /\ job'[a] = j /\ \A b \in Actors \ {a} : job'[b] = job[b]
         /\ Starting \ {a} \subseteq Starting' /\ Starting' \subseteq Starting \cup {a}
         /\ a \in Starting' <=> j.prompt # NoPrompt \/ j.line \in PromptLines
         /\ \A q \in Perms : /\ Giving(q) \ {a} \subseteq Giving(q)'
                             /\ Giving(q)' \subseteq Giving(q) \cup {a}
                             /\ a \in Giving(q)' <=> j.line = AnswerLine(q)
<1>1. job' \in [Actors -> Jobs] /\ job'[a] = j /\ \A b \in Actors \ {a} : job'[b] = job[b]
  BY DEF Does, ChannelTypeOK
<1>2. /\ Starting \ {a} \subseteq Starting' /\ Starting' \subseteq Starting \cup {a}
      /\ a \in Starting' <=> j.prompt # NoPrompt \/ j.line \in PromptLines
  BY <1>1 DEF Starting
<1>3. ASSUME NEW q \in Perms
      PROVE  /\ Giving(q) \ {a} \subseteq Giving(q)'
             /\ Giving(q)' \subseteq Giving(q) \cup {a}
             /\ a \in Giving(q)' <=> j.line = AnswerLine(q)
  BY <1>1 DEF Giving
<1> QED
  BY <1>1, <1>2, <1>3

MessageTypeOK == ChannelTypeOK /\ PromptTypeOK /\ PermTypeOK

\* Goroutines at work on their jobs keep the types.
LEMMA JobTypes ==
  ASSUME MessageTypeOK, NEW a \in Actors, JobStep(a)
  PROVE  MessageTypeOK'
<1> USE DEF MessageTypeOK
<1>1. CASE LogFrames(a)
  <2>1. [job[a] EXCEPT !.frames = 0] \in Jobs
    BY DEF ChannelTypeOK, Jobs
  <2>2. job' \in [Actors -> Jobs]
    BY <2>1, <1>1, NewJob DEF LogFrames
  <2> QED
    BY <1>1, <2>2 DEF LogFrames, ChannelTypeOK, PromptTypeOK, PermTypeOK, turnVars, tabVars, agentVars
<1>2. CASE SendPrompt(a)
  <2>1. Job(0, NoPrompt, PromptLine(job[a].prompt)) \in Jobs
    <3>1. job[a].prompt \in Prompts
      BY <1>2 DEF SendPrompt, ChannelTypeOK, Jobs, Prompts, NoPrompt
    <3> QED
      BY <3>1, LineKinds, JobParts DEF NoPrompt, Lines
  <2>2. job' \in [Actors -> Jobs]
    BY <2>1, <1>2, NewJob DEF SendPrompt
  <2> QED
    BY <1>2, <2>2 DEF SendPrompt, ChannelTypeOK, PromptTypeOK, PermTypeOK, tabVars, agentVars
<1>3. CASE SendLine(a)
  <2>1. job' \in [Actors -> Jobs]
    BY <1>3, NewJob, NoJobParts DEF SendLine
  <2>2. job[a].line \in Lines
    BY <1>3 DEF SendLine, ChannelTypeOK, Jobs
  <2>3. toAgent' \in Seq(Lines)
    BY <1>3, <2>2, AppendProperties DEF SendLine, ChannelTypeOK
  <2> QED
    BY <1>3, <2>1, <2>3 DEF SendLine, ChannelTypeOK, PromptTypeOK, PermTypeOK, turnVars, tabVars, agentVars
<1> QED
  BY <1>1, <1>2, <1>3 DEF JobStep

\* A message is taken from the stream.
LEMMA ReceiveTypes ==
  ASSUME ChannelTypeOK, NEW k, Receives(k)
  PROVE  Head(down) \in Downs /\ Head(down).kind = k /\ down' \in Seq(Downs)
BY HeadTailProperties DEF Receives, ChannelTypeOK

\* The receive loop keeps the types.
LEMMA RecvTypes ==
  ASSUME MessageTypeOK, RecvLoop
  PROVE  MessageTypeOK'
<1> USE DEF MessageTypeOK
<1>a. \A q \in Perms : Job(0, NoPrompt, AnswerLine(q)) \in Jobs
  BY LineKinds, JobParts DEF NoPrompt, Lines
<1>1. CASE RecvPrompt
  <2>1. Head(down).id \in Prompts /\ down' \in Seq(Downs)
    BY <1>1, ReceiveTypes, DownKinds DEF RecvPrompt
  <2>2. CASE stopped
    BY <1>1, <2>1, <2>2 DEF RecvPrompt, ChannelTypeOK, PromptTypeOK, PermTypeOK, tabVars, agentVars
  <2>3. CASE ~stopped
    <3>1. TakePrompt(Head(down).id)
      BY <1>1, <2>3 DEF RecvPrompt
    <3>2. /\ Append(queue, Head(down).id) \in Seq(Prompts)
          /\ Append(accepted, Head(down).id) \in Seq(Prompts)
      BY <2>1, AppendProperties DEF PromptTypeOK
    <3>3. queue' \in Seq(Prompts) /\ accepted' \in Seq(Prompts)
      BY <3>1, <3>2 DEF TakePrompt, PromptTypeOK
    <3>4. /\ Job(2, NoPrompt, NoLine) \in Jobs /\ Job(2, Head(down).id, NoLine) \in Jobs
          /\ Job(IF barrier THEN 1 ELSE 0, NoPrompt, NoLine) \in Jobs
      BY <2>1, JobParts DEF NoPrompt, Prompts
    <3>5. job' \in [Actors -> Jobs]
      BY <3>1, <3>4, NewJob, ActorNames DEF TakePrompt
    <3> QED
      BY <1>1, <2>1, <3>3, <3>5 DEF RecvPrompt, ChannelTypeOK, PromptTypeOK, PermTypeOK, tabVars, agentVars
  <2> QED
    BY <2>2, <2>3
<1>2. CASE RecvAnswer
  <2>1. Head(down).id \in Perms /\ down' \in Seq(Downs)
    BY <1>2, ReceiveTypes, DownKinds DEF RecvAnswer
  <2>2. job' \in [Actors -> Jobs] /\ pending' \subseteq Perms
    BY <1>2, <2>1, <1>a, NewJob, ActorNames DEF RecvAnswer, Resolve, ChannelTypeOK, PermTypeOK
  <2> QED
    BY <1>2, <2>1, <2>2 DEF RecvAnswer, ChannelTypeOK, PromptTypeOK, PermTypeOK, turnVars, tabVars, agentVars
<1>3. CASE RecvControl
  <2>1. Job(0, NoPrompt, ControlLine) \in Jobs
    BY JobParts DEF NoPrompt, Lines
  <2>2. job' \in [Actors -> Jobs]
    BY <1>3, <2>1, NewJob, NoJobParts, ActorNames DEF RecvControl
  <2>3. down' \in Seq(Downs)
    BY <1>3, ReceiveTypes DEF RecvControl
  <2> QED
    BY <1>3, <2>2, <2>3 DEF RecvControl, ChannelTypeOK, PromptTypeOK, PermTypeOK, turnVars, tabVars, agentVars
<1>4. CASE RecvOpen
  <2>1. down' \in Seq(Downs)
    BY <1>4, ReceiveTypes DEF RecvOpen
  <2> QED
    BY <1>4, <2>1 DEF RecvOpen, ChannelTypeOK, PromptTypeOK, PermTypeOK, turnVars, tabVars, agentVars
<1>5. CASE RecvClose
  <2>1. down' \in Seq(Downs)
    BY <1>5, ReceiveTypes DEF RecvClose
  <2> QED
    BY <1>5, <2>1 DEF RecvClose, ChannelTypeOK, PromptTypeOK, PermTypeOK, turnVars, tabVars, agentVars
<1> QED
  BY <1>1, <1>2, <1>3, <1>4, <1>5 DEF RecvLoop

\* readLoop takes a message of the agent.
LEMMA ReadTypes ==
  ASSUME ChannelTypeOK, NEW k, Reads(k)
  PROVE  Head(out) \in Outputs /\ Head(out).kind = k /\ out' \in Seq(Outputs)
BY HeadTailProperties DEF Reads, ChannelTypeOK

\* readLoop keeps the types.
LEMMA ReadLoopTypes ==
  ASSUME MessageTypeOK, ReadLoop
  PROVE  MessageTypeOK'
<1> USE DEF MessageTypeOK
<1>1. CASE ReadResult
  BY <1>1, ReadTypes DEF ReadResult, ChannelTypeOK, PromptTypeOK, PermTypeOK, turnVars, tabVars, agentVars
<1>2. CASE TurnEnd
  <2>1. queue # <<>> => Head(queue) \in Prompts /\ Tail(queue) \in Seq(Prompts)
    BY HeadTailProperties DEF PromptTypeOK
  <2>2. queue' \in Seq(Prompts)
    BY <1>2, <2>1 DEF TurnEnd, PromptTypeOK
  <2>3. /\ queue # <<>> => Job(1, Head(queue), NoLine) \in Jobs
        /\ Job(1, NoPrompt, NoLine) \in Jobs
    BY <2>1, JobParts DEF Prompts, NoPrompt
  <2>4. job' \in [Actors -> Jobs]
    BY <1>2, <2>3, NewJob, ActorNames DEF TurnEnd
  <2> QED
    BY <1>2, <2>2, <2>4 DEF TurnEnd, ChannelTypeOK, PromptTypeOK, PermTypeOK, tabVars, agentVars
<1>3. CASE ReadUpdate
  BY <1>3, ReadTypes DEF ReadUpdate, ChannelTypeOK, PromptTypeOK, PermTypeOK, turnVars, tabVars, agentVars
<1>4. CASE ReadAsk
  <2>1. Head(out).id \in Perms /\ out' \in Seq(Outputs)
    BY <1>4, ReadTypes, OutputKinds DEF ReadAsk
  <2> QED
    BY <1>4, <2>1 DEF ReadAsk, ChannelTypeOK, PromptTypeOK, PermTypeOK, turnVars, tabVars, agentVars
<1> QED
  BY <1>1, <1>2, <1>3, <1>4 DEF ReadLoop

\* So do timers, forks, client loops and stop.
LEMMA OtherTypes ==
  ASSUME MessageTypeOK,
         \/ \E q \in Perms : PermTimeout(q)
         \/ \E k \in Conns : ClientLoop(k)
         \/ Fork \/ Stop
  PROVE  MessageTypeOK'
<1> USE DEF MessageTypeOK
<1>1. ASSUME NEW q \in Perms, PermTimeout(q)
      PROVE  MessageTypeOK'
  <2>1. Job(0, NoPrompt, AnswerLine(q)) \in Jobs
    BY LineKinds, JobParts DEF NoPrompt, Lines
  <2>2. job' \in [Actors -> Jobs] /\ pending' \subseteq Perms
    BY <1>1, <2>1, NewJob, ActorNames DEF PermTimeout, Resolve, ChannelTypeOK, PermTypeOK
  <2> QED
    BY <1>1, <2>2 DEF PermTimeout, ChannelTypeOK, PromptTypeOK, PermTypeOK, turnVars, tabVars, agentVars
<1>2. ASSUME NEW k \in Conns, ClientLoop(k)
      PROVE  MessageTypeOK'
  BY <1>2 DEF ClientLoop, LoopExit, LoopScan, LoopSend, LoopUnchanged, ChannelTypeOK, PromptTypeOK,
              PermTypeOK, turnVars, tabVars, agentVars
<1>3. CASE ForkStart \/ TryAcquire \/ Stop
  BY <1>3 DEF ForkStart, TryAcquire, Stop, ChannelTypeOK, PromptTypeOK, PermTypeOK, turnVars, tabVars,
              agentVars
<1>4. CASE Release
  <2>1. queue # <<>> => Head(queue) \in Prompts /\ Tail(queue) \in Seq(Prompts)
    BY HeadTailProperties DEF PromptTypeOK
  <2>2. queue' \in Seq(Prompts)
    BY <1>4, <2>1 DEF Release, PromptTypeOK
  <2>3. queue # <<>> => Job(1, Head(queue), NoLine) \in Jobs
    BY <2>1, JobParts DEF Prompts
  <2>4. job' \in [Actors -> Jobs]
    BY <1>4, <2>3, NewJob, ActorNames DEF Release, ChannelTypeOK
  <2> QED
    BY <1>4, <2>2, <2>4 DEF Release, ChannelTypeOK, PromptTypeOK, PermTypeOK, tabVars, agentVars
<1> QED
  BY <1>1, <1>2, <1>3, <1>4 DEF Fork

\* What the tab and the control plane send.
LEMMA SentDown ==
  ASSUME ChannelTypeOK, NEW m \in Downs
  PROVE  Append(down, m) \in Seq(Downs)
BY AppendProperties DEF ChannelTypeOK

\* Tab and control plane keep the types.
LEMMA TabTypes ==
  ASSUME MessageTypeOK, ViewTypeOK, Tab
  PROVE  MessageTypeOK'
<1> USE DEF MessageTypeOK
<1>a. UNCHANGED <<job, toAgent, out, queue, turn, accepted, received, pending, asked, told, answers>>
  BY DEF Tab, TabConnects, TabDrops, CPDetaches, TabPrompts, TabControls, TabAnswers, TabUnchanged,
         turnVars, agentVars
<1>1. down' \in Seq(Downs) /\ submitted' \in Nat
  <2>1. CASE TabConnects
    <3>1. Last(shown) \in Int
      BY ElementOfSeq, EmptySeq, LenProperties DEF Last, ViewTypeOK
    <3>2. opened' \in Nat
      BY <2>1, PumpAssumption DEF TabConnects, ViewTypeOK
    <3>3. [kind |-> "open", id |-> opened', cursor |-> Last(shown)] \in Downs
      BY <3>1, <3>2 DEF Downs
    <3> QED
      BY <2>1, <3>3, SentDown DEF TabConnects, PromptTypeOK
  <2>2. CASE TabDrops
    BY <2>2 DEF TabDrops, ChannelTypeOK, PromptTypeOK
  <2>3. ASSUME NEW k \in Conns, CPDetaches(k)
        PROVE  down' \in Seq(Downs) /\ submitted' \in Nat
    <3>1. k \in Nat
      BY PumpAssumption DEF Conns, ViewTypeOK
    <3>2. [kind |-> "close", id |-> k] \in Downs
      BY <3>1 DEF Downs
    <3> QED
      BY <2>3, <3>2, SentDown DEF CPDetaches, PromptTypeOK
  <2>4. CASE TabPrompts
    <3>1. submitted' \in Prompts
      BY <2>4 DEF TabPrompts, PromptTypeOK, Prompts
    <3>2. [kind |-> "prompt", id |-> submitted'] \in Downs
      BY <3>1 DEF Downs
    <3> QED
      BY <2>4, <3>1, <3>2, SentDown DEF TabPrompts, Prompts
  <2>5. CASE TabControls
    <3>1. [kind |-> "control", id |-> 0] \in Downs
      BY DEF Downs
    <3> QED
      BY <2>5, <3>1, SentDown DEF TabControls, PromptTypeOK
  <2>6. ASSUME NEW q \in Perms, TabAnswers(q)
        PROVE  down' \in Seq(Downs) /\ submitted' \in Nat
    <3>1. [kind |-> "answer", id |-> q] \in Downs
      BY DEF Downs
    <3> QED
      BY <2>6, <3>1, SentDown DEF TabAnswers, PromptTypeOK
  <2> QED
    BY <2>1, <2>2, <2>3, <2>4, <2>5, <2>6 DEF Tab
<1> QED
  BY <1>a, <1>1 DEF ChannelTypeOK, PromptTypeOK, PermTypeOK

\* The writer's next line.
LEMMA NextLine ==
  ASSUME ChannelTypeOK, toAgent # <<>>
  PROVE  Head(toAgent) \in Lines /\ Tail(toAgent) \in Seq(Lines)
BY HeadTailProperties DEF ChannelTypeOK

\* The writer and the agent keep the types.
LEMMA AgentTypes ==
  ASSUME MessageTypeOK, Agent
  PROVE  MessageTypeOK'
<1> USE DEF MessageTypeOK
<1>1. CASE WriteLine
  <2>1. Head(toAgent) \in Lines /\ toAgent' \in Seq(Lines)
    BY <1>1, NextLine DEF WriteLine
  <2>2. /\ Head(toAgent).kind = "prompt" => Head(toAgent).id \in Prompts
        /\ Head(toAgent).kind = "answer" => Head(toAgent).id \in Perms
    BY <2>1, LineKinds
  <2>a. Head(toAgent).kind = "prompt" =>
          /\ Append(turn, Head(toAgent).id) \in Seq(Prompts)
          /\ Append(received, Head(toAgent).id) \in Seq(Prompts)
    BY <2>2, AppendProperties DEF PromptTypeOK
  <2>3. turn' \in Seq(Prompts) /\ received' \in Seq(Prompts)
    BY <1>1, <2>a DEF WriteLine, PromptTypeOK
  <2>4. asked' \subseteq Perms /\ answers' \in [Perms -> Nat]
    BY <1>1, <2>2 DEF WriteLine, PermTypeOK
  <2> QED
    BY <1>1, <2>1, <2>3, <2>4 DEF WriteLine, AgentUnchanged, ChannelTypeOK, PromptTypeOK, PermTypeOK,
                                  turnVars, tabVars
<1>2. CASE AgentUpdates
  <2>1. out' \in Seq(Outputs)
    BY <1>2, OutputKinds, AppendProperties DEF AgentUpdates, ChannelTypeOK
  <2> QED
    BY <1>2, <2>1 DEF AgentUpdates, AgentUnchanged, ChannelTypeOK, PromptTypeOK, PermTypeOK, turnVars,
                      tabVars
<1>3. ASSUME NEW q \in Perms, AgentAsks(q)
      PROVE  MessageTypeOK'
  <2>1. out' \in Seq(Outputs)
    BY <1>3, OutputKinds, AppendProperties DEF AgentAsks, ChannelTypeOK, Ask
  <2> QED
    BY <1>3, <2>1 DEF AgentAsks, AgentUnchanged, ChannelTypeOK, PromptTypeOK, PermTypeOK, turnVars,
                      tabVars
<1>4. CASE AgentEnds
  <2>1. Head(turn) \in Prompts /\ turn' \in Seq(Prompts)
    BY <1>4, HeadTailProperties DEF AgentEnds, PromptTypeOK
  <2>2. out' \in Seq(Outputs)
    BY <1>4, <2>1, OutputKinds, AppendProperties DEF AgentEnds, ChannelTypeOK, Outputs
  <2> QED
    BY <1>4, <2>1, <2>2 DEF AgentEnds, AgentUnchanged, ChannelTypeOK, PromptTypeOK, PermTypeOK, turnVars,
                            tabVars
<1> QED
  BY <1>1, <1>2, <1>3, <1>4 DEF Agent

\* No step sends or stores what has no meaning.
LEMMA MessageTypes ==
  ASSUME MessageTypeOK, ViewTypeOK, [Next]_vars
  PROVE  MessageTypeOK'
<1>1. CASE UNCHANGED vars
  BY <1>1 DEF vars, MessageTypeOK, ChannelTypeOK, PromptTypeOK, PermTypeOK, turnVars, tabVars, agentVars
<1> QED
  BY <1>1, JobTypes, RecvTypes, ReadLoopTypes, OtherTypes, TabTypes, AgentTypes DEF Next

----------------------------------------------------------------------------
(* The log and its readers keep their types.                                 *)

\* Waking clients changes nothing but their notification.
LEMMA AppendFramesTypes ==
  ASSUME ViewTypeOK, NEW n \in Nat, AppendFrames(n)
  PROVE  /\ seq' \in Nat /\ base' \in Nat /\ base' <= seq'
         /\ conn' \in [Conns -> ConnType]
         /\ \A k \in Conns : /\ conn'[k].on = conn[k].on /\ conn'[k].cursor = conn[k].cursor
                             /\ conn'[k].phase = conn[k].phase /\ conn'[k].reset = conn[k].reset
                             /\ conn'[k].lo = conn[k].lo /\ conn'[k].hi = conn[k].hi
                             /\ conn[k].on = "none" => conn'[k].notify = conn[k].notify
<1>1. seq' \in Nat /\ base' \in Nat /\ base' <= seq'
  <2>1. MaxLog \in Nat \ {0}
    BY PumpAssumption
  <2> QED
    BY <2>1 DEF AppendFrames, ViewTypeOK, Max2
<1>2. ASSUME NEW k \in Conns
      PROVE  /\ conn'[k] \in ConnType
             /\ conn'[k].on = conn[k].on /\ conn'[k].cursor = conn[k].cursor
             /\ conn'[k].phase = conn[k].phase /\ conn'[k].reset = conn[k].reset
             /\ conn'[k].lo = conn[k].lo /\ conn'[k].hi = conn[k].hi
             /\ conn[k].on = "none" => conn'[k].notify = conn[k].notify
  <2>1. conn[k] \in ConnType
    BY DEF ViewTypeOK
  <2>2. conn'[k] = IF k \in Live THEN [conn[k] EXCEPT !.notify = TRUE] ELSE conn[k]
    BY DEF AppendFrames
  <2> QED
    BY <2>1, <2>2 DEF ConnType, Live
<1>3. conn' \in [Conns -> ConnType]
  <2>1. conn' = [k \in Conns |-> IF k \in Live THEN [conn[k] EXCEPT !.notify = TRUE] ELSE conn[k]]
    BY DEF AppendFrames
  <2> QED
    BY <2>1, <1>2
<1> QED
  BY <1>1, <1>2, <1>3

----------------------------------------------------------------------------
(* One turn at a time.                                                       *)

\* The parts of the state the turn is made of.
turnState == <<busy, barrier, fork, job, ended, toAgent, turn, asked, out>>

\* TurnInv depends on these variables only.
LEMMA TurnSame ==
  ASSUME TurnInv, UNCHANGED turnState
  PROVE  TurnInv'
BY DEF TurnInv, TurnPlaces, TurnExclusive, TurnBusy, TurnJobs, ForkQuiet, Starting, Holds, Once, turnState

\* A goroutine without a prompt takes a job without one.
LEMMA TurnOtherJob ==
  ASSUME ChannelTypeOK, TurnInv, NEW a \in Actors, NEW j \in Jobs, Does(a, j),
         j.prompt = NoPrompt, j.line \notin PromptLines, ended => a # "rd",
         UNCHANGED <<busy, barrier, fork, ended, toAgent, turn, asked, out>>
  PROVE  TurnInv'
<1>1. /\ job'[a] = j /\ \A b \in Actors \ {a} : job'[b] = job[b]
      /\ Starting' = Starting \ {a}
  BY NewJob
<1>2. TurnPlaces' /\ TurnExclusive' /\ TurnBusy' /\ ForkQuiet'
  BY <1>1 DEF TurnInv, TurnPlaces, TurnExclusive, TurnBusy, ForkQuiet, Holds, Once
<1>3. TurnJobs'
  BY <1>1, ActorNames DEF TurnInv, TurnJobs
<1> QED
  BY <1>2, <1>3 DEF TurnInv

\* A goroutine carries its job on.
LEMMA TurnJob ==
  ASSUME MessageTypeOK, TurnInv, NEW a \in Actors, JobStep(a)
  PROVE  TurnInv'
<1> USE DEF MessageTypeOK
<1>1. CASE LogFrames(a)
  <2>1. /\ [job[a] EXCEPT !.frames = 0] \in Jobs
        /\ [job[a] EXCEPT !.frames = 0].prompt = job[a].prompt
        /\ [job[a] EXCEPT !.frames = 0].line = job[a].line
    BY DEF ChannelTypeOK, Jobs
  <2>2. /\ \A b \in Actors : job'[b].prompt = job[b].prompt /\ job'[b].line = job[b].line
        /\ \A b \in Actors \ {a} : job'[b] = job[b]
    BY <1>1, <2>1, NewJob DEF LogFrames
  <2>3. Starting' = Starting
    BY <2>2 DEF Starting
  <2>4. UNCHANGED <<busy, barrier, fork, ended, toAgent, turn, asked, out>>
    BY <1>1 DEF LogFrames, turnVars, forkVars, agentVars
  <2>5. ended => a # "rd"
    BY <1>1, NoJobParts DEF LogFrames, TurnInv, TurnJobs
  <2>6. TurnPlaces' /\ TurnExclusive' /\ TurnBusy' /\ ForkQuiet'
    BY <2>3, <2>4 DEF TurnInv, TurnPlaces, TurnExclusive, TurnBusy, ForkQuiet, Holds, Once
  <2>7. TurnJobs'
    BY <2>2, <2>3, <2>4, <2>5, ActorNames DEF TurnInv, TurnJobs
  <2> QED
    BY <2>6, <2>7 DEF TurnInv
<1>2. CASE SendPrompt(a)
  <2> DEFINE l == PromptLine(job[a].prompt)
  <2>1. job[a].prompt \in Prompts
    BY <1>2 DEF SendPrompt, ChannelTypeOK, Jobs, Prompts, NoPrompt
  <2>2. l \in PromptLines /\ l \in Lines
    BY <2>1, LineKinds DEF Lines
  <2>3. /\ Job(0, NoPrompt, l) \in Jobs /\ Job(0, NoPrompt, l).prompt = NoPrompt
        /\ Job(0, NoPrompt, l).line = l
    BY <2>2, JobParts DEF NoPrompt
  <2>4. /\ job'[a] = Job(0, NoPrompt, l) /\ \A b \in Actors \ {a} : job'[b] = job[b]
        /\ Starting' = Starting \cup {a} /\ a \in Starting
    BY <1>2, <2>2, <2>3, NewJob DEF SendPrompt, Starting
  <2>5. UNCHANGED <<busy, barrier, fork, ended, toAgent, turn, asked, out>>
    BY <1>2 DEF SendPrompt, forkVars, agentVars
  <2>6. TurnPlaces' /\ TurnExclusive' /\ TurnBusy' /\ ForkQuiet'
    BY <2>4, <2>5 DEF TurnInv, TurnPlaces, TurnExclusive, TurnBusy, ForkQuiet, Holds, Once
  <2>7. TurnJobs'
    <3>1. Starting' = Starting
      BY <2>4
    <3>2. ~ended
      BY <2>4 DEF TurnInv, TurnExclusive
    <3> QED
      BY <2>3, <2>4, <2>5, <3>1, <3>2 DEF TurnInv, TurnJobs
  <2> QED
    BY <2>6, <2>7 DEF TurnInv
<1>3. CASE SendLine(a)
  <2>1. /\ job[a].line \in Lines /\ job[a].prompt = NoPrompt
    BY <1>3 DEF SendLine, ChannelTypeOK, Jobs, TurnInv, TurnJobs
  <2>2. /\ job'[a] = NoJob /\ \A b \in Actors \ {a} : job'[b] = job[b]
        /\ Starting' = Starting \ {a}
    BY <1>3, NewJob, NoJobParts, LineKinds DEF SendLine
  <2>3. UNCHANGED <<busy, barrier, fork, ended, turn, asked, out>>
    BY <1>3 DEF SendLine, turnVars, forkVars, agentVars
  <2>4. TurnJobs'
    BY <2>2, <2>3, NoJobParts, ActorNames DEF TurnInv, TurnJobs
  <2>5. CASE toAgent' = toAgent
    BY <2>2, <2>3, <2>4, <2>5 DEF TurnInv, TurnPlaces, TurnExclusive, TurnBusy, ForkQuiet, Holds, Once
  <2>6. CASE toAgent' = Append(toAgent, job[a].line)
    <3>1. /\ Holds(toAgent', PromptLines) <=> Holds(toAgent, PromptLines) \/ job[a].line \in PromptLines
          /\ Once(toAgent, PromptLines) /\ (job[a].line \notin PromptLines \/ ~Holds(toAgent, PromptLines))
               => Once(toAgent', PromptLines)
      BY <2>1, <2>6, AppendHolds DEF ChannelTypeOK
    <3>2. UNCHANGED <<turn, out, ended, busy, fork, barrier, asked>>
      BY <2>3
    <3>a. Holds(out', Results) = Holds(out, Results) /\ Once(out', Results) = Once(out, Results)
      BY <2>3
    <3>3. job[a].line \in PromptLines => Starting = {a}
      BY DEF Starting, TurnInv, TurnPlaces
    <3>4. TurnPlaces' /\ TurnExclusive' /\ TurnBusy' /\ ForkQuiet'
      BY <2>2, <3>1, <3>2, <3>a, <3>3 DEF TurnInv, TurnPlaces, TurnExclusive, TurnBusy, ForkQuiet
    <3> QED
      BY <3>4, <2>4 DEF TurnInv
  <2> QED
    BY <1>3, <2>5, <2>6 DEF SendLine
<1> QED
  BY <1>1, <1>2, <1>3 DEF JobStep

\* A goroutine of the pump starts a turn when there is none.
LEMMA TurnStart ==
  ASSUME ChannelTypeOK, TurnInv, NEW a \in {"rx", "rd", "fork"}, NEW j \in Jobs, Does(a, j),
         j.prompt # NoPrompt, j.line = NoLine,
         Starting = {}, ~Holds(toAgent, PromptLines), turn = <<>>, ~Holds(out, Results),
         busy', ~ended', fork' # "held",
         UNCHANGED <<toAgent, turn, asked, out>>
  PROVE  TurnInv'
<1>1. a \in Actors /\ a \notin Perms
  BY PumpAssumption DEF Actors
<1>2. /\ job'[a] = j /\ \A b \in Actors \ {a} : job'[b] = job[b]
      /\ Starting' = {a}
  <2>1. /\ job'[a] = j /\ \A b \in Actors \ {a} : job'[b] = job[b]
        /\ Starting' \subseteq Starting \cup {a} /\ a \in Starting'
    BY <1>1, NewJob
  <2> QED
    BY <2>1
<1>3. TurnPlaces'
  BY <1>2 DEF TurnInv, TurnPlaces, Once
<1>4. TurnExclusive' /\ TurnBusy' /\ ForkQuiet'
  BY <1>2 DEF TurnInv, TurnExclusive, TurnBusy, ForkQuiet, Holds
<1>5. TurnJobs'
  BY <1>1, <1>2 DEF TurnInv, TurnJobs
<1> QED
  BY <1>3, <1>4, <1>5 DEF TurnInv

\* The receive loop takes a message.
LEMMA TurnRecv ==
  ASSUME MessageTypeOK, TurnInv, RecvLoop
  PROVE  TurnInv'
<1> USE DEF MessageTypeOK
<1>0. "rx" \in Actors
  BY ActorNames
<1>1. CASE RecvPrompt
  <2>1. Head(down).id \in Prompts
    BY <1>1, ReceiveTypes, DownKinds DEF RecvPrompt
  <2>2. UNCHANGED <<barrier, fork, ended, toAgent, turn, asked, out>>
    BY <1>1 DEF RecvPrompt, forkVars, agentVars
  <2>3. CASE stopped
    BY <1>1, <2>2, <2>3, TurnSame DEF RecvPrompt, turnState
  <2>4. ASSUME NEW n \in Nat, Does("rx", Job(n, NoPrompt, NoLine)), UNCHANGED busy
        PROVE  TurnInv'
    <3>1. /\ Job(n, NoPrompt, NoLine) \in Jobs /\ Job(n, NoPrompt, NoLine).prompt = NoPrompt
          /\ Job(n, NoPrompt, NoLine).line \notin PromptLines
      BY JobParts, LineKinds DEF NoPrompt
    <3> QED
      BY <1>0, <2>2, <2>4, <3>1, TurnOtherJob
  <2>5. ASSUME ~barrier, ~busy, busy', Does("rx", Job(2, Head(down).id, NoLine))
        PROVE  TurnInv'
    <3>1. /\ Job(2, Head(down).id, NoLine) \in Jobs
          /\ Job(2, Head(down).id, NoLine).prompt # NoPrompt
          /\ Job(2, Head(down).id, NoLine).line = NoLine
      BY <2>1, JobParts DEF NoPrompt, Prompts
    <3>2. /\ Starting = {} /\ ~Holds(toAgent, PromptLines) /\ turn = <<>>
          /\ ~Holds(out, Results) /\ ~ended /\ fork # "held"
      BY <2>5 DEF TurnInv, TurnBusy, ForkQuiet
    <3>3. ~ended' /\ fork' # "held"
      BY <3>2, <2>2
    <3> QED
      BY <2>2, <2>5, <3>1, <3>2, <3>3, TurnStart
  <2> QED
    BY <1>1, <2>3, <2>4, <2>5 DEF RecvPrompt, TakePrompt
<1>2. CASE RecvAnswer
  <2>1. Head(down).id \in Perms
    BY <1>2, ReceiveTypes, DownKinds DEF RecvAnswer
  <2>2. UNCHANGED <<busy, barrier, fork, ended, toAgent, turn, asked, out>>
    BY <1>2 DEF RecvAnswer, turnVars, forkVars, agentVars
  <2>3. /\ Job(0, NoPrompt, AnswerLine(Head(down).id)) \in Jobs
        /\ Job(0, NoPrompt, AnswerLine(Head(down).id)).prompt = NoPrompt
        /\ Job(0, NoPrompt, AnswerLine(Head(down).id)).line \notin PromptLines
    <3>1. /\ AnswerLine(Head(down).id) \in Lines \cup {NoLine}
          /\ AnswerLine(Head(down).id) \notin PromptLines /\ NoPrompt \in Nat /\ 0 \in Nat
      BY <2>1, LineKinds DEF NoPrompt, Lines
    <3> QED
      BY <3>1, JobParts
  <2> QED
    BY <1>0, <1>2, <2>2, <2>3, TurnSame, TurnOtherJob DEF RecvAnswer, Resolve, turnState
<1>3. CASE RecvControl
  <2>2. UNCHANGED <<busy, barrier, fork, ended, toAgent, turn, asked, out>>
    BY <1>3 DEF RecvControl, turnVars, forkVars, agentVars
  <2>3. /\ Job(0, NoPrompt, ControlLine) \in Jobs
        /\ Job(0, NoPrompt, ControlLine).prompt = NoPrompt
        /\ Job(0, NoPrompt, ControlLine).line \notin PromptLines
    BY JobParts, LineKinds DEF NoPrompt, Lines
  <2> QED
    BY <1>0, <1>3, <2>2, <2>3, NoJobParts, LineKinds, TurnOtherJob DEF RecvControl
<1>4. CASE RecvOpen \/ RecvClose
  BY <1>4, TurnSame DEF RecvOpen, RecvClose, turnState, turnVars, forkVars, agentVars
<1> QED
  BY <1>1, <1>2, <1>3, <1>4 DEF RecvLoop

\* readLoop takes a message, or ends the turn and drains the queue.
LEMMA TurnRead ==
  ASSUME MessageTypeOK, TurnInv, ReadLoop
  PROVE  TurnInv'
<1> USE DEF MessageTypeOK
<1>0. "rd" \in Actors
  BY ActorNames
<1>t. ASSUME NEW k, Reads(k)
      PROVE  /\ Holds(out, Results) <=> Head(out) \in Results \/ Holds(out', Results)
             /\ Once(out', Results) /\ (Head(out) \in Results => ~Holds(out', Results))
             /\ job["rd"] = NoJob /\ ~ended
             /\ k # "result" => Head(out) \notin Results
             /\ k = "result" => Head(out) \in Results
  <2>1. Head(out) \in Outputs /\ Head(out).kind = k
    BY <1>t, ReadTypes
  <2>2. k # "result" => Head(out) \notin Results
    BY <2>1, OutputKinds
  <2>3. k = "result" => Head(out) \in Results
    BY <2>1, OutputKinds
  <2> QED
    BY <1>t, <2>2, <2>3, TailHolds DEF Reads, ChannelTypeOK, TurnInv, TurnPlaces, Idle
<1>1. CASE ReadResult
  <2>1. UNCHANGED <<busy, barrier, fork, job, toAgent, turn, asked>>
    BY <1>1 DEF ReadResult, turnVars, forkVars, agentVars
  <2>2. /\ Holds(out, Results) /\ ~Holds(out', Results) /\ Once(out', Results)
        /\ job["rd"] = NoJob
    BY <1>1, <1>t DEF ReadResult
  <2>3. Starting' = Starting
    BY <2>1 DEF Starting
  <2>4. ended' \in BOOLEAN
    BY <1>1 DEF ReadResult
  <2>5. Starting = {} /\ ~Holds(toAgent, PromptLines) /\ turn = <<>> /\ busy
    BY <2>2 DEF TurnInv, TurnExclusive, TurnBusy
  <2>6. ~Holds(toAgent', PromptLines) /\ Once(toAgent', PromptLines)
    BY <2>1, <2>5 DEF TurnInv, TurnPlaces
  <2> QED
    BY <2>1, <2>2, <2>3, <2>4, <2>5, <2>6
       DEF TurnInv, TurnPlaces, TurnExclusive, TurnBusy, TurnJobs, ForkQuiet
<1>2. CASE TurnEnd
  <2>1. UNCHANGED <<barrier, fork, toAgent, turn, asked, out>> /\ ended /\ ~ended'
    BY <1>2 DEF TurnEnd, forkVars, agentVars
  <2>2. /\ Starting = {} /\ ~Holds(toAgent, PromptLines) /\ turn = <<>>
        /\ ~Holds(out, Results) /\ busy
    BY <2>1 DEF TurnInv, TurnExclusive, TurnBusy
  <2>3. CASE ~barrier /\ queue # <<>>
    <3>1. Head(queue) \in Prompts
      BY <2>3, HeadTailProperties DEF PromptTypeOK
    <3>2. /\ Job(1, Head(queue), NoLine) \in Jobs
          /\ Job(1, Head(queue), NoLine).prompt # NoPrompt
          /\ Job(1, Head(queue), NoLine).line = NoLine
      BY <3>1, JobParts DEF NoPrompt, Prompts
    <3>3. Does("rd", Job(1, Head(queue), NoLine)) /\ busy' /\ fork' # "held"
      BY <1>2, <2>1, <2>3 DEF TurnEnd, TurnInv, ForkQuiet
    <3> QED
      BY <2>1, <2>2, <3>2, <3>3, TurnStart
  <2>4. CASE ~(~barrier /\ queue # <<>>)
    <3>1. /\ Job(1, NoPrompt, NoLine) \in Jobs /\ Job(1, NoPrompt, NoLine).prompt = NoPrompt
          /\ Job(1, NoPrompt, NoLine).line = NoLine
      BY JobParts DEF NoPrompt
    <3>2. Does("rd", Job(1, NoPrompt, NoLine)) /\ ~busy'
      BY <1>2, <2>4 DEF TurnEnd
    <3>3. /\ job'["rd"] = Job(1, NoPrompt, NoLine) /\ \A b \in Actors \ {"rd"} : job'[b] = job[b]
          /\ Starting' = {}
      BY <1>0, <2>2, <3>1, <3>2, NewJob, LineKinds
    <3>4. /\ ~Holds(toAgent', PromptLines) /\ Once(toAgent', PromptLines)
          /\ ~Holds(out', Results) /\ Once(out', Results)
      BY <2>1, <2>2 DEF TurnInv, TurnPlaces
    <3>5. TurnPlaces' /\ TurnExclusive' /\ TurnBusy' /\ ForkQuiet'
      BY <2>1, <2>2, <3>2, <3>3, <3>4 DEF TurnInv, TurnPlaces, TurnExclusive, TurnBusy, ForkQuiet
    <3>6. TurnJobs'
      BY <2>1, <3>1, <3>3 DEF TurnInv, TurnJobs
    <3> QED
      BY <3>5, <3>6 DEF TurnInv
  <2> QED
    BY <2>3, <2>4
<1>3. CASE ReadUpdate \/ ReadAsk
  <2>1. UNCHANGED <<busy, barrier, fork, job, ended, toAgent, turn, asked>>
    BY <1>3 DEF ReadUpdate, ReadAsk, turnVars, forkVars, agentVars
  <2>2. (Holds(out', Results) <=> Holds(out, Results)) /\ Once(out', Results)
    BY <1>3, <1>t DEF ReadUpdate, ReadAsk
  <2>3. Starting' = Starting
    BY <2>1 DEF Starting
  <2>4. /\ Holds(toAgent', PromptLines) = Holds(toAgent, PromptLines)
        /\ Once(toAgent', PromptLines) = Once(toAgent, PromptLines)
    BY <2>1
  <2>5. TurnPlaces' /\ TurnExclusive' /\ TurnBusy' /\ ForkQuiet'
    BY <2>1, <2>2, <2>3, <2>4 DEF TurnInv, TurnPlaces, TurnExclusive, TurnBusy, ForkQuiet
  <2>6. TurnJobs'
    BY <2>1, <2>3 DEF TurnInv, TurnJobs
  <2> QED
    BY <2>5, <2>6 DEF TurnInv
<1> QED
  BY <1>1, <1>2, <1>3 DEF ReadLoop

\* Timers, forks, client loops, stop and the tab.
LEMMA TurnOther ==
  ASSUME MessageTypeOK, TurnInv,
         \/ \E q \in Perms : PermTimeout(q)
         \/ \E k \in Conns : ClientLoop(k)
         \/ Fork \/ Stop \/ Tab
  PROVE  TurnInv'
<1> USE DEF MessageTypeOK
<1>1. ASSUME NEW q \in Perms, PermTimeout(q)
      PROVE  TurnInv'
  <2>1. UNCHANGED <<busy, barrier, fork, ended, toAgent, turn, asked, out>>
    BY <1>1 DEF PermTimeout, turnVars, forkVars, agentVars
  <2>2. /\ Job(0, NoPrompt, AnswerLine(q)) \in Jobs
        /\ Job(0, NoPrompt, AnswerLine(q)).prompt = NoPrompt
        /\ Job(0, NoPrompt, AnswerLine(q)).line \notin PromptLines
    BY JobParts, LineKinds DEF NoPrompt, Lines
  <2>3. q \in Actors /\ q # "rd" /\ Does(q, Job(0, NoPrompt, AnswerLine(q)))
    BY <1>1, PumpAssumption DEF Actors, PermTimeout, Resolve
  <2> QED
    BY <2>1, <2>2, <2>3, TurnOtherJob
<1>2. ASSUME NEW k \in Conns, ClientLoop(k)
      PROVE  TurnInv'
  BY <1>2, TurnSame DEF ClientLoop, LoopExit, LoopScan, LoopSend, LoopUnchanged, turnState,
                        turnVars, forkVars, agentVars
<1>3. CASE Stop
  BY <1>3, TurnSame DEF Stop, turnState, turnVars, forkVars, agentVars
<1>4. CASE Tab
  BY <1>4, TurnSame DEF Tab, TabConnects, TabDrops, CPDetaches, TabPrompts, TabControls, TabAnswers,
                        TabUnchanged, turnState, turnVars, forkVars, agentVars
<1>5. CASE ForkStart \/ TryAcquire
  <2>1. UNCHANGED <<busy, job, ended, toAgent, turn, asked, out>>
    BY <1>5 DEF ForkStart, TryAcquire, turnVars, agentVars
  <2>2. TurnPlaces' /\ TurnExclusive' /\ TurnBusy' /\ TurnJobs'
    BY <2>1 DEF TurnInv, TurnPlaces, TurnExclusive, TurnBusy, TurnJobs, Starting, Holds, Once
  <2>3. ForkQuiet'
    BY <1>5, <2>1 DEF ForkStart, TryAcquire, TurnInv, ForkQuiet
  <2> QED
    BY <2>2, <2>3 DEF TurnInv
<1>6. CASE Release
  <2>1. UNCHANGED <<ended, toAgent, turn, asked, out>> /\ fork' = "idle"
    BY <1>6 DEF Release, agentVars
  <2>2. CASE barrier /\ ~busy /\ inflight = NoPrompt /\ queue # <<>>
    <3>1. Head(queue) \in Prompts
      BY <2>2, HeadTailProperties DEF PromptTypeOK
    <3>2. /\ Job(1, Head(queue), NoLine) \in Jobs
          /\ Job(1, Head(queue), NoLine).prompt # NoPrompt
          /\ Job(1, Head(queue), NoLine).line = NoLine
      BY <3>1, JobParts DEF NoPrompt, Prompts
    <3>3. Does("fork", Job(1, Head(queue), NoLine)) /\ busy'
      BY <1>6, <2>2 DEF Release
    <3>4. /\ Starting = {} /\ ~Holds(toAgent, PromptLines) /\ turn = <<>>
          /\ ~Holds(out, Results) /\ ~ended
      BY <2>2 DEF TurnInv, TurnBusy
    <3> QED
      BY <2>1, <3>2, <3>3, <3>4, TurnStart
  <2>3. CASE ~(barrier /\ ~busy /\ inflight = NoPrompt /\ queue # <<>>)
    <3>1. UNCHANGED <<busy, job>>
      BY <1>6, <2>3 DEF Release
    <3> QED
      BY <2>1, <3>1 DEF TurnInv, TurnPlaces, TurnExclusive, TurnBusy, TurnJobs, ForkQuiet, Starting,
                        Holds, Once
  <2> QED
    BY <2>2, <2>3
<1> QED
  BY <1>1, <1>2, <1>3, <1>4, <1>5, <1>6 DEF Fork

\* The writer and the agent pass a prompt on.
LEMMA TurnAgent ==
  ASSUME MessageTypeOK, TurnInv, Agent
  PROVE  TurnInv'
<1> USE DEF MessageTypeOK
<1>0. UNCHANGED <<busy, barrier, fork, job, ended>>
  BY DEF Agent, WriteLine, AgentUpdates, AgentEnds, AgentAsks, AgentUnchanged, turnVars, forkVars
<1>a. Starting' = Starting
  BY <1>0 DEF Starting
<1>b. TurnJobs'
  BY <1>0, <1>a DEF TurnInv, TurnJobs
<1>1. CASE WriteLine
  <2>1. toAgent # <<>> /\ toAgent' = Tail(toAgent) /\ Head(toAgent) \in Lines
    BY <1>1, NextLine DEF WriteLine
  <2>2. /\ Holds(toAgent, PromptLines) <=> Head(toAgent) \in PromptLines \/ Holds(toAgent', PromptLines)
        /\ Once(toAgent', PromptLines)
        /\ Head(toAgent) \in PromptLines => ~Holds(toAgent', PromptLines)
    BY <2>1, TailHolds DEF ChannelTypeOK, TurnInv, TurnPlaces
  <2>3. /\ Holds(out', Results) = Holds(out, Results) /\ Once(out', Results) = Once(out, Results)
    BY <1>1 DEF WriteLine
  <2>4. CASE Head(toAgent).kind = "prompt"
    <3>1. Head(toAgent) \in PromptLines /\ Head(toAgent).id \in Prompts
      BY <2>1, <2>4, LineKinds
    <3>2. turn = <<>> /\ turn' = Append(turn, Head(toAgent).id) /\ UNCHANGED asked
      BY <1>1, <2>2, <2>4, <3>1 DEF WriteLine, TurnInv, TurnExclusive
    <3>3. Len(turn') = 1 /\ turn' # <<>> /\ asked = {}
      BY <3>1, <3>2, AppendProperties, EmptySeq DEF PromptTypeOK, TurnInv, ForkQuiet
    <3>4. busy /\ Starting = {} /\ ~Holds(out, Results) /\ ~ended
      BY <2>2, <3>1 DEF TurnInv, TurnBusy, TurnExclusive
    <3>5. TurnPlaces' /\ TurnExclusive' /\ TurnBusy' /\ ForkQuiet'
      BY <1>0, <1>a, <2>2, <2>3, <3>1, <3>2, <3>3, <3>4
         DEF TurnInv, TurnPlaces, TurnExclusive, TurnBusy, ForkQuiet
    <3> QED
      BY <1>b, <3>5 DEF TurnInv
  <2>5. CASE Head(toAgent).kind # "prompt"
    <3>1. Head(toAgent) \notin PromptLines
      BY <2>5, LineKinds
    <3>2. UNCHANGED turn /\ asked' \subseteq asked
      BY <1>1, <2>5 DEF WriteLine
    <3>5. TurnPlaces' /\ TurnExclusive' /\ TurnBusy' /\ ForkQuiet'
      BY <1>0, <1>a, <2>2, <2>3, <3>1, <3>2
         DEF TurnInv, TurnPlaces, TurnExclusive, TurnBusy, ForkQuiet
    <3> QED
      BY <1>b, <3>5 DEF TurnInv
  <2> QED
    BY <2>4, <2>5
<1>2. ASSUME NEW m \in Outputs, out' = Append(out, m), m \notin Results,
             UNCHANGED <<toAgent, turn>>, turn # <<>> \/ UNCHANGED asked
      PROVE  TurnInv'
  <2>1. (Holds(out', Results) <=> Holds(out, Results)) /\ Once(out', Results)
    BY <1>2, AppendHolds DEF ChannelTypeOK, TurnInv, TurnPlaces
  <2>2. /\ Holds(toAgent', PromptLines) = Holds(toAgent, PromptLines)
        /\ Once(toAgent', PromptLines) = Once(toAgent, PromptLines)
    BY <1>2
  <2>3. TurnPlaces' /\ TurnExclusive' /\ TurnBusy' /\ ForkQuiet'
    BY <1>0, <1>a, <1>2, <2>1, <2>2 DEF TurnInv, TurnPlaces, TurnExclusive, TurnBusy, ForkQuiet
  <2> QED
    BY <1>b, <2>3 DEF TurnInv
<1>3. CASE AgentUpdates
  BY <1>2, <1>3, OutputKinds DEF AgentUpdates
<1>4. ASSUME NEW q \in Perms, AgentAsks(q)
      PROVE  TurnInv'
  BY <1>2, <1>4, OutputKinds DEF AgentAsks, Ask
<1>5. CASE AgentEnds
  <2> DEFINE m == [kind |-> "result", id |-> Head(turn)]
  <2>1. turn # <<>> /\ asked = {} /\ out' = Append(out, m) /\ turn' = Tail(turn) /\ UNCHANGED <<toAgent, asked>>
    BY <1>5 DEF AgentEnds
  <2>2. Head(turn) \in Prompts /\ turn' = <<>>
    <3>a. Len(turn) \in Nat /\ Len(turn) # 0
      BY <2>1, EmptySeq, LenProperties DEF PromptTypeOK
    <3>b. Len(turn) <= 1
      BY DEF TurnInv, TurnPlaces
    <3>1. Len(turn) = 1
      BY <3>a, <3>b
    <3>2. Head(turn) \in Prompts /\ Tail(turn) \in Seq(Prompts) /\ Len(Tail(turn)) = 0
      BY <2>1, <3>1, HeadTailProperties DEF PromptTypeOK
    <3> QED
      BY <2>1, <3>2, EmptySeq
  <2>3. m \in Results /\ m \in Outputs
    BY <2>2, OutputKinds DEF Outputs
  <2>4. /\ ~Holds(out, Results) /\ ~ended /\ busy /\ Starting = {} /\ ~Holds(toAgent, PromptLines)
    BY <2>1 DEF TurnInv, TurnExclusive, TurnBusy
  <2>5. Holds(out', Results) /\ Once(out', Results)
    BY <2>1, <2>3, <2>4, AppendHolds DEF ChannelTypeOK, TurnInv, TurnPlaces
  <2>6. ~Holds(toAgent', PromptLines) /\ Once(toAgent', PromptLines)
    BY <2>1, <2>4 DEF TurnInv, TurnPlaces
  <2>7. Len(turn') = 0
    BY <2>2, EmptySeq
  <2>8. TurnPlaces' /\ TurnExclusive' /\ TurnBusy' /\ ForkQuiet'
    BY <1>0, <1>a, <2>1, <2>2, <2>4, <2>5, <2>6, <2>7
       DEF TurnInv, TurnPlaces, TurnExclusive, TurnBusy, ForkQuiet
  <2> QED
    BY <1>b, <2>8 DEF TurnInv
<1> QED
  BY <1>1, <1>3, <1>4, <1>5 DEF Agent

\* Every step keeps one turn at a time.
LEMMA TurnStep ==
  ASSUME MessageTypeOK, TurnInv, [Next]_vars
  PROVE  TurnInv'
<1>1. CASE UNCHANGED vars
  BY <1>1, TurnSame DEF vars, turnState, turnVars, forkVars, agentVars
<1> QED
  BY <1>1, TurnJob, TurnRecv, TurnRead, TurnOther, TurnAgent DEF Next

----------------------------------------------------------------------------
(* One answer per request.                                                   *)

answerState == <<job, toAgent, out, pending, asked, answers>>

\* AnswerInv depends on these variables only.
LEMMA AnswerSame ==
  ASSUME AnswerInv, UNCHANGED answerState
  PROVE  AnswerInv'
BY DEF AnswerInv, AnswerPlaces, AnswerExclusive, AnswerOwed, Giving, Holds, Once, answerState

\* Goroutines drop answers or do something else.
LEMMA AnswerFewer ==
  ASSUME AnswerInv, \A q \in Perms : Giving(q)' \subseteq Giving(q), pending' \subseteq pending,
         UNCHANGED <<toAgent, out, asked, answers>>
  PROVE  AnswerInv'
<1> SUFFICES ASSUME NEW q \in Perms
             PROVE  (AnswerPlaces(q) /\ AnswerExclusive(q) /\ AnswerOwed(q))'
  BY DEF AnswerInv
<1>1. AnswerPlaces(q) /\ AnswerExclusive(q) /\ AnswerOwed(q) /\ Giving(q)' \subseteq Giving(q)
  BY DEF AnswerInv
<1>2. /\ Holds(out, {Ask(q)})' = Holds(out, {Ask(q)})
      /\ Holds(toAgent, {AnswerLine(q)})' = Holds(toAgent, {AnswerLine(q)})
      /\ Once(out, {Ask(q)})' = Once(out, {Ask(q)})
      /\ Once(toAgent, {AnswerLine(q)})' = Once(toAgent, {AnswerLine(q)})
  OBVIOUS
<1> QED
  BY <1>1, <1>2 DEF AnswerPlaces, AnswerExclusive, AnswerOwed

\* A new job that brings no new answer.
LEMMA OtherJobGives ==
  ASSUME ChannelTypeOK, NEW a \in Actors, NEW j \in Jobs, Does(a, j),
         j.line = job[a].line \/ j.line \notin AnswerLines
  PROVE  \A q \in Perms : Giving(q)' \subseteq Giving(q)
<1> SUFFICES ASSUME NEW q \in Perms
             PROVE  Giving(q)' \subseteq Giving(q)
  OBVIOUS
<1>1. Giving(q)' \subseteq Giving(q) \cup {a} /\ (a \in Giving(q)' <=> j.line = AnswerLine(q))
  BY NewJob
<1>2. a \in Giving(q)' => a \in Giving(q)
  BY <1>1, LineKinds DEF Giving
<1> QED
  BY <1>1, <1>2

\* The first of the clients and the timer takes the request.
LEMMA AnswerResolve ==
  ASSUME ChannelTypeOK, AnswerInv, NEW r \in Perms, NEW a \in Actors, Resolve(r, a),
         UNCHANGED <<toAgent, out, asked, answers>>
  PROVE  AnswerInv'
<1>1. CASE r \notin pending
  BY <1>1, AnswerFewer DEF Resolve, Giving
<1>2. CASE r \in pending
  <2>1. pending' = pending \ {r} /\ Does(a, Job(0, NoPrompt, AnswerLine(r)))
    BY <1>2 DEF Resolve
  <2>2. Job(0, NoPrompt, AnswerLine(r)) \in Jobs /\ Job(0, NoPrompt, AnswerLine(r)).line = AnswerLine(r)
    BY LineKinds, JobParts DEF NoPrompt, Lines
  <2> SUFFICES ASSUME NEW q \in Perms
               PROVE  (AnswerPlaces(q) /\ AnswerExclusive(q) /\ AnswerOwed(q))'
    BY DEF AnswerInv
  <2>3. AnswerPlaces(q) /\ AnswerExclusive(q) /\ AnswerOwed(q)
    BY DEF AnswerInv
  <2>4. /\ Holds(out, {Ask(q)})' = Holds(out, {Ask(q)})
        /\ Holds(toAgent, {AnswerLine(q)})' = Holds(toAgent, {AnswerLine(q)})
        /\ Once(out, {Ask(q)})' = Once(out, {Ask(q)})
        /\ Once(toAgent, {AnswerLine(q)})' = Once(toAgent, {AnswerLine(q)})
    OBVIOUS
  <2>5. /\ Giving(q)' \subseteq Giving(q) \cup {a}
        /\ a \in Giving(q)' <=> AnswerLine(r) = AnswerLine(q)
    BY <2>1, <2>2, NewJob
  <2>6. CASE q = r
    BY <1>2, <2>1, <2>3, <2>4, <2>5, <2>6 DEF AnswerPlaces, AnswerExclusive, AnswerOwed
  <2>7. CASE q # r
    <3>1. AnswerLine(r) # AnswerLine(q)
      BY <2>7, LineKinds
    <3> QED
      BY <2>1, <2>3, <2>4, <2>5, <2>7, <3>1 DEF AnswerPlaces, AnswerExclusive, AnswerOwed
  <2> QED
    BY <2>6, <2>7
<1> QED
  BY <1>1, <1>2

\* Goroutines at work.
LEMMA AnswerJob ==
  ASSUME MessageTypeOK, AnswerInv, NEW a \in Actors, JobStep(a)
  PROVE  AnswerInv'
<1> USE DEF MessageTypeOK
<1>1. CASE LogFrames(a)
  <2>1. /\ [job[a] EXCEPT !.frames = 0] \in Jobs
        /\ [job[a] EXCEPT !.frames = 0].line = job[a].line
    BY DEF ChannelTypeOK, Jobs
  <2>2. \A q \in Perms : Giving(q)' \subseteq Giving(q)
    BY <1>1, <2>1, OtherJobGives DEF LogFrames
  <2> QED
    BY <1>1, <2>2, AnswerFewer DEF LogFrames, agentVars
<1>2. CASE SendPrompt(a)
  <2>1. job[a].prompt \in Prompts
    BY <1>2 DEF SendPrompt, ChannelTypeOK, Jobs, Prompts, NoPrompt
  <2>2. PromptLine(job[a].prompt) \in Lines /\ PromptLine(job[a].prompt) \notin AnswerLines
    BY <2>1, LineKinds DEF Lines
  <2>3. /\ Job(0, NoPrompt, PromptLine(job[a].prompt)) \in Jobs
        /\ Job(0, NoPrompt, PromptLine(job[a].prompt)).line \notin AnswerLines
    BY <2>2, JobParts DEF NoPrompt
  <2>4. \A q \in Perms : Giving(q)' \subseteq Giving(q)
    BY <1>2, <2>3, OtherJobGives DEF SendPrompt
  <2> QED
    BY <1>2, <2>4, AnswerFewer DEF SendPrompt, agentVars
<1>3. CASE SendLine(a)
  <2>1. job[a].line \in Lines
    BY <1>3 DEF SendLine, ChannelTypeOK, Jobs
  <2>2. UNCHANGED <<out, asked, answers, pending>>
    BY <1>3 DEF SendLine, agentVars
  <2>3. \A q \in Perms : Giving(q)' = Giving(q) \ {a}
    <3> SUFFICES ASSUME NEW q \in Perms
                 PROVE  Giving(q)' = Giving(q) \ {a}
      OBVIOUS
    <3>1. NoJob.line # AnswerLine(q)
      BY NoJobParts, LineKinds
    <3> QED
      BY <1>3, <3>1, NewJob, NoJobParts DEF SendLine
  <2>4. CASE toAgent' = toAgent
    BY <2>2, <2>3, <2>4, AnswerFewer
  <2>5. CASE toAgent' = Append(toAgent, job[a].line)
    <3> SUFFICES ASSUME NEW q \in Perms
                 PROVE  (AnswerPlaces(q) /\ AnswerExclusive(q) /\ AnswerOwed(q))'
      BY DEF AnswerInv
    <3>1. AnswerPlaces(q) /\ AnswerExclusive(q) /\ AnswerOwed(q)
      BY DEF AnswerInv
    <3>2. /\ Holds(out, {Ask(q)})' = Holds(out, {Ask(q)})
          /\ Once(out, {Ask(q)})' = Once(out, {Ask(q)})
      BY <2>2
    <3>3. /\ Holds(toAgent', {AnswerLine(q)})
               <=> Holds(toAgent, {AnswerLine(q)}) \/ job[a].line = AnswerLine(q)
          /\ Once(toAgent, {AnswerLine(q)})
             /\ (job[a].line # AnswerLine(q) \/ ~Holds(toAgent, {AnswerLine(q)}))
               => Once(toAgent', {AnswerLine(q)})
      BY <2>1, <2>5, AppendHolds DEF ChannelTypeOK
    <3>4. a \in Giving(q) <=> job[a].line = AnswerLine(q)
      BY DEF Giving
    <3>5. /\ Holds(toAgent, {AnswerLine(q)})' = Holds(toAgent', {AnswerLine(q)})
          /\ Once(toAgent, {AnswerLine(q)})' = Once(toAgent', {AnswerLine(q)})
      BY DEF AnswerLine
    <3> QED
      BY <2>2, <2>3, <3>1, <3>2, <3>3, <3>4, <3>5 DEF AnswerPlaces, AnswerExclusive, AnswerOwed
  <2> QED
    BY <1>3, <2>4, <2>5 DEF SendLine
<1> QED
  BY <1>1, <1>2, <1>3 DEF JobStep

\* The receive loop takes a message.
LEMMA AnswerRecv ==
  ASSUME MessageTypeOK, AnswerInv, RecvLoop
  PROVE  AnswerInv'
<1> USE DEF MessageTypeOK
<1>0. "rx" \in Actors
  BY ActorNames
<1>a. ASSUME NEW n \in Nat, NEW p \in Nat, NEW l \in {NoLine, ControlLine},
             Does("rx", Job(n, p, l)), UNCHANGED <<toAgent, out, asked, answers, pending>>
      PROVE  AnswerInv'
  <2>1. Job(n, p, l) \in Jobs /\ Job(n, p, l).line \notin AnswerLines
    BY JobParts, LineKinds DEF Lines
  <2>2. \A q \in Perms : Giving(q)' \subseteq Giving(q)
    BY <1>0, <1>a, <2>1, OtherJobGives
  <2> QED
    BY <1>a, <2>2, AnswerFewer
<1>1. CASE RecvPrompt
  <2>1. Head(down).id \in Prompts
    BY <1>1, ReceiveTypes, DownKinds DEF RecvPrompt
  <2>2. UNCHANGED <<toAgent, out, asked, answers, pending>>
    BY <1>1 DEF RecvPrompt, agentVars
  <2>3. CASE stopped
    BY <1>1, <2>2, <2>3, AnswerSame DEF RecvPrompt, answerState
  <2>4. CASE ~stopped
    <3>1. \E n, p \in Nat : Does("rx", Job(n, p, NoLine))
      BY <1>1, <2>1, <2>4 DEF RecvPrompt, TakePrompt, NoPrompt, Prompts
    <3> QED
      BY <2>2, <3>1, <1>a
  <2> QED
    BY <2>3, <2>4
<1>2. CASE RecvAnswer
  <2>1. Head(down).id \in Perms
    BY <1>2, ReceiveTypes, DownKinds DEF RecvAnswer
  <2> QED
    BY <1>0, <1>2, <2>1, AnswerResolve DEF RecvAnswer, agentVars
<1>3. CASE RecvControl
  <2>1. \E n, p \in Nat : \E l \in {NoLine, ControlLine} : Does("rx", Job(n, p, l))
    BY <1>3 DEF RecvControl, NoPrompt, NoJob
  <2>2. UNCHANGED <<toAgent, out, asked, answers, pending>>
    BY <1>3 DEF RecvControl, agentVars
  <2> QED
    BY <2>1, <2>2, <1>a
<1>4. CASE RecvOpen \/ RecvClose
  BY <1>4, AnswerSame DEF RecvOpen, RecvClose, answerState, agentVars
<1> QED
  BY <1>1, <1>2, <1>3, <1>4 DEF RecvLoop

\* readLoop takes a message, or ends the turn.
LEMMA AnswerRead ==
  ASSUME MessageTypeOK, AnswerInv, ReadLoop
  PROVE  AnswerInv'
<1> USE DEF MessageTypeOK
<1>0. "rd" \in Actors
  BY ActorNames
<1>1. CASE TurnEnd
  <2>1. UNCHANGED <<toAgent, out, asked, answers, pending>>
    BY <1>1 DEF TurnEnd, agentVars
  <2>2. queue # <<>> => Head(queue) \in Nat
    BY HeadTailProperties DEF PromptTypeOK, Prompts
  <2>3. \E p \in Nat : Does("rd", Job(1, p, NoLine))
    BY <1>1, <2>2 DEF TurnEnd, NoPrompt
  <2>4. \A p \in Nat : Job(1, p, NoLine) \in Jobs /\ Job(1, p, NoLine).line \notin AnswerLines
    BY JobParts, LineKinds
  <2>5. \A q \in Perms : Giving(q)' \subseteq Giving(q)
    BY <1>0, <2>3, <2>4, OtherJobGives
  <2> QED
    BY <2>1, <2>5, AnswerFewer
<1>t. ASSUME NEW k, Reads(k), NEW q \in Perms
      PROVE  /\ Holds(out, {Ask(q)}) <=> Head(out) = Ask(q) \/ Holds(out', {Ask(q)})
             /\ Once(out', {Ask(q)}) /\ (Head(out) = Ask(q) => ~Holds(out', {Ask(q)}))
             /\ k # "ask" => Head(out) # Ask(q)
  <2>1. Head(out) \in Outputs /\ Head(out).kind = k
    BY <1>t, ReadTypes
  <2>2. Ask(q).kind = "ask"
    BY DEF Ask
  <2>3. Once(out, {Ask(q)})
    BY DEF AnswerInv, AnswerPlaces
  <2> QED
    BY <1>t, <2>1, <2>2, <2>3, TailHolds DEF Reads, ChannelTypeOK
<1>2. ASSUME UNCHANGED <<job, toAgent, asked, answers>>, NEW q \in Perms,
             Once(out', {Ask(q)}), Holds(out', {Ask(q)}) => Holds(out, {Ask(q)}),
             q \in pending' => q \in pending \/ (Holds(out, {Ask(q)}) /\ ~Holds(out', {Ask(q)}))
      PROVE  (AnswerPlaces(q) /\ AnswerExclusive(q) /\ AnswerOwed(q))'
  <2>1. AnswerPlaces(q) /\ AnswerExclusive(q) /\ AnswerOwed(q)
    BY DEF AnswerInv
  <2>2. /\ Holds(toAgent, {AnswerLine(q)})' = Holds(toAgent, {AnswerLine(q)})
        /\ Once(toAgent, {AnswerLine(q)})' = Once(toAgent, {AnswerLine(q)})
        /\ Giving(q)' = Giving(q)
    BY <1>2 DEF Giving
  <2>3. /\ Holds(out, {Ask(q)})' = Holds(out', {Ask(q)})
        /\ Once(out, {Ask(q)})' = Once(out', {Ask(q)})
    BY DEF Ask
  <2> QED
    BY <1>2, <2>1, <2>2, <2>3 DEF AnswerPlaces, AnswerExclusive, AnswerOwed
<1>3. CASE ReadResult \/ ReadUpdate
  <2>1. UNCHANGED <<job, toAgent, asked, answers, pending>>
    BY <1>3 DEF ReadResult, ReadUpdate, agentVars
  <2>2. \A q \in Perms : Once(out', {Ask(q)}) /\ (Holds(out', {Ask(q)}) => Holds(out, {Ask(q)}))
    BY <1>3, <1>t DEF ReadResult, ReadUpdate
  <2> QED
    BY <1>2, <2>1, <2>2 DEF AnswerInv
<1>4. CASE ReadAsk
  <2>1. UNCHANGED <<job, toAgent, asked, answers>>
    BY <1>4 DEF ReadAsk, agentVars
  <2>2. Head(out).id \in Perms /\ Head(out) = Ask(Head(out).id)
    BY <1>4, ReadTypes, OutputKinds DEF ReadAsk
  <2>3. pending' \subseteq pending \cup {Head(out).id}
    BY <1>4 DEF ReadAsk
  <2>4. \A q \in Perms :
          /\ Holds(out, {Ask(q)}) <=> Head(out) = Ask(q) \/ Holds(out', {Ask(q)})
          /\ Once(out', {Ask(q)}) /\ (Head(out) = Ask(q) => ~Holds(out', {Ask(q)}))
    BY <1>4, <1>t DEF ReadAsk
  <2> QED
    BY <1>2, <2>1, <2>2, <2>3, <2>4 DEF AnswerInv
<1> QED
  BY <1>1, <1>3, <1>4 DEF ReadLoop

\* Timers, forks, client loops, stop and the tab.
LEMMA AnswerOther ==
  ASSUME MessageTypeOK, AnswerInv,
         \/ \E q \in Perms : PermTimeout(q)
         \/ \E k \in Conns : ClientLoop(k)
         \/ Fork \/ Stop \/ Tab
  PROVE  AnswerInv'
<1> USE DEF MessageTypeOK
<1>1. ASSUME NEW q \in Perms, PermTimeout(q)
      PROVE  AnswerInv'
  BY <1>1, ActorNames, AnswerResolve DEF PermTimeout, agentVars
<1>2. ASSUME NEW k \in Conns, ClientLoop(k)
      PROVE  AnswerInv'
  BY <1>2, AnswerSame DEF ClientLoop, LoopExit, LoopScan, LoopSend, LoopUnchanged, answerState, agentVars
<1>3. CASE Stop
  BY <1>3, AnswerFewer DEF Stop, agentVars, Giving
<1>4. CASE Tab
  BY <1>4, AnswerSame DEF Tab, TabConnects, TabDrops, CPDetaches, TabPrompts, TabControls, TabAnswers,
                          TabUnchanged, answerState, agentVars
<1>5. CASE ForkStart \/ TryAcquire
  BY <1>5, AnswerSame DEF ForkStart, TryAcquire, answerState, agentVars
<1>6. CASE Release
  <2>1. UNCHANGED <<toAgent, out, asked, answers, pending>>
    BY <1>6 DEF Release, agentVars
  <2>2. queue # <<>> => Head(queue) \in Nat
    BY HeadTailProperties DEF PromptTypeOK, Prompts
  <2>3. UNCHANGED job \/ \E p \in Nat : Does("fork", Job(1, p, NoLine))
    BY <1>6, <2>2 DEF Release
  <2>4. \A p \in Nat : Job(1, p, NoLine) \in Jobs /\ Job(1, p, NoLine).line \notin AnswerLines
    BY JobParts, LineKinds
  <2>5. CASE UNCHANGED job
    BY <2>1, <2>5, AnswerSame DEF answerState
  <2>6. ASSUME NEW p \in Nat, Does("fork", Job(1, p, NoLine))
        PROVE  AnswerInv'
    <3>1. \A q \in Perms : Giving(q)' \subseteq Giving(q)
      BY <2>4, <2>6, ActorNames, OtherJobGives
    <3> QED
      BY <2>1, <3>1, AnswerFewer
  <2> QED
    BY <2>3, <2>5, <2>6
<1> QED
  BY <1>1, <1>2, <1>3, <1>4, <1>5, <1>6 DEF Fork

\* The writer hands over an answer, the agent asks.
LEMMA AnswerAgent ==
  ASSUME MessageTypeOK, AnswerInv, Agent
  PROVE  AnswerInv'
<1> USE DEF MessageTypeOK
<1>0. UNCHANGED <<job, pending>>
  BY DEF Agent, WriteLine, AgentUpdates, AgentEnds, AgentAsks, AgentUnchanged
<1>1. CASE WriteLine
  <2>1. toAgent # <<>> /\ toAgent' = Tail(toAgent) /\ Head(toAgent) \in Lines /\ UNCHANGED out
    BY <1>1, NextLine DEF WriteLine
  <2> SUFFICES ASSUME NEW q \in Perms
               PROVE  (AnswerPlaces(q) /\ AnswerExclusive(q) /\ AnswerOwed(q))'
    BY DEF AnswerInv
  <2>2. AnswerPlaces(q) /\ AnswerExclusive(q) /\ AnswerOwed(q)
    BY DEF AnswerInv
  <2>3. /\ Holds(out, {Ask(q)})' = Holds(out, {Ask(q)})
        /\ Once(out, {Ask(q)})' = Once(out, {Ask(q)})
        /\ Giving(q)' = Giving(q)
    BY <1>0, <2>1 DEF Giving
  <2>4. /\ Holds(toAgent, {AnswerLine(q)})
             <=> Head(toAgent) = AnswerLine(q) \/ Holds(toAgent', {AnswerLine(q)})
        /\ Once(toAgent', {AnswerLine(q)})
        /\ Head(toAgent) = AnswerLine(q) => ~Holds(toAgent', {AnswerLine(q)})
    BY <2>1, <2>2, TailHolds DEF ChannelTypeOK, AnswerPlaces
  <2>5. /\ Holds(toAgent, {AnswerLine(q)})' = Holds(toAgent', {AnswerLine(q)})
        /\ Once(toAgent, {AnswerLine(q)})' = Once(toAgent', {AnswerLine(q)})
    BY DEF AnswerLine
  <2>6. CASE Head(toAgent) = AnswerLine(q)
    <3>1. Head(toAgent).kind = "answer" /\ Head(toAgent).id = q
      BY <2>6, LineKinds
    <3>2. asked' = asked \ {q} /\ answers' = [answers EXCEPT ![q] = @ + 1]
      BY <1>1, <3>1 DEF WriteLine
    <3>3. answers[q] = 0 /\ answers'[q] = 1
      BY <2>2, <2>4, <2>6, <3>2 DEF AnswerOwed, PermTypeOK
    <3> QED
      BY <1>0, <2>2, <2>3, <2>4, <2>5, <2>6, <3>2, <3>3 DEF AnswerPlaces, AnswerExclusive, AnswerOwed
  <2>7. CASE Head(toAgent) # AnswerLine(q)
    <3>1. Head(toAgent).kind = "answer" => Head(toAgent).id # q
      BY <2>1, <2>7, LineKinds
    <3>2. (q \in asked' <=> q \in asked) /\ answers'[q] = answers[q]
      BY <1>1, <3>1 DEF WriteLine, PermTypeOK
    <3> QED
      BY <1>0, <2>2, <2>3, <2>4, <2>5, <2>7, <3>2 DEF AnswerPlaces, AnswerExclusive, AnswerOwed
  <2> QED
    BY <2>6, <2>7
<1>2. ASSUME NEW m \in Outputs, out' = Append(out, m), NEW q \in Perms,
             UNCHANGED <<toAgent, answers>>,
             \/ m # Ask(q) /\ (q \in asked' <=> q \in asked)
             \/ m = Ask(q) /\ q \notin asked /\ q \in asked' /\ answers[q] = 0
      PROVE  (AnswerPlaces(q) /\ AnswerExclusive(q) /\ AnswerOwed(q))'
  <2>1. AnswerPlaces(q) /\ AnswerExclusive(q) /\ AnswerOwed(q)
    BY DEF AnswerInv
  <2>2. /\ Holds(toAgent, {AnswerLine(q)})' = Holds(toAgent, {AnswerLine(q)})
        /\ Once(toAgent, {AnswerLine(q)})' = Once(toAgent, {AnswerLine(q)})
        /\ Giving(q)' = Giving(q)
    BY <1>0, <1>2 DEF Giving
  <2>3. /\ Holds(out', {Ask(q)}) <=> Holds(out, {Ask(q)}) \/ m = Ask(q)
        /\ Once(out, {Ask(q)}) /\ (m # Ask(q) \/ ~Holds(out, {Ask(q)})) => Once(out', {Ask(q)})
    BY <1>2, AppendHolds DEF ChannelTypeOK
  <2>4. /\ Holds(out, {Ask(q)})' = Holds(out', {Ask(q)})
        /\ Once(out, {Ask(q)})' = Once(out', {Ask(q)})
    BY DEF Ask
  <2>5. CASE m # Ask(q)
    BY <1>0, <1>2, <2>1, <2>2, <2>3, <2>4, <2>5 DEF AnswerPlaces, AnswerExclusive, AnswerOwed
  <2>6. CASE m = Ask(q)
    BY <1>0, <1>2, <2>1, <2>2, <2>3, <2>4, <2>6 DEF AnswerPlaces, AnswerExclusive, AnswerOwed
  <2> QED
    BY <2>5, <2>6
<1>3. CASE AgentUpdates
  <2>1. /\ out' = Append(out, [kind |-> "update"]) /\ UNCHANGED <<toAgent, asked, answers>>
        /\ [kind |-> "update"] \in Outputs /\ \A q \in Perms : [kind |-> "update"] # Ask(q)
    BY <1>3, OutputKinds DEF AgentUpdates
  <2> QED
    BY <1>2, <2>1 DEF AnswerInv
<1>4. ASSUME NEW r \in Perms, AgentAsks(r)
      PROVE  AnswerInv'
  <2>1. /\ out' = Append(out, Ask(r)) /\ UNCHANGED <<toAgent, answers>> /\ Ask(r) \in Outputs
        /\ asked' = asked \cup {r} /\ r \notin asked /\ answers[r] = 0
    BY <1>4, OutputKinds DEF AgentAsks, Ask
  <2>2. \A q \in Perms : Ask(r) = Ask(q) <=> q = r
    BY OutputKinds
  <2> QED
    BY <1>2, <2>1, <2>2 DEF AnswerInv
<1>5. CASE AgentEnds
  <2> DEFINE m == [kind |-> "result", id |-> Head(turn)]
  <2>1. m \in Results
    BY <1>5, OutputKinds, HeadTailProperties DEF AgentEnds, PromptTypeOK
  <2>2. /\ out' = Append(out, m) /\ UNCHANGED <<toAgent, asked, answers>>
        /\ m \in Outputs /\ \A q \in Perms : m # Ask(q)
    BY <1>5, <2>1, OutputKinds DEF AgentEnds, Outputs
  <2> QED
    BY <1>2, <2>2 DEF AnswerInv
<1> QED
  BY <1>1, <1>3, <1>4, <1>5 DEF Agent

\* Every step keeps one answer per request.
LEMMA AnswerStep ==
  ASSUME MessageTypeOK, AnswerInv, [Next]_vars
  PROVE  AnswerInv'
<1>1. CASE UNCHANGED vars
  BY <1>1, AnswerSame DEF vars, answerState, agentVars
<1> QED
  BY <1>1, AnswerJob, AnswerRecv, AnswerRead, AnswerOther, AnswerAgent DEF Next

----------------------------------------------------------------------------
(* Prompts in order.                                                         *)

\* Prompts wait only for a turn or for a fork.
LEMMA QueueStep ==
  ASSUME MessageTypeOK, TurnInv, QueueInv, [Next]_vars
  PROVE  QueueInv'
<1> USE DEF MessageTypeOK
<1>1. ASSUME NEW a \in Actors, JobStep(a)
      PROVE  QueueInv'
  <2>1. CASE LogFrames(a) \/ SendLine(a)
    BY <2>1 DEF LogFrames, SendLine, turnVars, QueueInv
  <2>2. CASE SendPrompt(a)
    <3>1. a \in Starting
      BY <2>2 DEF SendPrompt, Starting
    <3> QED
      BY <2>2, <3>1 DEF SendPrompt, QueueInv, TurnInv, TurnBusy
  <2> QED
    BY <1>1, <2>1, <2>2 DEF JobStep
<1>2. CASE RecvLoop
  BY <1>2 DEF RecvLoop, RecvPrompt, TakePrompt, RecvAnswer, RecvControl, RecvOpen, RecvClose, turnVars,
              QueueInv
<1>3. CASE ReadLoop
  BY <1>3 DEF ReadLoop, ReadResult, TurnEnd, ReadUpdate, ReadAsk, turnVars, QueueInv
<1>4. CASE Fork
  BY <1>4 DEF Fork, ForkStart, TryAcquire, Release, turnVars, QueueInv
<1>5. ASSUME NEW q \in Perms, PermTimeout(q)
      PROVE  QueueInv'
  BY <1>5 DEF PermTimeout, turnVars, QueueInv
<1>6. ASSUME NEW k \in Conns, ClientLoop(k)
      PROVE  QueueInv'
  BY <1>6 DEF ClientLoop, LoopExit, LoopScan, LoopSend, LoopUnchanged, turnVars, QueueInv
<1>7. CASE Stop \/ Tab
  BY <1>7 DEF Stop, Tab, TabConnects, TabDrops, CPDetaches, TabPrompts, TabControls, TabAnswers,
              TabUnchanged, turnVars, QueueInv
<1>8. CASE Agent
  BY <1>8 DEF Agent, WriteLine, AgentUpdates, AgentEnds, AgentAsks, AgentUnchanged, turnVars, QueueInv
<1>9. CASE UNCHANGED vars
  BY <1>9 DEF vars, turnVars, QueueInv
<1> QED
  BY <1>1, <1>2, <1>3, <1>4, <1>5, <1>6, <1>7, <1>8, <1>9 DEF Next

\* Nothing moves: goroutines keep the prompts they have and get none.
LEMMA OrderSame ==
  ASSUME OrderInv, UNCHANGED <<accepted, received, queue, toAgent>>, stopped => stopped',
         Starting' = Starting,
         \A a \in Starting : job'[a].prompt = job[a].prompt /\ job'[a].line = job[a].line
  PROVE  OrderInv'
<1>1. Prefix'
  BY DEF OrderInv, Prefix
<1>2. ASSUME Accounted
      PROVE  Accounted'
  <2>1. InTransit' = InTransit
    BY DEF InTransit, Holds
  <2>2. ASSUME NEW a \in Actors
        PROVE  /\ job'[a].prompt # NoPrompt => job'[a].prompt = accepted[Len(received) + 1]
               /\ job'[a].line \in PromptLines => job'[a].line.id = accepted[Len(received) + 1]
    <3>1. CASE a \in Starting
      BY <1>2, <3>1 DEF Accounted
    <3>2. CASE a \notin Starting'
      BY <3>2 DEF Starting
    <3> QED
      BY <3>1, <3>2
  <2> QED
    BY <1>2, <2>1, <2>2 DEF Accounted
<1> QED
  BY <1>1, <1>2 DEF OrderInv

\* A goroutine without a prompt takes a job without one.
LEMMA OrderOtherJob ==
  ASSUME ChannelTypeOK, OrderInv, NEW a \in Actors, a \notin Starting, NEW j \in Jobs, Does(a, j),
         j.prompt = NoPrompt, j.line \notin PromptLines,
         UNCHANGED <<accepted, received, queue, toAgent, stopped>>
  PROVE  OrderInv'
<1>1. /\ \A b \in Actors \ {a} : job'[b] = job[b]
      /\ Starting' = Starting
  BY NewJob
<1>2. Starting \subseteq Actors
  BY DEF Starting
<1> QED
  BY <1>1, <1>2, OrderSame

\* The next prompt in line starts a turn.
LEMMA OrderStart ==
  ASSUME MessageTypeOK, NEW a \in Actors, NEW p \in Prompts, NEW n \in Nat,
         Does(a, Job(n, p, NoLine)), Starting = {}, ~Holds(toAgent, PromptLines),
         UNCHANGED <<received, toAgent>>,
         Len(accepted') = Len(received) + 1 + Len(queue'),
         \A i \in 1 .. Len(queue') : queue'[i] = accepted'[Len(received) + 1 + i],
         p = accepted'[Len(received) + 1]
  PROVE  Accounted'
<1>1. Job(n, p, NoLine) \in Jobs /\ Job(n, p, NoLine).prompt = p /\ Job(n, p, NoLine).line = NoLine
  BY JobParts DEF Prompts
<1>2. job'[a] = Job(n, p, NoLine) /\ Starting' = {a}
  BY <1>1, NewJob DEF MessageTypeOK, Prompts, NoPrompt
<1>3. InTransit' = 1
  BY <1>2 DEF InTransit
<1>4. ASSUME NEW b \in Actors
      PROVE  /\ job'[b].prompt # NoPrompt => job'[b].prompt = p
             /\ job'[b].line \notin PromptLines
  <2>1. CASE b = a
    BY <2>1, <1>1, <1>2, LineKinds
  <2>2. CASE b # a
    <3>1. b \notin Starting'
      BY <1>2, <2>2
    <3> QED
      BY <3>1 DEF Starting
  <2> QED
    BY <2>1, <2>2
<1>5. \A i \in 1 .. Len(toAgent') : toAgent'[i] \notin PromptLines
  BY DEF Holds
<1> QED
  BY <1>3, <1>4, <1>5 DEF Accounted

\* The queue gives up its first prompt when nothing is in transit.
LEMMA OrderDrain ==
  ASSUME MessageTypeOK, OrderInv, NEW a \in Actors, queue # <<>>,
         Does(a, Job(1, Head(queue), NoLine)), queue' = Tail(queue),
         Starting = {}, ~Holds(toAgent, PromptLines),
         UNCHANGED <<accepted, received, toAgent, stopped>>
  PROVE  OrderInv'
<1>1. /\ Head(queue) \in Prompts /\ Len(Tail(queue)) = Len(queue) - 1
      /\ \A i \in 1 .. Len(Tail(queue)) : Tail(queue)[i] = queue[i + 1]
      /\ Len(queue) \in Nat \ {0} /\ Head(queue) = queue[1]
      /\ Len(received) \in Nat
  BY HeadTailProperties, EmptySeq, LenProperties DEF MessageTypeOK, PromptTypeOK
<1>2. Prefix'
  BY DEF OrderInv, Prefix
<1>3. ASSUME Accounted
      PROVE  Accounted'
  <2>1. InTransit = 0
    BY DEF InTransit
  <2>2. /\ Len(accepted) = Len(received) + Len(queue)
        /\ \A i \in 1 .. Len(queue) : queue[i] = accepted[Len(received) + i]
    BY <1>1, <1>3, <2>1 DEF Accounted
  <2>3. /\ Len(accepted') = Len(received) + 1 + Len(queue')
        /\ Head(queue) = accepted'[Len(received) + 1]
    BY <1>1, <2>2
  <2>4. ASSUME NEW i \in 1 .. Len(queue')
        PROVE  queue'[i] = accepted'[Len(received) + 1 + i]
    <3>1. i + 1 \in 1 .. Len(queue) /\ queue'[i] = queue[i + 1]
      BY <1>1
    <3>2. Len(received) + (i + 1) = Len(received) + 1 + i
      BY <1>1
    <3> QED
      BY <2>2, <3>1, <3>2
  <2> QED
    BY <1>1, <2>3, <2>4, OrderStart
<1> QED
  BY <1>2, <1>3 DEF OrderInv

\* The receive loop takes a message.
LEMMA OrderRecv ==
  ASSUME MessageTypeOK, TurnInv, QueueInv, OrderInv, RecvLoop
  PROVE  OrderInv'
<1> USE DEF MessageTypeOK
<1>0. "rx" \in Actors
  BY ActorNames
<1>a. Idle("rx") => "rx" \notin Starting
  BY NoJobParts, LineKinds DEF Idle, Starting
<1>1. CASE RecvPrompt
  <2> DEFINE p == Head(down).id
  <2>1. p \in Prompts
    BY <1>1, ReceiveTypes, DownKinds DEF RecvPrompt
  <2>2. UNCHANGED <<received, toAgent, stopped>> /\ "rx" \notin Starting
    BY <1>1, <1>a DEF RecvPrompt, Receives, agentVars
  <2>3. CASE stopped
    BY <1>1, <2>2, <2>3, OrderSame DEF RecvPrompt, Starting
  <2>4. ASSUME NEW n \in Nat, Does("rx", Job(n, NoPrompt, NoLine)), UNCHANGED <<queue, accepted>>
        PROVE  OrderInv'
    <3>1. /\ Job(n, NoPrompt, NoLine) \in Jobs /\ Job(n, NoPrompt, NoLine).prompt = NoPrompt
          /\ Job(n, NoPrompt, NoLine).line \notin PromptLines
      BY JobParts, LineKinds DEF NoPrompt
    <3> QED
      BY <1>0, <2>2, <2>4, <3>1, OrderOtherJob
  <2>5. ASSUME accepted' = Append(accepted, p)
        PROVE  /\ Prefix' /\ Len(accepted') = Len(accepted) + 1 /\ accepted'[Len(accepted) + 1] = p
               /\ \A i \in 1 .. Len(accepted) : accepted'[i] = accepted[i]
               /\ Len(accepted) \in Nat /\ Len(received) \in Nat /\ Len(received) <= Len(accepted)
    <3>1. /\ Len(accepted') = Len(accepted) + 1 /\ accepted'[Len(accepted) + 1] = p
          /\ \A i \in 1 .. Len(accepted) : accepted'[i] = accepted[i]
          /\ Len(accepted) \in Nat /\ Len(received) \in Nat
      BY <2>1, <2>5, AppendProperties, LenProperties DEF PromptTypeOK
    <3>2. Prefix
      BY DEF OrderInv
    <3> QED
      BY <2>2, <3>1, <3>2 DEF Prefix
  <2>6. ASSUME ~stopped, queue' = Append(queue, p), accepted' = Append(accepted, p),
               Does("rx", Job(2, NoPrompt, NoLine))
        PROVE  OrderInv'
    <3>1. /\ Job(2, NoPrompt, NoLine) \in Jobs /\ Job(2, NoPrompt, NoLine).prompt = NoPrompt
          /\ Job(2, NoPrompt, NoLine).line = NoLine
      BY JobParts DEF NoPrompt
    <3>2. /\ job'["rx"] = Job(2, NoPrompt, NoLine) /\ \A b \in Actors \ {"rx"} : job'[b] = job[b]
          /\ Starting' = Starting
      <4>1. /\ job'["rx"] = Job(2, NoPrompt, NoLine) /\ \A b \in Actors \ {"rx"} : job'[b] = job[b]
            /\ Starting \ {"rx"} \subseteq Starting' /\ Starting' \subseteq Starting \cup {"rx"}
            /\ "rx" \notin Starting'
        BY <1>0, <2>6, <3>1, NewJob, LineKinds
      <4> QED
        BY <2>2, <4>1
    <3>3. InTransit' = InTransit /\ InTransit \in {0, 1}
      BY <2>2, <3>2 DEF InTransit, Holds
    <3>4. /\ Len(queue') = Len(queue) + 1 /\ queue'[Len(queue) + 1] = p
          /\ \A i \in 1 .. Len(queue) : queue'[i] = queue[i]
          /\ Len(queue) \in Nat
      BY <2>1, <2>6, AppendProperties, LenProperties DEF PromptTypeOK
    <3>5. Accounted
      BY <2>6 DEF OrderInv
    <3>6. /\ Len(accepted') = Len(accepted) + 1 /\ accepted'[Len(accepted) + 1] = p
          /\ \A i \in 1 .. Len(accepted) : accepted'[i] = accepted[i]
          /\ Len(accepted) \in Nat /\ Len(received) \in Nat
      BY <2>5, <2>6
    <3>7. Len(accepted') = Len(received') + InTransit' + Len(queue')
      BY <2>2, <3>3, <3>4, <3>5, <3>6 DEF Accounted
    <3>8. ASSUME NEW i \in 1 .. Len(queue')
          PROVE  queue'[i] = accepted'[Len(received') + InTransit' + i]
      <4>1. CASE i = Len(queue) + 1
        <5>1. Len(received) + InTransit + i = Len(accepted) + 1
          BY <3>3, <3>4, <3>5, <3>6, <4>1 DEF Accounted
        <5> QED
          BY <2>2, <3>3, <3>4, <3>6, <4>1, <5>1
      <4>2. CASE i # Len(queue) + 1
        <5>1. i \in 1 .. Len(queue)
          BY <3>4, <4>2
        <5>2. Len(received) + InTransit + i \in 1 .. Len(accepted)
          BY <3>3, <3>4, <3>5, <3>6, <5>1 DEF Accounted
        <5>3. queue[i] = accepted[Len(received) + InTransit + i]
          BY <3>5, <5>1 DEF Accounted
        <5> QED
          BY <2>2, <3>3, <3>4, <3>6, <5>1, <5>2, <5>3
      <4> QED
        BY <4>1, <4>2
    <3>9. Starting # {} \/ Holds(toAgent, PromptLines) =>
             accepted'[Len(received') + 1] = accepted[Len(received) + 1]
      <4>1. ASSUME Starting # {} \/ Holds(toAgent, PromptLines)
            PROVE  Len(received) + 1 \in 1 .. Len(accepted)
        <5>1. InTransit = 1
          BY <4>1 DEF InTransit
        <5> QED
          BY <3>4, <3>5, <3>6, <5>1 DEF Accounted
      <4> QED
        BY <2>2, <3>6, <4>1
    <3>10. ASSUME NEW b \in Actors
           PROVE  /\ job'[b].prompt # NoPrompt => job'[b].prompt = accepted'[Len(received') + 1]
                  /\ job'[b].line \in PromptLines => job'[b].line.id = accepted'[Len(received') + 1]
      <4>1. CASE b \in Starting
        BY <2>2, <3>2, <3>5, <3>9, <4>1 DEF Accounted
      <4>2. CASE b \notin Starting'
        BY <4>2 DEF Starting
      <4> QED
        BY <3>2, <4>1, <4>2
    <3>11. \A i \in 1 .. Len(toAgent') :
              toAgent'[i] \in PromptLines => toAgent'[i].id = accepted'[Len(received') + 1]
      BY <2>2, <3>5, <3>9 DEF Accounted, Holds
    <3> QED
      BY <2>5, <2>6, <3>7, <3>8, <3>10, <3>11 DEF OrderInv, Accounted
  <2>7. ASSUME ~stopped, ~barrier, ~busy, accepted' = Append(accepted, p),
               Does("rx", Job(2, p, NoLine)), UNCHANGED queue
        PROVE  OrderInv'
    <3>1. Starting = {} /\ ~Holds(toAgent, PromptLines) /\ queue = <<>>
      BY <2>7 DEF TurnInv, TurnBusy, QueueInv
    <3>2. Len(queue) = 0 /\ InTransit = 0
      BY <3>1, EmptySeq DEF InTransit
    <3>3. Len(accepted) = Len(received)
      BY <2>5, <2>7, <3>2 DEF OrderInv, Accounted
    <3>4. /\ Len(accepted') = Len(received) + 1 + Len(queue') /\ p = accepted'[Len(received) + 1]
          /\ \A i \in 1 .. Len(queue') : queue'[i] = accepted'[Len(received) + 1 + i]
      BY <2>5, <2>7, <3>2, <3>3
    <3>5. Accounted'
      BY <1>0, <2>1, <2>2, <2>7, <3>1, <3>4, OrderStart
    <3> QED
      BY <2>5, <2>7, <3>5 DEF OrderInv
  <2> QED
    BY <1>1, <2>3, <2>4, <2>6, <2>7 DEF RecvPrompt, TakePrompt
<1>2. CASE RecvAnswer
  <2>1. Head(down).id \in Perms
    BY <1>2, ReceiveTypes, DownKinds DEF RecvAnswer
  <2>2. UNCHANGED <<accepted, received, queue, toAgent, stopped>> /\ "rx" \notin Starting
    BY <1>2, <1>a DEF RecvAnswer, Receives, turnVars, agentVars
  <2>3. /\ Job(0, NoPrompt, AnswerLine(Head(down).id)) \in Jobs
        /\ Job(0, NoPrompt, AnswerLine(Head(down).id)).prompt = NoPrompt
        /\ Job(0, NoPrompt, AnswerLine(Head(down).id)).line \notin PromptLines
    <3>1. /\ AnswerLine(Head(down).id) \in Lines \cup {NoLine}
          /\ AnswerLine(Head(down).id) \notin PromptLines /\ NoPrompt \in Nat /\ 0 \in Nat
      BY <2>1, LineKinds DEF NoPrompt, Lines
    <3> QED
      BY <3>1, JobParts
  <2>4. CASE UNCHANGED job
    BY <2>2, <2>4, OrderSame DEF Starting
  <2> QED
    BY <1>0, <1>2, <2>2, <2>3, <2>4, OrderOtherJob DEF RecvAnswer, Resolve
<1>3. CASE RecvControl
  <2>2. UNCHANGED <<accepted, received, queue, toAgent, stopped>> /\ "rx" \notin Starting
    BY <1>3, <1>a DEF RecvControl, Receives, turnVars, agentVars
  <2>3. /\ Job(0, NoPrompt, ControlLine) \in Jobs
        /\ Job(0, NoPrompt, ControlLine).prompt = NoPrompt
        /\ Job(0, NoPrompt, ControlLine).line \notin PromptLines
    BY JobParts, LineKinds DEF NoPrompt, Lines
  <2> QED
    BY <1>0, <1>3, <2>2, <2>3, NoJobParts, LineKinds, OrderOtherJob DEF RecvControl
<1>4. CASE RecvOpen \/ RecvClose
  BY <1>4, OrderSame DEF RecvOpen, RecvClose, Starting, turnVars, agentVars
<1> QED
  BY <1>1, <1>2, <1>3, <1>4 DEF RecvLoop

\* Goroutines at work.
LEMMA OrderJob ==
  ASSUME MessageTypeOK, TurnInv, OrderInv, NEW a \in Actors, JobStep(a)
  PROVE  OrderInv'
<1> USE DEF MessageTypeOK
<1>1. CASE LogFrames(a)
  <2>1. /\ [job[a] EXCEPT !.frames = 0] \in Jobs
        /\ [job[a] EXCEPT !.frames = 0].prompt = job[a].prompt
        /\ [job[a] EXCEPT !.frames = 0].line = job[a].line
    BY DEF ChannelTypeOK, Jobs
  <2>2. \A b \in Actors : job'[b].prompt = job[b].prompt /\ job'[b].line = job[b].line
    BY <1>1, <2>1, NewJob DEF LogFrames
  <2>3. Starting' = Starting /\ Starting \subseteq Actors
    BY <2>2 DEF Starting
  <2>4. UNCHANGED <<accepted, received, queue, toAgent, stopped>>
    BY <1>1 DEF LogFrames, turnVars, agentVars
  <2> QED
    BY <2>2, <2>3, <2>4, OrderSame
<1>2. CASE SendPrompt(a)
  <2> DEFINE l == PromptLine(job[a].prompt)
  <2>1. job[a].prompt \in Prompts
    BY <1>2 DEF SendPrompt, ChannelTypeOK, Jobs, Prompts, NoPrompt
  <2>2. l \in PromptLines /\ l \in Lines /\ l.id = job[a].prompt
    BY <2>1, LineKinds DEF Lines
  <2>3. /\ Job(0, NoPrompt, l) \in Jobs /\ Job(0, NoPrompt, l).prompt = NoPrompt
        /\ Job(0, NoPrompt, l).line = l
    BY <2>2, JobParts DEF NoPrompt
  <2>4. /\ job'[a] = Job(0, NoPrompt, l) /\ \A b \in Actors \ {a} : job'[b] = job[b]
        /\ Starting' = Starting
    BY <1>2, <2>2, <2>3, NewJob DEF SendPrompt, Starting
  <2>5. UNCHANGED <<accepted, received, queue, toAgent, stopped>>
    BY <1>2 DEF SendPrompt, agentVars
  <2>6. InTransit' = InTransit
    BY <2>4, <2>5 DEF InTransit, Holds
  <2>7. ASSUME Accounted
        PROVE  Accounted'
    <3>1. ASSUME NEW b \in Actors
          PROVE  /\ job'[b].prompt # NoPrompt => job'[b].prompt = accepted[Len(received) + 1]
                 /\ job'[b].line \in PromptLines => job'[b].line.id = accepted[Len(received) + 1]
      BY <1>2, <2>2, <2>3, <2>4, <2>7 DEF Accounted, SendPrompt
    <3> QED
      BY <2>5, <2>6, <2>7, <3>1 DEF Accounted
  <2> QED
    BY <2>5, <2>7 DEF OrderInv, Prefix
<1>3. CASE SendLine(a)
  <2>1. /\ job[a].line \in Lines /\ job[a].prompt = NoPrompt
    BY <1>3 DEF SendLine, ChannelTypeOK, Jobs, TurnInv, TurnJobs
  <2>2. /\ job'[a] = NoJob /\ \A b \in Actors \ {a} : job'[b] = job[b]
        /\ Starting' = Starting \ {a}
    BY <1>3, NewJob, NoJobParts, LineKinds DEF SendLine
  <2>3. UNCHANGED <<accepted, received, queue, stopped>>
    BY <1>3 DEF SendLine, turnVars, agentVars
  <2>4. CASE stopped
    BY <2>3, <2>4 DEF OrderInv, Prefix
  <2>5. CASE ~stopped
    <3>1. toAgent' = Append(toAgent, job[a].line)
      BY <1>3, <2>5 DEF SendLine
    <3>2. /\ Holds(toAgent', PromptLines) <=> Holds(toAgent, PromptLines) \/ job[a].line \in PromptLines
      BY <2>1, <3>1, AppendHolds DEF ChannelTypeOK
    <3>3. job[a].line \in PromptLines <=> a \in Starting
      BY <2>1 DEF Starting
    <3>4. job[a].line \in PromptLines => Starting = {a}
      BY <3>3 DEF TurnInv, TurnPlaces
    <3>5. InTransit' = InTransit
      BY <2>2, <3>2, <3>3, <3>4 DEF InTransit
    <3>6. Accounted
      BY <2>5 DEF OrderInv
    <3>7. /\ Len(toAgent') = Len(toAgent) + 1 /\ Len(toAgent) \in Nat
          /\ \A i \in 1 .. Len(toAgent) : toAgent'[i] = toAgent[i]
          /\ toAgent'[Len(toAgent) + 1] = job[a].line
      BY <2>1, <3>1, AppendProperties, LenProperties DEF ChannelTypeOK
    <3>8. ASSUME NEW i \in 1 .. Len(toAgent'), toAgent'[i] \in PromptLines
          PROVE  toAgent'[i].id = accepted[Len(received) + 1]
      <4>1. CASE i \in 1 .. Len(toAgent)
        BY <3>6, <3>7, <3>8, <4>1 DEF Accounted
      <4>2. CASE i = Len(toAgent) + 1
        BY <3>6, <3>7, <3>8, <4>2 DEF Accounted
      <4> QED
        BY <3>7, <4>1, <4>2
    <3>9. ASSUME NEW b \in Actors
          PROVE  /\ job'[b].prompt # NoPrompt => job'[b].prompt = accepted[Len(received) + 1]
                 /\ job'[b].line \in PromptLines => job'[b].line.id = accepted[Len(received) + 1]
      BY <2>2, <3>6, NoJobParts, LineKinds DEF Accounted
    <3>10. Accounted'
      BY <2>3, <3>5, <3>6, <3>8, <3>9 DEF Accounted
    <3> QED
      BY <2>3, <3>10 DEF OrderInv, Prefix
  <2> QED
    BY <2>4, <2>5
<1> QED
  BY <1>1, <1>2, <1>3 DEF JobStep

\* readLoop: the end of a turn starts the next one.
LEMMA OrderRead ==
  ASSUME MessageTypeOK, TurnInv, OrderInv, ReadLoop
  PROVE  OrderInv'
<1> USE DEF MessageTypeOK
<1>0. "rd" \in Actors
  BY ActorNames
<1>1. CASE ReadResult \/ ReadUpdate \/ ReadAsk
  BY <1>1, OrderSame DEF ReadResult, ReadUpdate, ReadAsk, Starting, turnVars, agentVars
<1>2. CASE TurnEnd
  <2>1. UNCHANGED <<accepted, received, toAgent, stopped>> /\ ended
    BY <1>2 DEF TurnEnd, agentVars
  <2>2. Starting = {} /\ ~Holds(toAgent, PromptLines)
    BY <2>1 DEF TurnInv, TurnExclusive
  <2>3. CASE ~barrier /\ queue # <<>>
    BY <1>0, <1>2, <2>1, <2>2, <2>3, OrderDrain DEF TurnEnd
  <2>4. CASE ~(~barrier /\ queue # <<>>)
    <3>1. /\ Job(1, NoPrompt, NoLine) \in Jobs /\ Job(1, NoPrompt, NoLine).prompt = NoPrompt
          /\ Job(1, NoPrompt, NoLine).line \notin PromptLines
      BY JobParts, LineKinds DEF NoPrompt
    <3>2. Does("rd", Job(1, NoPrompt, NoLine)) /\ UNCHANGED queue
      BY <1>2, <2>4 DEF TurnEnd
    <3> QED
      BY <1>0, <2>1, <2>2, <3>1, <3>2, OrderOtherJob
  <2> QED
    BY <2>3, <2>4
<1> QED
  BY <1>1, <1>2 DEF ReadLoop

\* Timers, forks, client loops, stop and the tab.
LEMMA OrderOther ==
  ASSUME MessageTypeOK, TurnInv, OrderInv,
         \/ \E q \in Perms : PermTimeout(q)
         \/ \E k \in Conns : ClientLoop(k)
         \/ Fork \/ Stop \/ Tab
  PROVE  OrderInv'
<1> USE DEF MessageTypeOK
<1>1. ASSUME NEW q \in Perms, PermTimeout(q)
      PROVE  OrderInv'
  <2>1. UNCHANGED <<accepted, received, queue, toAgent, stopped>>
    BY <1>1 DEF PermTimeout, turnVars, agentVars
  <2>2. /\ Job(0, NoPrompt, AnswerLine(q)) \in Jobs
        /\ Job(0, NoPrompt, AnswerLine(q)).prompt = NoPrompt
        /\ Job(0, NoPrompt, AnswerLine(q)).line \notin PromptLines
    BY JobParts, LineKinds DEF NoPrompt, Lines
  <2>3. q \in Actors /\ q \notin Starting /\ Does(q, Job(0, NoPrompt, AnswerLine(q)))
    BY <1>1 DEF Actors, PermTimeout, Resolve, TurnInv, TurnJobs
  <2> QED
    BY <2>1, <2>2, <2>3, OrderOtherJob
<1>s. ASSUME UNCHANGED <<accepted, received, queue, toAgent, job>>, stopped => stopped'
      PROVE  OrderInv'
  <2>1. Starting' = Starting
    BY <1>s DEF Starting
  <2> QED
    BY <1>s, <2>1, OrderSame
<1>2. ASSUME NEW k \in Conns, ClientLoop(k)
      PROVE  OrderInv'
  <2>1. LoopUnchanged
    BY <1>2 DEF ClientLoop, LoopExit, LoopScan, LoopSend
  <2> QED
    BY <2>1, <1>s DEF LoopUnchanged, turnVars, agentVars
<1>3. CASE Stop
  BY <1>3, <1>s DEF Stop, turnVars, agentVars
<1>4. CASE Tab
  <2>1. TabUnchanged
    BY <1>4 DEF Tab, TabConnects, TabDrops, CPDetaches, TabPrompts, TabControls, TabAnswers
  <2> QED
    BY <2>1, <1>s DEF TabUnchanged, turnVars, agentVars
<1>5. CASE ForkStart \/ TryAcquire
  BY <1>5, <1>s DEF ForkStart, TryAcquire, turnVars, agentVars
<1>6. CASE Release
  <2>1. UNCHANGED <<accepted, received, toAgent, stopped>>
    BY <1>6 DEF Release, agentVars
  <2>2. CASE barrier /\ ~busy /\ inflight = NoPrompt /\ queue # <<>>
    <3>1. Starting = {} /\ ~Holds(toAgent, PromptLines)
      BY <2>2 DEF TurnInv, TurnBusy
    <3> QED
      BY <1>6, <2>1, <2>2, <3>1, ActorNames, OrderDrain DEF Release
  <2>3. CASE ~(barrier /\ ~busy /\ inflight = NoPrompt /\ queue # <<>>)
    <3>1. UNCHANGED <<queue, job>>
      BY <1>6, <2>3 DEF Release
    <3> QED
      BY <2>1, <3>1, OrderSame DEF Starting
  <2> QED
    BY <2>2, <2>3
<1> QED
  BY <1>1, <1>2, <1>3, <1>4, <1>5, <1>6 DEF Fork

\* The writer hands the next prompt to the agent.
LEMMA OrderAgent ==
  ASSUME MessageTypeOK, TurnInv, OrderInv, Agent
  PROVE  OrderInv'
<1> USE DEF MessageTypeOK
<1>0. UNCHANGED <<job, queue, accepted, stopped>> /\ Starting' = Starting
  BY DEF Agent, WriteLine, AgentUpdates, AgentEnds, AgentAsks, AgentUnchanged, turnVars, Starting
<1>1. CASE AgentUpdates \/ AgentEnds \/ \E q \in Perms : AgentAsks(q)
  <2>1. UNCHANGED <<toAgent, received>>
    BY <1>1 DEF AgentUpdates, AgentEnds, AgentAsks
  <2> QED
    BY <1>0, <2>1, OrderSame
<1>2. CASE WriteLine
  <2>1. /\ ~stopped /\ toAgent # <<>> /\ toAgent' = Tail(toAgent) /\ Head(toAgent) \in Lines
        /\ Accounted /\ Prefix
    BY <1>2, NextLine DEF WriteLine, OrderInv
  <2>2. /\ Holds(toAgent, PromptLines) <=> Head(toAgent) \in PromptLines \/ Holds(toAgent', PromptLines)
        /\ Head(toAgent) \in PromptLines => ~Holds(toAgent', PromptLines)
    BY <2>1, TailHolds DEF ChannelTypeOK, TurnInv, TurnPlaces
  <2>3. /\ Len(toAgent') = Len(toAgent) - 1 /\ Len(toAgent) \in Nat \ {0}
        /\ \A i \in 1 .. Len(toAgent') : toAgent'[i] = toAgent[i + 1]
        /\ Head(toAgent) = toAgent[1]
    BY <2>1, HeadTailProperties, EmptySeq, LenProperties DEF ChannelTypeOK
  <2>4. CASE Head(toAgent).kind = "prompt"
    <3>1. Head(toAgent) \in PromptLines /\ Head(toAgent).id \in Prompts
      BY <2>1, <2>4, LineKinds
    <3>2. received' = Append(received, Head(toAgent).id)
      BY <1>2, <2>4 DEF WriteLine
    <3>3. /\ Len(received') = Len(received) + 1 /\ received'[Len(received) + 1] = Head(toAgent).id
          /\ \A i \in 1 .. Len(received) : received'[i] = received[i]
          /\ Len(received) \in Nat /\ Len(queue) \in Nat /\ Len(accepted) \in Nat
      BY <3>1, <3>2, AppendProperties, LenProperties DEF PromptTypeOK
    <3>4. /\ Starting = {} /\ InTransit = 1 /\ InTransit' = 0 /\ ~Holds(toAgent', PromptLines)
      BY <1>0, <2>2, <3>1 DEF TurnInv, TurnExclusive, InTransit
    <3>5. Head(toAgent).id = accepted[Len(received) + 1]
      BY <2>1, <2>3, <3>1 DEF Accounted
    <3>6. Prefix'
      BY <1>0, <2>1, <3>3, <3>4, <3>5 DEF Prefix, Accounted
    <3>7. /\ Len(accepted') = Len(received') + InTransit' + Len(queue')
      BY <1>0, <2>1, <3>3, <3>4 DEF Accounted
    <3>8. ASSUME NEW i \in 1 .. Len(queue')
          PROVE  queue'[i] = accepted'[Len(received') + InTransit' + i]
      <4>1. queue[i] = accepted[Len(received) + 1 + i]
        BY <1>0, <2>1, <3>4 DEF Accounted
      <4>2. Len(received') + InTransit' + i = Len(received) + 1 + i
        BY <3>3, <3>4
      <4> QED
        BY <1>0, <4>1, <4>2
    <3>9. \A b \in Actors : job'[b].prompt = NoPrompt /\ job'[b].line \notin PromptLines
      BY <1>0, <3>4 DEF Starting
    <3>10. \A i \in 1 .. Len(toAgent') : toAgent'[i] \notin PromptLines
      BY <3>4 DEF Holds
    <3>11. Accounted'
      BY <3>7, <3>8, <3>9, <3>10 DEF Accounted
    <3> QED
      BY <1>0, <3>6, <3>11 DEF OrderInv
  <2>5. CASE Head(toAgent).kind # "prompt"
    <3>1. Head(toAgent) \notin PromptLines
      BY <2>5, LineKinds
    <3>2. UNCHANGED received
      BY <1>2, <2>5 DEF WriteLine
    <3>3. InTransit' = InTransit
      BY <1>0, <2>2, <3>1 DEF InTransit
    <3>4. ASSUME NEW i \in 1 .. Len(toAgent'), toAgent'[i] \in PromptLines
          PROVE  toAgent'[i].id = accepted[Len(received) + 1]
      <4>1. i + 1 \in 1 .. Len(toAgent) /\ toAgent'[i] = toAgent[i + 1]
        BY <2>3
      <4> QED
        BY <2>1, <3>4, <4>1 DEF Accounted
    <3>5. Accounted'
      BY <1>0, <2>1, <3>2, <3>3, <3>4 DEF Accounted
    <3> QED
      BY <1>0, <2>1, <3>2, <3>5 DEF OrderInv, Prefix
  <2> QED
    BY <2>4, <2>5
<1> QED
  BY <1>1, <1>2 DEF Agent

\* Every step keeps the order.
LEMMA OrderStep ==
  ASSUME MessageTypeOK, TurnInv, QueueInv, OrderInv, [Next]_vars
  PROVE  OrderInv'
<1>1. CASE UNCHANGED vars
  BY <1>1, OrderSame DEF vars, turnVars, agentVars, Starting
<1> QED
  BY <1>1, OrderJob, OrderRecv, OrderRead, OrderOther, OrderAgent DEF Next

----------------------------------------------------------------------------
(* The frame log and its readers.                                            *)

viewState == <<budget, seq, base, conn, opened, socket, routed, shown, sent>>

\* What a scan, a sent frame, an attachment and the end of a loop do to a
\* client's record.
LEMMA ConnParts ==
  ASSUME NEW c \in ConnType
  PROVE  /\ \A o \in Marks :
              /\ [c EXCEPT !.on = o] \in ConnType /\ [c EXCEPT !.on = o].on = o
              /\ [c EXCEPT !.on = o].phase = c.phase /\ [c EXCEPT !.on = o].cursor = c.cursor
              /\ [c EXCEPT !.on = o].reset = c.reset /\ [c EXCEPT !.on = o].lo = c.lo
              /\ [c EXCEPT !.on = o].hi = c.hi
         /\ \A p \in Phases :
              /\ [c EXCEPT !.phase = p] \in ConnType /\ [c EXCEPT !.phase = p].phase = p
              /\ [c EXCEPT !.phase = p].on = c.on /\ [c EXCEPT !.phase = p].cursor = c.cursor
<1>1. ASSUME NEW o \in Marks
      PROVE  /\ [c EXCEPT !.on = o] \in ConnType /\ [c EXCEPT !.on = o].on = o
             /\ [c EXCEPT !.on = o].phase = c.phase /\ [c EXCEPT !.on = o].cursor = c.cursor
             /\ [c EXCEPT !.on = o].reset = c.reset /\ [c EXCEPT !.on = o].lo = c.lo
             /\ [c EXCEPT !.on = o].hi = c.hi
  BY DEF ConnType
<1>2. ASSUME NEW p \in Phases
      PROVE  /\ [c EXCEPT !.phase = p] \in ConnType /\ [c EXCEPT !.phase = p].phase = p
             /\ [c EXCEPT !.phase = p].on = c.on /\ [c EXCEPT !.phase = p].cursor = c.cursor
  BY DEF ConnType
<1> QED
  BY <1>1, <1>2

Scanned(c, cursor, notify, reset, lo, hi, phase) ==
  [c EXCEPT !.cursor = cursor, !.notify = notify, !.reset = reset, !.lo = lo, !.hi = hi, !.phase = phase]

\* What a scan of the log changes of a connection.
LEMMA ScannedParts ==
  ASSUME NEW c \in ConnType, NEW cursor \in Int, NEW notify \in BOOLEAN, NEW reset \in Int,
         NEW lo \in Int, NEW hi \in Int, NEW phase \in Phases
  PROVE  LET d == Scanned(c, cursor, notify, reset, lo, hi, phase)
         IN  /\ d \in ConnType /\ d.on = c.on /\ d.cursor = cursor /\ d.notify = notify
             /\ d.reset = reset /\ d.lo = lo /\ d.hi = hi /\ d.phase = phase
BY DEF ConnType, Scanned

SentReset(c, reset, phase) == [c EXCEPT !.reset = reset, !.phase = phase]
SentFrame(c, lo, phase) == [c EXCEPT !.lo = lo, !.phase = phase]

\* What sending a frame changes of a connection.
LEMMA SentParts ==
  ASSUME NEW c \in ConnType, NEW x \in Int, NEW phase \in Phases
  PROVE  /\ LET d == SentReset(c, x, phase)
            IN  /\ d \in ConnType /\ d.on = c.on /\ d.cursor = c.cursor /\ d.notify = c.notify
                /\ d.reset = x /\ d.lo = c.lo /\ d.hi = c.hi /\ d.phase = phase
         /\ LET d == SentFrame(c, x, phase)
            IN  /\ d \in ConnType /\ d.on = c.on /\ d.cursor = c.cursor /\ d.notify = c.notify
                /\ d.reset = c.reset /\ d.lo = x /\ d.hi = c.hi /\ d.phase = phase
BY DEF ConnType, SentReset, SentFrame

Attached(c, on, cursor, notify) == [c EXCEPT !.on = on, !.cursor = cursor, !.notify = notify]

\* What an attachment changes of a connection.
LEMMA AttachedParts ==
  ASSUME NEW c \in ConnType, NEW on \in Marks, NEW cursor \in Int, NEW notify \in BOOLEAN
  PROVE  LET d == Attached(c, on, cursor, notify)
         IN  /\ d \in ConnType /\ d.on = on /\ d.cursor = cursor /\ d.notify = notify
             /\ d.phase = c.phase /\ d.reset = c.reset
BY DEF ConnType, Attached

\* A connection before its attachment.
LEMMA NewConnType == NewConn \in ConnType /\ NewConn.phase = "wait" /\ NewConn.on = "none" /\ ~NewConn.notify
<1>1. /\ NewConn.on = "none" /\ NewConn.cursor = 0 /\ NewConn.notify = FALSE /\ NewConn.phase = "wait"
      /\ NewConn.reset = -1 /\ NewConn.lo = 0 /\ NewConn.hi = 0
  BY DEF NewConn
<1> QED
  BY <1>1 DEF NewConn, ConnType, Marks, Phases

\* A loop copies what the log holds behind its cursor.
LEMMA ScanEffect ==
  ASSUME ViewTypeOK, NEW k \in Conns, LoopScan(k)
  PROVE  LET c == conn[k]
             d == conn'[k]
             outside == c.cursor < base \/ c.cursor > seq
         IN  /\ conn' = [conn EXCEPT ![k] = d] /\ d \in ConnType
             /\ d.on = c.on /\ d.cursor = seq /\ d.hi = seq
             /\ outside => d.reset = base /\ d.lo = base /\ d.phase = "send"
             /\ ~outside => /\ d.reset = -1 /\ d.lo = c.cursor
                            /\ d.phase = IF c.cursor < seq THEN "send" ELSE "wait"
<1> DEFINE c == conn[k]
           outside == c.cursor < base \/ c.cursor > seq
           from == IF outside THEN base ELSE c.cursor
           notify == c.notify /\ c.phase = "scan"
           reset == IF outside THEN base ELSE -1
           phase == IF outside \/ from < seq THEN "send" ELSE "wait"
           d == Scanned(c, seq, notify, reset, from, seq, phase)
<1>1. conn[k] \in ConnType /\ conn \in [Conns -> ConnType] /\ seq \in Int /\ base \in Int
  BY DEF ViewTypeOK
<1>2. conn' = [conn EXCEPT ![k] = d]
  BY <1>1 DEF LoopScan, Scanned
<1>3. notify \in BOOLEAN /\ from \in Int /\ reset \in Int /\ phase \in Phases
  BY <1>1 DEF ConnType, Phases
<1>4. /\ outside => reset = base /\ from = base /\ phase = "send"
      /\ ~outside => /\ reset = -1 /\ from = c.cursor
                     /\ phase = IF c.cursor < seq THEN "send" ELSE "wait"
  OBVIOUS
<1> HIDE DEF notify, from, reset, phase
<1>5. /\ d \in ConnType /\ d.on = c.on /\ d.cursor = seq /\ d.hi = seq /\ d.reset = reset
      /\ d.lo = from /\ d.phase = phase
  BY <1>1, <1>3, ScannedParts
<1> HIDE DEF d
<1>6. conn'[k] = d
  BY <1>1, <1>2
<1> QED
  BY <1>2, <1>4, <1>5, <1>6

\* A loop sends a reset or a frame.
LEMMA SendEffect ==
  ASSUME ViewTypeOK, NEW k \in Conns, LoopSend(k)
  PROVE  LET c == conn[k]
             d == conn'[k]
         IN  /\ conn' = [conn EXCEPT ![k] = d] /\ d \in ConnType
             /\ d.on = c.on /\ d.cursor = c.cursor /\ d.hi = c.hi
             /\ c.reset >= 0 => /\ d.reset = -1 /\ d.lo = c.lo
                                /\ d.phase = IF c.lo < c.hi THEN "send" ELSE "scan"
             /\ c.reset < 0 => /\ d.reset = c.reset /\ d.lo = c.lo + 1
                               /\ d.phase = IF c.lo + 1 < c.hi THEN "send" ELSE "scan"
<1> DEFINE c == conn[k]
           p1 == IF c.lo < c.hi THEN "send" ELSE "scan"
           p2 == IF c.lo + 1 < c.hi THEN "send" ELSE "scan"
           d1 == SentReset(c, -1, p1)
           d2 == SentFrame(c, c.lo + 1, p2)
<1>1. c \in ConnType /\ conn \in [Conns -> ConnType]
  BY DEF ViewTypeOK
<1>2. p1 \in Phases /\ p2 \in Phases /\ c.lo + 1 \in Int /\ -1 \in Int /\ c.reset \in Int
  BY <1>1 DEF Phases, ConnType
<1>3. /\ c.reset >= 0 => conn' = [conn EXCEPT ![k] = d1]
      /\ c.reset < 0 => conn' = [conn EXCEPT ![k] = d2]
  <2>1. \/ c.reset >= 0 /\ conn' = [conn EXCEPT ![k] = d1]
        \/ c.reset < 0 /\ conn' = [conn EXCEPT ![k] = d2]
    BY DEF LoopSend, SentReset, SentFrame
  <2> HIDE DEF d1, d2
  <2> QED
    BY <1>2, <2>1
<1>4. /\ d1 \in ConnType /\ d1.on = c.on /\ d1.cursor = c.cursor /\ d1.hi = c.hi /\ d1.reset = -1
      /\ d1.lo = c.lo /\ d1.phase = p1
      /\ d2 \in ConnType /\ d2.on = c.on /\ d2.cursor = c.cursor /\ d2.hi = c.hi
      /\ d2.reset = c.reset /\ d2.lo = c.lo + 1 /\ d2.phase = p2
  BY <1>1, <1>2, SentParts
<1> HIDE DEF d1, d2
<1>5. CASE c.reset >= 0
  <2>1. conn'[k] = d1 /\ ~(c.reset < 0)
    BY <1>1, <1>2, <1>3, <1>5
  <2> QED
    BY <1>3, <1>4, <1>5, <2>1
<1>6. CASE c.reset < 0
  <2>1. conn'[k] = d2 /\ ~(c.reset >= 0)
    BY <1>1, <1>2, <1>3, <1>6
  <2> QED
    BY <1>3, <1>4, <1>6, <2>1
<1> QED
  BY <1>2, <1>5, <1>6

\* A client's loop moves its own record.
LEMMA LoopTypes ==
  ASSUME ViewTypeOK, NEW k \in Conns, ClientLoop(k)
  PROVE  /\ conn' \in [Conns -> ConnType] /\ UNCHANGED <<budget, seq, base, opened, socket, routed>>
         /\ \A i \in Conns \ {k} : conn'[i] = conn[i] /\ sent'[i] = sent[i]
         /\ shown' \in Seq(Int) /\ shown' # <<>>
         /\ sent' \in [Conns -> Seq(Int) \ {<<>>}]
<1>0. /\ conn[k] \in ConnType /\ conn \in [Conns -> ConnType] /\ shown \in Seq(Int) /\ shown # <<>>
      /\ sent \in [Conns -> Seq(Int) \ {<<>>}] /\ sent[k] \in Seq(Int)
  BY DEF ViewTypeOK
<1>1. UNCHANGED <<budget, seq, base, opened, socket, routed>>
  <2>1. LoopUnchanged
    BY DEF ClientLoop, LoopExit, LoopScan, LoopSend
  <2> QED
    BY <2>1 DEF LoopUnchanged, logVars, tabVars
<1>2. CASE LoopExit(k)
  <2>1. conn' = [conn EXCEPT ![k] = [conn[k] EXCEPT !.phase = "gone"]] /\ shown' = shown /\ sent' = sent
    BY <1>2 DEF LoopExit, viewVars
  <2> QED
    BY <1>0, <1>1, <2>1, ConnParts DEF Phases
<1>3. CASE LoopScan(k)
  <2>1. shown' = shown /\ sent' = sent
    BY <1>3 DEF LoopScan, viewVars
  <2> QED
    BY <1>0, <1>1, <1>3, <2>1, ScanEffect
<1>4. CASE LoopSend(k)
  <2>1. conn[k].reset \in Int /\ conn[k].lo + 1 \in Int
    BY <1>0 DEF ConnType
  <2>2. /\ <<conn[k].reset>> \in Seq(Int) /\ <<conn[k].reset>> # <<>>
        /\ Append(shown, conn[k].lo + 1) \in Seq(Int) /\ Append(shown, conn[k].lo + 1) # <<>>
        /\ Append(sent[k], conn[k].lo + 1) \in Seq(Int) /\ Append(sent[k], conn[k].lo + 1) # <<>>
    BY <1>0, <2>1, AppendProperties
  <2>3. shown' \in Seq(Int) /\ shown' # <<>>
    BY <1>0, <1>4, <2>2 DEF LoopSend
  <2>4. PICK x \in Seq(Int) \ {<<>>} : sent' = [sent EXCEPT ![k] = x]
    BY <1>4, <2>2 DEF LoopSend
  <2> QED
    BY <1>0, <1>1, <1>4, <2>3, <2>4, SendEffect
<1> QED
  BY <1>2, <1>3, <1>4 DEF ClientLoop

\* What attaching does to the client records: the other attachments of the
\* tab's id end.
LEMMA OpenTypes ==
  ASSUME ViewTypeOK, RecvOpen, Head(down).cursor \in Int
  PROVE  /\ conn' \in [Conns -> ConnType]
         /\ sent' \in [Conns -> Seq(Int) \ {<<>>}]
         /\ \A i \in Conns :
              \/ /\ conn'[i].phase = "wait" /\ conn'[i].cursor = Head(down).cursor
                 /\ sent'[i] = <<Head(down).cursor>>
              \/ /\ conn'[i] = conn[i] \/ conn'[i] = [conn[i] EXCEPT !.on = "done"]
                 /\ sent'[i] = sent[i]
<1>0. conn \in [Conns -> ConnType] /\ sent \in [Conns -> Seq(Int) \ {<<>>}]
  BY DEF ViewTypeOK
<1>1. CASE stopped
  <2>1. UNCHANGED <<conn, sent>>
    BY <1>1 DEF RecvOpen
  <2> QED
    BY <1>0, <2>1
<1>2. CASE ~stopped
  <2> DEFINE k == Head(down).id
             new == Attached(NewConn, "live", Head(down).cursor, TRUE)
             first == <<Head(down).cursor>>
  <2>1. new \in ConnType /\ new.phase = "wait" /\ new.cursor = Head(down).cursor
    BY NewConnType, AttachedParts DEF Marks
  <2>2. \A i \in Conns : [conn[i] EXCEPT !.on = "done"] \in ConnType
    BY <1>0, ConnParts DEF Marks
  <2>3. /\ conn' = [i \in Conns |-> IF i = k THEN new
                                    ELSE IF i \in Live THEN [conn[i] EXCEPT !.on = "done"]
                                    ELSE conn[i]]
        /\ sent' = [sent EXCEPT ![k] = first]
    BY <1>2 DEF RecvOpen, Attached
  <2>4. first \in Seq(Int) \ {<<>>}
    OBVIOUS
  <2> HIDE DEF new, k, first
  <2>5. conn' \in [Conns -> ConnType] /\ sent' \in [Conns -> Seq(Int) \ {<<>>}]
    BY <1>0, <2>1, <2>2, <2>3, <2>4
  <2>6. \A i \in Conns : /\ i = k => conn'[i] = new /\ sent'[i] = first
                         /\ i # k => /\ conn'[i] = conn[i] \/ conn'[i] = [conn[i] EXCEPT !.on = "done"]
                                     /\ sent'[i] = sent[i]
    BY <1>0, <2>3
  <2> QED
    BY <2>1, <2>5, <2>6 DEF first
<1> QED
  BY <1>1, <1>2

\* Detaching and stopping end loops.
LEMMA DoneTypes ==
  ASSUME ViewTypeOK, RecvClose \/ Stop
  PROVE  /\ conn' \in [Conns -> ConnType]
         /\ \A i \in Conns : /\ conn'[i] = conn[i] \/ conn'[i] = [conn[i] EXCEPT !.on = "done"]
                             /\ conn'[i].on = "none" <=> conn[i].on = "none"
<1>0. conn \in [Conns -> ConnType]
  BY DEF ViewTypeOK
<1>1. \A i \in Conns : /\ [conn[i] EXCEPT !.on = "done"] \in ConnType
                       /\ [conn[i] EXCEPT !.on = "done"].on = "done"
  BY <1>0, ConnParts DEF Marks
<1>2. CASE Stop
  <2>1. conn' = [i \in Conns |-> IF i \in Live THEN [conn[i] EXCEPT !.on = "done"] ELSE conn[i]]
    BY <1>2 DEF Stop
  <2>2. \A i \in Conns : i \in Live <=> conn[i].on = "live"
    BY DEF Live
  <2>3. ASSUME NEW i \in Conns
        PROVE  /\ conn'[i] = conn[i] \/ conn'[i] = [conn[i] EXCEPT !.on = "done"]
               /\ conn'[i].on = "none" <=> conn[i].on = "none"
    BY <1>1, <2>1, <2>2
  <2> QED
    BY <1>0, <1>1, <2>1, <2>3
<1>3. CASE RecvClose
  <2> DEFINE k == Head(down).id
             x == IF conn[k].on = "live" THEN "done" ELSE conn[k].on
  <2>1. conn' = [conn EXCEPT ![k].on = x]
    BY <1>3 DEF RecvClose
  <2>2. CASE k \in Conns
    <3>1. [conn[k] EXCEPT !.on = x] \in ConnType
      <4>1. conn[k] \in ConnType /\ x \in Marks
        BY <1>0, <2>2 DEF ConnType, Marks
      <4> QED
        BY <4>1, ConnParts
    <3>2. conn' = [conn EXCEPT ![k] = [conn[k] EXCEPT !.on = x]]
      BY <2>1
    <3>3. conn'[k] = [conn[k] EXCEPT !.on = x] /\ \A i \in Conns \ {k} : conn'[i] = conn[i]
      BY <1>0, <2>2, <3>2
    <3>4. CASE conn[k].on = "live"
      BY <1>0, <1>1, <2>2, <3>1, <3>2, <3>3, <3>4
    <3>5. CASE conn[k].on # "live"
      <4>1. [conn[k] EXCEPT !.on = x] = conn[k]
        BY <1>0, <2>2, <3>5 DEF ConnType
      <4> QED
        BY <1>0, <2>2, <3>1, <3>2, <3>3, <4>1
    <3> QED
      BY <3>4, <3>5
  <2>3. CASE k \notin Conns
    <3>1. conn' = conn
      BY <1>0, <2>1, <2>3
    <3> QED
      BY <1>0, <3>1
  <2> QED
    BY <2>2, <2>3
<1> QED
  BY <1>2, <1>3

\* Every step keeps the types of the log and of its readers.
LEMMA ViewTypes ==
  ASSUME MessageTypeOK, ViewTypeOK, [Next]_vars
  PROVE  ViewTypeOK'
<1> USE DEF MessageTypeOK
<1>s. ASSUME UNCHANGED viewState
      PROVE  ViewTypeOK'
  BY <1>s DEF viewState, ViewTypeOK, Conns
<1>c. ASSUME conn' \in [Conns -> ConnType], UNCHANGED <<budget, opened, socket, routed>>,
             seq' \in Nat, base' \in Nat, base' <= seq', shown' \in Seq(Int), shown' # <<>>,
             sent' \in [Conns -> Seq(Int) \ {<<>>}]
      PROVE  ViewTypeOK'
  BY <1>c DEF ViewTypeOK, Conns
<1>f. /\ seq \in Nat /\ base \in Nat /\ base <= seq /\ shown \in Seq(Int) /\ shown # <<>>
      /\ sent \in [Conns -> Seq(Int) \ {<<>>}]
  BY DEF ViewTypeOK
<1>1. ASSUME NEW a \in Actors, JobStep(a)
      PROVE  ViewTypeOK'
  <2>1. CASE LogFrames(a)
    <3>1. job[a].frames \in Nat
      BY DEF ChannelTypeOK, Jobs
    <3>2. seq' \in Nat /\ base' \in Nat /\ base' <= seq' /\ conn' \in [Conns -> ConnType]
      BY <2>1, <3>1, AppendFramesTypes DEF LogFrames
    <3>3. UNCHANGED <<budget, opened, socket, routed, shown, sent>>
      BY <2>1 DEF LogFrames, tabVars, viewVars
    <3> QED
      BY <1>c, <1>f, <3>2, <3>3
  <2>2. CASE SendPrompt(a) \/ SendLine(a)
    BY <1>s, <2>2 DEF SendPrompt, SendLine, viewState, logVars, tabVars, viewVars
  <2> QED
    BY <1>1, <2>1, <2>2 DEF JobStep
<1>2. CASE RecvLoop
  <2>1. CASE RecvPrompt \/ RecvAnswer \/ RecvControl
    BY <1>s, <2>1 DEF RecvPrompt, RecvAnswer, RecvControl, viewState, logVars, tabVars, viewVars
  <2>2. CASE RecvOpen
    <3>1. Head(down).cursor \in Int
      BY <2>2, ReceiveTypes, DownKinds DEF RecvOpen
    <3>2. conn' \in [Conns -> ConnType] /\ sent' \in [Conns -> Seq(Int) \ {<<>>}]
      BY <2>2, <3>1, OpenTypes
    <3>3. UNCHANGED <<budget, opened, socket, routed, shown, seq, base>>
      BY <2>2 DEF RecvOpen, tabVars, logVars
    <3> QED
      BY <1>c, <1>f, <3>2, <3>3
  <2>3. CASE RecvClose
    <3>1. conn' \in [Conns -> ConnType]
      BY <2>3, DoneTypes
    <3>2. UNCHANGED <<budget, opened, socket, routed, shown, sent, seq, base>>
      BY <2>3 DEF RecvClose, tabVars, viewVars, logVars
    <3> QED
      BY <1>c, <1>f, <3>1, <3>2
  <2> QED
    BY <1>2, <2>1, <2>2, <2>3 DEF RecvLoop
<1>3. CASE ReadLoop
  <2>1. CASE ReadResult \/ TurnEnd \/ ReadAsk
    BY <1>s, <2>1 DEF ReadResult, TurnEnd, ReadAsk, viewState, logVars, tabVars, viewVars
  <2>2. CASE ReadUpdate
    <3>1. UNCHANGED <<budget, opened, socket, routed, shown, sent>>
      BY <2>2 DEF ReadUpdate, tabVars, viewVars
    <3>2. CASE AppendFrames(1)
      BY <1>c, <1>f, <3>1, <3>2, AppendFramesTypes
    <3>3. CASE UNCHANGED <<logVars, conn>>
      BY <1>s, <3>1, <3>3 DEF viewState, logVars
    <3> QED
      BY <2>2, <3>2, <3>3 DEF ReadUpdate
  <2> QED
    BY <1>3, <2>1, <2>2 DEF ReadLoop
<1>4. ASSUME NEW q \in Perms, PermTimeout(q)
      PROVE  ViewTypeOK'
  BY <1>s, <1>4 DEF PermTimeout, viewState, logVars, tabVars, viewVars
<1>5. ASSUME NEW k \in Conns, ClientLoop(k)
      PROVE  ViewTypeOK'
  <2>1. /\ conn' \in [Conns -> ConnType] /\ UNCHANGED <<budget, seq, base, opened, socket, routed>>
        /\ shown' \in Seq(Int) /\ shown' # <<>> /\ sent' \in [Conns -> Seq(Int) \ {<<>>}]
    BY <1>5, LoopTypes
  <2> QED
    BY <1>c, <1>f, <2>1
<1>6. CASE Fork
  BY <1>s, <1>6 DEF Fork, ForkStart, TryAcquire, Release, viewState, logVars, tabVars, viewVars
<1>7. CASE Stop
  <2>1. conn' \in [Conns -> ConnType]
    BY <1>7, DoneTypes
  <2>2. UNCHANGED <<budget, opened, socket, routed, shown, sent, seq, base>>
    BY <1>7 DEF Stop, tabVars, viewVars, logVars
  <2> QED
    BY <1>c, <1>f, <2>1, <2>2
<1>8. CASE Tab
  <2>1. TabUnchanged
    BY <1>8 DEF Tab, TabConnects, TabDrops, CPDetaches, TabPrompts, TabControls, TabAnswers
  <2>2. UNCHANGED <<budget, seq, base, conn, shown, sent>>
    BY <2>1 DEF TabUnchanged, logVars, viewVars
  <2>3. /\ opened \in 0 .. budget.opens /\ socket \in 0 .. opened /\ routed \subseteq 1 .. opened
        /\ budget.opens \in Nat
    BY PumpAssumption DEF ViewTypeOK
  <2>4. opened' \in 0 .. budget.opens /\ socket' \in 0 .. opened' /\ routed' \subseteq 1 .. opened'
    <3>1. CASE TabConnects
      <4>1. opened < budget.opens /\ opened' = opened + 1 /\ socket' = opened'
        BY <3>1 DEF TabConnects
      <4>2. routed' \subseteq routed \cup {opened'}
        BY <3>1 DEF TabConnects
      <4> QED
        BY <2>3, <4>1, <4>2
    <3>2. CASE TabDrops
      BY <2>3, <3>2 DEF TabDrops
    <3>3. ASSUME NEW k \in Conns, CPDetaches(k)
          PROVE  UNCHANGED <<opened, socket>> /\ routed' \subseteq routed
      BY <3>3 DEF CPDetaches
    <3>4. TabPrompts \/ TabControls \/ (\E q \in Perms : TabAnswers(q))
            => UNCHANGED <<opened, socket, routed>>
      BY DEF TabPrompts, TabControls, TabAnswers
    <3> QED
      BY <1>8, <2>3, <3>1, <3>2, <3>3, <3>4 DEF Tab
  <2> QED
    BY <2>2, <2>4 DEF ViewTypeOK, Conns
<1>9. CASE Agent
  <2>1. AgentUnchanged
    BY <1>9 DEF Agent, WriteLine, AgentUpdates, AgentEnds, AgentAsks
  <2> QED
    BY <1>s, <2>1 DEF AgentUnchanged, viewState, logVars, tabVars, viewVars
<1>10. CASE UNCHANGED vars
  BY <1>s, <1>10 DEF vars, viewState, logVars, tabVars, viewVars
<1> QED
  BY <1>1, <1>2, <1>3, <1>4, <1>5, <1>6, <1>7, <1>8, <1>9, <1>10 DEF Next

\* Steps that send nothing and leave every loop where it is.
LEMMA ViewQuiet ==
  ASSUME ViewInv, UNCHANGED <<budget, sent>>,
         \A k \in Conns :
           /\ conn'[k].cursor = conn[k].cursor /\ conn'[k].phase = conn[k].phase
           /\ conn'[k].reset = conn[k].reset /\ conn'[k].lo = conn[k].lo /\ conn'[k].hi = conn[k].hi
  PROVE  ViewInv'
<1>0. Conns' = Conns
  BY DEF Conns
<1>1. LoopInv'
  BY <1>0 DEF ViewInv, LoopInv
<1>2. SentInv'
  BY <1>0 DEF ViewInv, SentInv, AtCursor, Last
<1>3. SentInOrder'
  BY <1>0 DEF ViewInv, SentInOrder
<1> QED
  BY <1>1, <1>2, <1>3 DEF ViewInv

\* An attachment that is over keeps its place in the log.
LEMMA DoneParts ==
  ASSUME ViewTypeOK, NEW k \in Conns,
         conn'[k] = conn[k] \/ conn'[k] = [conn[k] EXCEPT !.on = "done"]
  PROVE  /\ conn'[k].cursor = conn[k].cursor /\ conn'[k].phase = conn[k].phase
         /\ conn'[k].reset = conn[k].reset /\ conn'[k].lo = conn[k].lo /\ conn'[k].hi = conn[k].hi
<1>1. conn[k] \in ConnType
  BY DEF ViewTypeOK
<1>2. CASE conn'[k] = conn[k]
  BY <1>2
<1>3. CASE conn'[k] = [conn[k] EXCEPT !.on = "done"]
  BY <1>1, <1>3, ConnParts DEF Marks
<1> QED
  BY <1>2, <1>3

\* The receive loop attaches a client at the cursor it asks for.
LEMMA ViewOpen ==
  ASSUME MessageTypeOK, ViewTypeOK, ViewInv, RecvOpen
  PROVE  ViewInv'
<1> USE DEF MessageTypeOK
<1>0. Conns' = Conns
  BY DEF RecvOpen, Conns
<1>1. Head(down).cursor \in Int
  BY ReceiveTypes, DownKinds DEF RecvOpen, Receives
<1> DEFINE c == Head(down).cursor
<1>2. ASSUME NEW k \in Conns
      PROVE  /\ conn'[k].phase = "send" =>
                  /\ conn'[k].hi = conn'[k].cursor
                  /\ conn'[k].reset < 0 => conn'[k].lo < conn'[k].hi
                  /\ conn'[k].reset >= 0 => conn'[k].reset = conn'[k].lo /\ conn'[k].lo <= conn'[k].hi
             /\ AtCursor(k, Last(sent[k]))'
             /\ \A i \in 1 .. Len(sent'[k]) - 1 : sent'[k][i + 1] = sent'[k][i] + 1
  <2>1. \/ conn'[k].phase = "wait" /\ conn'[k].cursor = c /\ sent'[k] = <<c>>
        \/ /\ conn'[k] = conn[k] \/ conn'[k] = [conn[k] EXCEPT !.on = "done"]
           /\ sent'[k] = sent[k]
    BY <1>1, OpenTypes
  <2>2. CASE conn'[k].phase = "wait" /\ conn'[k].cursor = c /\ sent'[k] = <<c>>
    <3>1. Last(sent[k])' = c
      BY <2>2 DEF Last
    <3> QED
      BY <2>2, <3>1 DEF AtCursor
  <2>3. CASE /\ conn'[k] = conn[k] \/ conn'[k] = [conn[k] EXCEPT !.on = "done"]
             /\ sent'[k] = sent[k]
    <3>1. /\ conn'[k].cursor = conn[k].cursor /\ conn'[k].phase = conn[k].phase
          /\ conn'[k].reset = conn[k].reset /\ conn'[k].lo = conn[k].lo /\ conn'[k].hi = conn[k].hi
      BY <2>3, DoneParts
    <3>2. Last(sent[k])' = Last(sent[k]) /\ AtCursor(k, Last(sent[k]))
      BY <2>3 DEF Last, ViewInv, SentInv
    <3> QED
      BY <2>3, <3>1, <3>2 DEF ViewInv, LoopInv, SentInOrder, AtCursor
  <2> QED
    BY <2>1, <2>2, <2>3
<1> QED
  BY <1>0, <1>2 DEF ViewInv, LoopInv, SentInv, SentInOrder

\* A loop moves: its client is sent the frame after the last it was sent, or
\* a reset.
LEMMA ViewLoop ==
  ASSUME MessageTypeOK, ViewTypeOK, ViewInv, NEW k \in Conns, ClientLoop(k)
  PROVE  ViewInv'
<1>0. /\ UNCHANGED <<budget, seq, base>> /\ Conns' = Conns
      /\ \A i \in Conns \ {k} : conn'[i] = conn[i] /\ sent'[i] = sent[i]
      /\ conn'[k] \in ConnType
  BY LoopTypes DEF Conns
<1>1. /\ conn[k] \in ConnType /\ seq \in Nat /\ base \in Nat /\ base <= seq
      /\ sent \in [Conns -> Seq(Int) \ {<<>>}] /\ sent[k] \in Seq(Int) /\ sent[k] # <<>>
  BY DEF ViewTypeOK
<1>2. /\ conn[k].reset \in Int /\ conn[k].lo \in Int /\ conn[k].hi \in Int /\ conn[k].cursor \in Int
      /\ conn'[k].reset \in Int
  BY <1>0, <1>1 DEF ConnType
<1>3. conn[k].phase = "send" =>
        /\ conn[k].hi = conn[k].cursor
        /\ conn[k].reset < 0 => conn[k].lo < conn[k].hi
        /\ conn[k].reset >= 0 => conn[k].reset = conn[k].lo /\ conn[k].lo <= conn[k].hi
  BY DEF ViewInv, LoopInv
<1>5. AtCursor(k, Last(sent[k]))
  BY DEF ViewInv, SentInv
<1>6. conn'[k].phase = "send" =>
        /\ conn'[k].hi = conn'[k].cursor
        /\ conn'[k].reset < 0 => conn'[k].lo < conn'[k].hi
        /\ conn'[k].reset >= 0 => conn'[k].reset = conn'[k].lo /\ conn'[k].lo <= conn'[k].hi
  <2>1. CASE LoopExit(k)
    <3>1. conn'[k] = [conn[k] EXCEPT !.phase = "gone"]
      BY <2>1 DEF LoopExit, ViewTypeOK
    <3> QED
      BY <1>1, <3>1, ConnParts DEF Phases
  <2>2. CASE LoopScan(k)
    BY <1>1, <1>2, <2>2, ScanEffect
  <2>3. CASE LoopSend(k)
    <3>1. conn[k].phase = "send"
      BY <2>3 DEF LoopSend
    <3> QED
      BY <1>2, <1>3, <2>3, <3>1, SendEffect
  <2> QED
    BY <2>1, <2>2, <2>3 DEF ClientLoop
<1>7. LoopInv'
  BY <1>0, <1>6 DEF ViewInv, LoopInv
<1>8. /\ AtCursor(k, Last(sent[k]))'
      /\ \/ sent'[k] = sent[k]
         \/ sent'[k] = <<conn[k].reset>>
         \/ sent'[k] = Append(sent[k], Last(sent[k]) + 1)
  <2>1. CASE LoopExit(k)
    <3>1. /\ conn'[k] = [conn[k] EXCEPT !.phase = "gone"] /\ conn[k].phase = "wait"
          /\ sent' = sent
      BY <2>1 DEF LoopExit, ViewTypeOK, viewVars
    <3>2. conn'[k].phase = "gone" /\ conn'[k].cursor = conn[k].cursor
      BY <1>1, <3>1, ConnParts DEF Phases
    <3> QED
      BY <1>5, <3>1, <3>2 DEF AtCursor, Last
  <2>2. CASE LoopScan(k)
    <3>1. sent' = sent /\ conn[k].phase # "send"
      BY <2>2 DEF LoopScan, viewVars
    <3>2. conn[k].cursor = Last(sent[k]) /\ Last(sent[k])' = Last(sent[k])
      BY <1>5, <3>1 DEF AtCursor, Last
    <3>3. CASE conn[k].cursor < base \/ conn[k].cursor > seq
      BY <1>1, <2>2, <3>1, <3>3, ScanEffect DEF AtCursor
    <3>4. CASE ~(conn[k].cursor < base \/ conn[k].cursor > seq)
      <4>1. /\ conn'[k].lo = conn[k].cursor /\ conn'[k].cursor = seq
            /\ conn'[k].phase = IF conn[k].cursor < seq THEN "send" ELSE "wait"
        BY <2>2, <3>4, ScanEffect
      <4>2. conn'[k].phase # "send" => conn[k].cursor = seq
        BY <1>1, <1>2, <3>4, <4>1
      <4> QED
        BY <3>1, <3>2, <4>1, <4>2 DEF AtCursor
    <3> QED
      BY <3>3, <3>4
  <2>3. CASE LoopSend(k)
    <3>1. conn[k].phase = "send"
      BY <2>3 DEF LoopSend
    <3>2. CASE conn[k].reset >= 0
      <4>1. sent' = [sent EXCEPT ![k] = <<conn[k].reset>>]
        BY <1>2, <2>3, <3>2 DEF LoopSend
      <4>2. sent'[k] = <<conn[k].reset>> /\ Last(sent[k])' = conn[k].reset
        BY <1>1, <4>1 DEF Last
      <4>3. /\ conn'[k].reset = -1 /\ conn'[k].lo = conn[k].lo /\ conn'[k].cursor = conn[k].cursor
            /\ conn'[k].phase = IF conn[k].lo < conn[k].hi THEN "send" ELSE "scan"
        BY <2>3, <3>2, SendEffect
      <4>4. /\ conn[k].hi = conn[k].cursor /\ conn[k].reset = conn[k].lo /\ conn[k].lo <= conn[k].hi
        BY <1>3, <3>1, <3>2
      <4>5. conn'[k].phase # "send" => conn[k].cursor = conn[k].lo
        BY <1>2, <4>3, <4>4
      <4> QED
        BY <4>2, <4>3, <4>4, <4>5 DEF AtCursor
    <3>3. CASE conn[k].reset < 0
      <4>1. conn[k].lo = Last(sent[k])
        BY <1>5, <3>1, <3>3 DEF AtCursor
      <4>2. sent' = [sent EXCEPT ![k] = Append(sent[k], conn[k].lo + 1)]
        BY <1>2, <2>3, <3>3 DEF LoopSend
      <4>3. sent'[k] = Append(sent[k], conn[k].lo + 1) /\ Last(sent[k])' = conn[k].lo + 1
        <5>1. sent'[k] = Append(sent[k], conn[k].lo + 1) /\ conn[k].lo + 1 \in Int
          BY <1>1, <1>2, <4>2
        <5> QED
          BY <1>1, <5>1, AppendProperties DEF Last
      <4>4. /\ conn'[k].reset = conn[k].reset /\ conn'[k].lo = conn[k].lo + 1
            /\ conn'[k].cursor = conn[k].cursor
            /\ conn'[k].phase = IF conn[k].lo + 1 < conn[k].hi THEN "send" ELSE "scan"
        BY <2>3, <3>3, SendEffect
      <4>5. conn[k].hi = conn[k].cursor /\ conn[k].lo < conn[k].hi
        BY <1>3, <3>1, <3>3
      <4>6. conn'[k].phase # "send" => conn[k].cursor = conn[k].lo + 1
        BY <1>2, <4>4, <4>5
      <4> QED
        BY <4>1, <4>3, <4>4, <4>6 DEF AtCursor
    <3> QED
      BY <1>2, <3>2, <3>3
  <2> QED
    BY <2>1, <2>2, <2>3 DEF ClientLoop
<1>9. SentInv'
  <2>1. ASSUME NEW i \in Conns \ {k}
        PROVE  AtCursor(i, Last(sent[i]))'
    BY <1>0 DEF ViewInv, SentInv, AtCursor, Last
  <2> QED
    BY <1>0, <1>8, <2>1 DEF SentInv
<1>10. SentInOrder'
  <2>1. \A i \in 1 .. Len(sent'[k]) - 1 : sent'[k][i + 1] = sent'[k][i] + 1
    <3>1. CASE sent'[k] = sent[k]
      BY <3>1 DEF ViewInv, SentInOrder
    <3>2. CASE sent'[k] = <<conn[k].reset>>
      BY <3>2
    <3>3. CASE sent'[k] = Append(sent[k], Last(sent[k]) + 1)
      <4>1. Len(sent[k]) \in Nat \ {0} /\ Last(sent[k]) + 1 \in Int
        BY <1>1, EmptySeq, ElementOfSeq DEF Last
      <4>2. /\ Len(sent'[k]) = Len(sent[k]) + 1 /\ sent'[k][Len(sent[k]) + 1] = Last(sent[k]) + 1
            /\ \A i \in 1 .. Len(sent[k]) : sent'[k][i] = sent[k][i]
        BY <1>1, <3>3, <4>1, AppendProperties
      <4>3. \A i \in 1 .. Len(sent[k]) - 1 : sent[k][i + 1] = sent[k][i] + 1
        BY DEF ViewInv, SentInOrder
      <4>4. ASSUME NEW i \in 1 .. Len(sent'[k]) - 1
            PROVE  sent'[k][i + 1] = sent'[k][i] + 1
        <5>1. CASE i = Len(sent[k])
          BY <4>1, <4>2, <5>1 DEF Last
        <5>2. CASE i # Len(sent[k])
          <6>1. i \in 1 .. Len(sent[k]) - 1 /\ i \in 1 .. Len(sent[k]) /\ i + 1 \in 1 .. Len(sent[k])
            BY <4>1, <4>2, <5>2
          <6> QED
            BY <4>2, <4>3, <6>1
        <5> QED
          BY <5>1, <5>2
      <4> QED
        BY <4>4
    <3> QED
      BY <1>8, <3>1, <3>2, <3>3
  <2> QED
    BY <1>0, <2>1 DEF ViewInv, SentInOrder
<1> QED
  BY <1>7, <1>9, <1>10 DEF ViewInv

\* Every step keeps what each attachment is sent in order.
LEMMA ViewStep ==
  ASSUME MessageTypeOK, ViewTypeOK, ViewInv, [Next]_vars
  PROVE  ViewInv'
<1> USE DEF MessageTypeOK
<1>s. ASSUME UNCHANGED <<budget, conn, sent>>
      PROVE  ViewInv'
  BY <1>s, ViewQuiet
<1>a. ASSUME NEW n \in Nat, AppendFrames(n), UNCHANGED <<budget, sent>>
      PROVE  ViewInv'
  BY <1>a, AppendFramesTypes, ViewQuiet
<1>d. ASSUME RecvClose \/ Stop
      PROVE  ViewInv'
  <2>1. UNCHANGED <<budget, sent>>
    BY <1>d DEF RecvClose, Stop, viewVars
  <2>2. \A k \in Conns : conn'[k] = conn[k] \/ conn'[k] = [conn[k] EXCEPT !.on = "done"]
    BY <1>d, DoneTypes
  <2> QED
    BY <2>1, <2>2, DoneParts, ViewQuiet
<1>1. ASSUME NEW a \in Actors, JobStep(a)
      PROVE  ViewInv'
  <2>1. CASE LogFrames(a)
    <3>1. job[a].frames \in Nat
      BY DEF ChannelTypeOK, Jobs
    <3> QED
      BY <1>a, <2>1, <3>1 DEF LogFrames, viewVars
  <2>2. CASE SendPrompt(a) \/ SendLine(a)
    BY <1>s, <2>2 DEF SendPrompt, SendLine, viewVars
  <2> QED
    BY <1>1, <2>1, <2>2 DEF JobStep
<1>2. CASE RecvLoop
  <2>1. CASE RecvPrompt \/ RecvAnswer \/ RecvControl
    BY <1>s, <2>1 DEF RecvPrompt, RecvAnswer, RecvControl, viewVars
  <2> QED
    BY <1>2, <1>d, <2>1, ViewOpen DEF RecvLoop
<1>3. CASE ReadLoop
  <2>1. CASE ReadResult \/ TurnEnd \/ ReadAsk
    BY <1>s, <2>1 DEF ReadResult, TurnEnd, ReadAsk, viewVars
  <2>2. CASE ReadUpdate
    BY <1>a, <1>s, <2>2 DEF ReadUpdate, viewVars
  <2> QED
    BY <1>3, <2>1, <2>2 DEF ReadLoop
<1>4. ASSUME NEW q \in Perms, PermTimeout(q)
      PROVE  ViewInv'
  BY <1>s, <1>4 DEF PermTimeout, viewVars
<1>5. CASE Fork
  BY <1>s, <1>5 DEF Fork, ForkStart, TryAcquire, Release, viewVars
<1>6. CASE Tab
  <2>1. TabUnchanged
    BY <1>6 DEF Tab, TabConnects, TabDrops, CPDetaches, TabPrompts, TabControls, TabAnswers
  <2> QED
    BY <1>s, <2>1 DEF TabUnchanged, viewVars
<1>7. CASE Agent
  <2>1. AgentUnchanged
    BY <1>7 DEF Agent, WriteLine, AgentUpdates, AgentEnds, AgentAsks
  <2> QED
    BY <1>s, <2>1 DEF AgentUnchanged, viewVars
<1>8. CASE UNCHANGED vars
  BY <1>s, <1>8 DEF vars, viewVars
<1> QED
  BY <1>1, <1>2, <1>3, <1>4, <1>5, <1>6, <1>7, <1>8, <1>d, ViewLoop DEF Next

----------------------------------------------------------------------------
(* Theorems.                                                                 *)

PumpInv == PumpTypeOK /\ TurnInv /\ AnswerInv /\ QueueInv /\ OrderInv

\* A pump whose handshake is done has nothing under way.
LEMMA PumpInit == Init => PumpInv /\ ViewInv
<1> SUFFICES ASSUME Init
             PROVE  PumpInv /\ ViewInv
  OBVIOUS
<1>1. \A a \in Actors : job[a] = NoJob
  BY DEF Init
<1>2. Starting = {} /\ \A q \in Perms : Giving(q) = {}
  BY <1>1, NoJobParts, LineKinds DEF Starting, Giving
<1>3. budget.opens \in Nat /\ budget \in Budgets
  BY PumpAssumption DEF Init
<1>4. ChannelTypeOK /\ PromptTypeOK /\ PermTypeOK
  BY NoJobParts, EmptySeq DEF Init, ChannelTypeOK, PromptTypeOK, PermTypeOK
<1>5. ViewTypeOK
  <2>1. <<0>> \in Seq(Int) /\ <<0>> # <<>>
    OBVIOUS
  <2> QED
    BY <1>3, <2>1, NewConnType DEF Init, ViewTypeOK
<1>6. Len(toAgent) = 0 /\ Len(out) = 0 /\ Len(turn) = 0 /\ Len(queue) = 0 /\ Len(down) = 0
      /\ Len(received) = 0 /\ Len(accepted) = 0
  BY EmptySeq DEF Init
<1>7. TurnInv
  BY <1>1, <1>2, <1>6, NoJobParts
     DEF Init, TurnInv, TurnPlaces, TurnExclusive, TurnBusy, TurnJobs, ForkQuiet, Holds, Once
<1>8. AnswerInv
  BY <1>2, <1>6 DEF Init, AnswerInv, AnswerPlaces, AnswerExclusive, AnswerOwed, Holds, Once
<1>9. QueueInv
  BY DEF Init, QueueInv
<1>10. InTransit = 0
  BY <1>2, <1>6 DEF InTransit, Holds
<1>11. OrderInv
  BY <1>1, <1>6, <1>10, NoJobParts, LineKinds DEF OrderInv, Prefix, Accounted
<1>12. ViewInv
  <2>1. \A k \in Conns : /\ conn[k].phase = "wait" /\ conn[k].cursor = 0
                         /\ sent[k] = <<0>> /\ Len(sent[k]) = 1 /\ Last(sent[k]) = 0
    BY DEF Init, NewConn, Last
  <2> QED
    BY <2>1 DEF ViewInv, LoopInv, SentInv, AtCursor, SentInOrder
<1> QED
  BY <1>4, <1>5, <1>7, <1>8, <1>9, <1>11, <1>12 DEF PumpInv, PumpTypeOK

\* What the proofs rest on holds of every state of a pump.
LEMMA PumpInvariance == Spec => []PumpInv
<1>1. PumpInv /\ [Next]_vars => PumpInv'
  BY MessageTypes, ViewTypes, TurnStep, AnswerStep, QueueStep, OrderStep
     DEF PumpInv, PumpTypeOK, MessageTypeOK
<1> QED
  BY <1>1, PumpInit, PTL DEF Spec

\* Where a prompt under way can be.
LEMMA UnderwayPlaces ==
  ASSUME ChannelTypeOK, PromptTypeOK, NEW x \in Underway
  PROVE  \/ \E a \in Starting : job[a].prompt # NoPrompt /\ x = <<"job", a>>
         \/ \E a \in Starting : job[a].line \in PromptLines /\ x = <<"line", a>>
         \/ \E i \in 1 .. Len(toAgent) : toAgent[i] \in PromptLines /\ x = <<"toAgent", i>>
         \/ \E i \in 1 .. Len(turn) : turn # <<>> /\ x = <<"turn", i>>
         \/ \E i \in 1 .. Len(out) : out[i] \in Results /\ x = <<"out", i>>
<1>1. \A a \in Actors : job[a].line.kind = "prompt" => job[a].line \in PromptLines
  <2>1. NoLine.kind # "prompt"
    BY DEF NoLine
  <2> QED
    BY <2>1, LineKinds DEF ChannelTypeOK, Jobs
<1>2. \A i \in 1 .. Len(toAgent) : toAgent[i].kind = "prompt" => toAgent[i] \in PromptLines
  BY LineKinds, ElementOfSeq DEF ChannelTypeOK
<1>3. \A i \in 1 .. Len(out) : out[i].kind = "result" => out[i] \in Results
  BY OutputKinds, ElementOfSeq DEF ChannelTypeOK
<1>4. \A i \in 1 .. Len(turn) : turn # <<>>
  BY EmptySeq
<1>5. CASE x \in {<<"job", a>> : a \in {b \in Actors : job[b].prompt # NoPrompt}}
  BY <1>5 DEF Starting
<1>6. CASE x \in {<<"line", a>> : a \in {b \in Actors : job[b].line.kind = "prompt"}}
  BY <1>1, <1>6 DEF Starting
<1>7. CASE x \in {<<"toAgent", i>> : i \in {j \in 1 .. Len(toAgent) : toAgent[j].kind = "prompt"}}
  BY <1>2, <1>7
<1>8. CASE x \in {<<"turn", i>> : i \in 1 .. Len(turn)}
  BY <1>4, <1>8
<1>9. CASE x \in {<<"out", i>> : i \in {j \in 1 .. Len(out) : out[j].kind = "result"}}
  BY <1>3, <1>9
<1> QED
  BY <1>5, <1>6, <1>7, <1>8, <1>9 DEF Underway

\* One turn, from the places a prompt can be in.
LEMMA TurnInvOneTurn ==
  ASSUME ChannelTypeOK, PromptTypeOK, TurnInv
  PROVE  OneTurn
<1> SUFFICES ASSUME NEW x \in Underway, NEW y \in Underway
             PROVE  x = y
  BY DEF OneTurn
<1>0. \A i \in 1 .. Len(turn) : i = 1
  BY LenProperties DEF PromptTypeOK, TurnInv, TurnPlaces
<1>p. ASSUME NEW z \in Underway
      PROVE  \/ \E a \in Starting : job[a].prompt # NoPrompt /\ z = <<"job", a>>
             \/ \E a \in Starting : job[a].line \in PromptLines /\ z = <<"line", a>>
             \/ \E i \in 1 .. Len(toAgent) : toAgent[i] \in PromptLines /\ z = <<"toAgent", i>>
             \/ \E i \in 1 .. Len(turn) : turn # <<>> /\ z = <<"turn", i>>
             \/ \E i \in 1 .. Len(out) : out[i] \in Results /\ z = <<"out", i>>
  BY UnderwayPlaces
<1>a. /\ \A a, b \in Starting : a = b
      /\ \A a \in Starting : job[a].prompt # NoPrompt => job[a].line \notin PromptLines
  BY LineKinds DEF TurnInv, TurnPlaces, TurnJobs, Starting
<1>b. /\ (\E i \in 1 .. Len(toAgent) : toAgent[i] \in PromptLines) => Holds(toAgent, PromptLines)
      /\ (\E i \in 1 .. Len(out) : out[i] \in Results) => Holds(out, Results)
  BY DEF Holds
<1>c. /\ \A i, j \in 1 .. Len(toAgent) : toAgent[i] \in PromptLines /\ toAgent[j] \in PromptLines => i = j
      /\ \A i, j \in 1 .. Len(out) : out[i] \in Results /\ out[j] \in Results => i = j
  BY DEF TurnInv, TurnPlaces, Once
<1>1. CASE Starting # {}
  <2>1. ~Holds(toAgent, PromptLines) /\ turn = <<>> /\ ~Holds(out, Results)
    BY <1>1 DEF TurnInv, TurnExclusive
  <2> QED
    BY <1>a, <1>b, <1>p, <2>1
<1>2. CASE Starting = {} /\ Holds(toAgent, PromptLines)
  <2>1. turn = <<>> /\ ~Holds(out, Results)
    BY <1>2 DEF TurnInv, TurnExclusive
  <2> QED
    BY <1>2, <1>b, <1>c, <1>p, <2>1
<1>3. CASE Starting = {} /\ ~Holds(toAgent, PromptLines) /\ turn # <<>>
  <2>1. ~Holds(out, Results)
    BY <1>3 DEF TurnInv, TurnExclusive
  <2> QED
    BY <1>3, <1>0, <1>b, <1>p, <2>1
<1>4. CASE Starting = {} /\ ~Holds(toAgent, PromptLines) /\ turn = <<>>
  BY <1>4, <1>b, <1>c, <1>p
<1> QED
  BY <1>1, <1>2, <1>3, <1>4

\* One answer, from the places an answer can be in.
LEMMA AnswerInvOnce ==
  ASSUME PermTypeOK, AnswerInv
  PROVE  AnsweredOnce
<1> SUFFICES ASSUME NEW q \in Perms
             PROVE  /\ \A x, y \in Answering(q) : x = y
                    /\ Answering(q) # {} => answers[q] = 0
                    /\ answers[q] <= 1
  BY DEF AnsweredOnce
<1>1. AnswerPlaces(q) /\ AnswerExclusive(q) /\ AnswerOwed(q)
  BY DEF AnswerInv
<1>2. ASSUME NEW x \in Answering(q)
      PROVE  \/ \E a \in Giving(q) : x = <<"line", a>>
             \/ \E i \in 1 .. Len(toAgent) : toAgent[i] \in {AnswerLine(q)} /\ x = <<"toAgent", i>>
  BY <1>2 DEF Answering, Giving
<1>3. (\E i \in 1 .. Len(toAgent) : toAgent[i] \in {AnswerLine(q)}) => Holds(toAgent, {AnswerLine(q)})
  BY DEF Holds
<1>4. /\ \A a, b \in Giving(q) : a = b
      /\ \A i, j \in 1 .. Len(toAgent) :
           toAgent[i] \in {AnswerLine(q)} /\ toAgent[j] \in {AnswerLine(q)} => i = j
      /\ Giving(q) # {} => ~Holds(toAgent, {AnswerLine(q)})
  BY <1>1 DEF AnswerPlaces, AnswerExclusive, Once
<1>5. \A x, y \in Answering(q) : x = y
  <2> SUFFICES ASSUME NEW x \in Answering(q), NEW y \in Answering(q)
               PROVE  x = y
    OBVIOUS
  <2>1. CASE Giving(q) = {}
    BY <1>2, <1>4, <2>1
  <2>2. CASE Giving(q) # {}
    <3>1. ~(\E i \in 1 .. Len(toAgent) : toAgent[i] \in {AnswerLine(q)})
      BY <1>3, <1>4, <2>2
    <3> QED
      BY <1>2, <1>4, <3>1
  <2> QED
    BY <2>1, <2>2
<1>6. Answering(q) # {} => answers[q] = 0
  BY <1>1, <1>2, <1>3 DEF AnswerOwed
<1> QED
  BY <1>1, <1>5, <1>6 DEF AnswerOwed

\* Every message in a channel and every cursor has a meaning.
THEOREM PumpTypeCorrect == Spec => []PumpTypeOK
BY PumpInvariance, PTL DEF PumpInv

\* The agent never has two prompts to work on and no permission request gets
\* two answers, whoever starts the turn and whoever answers (busy,
\* inflightPromptID and pending in pump.go).
THEOREM OneConversation == Spec => []AgentProtocolKept
<1>1. PumpInv => AgentProtocolKept
  BY TurnInvOneTurn, AnswerInvOnce DEF PumpInv, PumpTypeOK, AgentProtocolKept
<1> QED
  BY <1>1, PumpInvariance, PTL

\* A fork that holds the granted barrier captures a quiet agent
\* (tryAcquireForkBarrier against fromClient's send after the unlock).
THEOREM QuietCapture == Spec => []ForkSeesQuiet
<1>1. PumpInv => ForkSeesQuiet
  <2> SUFFICES ASSUME PumpInv, fork = "held"
               PROVE  Underway = {} /\ asked = {}
    BY DEF ForkSeesQuiet
  <2>1. /\ Starting = {} /\ ~Holds(toAgent, PromptLines) /\ turn = <<>> /\ ~Holds(out, Results)
        /\ asked = {}
    BY DEF PumpInv, TurnInv, ForkQuiet, TurnBusy
  <2>2. ASSUME NEW x \in Underway
        PROVE  FALSE
    BY <2>1, UnderwayPlaces DEF Holds, PumpInv, PumpTypeOK
  <2> QED
    BY <2>1, <2>2
<1> QED
  BY <1>1, PumpInvariance, PTL

\* The agent gets the prompts in the order the pump accepted them, across
\* the queue, direct sends and forks (fromClient, handleTurnEnd,
\* releaseForkBarrier).
THEOREM OrderKept == Spec => []PromptsInOrder
<1>1. PumpInv => PromptsInOrder
  <2> SUFFICES ASSUME PumpInv
               PROVE  PromptsInOrder
    OBVIOUS
  <2>1. /\ received \in Seq(Prompts) /\ accepted \in Seq(Prompts) /\ Prefix
        /\ Len(received) \in Nat /\ Len(accepted) \in Nat
    BY LenProperties DEF PumpInv, PumpTypeOK, PromptTypeOK, OrderInv
  <2>2. /\ SubSeq(accepted, 1, Len(received)) \in Seq(Prompts)
        /\ Len(SubSeq(accepted, 1, Len(received))) = Len(received)
        /\ \A i \in 1 .. Len(received) : SubSeq(accepted, 1, Len(received))[i] = accepted[i]
    <3>1. \A i \in 1 .. Len(received) : accepted[i] \in Prompts
      BY <2>1, ElementOfSeq DEF Prefix
    <3> QED
      BY <2>1, <3>1, SubSeqProperties DEF Prefix
  <2>3. received = SubSeq(accepted, 1, Len(received))
    BY <2>1, <2>2, SeqEqual DEF Prefix
  <2> QED
    BY <2>1, <2>3 DEF PromptsInOrder, Prefix
<1> QED
  BY <1>1, PumpInvariance, PTL

\* What an attachment is sent has neither holes nor repetitions since its
\* cursor or its last reset, whatever connects, replaces it, detaches, and is
\* logged and trimmed meanwhile (clientLoop, attachClient, appendFrames).
THEOREM StreamInOrder == Spec => []SentInOrder
<1>1. PumpInv /\ ViewInv /\ [Next]_vars => ViewInv'
  BY ViewStep DEF PumpInv, PumpTypeOK, MessageTypeOK
<1>2. ViewInv => SentInOrder
  BY DEF ViewInv
<1> QED
  BY <1>1, <1>2, PumpInit, PumpInvariance, PTL DEF Spec

=============================================================================
