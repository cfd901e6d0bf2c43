---------------------------- MODULE ReadoptProofs ----------------------------
(* Re-adoption keeps the custody of running pods, for any number of spawns,  *)
(* generations and connections.                                              *)
EXTENDS Readopt, TLAPS

---------------------------------------------------------------------------
(* Type correctness.                                                         *)

PlainTypeOK == LedgerTypeOK /\ PodTypeOK /\ LinkTypeOK /\ att \in [Conns -> Attempts]

\* Moving an attempt on keeps the type of the attempts.
LEMMA SetPc ==
  ASSUME att \in [Conns -> Attempts], NEW c \in Conns, NEW p \in Pcs
  PROVE  [att EXCEPT ![c].pc = p] \in [Conns -> Attempts]
  BY DEF Attempts

\* An attempt that has ended is an attempt.
LEMMA EndedAttempt == [Idle EXCEPT !.pc = "end"] \in Attempts
  BY ReadoptAssumption DEF Idle, Attempts, Pcs, Gens, Verdicts, Nothing

\* Flags stay flags, whatever the step.
LEMMA TypeFlags ==
  ASSUME TypeOK, Next
  PROVE  FlagTypeOK'
<1> USE DEF TypeOK, FlagTypeOK, ledgerVars, stateVars
<1>1. CASE Connect \/ Break \/ NodeRestart \/ Decide \/ Deliver
  BY <1>1, Zenon DEF Connect, Break, NodeRestart, Decide, Deliver
<1>2. ASSUME NEW s \in Spawns, DriverBegins(s) \/ DriverEnds(s) \/ StartEpisode(s)
      PROVE  FlagTypeOK'
  BY <1>2 DEF DriverBegins, DriverEnds, StartEpisode
<1>3. ASSUME NEW s \in Spawns, NodeStart(s) \/ NodeStop(s)
      PROVE  FlagTypeOK'
  BY <1>3, Zenon DEF NodeStart, NodeStop
<1>4. ASSUME NEW c \in Conns,
             \/ Begin(c) \/ ListPods(c) \/ ListFails(c) \/ SendReport(c)
             \/ TakeAnswer(c) \/ WaitCancelled(c) \/ WaitTimesOut(c)
             \/ ApplyNext(c) \/ ApplyDone(c)
      PROVE  FlagTypeOK'
  BY <1>4, Zenon DEF Begin, ListPods, ListFails, SendReport, TakeAnswer, WaitCancelled,
                     WaitTimesOut, ApplyNext, ApplyDone
<1>5. ASSUME NEW c \in Conns, NEW s \in Spawns,
             \/ AdoptFloor(c, s) \/ AdoptEnv(c, s) \/ AdoptPut(c, s) \/ AdoptDial(c, s)
             \/ ReapPod(c, s)
      PROVE  FlagTypeOK'
  BY <1>5, Zenon DEF AdoptFloor, AdoptEnv, AdoptPut, AdoptDial, ReapPod
<1>6. QED
  BY <1>1, <1>2, <1>3, <1>4, <1>5 DEF Next, Attempt

\* Connections come and go.
LEMMA TypeConnection ==
  ASSUME TypeOK, Connect \/ Break \/ NodeRestart
  PROVE  PlainTypeOK'
<1> USE ReadoptAssumption DEF TypeOK, PlainTypeOK, LinkTypeOK
<1>1. LedgerTypeOK'
  BY DEF Connect, Break, NodeRestart, LedgerTypeOK, ledgerVars, Nothing, Gens
<1>2. PodTypeOK'
  BY DEF Connect, Break, NodeRestart, PodTypeOK, podVars, Nothing, Gens
<1>3. LinkTypeOK'
  BY DEF Connect, Break, NodeRestart, stateVars
<1>4. att' \in [Conns -> Attempts]
  <2>1. CASE Connect
    BY <2>1, SetPc DEF Connect, Conns, Pcs
  <2>2. CASE NodeRestart
    BY <2>2, EndedAttempt DEF NodeRestart
  <2>3. CASE Break
    BY <2>3 DEF Break
  <2>4. QED
    BY <2>1, <2>2, <2>3
<1>5. QED
  BY <1>1, <1>2, <1>3, <1>4

\* The drivers at work on the ledger, and their commands on the node.
LEMMA TypeLedger ==
  ASSUME TypeOK, NEW s \in Spawns,
         DriverBegins(s) \/ DriverEnds(s) \/ StartEpisode(s) \/ NodeStart(s) \/ NodeStop(s)
  PROVE  PlainTypeOK'
<1>1. LedgerTypeOK'
  BY ReadoptAssumption DEF TypeOK, LedgerTypeOK, DriverBegins, DriverEnds, StartEpisode, NodeStart,
                           NodeStop, ledgerVars, Gens
<1>2. PodTypeOK'
  BY ReadoptAssumption DEF TypeOK, LedgerTypeOK, PodTypeOK, DriverBegins, DriverEnds, StartEpisode,
                           NodeStart, NodeStop, podVars, Gens
<1>3. LinkTypeOK' /\ att' \in [Conns -> Attempts]
  BY DEF TypeOK, LinkTypeOK, DriverBegins, DriverEnds, StartEpisode, NodeStart, NodeStop, stateVars
<1>4. QED
  BY <1>1, <1>2, <1>3 DEF PlainTypeOK

\* The messages between node and control plane.
LEMMA TypeMessages ==
  ASSUME TypeOK, Decide \/ Deliver
  PROVE  PlainTypeOK'
<1>1. LedgerTypeOK' /\ PodTypeOK' /\ att' \in [Conns -> Attempts]
  BY DEF TypeOK, LedgerTypeOK, PodTypeOK, Decide, Deliver, ledgerVars, podVars
<1>2. LinkTypeOK'
  <2>1. CASE Decide
    <3>1. wire \in Reports
      BY <2>1 DEF Decide, TypeOK, LinkTypeOK, Answers, NoMsg
    <3>2. wire' \in Answers
      BY <2>1, <3>1 DEF Decide, Reports, Answers
    <3>3. QED
      BY <2>1, <3>2 DEF Decide, TypeOK, LinkTypeOK, stateVars
  <2>2. CASE Deliver
    <3>1. wire \in Answers
      BY <2>2 DEF Deliver, TypeOK, LinkTypeOK, Reports, NoMsg
    <3>2. QED
      BY <2>2, <3>1 DEF Deliver, TypeOK, LinkTypeOK
  <2>3. QED
    BY <2>1, <2>2
<1>3. QED
  BY <1>1, <1>2 DEF PlainTypeOK

\* The attempt of one connection.
LEMMA TypeAttempt ==
  ASSUME TypeOK, NEW c \in Conns, Attempt(c)
  PROVE  PlainTypeOK'
<1>1. LedgerTypeOK'
  BY DEF TypeOK, LedgerTypeOK, ledgerVars, Attempt, Begin, ListPods, ListFails, SendReport,
         TakeAnswer, WaitCancelled, WaitTimesOut, ApplyNext, ApplyDone, AdoptFloor, AdoptEnv,
         AdoptPut, AdoptDial, ReapPod
<1>2. att[c].obs \in [Spawns -> Gens]
  BY DEF TypeOK, Attempts
<1>3. CASE Begin(c) \/ ListFails(c) \/ WaitCancelled(c) \/ WaitTimesOut(c)
  <2>1. att' \in [Conns -> Attempts]
    <3>1. \E p \in Pcs : att' = [att EXCEPT ![c].pc = p]
      BY <1>3 DEF Begin, ListFails, WaitCancelled, WaitTimesOut, Goto, Pcs
    <3>2. QED
      BY <3>1, SetPc DEF TypeOK
  <2>2. PodTypeOK' /\ LinkTypeOK'
    BY <1>3 DEF Begin, ListFails, WaitCancelled, WaitTimesOut, TypeOK, PodTypeOK, LinkTypeOK,
                podVars, stateVars
  <2>3. QED
    BY <1>1, <2>1, <2>2 DEF PlainTypeOK
<1>4. CASE ListPods(c)
  <2>1. UntrackedPods \in [Spawns -> Gens]
    BY ReadoptAssumption DEF UntrackedPods, TypeOK, PodTypeOK, Gens
  <2>2. att' \in [Conns -> Attempts]
    <3>1. "send" \in Pcs
      BY DEF Pcs
    <3>2. att \in [Conns -> Attempts] /\ att' = [att EXCEPT ![c].pc = "send", ![c].obs = UntrackedPods]
      BY <1>4 DEF ListPods, TypeOK
    <3>3. QED
      BY <3>1, <3>2, <2>1 DEF Attempts
  <2>3. QED
    BY <1>1, <1>4, <2>2 DEF ListPods, TypeOK, PlainTypeOK, PodTypeOK, LinkTypeOK, podVars, stateVars
<1>5. CASE SendReport(c)
  <2>1. att' \in [Conns -> Attempts]
    <3>1. \E p \in Pcs : att' = [att EXCEPT ![c].pc = p]
      BY <1>5 DEF SendReport, Goto, Pcs
    <3>2. QED
      BY <3>1, SetPc DEF TypeOK
  <2>2. wire' \in Reports \cup {wire}
    BY <1>5, <1>2 DEF SendReport, Reports
  <2>3. QED
    BY <1>1, <1>5, <2>1, <2>2 DEF SendReport, TypeOK, PlainTypeOK, PodTypeOK, LinkTypeOK, podVars, Conns
<1>6. CASE TakeAnswer(c)
  <2>1. answer \in Answers
    BY <1>6 DEF TakeAnswer, TypeOK, LinkTypeOK
  <2>2. [s \in Spawns |-> IF Applicable(s, att[c].obs, answer) THEN answer.verdict[s] ELSE "none"]
           \in [Spawns -> Verdicts]
    BY <2>1 DEF Answers, Verdicts
  <2>3. att' \in [Conns -> Attempts]
    <3> DEFINE todo == [s \in Spawns |->
                  IF Applicable(s, att[c].obs, answer) THEN answer.verdict[s] ELSE "none"]
    <3>1. /\ att \in [Conns -> Attempts] /\ "apply" \in Pcs
          /\ att' = [att EXCEPT ![c].pc = "apply", ![c].todo = todo]
      BY <1>6 DEF TakeAnswer, TypeOK, Pcs
    <3> HIDE DEF todo
    <3>2. QED
      BY <2>2, <3>1 DEF Attempts, todo
  <2>4. QED
    BY <1>1, <1>6, <2>3 DEF TakeAnswer, TypeOK, PlainTypeOK, PodTypeOK, LinkTypeOK, podVars
<1>7. CASE ApplyNext(c)
  <2>1. att' \in [Conns -> Attempts]
    BY <1>7 DEF ApplyNext, TypeOK, Attempts, Pcs, Verdicts
  <2>2. QED
    BY <1>1, <1>7, <2>1 DEF ApplyNext, TypeOK, PlainTypeOK, PodTypeOK, LinkTypeOK, podVars, stateVars
<1>8. CASE ApplyDone(c)
  <2>1. att' \in [Conns -> Attempts]
    BY <1>8, EndedAttempt DEF ApplyDone, TypeOK
  <2>2. QED
    BY <1>1, <1>8, <2>1, ReadoptAssumption DEF ApplyDone, TypeOK, PlainTypeOK, PodTypeOK, LinkTypeOK, podVars
<1>9. ASSUME NEW s \in Spawns,
             \/ AdoptFloor(c, s) \/ AdoptEnv(c, s) \/ AdoptPut(c, s) \/ AdoptDial(c, s)
             \/ ReapPod(c, s)
      PROVE  PlainTypeOK'
  <2>1. att' \in [Conns -> Attempts]
    <3>1. \E p \in Pcs : att' = [att EXCEPT ![c].pc = p]
      BY <1>9 DEF AdoptFloor, AdoptEnv, AdoptPut, AdoptDial, ReapPod, Goto, Pcs
    <3>2. QED
      BY <3>1, SetPc DEF TypeOK
  <2>2. 0 \in Gens
    BY ReadoptAssumption DEF Gens
  <2>3. PodTypeOK'
    BY <1>9, <1>2, <2>2 DEF AdoptFloor, AdoptEnv, AdoptPut, AdoptDial, ReapPod, TypeOK, PodTypeOK
  <2>4. LinkTypeOK'
    BY <1>9 DEF AdoptFloor, AdoptEnv, AdoptPut, AdoptDial, ReapPod, TypeOK, LinkTypeOK, stateVars
  <2>5. QED
    BY <1>1, <2>1, <2>3, <2>4 DEF PlainTypeOK
<1>10. QED
  BY <1>3, <1>4, <1>5, <1>6, <1>7, <1>8, <1>9 DEF Attempt

\* Type correctness is inductive.
LEMMA TypeStep ==
  ASSUME TypeOK, [Next]_vars
  PROVE  TypeOK'
<1>1. CASE Next
  <2>1. PlainTypeOK'
    BY <1>1, TypeConnection, TypeLedger, TypeMessages, TypeAttempt DEF Next
  <2>2. QED
    BY <1>1, <2>1, TypeFlags DEF TypeOK, PlainTypeOK
<1>2. CASE UNCHANGED vars
  BY <1>2 DEF TypeOK, LedgerTypeOK, PodTypeOK, LinkTypeOK, FlagTypeOK, vars, ledgerVars, podVars,
              stateVars
<1>3. QED
  BY <1>1, <1>2

\* The initial state has the types.
LEMMA TypeInit ==
  ASSUME Init
  PROVE  TypeOK
<1>1. LedgerTypeOK /\ PodTypeOK /\ LinkTypeOK
  BY ReadoptAssumption DEF Init, LedgerTypeOK, PodTypeOK, LinkTypeOK, Gens, Nothing, NoMsg
<1>2. FlagTypeOK
  BY Zenon DEF Init, FlagTypeOK
<1>3. att \in [Conns -> Attempts]
  BY ReadoptAssumption DEF Init, Idle, Attempts, Pcs, Gens, Verdicts, Nothing
<1>4. QED
  BY <1>1, <1>2, <1>3 DEF TypeOK

\* Every variable of the handshake keeps its type (readoptState, the attempts
\* of reconcileManagedPods, the messages between node and control plane).
THEOREM ReadoptTypeCorrect == Spec => []TypeOK
  BY TypeInit, TypeStep, PTL DEF Spec

---------------------------------------------------------------------------
(* The inductive invariant.                                                  *)

\* Generations on the node and in reports were handed out by the ledger.
Known ==
  /\ \A s \in Spawns : pod[s] <= last[s] /\ starts[s] <= last[s]
  /\ \A c \in Conns, s \in Spawns : att[c].obs[s] <= last[s]
  /\ wire.type # "none" => \A s \in Spawns : wire.obs[s] <= last[s]

\* Attempts have no verdicts before they took the answer, and connections to
\* come have no attempt yet.
Early == {"idle", "begin", "list", "send", "wait"}
Quiet ==
  \A c \in Conns :
    /\ att[c].pc \in Early => \A s \in Spawns : att[c].todo[s] = "none"
    /\ c > conns => att[c].pc = "idle"

CustodyInv == TypeOK /\ Known /\ Quiet /\ VerdictsStayTrue

\* The handshake reads the ledger at most.
LEMMA AttemptLeavesLedger ==
  ASSUME NEW c \in Conns, Attempt(c)
  PROVE  UNCHANGED <<live, last, busy, starts>>
  BY DEF Attempt, Begin, ListPods, ListFails, SendReport, TakeAnswer, WaitCancelled, WaitTimesOut,
         ApplyNext, ApplyDone, AdoptFloor, AdoptEnv, AdoptPut, AdoptDial, ReapPod, ledgerVars

\* last never goes down, and only StartEpisode touches it.
LEMMA LastGrows ==
  ASSUME TypeOK, Next, NEW s \in Spawns
  PROVE  /\ last[s] \in Nat /\ last'[s] \in Nat /\ last[s] <= last'[s]
         /\ live'[s] \in {0, live[s]} \/ (last'[s] = last[s] + 1 /\ live'[s] = last'[s])
<1>1. last \in [Spawns -> Nat] /\ live \in [Spawns -> Nat]
  BY ReadoptAssumption DEF TypeOK, LedgerTypeOK, Gens
<1>2. CASE \E t \in Spawns : StartEpisode(t)
  BY <1>1, <1>2 DEF StartEpisode
<1>3. CASE \E t \in Spawns : DriverEnds(t)
  BY <1>1, <1>3 DEF DriverEnds
<1>4. CASE UNCHANGED <<live, last>>
  BY <1>1, <1>4
<1>5. QED
  BY <1>2, <1>3, <1>4, AttemptLeavesLedger DEF Next, Connect, Break, NodeRestart, Decide, Deliver,
     DriverBegins, NodeStart, NodeStop, ledgerVars

\* What is over stays over.
LEMMA OverStays ==
  ASSUME TypeOK, Next, NEW s \in Spawns, NEW g \in Gens, Over(s, g)
  PROVE  Over(s, g)'
  BY LastGrows, ReadoptAssumption DEF Over, Gens

---------------------------------------------------------------------------
(* Known.                                                                    *)

\* No step brings up a pod of a generation the ledger has not reached.
LEMMA KnownPods ==
  ASSUME TypeOK, Known, Next, NEW s \in Spawns
  PROVE  pod'[s] <= last'[s] /\ starts'[s] <= last'[s]
<1>1. /\ last[s] \in Nat /\ last'[s] \in Nat /\ last[s] <= last'[s]
      /\ pod \in [Spawns -> Nat] /\ starts \in [Spawns -> Nat] /\ last \in [Spawns -> Nat]
  BY LastGrows, ReadoptAssumption DEF TypeOK, LedgerTypeOK, PodTypeOK, Gens
<1>2. pod[s] <= last[s] /\ starts[s] <= last[s]
  BY DEF Known
<1>3. pod'[s] \in {pod[s], 0, starts[s]}
  <2>1. CASE \E t \in Spawns : NodeStart(t) \/ NodeStop(t)
    BY <1>1, <2>1 DEF NodeStart, NodeStop, podVars
  <2>2. CASE \E c \in Conns, t \in Spawns : ReapPod(c, t)
    BY <1>1, <2>2 DEF ReapPod
  <2>3. CASE UNCHANGED pod
    BY <2>3
  <2>4. QED
    BY <2>1, <2>2, <2>3 DEF Next, Attempt, Connect, Break, NodeRestart, Decide, Deliver, DriverBegins,
       DriverEnds, StartEpisode, Begin, ListPods, ListFails, SendReport, TakeAnswer, WaitCancelled,
       WaitTimesOut, ApplyNext, ApplyDone, AdoptFloor, AdoptEnv, AdoptPut, AdoptDial, podVars
<1>4. starts'[s] \in {starts[s], 0, last'[s]}
  <2>1. CASE \E t \in Spawns : StartEpisode(t)
    BY <1>1, <2>1 DEF StartEpisode
  <2>2. CASE \E t \in Spawns : NodeStart(t)
    BY <1>1, <2>2 DEF NodeStart
  <2>3. CASE Break \/ NodeRestart
    BY <2>3 DEF Break, NodeRestart, Nothing
  <2>4. CASE UNCHANGED starts
    BY <2>4
  <2>5. QED
    BY <2>1, <2>2, <2>3, <2>4, AttemptLeavesLedger DEF Next, Connect, Decide, Deliver, DriverBegins,
       DriverEnds, NodeStop, ledgerVars
<1>5. QED
  BY <1>1, <1>2, <1>3, <1>4

\* What an attempt observed changes when it lists the pods or is over.
LEMMA ObsStep ==
  ASSUME TypeOK, Next, NEW c \in Conns
  PROVE  att'[c].obs \in {att[c].obs, Nothing, UntrackedPods}
<1>1. att \in [Conns -> Attempts]
  BY DEF TypeOK
<1>2. CASE Connect
  <2>1. conns + 1 \in Conns
    BY <1>2, ReadoptAssumption DEF Connect, TypeOK, LinkTypeOK, Conns
  <2>2. QED
    BY <1>1, <1>2, <2>1 DEF Connect, Attempts
<1>3. CASE NodeRestart
  BY <1>1, <1>3 DEF NodeRestart, Idle
<1>4. ASSUME NEW d \in Conns, \/ ListPods(d) \/ TakeAnswer(d) \/ ApplyNext(d) \/ ApplyDone(d)
      PROVE  att'[c].obs \in {att[c].obs, Nothing, UntrackedPods}
  <2>1. CASE ListPods(d)
    BY <1>1, <2>1 DEF ListPods, Attempts
  <2>2. CASE TakeAnswer(d)
    BY <1>1, <2>2 DEF TakeAnswer, Attempts
  <2>3. CASE ApplyNext(d)
    BY <1>1, <2>3 DEF ApplyNext, Attempts
  <2>4. CASE ApplyDone(d)
    BY <1>1, <2>4 DEF ApplyDone, Idle
  <2>5. QED
    BY <1>4, <2>1, <2>2, <2>3, <2>4
<1>5. ASSUME NEW d \in Conns, NEW p \in Pcs, att' = [att EXCEPT ![d].pc = p]
      PROVE  att'[c].obs = att[c].obs
  BY <1>1, <1>5 DEF Attempts
<1>6. CASE UNCHANGED att
  BY <1>6
<1>7. ASSUME NEW d \in Conns,
             \/ Begin(d) \/ ListFails(d) \/ SendReport(d) \/ WaitCancelled(d) \/ WaitTimesOut(d)
             \/ \E s \in Spawns : \/ AdoptFloor(d, s) \/ AdoptEnv(d, s) \/ AdoptPut(d, s)
                                  \/ AdoptDial(d, s) \/ ReapPod(d, s)
      PROVE  \E p \in Pcs : att' = [att EXCEPT ![d].pc = p]
  BY <1>7 DEF Begin, ListFails, SendReport, WaitCancelled, WaitTimesOut, AdoptFloor, AdoptEnv,
              AdoptPut, AdoptDial, ReapPod, Goto, Pcs
<1>8. QED
  BY <1>2, <1>3, <1>4, <1>5, <1>6, <1>7 DEF Next, Attempt, Break, Decide, Deliver, DriverBegins,
     DriverEnds, StartEpisode, NodeStart, NodeStop

\* No step makes anybody name a generation the ledger has not reached.
LEMMA KnownStep ==
  ASSUME TypeOK, Known, Next
  PROVE  Known'
<1>1. \A s \in Spawns : /\ last[s] \in Nat /\ last'[s] \in Nat /\ last[s] <= last'[s]
                        /\ pod[s] \in Nat /\ pod[s] <= last[s]
  BY LastGrows, ReadoptAssumption DEF TypeOK, PodTypeOK, Gens, Known
<1>2. ASSUME NEW c \in Conns, NEW s \in Spawns
      PROVE  att'[c].obs[s] <= last'[s]
  <2>1. att[c].obs[s] <= last[s] /\ att[c].obs[s] \in Nat
    BY ReadoptAssumption DEF Known, TypeOK, Attempts, Gens
  <2>2. Nothing[s] <= last'[s] /\ UntrackedPods[s] <= last'[s]
    BY <1>1 DEF Nothing, UntrackedPods
  <2>3. QED
    BY <1>1, <2>1, <2>2, ObsStep
<1>3. ASSUME wire'.type # "none", NEW s \in Spawns
      PROVE  wire'.obs[s] <= last'[s]
  <2>1. CASE \E c \in Conns : SendReport(c)
    <3>1. PICK c \in Conns : SendReport(c)
      BY <2>1
    <3>2. wire'.obs = att[c].obs \/ wire' = wire
      BY <3>1 DEF SendReport
    <3>3. att[c].obs[s] <= last[s] /\ att[c].obs[s] \in Nat
      BY ReadoptAssumption DEF Known, TypeOK, Attempts, Gens
    <3>4. last' = last
      BY <3>1 DEF SendReport, ledgerVars
    <3>5. QED
      BY <1>3, <3>2, <3>3, <3>4 DEF Known
  <2>2. CASE Decide
    BY <2>2 DEF Decide, Known, ledgerVars
  <2>3. CASE wire' = NoMsg
    BY <1>3, <2>3 DEF NoMsg
  <2>4. CASE wire' = wire
    <3>1. wire.obs[s] <= last[s] /\ wire.obs[s] \in Nat
      BY <1>3, <2>4, ReadoptAssumption DEF Known, TypeOK, LinkTypeOK, Reports, Answers, NoMsg, Gens
    <3>2. QED
      BY <1>1, <2>4, <3>1
  <2>5. QED
    BY <2>1, <2>2, <2>3, <2>4 DEF Next, Attempt, Connect, Break, NodeRestart, Deliver, DriverBegins,
       DriverEnds, StartEpisode, NodeStart, NodeStop, Begin, ListPods, ListFails, TakeAnswer,
       WaitCancelled, WaitTimesOut, ApplyNext, ApplyDone, AdoptFloor, AdoptEnv, AdoptPut, AdoptDial,
       ReapPod
<1>4. QED
  BY <1>2, <1>3, KnownPods DEF Known

---------------------------------------------------------------------------
(* Quiet and the verdicts.                                                   *)

\* An attempt that only moves on does not go back before its answer.
LEMMA MovesOn ==
  ASSUME NEW d \in Conns,
         \/ Begin(d) \/ ListFails(d) \/ SendReport(d) \/ WaitCancelled(d) \/ WaitTimesOut(d)
         \/ \E s \in Spawns : \/ AdoptFloor(d, s) \/ AdoptEnv(d, s) \/ AdoptPut(d, s)
                              \/ AdoptDial(d, s) \/ ReapPod(d, s)
  PROVE  \E q \in Pcs : /\ att' = [att EXCEPT ![d].pc = q]
                        /\ q # "idle" /\ att[d].pc # "idle" /\ q # "reapVerdict"
                        /\ q \in Early => att[d].pc \in Early
                        /\ UNCHANGED <<conns, answer>>
  BY DEF Begin, ListFails, SendReport, WaitCancelled, WaitTimesOut, AdoptFloor, AdoptEnv, AdoptPut,
         AdoptDial, ReapPod, Goto, Pcs, Early, At, stateVars

\* An attempt has verdicts to apply only after it received its answer.
LEMMA QuietStep ==
  ASSUME TypeOK, Quiet, Next
  PROVE  Quiet'
<1> SUFFICES ASSUME NEW c \in Conns
             PROVE  /\ att'[c].pc \in Early => \A s \in Spawns : att'[c].todo[s] = "none"
                    /\ c > conns' => att'[c].pc = "idle"
  BY DEF Quiet
<1>1. att \in [Conns -> Attempts] /\ conns \in Nat /\ c \in Nat
  BY ReadoptAssumption DEF TypeOK, LinkTypeOK, Conns
<1>2. /\ att[c].pc \in Early => \A s \in Spawns : att[c].todo[s] = "none"
      /\ c > conns => att[c].pc = "idle"
  BY DEF Quiet
<1>3. CASE Connect
  <2>1. conns + 1 \in Conns /\ conns' = conns + 1
    BY <1>3, ReadoptAssumption DEF Connect, TypeOK, LinkTypeOK, Conns
  <2>2. CASE c = conns + 1
    <3>1. att'[c].todo = att[c].todo
      BY <1>1, <1>3, <2>1, <2>2 DEF Connect, Attempts
    <3>2. QED
      BY <1>1, <1>2, <2>1, <2>2, <3>1 DEF Early
  <2>3. CASE c # conns + 1
    <3>1. att'[c] = att[c]
      BY <1>1, <1>3, <2>1, <2>3 DEF Connect
    <3>2. QED
      BY <1>1, <1>2, <2>1, <2>3, <3>1
  <2>4. QED
    BY <2>2, <2>3
<1>4. CASE NodeRestart
  BY <1>1, <1>2, <1>4 DEF NodeRestart, Idle, Early
<1>5. ASSUME NEW d \in Conns, \/ ListPods(d) \/ TakeAnswer(d) \/ ApplyNext(d) \/ ApplyDone(d)
      PROVE  /\ att'[c].pc \in Early => \A s \in Spawns : att'[c].todo[s] = "none"
             /\ c > conns' => att'[c].pc = "idle"
  <2>1. att[d].pc # "idle" /\ conns' = conns
    BY <1>5 DEF ListPods, TakeAnswer, ApplyNext, ApplyDone
  <2>2. ~(d > conns)
    BY <2>1 DEF Quiet
  <2>3. CASE d # c
    <3>1. att'[c] = att[c]
      BY <1>1, <1>5, <2>3 DEF ListPods, TakeAnswer, ApplyNext, ApplyDone
    <3>2. QED
      BY <1>2, <2>1, <3>1
  <2>4. CASE d = c /\ ListPods(d)
    <3>1. att'[c].todo = att[c].todo /\ att[c].pc = "list"
      BY <1>1, <2>4 DEF ListPods, Attempts
    <3>2. QED
      BY <1>2, <2>1, <2>2, <2>4, <3>1 DEF Early
  <2>5. CASE d = c /\ (TakeAnswer(d) \/ ApplyNext(d) \/ ApplyDone(d))
    <3>1. att'[c].pc \in {"apply", "reapVerdict", "floor", "end"}
      <4>1. CASE TakeAnswer(c)
        BY <1>1, <4>1 DEF TakeAnswer, Attempts
      <4>2. CASE ApplyNext(c)
        BY <1>1, <4>2 DEF ApplyNext, Attempts
      <4>3. CASE ApplyDone(c)
        BY <1>1, <4>3 DEF ApplyDone, Idle
      <4>4. QED
        BY <2>5, <4>1, <4>2, <4>3
    <3>2. QED
      BY <2>1, <2>2, <2>5, <3>1 DEF Early
  <2>6. QED
    BY <1>5, <2>3, <2>4, <2>5
<1>6. ASSUME NEW d \in Conns, NEW q \in Pcs, att' = [att EXCEPT ![d].pc = q],
             q # "idle", att[d].pc # "idle", q \in Early => att[d].pc \in Early, conns' = conns
      PROVE  /\ att'[c].pc \in Early => \A s \in Spawns : att'[c].todo[s] = "none"
             /\ c > conns' => att'[c].pc = "idle"
  <2>1. ~(d > conns)
    BY <1>6 DEF Quiet
  <2>2. att'[c].todo = att[c].todo /\ att'[c].pc = IF d = c THEN q ELSE att[c].pc
    BY <1>1, <1>6 DEF Attempts
  <2>3. QED
    BY <1>2, <1>6, <2>1, <2>2
<1>7. CASE UNCHANGED <<att, conns>>
  BY <1>2, <1>7
<1>8. QED
  BY <1>3, <1>4, <1>5, <1>6, <1>7, MovesOn DEF Next, Attempt, Break, Decide, Deliver, DriverBegins,
     DriverEnds, StartEpisode, NodeStart, NodeStop

\* A reap verdict comes from readoptDecision, which looked at the ledger;
\* every other step passes it on or drops it.
LEMMA ReapsComeFromDecisions ==
  ASSUME TypeOK, Known, Quiet, Next, NEW s \in Spawns, NEW g \in Gens, ReapUnderWay(s, g)'
  PROVE  ReapUnderWay(s, g) \/ Over(s, g)
<1>1. att \in [Conns -> Attempts]
  BY DEF TypeOK
<1>2. CASE \E m \in {wire', answer'} : m.type = "decisions" /\ m.verdict[s] = "reap" /\ m.obs[s] = g
  <2>1. PICK m \in {wire', answer'} : m.type = "decisions" /\ m.verdict[s] = "reap" /\ m.obs[s] = g
    BY <1>2
  <2>2. CASE m \in {wire, answer}
    BY <2>1, <2>2 DEF ReapUnderWay
  <2>3. CASE Decide
    <3>1. wire \in Reports
      BY <2>3 DEF Decide, TypeOK, LinkTypeOK, Answers, NoMsg
    <3>2. CASE m = answer
      BY <2>1, <3>2 DEF ReapUnderWay
    <3>3. CASE m # answer
      <4>1. m.obs = wire.obs /\ m.verdict[s] \in Verdict(s, wire.obs[s]) /\ answer' = answer
        BY <2>1, <2>3, <3>3 DEF Decide, stateVars
      <4>2. wire.obs[s] # 0 /\ live[s] # wire.obs[s]
        BY <2>1, <4>1 DEF Verdict
      <4>3. wire.obs[s] <= last[s]
        BY <3>1 DEF Known, Reports
      <4>4. QED
        BY <2>1, <4>1, <4>2, <4>3 DEF Over
    <3>4. QED
      BY <3>2, <3>3
  <2>4. CASE \E c \in Conns : SendReport(c)
    BY <2>1, <2>2, <2>4 DEF SendReport
  <2>5. CASE m = NoMsg
    BY <2>1, <2>5 DEF NoMsg
  <2>6. QED
    BY <2>1, <2>2, <2>3, <2>4, <2>5 DEF Next, Attempt, Connect, Break, NodeRestart, Deliver,
       DriverBegins, DriverEnds, StartEpisode, NodeStart, NodeStop, Begin, ListPods, ListFails,
       TakeAnswer, WaitCancelled, WaitTimesOut, ApplyNext, ApplyDone, AdoptFloor, AdoptEnv, AdoptPut,
       AdoptDial, ReapPod, stateVars
<1>3. CASE \E c \in Conns : /\ att'[c].todo[s] = "reap" \/ At(c, s, "reapVerdict")'
                            /\ att'[c].obs[s] = g
  <2>1. PICK c \in Conns : /\ att'[c].todo[s] = "reap" \/ At(c, s, "reapVerdict")'
                           /\ att'[c].obs[s] = g
    BY <1>3
  <2>2. CASE att'[c] = att[c]
    BY <2>1, <2>2 DEF ReapUnderWay, At
  <2>3. CASE Connect
    <3>1. conns + 1 \in Conns
      BY <2>3, ReadoptAssumption DEF Connect, TypeOK, LinkTypeOK, Conns
    <3>2. CASE c = conns + 1
      BY <1>1, <2>1, <2>3, <3>1, <3>2 DEF Connect, Attempts, At, ReapUnderWay
    <3>3. CASE c # conns + 1
      BY <1>1, <2>2, <2>3, <3>1, <3>3 DEF Connect
    <3>4. QED
      BY <3>2, <3>3
  <2>4. CASE NodeRestart
    BY <1>1, <2>1, <2>2, <2>4 DEF NodeRestart, Idle, At
  <2>5. CASE ListPods(c)
    <3>1. att[c].pc = "list" /\ att'[c].pc = "send" /\ att'[c].todo = att[c].todo
      BY <1>1, <2>5 DEF ListPods, Attempts
    <3>2. QED
      BY <2>1, <3>1 DEF Quiet, Early, At
  <2>6. CASE TakeAnswer(c)
    <3>1. /\ att'[c].pc = "apply" /\ att'[c].obs = att[c].obs
          /\ att'[c].todo[s] = IF Applicable(s, att[c].obs, answer) THEN answer.verdict[s] ELSE "none"
      BY <1>1, <2>6 DEF TakeAnswer, Attempts
    <3>2. answer \in Answers
      BY <2>6 DEF TakeAnswer, TypeOK, LinkTypeOK
    <3>3. answer.type = "decisions" /\ answer.verdict[s] = "reap" /\ answer.obs[s] = g
      BY <2>1, <3>1, <3>2 DEF At, Applicable, Answers
    <3>4. QED
      BY <3>3 DEF ReapUnderWay
  <2>7. CASE ApplyNext(c)
    <3>1. PICK t \in Spawns :
             /\ att[c].todo[t] # "none"
             /\ att' = [att EXCEPT ![c].cur = {t}, ![c].todo[t] = "none",
                       ![c].pc = IF att[c].todo[t] = "reap" THEN "reapVerdict" ELSE "floor"]
      BY <2>7 DEF ApplyNext
    <3>2. /\ att'[c].obs = att[c].obs /\ att'[c].cur = {t}
          /\ att'[c].todo = [att[c].todo EXCEPT ![t] = "none"]
          /\ att'[c].pc = IF att[c].todo[t] = "reap" THEN "reapVerdict" ELSE "floor"
      BY <1>1, <3>1 DEF Attempts
    <3>3. att[c].todo \in [Spawns -> Verdicts]
      BY <1>1 DEF Attempts
    <3>4. att[c].todo[s] = "reap"
      BY <2>1, <3>2, <3>3 DEF At
    <3>5. QED
      BY <2>1, <3>2, <3>4 DEF ReapUnderWay
  <2>8. CASE ApplyDone(c)
    BY <1>1, <2>1, <2>8 DEF ApplyDone, Idle, At
  <2>9. ASSUME NEW q \in Pcs, att' = [att EXCEPT ![c].pc = q], q # "reapVerdict"
        PROVE  ReapUnderWay(s, g)
    <3>1. att'[c].todo = att[c].todo /\ att'[c].obs = att[c].obs /\ att'[c].pc = q
      BY <1>1, <2>9 DEF Attempts
    <3>2. QED
      BY <2>1, <2>9, <3>1 DEF ReapUnderWay, At
  <2>10. ASSUME NEW d \in Conns, d # c, Attempt(d)
         PROVE  att'[c] = att[c]
    BY <1>1, <2>10 DEF Attempt, Begin, ListPods, ListFails, SendReport, TakeAnswer, WaitCancelled,
       WaitTimesOut, ApplyNext, ApplyDone, AdoptFloor, AdoptEnv, AdoptPut, AdoptDial, ReapPod, Goto
  <2>11. CASE Attempt(c)
    BY <2>5, <2>6, <2>7, <2>8, <2>9, <2>11, MovesOn DEF Attempt
  <2>12. CASE UNCHANGED att
    BY <2>2, <2>12
  <2>13. QED
    BY <2>2, <2>3, <2>4, <2>10, <2>11, <2>12 DEF Next, Break, Decide, Deliver, DriverBegins,
       DriverEnds, StartEpisode, NodeStart, NodeStop
<1>4. QED
  BY <1>2, <1>3 DEF ReapUnderWay

\* The initial state satisfies the invariant behind the refinement.
LEMMA CustodyInvInit ==
  ASSUME Init
  PROVE  CustodyInv
<1>1. Known
  BY TypeInit, ReadoptAssumption DEF Init, Known, Idle, Nothing, NoMsg, TypeOK, LedgerTypeOK, Gens
<1>2. Quiet
  BY DEF Init, Quiet, Idle, Early
<1>3. VerdictsStayTrue
  BY DEF Init, VerdictsStayTrue, ReapUnderWay, At, Idle, NoMsg
<1>4. QED
  BY <1>1, <1>2, <1>3, TypeInit DEF CustodyInv

\* Every step keeps the invariant behind the refinement.
LEMMA CustodyInvStep ==
  ASSUME CustodyInv, [Next]_vars
  PROVE  CustodyInv'
<1>1. CASE Next
  <2>1. TypeOK' /\ Known' /\ Quiet'
    BY <1>1, TypeStep, KnownStep, QuietStep DEF CustodyInv
  <2>2. VerdictsStayTrue'
    BY <1>1, ReapsComeFromDecisions, OverStays DEF CustodyInv, VerdictsStayTrue
  <2>3. QED
    BY <2>1, <2>2 DEF CustodyInv
<1>2. CASE UNCHANGED vars
  <2>1. TypeOK'
    BY <1>2, TypeStep DEF CustodyInv
  <2>2. Known' /\ Quiet' /\ VerdictsStayTrue'
    BY <1>2 DEF CustodyInv, Known, Quiet, VerdictsStayTrue, ReapUnderWay, Over, At, vars, ledgerVars,
                podVars, stateVars
  <2>3. QED
    BY <2>1, <2>2 DEF CustodyInv
<1>3. QED
  BY <1>1, <1>2

\* A reap verdict is still true when it is applied, for any number of pods,
\* connections and episodes (cp/readopt.go readoptDecision, node/readopt.go
\* applyReadopt).
THEOREM VerdictsTrue == Spec => []VerdictsStayTrue
<1>1. CustodyInv => VerdictsStayTrue
  BY DEF CustodyInv
<1>2. QED
  BY <1>1, CustodyInvInit, CustodyInvStep, PTL DEF Spec

---------------------------------------------------------------------------
(* Re-adoption implements PodCustody.                                        *)

\* An initial state of the handshake is one of PodCustody.
LEMMA CustodyInit ==
  ASSUME Init
  PROVE  Custody!Init
<1>1. Rebuilding = {}
  BY DEF Init, Rebuilding, At, Idle
<1>2. QED
  BY <1>1 DEF Init, Custody!Init, Gens

\* A pod goes by the reap of an attempt or by a stop, and comes by a start.
LEMMA CustodyStep ==
  ASSUME CustodyInv, [Next]_vars
  PROVE  [Custody!Next]_Custody!vars
<1>1. /\ TypeOK /\ Known /\ VerdictsStayTrue
      /\ pod \in [Spawns -> Gens] /\ live \in [Spawns -> Gens] /\ last \in [Spawns -> 1..MaxGen]
      /\ busy \in [Spawns -> BOOLEAN]
  BY DEF CustodyInv, TypeOK, LedgerTypeOK, PodTypeOK, FlagTypeOK
<1>2. CASE UNCHANGED <<live, last, busy, pod>>
  BY <1>2 DEF Custody!Next, Custody!Handshake
<1>3. ASSUME NEW s \in Spawns, DriverBegins(s) \/ DriverEnds(s) \/ StartEpisode(s)
      PROVE  Custody!Ledger
  <2>1. UNCHANGED <<pod, linked, Rebuilding>>
    BY <1>3 DEF DriverBegins, DriverEnds, StartEpisode, podVars, Rebuilding, At
  <2>2. CASE DriverBegins(s)
    BY <1>1, <2>1, <2>2 DEF DriverBegins, Custody!Ledger
  <2>3. CASE DriverEnds(s)
    BY <1>1, <2>1, <2>3 DEF DriverEnds, Custody!Ledger
  <2>4. CASE StartEpisode(s)
    <3>1. ~busy[s] = TRUE
      BY <2>4 DEF StartEpisode
    <3>2. busy' = [busy EXCEPT ![s] = ~@]
      BY <2>4, <3>1, Zenon DEF StartEpisode
    <3>3. /\ last' = [last EXCEPT ![s] = @ + 1] /\ last'[s] > last[s]
          /\ live' = [live EXCEPT ![s] = last'[s]]
      BY <1>1, <2>4, ReadoptAssumption DEF StartEpisode
    <3>4. QED
      BY <2>1, <3>2, <3>3, Zenon DEF Custody!Ledger
  <2>5. QED
    BY <1>3, <2>2, <2>3, <2>4
<1>4. ASSUME NEW c \in Conns, NEW s \in Spawns, ReapPod(c, s), pod' # pod
      PROVE  Custody!Destroy(s)
  <2>1. /\ pod[s] = att[c].obs[s] /\ pod' = [pod EXCEPT ![s] = 0]
        /\ UNCHANGED <<live, last, busy>>
    BY <1>4 DEF ReapPod, ledgerVars
  <2>2. pod[s] # 0
    BY <1>1, <1>4, <2>1
  <2>3. live[s] # pod[s] \/ s \in Rebuilding
    <3>1. CASE At(c, s, "reapVerdict")
      <4>1. ReapUnderWay(s, pod[s]) /\ pod[s] \in Gens
        BY <1>1, <2>1, <3>1 DEF ReapUnderWay
      <4>2. QED
        BY <1>1, <4>1 DEF VerdictsStayTrue, Over
    <3>2. CASE At(c, s, "reapFailed")
      BY <2>1, <3>2 DEF Rebuilding
    <3>3. QED
      BY <1>4, <3>1, <3>2 DEF ReapPod
  <2>4. QED
    BY <2>1, <2>2, <2>3 DEF Custody!Destroy
<1>5. ASSUME NEW s \in Spawns, NodeStop(s), pod' # pod
      PROVE  Custody!Destroy(s)
  <2>1. /\ pod[s] = tracked[s] /\ tracked[s] # 0 /\ pod' = [pod EXCEPT ![s] = 0]
        /\ busy[s] \/ live[s] # tracked[s]
        /\ UNCHANGED <<live, last, busy>>
    BY <1>5 DEF NodeStop, ledgerVars
  <2>2. QED
    BY <2>1 DEF Custody!Destroy
<1>6. ASSUME NEW s \in Spawns, NodeStart(s), pod' # pod
      PROVE  Custody!Start(s)
  <2>1. /\ linked /\ pod[s] < starts[s] /\ pod' = [pod EXCEPT ![s] = starts[s]]
        /\ UNCHANGED <<live, last, busy>>
    BY <1>6 DEF NodeStart, podVars
  <2>2. starts[s] \in (pod[s] + 1)..last[s]
    BY <1>1, <2>1, ReadoptAssumption DEF Known, TypeOK, LedgerTypeOK, Gens
  <2>3. QED
    BY <2>1, <2>2 DEF Custody!Start
<1>7. CASE UNCHANGED vars
  BY <1>2, <1>7 DEF vars, ledgerVars, podVars
<1>8. ASSUME NEW c \in Conns, Attempt(c)
      PROVE  Custody!Next
  <2>1. UNCHANGED <<live, last, busy, pod>> \/ \E s \in Spawns : ReapPod(c, s) /\ pod' # pod
    BY <1>8 DEF Attempt, Begin, ListPods, ListFails, SendReport, TakeAnswer, WaitCancelled,
       WaitTimesOut, ApplyNext, ApplyDone, AdoptFloor, AdoptEnv, AdoptPut, AdoptDial, ReapPod,
       ledgerVars, podVars
  <2>2. QED
    BY <1>2, <1>4, <2>1 DEF Custody!Next, Custody!Handshake
<1>9. ASSUME NEW s \in Spawns, NodeStart(s) \/ NodeStop(s)
      PROVE  Custody!Next
  <2>1. UNCHANGED <<live, last, busy>>
    BY <1>9 DEF NodeStart, NodeStop, ledgerVars
  <2>2. QED
    BY <1>5, <1>6, <1>9, <2>1 DEF Custody!Next, Custody!Handshake
<1>10. CASE Connect \/ Break \/ NodeRestart \/ Decide \/ Deliver
  BY <1>2, <1>10 DEF Connect, Break, NodeRestart, Decide, Deliver, ledgerVars, podVars
<1>11. QED
  BY <1>3, <1>7, <1>8, <1>9, <1>10 DEF Next, Custody!Next

\* The handshake implements the custody of the pods: the pod of a live episode
\* that no driver owns only goes when its own rebuild failed, whichever
\* connection's attempt applies the verdict and however late (readopt.go
\* applyReadopt, cp/readopt.go readoptDecision).
THEOREM ReadoptKeepsCustody == Spec => CustodyKept
  BY CustodyInvInit, CustodyInvStep, CustodyInit, CustodyStep, PTL DEF Spec, CustodyKept, Custody!Spec

=============================================================================
