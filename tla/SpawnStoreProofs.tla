--------------------------- MODULE SpawnStoreProofs ---------------------------
(***************************************************************************)
(* What SpawnStore promises, for any number of nodes, drivers and          *)
(* generations.                                                            *)
(***************************************************************************)
EXTENDS SpawnStore, SequenceTheorems, TLAPS

\* Ending the live rows keeps the number of rows and leaves none live.
LEMMA EndAllProperties ==
  ASSUME NEW cs \in Seq(Container), NEW p \in EndedPhases
  PROVE  /\ EndAll(cs, p) \in Seq(Container)
         /\ Len(EndAll(cs, p)) = Len(cs)
         /\ DOMAIN EndAll(cs, p) = 1 .. Len(cs)
         /\ \A g \in 1 .. Len(cs) : ~IsLive(EndAll(cs, p)[g])
<1> DEFINE es == EndAll(cs, p)
<1>1. cs \in [1 .. Len(cs) -> Container] /\ Len(cs) \in Nat
  BY LenProperties
<1>2. \A g \in 1 .. Len(cs) : cs[g] \in Container /\ [cs[g] EXCEPT !.phase = p] \in Container
  BY <1>1 DEF Container, Phases, EndedPhases
<1>3. es \in [1 .. Len(cs) -> Container]
  BY <1>1, <1>2 DEF EndAll
<1>4. es \in Seq(Container) /\ Len(es) = Len(cs)
  BY <1>1, <1>3, IsASeq, LenProperties
<1>5. \A g \in 1 .. Len(cs) : ~IsLive(es[g])
  BY <1>1, <1>2 DEF EndAll, IsLive, EndedPhases, Container
<1>6. QED
  BY <1>1, <1>3, <1>4, <1>5

\* The inductive invariant: types, the fence of the sequence number and the
\* fence of the generation.
StoreInv == StoreTypeOK /\ SeqFencesStatus /\ LiveIsLatest

\* A freshly created row.
LEMMA InitStore == StoreInit => StoreInv
<1> SUFFICES ASSUME StoreInit PROVE StoreInv
  OBVIOUS
<1> DEFINE first == [node |-> NoNode, phase |-> "starting"]
<1>1. first \in Container
  BY DEF Container, Phases
<1>2. containers = <<first>> /\ containers \in Seq(Container) /\ Len(containers) = 1
  BY <1>1 DEF StoreInit
<1>3. StoreTypeOK
  <2>1. Len(containers) \in 1 .. MaxGen
    BY <1>2, MaxGenAssumption
  <2>2. seen \in [Drivers -> Statuses \cup {Stale}]
    BY DEF StoreInit, Stale
  <2>3. status \in Statuses /\ expired \in BOOLEAN /\ claim \in Drivers \cup {NoLease, Orphan}
    BY DEF StoreInit, Statuses
  <2>4. QED
    BY <1>2, <2>1, <2>2, <2>3 DEF StoreTypeOK
<1>4. LiveIsLatest
  BY <1>2 DEF LiveIsLatest, LiveGens, MaxGeneration
<1>5. QED
  BY <1>3, <1>4 DEF StoreInv, StoreInit, SeqFencesStatus, Stale

\* A statement that leaves the rows alone and either bumps the sequence number
\* or leaves the status alone keeps the invariant.
LEMMA BumpKeepsInv ==
  ASSUME StoreInv, status' \in Statuses, BumpSeq, UNCHANGED containers,
         claim' \in Drivers \cup {NoLease, Orphan}, expired' \in BOOLEAN
  PROVE  StoreInv'
<1>1. SeqFencesStatus'
  BY DEF SeqFencesStatus, BumpSeq, Stale
<1>2. LiveIsLatest'
  BY DEF StoreInv, LiveIsLatest, LiveGens, MaxGeneration
<1>3. StoreTypeOK'
  BY DEF StoreInv, StoreTypeOK, BumpSeq
<1>4. QED
  BY <1>1, <1>2, <1>3 DEF StoreInv

\* Get, Acquire, Heartbeat, Release and TransitionClaimed.
LEMMA ClaimStatementKeepsInv ==
  ASSUME StoreInv, NEW d \in Drivers, ClaimStatement(d)
  PROVE  StoreInv'
<1> USE DEF StoreInv
<1>1. CASE Get(d)
  <2>1. StoreTypeOK' /\ LiveIsLatest'
    BY <1>1 DEF Get, StoreTypeOK, LiveIsLatest, LiveGens, MaxGeneration
  <2>2. SeqFencesStatus'
    BY <1>1 DEF Get, StoreTypeOK, SeqFencesStatus
  <2>3. QED
    BY <2>1, <2>2
<1>2. CASE Acquire(d)
  BY <1>2, BumpKeepsInv DEF Acquire, StoreTypeOK
<1>3. CASE HeartbeatClaim(d)
  BY <1>3 DEF HeartbeatClaim, StoreTypeOK, SeqFencesStatus, LiveIsLatest, LiveGens, MaxGeneration
<1>4. CASE Release(d)
  <2>1. CASE claim = d
    BY <1>4, <2>1, BumpKeepsInv DEF Release, StoreTypeOK
  <2>2. CASE claim # d
    BY <1>4, <2>2 DEF Release, storeVars, StoreTypeOK, SeqFencesStatus, LiveIsLatest, LiveGens, MaxGeneration
  <2>3. QED
    BY <2>1, <2>2
<1>5. ASSUME NEW g \in LiveGens, NEW to \in ClaimedTargets, TransitionClaimed(d, g, to)
      PROVE  StoreInv'
  BY <1>5, BumpKeepsInv DEF TransitionClaimed, ClaimedTargets, StoreTypeOK, Statuses
<1>6. QED
  BY <1>1, <1>2, <1>3, <1>4, <1>5 DEF ClaimStatement

\* A status statement with any guard.
LEMMA GuardStatusKeepsInv ==
  ASSUME StoreInv, NEW from, NEW to \in Statuses, GuardStatus(from, to)
  PROVE  StoreInv'
  BY BumpKeepsInv DEF GuardStatus, StoreInv, StoreTypeOK

\* The status statements of the repository.
LEMMA StatusStatementKeepsInv ==
  ASSUME StoreInv, StatusStatement
  PROVE  StoreInv'
<1>1. CASE UNCHANGED storeVars
  BY <1>1 DEF storeVars, StoreInv, StoreTypeOK, SeqFencesStatus, LiveIsLatest, LiveGens, MaxGeneration
<1>2. CASE MarkBootUnreachable
  BY <1>2, BumpKeepsInv DEF MarkBootUnreachable, StoreInv, StoreTypeOK, Statuses
<1>3. CASE \E from, to : to \in Statuses /\ GuardStatus(from, to)
  BY <1>3, GuardStatusKeepsInv
<1>4. QED
  BY <1>1, <1>2, <1>3
     DEF StatusStatement, SetActiveStatus, SetSuspendedStatus, RevertSuspendedStatus, SetErrorStatus,
         MarkDeletedStatus, ReconcileSuspendedAfterError, MarkUnreachable, MarkReachableStatus, Statuses

\* The statements that write container rows.
LEMMA ContainerStatementKeepsInv ==
  ASSUME StoreInv, ContainerStatement
  PROVE  StoreInv'
<1> USE DEF StoreInv
<1>0. /\ containers \in Seq(Container) /\ Len(containers) \in 1 .. MaxGen
      /\ DOMAIN containers = 1 .. Len(containers)
  BY LenProperties DEF StoreTypeOK
<1>1. ASSUME NEW from \in {ResumeFrom, RecreateFrom}, ClaimStarting(from)
      PROVE  StoreInv'
  <2> DEFINE es == EndAll(containers, "lost")
             new == [node |-> NoNode, phase |-> "starting"]
  <2>1. /\ es \in Seq(Container) /\ Len(es) = Len(containers) /\ new \in Container
        /\ \A g \in 1 .. Len(es) : ~IsLive(es[g])
    BY <1>0, EndAllProperties DEF EndedPhases, Container, Phases
  <2>2. /\ Append(es, new) \in Seq(Container) /\ Len(Append(es, new)) = Len(es) + 1
        /\ DOMAIN Append(es, new) = 1 .. Len(es) + 1
        /\ \A g \in 1 .. Len(es) : Append(es, new)[g] = es[g]
    <3> HIDE DEF es, new
    <3>1. QED
      BY <2>1, AppendProperties, LenProperties
  <2>3. containers' = Append(es, new)
    BY <1>1 DEF ClaimStarting
  <2> HIDE DEF es, new
  <2>4. StoreTypeOK'
    <3>1. Len(containers') \in 1 .. MaxGen
      BY <1>0, <1>1, <2>1, <2>2, <2>3, MaxGenAssumption DEF ClaimStarting, MaxGeneration
    <3>2. seen' \in [Drivers -> Statuses \cup {Stale}]
      BY <1>1 DEF ClaimStarting, BumpSeq
    <3>3. status' \in Statuses /\ expired' \in BOOLEAN /\ claim' \in Drivers \cup {NoLease, Orphan}
      BY <1>1 DEF ClaimStarting, StoreTypeOK, Statuses
    <3>4. QED
      BY <2>2, <2>3, <3>1, <3>2, <3>3 DEF StoreTypeOK
  <2>5. LiveIsLatest'
    BY <1>0, <2>1, <2>2, <2>3 DEF LiveIsLatest, LiveGens, MaxGeneration
  <2>6. SeqFencesStatus'
    BY <1>1 DEF ClaimStarting, SeqFencesStatus, BumpSeq, Stale
  <2>7. QED
    BY <2>4, <2>5, <2>6
<1>2. ASSUME NEW p \in EndedPhases, EndLiveContainer(p)
      PROVE  StoreInv'
  <2>1. /\ containers' \in Seq(Container) /\ Len(containers') = Len(containers)
        /\ DOMAIN containers' = 1 .. Len(containers)
        /\ \A g \in 1 .. Len(containers) : ~IsLive(containers'[g])
    BY <1>0, <1>2, EndAllProperties DEF EndLiveContainer
  <2>2. LiveIsLatest'
    BY <2>1 DEF LiveIsLatest, LiveGens
  <2>3. StoreTypeOK' /\ SeqFencesStatus'
    BY <1>0, <1>2, <2>1 DEF EndLiveContainer, StoreTypeOK, SeqFencesStatus
  <2>4. QED
    BY <2>2, <2>3
<1>3. ASSUME NEW g \in LiveGens, NEW n \in Nodes \cup {NoNode},
             SetActiveContainer(g, n) \/ AdoptContainer(g, n)
      PROVE  StoreInv'
  <2>1. g \in 1 .. Len(containers) /\ containers[g] \in Container /\ g = Len(containers)
    BY <1>0 DEF LiveGens, LiveIsLatest, MaxGeneration
  <2>2. PICK c \in Container : containers' = [containers EXCEPT ![g] = c]
    <3>1. [node |-> n, phase |-> "active"] \in Container
      BY DEF Container, Phases
    <3>2. [containers[g] EXCEPT !.node = n] \in Container
      BY <2>1 DEF Container
    <3>3. QED
      BY <1>3, <3>1, <3>2 DEF SetActiveContainer, AdoptContainer
  <2>3. /\ containers' \in Seq(Container) /\ Len(containers') = Len(containers)
        /\ DOMAIN containers' = 1 .. Len(containers)
        /\ \A h \in 1 .. Len(containers) : h # g => containers'[h] = containers[h]
    <3>1. containers' \in Seq(Container) /\ Len(containers') = Len(containers)
      BY <1>0, <2>1, <2>2, ExceptSeq
    <3>2. DOMAIN containers' = 1 .. Len(containers)
      BY <1>0, <2>2
    <3>3. \A h \in 1 .. Len(containers) : h # g => containers'[h] = containers[h]
      BY <1>0, <2>2
    <3>4. QED
      BY <3>1, <3>2, <3>3
  <2>4. LiveIsLatest'
    BY <1>0, <2>1, <2>3 DEF LiveIsLatest, LiveGens, MaxGeneration
  <2>5. StoreTypeOK' /\ SeqFencesStatus'
    BY <1>0, <1>3, <2>3 DEF SetActiveContainer, AdoptContainer, StoreTypeOK, SeqFencesStatus
  <2>6. QED
    BY <2>4, <2>5
<1>4. QED
  BY <1>1, <1>2, <1>3 DEF ContainerStatement

\* Any statement.
LEMMA StoreStepKeepsInv == StoreInv /\ [StoreNext]_storeVars => StoreInv'
<1> SUFFICES ASSUME StoreInv, [StoreNext]_storeVars PROVE StoreInv'
  OBVIOUS
<1>1. CASE UNCHANGED storeVars
  BY <1>1 DEF storeVars, StoreInv, StoreTypeOK, SeqFencesStatus, LiveIsLatest, LiveGens, MaxGeneration
<1>2. CASE ExpireLease
  BY <1>2 DEF ExpireLease, StoreInv, StoreTypeOK, SeqFencesStatus, LiveIsLatest, LiveGens, MaxGeneration
<1>3. QED
  BY <1>1, <1>2, ClaimStatementKeepsInv, StatusStatementKeepsInv, ContainerStatementKeepsInv DEF StoreNext

\* Every reachable row satisfies the inductive invariant, whatever statements
\* the clients issue.
THEOREM StoreInvariant == StoreSpec => []StoreInv
<1>1. StoreInv /\ [StoreNext]_storeVars => StoreInv'
  BY StoreStepKeepsInv
<1>2. QED
  BY <1>1, InitStore, PTL DEF StoreSpec

\* status_seq is a sound optimistic lock for any clients.
THEOREM StoreSeqFences == StoreSpec => []SeqFencesStatus
<1>1. StoreInv => SeqFencesStatus
  BY DEF StoreInv
<1>2. QED
  BY <1>1, StoreInvariant, PTL

\* At most the newest generation is live, for any clients.
THEOREM StoreLiveIsLatest == StoreSpec => []LiveIsLatest
<1>1. StoreInv => LiveIsLatest
  BY DEF StoreInv
<1>2. QED
  BY <1>1, StoreInvariant, PTL

\* No statement moves a deleted row: the guarded ones exclude "deleted" from
\* their status lists, TransitionClaimed by its sequence number alone.
LEMMA DeletedStep ==
  StoreInv /\ [StoreNext]_storeVars => [status = "deleted" => status' = "deleted"]_status
<1> SUFFICES ASSUME StoreInv, [StoreNext]_storeVars, status = "deleted" PROVE status' = "deleted"
  OBVIOUS
<1>1. ASSUME NEW d \in Drivers, ClaimStatement(d) PROVE status' = "deleted"
  <2>1. seen[d] = Stale
    BY DEF StoreInv, SeqFencesStatus
  <2>2. QED
    BY <1>1, <2>1
       DEF ClaimStatement, Get, Acquire, HeartbeatClaim, Release, storeVars, TransitionClaimed, TransitionAllowed
<1>2. CASE StatusStatement
  BY <1>2
     DEF StatusStatement, SetActiveStatus, SetSuspendedStatus, RevertSuspendedStatus, SetErrorStatus,
         MarkDeletedStatus, ReconcileSuspendedAfterError, MarkUnreachable, MarkReachableStatus,
         MarkBootUnreachable, GuardStatus, SetActiveFrom, SetErrorFrom, MarkDeletedFrom, storeVars
<1>3. CASE ContainerStatement
  BY <1>3 DEF ContainerStatement, ClaimStarting, ResumeFrom, RecreateFrom, EndLiveContainer,
              SetActiveContainer, AdoptContainer
<1>4. QED
  BY <1>1, <1>2, <1>3 DEF StoreNext, ExpireLease, storeVars

\* Deletion is terminal for any clients of the store.
THEOREM StoreDeletedIsFinal == StoreSpec => DeletedIsFinal
  BY DeletedStep, StoreInvariant, PTL DEF StoreSpec, DeletedIsFinal

=============================================================================
