--------------------------- MODULE GitHubLinkProofs ---------------------------
(***************************************************************************)
(* Proofs about the GitHub link for any number of mints, flows, identities *)
(* and tuples.  ChainKept and RevokedIsInert need no assumption on when    *)
(* the owner relinks; the other three properties assume QuietRelink.       *)
(***************************************************************************)
EXTENDS GitHubLink, TLAPS

-----------------------------------------------------------------------------
(* The inductive invariant behind ChainKept.                               *)

Issued == 1..issued

\* Only the holder of the lock is past its read.
LockInv == \A m \in Mints : mint[m].pc # "idle" => lock = m

\* What GitHub spent it had issued, and the row refers to issued tuples.
BookInv ==
  /\ spent \subseteq Issued
  /\ row.tuple \in 0..issued
  /\ row.staged \in 0..issued
  /\ row.staged \notin spent

\* A mint's tuples: nothing is staged while it rotates, the successor it
\* holds is unspent, and what it commits is what is staged.
MintInv ==
  \A m \in Mints :
    /\ mint[m].pc # "idle" => mint[m].tuple \in 0..issued
                              /\ mint[m].next \in 0..issued
    /\ mint[m].pc \in {"refresh", "mark", "stage"} => row.staged = 0
    /\ mint[m].pc = "stage" => mint[m].next \in Issued \ spent
    /\ mint[m].pc = "commit" => mint[m].next = row.staged /\ row.staged # 0

\* The tuple of a flow that is ready is in nobody else's hands.
FlowInv ==
  \A f \in Flows : flow[f].status = "ready" =>
    /\ flow[f].tuple \in Issued \ spent
    /\ flow[f].tuple # row.tuple
    /\ flow[f].tuple # row.staged
    /\ \A m \in Mints : mint[m].pc # "idle" =>
         flow[f].tuple # mint[m].tuple /\ flow[f].tuple # mint[m].next
    /\ \A g \in Flows \ {f} :
         flow[g].status = "ready" => flow[g].tuple # flow[f].tuple

ChainInv == LockInv /\ BookInv /\ MintInv /\ FlowInv /\ ChainKept

LinkInv == TypeOK /\ ChainInv

-----------------------------------------------------------------------------
\* Every action leaves the types of the variables in place.
LEMMA TypeStep == TypeOK /\ FlowInv /\ [Next]_vars => TypeOK'
<1> SUFFICES ASSUME TypeOK, FlowInv, [Next]_vars PROVE TypeOK'
  OBVIOUS
<1> USE BoundAssumption
<1>a. Idle \in MintType
  BY DEF Idle, MintType, MintSteps
<1>1. ASSUME NEW m \in Mints, NEW ref \in 0..row.version, MintRead(m, ref)
      PROVE  TypeOK'
  BY <1>1 DEF MintRead, ReadRow, TypeOK, RowType, MintType, MintSteps, github,
     link
<1>2. ASSUME NEW m \in Mints, MintRefresh(m) \/ MintRefreshLost(m)
      PROVE  TypeOK'
  <2>1. owner[mint[m].tuple] \in Users \cup {NoUser}
    BY <1>2 DEF MintRefresh, MintRefreshLost, Exchange, Usable, Tuples,
       TypeOK, MintType
  <2>2. issued + 1 \in Tuples /\ issued' = issued + 1
    BY <1>2 DEF MintRefresh, MintRefreshLost, Exchange, Issue, Tuples, TypeOK
  <2>3. mint[m].tuple \in Tuples
    BY <1>2 DEF MintRefresh, MintRefreshLost, Exchange, Usable, Tuples,
       TypeOK, MintType
  <2>4. owner' \in [Tuples -> Users \cup {NoUser}]
    BY <1>2, <2>1 DEF MintRefresh, MintRefreshLost, Exchange, Issue, TypeOK
  <2>5. mint' \in [Mints -> MintType]
    <3>1. CASE MintRefresh(m)
      <4>1. [mint[m] EXCEPT !.pc = "stage", !.next = issued + 1] \in MintType
        <5>1. mint[m] \in MintType /\ issued + 1 \in 0..MaxTuples
          BY <2>2 DEF TypeOK, Tuples
        <5> QED
          BY <5>1 DEF MintType, MintSteps
      <4>2. mint' = [mint EXCEPT ![m] =
                       [mint[m] EXCEPT !.pc = "stage", !.next = issued + 1]]
        BY <3>1 DEF MintRefresh, TypeOK, MintType
      <4> QED
        BY <4>1, <4>2 DEF TypeOK
    <3>2. CASE MintRefreshLost(m)
      BY <3>2, <1>a DEF MintRefreshLost, Finish, TypeOK
    <3> QED
      BY <1>2, <3>1, <3>2
  <2> QED
    BY <1>2, <2>2, <2>3, <2>4, <2>5 DEF MintRefresh, MintRefreshLost, Finish,
       Exchange, Issue, Tuples, TypeOK, link
<1>3. ASSUME NEW m \in Mints, MintUnavailable(m) \/ MintCommitFails(m)
                              \/ MintStageFails(m)
      PROVE  TypeOK'
  BY <1>3, <1>a DEF MintUnavailable, MintCommitFails, MintStageFails, Finish,
     TypeOK, MintType, github, link
<1>4. ASSUME NEW m \in Mints, MintRejected(m)
      PROVE  TypeOK'
  BY <1>4 DEF MintRejected, TypeOK, MintType, MintSteps, github, link
<1>5. ASSUME NEW m \in Mints, MintMark(m) \/ MintCommit(m)
      PROVE  TypeOK'
  <2>1. row' \in RowType
    <3>1. CASE MintMark(m)
      BY <3>1 DEF MintMark, TypeOK, RowType
    <3>2. CASE MintCommit(m)
      <4>1. /\ mint[m].next \in 0..MaxTuples /\ mint[m].version \in Nat
            /\ 0 \in 0..MaxTuples /\ 0 \in Nat
        BY DEF TypeOK, MintType
      <4> QED
        BY <3>2, <4>1 DEF MintCommit, TypeOK, RowType
    <3> QED
      BY <1>5, <3>1, <3>2
  <2> QED
    BY <1>5, <1>a, <2>1 DEF MintMark, MintCommit, Finish, TypeOK, github, link
<1>6. ASSUME NEW m \in Mints, MintStage(m)
      PROVE  TypeOK'
  <2>1. row' \in RowType
    BY <1>6 DEF MintStage, TypeOK, RowType, MintType
  <2>2. mint' \in [Mints -> MintType]
    BY <1>6 DEF MintStage, TypeOK, MintType, MintSteps
  <2> QED
    BY <1>6, <2>1, <2>2 DEF MintStage, TypeOK, github, link
<1>7. ASSUME NEW f \in Flows,
             LinkStart(f) \/ LinkDenied(f) \/ RedeemPeek(f) \/ ReapFlow(f)
      PROVE  TypeOK'
  BY <1>7 DEF LinkStart, LinkDenied, RedeemPeek, ReapFlow, TypeOK, FlowType,
     github
<1>8. ASSUME NEW f \in Flows, NEW u \in Users, LinkCallback(f, u)
      PROVE  TypeOK'
  <2>1. /\ issued' = issued + 1 /\ issued + 1 \in 0..MaxTuples
        /\ issued + 1 \in Tuples
    BY <1>8 DEF LinkCallback, Issue, TypeOK, Tuples
  <2>2. flow' \in [Flows -> FlowType]
    BY <1>8, <2>1 DEF LinkCallback, TypeOK, FlowType
  <2>3. owner' \in [Tuples -> Users \cup {NoUser}] /\ fresh' \in SUBSET Tuples
    BY <1>8, <2>1 DEF LinkCallback, Issue, TypeOK
  <2> QED
    BY <1>8, <2>1, <2>2, <2>3 DEF LinkCallback, TypeOK
<1>9. ASSUME NEW f \in Flows, RedeemPop(f)
      PROVE  TypeOK'
  <2>1. row' \in RowType
    <3>1. CASE RedeemUpsert(f)
      <4>1. /\ owner[flow[f].tuple] \in Users \cup {NoUser}
            /\ flow[f].tuple \in 0..MaxTuples
        BY <1>9 DEF RedeemPop, FlowInv, Issued, TypeOK, Tuples
      <4>2. row.version + 1 \in Nat
        BY DEF TypeOK, RowType
      <4> QED
        BY <3>1, <4>1, <4>2 DEF RedeemUpsert, TypeOK, RowType
    <3> QED
      BY <1>9, <3>1 DEF RedeemPop, TypeOK
  <2> QED
    BY <1>9, <2>1 DEF RedeemPop, TypeOK, FlowType, github
<1>10. CASE RevokeRead
  BY <1>10 DEF RevokeRead, TypeOK, RowType, RevokeType, github
<1>11. ASSUME NEW u, DeleteGrant(u)
       PROVE  killed' \in SUBSET Tuples
  <2>1. 1..issued \subseteq Tuples /\ killed \subseteq Tuples
    BY DEF TypeOK, Tuples
  <2> QED
    BY <1>11, <2>1 DEF DeleteGrant
<1>12. CASE RevokeGrant
  <2>1. killed' \in SUBSET Tuples
    BY <1>11, <1>12 DEF RevokeGrant, TypeOK
  <2> QED
    BY <1>12, <2>1 DEF RevokeGrant, TypeOK, RevokeType
<1>13. CASE RevokeFlip
  <2>1. row' \in RowType
    BY <1>13 DEF RevokeFlip, TypeOK, RowType
  <2> QED
    BY <1>13, <2>1 DEF RevokeFlip, NoRevoke, TypeOK, RevokeType, github
<1>14. ASSUME NEW t \in Tuples, Age(t)
       PROVE  TypeOK'
  BY <1>14 DEF Age, TypeOK, link
<1>15. ASSUME NEW u \in Users, Uninstall(u)
       PROVE  TypeOK'
  BY <1>11, <1>15 DEF Uninstall, TypeOK, link
<1>16. CASE Crash
  <2>1. lost' \in SUBSET (0..MaxTuples)
    BY <1>16 DEF Crash, TypeOK, MintType
  <2>2. flow' \in [Flows -> FlowType]
    BY <1>16 DEF Crash, TypeOK, FlowType
  <2> QED
    BY <1>16, <1>a, <2>1, <2>2 DEF Crash, NoRevoke, TypeOK, RevokeType, github
<1>17. CASE UNCHANGED vars
  BY <1>17 DEF vars, github, link, TypeOK
<1> QED
  BY <1>1, <1>2, <1>3, <1>4, <1>5, <1>6, <1>7, <1>8, <1>9, <1>10, <1>12,
     <1>13, <1>14, <1>15, <1>16, <1>17 DEF Next, MintNext, LinkNext

\* While one mint is past its read, every other one is idle.
LEMMA OneMint ==
  ASSUME LockInv, NEW m \in Mints, mint[m].pc # "idle"
  PROVE  /\ lock = m
         /\ \A n \in Mints \ {m} : mint[n].pc = "idle"
BY DEF LockInv

\* A step that leaves the row, the mints, the flows and what GitHub spent
\* alone keeps the invariant.
LEMMA ChainFrame ==
  ASSUME ChainInv, UNCHANGED <<issued, spent, row, lock, mint, flow, lost>>
  PROVE  ChainInv'
BY DEF ChainInv, LockInv, BookInv, MintInv, FlowInv, ChainKept, InHand, Issued

\* A mint that ends without touching the row, while it holds no successor.
LEMMA ChainFinish ==
  ASSUME LinkInv, NEW m \in Mints, mint[m].pc \notin {"idle", "stage"},
         Finish(m),
         UNCHANGED <<issued, spent, row, flow, lost>>
  PROVE  ChainInv'
<1> USE DEF LinkInv, ChainInv, TypeOK
<1>1. \A n \in Mints : mint'[n] = IF n = m THEN Idle ELSE mint[n]
  BY DEF Finish
<1>2. LockInv'
  BY <1>1, OneMint DEF LockInv, Finish, Idle
<1>3. BookInv'
  BY DEF BookInv, Issued
<1>4. MintInv'
  BY <1>1 DEF MintInv, Issued, Idle
<1>5. FlowInv'
  BY <1>1 DEF FlowInv, Issued, Idle
<1>6. ChainKept'
  BY <1>1 DEF ChainKept, InHand
<1> QED
  BY <1>2, <1>3, <1>4, <1>5, <1>6
\* The steps of a mint keep the chain.
LEMMA MintChain ==
  ASSUME LinkInv, TypeOK', NEW m \in Mints,
         \/ \E ref \in 0..row.version : MintRead(m, ref)
         \/ MintRefresh(m) \/ MintRefreshLost(m)
         \/ MintUnavailable(m) \/ MintRejected(m) \/ MintMark(m)
         \/ MintStage(m) \/ MintStageFails(m)
         \/ MintCommit(m) \/ MintCommitFails(m)
  PROVE  ChainInv'
<1> USE DEF LinkInv, ChainInv
<1>t. /\ issued \in Nat
      /\ \A n \in Mints : mint[n] \in MintType
      /\ mint \in [Mints -> MintType]
      /\ row \in RowType
  BY BoundAssumption DEF TypeOK
<1>1. ASSUME NEW ref \in 0..row.version, MintRead(m, ref)
      PROVE  ChainInv'
  <2> USE <1>1 DEF MintRead, ReadRow
  <2>0. UNCHANGED <<issued, spent, row, flow, lost>>
    BY DEF github, link
  <2>1. \A n \in Mints \ {m} : mint'[n] = mint[n] /\ mint[n].pc = "idle"
    BY <1>t, NoMintAssumption DEF LockInv
  <2>2. /\ mint'[m].tuple = row.tuple
        /\ \/ mint'[m].pc = "commit" /\ mint'[m].next = row.staged
              /\ row.staged # 0
           \/ mint'[m].pc = "refresh" /\ mint'[m].next = 0 /\ row.staged = 0
    BY <1>t
  <2>3. LockInv'
    BY <2>1 DEF LockInv
  <2>4. BookInv'
    BY <2>0 DEF BookInv, Issued
  <2>5. MintInv'
    BY <2>0, <2>1, <2>2 DEF MintInv, BookInv
  <2>6. FlowInv'
    BY <2>0, <2>1, <2>2 DEF FlowInv, Issued
  <2>7. ChainKept'
    BY <2>0, <2>1, <1>1 DEF ChainKept, InHand
  <2> QED
    BY <2>3, <2>4, <2>5, <2>6, <2>7
<1>2. ASSUME Exchange(m)
      PROVE  /\ UNCHANGED <<row, flow>>
             /\ issued' = issued + 1
             /\ spent' = spent \cup {mint[m].tuple}
             /\ mint[m].tuple \in Issued
             /\ row.staged = 0
             /\ lock = m
             /\ \A n \in Mints \ {m} : mint[n].pc = "idle"
  BY <1>2, OneMint, <1>t DEF Exchange, Issue, Usable, MintInv, Issued, link
<1>b. ASSUME Exchange(m)
      PROVE  BookInv'
  <2>1. Issued \subseteq Issued' /\ 0..issued \subseteq 0..issued'
    BY <1>2, <1>b, <1>t DEF Issued
  <2>2. 0 \notin Issued
    BY <1>t DEF Issued
  <2> QED
    BY <2>1, <2>2, <1>2, <1>b DEF BookInv
<1>3. CASE MintRefresh(m)
  <2>0. Exchange(m)
    BY <1>3 DEF MintRefresh
  <2>1. /\ mint'[m].pc = "stage" /\ mint'[m].next = issued + 1
        /\ mint'[m].tuple = mint[m].tuple
        /\ \A n \in Mints \ {m} : mint'[n] = mint[n]
        /\ UNCHANGED <<lock, lost>>
    BY <1>3, <1>t DEF MintRefresh, MintType
  <2>2. LockInv'
    BY <1>2, <2>0, <2>1 DEF LockInv
  <2>3. BookInv'
    BY <1>b, <2>0
  <2>4. MintInv'
    BY <1>2, <2>0, <2>1, <1>t DEF MintInv, BookInv, Issued
  <2>5. FlowInv'
    <3> SUFFICES ASSUME NEW f \in Flows, flow[f].status = "ready"
                 PROVE  /\ flow[f].tuple \in Issued' \ spent'
                        /\ flow[f].tuple # mint'[m].next
                        /\ flow[f].tuple # mint'[m].tuple
      BY <1>2, <2>0, <2>1 DEF FlowInv
    <3>1. flow[f].tuple \in Issued \ spent /\ flow[f].tuple # mint[m].tuple
      BY <2>0 DEF FlowInv, Exchange
    <3> QED
      BY <3>1, <1>2, <2>0, <2>1, <1>t DEF Issued
  <2>6. ChainKept'
    <3>1. CASE row.tuple = mint[m].tuple
      BY <3>1, <1>2, <2>0, <2>1 DEF ChainKept, InHand
    <3>2. CASE row.tuple # mint[m].tuple
      BY <3>2, <1>2, <2>0, <2>1 DEF ChainKept, InHand, Exchange
    <3> QED
      BY <3>1, <3>2
  <2> QED
    BY <2>2, <2>3, <2>4, <2>5, <2>6
<1>4. CASE MintRefreshLost(m)
  <2>0. Exchange(m)
    BY <1>4 DEF MintRefreshLost
  <2>1. /\ mint'[m] = Idle
        /\ \A n \in Mints : mint'[n].pc = "idle"
        /\ lost' = lost \cup {mint[m].tuple}
    BY <1>4, <1>2, <2>0, <1>t DEF MintRefreshLost, Finish, Idle
  <2>2. LockInv'
    BY <2>1 DEF LockInv
  <2>3. BookInv'
    BY <1>b, <2>0
  <2>4. MintInv'
    BY <2>1 DEF MintInv
  <2>5. FlowInv'
    <3> SUFFICES ASSUME NEW f \in Flows, flow[f].status = "ready"
                 PROVE  flow[f].tuple \in Issued' \ spent'
      BY <1>2, <2>0, <2>1 DEF FlowInv
    <3>1. flow[f].tuple \in Issued \ spent /\ flow[f].tuple # mint[m].tuple
      BY <2>0 DEF FlowInv, Exchange
    <3> QED
      BY <3>1, <1>2, <2>0, <1>t DEF Issued
  <2>6. ChainKept'
    BY <1>2, <2>0, <2>1 DEF ChainKept, InHand, Exchange
  <2> QED
    BY <2>2, <2>3, <2>4, <2>5, <2>6
<1>5. CASE MintUnavailable(m) \/ MintCommitFails(m)
  BY <1>5, ChainFinish DEF MintUnavailable, MintCommitFails, github, link
<1>6. CASE MintRejected(m)
  <2>0. UNCHANGED <<issued, spent, row, flow, lost, lock>>
    BY <1>6 DEF MintRejected, github, link
  <2>1. /\ mint'[m].pc = "mark" /\ mint[m].pc = "refresh"
        /\ mint'[m].tuple = mint[m].tuple /\ mint'[m].next = mint[m].next
        /\ \A n \in Mints \ {m} : mint'[n] = mint[n]
    BY <1>6, <1>t DEF MintRejected, MintType
  <2> QED
    BY <2>0, <2>1 DEF LockInv, BookInv, MintInv, FlowInv, ChainKept, InHand,
       Issued
<1>7. CASE MintMark(m)
  <2>0. /\ UNCHANGED <<issued, spent, flow, lost>>
        /\ row'.tuple = row.tuple /\ row'.staged = row.staged
        /\ mint[m].pc = "mark"
    BY <1>7, <1>t DEF MintMark, github, link, RowType
  <2>1. \A n \in Mints : mint'[n].pc = "idle"
    BY <1>7, <2>0, <1>t, OneMint DEF MintMark, Finish, Idle
  <2>2. ~InHand
    BY <2>0, OneMint DEF InHand
  <2> QED
    BY <2>0, <2>1, <2>2 DEF LockInv, BookInv, MintInv, FlowInv, ChainKept,
       Issued
<1>8. CASE MintStage(m)
  <2>0. /\ UNCHANGED <<issued, spent, flow, lost, lock>>
        /\ row'.tuple = row.tuple /\ row'.staged = mint[m].next
        /\ mint[m].pc = "stage"
    BY <1>8, <1>t DEF MintStage, github, link, RowType
  <2>1. /\ mint'[m].pc = "commit"
        /\ mint'[m].tuple = mint[m].tuple /\ mint'[m].next = mint[m].next
        /\ \A n \in Mints \ {m} : mint'[n] = mint[n] /\ mint[n].pc = "idle"
    BY <1>8, <2>0, <1>t, OneMint DEF MintStage, MintType
  <2>2. mint[m].next \in Issued \ spent
    BY <2>0 DEF MintInv
  <2>3. LockInv'
    BY <2>0, <2>1 DEF LockInv
  <2>4. BookInv' /\ MintInv'
    BY <2>0, <2>1, <2>2, <1>t DEF BookInv, MintInv, Issued
  <2>5. FlowInv'
    BY <2>0, <2>1 DEF FlowInv, Issued
  <2>6. ChainKept'
    BY <2>0, <2>2, <1>t DEF ChainKept, Issued
  <2> QED
    BY <2>3, <2>4, <2>5, <2>6
<1>9. CASE MintStageFails(m)
  <2>0. /\ UNCHANGED <<issued, spent, row, flow>>
        /\ lost' = lost \cup {mint[m].tuple}
        /\ mint[m].pc = "stage"
    BY <1>9 DEF MintStageFails, github, link
  <2>1. \A n \in Mints : mint'[n].pc = "idle"
    BY <1>9, <2>0, <1>t, OneMint DEF MintStageFails, Finish, Idle
  <2>2. InHand => mint[m].tuple = row.tuple
    BY <2>0, OneMint DEF InHand
  <2> QED
    BY <2>0, <2>1, <2>2 DEF LockInv, BookInv, MintInv, FlowInv, ChainKept,
       Issued
<1>10. CASE MintCommit(m)
  <2>0. /\ UNCHANGED <<issued, spent, flow, lost>>
        /\ row'.tuple = mint[m].next /\ row'.staged = 0
        /\ mint[m].pc = "commit"
    BY <1>10, <1>t DEF MintCommit, github, link, RowType
  <2>1. \A n \in Mints : mint'[n].pc = "idle"
    BY <1>10, <2>0, <1>t, OneMint DEF MintCommit, Finish, Idle
  <2>2. mint[m].next = row.staged /\ row.staged \in 0..issued \ spent
    BY <2>0 DEF MintInv, BookInv
  <2>3. LockInv' /\ MintInv'
    BY <2>1 DEF LockInv, MintInv
  <2>4. BookInv'
    BY <2>0, <2>2, <1>t DEF BookInv, Issued
  <2>5. FlowInv'
    BY <2>0, <2>1, <2>2, <1>t DEF FlowInv, Issued
  <2>6. ChainKept'
    BY <2>0, <2>2 DEF ChainKept
  <2> QED
    BY <2>3, <2>4, <2>5, <2>6
<1> QED
  BY <1>1, <1>3, <1>4, <1>5, <1>6, <1>7, <1>8, <1>9, <1>10

\* The link flow, the kill switch and a restart keep the chain.
LEMMA LinkChain ==
  ASSUME LinkInv, TypeOK', LinkNext
  PROVE  ChainInv'
<1> USE DEF LinkInv, ChainInv
<1>t. /\ issued \in Nat
      /\ row \in RowType
      /\ flow \in [Flows -> FlowType]
  BY BoundAssumption DEF TypeOK
<1>1. ASSUME NEW f \in Flows,
             UNCHANGED <<issued, spent, row, lock, mint, lost>>,
             flow' \in [Flows -> FlowType],
             flow'[f].status # "ready",
             \A g \in Flows \ {f} : flow'[g] = flow[g]
      PROVE  ChainInv'
  <2>1. LockInv' /\ BookInv' /\ MintInv' /\ ChainKept'
    BY <1>1 DEF LockInv, BookInv, MintInv, ChainKept, InHand, Issued
  <2>2. FlowInv'
    BY <1>1 DEF FlowInv, Issued
  <2> QED
    BY <2>1, <2>2
<1>2. ASSUME NEW f \in Flows, LinkStart(f) \/ LinkDenied(f) \/ ReapFlow(f)
      PROVE  ChainInv'
  <2>1. UNCHANGED <<issued, spent, row, lock, mint, lost>>
    BY <1>2 DEF LinkStart, LinkDenied, ReapFlow, github
  <2>2. /\ flow'[f].status # "ready"
        /\ \A g \in Flows \ {f} : flow'[g] = flow[g]
    BY <1>2, <1>t DEF LinkStart, LinkDenied, ReapFlow, FlowType
  <2> QED
    BY <1>1, <2>1, <2>2 DEF TypeOK
<1>3. ASSUME NEW f \in Flows, NEW u \in Users, LinkCallback(f, u)
      PROVE  ChainInv'
  <2>0. /\ issued' = issued + 1
        /\ UNCHANGED <<spent, row, lock, mint, lost>>
    BY <1>3 DEF LinkCallback, Issue
  <2>1. /\ Issued \subseteq Issued' /\ 0..issued \subseteq 0..issued'
        /\ issued + 1 \in Issued' /\ issued + 1 \notin 0..issued
        /\ issued + 1 \notin Issued
    BY <1>t, <2>0 DEF Issued
  <2>2. LockInv' /\ ChainKept'
    BY <2>0 DEF LockInv, ChainKept, InHand
  <2>3. BookInv'
    BY <2>0, <2>1 DEF BookInv
  <2>4. MintInv'
    BY <2>0, <2>1 DEF MintInv
  <2>5. \A g \in Flows : \/ flow'[g] = flow[g]
                         \/ /\ g = f /\ flow'[g].tuple = issued + 1
                            /\ flow'[g].status = "ready"
    BY <1>3, <1>t DEF LinkCallback
  <2>6. \A g \in Flows \ {f} : flow'[g] = flow[g]
    BY <1>3, <1>t DEF LinkCallback
  <2>7. FlowInv'
    <3> SUFFICES ASSUME NEW g \in Flows, flow'[g].status = "ready"
                 PROVE  /\ flow'[g].tuple \in Issued' \ spent
                        /\ flow'[g].tuple # row.tuple
                        /\ flow'[g].tuple # row.staged
                        /\ \A m \in Mints : mint[m].pc # "idle" =>
                              /\ flow'[g].tuple # mint[m].tuple
                              /\ flow'[g].tuple # mint[m].next
                        /\ \A h \in Flows \ {g} : flow'[h].status = "ready" =>
                              flow'[h].tuple # flow'[g].tuple
      BY <2>0 DEF FlowInv
    <3>1. CASE flow'[g] = flow[g]
      BY <3>1, <2>1, <2>5 DEF FlowInv
    <3>2. CASE flow'[g].tuple = issued + 1 /\ g = f
      BY <3>2, <2>1, <2>6 DEF FlowInv, BookInv, MintInv
    <3> QED
      BY <2>5, <3>1, <3>2
  <2> QED
    BY <2>2, <2>3, <2>4, <2>7
<1>4. ASSUME NEW f \in Flows, RedeemPop(f)
      PROVE  ChainInv'
  <2>0. /\ UNCHANGED <<issued, spent, lock, mint, lost>>
        /\ flow'[f].status = "closed"
        /\ \A g \in Flows \ {f} : flow'[g] = flow[g]
        /\ flow[f].status = "ready"
    BY <1>4, <1>t DEF RedeemPop, github
  <2>1. CASE UNCHANGED row
    BY <1>1, <2>0, <2>1 DEF TypeOK
  <2>2. CASE RedeemUpsert(f)
    <3>1. row'.tuple = flow[f].tuple /\ row'.staged = row.staged
      BY <2>2, <1>t DEF RedeemUpsert, RowType
    <3>2. flow[f].tuple \in 0..issued /\ flow[f].tuple \notin spent
      BY <2>0, <1>t DEF FlowInv, Issued
    <3>3. LockInv' /\ BookInv' /\ MintInv'
      BY <2>0, <3>1, <3>2 DEF LockInv, BookInv, MintInv, Issued
    <3>4. FlowInv'
      BY <2>0, <3>1 DEF FlowInv, Issued
    <3>5. ChainKept'
      BY <2>0, <3>1, <3>2 DEF ChainKept
    <3> QED
      BY <3>3, <3>4, <3>5
  <2> QED
    BY <1>4, <2>1, <2>2 DEF RedeemPop
<1>5. CASE RevokeFlip
  <2>0. /\ UNCHANGED <<issued, spent, lock, mint, flow, lost>>
        /\ row'.tuple = row.tuple /\ row'.staged = row.staged
    BY <1>5, <1>t DEF RevokeFlip, RowType, github
  <2> QED
    BY <2>0 DEF LockInv, BookInv, MintInv, FlowInv, ChainKept, InHand, Issued
<1>6. ASSUME NEW f \in Flows, RedeemPeek(f)
      PROVE  ChainInv'
  BY <1>6, ChainFrame DEF RedeemPeek, github
<1>7. CASE RevokeRead \/ RevokeGrant
  BY <1>7, ChainFrame DEF RevokeRead, RevokeGrant, github
<1> QED
  BY <1>2, <1>3, <1>4, <1>5, <1>6, <1>7 DEF LinkNext

\* A restart of the AS keeps the chain: what it drops is lost or staged.
LEMMA CrashChain ==
  ASSUME LinkInv, Crash
  PROVE  ChainInv'
<1> USE DEF LinkInv, ChainInv
<1>0. /\ UNCHANGED <<issued, spent, row>>
      /\ \A m \in Mints : mint'[m].pc = "idle"
      /\ \A m \in Mints : mint[m].pc = "stage" => mint[m].tuple \in lost'
      /\ lost \subseteq lost'
  BY DEF Crash, github, Idle
<1>1. \A f \in Flows : flow'[f].status # "ready"
  BY DEF Crash
<1>2. LockInv' /\ BookInv' /\ MintInv'
  BY <1>0 DEF LockInv, BookInv, MintInv, Issued
<1>3. FlowInv'
  BY <1>1 DEF FlowInv
<1>4. ChainKept'
  BY <1>0 DEF ChainKept, InHand
<1> QED
  BY <1>2, <1>3, <1>4

\* LinkInv is inductive.
LEMMA LinkInvHolds == Spec => []LinkInv
<1>1. Init => LinkInv
  <2> SUFFICES ASSUME Init PROVE LinkInv
    OBVIOUS
  <2>1. TypeOK
    BY BoundAssumption DEF Init, TypeOK, NoRow, RowType, Idle, MintType,
       MintSteps, FlowType, NoRevoke, RevokeType
  <2>2. ChainInv
    BY DEF Init, NoRow, Idle, ChainInv, LockInv, BookInv, MintInv, FlowInv,
       ChainKept, Issued
  <2> QED
    BY <2>1, <2>2 DEF LinkInv
<1>2. LinkInv /\ [Next]_vars => LinkInv'
  <2> SUFFICES ASSUME LinkInv, [Next]_vars PROVE LinkInv'
    OBVIOUS
  <2>1. TypeOK'
    BY TypeStep DEF LinkInv, ChainInv
  <2>2. CASE MintNext
    BY <2>1, <2>2, MintChain DEF MintNext, LinkInv
  <2>3. CASE LinkNext
    BY <2>1, <2>3, LinkChain DEF LinkInv
  <2>4. CASE Crash
    BY <2>1, <2>4, CrashChain DEF LinkInv
  <2>5. CASE (\E t \in Tuples : Age(t)) \/ (\E u \in Users : Uninstall(u))
             \/ UNCHANGED vars
    <3>1. UNCHANGED <<issued, spent, row, lock, mint, flow, lost>>
      BY <2>5 DEF Age, Uninstall, vars, github, link
    <3> QED
      BY <2>1, <3>1, ChainFrame DEF LinkInv
  <2> QED
    BY <2>2, <2>3, <2>4, <2>5 DEF Next
<1> QED
  BY <1>1, <1>2, PTL DEF Spec

\* The write-ahead rotation of MintGitHubAccessToken never drops the refresh
\* chain silently, whenever the owner relinks and whenever the AS restarts.
THEOREM ChainNeverDropped == Spec => []ChainKept
BY LinkInvHolds, PTL DEF LinkInv, ChainInv

\* A revoked row changes only by a relink: the revoked = 0 conditions of
\* StageRotation, Rotate and MarkRelinkRequired stop every mint under way.
THEOREM RevokedInert == Spec => RevokedIsInert
<1>1. LinkInv /\ [Next]_vars =>
        [row.revoked /\ row'.revoked => row' = row]_vars
  <2> SUFFICES ASSUME LinkInv, Next, row.revoked, row'.revoked
               PROVE  row' = row
    BY DEF vars
  <2>0. row \in RowType
    BY DEF LinkInv, TypeOK
  <2>1. CASE MintNext
    BY <2>1 DEF MintNext, MintRead, ReadRow, MintRefresh, MintRefreshLost,
       Exchange, MintUnavailable, MintRejected, MintMark, MintStage,
       MintStageFails, MintCommit, MintCommitFails, Linked
  <2>2. ASSUME NEW f \in Flows, RedeemPop(f)
        PROVE  row' = row
    BY <2>0, <2>2 DEF RedeemPop, RedeemUpsert, RowType
  <2>3. CASE LinkNext
    BY <2>2, <2>3 DEF LinkNext, LinkStart, LinkDenied, LinkCallback,
       RedeemPeek, ReapFlow, RevokeRead, RevokeGrant, RevokeFlip, Linked
  <2> QED
    BY <2>1, <2>3 DEF Next, Age, Uninstall, Crash
<1> QED
  BY <1>1, LinkInvHolds, PTL DEF Spec, RevokedIsInert

-----------------------------------------------------------------------------
(* What holds besides while the owner relinks only between rotations.      *)

\* A live row names an issued tuple; a staged tuple is the next version of
\* it; a row marked relink_required is at rest and dead.
RowQuiet ==
  /\ row.version > 0 => row.tuple \in Issued
  /\ row.staged # 0 => row.version > 0 /\ row.stagedVersion = row.version + 1
  /\ row.relink => /\ lock = NoMint /\ row.staged = 0
                   /\ row.tuple \in spent \cup killed

\* A mint under way works on the row as it still is.
MintQuiet ==
  \A m \in Mints :
    /\ mint[m].pc # "idle" => row.version > 0 /\ ~row.relink
    /\ mint[m].pc \in {"refresh", "mark", "stage"} => mint[m].tuple = row.tuple
    /\ mint[m].pc \in {"refresh", "stage", "commit"} =>
         mint[m].version = row.version + 1
    /\ mint[m].pc = "mark" => row.tuple \in spent \cup killed

QuietInv == RowQuiet /\ MintQuiet

\* GitHub only adds: what it issued keeps its owner, what died stays dead.
LEMMA GitHubGrows ==
  ASSUME LinkInv, [Next]_vars
  PROVE  /\ issued' \in Nat /\ issued <= issued'
         /\ Issued \subseteq Issued'
         /\ \A t \in Issued : owner'[t] = owner[t]
         /\ spent \subseteq spent' /\ killed \subseteq killed'
<1>t. issued \in Nat /\ issued <= MaxTuples
      /\ owner \in [Tuples -> Users \cup {NoUser}]
  BY BoundAssumption DEF LinkInv, TypeOK
<1>1. ASSUME NEW u, Issue(issued + 1, u), UNCHANGED killed, spent \subseteq spent'
      PROVE  /\ issued' \in Nat /\ issued <= issued'
             /\ Issued \subseteq Issued'
             /\ \A t \in Issued : owner'[t] = owner[t]
             /\ spent \subseteq spent' /\ killed \subseteq killed'
  <2>1. issued' = issued + 1 /\ owner' = [owner EXCEPT ![issued + 1] = u]
    BY <1>1 DEF Issue
  <2>2. \A t \in Issued : t \in Tuples /\ t # issued + 1
    BY <1>t, BoundAssumption DEF Issued, Tuples
  <2> QED
    BY <1>1, <1>t, <2>1, <2>2 DEF Issued
<1>2. ASSUME UNCHANGED <<issued, owner, spent>>, killed \subseteq killed'
      PROVE  /\ issued' \in Nat /\ issued <= issued'
             /\ Issued \subseteq Issued'
             /\ \A t \in Issued : owner'[t] = owner[t]
             /\ spent \subseteq spent' /\ killed \subseteq killed'
  BY <1>2, <1>t DEF Issued
<1>3. ASSUME NEW m \in Mints, Exchange(m)
      PROVE  /\ Issue(issued + 1, owner[mint[m].tuple])
             /\ UNCHANGED killed /\ spent \subseteq spent'
  BY <1>3 DEF Exchange
<1>4. CASE MintNext
  BY <1>1, <1>2, <1>3, <1>4 DEF MintNext, MintRead, ReadRow, MintRefresh,
     MintRefreshLost, MintUnavailable, MintRejected, MintMark, MintStage,
     MintStageFails, MintCommit, MintCommitFails, github
<1>5. CASE LinkNext
  BY <1>1, <1>2, <1>5 DEF LinkNext, LinkStart, LinkDenied, LinkCallback,
     RedeemPeek, RedeemPop, ReapFlow, RevokeRead, RevokeGrant, RevokeFlip,
     DeleteGrant, github
<1>6. CASE (\E t \in Tuples : Age(t)) \/ (\E u \in Users : Uninstall(u))
           \/ Crash \/ UNCHANGED vars
  BY <1>2, <1>6 DEF Age, Uninstall, DeleteGrant, Crash, vars, github
<1> QED
  BY <1>4, <1>5, <1>6 DEF Next

\* A step that leaves the row alone, and mints where they were or idle.
LEMMA QuietFrame ==
  ASSUME LinkInv, QuietInv, [Next]_vars, UNCHANGED row,
         lock' \in {lock, NoMint},
         \A m \in Mints : mint'[m] = mint[m] \/ mint'[m].pc = "idle"
  PROVE  QuietInv'
<1> USE GitHubGrows DEF LinkInv, ChainInv
<1>1. row.staged # 0 => row.staged \in Issued
  BY DEF BookInv, Issued, TypeOK
<1>2. RowQuiet'
  BY <1>1 DEF QuietInv, RowQuiet
<1>3. MintQuiet'
  <2> SUFFICES ASSUME NEW m \in Mints, mint'[m] = mint[m]
               PROVE  /\ mint[m].pc # "idle" => row.version > 0 /\ ~row.relink
                      /\ mint[m].pc \in {"refresh", "mark", "stage"} =>
                           mint[m].tuple = row.tuple
                      /\ mint[m].pc \in {"refresh", "stage", "commit"} =>
                           mint[m].version = row.version + 1
                      /\ mint[m].pc = "mark" =>
                           row.tuple \in spent' \cup killed'
    BY DEF MintQuiet
  <2> QED
    BY DEF QuietInv, MintQuiet
<1> QED
  BY <1>2, <1>3 DEF QuietInv

\* The mints' steps keep QuietInv, and a new live tuple a new version.
LEMMA QuietMint ==
  ASSUME LinkInv, QuietInv, [Next]_vars, NEW m \in Mints,
         \/ \E ref \in 0..row.version : MintRead(m, ref)
         \/ MintRefresh(m) \/ MintRefreshLost(m)
         \/ MintUnavailable(m) \/ MintRejected(m) \/ MintMark(m)
         \/ MintStage(m) \/ MintStageFails(m)
         \/ MintCommit(m) \/ MintCommitFails(m)
  PROVE  /\ QuietInv'
         /\ row'.tuple # row.tuple => row'.version > row.version
<1> USE DEF LinkInv, ChainInv, QuietInv
<1>t. /\ issued \in Nat /\ owner \in [Tuples -> Users \cup {NoUser}]
      /\ mint \in [Mints -> MintType]
      /\ \A n \in Mints : mint[n] \in MintType
      /\ row \in RowType /\ row.version \in Nat
  BY BoundAssumption DEF TypeOK, RowType
<1>1. ASSUME NEW ref \in 0..row.version, MintRead(m, ref)
      PROVE  QuietInv' /\ UNCHANGED row
  <2>0. UNCHANGED <<github, row>> /\ Linked /\ ~row.relink
    BY <1>1 DEF MintRead, ReadRow
  <2>1. \A n \in Mints \ {m} : mint'[n].pc = "idle"
    BY <1>1, <1>t, NoMintAssumption DEF MintRead, ReadRow, LockInv
  <2>2. \/ /\ mint'[m].pc = "commit"
           /\ mint'[m].version = row.stagedVersion /\ row.staged # 0
        \/ /\ mint'[m].pc = "refresh" /\ mint'[m].tuple = row.tuple
           /\ mint'[m].version = row.version + 1
    BY <1>1, <1>t DEF MintRead, ReadRow
  <2>3. RowQuiet'
    BY <2>0 DEF RowQuiet, Issued, github
  <2>4. MintQuiet'
    BY <2>0, <2>1, <2>2 DEF MintQuiet, RowQuiet, Linked
  <2> QED
    BY <2>0, <2>3, <2>4
<1>2. CASE MintRefresh(m)
  <2>0. /\ UNCHANGED <<row, lock>>
        /\ mint[m].pc = "refresh" /\ mint[m].tuple \in Issued
    BY <1>2, <1>t DEF MintRefresh, Exchange, Issue, Usable, Issued, Tuples
  <2>1. /\ mint'[m].pc = "stage" /\ mint'[m].tuple = mint[m].tuple
        /\ mint'[m].version = mint[m].version
        /\ \A n \in Mints \ {m} : mint'[n] = mint[n] /\ mint[n].pc = "idle"
    BY <1>2, <1>t, <2>0, OneMint DEF MintRefresh, MintType
  <2>2. row.staged # 0 => row.staged \in Issued
    BY <1>t DEF BookInv, Issued
  <2>3. RowQuiet'
    BY <2>0, <2>2, GitHubGrows DEF RowQuiet
  <2>4. MintQuiet'
    BY <2>0, <2>1 DEF MintQuiet
  <2> QED
    BY <2>0, <2>3, <2>4
<1>3. CASE MintRefreshLost(m) \/ MintUnavailable(m) \/ MintStageFails(m)
           \/ MintCommitFails(m)
  <2>1. UNCHANGED row /\ lock' = NoMint
        /\ \A n \in Mints : mint'[n] = mint[n] \/ mint'[n].pc = "idle"
    BY <1>3, <1>t DEF MintRefreshLost, Exchange, MintUnavailable,
       MintStageFails, MintCommitFails, Finish, Idle
  <2> QED
    BY <2>1, QuietFrame
<1>4. CASE MintRejected(m)
  <2>0. UNCHANGED <<github, row, lock>> /\ mint[m].pc = "refresh"
        /\ ~Usable(mint[m].tuple)
    BY <1>4 DEF MintRejected
  <2>1. /\ mint'[m].pc = "mark" /\ mint'[m].tuple = mint[m].tuple
        /\ \A n \in Mints \ {m} : mint'[n] = mint[n] /\ mint[n].pc = "idle"
    BY <1>4, <1>t, <2>0, OneMint DEF MintRejected, MintType
  <2>2. row.tuple \in spent \cup killed
    BY <2>0 DEF MintQuiet, RowQuiet, Usable, Issued
  <2>3. RowQuiet' /\ MintQuiet'
    BY <2>0, <2>1, <2>2 DEF RowQuiet, MintQuiet, Issued, github
  <2> QED
    BY <2>0, <2>3
<1>5. CASE MintMark(m)
  <2>0. /\ UNCHANGED github /\ mint[m].pc = "mark" /\ lock' = NoMint
        /\ \/ UNCHANGED row
           \/ row' = [row EXCEPT !.relink = TRUE]
    BY <1>5 DEF MintMark, Finish
  <2>1. \A n \in Mints : mint'[n].pc = "idle"
    BY <1>5, <1>t, <2>0, OneMint DEF MintMark, Finish, Idle
  <2>2. row.staged = 0 /\ row.tuple \in spent \cup killed
    BY <2>0 DEF MintInv, MintQuiet
  <2>3. row'.tuple = row.tuple /\ row'.staged = 0
        /\ row'.version = row.version
    BY <1>t, <2>0, <2>2 DEF RowType
  <2>4. RowQuiet' /\ MintQuiet'
    BY <2>0, <2>1, <2>2, <2>3 DEF RowQuiet, MintQuiet, Issued, github
  <2> QED
    BY <2>3, <2>4
<1>6. CASE MintStage(m)
  <2>0. /\ UNCHANGED <<github, lock>> /\ mint[m].pc = "stage"
        /\ row'.tuple = row.tuple
        /\ row'.version = row.version /\ row'.relink = row.relink
        /\ row'.staged = mint[m].next
        /\ row'.stagedVersion = mint[m].version
    BY <1>6, <1>t DEF MintStage, RowType
  <2>1. /\ mint'[m].pc = "commit" /\ mint'[m].version = mint[m].version
        /\ \A n \in Mints \ {m} : mint'[n] = mint[n] /\ mint[n].pc = "idle"
    BY <1>6, <1>t, <2>0, OneMint DEF MintStage, MintType
  <2>2. RowQuiet' /\ MintQuiet'
    BY <2>0, <2>1 DEF RowQuiet, MintQuiet, Issued, github
  <2> QED
    BY <2>0, <2>2
<1>7. CASE MintCommit(m)
  <2>0. /\ UNCHANGED github /\ mint[m].pc = "commit" /\ lock' = NoMint
        /\ row'.tuple = mint[m].next
        /\ row'.version = mint[m].version /\ row'.relink = FALSE
        /\ row'.staged = 0
    BY <1>7, <1>t DEF MintCommit, Finish, RowType
  <2>1. \A n \in Mints : mint'[n].pc = "idle"
    BY <1>7, <1>t, <2>0, OneMint DEF MintCommit, Finish, Idle
  <2>2. /\ row'.tuple = row.staged /\ row.staged # 0
        /\ row.staged \in Issued /\ row'.version = row.version + 1
    BY <2>0, <1>t DEF MintInv, MintQuiet, BookInv, Issued
  <2>3. RowQuiet' /\ MintQuiet'
    BY <2>0, <2>1, <2>2 DEF RowQuiet, MintQuiet, Issued, github
  <2> QED
    BY <1>t, <2>2, <2>3
<1> QED
  BY <1>1, <1>2, <1>3, <1>4, <1>5, <1>6, <1>7

\* So do all the others, when a relink waits for the rotation to end.
LEMMA QuietStep ==
  ASSUME QuietRelink, LinkInv, QuietInv, [Next]_vars
  PROVE  /\ QuietInv'
         /\ row'.tuple # row.tuple => row'.version > row.version
<1> USE DEF LinkInv, ChainInv, QuietInv
<1>t. /\ mint \in [Mints -> MintType] /\ issued \in Nat
      /\ row \in RowType /\ row.version \in Nat
  BY BoundAssumption DEF TypeOK, RowType
<1>1. CASE MintNext
  BY <1>1, QuietMint DEF MintNext
<1>2. ASSUME NEW f \in Flows, RedeemPop(f), RedeemUpsert(f)
      PROVE  /\ QuietInv'
             /\ row'.tuple # row.tuple => row'.version > row.version
  <2>0. /\ UNCHANGED <<github, lock, mint>> /\ row.staged = 0 /\ lock = NoMint
        /\ flow[f].status = "ready"
    BY <1>2 DEF RedeemPop, Quiet
  <2>1. /\ row'.tuple = flow[f].tuple
        /\ row'.version = row.version + 1 /\ row'.relink = FALSE
        /\ row'.staged = row.staged
    BY <1>2, <1>t DEF RedeemUpsert, RowType
  <2>2. flow[f].tuple \in Issued
    BY <2>0 DEF FlowInv
  <2>3. \A m \in Mints : mint[m].pc = "idle"
    BY <2>0, NoMintAssumption DEF LockInv
  <2>4. RowQuiet' /\ MintQuiet'
    BY <2>0, <2>1, <2>2, <2>3, <1>t DEF RowQuiet, MintQuiet, Issued, github
  <2> QED
    BY <1>t, <2>1, <2>4
<1>3. CASE RevokeFlip
  <2>0. /\ UNCHANGED <<github, lock, mint>>
        /\ row'.tuple = row.tuple
        /\ row'.version = row.version /\ row'.relink = row.relink
        /\ row'.staged = row.staged /\ row'.stagedVersion = row.stagedVersion
    BY <1>3, <1>t DEF RevokeFlip, RowType
  <2>1. RowQuiet' /\ MintQuiet'
    BY <2>0 DEF RowQuiet, MintQuiet, Issued, github
  <2> QED
    BY <2>0, <2>1
<1>4. ASSUME UNCHANGED <<row, lock, mint>>
      PROVE  /\ QuietInv'
             /\ row'.tuple # row.tuple => row'.version > row.version
  BY <1>4, QuietFrame
<1>5. CASE LinkNext
  BY <1>2, <1>3, <1>4, <1>5 DEF LinkNext, LinkStart, LinkDenied, LinkCallback,
     RedeemPeek, RedeemPop, ReapFlow, RevokeRead, RevokeGrant
<1>6. CASE Crash
  <2>1. UNCHANGED row /\ lock' = NoMint
        /\ \A m \in Mints : mint'[m].pc = "idle"
    BY <1>6 DEF Crash, Idle
  <2> QED
    BY <2>1, QuietFrame
<1>7. CASE (\E t \in Tuples : Age(t)) \/ (\E u \in Users : Uninstall(u))
           \/ UNCHANGED vars
  BY <1>4, <1>7 DEF Age, Uninstall, vars
<1> QED
  BY <1>1, <1>5, <1>6, <1>7 DEF Next

\* While relinks fall between rotations, a rotating mint holds the row it read.
LEMMA QuietInvHolds ==
  ASSUME QuietRelink
  PROVE  Spec => []QuietInv
<1>1. Init => QuietInv
  BY DEF Init, NoRow, Idle, QuietInv, RowQuiet, MintQuiet
<1>2. LinkInv /\ QuietInv /\ [Next]_vars => QuietInv'
  BY QuietStep
<1> QED
  BY <1>1, <1>2, LinkInvHolds, PTL DEF Spec

\* While relinks wait for rotations, every new live tuple has a version, and
\* so a delivery id, above every earlier one: revoke and relink included.
THEOREM DeliveryIdsUnique ==
  ASSUME QuietRelink
  PROVE  Spec => DeliveryNamesOneTuple
<1>1. LinkInv /\ QuietInv /\ [Next]_vars =>
        [row'.tuple # row.tuple => row'.version > row.version]_vars
  BY QuietStep
<1> QED
  BY <1>1, LinkInvHolds, QuietInvHolds, PTL DEF Spec, DeliveryNamesOneTuple

\* While relinks wait for rotations, relink_required is only ever set on a
\* chain GitHub no longer accepts, and never survives a working one.
THEOREM RelinkTrue ==
  ASSUME QuietRelink
  PROVE  Spec => []RelinkIsTrue
<1>1. LinkInv /\ QuietInv => RelinkIsTrue
  BY BoundAssumption DEF LinkInv, TypeOK, QuietInv, RowQuiet, RelinkIsTrue, Usable
<1> QED
  BY <1>1, LinkInvHolds, QuietInvHolds, PTL
=============================================================================
