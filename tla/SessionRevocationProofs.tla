---------------------- MODULE SessionRevocationProofs ----------------------
(* Sign-outs reach a node and its live sessions, for any number of families, *)
(* tokens, events, attachments and faults and any page size.                 *)
EXTENDS SessionRevocation, FiniteSetTheorems, WellFoundedInduction, SequenceTheorems, TLAPS

----------------------------------------------------------------------------
(* The invariants.                                                           *)

\* What an event or a store says of a token.
Denies(e, t) == t \in e.toks \/ toks[t].at < e.cutoff

\* The account: a token belongs to a family that logged in, and is never
\* stamped in the future.
TokenInv ==
  /\ \A t \in Tokens : toks[t].at <= clock /\ family[toks[t].fam] \in {"live", "revoked"}
  /\ \A f \in Families : family[f] = "live" => TokensOf(f) # {}
  /\ \A f \in Families : family[f] = "minting" => stamp[f] \in 1 .. clock

\* The log: numbered, at most one account event, nothing ahead of the clock.
LogInv ==
  /\ \A e \in log : e.seq <= lastSeq /\ e.cutoff <= clock
  /\ \A e, o \in log : e.seq = o.seq => e = o
  /\ \A e, o \in AccountEvents(log) : e = o

\* The node: unless a commit was ambiguous, memory and disk agree, and a page
\* in hand is the next part of the log.
StoreInv ==
  /\ \A s \in {db, snapshot} : s.checkpoint <= lastSeq /\ s.cutoff <= clock
  /\ ~poisoned => db = snapshot

PageInv ==
  /\ \A p \in poll.page : p.seq <= lastSeq /\ p.cutoff <= clock
  /\ poll.phase = "fetched" =>
       /\ poll.page # {}
       /\ \A p \in poll.page : p.seq > snapshot.checkpoint
       /\ \A e \in log, p \in poll.page :
            e.seq > snapshot.checkpoint /\ e.seq <= p.seq => e \in poll.page

FeedInv == TokenInv /\ LogInv /\ StoreInv /\ PageInv

\* Who denies a token has a revoked family to show for it.
Justified(d) ==
  /\ \A t \in d.toks : SignedOut(t)
  /\ \A t \in Tokens : ~toks[t].late /\ toks[t].at < d.cutoff => SignedOut(t)

JustInv == \A d \in log \union poll.page \union {db, snapshot} : Justified(d)

\* An account event lists no token stamped after its cutoff.
CutoffInv == \A e \in AccountEvents(log) : \A t \in e.toks : toks[t].at <= e.cutoff

\* The registry: an attachment is opened once and is in one place.
PlaceInv ==
  /\ pending \subseteq opened /\ binding \subseteq opened
  /\ attached # 0 => attached \in opened /\ attached # opening /\ ready
  /\ opening # 0 => opening \in opened
  /\ opening \notin pending \union binding /\ attached \notin pending \union binding
  /\ pending \intersect binding = {}
  /\ binding # {} => ready

RecordShape == record # NoRecord => record.att # 0 /\ record.tok \in Tokens

RecordInv ==
  /\ opening # 0 => record.att \in {0, opening}
  /\ attached # 0 /\ record.att \notin {0, attached} => opening = record.att

RegInv == PlaceInv /\ RecordInv /\ AttachedIsAuthorized

----------------------------------------------------------------------------
(* Numbers and finite sets.                                                  *)

\* A set of naturals that is not empty has a least element.
LEMMA LeastExists ==
  ASSUME NEW S \in SUBSET Nat, S # {}
  PROVE  \E x \in S : \A y \in S : x <= y
<1> DEFINE R == OpToRel(<, Nat)
<1>1. IsWellFoundedOn(R, Nat)
  BY NatLessThanWellFounded
<1> HIDE DEF R
<1>2. PICK x \in S : \A y \in S : ~ (<<y, x>> \in R)
  BY <1>1, WFMin
<1>3. \A y \in S : y < x => <<y, x>> \in R
  BY DEF R, OpToRel
<1>4. \A y \in S : ~ (y < x)
  BY <1>2, <1>3
<1>5. \A y \in S : x <= y
  BY <1>4
<1> QED  BY <1>5

\* Max of a bounded set of naturals that is not empty is its greatest element.
LEMMA MaxOfBounded ==
  ASSUME NEW S \in SUBSET Nat, S # {}, NEW n \in Nat, \A x \in S : x <= n
  PROVE  Max(S) \in S /\ \A y \in S : y <= Max(S)
<1> DEFINE D == {k \in Nat : \E x \in S : k = n - x}
<1>1. D \in SUBSET Nat /\ D # {}
  <2>1. PICK x \in S : TRUE
    OBVIOUS
  <2>2. n - x \in Nat /\ n - x \in D
    BY <2>1
  <2> QED  BY <2>2
<1>2. PICK d \in D : \A k \in D : d <= k
  <2> HIDE DEF D
  <2> QED  BY <1>1, LeastExists
<1>3. PICK x \in S : d = n - x
  BY <1>2
<1>4. \A y \in S : x >= y
  <2> TAKE y \in S
  <2>1. n - y \in D
    OBVIOUS
  <2>2. d <= n - y
    BY <1>2, <2>1
  <2> QED  BY <1>3, <2>2
<1>5. \E m \in S : \A y \in S : m >= y
  BY <1>4
<1>6. Max(S) \in S /\ \A y \in S : Max(S) >= y
  BY <1>5 DEF Max
<1> QED  BY <1>6

\* Events with different numbers up to a bound are finitely many.
LEMMA NumberedFinite ==
  ASSUME NEW E, NEW n \in Nat, \A e \in E : e.seq \in 0 .. n,
         \A e, o \in E : e.seq = o.seq => e = o
  PROVE  IsFiniteSet(E)
<1> DEFINE g == [e \in E |-> e.seq]
<1>1. g \in Injection(E, 0 .. n)
  BY DEF Injection, IsInjective
<1>2. IsFiniteSet(0 .. n)
  BY FS_Interval
<1> QED  BY <1>1, <1>2, FS_Injection

----------------------------------------------------------------------------
(* Types.                                                                    *)

\* The fields of an event.
LEMMA EventFields ==
  ASSUME NEW e \in Events
  PROVE  e.seq \in Nat \ {0} /\ e.cutoff \in Nat /\ e.toks \in SUBSET Tokens
BY DEF Events

\* The fields of a store.
LEMMA StoreFields ==
  ASSUME NEW s \in Stores
  PROVE  s.checkpoint \in Nat /\ s.cutoff \in Nat /\ s.toks \in SUBSET Tokens
BY DEF Stores

\* The fields of a token.
LEMMA TokenFields ==
  ASSUME TypeOK, NEW t \in Tokens
  PROVE  toks[t].at \in Nat /\ toks[t].at \in 1 .. MaxClock /\ toks[t].fam \in Families
         /\ Len(toks) \in Nat
<1> DEFINE T == [fam : Families, at : 1 .. MaxClock, late : BOOLEAN]
<1>1. toks \in Seq(T)
  BY DEF TypeOK
<1> HIDE DEF T
<1>2. toks[t] \in T /\ Len(toks) \in Nat
  BY <1>1 DEF Tokens
<1>3. toks[t].at \in 1 .. MaxClock /\ toks[t].fam \in Families
  BY <1>2 DEF T
<1> QED  BY <1>2, <1>3, RevocationAssumption

\* Numbers of the model.
LEMMA NumberTypes ==
  ASSUME TypeOK
  PROVE  clock \in Nat /\ clock >= 1 /\ clock <= MaxClock /\ lastSeq \in Nat /\ Life \in Nat /\ Life >= 1
         /\ MaxClock \in Nat /\ MaxOpens \in Nat /\ PageLimit \in Nat /\ PageLimit >= 1
         /\ MaxTokens \in Nat /\ MaxFaults \in Nat
BY RevocationAssumption DEF TypeOK

\* A minted token is the last one; the others stay as they are.
LEMMA MintParts ==
  ASSUME TypeOK, NEW f \in Families, NEW at \in 1 .. clock, Mint(f, at)
  PROVE  /\ toks' \in Seq([fam : Families, at : 1 .. MaxClock, late : BOOLEAN])
         /\ Tokens' = Tokens \union {Len(toks) + 1}
         /\ Len(toks) + 1 \notin Tokens
         /\ \A t \in Tokens : toks'[t] = toks[t]
         /\ toks'[Len(toks) + 1].fam = f
         /\ toks'[Len(toks) + 1].at = at
         /\ toks'[Len(toks) + 1].late = (at < clock)
<1> DEFINE n == [fam |-> f, at |-> at, late |-> at < clock]
<1>1. n \in [fam : Families, at : 1 .. MaxClock, late : BOOLEAN]
  BY NumberTypes
<1>2. n.fam = f /\ n.at = at /\ n.late = (at < clock)
  OBVIOUS
<1>3. toks' = Append(toks, n)
  BY DEF Mint
<1> HIDE DEF n
<1>4. toks \in Seq([fam : Families, at : 1 .. MaxClock, late : BOOLEAN])
  BY DEF TypeOK
<1>5. toks' \in Seq([fam : Families, at : 1 .. MaxClock, late : BOOLEAN])
      /\ Len(toks) \in Nat /\ Len(toks') = Len(toks) + 1 /\ toks'[Len(toks) + 1] = n
      /\ \A t \in 1 .. Len(toks) : toks'[t] = toks[t]
  BY <1>1, <1>3, <1>4
<1> QED  BY <1>2, <1>5 DEF Tokens

----------------------------------------------------------------------------
(* The log.                                                                  *)

\* The account events of a log that compaction merges.
Newest(l) == {e \in AccountEvents(l) : \A o \in AccountEvents(l) : o.cutoff <= e.cutoff}

\* Compaction leaves one account event: numbered and dated as the last of the
\* newest, with the tokens of all of them.
LEMMA CompactParts ==
  ASSUME NEW l \in SUBSET Events, NEW n \in Nat, NEW c \in Nat,
         \A e \in l : e.seq <= n /\ e.cutoff <= c, AccountEvents(l) # {}
  PROVE  \E k \in Newest(l), m \in Events :
           /\ \A o \in Newest(l) : o.seq <= k.seq
           /\ CompactAccount(l) = (l \ AccountEvents(l)) \union {m}
           /\ m.seq = k.seq /\ m.cutoff = k.cutoff
           /\ m.toks = UNION {e.toks : e \in Newest(l)}
<1> DEFINE A == AccountEvents(l)
           N == Newest(l)
           C == {e.cutoff : e \in A}
           Q == {e.seq : e \in N}
<1>1. A \subseteq l /\ A \subseteq Events /\ N \subseteq A
  BY DEF AccountEvents, Newest
<1>2. \A e \in A : e.seq \in Nat /\ e.cutoff \in Nat /\ e.toks \in SUBSET Tokens
                   /\ e.seq <= n /\ e.cutoff <= c
  BY <1>1, EventFields
<1>3. N # {}
  <2>1. C \in SUBSET Nat /\ C # {} /\ \A x \in C : x <= c
    BY <1>2
  <2>2. Max(C) \in C /\ \A y \in C : y <= Max(C)
    <3> HIDE DEF C
    <3> QED  BY <2>1, MaxOfBounded
  <2>3. PICK e \in A : e.cutoff = Max(C)
    BY <2>2
  <2>4. \A o \in A : o.cutoff <= e.cutoff
    BY <2>2, <2>3
  <2> QED  BY <2>3, <2>4 DEF Newest
<1>4. \E e \in N : \A o \in N : o.seq <= e.seq
  <2>1. Q \in SUBSET Nat /\ Q # {} /\ \A x \in Q : x <= n
    BY <1>1, <1>2, <1>3
  <2>2. Max(Q) \in Q /\ \A y \in Q : y <= Max(Q)
    <3> HIDE DEF Q
    <3> QED  BY <2>1, MaxOfBounded
  <2>3. PICK e \in N : e.seq = Max(Q)
    BY <2>2
  <2>4. \A o \in N : o.seq <= e.seq
    BY <2>2, <2>3
  <2> QED  BY <2>3, <2>4
<1> DEFINE k == CHOOSE e \in N : \A o \in N : o.seq <= e.seq
           ts == UNION {e.toks : e \in N}
           m == [k EXCEPT !.toks = ts]
<1>5. CompactAccount(l) = (l \ A) \union {m}
  BY DEF CompactAccount, Newest
<1>6. k \in N /\ \A o \in N : o.seq <= k.seq
  <2> HIDE DEF N
  <2> QED  BY <1>4
<1>7. ts \in SUBSET Tokens
  BY <1>1, <1>2
<1>8. k \in Events
  BY <1>1, <1>6
<1>9. m \in Events /\ m.seq = k.seq /\ m.cutoff = k.cutoff /\ m.toks = ts
  <2> HIDE DEF k, ts
  <2> QED  BY <1>7, <1>8 DEF Events
<1> HIDE DEF m, k
<1> QED  BY <1>5, <1>6, <1>9

\* A log with at most one account event is left alone.
LEMMA CompactOne ==
  ASSUME NEW l \in SUBSET Events, NEW n \in Nat, NEW c \in Nat,
         \A e \in l : e.seq <= n /\ e.cutoff <= c,
         \A e, o \in AccountEvents(l) : e = o
  PROVE  CompactAccount(l) = l
<1>1. CASE AccountEvents(l) = {}
  BY <1>1 DEF CompactAccount
<1>2. CASE AccountEvents(l) # {}
  <2>1. PICK k \in Newest(l), m \in Events :
           /\ CompactAccount(l) = (l \ AccountEvents(l)) \union {m}
           /\ m.seq = k.seq /\ m.cutoff = k.cutoff
           /\ m.toks = UNION {e.toks : e \in Newest(l)}
    BY <1>2, CompactParts
  <2>2. AccountEvents(l) = {k} /\ Newest(l) = {k} /\ k \in l /\ k \in Events
    BY <2>1 DEF Newest, AccountEvents
  <2>3. m.toks = k.toks
    BY <2>1, <2>2
  <2>4. m = k
    BY <2>1, <2>2, <2>3 DEF Events
  <2> QED  BY <2>1, <2>2, <2>4
<1> QED  BY <1>1, <1>2

\* An event with the expired tokens pruned.
Pruned(e) == [e EXCEPT !.toks = {t \in e.toks : ~Expired(t)}]

\* Pruning an event only takes expired tokens out of it.
LEMMA PrunedFields ==
  ASSUME NEW e \in Events
  PROVE  /\ Pruned(e) \in Events /\ Pruned(e).seq = e.seq /\ Pruned(e).cutoff = e.cutoff
         /\ Pruned(e).toks = {t \in e.toks : ~Expired(t)}
<1> DEFINE ts == {t \in e.toks : ~Expired(t)}
<1>1. ts \in SUBSET Tokens
  BY EventFields
<1>2. Pruned(e) = [e EXCEPT !.toks = ts]
  BY DEF Pruned
<1> HIDE DEF ts
<1>3. Pruned(e) \in Events /\ Pruned(e).seq = e.seq /\ Pruned(e).cutoff = e.cutoff
      /\ Pruned(e).toks = ts
  BY <1>1, <1>2 DEF Events
<1> QED  BY <1>3 DEF ts

\* The pruned log: the events as they were, without their expired tokens and
\* without the family events that have none left.
LEMMA PrunedParts ==
  ASSUME TypeOK, LogInv
  PROVE  PrunedLog = {p \in {Pruned(e) : e \in log} : p.cutoff > 0 \/ p.toks # {}}
<1> DEFINE P == {p \in {Pruned(e) : e \in log} : p.cutoff > 0 \/ p.toks # {}}
<1>1. PrunedLog = CompactAccount(P)
  BY DEF PrunedLog, Pruned
<1>2. log \in SUBSET Events
  BY DEF TypeOK
<1>3. \A p \in P : \E e \in log : p = Pruned(e)
  OBVIOUS
<1>4. \A e \in log : Pruned(e) \in Events /\ Pruned(e).seq = e.seq /\ Pruned(e).cutoff = e.cutoff
  BY <1>2, PrunedFields
<1> HIDE DEF P
<1>5. P \in SUBSET Events
  BY <1>3, <1>4
<1>6. \A p \in P : p.seq <= lastSeq /\ p.cutoff <= clock
  BY <1>3, <1>4 DEF LogInv
<1>7. \A p, q \in AccountEvents(P) : p = q
  <2> TAKE p, q \in AccountEvents(P)
  <2>1. PICK e \in log : p = Pruned(e)
    BY <1>3 DEF AccountEvents
  <2>2. PICK o \in log : q = Pruned(o)
    BY <1>3 DEF AccountEvents
  <2>3. e \in AccountEvents(log) /\ o \in AccountEvents(log)
    BY <2>1, <2>2, <1>4 DEF AccountEvents
  <2> QED  BY <2>1, <2>2, <2>3 DEF LogInv
<1>8. lastSeq \in Nat /\ clock \in Nat
  BY NumberTypes
<1>9. CompactAccount(P) = P
  BY <1>5, <1>6, <1>7, <1>8, CompactOne
<1> QED  BY <1>1, <1>9 DEF P

\* The first page of a log is not empty and skips no event.
LEMMA FirstPageParts ==
  ASSUME NEW es \in SUBSET Events, es # {}, NEW n \in Nat, \A e \in es : e.seq <= n,
         \A e, o \in es : e.seq = o.seq => e = o
  PROVE  /\ FirstPage(es) \subseteq es /\ FirstPage(es) # {}
         /\ \A e \in es, p \in FirstPage(es) : e.seq <= p.seq => e \in FirstPage(es)
<1> DEFINE Before(e) == {o \in es : o.seq < e.seq}
<1>1. \A e \in es : e.seq \in Nat
  BY EventFields
<1>2. PageLimit \in Nat /\ PageLimit >= 1
  BY RevocationAssumption
<1>3. IsFiniteSet(es)
  BY <1>1, NumberedFinite
<1>4. \E e \in es : Before(e) = {}
  <2> DEFINE Q == {e.seq : e \in es}
  <2>1. Q \in SUBSET Nat /\ Q # {}
    BY <1>1
  <2>2. PICK x \in Q : \A y \in Q : x <= y
    <3> HIDE DEF Q
    <3> QED  BY <2>1, LeastExists
  <2>3. PICK e \in es : e.seq = x
    BY <2>2
  <2>4. \A o \in es : ~ (o.seq < e.seq)
    <3> TAKE o \in es
    <3>1. o.seq \in Q /\ o.seq \in Nat /\ e.seq \in Nat
      BY <1>1
    <3>2. x <= o.seq
      BY <2>2, <3>1
    <3> QED  BY <2>3, <3>1, <3>2
  <2> QED  BY <2>3, <2>4
<1>5. FirstPage(es) # {}
  <2>1. PICK e \in es : Before(e) = {}
    BY <1>4
  <2>2. Cardinality(Before(e)) = 0
    BY <2>1, FS_EmptySet
  <2>3. e \in FirstPage(es)
    BY <1>2, <2>2 DEF FirstPage
  <2> QED  BY <2>3
<1>6. ASSUME NEW e \in es, NEW p \in FirstPage(es), e.seq <= p.seq
      PROVE  e \in FirstPage(es)
  <2>1. p \in es /\ Cardinality(Before(p)) < PageLimit
    BY DEF FirstPage
  <2>2. Before(e) \in SUBSET Before(p) /\ Before(p) \in SUBSET es
    BY <1>1, <1>6, <2>1
  <2>3. IsFiniteSet(Before(p))
    <3> HIDE DEF Before
    <3> QED  BY <1>3, <2>2, FS_Subset
  <2>4. Cardinality(Before(e)) <= Cardinality(Before(p)) /\ IsFiniteSet(Before(e))
    <3> HIDE DEF Before
    <3> QED  BY <2>2, <2>3, FS_Subset
  <2>5. Cardinality(Before(e)) \in Nat /\ Cardinality(Before(p)) \in Nat
    <3> HIDE DEF Before
    <3> QED  BY <2>3, <2>4, FS_CardinalityType
  <2>6. Cardinality(Before(e)) < PageLimit
    <3> HIDE DEF Before
    <3> QED  BY <1>2, <2>1, <2>4, <2>5
  <2> QED  BY <2>6 DEF FirstPage
<1>7. FirstPage(es) \subseteq es
  BY DEF FirstPage
<1> QED  BY <1>5, <1>6, <1>7

\* The store with a page applied: at the last event of the page, with the
\* unexpired tokens of both and the newest cutoff.
LEMMA CandidateParts ==
  ASSUME TypeOK, NEW s \in Stores, NEW page \in SUBSET Events, page # {},
         \A p \in page : p.seq <= lastSeq /\ p.cutoff <= clock, s.cutoff <= clock
  PROVE  /\ Candidate(s, page) \in Stores
         /\ \E p \in page : Candidate(s, page).checkpoint = p.seq
         /\ \A p \in page : p.seq <= Candidate(s, page).checkpoint
         /\ Candidate(s, page).toks
              = {t \in s.toks \union UNION {e.toks : e \in page} : ~Expired(t)}
         /\ s.cutoff <= Candidate(s, page).cutoff
         /\ \A p \in page : p.cutoff <= Candidate(s, page).cutoff
         /\ \/ Candidate(s, page).cutoff = s.cutoff
            \/ \E p \in page : Candidate(s, page).cutoff = p.cutoff
<1> DEFINE Q == {e.seq : e \in page}
           C == {s.cutoff} \union {e.cutoff : e \in page}
           ts == {t \in s.toks \union UNION {e.toks : e \in page} : ~Expired(t)}
<1>1. \A p \in page : p.seq \in Nat /\ p.cutoff \in Nat /\ p.toks \in SUBSET Tokens
  BY EventFields
<1>2. s.cutoff \in Nat /\ s.toks \in SUBSET Tokens
  BY StoreFields
<1>3. lastSeq \in Nat /\ clock \in Nat
  BY NumberTypes
<1>4. Q \in SUBSET Nat /\ Q # {} /\ \A x \in Q : x <= lastSeq
  BY <1>1
<1>5. C \in SUBSET Nat /\ C # {} /\ \A x \in C : x <= clock
  BY <1>1, <1>2
<1>6. Max(Q) \in Q /\ \A y \in Q : y <= Max(Q)
  <2> HIDE DEF Q
  <2> QED  BY <1>3, <1>4, MaxOfBounded
<1>7. Max(C) \in C /\ \A y \in C : y <= Max(C)
  <2> HIDE DEF C
  <2> QED  BY <1>3, <1>5, MaxOfBounded
<1>8. ts \in SUBSET Tokens
  BY <1>1, <1>2
<1>9. Max(Q) \in Nat /\ Max(C) \in Nat
  <2> HIDE DEF Q, C
  <2> QED  BY <1>4, <1>5, <1>6, <1>7
<1>10. Candidate(s, page) = [checkpoint |-> Max(Q), toks |-> ts, cutoff |-> Max(C)]
  BY DEF Candidate
<1>11. Candidate(s, page) \in Stores /\ Candidate(s, page).checkpoint = Max(Q)
       /\ Candidate(s, page).toks = ts /\ Candidate(s, page).cutoff = Max(C)
  <2> HIDE DEF Q, C, ts
  <2> QED  BY <1>8, <1>9, <1>10 DEF Stores
<1>12. PICK p \in page : p.seq = Max(Q)
  BY <1>6
<1>13. \A r \in page : r.seq <= Max(Q) /\ r.cutoff <= Max(C)
  BY <1>6, <1>7
<1>14. s.cutoff <= Max(C) /\ (Max(C) = s.cutoff \/ \E q \in page : Max(C) = q.cutoff)
  BY <1>7
<1> QED
  <2> HIDE DEF Q, C
  <2> QED  BY <1>11, <1>12, <1>13, <1>14

----------------------------------------------------------------------------
(* A step of the account service.                                            *)

FamilyStates == {"none", "minting", "live", "revoked"}
TokenType == [fam : Families, at : 1 .. MaxClock, late : BOOLEAN]

\* The log keeps its numbers and takes at most one event, numbered next.
LogStep ==
  /\ lastSeq' \in Nat /\ lastSeq <= lastSeq'
  /\ log' \in SUBSET Events
  /\ \A e \in log' : \/ e \in log
                     \/ e.seq = lastSeq + 1 /\ lastSeq' = lastSeq + 1 /\ e.cutoff <= clock
  /\ \A e, o \in log' : e.seq = o.seq => e = o
  /\ \A e, o \in AccountEvents(log') : e = o

\* Families are opened, filled and revoked; tokens are added.
FamilyStep ==
  /\ family' \in [Families -> FamilyStates]
  /\ stamp' \in [Families -> 0 .. MaxClock]
  /\ \A f \in Families :
       /\ family[f] = "revoked" => family'[f] = "revoked"
       /\ family[f] = "live" => family'[f] \in {"live", "revoked"}
       /\ family'[f] = "minting" => stamp'[f] \in 1 .. clock
       /\ family'[f] = "live" => family[f] = "live" \/ \E t \in Tokens' : toks'[t].fam = f

TokenStep ==
  /\ toks' \in Seq(TokenType)
  /\ Tokens \subseteq Tokens'
  /\ \A t \in Tokens : toks'[t] = toks[t]
  /\ \A t \in Tokens' \ Tokens :
       /\ family'[toks'[t].fam] = "live"
       /\ toks'[t].at <= clock
       /\ toks'[t].late \/ toks'[t].at = clock

AccountStep ==
  /\ UNCHANGED <<clock, storeVars, regVars, faults>>
  /\ FamilyStep /\ TokenStep /\ LogStep

\* An unchanged log, and unchanged tokens.
LEMMA LogSame ==
  ASSUME TypeOK, LogInv, UNCHANGED <<log, lastSeq>>
  PROVE  LogStep
BY NumberTypes DEF LogStep, LogInv, TypeOK

\* A step that leaves the tokens alone keeps what is known of them.
LEMMA TokenSame ==
  ASSUME TypeOK, UNCHANGED toks
  PROVE  TokenStep
BY DEF TokenStep, TypeOK, Tokens, TokenType

\* The record RevokeFamily and LogoutEverywhere append.
LEMMA AppendedParts ==
  ASSUME TypeOK, NEW c \in Nat, NEW ts \in SUBSET Tokens
  PROVE  \E n \in Events : /\ Appended(c, ts) = log \union {n}
                           /\ n.seq = lastSeq + 1 /\ n.cutoff = c /\ n.toks = ts
<1> DEFINE n == [seq |-> lastSeq + 1, cutoff |-> c, toks |-> ts]
<1>1. n \in Events
  BY NumberTypes DEF Events
<1>2. n.seq = lastSeq + 1 /\ n.cutoff = c /\ n.toks = ts
  OBVIOUS
<1> QED  BY <1>1, <1>2 DEF Appended

\* The revocation of a family keeps the log and adds an event that lists the
\* family's unexpired tokens, if there are any.
LEMMA RevokeFamilyParts ==
  ASSUME TypeOK, LogInv, NEW f \in Families, RevokeFamily(f, clock)
  PROVE  /\ LogStep /\ log \subseteq log'
         /\ \A e \in log' : e \in log \/ (e.cutoff = 0 /\ e.toks = Listed({f}, clock))
         /\ Listed({f}, clock) # {} =>
              \E n \in log' : n.seq = lastSeq + 1 /\ n.toks = Listed({f}, clock)
<1> DEFINE ts == Listed({f}, clock)
<1>1. ts \in SUBSET Tokens
  BY DEF Listed
<1>2. CASE ts = {}
  <2>1. UNCHANGED <<log, lastSeq>>
    BY <1>2 DEF RevokeFamily
  <2>2. LogStep
    BY <2>1, LogSame
  <2> QED  BY <1>2, <2>1, <2>2
<1>3. CASE ts # {}
  <2>1. log' = Appended(0, ts) /\ lastSeq' = lastSeq + 1
    BY <1>3 DEF RevokeFamily
  <2>2. PICK n \in Events : /\ Appended(0, ts) = log \union {n}
                            /\ n.seq = lastSeq + 1 /\ n.cutoff = 0 /\ n.toks = ts
    <3> HIDE DEF ts
    <3> QED  BY <1>1, AppendedParts
  <2>3. log' = log \union {n}
    BY <2>1, <2>2
  <2>4. lastSeq \in Nat /\ clock \in Nat /\ log \in SUBSET Events
    BY NumberTypes DEF TypeOK
  <2>5. \A e \in log : e.seq <= lastSeq /\ e.seq \in Nat
    BY <2>4, EventFields DEF LogInv
  <2>6. AccountEvents(log') = AccountEvents(log)
    BY <2>2, <2>3 DEF AccountEvents
  <2>7. LogStep
    <3>1. \A e, o \in log' : e.seq = o.seq => e = o
      <4>1. \A e \in log : e.seq # n.seq
        BY <2>2, <2>4, <2>5
      <4> QED  BY <2>3, <4>1 DEF LogInv
    <3>2. \A e, o \in AccountEvents(log') : e = o
      BY <2>6 DEF LogInv
    <3>3. \A e \in log' : \/ e \in log
                          \/ e.seq = lastSeq + 1 /\ lastSeq' = lastSeq + 1 /\ e.cutoff <= clock
      BY <2>1, <2>2, <2>3, <2>4
    <3>4. lastSeq' \in Nat /\ lastSeq <= lastSeq' /\ log' \in SUBSET Events
      BY <2>1, <2>3, <2>4
    <3> QED  BY <3>1, <3>2, <3>3, <3>4 DEF LogStep
  <2> QED  BY <2>2, <2>3, <2>7
<1> QED  BY <1>2, <1>3

\* A sign-out everywhere: a new account event takes the tokens of its equal, if
\* there is one, or gives way to a newer one; the family events stay.
LEMMA EverywhereParts ==
  ASSUME TypeOK, LogInv, NEW now \in 1 .. clock, NEW ts \in SUBSET Tokens,
         log' = CompactAccount(Appended(now, ts)), lastSeq' = lastSeq + 1
  PROVE  /\ LogStep
         /\ \A e \in log :
              e \in log' \/ (e.cutoff > 0 /\ \E m \in log' : e.cutoff <= m.cutoff)
         /\ \A m \in log' \ log :
              /\ m.cutoff = now
              /\ m.toks = ts \union UNION {e.toks : e \in {o \in log : o.cutoff = now}}
         /\ (\A e \in log : e.cutoff <= now) =>
              \E m \in log' : /\ m.seq = lastSeq + 1 /\ m.cutoff = now
                              /\ m.toks = ts \union UNION {e.toks : e \in {o \in log : o.cutoff = now}}
<1> DEFINE l == Appended(now, ts)
           eq == {o \in log : o.cutoff = now}
<1>1. PICK n \in Events : l = log \union {n} /\ n.seq = lastSeq + 1 /\ n.cutoff = now /\ n.toks = ts
  <2>1. now \in Nat
    BY NumberTypes
  <2> QED  BY <2>1, AppendedParts
<1>2. lastSeq \in Nat /\ clock \in Nat /\ log \in SUBSET Events /\ now \in Nat /\ now > 0 /\ now <= clock
  BY NumberTypes DEF TypeOK
<1>3. \A e \in log : e.seq <= lastSeq /\ e.seq \in Nat /\ e.cutoff \in Nat /\ e.cutoff <= clock
  BY <1>2, EventFields DEF LogInv
<1>4. l \in SUBSET Events /\ (\A e \in l : e.seq <= lastSeq + 1 /\ e.cutoff <= clock)
      /\ n \in AccountEvents(l) /\ lastSeq + 1 \in Nat
  BY <1>1, <1>2, <1>3 DEF AccountEvents
<1> HIDE DEF l
<1>5. PICK k \in Newest(l), m \in Events :
           /\ \A o \in Newest(l) : o.seq <= k.seq
           /\ CompactAccount(l) = (l \ AccountEvents(l)) \union {m}
           /\ m.seq = k.seq /\ m.cutoff = k.cutoff
           /\ m.toks = UNION {e.toks : e \in Newest(l)}
  BY <1>2, <1>4, CompactParts
<1>6. log' = (l \ AccountEvents(l)) \union {m}
  BY <1>5 DEF l
<1>7. AccountEvents(l) = AccountEvents(log) \union {n}
  BY <1>1, <1>2 DEF AccountEvents
<1>8. Newest(l) \subseteq AccountEvents(l) /\ k \in AccountEvents(l)
      /\ \A o \in AccountEvents(l) : o.cutoff <= k.cutoff
  BY <1>5 DEF Newest
<1>9. l \ AccountEvents(l) \subseteq log
  BY <1>1, <1>7
<1>10. CASE k = n
  <2>1. Newest(l) = eq \union {n}
    <3>1. \A o \in AccountEvents(l) : o.cutoff <= now
      BY <1>1, <1>8, <1>10
    <3>2. \A o \in log : o \in AccountEvents(l) <=> o.cutoff > 0
      BY <1>1, <1>2, <1>7 DEF AccountEvents
    <3>3. \A o \in Newest(l) : o \in log \union {n} /\ o.cutoff = now
      <4> TAKE o \in Newest(l)
      <4>1. n.cutoff <= o.cutoff /\ o \in AccountEvents(l)
        BY <1>4 DEF Newest
      <4>2. o \in l
        BY <4>1 DEF AccountEvents
      <4>3. o.cutoff \in Nat
        BY <1>4, <4>2, EventFields
      <4>4. now <= o.cutoff /\ o.cutoff <= now
        BY <1>1, <3>1, <4>1
      <4>5. o.cutoff = now
        BY <1>2, <4>3, <4>4
      <4> QED  BY <1>1, <4>2, <4>5
    <3>4. eq \subseteq Newest(l)
      <4>1. eq \subseteq AccountEvents(l)
        BY <1>2, <3>2
      <4> QED  BY <3>1, <4>1 DEF Newest
    <3>5. n \in Newest(l)
      BY <1>5, <1>10
    <3> QED  BY <3>3, <3>4, <3>5
  <2>2. m.toks = ts \union UNION {e.toks : e \in eq}
    <3>1. UNION {e.toks : e \in eq \union {n}} = n.toks \union UNION {e.toks : e \in eq}
      <4> HIDE DEF eq
      <4> QED  OBVIOUS
    <3> QED  BY <1>1, <1>5, <2>1, <3>1
  <2>3. m.seq = lastSeq + 1 /\ m.cutoff = now
    BY <1>1, <1>5, <1>10
  <2>4. LogStep
    <3>1. \A e \in log' : e \in log \/ e = m
      BY <1>6, <1>9
    <3>2. \A e, o \in log' : e.seq = o.seq => e = o
      BY <1>2, <1>3, <2>3, <3>1 DEF LogInv
    <3>3. AccountEvents(log') = {m}
      BY <1>2, <1>6, <2>3 DEF AccountEvents
    <3>4. log' \in SUBSET Events
      BY <1>2, <3>1
    <3>5. \A e \in log' : \/ e \in log
                          \/ e.seq = lastSeq + 1 /\ lastSeq' = lastSeq + 1 /\ e.cutoff <= clock
      BY <1>2, <2>3, <3>1
    <3>6. lastSeq' \in Nat /\ lastSeq <= lastSeq'
      BY <1>2
    <3> QED  BY <3>2, <3>3, <3>4, <3>5, <3>6 DEF LogStep
  <2>5. m \in log'
    BY <1>6
  <2>6. \A e \in log : e \in log' \/ (e.cutoff > 0 /\ e.cutoff <= m.cutoff)
    <3> TAKE e \in log
    <3>1. CASE e \in AccountEvents(l)
      BY <1>5, <1>8, <3>1 DEF AccountEvents
    <3>2. CASE e \notin AccountEvents(l)
      BY <1>1, <1>6, <3>2
    <3> QED  BY <3>1, <3>2
  <2>7. \A e \in log' \ log : e = m
    BY <1>6, <1>9
  <2> QED  BY <2>2, <2>3, <2>4, <2>5, <2>6, <2>7
<1>11. CASE k # n
  <2>1. k \in AccountEvents(log) /\ k \in log
    BY <1>7, <1>8, <1>11 DEF AccountEvents
  <2>2. AccountEvents(log) = {k}
    BY <2>1 DEF LogInv
  <2>3. n \notin Newest(l)
    <3> SUFFICES ASSUME n \in Newest(l) PROVE FALSE
      OBVIOUS
    <3>1. n.seq <= k.seq /\ k.seq <= lastSeq /\ k.seq \in Nat
      BY <1>3, <1>5, <2>1
    <3> QED  BY <1>1, <1>2, <3>1
  <2>4. Newest(l) = {k}
    BY <1>5, <1>7, <1>8, <2>2, <2>3
  <2>5. m.toks = k.toks
    BY <1>5, <2>4
  <2>6. m = k
    <3>1. k \in Events
      BY <1>2, <2>1
    <3> QED  BY <1>5, <2>5, <3>1 DEF Events
  <2>7. log' = log
    <3>1. l \ AccountEvents(l) = log \ {k}
      <4>1. n \notin log
        BY <1>1, <1>2, <1>3
      <4> QED  BY <1>1, <1>7, <2>2, <4>1
    <3> QED  BY <1>6, <2>1, <2>6, <3>1
  <2>8. k.cutoff > now
    <3>1. now <= k.cutoff /\ k.cutoff \in Nat
      BY <1>1, <1>3, <1>4, <1>8, <2>1
    <3>2. k.cutoff # now
      <4> SUFFICES ASSUME k.cutoff = now PROVE n \in Newest(l)
        BY <2>3
      <4> QED  BY <1>1, <1>4, <1>8 DEF Newest
    <3> QED  BY <1>2, <3>1, <3>2
  <2>9. LogStep
    BY <1>2, <2>7 DEF LogStep, LogInv
  <2>10. (\A e \in log : e.cutoff <= now) => FALSE
    BY <1>2, <1>3, <2>1, <2>8
  <2> QED  BY <2>7, <2>9, <2>10
<1> QED  BY <1>10, <1>11

\* What holds of the numbers and the account in every reachable state.
BaseInv == TypeOK /\ RecordShape /\ FeedInv

\* A login at the cap or below it.
LEMMA LoginStartStep ==
  ASSUME BaseInv, NEW f \in Families, LoginStart(f)
  PROVE  AccountStep
<1> USE DEF BaseInv, FeedInv
<1>0. TypeOK /\ LogInv /\ TokenInv
  OBVIOUS
<1>1. UNCHANGED <<clock, storeVars, regVars, faults>> /\ UNCHANGED toks
  BY DEF LoginStart
<1>2. family[f] = "none" /\ stamp' = [stamp EXCEPT ![f] = clock]
  BY DEF LoginStart
<1>3. family \in [Families -> FamilyStates] /\ stamp \in [Families -> 0 .. MaxClock]
  BY <1>0 DEF TypeOK, FamilyStates
<1>4. clock \in 0 .. MaxClock /\ clock \in 1 .. clock
  BY <1>0, NumberTypes
<1>5. stamp' \in [Families -> 0 .. MaxClock] /\ stamp'[f] \in 1 .. clock
      /\ \A g \in Families : g # f => stamp'[g] = stamp[g]
  BY <1>2, <1>3, <1>4
<1>6. TokenStep
  BY <1>0, <1>1, TokenSame
<1>7. \A g \in Families : family[g] = "minting" => stamp[g] \in 1 .. clock
  BY <1>0 DEF TokenInv
<1>8. CASE Cardinality(LiveFamilies) < MaxFamilies
  <2>1. family' = [family EXCEPT ![f] = "minting"] /\ UNCHANGED <<log, lastSeq>>
    BY <1>8 DEF LoginStart
  <2>2. LogStep
    BY <1>0, <2>1, LogSame
  <2>3. FamilyStep
    BY <1>2, <1>3, <1>5, <1>7, <2>1 DEF FamilyStep, FamilyStates
  <2> QED  BY <1>1, <1>6, <2>2, <2>3 DEF AccountStep
<1>9. CASE ~ (Cardinality(LiveFamilies) < MaxFamilies)
  <2>1. PICK o \in LiveFamilies :
             /\ family' = [family EXCEPT ![f] = "minting", ![o] = "revoked"]
             /\ RevokeFamily(o, clock)
    BY <1>9 DEF LoginStart
  <2>2. LogStep
    BY <1>0, <2>1, RevokeFamilyParts DEF LiveFamilies
  <2>3. FamilyStep
    BY <1>2, <1>3, <1>5, <1>7, <2>1 DEF FamilyStep, FamilyStates, LiveFamilies
  <2> QED  BY <1>1, <1>6, <2>2, <2>3 DEF AccountStep
<1> QED  BY <1>8, <1>9

\* The insert of a login, and a rotation: a token of a live family.
LEMMA MintStep ==
  ASSUME BaseInv, NEW f \in Families, NEW at \in 1 .. clock, Mint(f, at),
         family' \in [Families -> FamilyStates], family'[f] = "live",
         \A g \in Families : g # f => family'[g] = family[g],
         family[f] \in {"minting", "live"},
         UNCHANGED <<clock, stamp, log, lastSeq, storeVars, regVars, faults>>
  PROVE  AccountStep
<1> USE DEF BaseInv, FeedInv
<1>0. TypeOK /\ LogInv /\ TokenInv
  OBVIOUS
<1>1. UNCHANGED <<clock, storeVars, regVars, faults>> /\ UNCHANGED stamp
  OBVIOUS
<1>2. LogStep
  BY <1>0, LogSame
<1>3. /\ toks' \in Seq([fam : Families, at : 1 .. MaxClock, late : BOOLEAN])
      /\ Tokens' = Tokens \union {Len(toks) + 1}
      /\ Len(toks) + 1 \notin Tokens
      /\ \A t \in Tokens : toks'[t] = toks[t]
      /\ toks'[Len(toks) + 1].fam = f
      /\ toks'[Len(toks) + 1].at = at
      /\ toks'[Len(toks) + 1].late = (at < clock)
  BY <1>0, MintParts
<1>4. clock \in Nat /\ (at < clock \/ at = clock) /\ at <= clock
  BY <1>0, NumberTypes
<1>5. TokenStep
  <2>1. \A t \in Tokens' \ Tokens : t = Len(toks) + 1
    BY <1>3
  <2>2. toks'[Len(toks) + 1].late \/ toks'[Len(toks) + 1].at = clock
    BY <1>3, <1>4
  <2>3. toks' \in Seq(TokenType) /\ Tokens \subseteq Tokens'
    BY <1>3 DEF TokenType
  <2> QED  BY <1>3, <1>4, <2>1, <2>2, <2>3 DEF TokenStep
<1>6. FamilyStep
  <2>1. \A g \in Families : family[g] = "minting" => stamp[g] \in 1 .. clock
    BY <1>0 DEF TokenInv
  <2>2. stamp \in [Families -> 0 .. MaxClock]
    BY <1>0 DEF TypeOK
  <2>3. \E t \in Tokens' : toks'[t].fam = f
    BY <1>3
  <2> QED  BY <1>1, <2>1, <2>2, <2>3 DEF FamilyStep
<1> QED  BY <1>1, <1>2, <1>5, <1>6 DEF AccountStep

\* A login's insert adds a token of a family that was minting.
LEMMA LoginInsertStep ==
  ASSUME BaseInv, NEW f \in Families, LoginInsert(f)
  PROVE  AccountStep
<1>1. TypeOK /\ TokenInv
  BY DEF BaseInv, FeedInv
<1>2. family \in [Families -> FamilyStates] /\ family[f] = "minting"
  BY <1>1 DEF TypeOK, FamilyStates, LoginInsert
<1>3. stamp[f] \in 1 .. clock
  BY <1>1, <1>2 DEF TokenInv
<1>4. family' = [family EXCEPT ![f] = "live"]
  BY DEF LoginInsert
<1>5. family' \in [Families -> FamilyStates] /\ family'[f] = "live"
      /\ \A g \in Families : g # f => family'[g] = family[g]
  BY <1>2, <1>4 DEF FamilyStates
<1>6. UNCHANGED <<clock, stamp, log, lastSeq, storeVars, regVars, faults>>
  BY DEF LoginInsert
<1>7. Mint(f, stamp[f])
  BY DEF LoginInsert
<1> QED  BY <1>2, <1>3, <1>5, <1>6, <1>7, MintStep

\* A rotation adds a token to a live family; a reuse revokes it.
LEMMA RefreshStep ==
  ASSUME BaseInv, NEW f \in Families, Refresh(f)
  PROVE  AccountStep
<1> USE DEF BaseInv, FeedInv
<1>1. TypeOK /\ TokenInv
  OBVIOUS
<1>2. family \in [Families -> FamilyStates] /\ family[f] = "live"
  BY <1>1 DEF TypeOK, FamilyStates, Refresh
<1>3. TokensOf(f) # {} /\ TokensOf(f) \subseteq Tokens
  BY <1>1, <1>2 DEF TokenInv, TokensOf
<1>4. Max(TokensOf(f)) \in Tokens
  <2>1. Len(toks) \in Nat
    BY <1>3, TokenFields, <1>1
  <2>2. TokensOf(f) \in SUBSET Nat /\ \A x \in TokensOf(f) : x <= Len(toks)
    BY <1>3, <2>1 DEF Tokens
  <2> QED  BY <1>3, <2>1, <2>2, MaxOfBounded
<1>5. PICK at \in toks[Max(TokensOf(f))].at .. clock : Mint(f, at)
  BY DEF Refresh
<1>6. at \in 1 .. clock
  <2>1. toks[Max(TokensOf(f))].at \in 1 .. MaxClock
    BY <1>1, <1>4, TokenFields
  <2> QED  BY <1>1, <2>1, NumberTypes
<1>7. UNCHANGED <<clock, stamp, log, lastSeq, storeVars, regVars, faults>> /\ UNCHANGED family
  BY DEF Refresh
<1> QED  BY <1>2, <1>5, <1>6, <1>7, MintStep

\* A logout, and a reuse: the family is revoked with an event.
LEMMA RevokeStep ==
  ASSUME BaseInv, NEW f \in Families, Logout(f) \/ ReuseDetected(f)
  PROVE  AccountStep
<1> USE DEF BaseInv, FeedInv
<1>0. TypeOK /\ LogInv /\ TokenInv
  OBVIOUS
<1>1. UNCHANGED <<clock, storeVars, regVars, faults>> /\ UNCHANGED toks /\ UNCHANGED stamp
  BY DEF Logout, ReuseDetected
<1>2. family[f] = "live" /\ family' = [family EXCEPT ![f] = "revoked"] /\ RevokeFamily(f, clock)
  BY DEF Logout, ReuseDetected
<1>3. family \in [Families -> FamilyStates] /\ stamp \in [Families -> 0 .. MaxClock]
  BY <1>0 DEF TypeOK, FamilyStates
<1>4. LogStep
  BY <1>0, <1>2, RevokeFamilyParts
<1>5. TokenStep
  BY <1>0, <1>1, TokenSame
<1>6. \A g \in Families : family[g] = "minting" => stamp[g] \in 1 .. clock
  BY <1>0 DEF TokenInv
<1>7. FamilyStep
  BY <1>1, <1>2, <1>3, <1>6 DEF FamilyStep, FamilyStates
<1> QED  BY <1>1, <1>4, <1>5, <1>7 DEF AccountStep

\* A sign-out everywhere revokes the live families and appends one event.
LEMMA EverywhereStep ==
  ASSUME BaseInv, NEW now \in 1 .. MaxClock, LogoutEverywhere(now)
  PROVE  AccountStep
<1> USE DEF BaseInv, FeedInv
<1>0. TypeOK /\ LogInv /\ TokenInv
  OBVIOUS
<1>1. UNCHANGED <<clock, storeVars, regVars, faults>> /\ UNCHANGED toks /\ UNCHANGED stamp
  BY DEF LogoutEverywhere
<1>2. family' = [f \in Families |-> IF family[f] = "live" THEN "revoked" ELSE family[f]]
  BY DEF LogoutEverywhere
<1>3. family \in [Families -> FamilyStates] /\ stamp \in [Families -> 0 .. MaxClock]
  BY <1>0 DEF TypeOK, FamilyStates
<1>4. now \in 1 .. clock
  BY <1>0, NumberTypes DEF LogoutEverywhere
<1> DEFINE ts == {t \in Listed(LiveFamilies, now) : toks[t].at >= now}
<1>5. ts \in SUBSET Tokens
  BY DEF Listed
<1>6. log' = CompactAccount(Appended(now, ts)) /\ lastSeq' = lastSeq + 1
  BY DEF LogoutEverywhere
<1>7. LogStep
  <2> HIDE DEF ts
  <2> QED  BY <1>0, <1>4, <1>5, <1>6, EverywhereParts
<1>8. TokenStep
  BY <1>0, <1>1, TokenSame
<1>9. \A g \in Families : family[g] = "minting" => stamp[g] \in 1 .. clock
  BY <1>0 DEF TokenInv
<1>10. FamilyStep
  BY <1>1, <1>2, <1>3, <1>9 DEF FamilyStep, FamilyStates
<1> QED  BY <1>1, <1>7, <1>8, <1>10 DEF AccountStep

\* Every step of the account service is one.
LEMMA AccountsStep ==
  ASSUME BaseInv, Accounts
  PROVE  AccountStep
BY LoginStartStep, LoginInsertStep, RefreshStep, RevokeStep, EverywhereStep DEF Accounts

----------------------------------------------------------------------------
(* The numbers, the log and the store.                                       *)

\* Types stay types when tokens are added.
LEMMA GrowTypes ==
  ASSUME Tokens \subseteq Tokens'
  PROVE  Events \subseteq Events' /\ Stores \subseteq Stores' /\ Attempts \subseteq Attempts'
BY DEF Events, Stores, Attempts

\* What a step that leaves the account, the log and the store alone keeps.
LEMMA FeedSame ==
  ASSUME FeedInv, UNCHANGED <<clock, asVars, storeVars>>
  PROVE  FeedInv'
BY DEF FeedInv, asVars, storeVars, TokenInv, LogInv, StoreInv, PageInv, Tokens, TokensOf,
       AccountEvents

\* Types of the registry; types of everything else.
RegType ==
  /\ record \in Attempts
  /\ opening \in 0 .. MaxOpens
  /\ ready \in BOOLEAN
  /\ {opened, pending, binding, closing} \subseteq SUBSET Attachments
  /\ attached \in 0 .. MaxOpens
  /\ RecordShape

FeedType ==
  /\ clock \in 1 .. MaxClock
  /\ family \in [Families -> FamilyStates]
  /\ stamp \in [Families -> 0 .. MaxClock]
  /\ toks \in Seq(TokenType)
  /\ lastSeq \in Nat
  /\ log \in SUBSET Events
  /\ db \in Stores /\ snapshot \in Stores
  /\ poisoned \in BOOLEAN
  /\ poll \in [phase : {"idle", "fetched", "applied"}, page : SUBSET Events]

\* The type invariant is that of the feed and that of the registry.
LEMMA TypeSplit == TypeOK /\ RecordShape <=> FeedType /\ RegType /\ faults \in 0 .. MaxFaults
BY DEF TypeOK, FeedType, RegType, FamilyStates, TokenType

\* Steps of the account service keep the base invariant.
LEMMA AccountBase ==
  ASSUME BaseInv, AccountStep
  PROVE  BaseInv'
<1> USE DEF BaseInv
<1>1. FeedType /\ RegType /\ faults \in 0 .. MaxFaults /\ TypeOK
  BY TypeSplit
<1>2. TokenInv /\ LogInv /\ StoreInv /\ PageInv
  BY DEF FeedInv
<1>3. clock' = clock /\ db' = db /\ snapshot' = snapshot /\ poisoned' = poisoned /\ poll' = poll
      /\ UNCHANGED regVars /\ faults' = faults
  BY DEF AccountStep, storeVars
<1>4. FamilyStep /\ TokenStep /\ LogStep
  BY DEF AccountStep
<1>5. Events \subseteq Events' /\ Stores \subseteq Stores' /\ Attempts \subseteq Attempts'
  BY <1>4, GrowTypes DEF TokenStep
<1>6. RegType'
  BY <1>1, <1>3, <1>4, <1>5 DEF RegType, RecordShape, regVars, Attachments, TokenStep
<1>7. FeedType'
  <2>1. log' \in SUBSET Events' /\ lastSeq' \in Nat
    BY <1>4, <1>5 DEF LogStep
  <2>2. db' \in Stores' /\ snapshot' \in Stores'
    BY <1>1, <1>3, <1>5 DEF FeedType
  <2>3. poll' \in [phase : {"idle", "fetched", "applied"}, page : SUBSET Events']
    <3>1. poll \in [phase : {"idle", "fetched", "applied"}, page : SUBSET Events]
      BY <1>1 DEF FeedType
    <3> QED  BY <1>3, <1>5, <3>1
  <2>4. toks' \in Seq(TokenType) /\ family' \in [Families -> FamilyStates]
        /\ stamp' \in [Families -> 0 .. MaxClock]
    BY <1>4 DEF TokenStep, FamilyStep
  <2>5. clock' \in 1 .. MaxClock /\ poisoned' \in BOOLEAN
    BY <1>1, <1>3 DEF FeedType
  <2> QED  BY <2>1, <2>2, <2>3, <2>4, <2>5 DEF FeedType, TokenType
<1>8. lastSeq \in Nat /\ clock \in Nat /\ lastSeq' \in Nat /\ lastSeq <= lastSeq'
  BY <1>1, <1>4, NumberTypes DEF LogStep
<1>9. TokenInv'
  <2>1. \A t \in Tokens' : toks'[t].at <= clock /\ family'[toks'[t].fam] \in {"live", "revoked"}
    <3> TAKE t \in Tokens'
    <3>1. CASE t \in Tokens
      <4>1. toks[t].fam \in Families
        BY <1>1, <3>1, TokenFields
      <4> QED  BY <1>2, <1>4, <3>1, <4>1 DEF TokenInv, TokenStep, FamilyStep
    <3>2. CASE t \notin Tokens
      BY <1>4, <3>2 DEF TokenStep
    <3> QED  BY <3>1, <3>2
  <2>2. \A f \in Families : family'[f] = "live" => \E t \in Tokens' : toks'[t].fam = f
    <3> TAKE f \in Families
    <3>1. CASE family[f] = "live"
      <4>1. PICK t \in Tokens : toks[t].fam = f
        BY <1>2, <3>1 DEF TokenInv, TokensOf
      <4> QED  BY <1>4, <4>1 DEF TokenStep
    <3>2. CASE family[f] # "live"
      BY <1>4, <3>2 DEF FamilyStep
    <3> QED  BY <3>1, <3>2
  <2>3. \A f \in Families : family'[f] = "minting" => stamp'[f] \in 1 .. clock
    BY <1>4 DEF FamilyStep
  <2> QED  BY <1>3, <2>1, <2>2, <2>3 DEF TokenInv, TokensOf
<1>10. \A e \in log' : e.seq \in Nat /\ e.cutoff \in Nat
  BY <1>4, EventFields DEF LogStep
<1>11. LogInv'
  <2>1. \A e \in log' : e.seq <= lastSeq' /\ e.cutoff <= clock'
    <3> TAKE e \in log'
    <3>1. CASE e \in log
      BY <1>2, <1>3, <1>8, <1>10, <3>1 DEF LogInv
    <3>2. CASE e \notin log
      BY <1>3, <1>4, <1>8, <3>2 DEF LogStep
    <3> QED  BY <3>1, <3>2
  <2> QED  BY <1>4, <2>1 DEF LogInv, LogStep, AccountEvents
<1>12. StoreInv'
  <2>1. \A s \in {db, snapshot} : s.checkpoint \in Nat
    BY <1>1, StoreFields DEF FeedType
  <2> QED  BY <1>2, <1>3, <1>8, <2>1 DEF StoreInv
<1>13. PageInv'
  <2>1. poll.page \in SUBSET Events /\ snapshot.checkpoint \in Nat
    BY <1>1, StoreFields DEF FeedType
  <2>2. \A p \in poll.page : p.seq \in Nat /\ p.seq <= lastSeq /\ p.cutoff <= clock
    BY <1>2, <2>1, EventFields DEF PageInv
  <2>3. \A p \in poll.page : p.seq <= lastSeq' /\ p.cutoff <= clock'
    BY <1>3, <1>8, <2>2
  <2>4. ASSUME poll.phase = "fetched",
               NEW e \in log', NEW p \in poll.page,
               e.seq > snapshot.checkpoint, e.seq <= p.seq
        PROVE  e \in poll.page
    <3>1. e \in log
      <4>1. e.seq <= lastSeq
        BY <1>8, <1>10, <2>2, <2>4
      <4> QED  BY <1>4, <1>8, <1>10, <4>1 DEF LogStep
    <3> QED  BY <1>2, <2>4, <3>1 DEF PageInv
  <2> QED  BY <1>2, <1>3, <2>3, <2>4 DEF PageInv
<1>14. FeedInv'
  BY <1>9, <1>11, <1>12, <1>13 DEF FeedInv
<1>15. TypeOK' /\ RecordShape'
  <2>1. faults' \in 0 .. MaxFaults
    BY <1>1, <1>3
  <2> QED  BY <1>6, <1>7, <2>1 DEF TypeOK, FeedType, RegType, FamilyStates, TokenType
<1> QED  BY <1>14, <1>15

\* The clock keeps it: nothing is compared with the clock but by an upper bound.
LEMMA TickBase ==
  ASSUME BaseInv, Tick
  PROVE  BaseInv'
<1> USE DEF BaseInv
<1>1. FeedType /\ RegType /\ faults \in 0 .. MaxFaults /\ TypeOK
  BY TypeSplit
<1>2. TokenInv /\ LogInv /\ StoreInv /\ PageInv
  BY DEF FeedInv
<1>3. clock' = clock + 1 /\ clock < MaxClock
  BY DEF Tick
<1>4. UNCHANGED <<asVars, storeVars, regVars, faults>>
  BY DEF Tick
<1>5. clock \in Nat /\ MaxClock \in Nat /\ clock' \in 1 .. MaxClock
  BY <1>1, <1>3, NumberTypes
<1>6. TypeOK' /\ RecordShape'
  <2>1. Tokens' = Tokens
    BY <1>4 DEF asVars, Tokens
  <2>2. Events' = Events /\ Stores' = Stores /\ Attempts' = Attempts
    BY <2>1 DEF Events, Stores, Attempts
  <2>3. FeedType'
    BY <1>1, <1>4, <1>5, <2>2 DEF FeedType, asVars, storeVars
  <2>4. RegType' /\ faults' \in 0 .. MaxFaults
    BY <1>1, <1>4, <2>1, <2>2 DEF RecordShape, RegType, regVars, Attachments
  <2> QED  BY <2>3, <2>4 DEF TypeOK, FeedType, RegType, FamilyStates, TokenType
<1>7. TokenInv'
  <2>1. \A t \in Tokens : toks[t].at \in Nat /\ toks[t].at <= clock'
    BY <1>1, <1>2, <1>3, <1>5, TokenFields DEF TokenInv
  <2>2. \A f \in Families : family[f] = "minting" => stamp[f] \in 1 .. clock'
    BY <1>2, <1>3, <1>5 DEF TokenInv
  <2> QED  BY <1>2, <1>4, <2>1, <2>2 DEF TokenInv, asVars, Tokens, TokensOf
<1>8. LogInv'
  <2>1. \A e \in log : e.cutoff \in Nat /\ e.cutoff <= clock'
    BY <1>1, <1>2, <1>3, <1>5, EventFields DEF LogInv, FeedType
  <2> QED  BY <1>2, <1>4, <2>1 DEF LogInv, asVars, AccountEvents
<1>9. StoreInv'
  <2>1. \A s \in {db, snapshot} : s.cutoff \in Nat /\ s.cutoff <= clock'
    BY <1>1, <1>2, <1>3, <1>5, StoreFields DEF StoreInv, FeedType
  <2> QED  BY <1>2, <1>4, <2>1 DEF StoreInv, asVars, storeVars
<1>10. PageInv'
  <2>1. \A p \in poll.page : p.cutoff \in Nat /\ p.cutoff <= clock'
    BY <1>1, <1>2, <1>3, <1>5, EventFields DEF PageInv, FeedType
  <2> QED  BY <1>2, <1>4, <2>1 DEF PageInv, asVars, storeVars
<1> QED  BY <1>6, <1>7, <1>8, <1>9, <1>10 DEF FeedInv

\* The pruned log is a log.
LEMMA PrunedLogInv ==
  ASSUME BaseInv
  PROVE  /\ PrunedLog \in SUBSET Events
         /\ \A p \in PrunedLog : p.seq <= lastSeq /\ p.cutoff <= clock
         /\ \A p, q \in PrunedLog : p.seq = q.seq => p = q
         /\ \A p, q \in AccountEvents(PrunedLog) : p = q
         /\ \A p \in PrunedLog : \E e \in log : p = Pruned(e)
<1>1. TypeOK /\ LogInv /\ log \in SUBSET Events
  BY DEF BaseInv, FeedInv, TypeOK
<1>2. PrunedLog = {p \in {Pruned(e) : e \in log} : p.cutoff > 0 \/ p.toks # {}}
  BY <1>1, PrunedParts
<1>3. \A p \in PrunedLog : \E e \in log : p = Pruned(e)
  BY <1>2
<1>4. \A e \in log : Pruned(e) \in Events /\ Pruned(e).seq = e.seq /\ Pruned(e).cutoff = e.cutoff
  BY <1>1, PrunedFields
<1>5. \A p \in PrunedLog : p \in Events /\ p.seq <= lastSeq /\ p.cutoff <= clock
  BY <1>1, <1>3, <1>4 DEF LogInv
<1>6. \A p, q \in PrunedLog : p.seq = q.seq => p = q
  BY <1>1, <1>3, <1>4 DEF LogInv
<1>7. \A p, q \in AccountEvents(PrunedLog) : p = q
  <2> TAKE p, q \in AccountEvents(PrunedLog)
  <2>1. PICK e \in log : p = Pruned(e)
    BY <1>3 DEF AccountEvents
  <2>2. PICK o \in log : q = Pruned(o)
    BY <1>3 DEF AccountEvents
  <2>3. e \in AccountEvents(log) /\ o \in AccountEvents(log)
    BY <2>1, <2>2, <1>4 DEF AccountEvents
  <2> QED  BY <1>1, <2>1, <2>2, <2>3 DEF LogInv
<1> QED  BY <1>3, <1>5, <1>6, <1>7

\* Types and account invariants of a step that leaves tokens and families alone.
LEMMA QuietAccount ==
  ASSUME BaseInv, UNCHANGED <<clock, family, stamp, toks>>
  PROVE  /\ Tokens' = Tokens /\ Events' = Events /\ Stores' = Stores /\ Attempts' = Attempts
         /\ TokenInv'
         /\ clock' \in 1 .. MaxClock /\ family' \in [Families -> FamilyStates]
         /\ stamp' \in [Families -> 0 .. MaxClock] /\ toks' \in Seq(TokenType)
<1>1. Tokens' = Tokens
  BY DEF Tokens
<1>2. Events' = Events /\ Stores' = Stores /\ Attempts' = Attempts
  BY <1>1 DEF Events, Stores, Attempts
<1>3. TokenInv /\ FeedType
  BY TypeSplit DEF BaseInv, FeedInv
<1>4. TokenInv'
  BY <1>3 DEF TokenInv, Tokens, TokensOf
<1>5. clock' \in 1 .. MaxClock /\ family' \in [Families -> FamilyStates]
         /\ stamp' \in [Families -> 0 .. MaxClock] /\ toks' \in Seq(TokenType)
  BY <1>3 DEF FeedType
<1> QED  BY <1>1, <1>2, <1>4, <1>5

\* The parts of the base invariant put together.
LEMMA JoinBase ==
  ASSUME FeedType', RegType', faults' \in 0 .. MaxFaults,
         TokenInv', LogInv', StoreInv', PageInv'
  PROVE  BaseInv'
BY DEF BaseInv, FeedInv, TypeOK, FeedType, RegType, FamilyStates, TokenType

\* What the base invariant says, for citing in one name.
LEMMA BaseParts ==
  ASSUME BaseInv
  PROVE  /\ TypeOK /\ FeedType /\ RegType /\ faults \in 0 .. MaxFaults
         /\ TokenInv /\ LogInv /\ StoreInv /\ PageInv
         /\ log \in SUBSET Events /\ db \in Stores /\ snapshot \in Stores
         /\ poll.page \in SUBSET Events /\ poll.phase \in {"idle", "fetched", "applied"}
         /\ lastSeq \in Nat /\ clock \in Nat
BY TypeSplit, NumberTypes DEF BaseInv, FeedInv, FeedType

\* Types of the registry survive a step that leaves it alone.
LEMMA RegTypeSame ==
  ASSUME BaseInv, UNCHANGED regVars, Attempts' = Attempts, Tokens' = Tokens
  PROVE  RegType'
BY BaseParts DEF RegType, RecordShape, regVars, Attachments

\* FetchPage hands out the next part of the pruned log.
LEMMA FetchBase ==
  ASSUME BaseInv, FetchPage
  PROVE  BaseInv'
<1> DEFINE after == {e \in PrunedLog : e.seq > snapshot.checkpoint}
           page == FirstPage(after)
<1>1. /\ after # {} /\ log' = PrunedLog
      /\ poll' = [phase |-> "fetched", page |-> page]
      /\ UNCHANGED <<clock, family, stamp, toks>>
      /\ lastSeq' = lastSeq /\ db' = db /\ snapshot' = snapshot /\ poisoned' = poisoned
      /\ UNCHANGED regVars /\ faults' = faults
  BY DEF FetchPage
<1>2. /\ TypeOK /\ FeedType /\ faults \in 0 .. MaxFaults /\ StoreInv
      /\ snapshot \in Stores /\ db \in Stores /\ lastSeq \in Nat /\ clock \in Nat
  BY BaseParts
<1>3. /\ Tokens' = Tokens /\ Events' = Events /\ Stores' = Stores /\ Attempts' = Attempts
      /\ TokenInv'
      /\ clock' \in 1 .. MaxClock /\ family' \in [Families -> FamilyStates]
      /\ stamp' \in [Families -> 0 .. MaxClock] /\ toks' \in Seq(TokenType)
  BY <1>1, QuietAccount
<1>4. /\ PrunedLog \in SUBSET Events
      /\ \A p \in PrunedLog : p.seq <= lastSeq /\ p.cutoff <= clock
      /\ \A p, q \in PrunedLog : p.seq = q.seq => p = q
      /\ \A p, q \in AccountEvents(PrunedLog) : p = q
  BY PrunedLogInv
<1>5. after \in SUBSET Events /\ after \subseteq PrunedLog
  BY <1>4
<1>6. /\ page \subseteq after /\ page # {}
      /\ \A e \in after, p \in page : e.seq <= p.seq => e \in page
  <2>1. \A e \in after : e.seq <= lastSeq
    BY <1>4
  <2>2. \A e, o \in after : e.seq = o.seq => e = o
    BY <1>4
  <2> HIDE DEF after
  <2> QED  BY <1>1, <1>2, <1>5, <2>1, <2>2, FirstPageParts
<1>7. poll'.phase = "fetched" /\ poll'.page = page
  BY <1>1
<1>8. poll' \in [phase : {"idle", "fetched", "applied"}, page : SUBSET Events']
  <2>1. page \in SUBSET Events
    BY <1>5, <1>6
  <2> HIDE DEF page
  <2> QED  BY <1>1, <1>3, <2>1
<1>9. FeedType'
  BY <1>1, <1>2, <1>3, <1>4, <1>8 DEF FeedType, TokenType
<1>10. RegType'
  BY <1>1, <1>3, RegTypeSame
<1>11. LogInv'
  BY <1>1, <1>4 DEF LogInv, AccountEvents
<1>12. StoreInv'
  BY <1>1, <1>2 DEF StoreInv
<1>13. PageInv'
  <2>1. \A p \in page : p.seq <= lastSeq /\ p.cutoff <= clock /\ p.seq > snapshot.checkpoint
    BY <1>4, <1>6
  <2>2. \A e \in PrunedLog, p \in page :
            e.seq > snapshot.checkpoint /\ e.seq <= p.seq => e \in page
    BY <1>6
  <2> HIDE DEF page
  <2> QED  BY <1>1, <1>6, <1>7, <2>1, <2>2 DEF PageInv
<1> QED  BY <1>1, <1>2, <1>3, <1>9, <1>10, <1>11, <1>12, <1>13, JoinBase

\* The store with the page in hand applied.
LEMMA ApplyParts ==
  ASSUME BaseInv, poll.phase = "fetched", NEW s \in {db, snapshot}
  PROVE  /\ Candidate(s, poll.page) \in Stores
         /\ \E p \in poll.page : Candidate(s, poll.page).checkpoint = p.seq
         /\ \A p \in poll.page : p.seq <= Candidate(s, poll.page).checkpoint
         /\ Candidate(s, poll.page).toks
              = {t \in s.toks \union UNION {e.toks : e \in poll.page} : ~Expired(t)}
         /\ s.cutoff <= Candidate(s, poll.page).cutoff
         /\ \A p \in poll.page : p.cutoff <= Candidate(s, poll.page).cutoff
         /\ \/ Candidate(s, poll.page).cutoff = s.cutoff
            \/ \E p \in poll.page : Candidate(s, poll.page).cutoff = p.cutoff
         /\ Candidate(s, poll.page).checkpoint <= lastSeq
         /\ Candidate(s, poll.page).cutoff <= clock
<1>1. /\ TypeOK /\ StoreInv /\ PageInv /\ s \in Stores /\ poll.page \in SUBSET Events
  BY BaseParts
<1>2. poll.page # {} /\ \A p \in poll.page : p.seq <= lastSeq /\ p.cutoff <= clock
  BY <1>1 DEF PageInv
<1>3. s.cutoff <= clock
  BY <1>1 DEF StoreInv
<1> DEFINE c == Candidate(s, poll.page)
<1>4. /\ c \in Stores
      /\ \E p \in poll.page : c.checkpoint = p.seq
      /\ \A p \in poll.page : p.seq <= c.checkpoint
      /\ c.toks = {t \in s.toks \union UNION {e.toks : e \in poll.page} : ~Expired(t)}
      /\ s.cutoff <= c.cutoff
      /\ \A p \in poll.page : p.cutoff <= c.cutoff
      /\ c.cutoff = s.cutoff \/ \E p \in poll.page : c.cutoff = p.cutoff
  BY <1>1, <1>2, <1>3, CandidateParts
<1>5. c.checkpoint <= lastSeq /\ c.cutoff <= clock
  <2> HIDE DEF c
  <2> QED  BY <1>2, <1>3, <1>4
<1> QED  BY <1>4, <1>5

\* A step of the poll that leaves the log alone.
LEMMA ConsumerBase ==
  ASSUME BaseInv, ApplyPage \/ ApplyPageAmbiguous \/ ApplyPageRefused
  PROVE  BaseInv'
<1>1. UNCHANGED <<clock, family, stamp, toks>> /\ log' = log /\ lastSeq' = lastSeq /\ UNCHANGED regVars
  BY DEF ApplyPage, ApplyPageAmbiguous, ApplyPageRefused, asVars
<1>2. poll.phase = "fetched"
  BY DEF ApplyPage, ApplyPageAmbiguous, ApplyPageRefused
<1>3. /\ TypeOK /\ FeedType /\ faults \in 0 .. MaxFaults /\ StoreInv /\ LogInv /\ PageInv
      /\ snapshot \in Stores /\ db \in Stores /\ lastSeq \in Nat /\ clock \in Nat
  BY BaseParts
<1>4. /\ Tokens' = Tokens /\ Events' = Events /\ Stores' = Stores /\ Attempts' = Attempts
      /\ TokenInv'
      /\ clock' \in 1 .. MaxClock /\ family' \in [Families -> FamilyStates]
      /\ stamp' \in [Families -> 0 .. MaxClock] /\ toks' \in Seq(TokenType)
  BY <1>1, QuietAccount
<1>5. \A s \in {db, snapshot} :
         /\ Candidate(s, poll.page) \in Stores
         /\ Candidate(s, poll.page).checkpoint <= lastSeq
         /\ Candidate(s, poll.page).cutoff <= clock
  BY <1>2, ApplyParts
<1>6. poll' \in [phase : {"idle", "fetched", "applied"}, page : SUBSET Events]
      /\ poll'.phase # "fetched" /\ (poll'.page = poll.page \/ poll'.page = {})
  <2>1. poll \in [phase : {"idle", "fetched", "applied"}, page : SUBSET Events]
    BY <1>3 DEF FeedType
  <2>2. CASE poll' = [poll EXCEPT !.phase = "applied"]
    BY <2>1, <2>2
  <2>3. CASE poll' = NoPoll
    BY <2>3 DEF NoPoll
  <2> QED  BY <2>2, <2>3 DEF ApplyPage, ApplyPageAmbiguous, ApplyPageRefused
<1>7. /\ db' \in {db, Candidate(db, poll.page)}
      /\ snapshot' \in {snapshot, Candidate(snapshot, poll.page)}
  BY DEF ApplyPage, ApplyPageAmbiguous, ApplyPageRefused
<1>8. poisoned' \in BOOLEAN /\ (~poisoned' => db' = snapshot')
  <2>1. ~poisoned => db = snapshot
    BY <1>3 DEF StoreInv
  <2>2. poisoned \in BOOLEAN
    BY <1>3 DEF FeedType
  <2>3. CASE ApplyPage
    BY <2>1, <2>2, <2>3 DEF ApplyPage
  <2>4. CASE ApplyPageAmbiguous
    BY <2>4 DEF ApplyPageAmbiguous
  <2>5. CASE ApplyPageRefused
    BY <2>1, <2>2, <2>5 DEF ApplyPageRefused
  <2> QED  BY <2>3, <2>4, <2>5
<1>9. faults' \in 0 .. MaxFaults
  <2>1. MaxFaults \in Nat
    BY <1>3, NumberTypes
  <2> QED  BY <1>3, <2>1 DEF ApplyPage, ApplyPageAmbiguous, ApplyPageRefused
<1>10. FeedType'
  <2>1. db' \in Stores /\ snapshot' \in Stores
    BY <1>3, <1>5, <1>7
  <2>2. log \in SUBSET Events
    BY <1>3 DEF FeedType
  <2> QED  BY <1>1, <1>3, <1>4, <1>6, <1>8, <2>1, <2>2 DEF FeedType, TokenType
<1>11. RegType'
  BY <1>1, <1>4, RegTypeSame
<1>12. LogInv'
  BY <1>1, <1>3 DEF LogInv, AccountEvents
<1>13. StoreInv'
  BY <1>1, <1>3, <1>5, <1>7, <1>8 DEF StoreInv
<1>14. PageInv'
  BY <1>1, <1>3, <1>6 DEF PageInv
<1> QED  BY <1>4, <1>9, <1>10, <1>11, <1>12, <1>13, <1>14, JoinBase

\* A step of the registry leaves the account, the log and the store alone, and
\* the poll too, unless it ends it.
RegStep ==
  /\ UNCHANGED <<clock, asVars, db, snapshot, poisoned, faults>>
  /\ poll' = poll \/ poll' = NoPoll

\* A step of the registry keeps the base invariant if it keeps its types.
LEMMA RegBase ==
  ASSUME BaseInv, RegStep, RegType'
  PROVE  BaseInv'
<1>1. UNCHANGED <<clock, family, stamp, toks>> /\ log' = log /\ lastSeq' = lastSeq
      /\ db' = db /\ snapshot' = snapshot /\ poisoned' = poisoned /\ faults' = faults
  BY DEF RegStep, asVars
<1>2. /\ TypeOK /\ FeedType /\ faults \in 0 .. MaxFaults /\ StoreInv /\ LogInv /\ PageInv
      /\ snapshot \in Stores /\ db \in Stores
  BY BaseParts
<1>3. /\ Tokens' = Tokens /\ Events' = Events /\ Stores' = Stores /\ Attempts' = Attempts
      /\ TokenInv'
      /\ clock' \in 1 .. MaxClock /\ family' \in [Families -> FamilyStates]
      /\ stamp' \in [Families -> 0 .. MaxClock] /\ toks' \in Seq(TokenType)
  BY <1>1, QuietAccount
<1>4. poll' \in [phase : {"idle", "fetched", "applied"}, page : SUBSET Events]
      /\ (poll' = poll \/ (poll'.phase = "idle" /\ poll'.page = {}))
  BY <1>2 DEF RegStep, FeedType, NoPoll
<1>5. FeedType'
  BY <1>1, <1>2, <1>3, <1>4 DEF FeedType, TokenType
<1>6. LogInv' /\ StoreInv'
  BY <1>1, <1>2 DEF LogInv, AccountEvents, StoreInv
<1>7. PageInv'
  BY <1>1, <1>2, <1>4 DEF PageInv
<1> QED  BY <1>1, <1>2, <1>3, <1>5, <1>6, <1>7, JoinBase

\* The registry's actions.
Registry == RevokePage \/ ReceiveLoop \/ Timers \/ Launcher

\* The registry's operations touch neither the account service nor the store.
LEMMA RegistryStep ==
  ASSUME Registry
  PROVE  RegStep
BY DEF Registry, ReceiveLoop, Timers, Launcher, RevokePage, OpenSession, Reauthenticate,
       CloseSession, Bind, BindRefused, Expire, RunClose, PumpReady, BindPending, RegStep,
       storeVars

\* closeAttachment empties what it touches or leaves it.
LEMMA CloseParts ==
  ASSUME NEW a, CloseAttachment(a)
  PROVE  \/ UNCHANGED <<record, pending, attached>> /\ record # NoRecord /\ record.att # a
         \/ /\ record' = NoRecord /\ pending' = {} /\ attached' = 0
            /\ record = NoRecord \/ record.att = a
BY DEF CloseAttachment

\* A record of an attachment and a token is one.
LEMMA AttemptParts ==
  ASSUME NEW a \in Attachments, NEW t \in Tokens, TypeOK
  PROVE  /\ [att |-> a, tok |-> t] \in Attempts
         /\ [att |-> a, tok |-> t].att = a /\ [att |-> a, tok |-> t].tok = t
         /\ a # 0 /\ t # 0
BY NumberTypes DEF Attempts, Attachments, Tokens

\* The fields of an empty authorization slot.
LEMMA NoRecordParts == NoRecord \in Attempts /\ NoRecord.att = 0 /\ NoRecord.tok = 0
BY RevocationAssumption DEF NoRecord, Attempts

\* The registry's operations keep its types.
LEMMA RegistryType ==
  ASSUME BaseInv, Registry
  PROVE  RegType'
<1> USE DEF NoOpen
<1>1. RegStep /\ RegType /\ TypeOK
  BY BaseParts, RegistryStep
<1>2. Attempts' = Attempts /\ Tokens' = Tokens
  <2>1. UNCHANGED <<clock, family, stamp, toks>>
    BY <1>1 DEF RegStep, asVars
  <2> QED  BY <2>1, QuietAccount
<1> DEFINE Held == {r \in Attempts : r # NoRecord => r.att # 0 /\ r.tok \in Tokens}
<1>3. /\ record \in Held /\ opening \in 0 .. MaxOpens /\ ready \in BOOLEAN
      /\ opened \in SUBSET Attachments /\ pending \in SUBSET Attachments
      /\ binding \in SUBSET Attachments /\ closing \in SUBSET Attachments
      /\ attached \in 0 .. MaxOpens
  BY <1>1 DEF RegType, RecordShape
<1>4. NoRecord \in Held /\ 0 \in 0 .. MaxOpens /\ MaxOpens \in Nat
  BY <1>1, NoRecordParts, NumberTypes
<1>5. record # NoRecord => record.att \in Attachments
  <2>1. record.att \in 0 .. MaxOpens
    BY <1>3 DEF Attempts
  <2> QED  BY <1>3, <1>4, <2>1 DEF Attachments
<1>6. SUFFICES /\ record' \in Held /\ opening' \in 0 .. MaxOpens /\ ready' \in BOOLEAN
               /\ opened' \in SUBSET Attachments /\ pending' \in SUBSET Attachments
               /\ binding' \in SUBSET Attachments /\ closing' \in SUBSET Attachments
               /\ attached' \in 0 .. MaxOpens
  BY <1>2 DEF RegType, RecordShape, Attachments
<1>7. \A a \in Attachments, t \in Tokens : [att |-> a, tok |-> t] \in Held
  BY <1>1, AttemptParts
<1> HIDE DEF Held
<1>8. \A a : CloseAttachment(a) => /\ record' \in Held /\ pending' \in SUBSET Attachments
                                   /\ attached' \in 0 .. MaxOpens
  BY <1>3, <1>4, CloseParts
<1>9. ASSUME NEW a \in Attachments, NEW t \in Tokens, OpenSession(a, t)
      PROVE  <1>6!1
  <2>1. /\ opened' = opened \union {a} /\ UNCHANGED <<ready, binding, closing>>
        /\ opening' \in {opening, a} /\ a \in 0 .. MaxOpens
    BY <1>9 DEF OpenSession, Attachments
  <2>2. record' \in Held /\ pending' \in SUBSET Attachments /\ attached' \in 0 .. MaxOpens
    BY <1>3, <1>7, <1>8, <1>9 DEF OpenSession
  <2> QED  BY <1>3, <2>1, <2>2
<1>10. ASSUME NEW a \in Attachments, NEW t \in Tokens, Reauthenticate(a, t)
       PROVE  <1>6!1
  <2>1. UNCHANGED <<opening, opened, ready, binding, closing>>
    BY <1>10 DEF Reauthenticate
  <2>2. record' \in Held /\ pending' \in SUBSET Attachments /\ attached' \in 0 .. MaxOpens
    BY <1>3, <1>7, <1>8, <1>10 DEF Reauthenticate
  <2> QED  BY <1>3, <2>1, <2>2
<1>11. ASSUME NEW a \in Attachments, CloseSession(a)
       PROVE  <1>6!1
  <2>1. UNCHANGED <<opening, opened, ready, binding, closing>> /\ CloseAttachment(a)
    BY <1>11 DEF CloseSession
  <2> QED  BY <1>3, <1>8, <2>1
<1>12. CASE Bind
  <2>1. UNCHANGED <<record, opened, ready, binding, closing>> /\ opening' = 0 /\ opening # 0
    BY <1>12 DEF Bind
  <2>2. pending' \in {pending, pending \union {opening}} /\ attached' \in {attached, opening}
    BY <1>12 DEF Bind
  <2>3. opening \in Attachments
    BY <1>3, <1>4, <2>1 DEF Attachments
  <2> QED  BY <1>3, <1>4, <2>1, <2>2, <2>3
<1>13. CASE BindRefused
  <2>1. UNCHANGED <<opened, ready, binding, closing>> /\ opening' = 0 /\ CloseAttachment(opening)
    BY <1>13 DEF BindRefused
  <2> QED  BY <1>3, <1>4, <1>8, <2>1
<1>14. CASE RevokePage \/ Expire
  <2>1. UNCHANGED <<opening, opened, ready, pending, binding, attached>>
    BY <1>14 DEF RevokePage, Expire
  <2>2. record' \in {record, NoRecord}
        /\ (closing' = closing \/ (record # NoRecord /\ closing' = closing \union {record.att}))
    BY <1>14 DEF RevokePage, Expire
  <2> QED  BY <1>3, <1>4, <1>5, <2>1, <2>2
<1>15. ASSUME NEW a \in Attachments, RunClose(a)
       PROVE  <1>6!1
  <2>1. UNCHANGED <<opening, opened, ready, binding>> /\ closing' = closing \ {a}
        /\ CloseAttachment(a)
    BY <1>15 DEF RunClose
  <2> QED  BY <1>3, <1>8, <2>1
<1>16. CASE PumpReady
  <2>1. UNCHANGED <<record, opening, opened, attached, closing>> /\ ready' = TRUE
        /\ binding' = binding \union pending /\ pending' = {}
    BY <1>16 DEF PumpReady
  <2> QED  BY <1>3, <2>1
<1>17. ASSUME NEW a \in Attachments, BindPending(a)
       PROVE  <1>6!1
  <2>1. UNCHANGED <<opening, opened, ready, pending, closing>> /\ binding' = binding \ {a}
        /\ attached' \in {a, attached} /\ record' \in {record, NoRecord}
    BY <1>17 DEF BindPending
  <2> QED  BY <1>3, <1>4, <2>1 DEF Attachments
<1> QED  BY <1>9, <1>10, <1>11, <1>12, <1>13, <1>14, <1>15, <1>16, <1>17
         DEF Registry, ReceiveLoop, Timers, Launcher

\* A lost connection, and a restart, start the registry anew.
LEMMA FaultBase ==
  ASSUME BaseInv, Disconnect \/ Restart
  PROVE  BaseInv'
<1> USE DEF NoOpen
<1>1. UNCHANGED <<clock, family, stamp, toks>> /\ log' = log /\ lastSeq' = lastSeq /\ opened' = opened
  BY DEF Disconnect, Restart, asVars
<1>2. /\ TypeOK /\ FeedType /\ RegType /\ faults \in 0 .. MaxFaults /\ StoreInv /\ LogInv /\ PageInv
      /\ snapshot \in Stores /\ db \in Stores
  BY BaseParts
<1>3. /\ Tokens' = Tokens /\ Events' = Events /\ Stores' = Stores /\ Attempts' = Attempts
      /\ TokenInv'
      /\ clock' \in 1 .. MaxClock /\ family' \in [Families -> FamilyStates]
      /\ stamp' \in [Families -> 0 .. MaxClock] /\ toks' \in Seq(TokenType)
  BY <1>1, QuietAccount
<1>4. RegType'
  <2>1. record' = NoRecord /\ opening' = 0 /\ ready' = FALSE /\ pending' = {}
        /\ binding' = {} /\ closing' = {} /\ attached' = 0
    BY DEF Disconnect, Restart
  <2>2. opened \in SUBSET Attachments /\ MaxOpens \in Nat
    BY <1>2, NumberTypes DEF RegType
  <2>3. NoRecord \in Attempts'
    BY <1>3, NoRecordParts
  <2>4. RecordShape'
    BY <2>1 DEF RecordShape
  <2>5. opening' \in 0 .. MaxOpens /\ attached' \in 0 .. MaxOpens
    BY <2>1, <2>2
  <2>7. ready' \in BOOLEAN
    BY <2>1
  <2>6. opened' \in SUBSET Attachments /\ pending' \in SUBSET Attachments
        /\ binding' \in SUBSET Attachments /\ closing' \in SUBSET Attachments
    BY <1>1, <2>1, <2>2
  <2> QED  BY <2>1, <2>3, <2>4, <2>5, <2>6, <2>7 DEF RegType, Attachments
<1>5. faults' \in 0 .. MaxFaults
  <2>1. MaxFaults \in Nat /\ faults' = faults + 1 /\ faults < MaxFaults
    BY <1>2, NumberTypes DEF Disconnect, Restart
  <2> QED  BY <1>2, <2>1
<1>6. LogInv'
  BY <1>1, <1>2 DEF LogInv, AccountEvents
<1>7. CASE Disconnect
  <2>1. db' = db /\ snapshot' = snapshot /\ poisoned' = poisoned /\ poll' = poll
    BY <1>7 DEF Disconnect, storeVars
  <2>2. FeedType'
    BY <1>1, <1>2, <1>3, <2>1 DEF FeedType, TokenType
  <2>3. StoreInv' /\ PageInv'
    BY <1>1, <1>2, <2>1 DEF StoreInv, PageInv
  <2> QED  BY <1>3, <1>4, <1>5, <1>6, <2>2, <2>3, JoinBase
<1>8. CASE Restart
  <2> DEFINE ts == {t \in db.toks : ~Expired(t)}
  <2>1. /\ db' = [db EXCEPT !.toks = ts] /\ snapshot' = db' /\ poisoned' = FALSE
        /\ poll' = NoPoll
    BY <1>8 DEF Restart
  <2>2. ts \in SUBSET Tokens
    BY <1>2, StoreFields
  <2>3. db' \in Stores /\ db'.checkpoint = db.checkpoint /\ db'.cutoff = db.cutoff
    <3> HIDE DEF ts
    <3> QED  BY <1>2, <2>1, <2>2 DEF Stores
  <2>4. poll' \in [phase : {"idle", "fetched", "applied"}, page : SUBSET Events']
        /\ poll'.phase = "idle" /\ poll'.page = {}
    BY <2>1 DEF NoPoll
  <2>5. FeedType'
    <3>1. log \in SUBSET Events /\ lastSeq \in Nat
      BY <1>2 DEF FeedType
    <3> HIDE DEF ts
    <3> QED  BY <1>1, <1>3, <2>1, <2>3, <2>4, <3>1 DEF FeedType, TokenType
  <2>6. StoreInv'
    <3> HIDE DEF ts
    <3> QED  BY <1>1, <1>2, <2>1, <2>3 DEF StoreInv
  <2>7. PageInv'
    BY <2>4 DEF PageInv
  <2> QED  BY <1>3, <1>4, <1>5, <1>6, <2>5, <2>6, <2>7, JoinBase
<1> QED  BY <1>7, <1>8

\* A step that changes nothing.
LEMMA StutterBase ==
  ASSUME BaseInv, UNCHANGED vars
  PROVE  BaseInv'
<1>1. RegStep
  BY DEF vars, RegStep, storeVars
<1>2. RegType'
  <2>1. UNCHANGED <<clock, family, stamp, toks>> /\ UNCHANGED regVars
    BY DEF vars, asVars
  <2> QED  BY <2>1, QuietAccount, RegTypeSame
<1> QED  BY <1>1, <1>2, RegBase

\* The start.
LEMMA InitBase == Init => BaseInv
<1> SUFFICES ASSUME Init PROVE BaseInv
  OBVIOUS
<1> USE DEF Init
<1>1. Tokens = {}
  BY DEF Tokens
<1>2. EmptyStore \in Stores /\ EmptyStore.checkpoint = 0 /\ EmptyStore.cutoff = 0
  BY DEF EmptyStore, Stores
<1>3. NoPoll \in [phase : {"idle", "fetched", "applied"}, page : SUBSET Events]
      /\ NoPoll.phase = "idle" /\ NoPoll.page = {}
  BY DEF NoPoll
<1>4. MaxClock \in Nat /\ MaxClock >= 1 /\ MaxOpens \in Nat /\ MaxFaults \in Nat
  BY RevocationAssumption
<1>5. FeedType
  <2>1. family \in [Families -> FamilyStates] /\ stamp \in [Families -> 0 .. MaxClock]
    BY <1>4 DEF FamilyStates
  <2>2. toks \in Seq(TokenType) /\ clock \in 1 .. MaxClock
    <3> HIDE DEF TokenType
    <3> QED  BY <1>4
  <2> QED  BY <1>2, <1>3, <2>1, <2>2 DEF FeedType
<1>6. RegType /\ faults \in 0 .. MaxFaults
  <2>1. record \in Attempts /\ RecordShape
    BY NoRecordParts DEF RecordShape
  <2>2. opening \in 0 .. MaxOpens /\ attached \in 0 .. MaxOpens /\ faults \in 0 .. MaxFaults
    BY <1>4 DEF NoOpen
  <2>4. ready \in BOOLEAN
    OBVIOUS
  <2>3. opened \in SUBSET Attachments /\ pending \in SUBSET Attachments
        /\ binding \in SUBSET Attachments /\ closing \in SUBSET Attachments
    OBVIOUS
  <2> QED  BY <2>1, <2>2, <2>3, <2>4 DEF RegType
<1>7. TypeOK /\ RecordShape
  BY <1>5, <1>6, TypeSplit
<1>8. TokenInv
  BY <1>1 DEF TokenInv
<1>9. LogInv /\ StoreInv /\ PageInv
  BY <1>2, <1>3 DEF LogInv, StoreInv, PageInv, AccountEvents
<1> QED  BY <1>7, <1>8, <1>9 DEF BaseInv, FeedInv

\* Every step keeps the base invariant.
LEMMA NextBase ==
  ASSUME BaseInv, [Next]_vars
  PROVE  BaseInv'
<1>1. CASE Registry
  BY <1>1, RegistryStep, RegistryType, RegBase
<1>2. CASE Accounts
  BY <1>2, AccountsStep, AccountBase
<1> QED
  BY <1>1, <1>2, TickBase, FetchBase, ConsumerBase, FaultBase, StutterBase
  DEF Next, Consumer, Registry

\* Every variable of the account service, the node's store and the registry
\* keeps its shape, whatever the numbers of families, tokens and attachments.
THEOREM RevocationTypeCorrect == Spec => []TypeOK
<1>1. BaseInv /\ [Next]_vars => BaseInv'
  BY NextBase
<1>2. BaseInv => TypeOK
  BY DEF BaseInv
<1> QED  BY InitBase, <1>1, <1>2, PTL DEF Spec

----------------------------------------------------------------------------
(* Nobody is denied without a revoked family.                                *)

\* A sign-out is final.
LEMMA SignedOutStays ==
  ASSUME BaseInv, AccountStep, NEW t \in Tokens, SignedOut(t)
  PROVE  SignedOut(t)'
<1>1. toks[t].fam \in Families /\ toks'[t] = toks[t]
  BY BaseParts, TokenFields DEF AccountStep, TokenStep
<1> QED  BY <1>1 DEF SignedOut, AccountStep, FamilyStep

\* What was justified stays so while tokens are added: a token that is not late
\* is stamped with the clock, which no cutoff is ahead of.
LEMMA JustifiedStays ==
  ASSUME BaseInv, AccountStep, NEW d, Justified(d), d.toks \subseteq Tokens,
         d.cutoff \in Nat, d.cutoff <= clock
  PROVE  Justified(d)'
<1>1. \A t \in d.toks : SignedOut(t)'
  BY SignedOutStays DEF Justified
<1>2. ASSUME NEW t \in Tokens', ~toks'[t].late, toks'[t].at < d.cutoff
      PROVE  SignedOut(t)'
  <2>1. CASE t \in Tokens
    <3>1. toks'[t] = toks[t]
      BY <2>1 DEF AccountStep, TokenStep
    <3> QED  BY <1>2, <2>1, <3>1, SignedOutStays DEF Justified
  <2>2. CASE t \notin Tokens
    <3>1. toks'[t].at = clock
      BY <1>2, <2>2 DEF AccountStep, TokenStep
    <3>2. clock \in Nat
      BY BaseParts
    <3> QED  BY <1>2, <3>1, <3>2
  <2> QED  BY <2>1, <2>2
<1> QED  BY <1>1, <1>2 DEF Justified

\* A step of the account service whose event, if any, is justified.
LEMMA AccountJust ==
  ASSUME BaseInv, JustInv, AccountStep, \A e \in log' \ log : Justified(e)'
  PROVE  JustInv'
<1>1. /\ log \in SUBSET Events /\ poll.page \in SUBSET Events
      /\ db \in Stores /\ snapshot \in Stores /\ LogInv /\ PageInv /\ StoreInv
  BY BaseParts
<1>2. \A e \in log \union poll.page : e.toks \subseteq Tokens /\ e.cutoff \in Nat /\ e.cutoff <= clock
  BY <1>1, EventFields DEF LogInv, PageInv
<1>3. \A s \in {db, snapshot} : s.toks \subseteq Tokens /\ s.cutoff \in Nat /\ s.cutoff <= clock
  BY <1>1, StoreFields DEF StoreInv
<1>4. \A d \in log \union poll.page \union {db, snapshot} : Justified(d)'
  BY <1>2, <1>3, JustifiedStays DEF JustInv
<1>5. poll' = poll /\ db' = db /\ snapshot' = snapshot
  BY DEF AccountStep, storeVars
<1>6. \A d \in log' \union poll'.page \union {db', snapshot'} : Justified(d)'
  BY <1>4, <1>5
<1> QED  BY <1>6 DEF JustInv

\* The event of a revoked family.
LEMMA RevokedJust ==
  ASSUME BaseInv, NEW f \in Families, RevokeFamily(f, clock), toks' = toks, family'[f] = "revoked"
  PROVE  \A e \in log' \ log : Justified(e)'
<1>1. TypeOK /\ LogInv
  BY BaseParts
<1>2. \A e \in log' \ log : e.cutoff = 0 /\ e.toks = Listed({f}, clock)
  BY <1>1, RevokeFamilyParts
<1>3. \A t \in Listed({f}, clock) : SignedOut(t)'
  BY DEF Listed, SignedOut
<1>4. \A t \in Tokens' : ~ (toks'[t].at < 0)
  <2>1. Tokens' = Tokens
    BY DEF Tokens
  <2> QED  BY <1>1, <2>1, TokenFields
<1> QED  BY <1>2, <1>3, <1>4 DEF Justified

\* Every event the account service appends names revoked tokens only.
LEMMA AccountsJust ==
  ASSUME BaseInv, JustInv, Accounts
  PROVE  JustInv'
<1>1. AccountStep
  BY AccountsStep
<1>2. TypeOK /\ TokenInv /\ LogInv /\ family \in [Families -> FamilyStates]
  BY BaseParts DEF FeedType
<1>3. ASSUME NEW f \in Families, LoginStart(f)
      PROVE  \A e \in log' \ log : Justified(e)'
  <2>1. CASE log' = log
    BY <2>1
  <2>2. CASE log' # log
    <3>1. PICK o \in LiveFamilies :
             /\ family' = [family EXCEPT ![f] = "minting", ![o] = "revoked"]
             /\ RevokeFamily(o, clock)
      BY <1>3, <2>2 DEF LoginStart
    <3>2. o \in Families /\ family'[o] = "revoked" /\ toks' = toks
      BY <1>2, <1>3, <3>1 DEF LiveFamilies, LoginStart
    <3> QED  BY <3>1, <3>2, RevokedJust
  <2> QED  BY <2>1, <2>2
<1>4. ASSUME NEW f \in Families, LoginInsert(f) \/ Refresh(f)
      PROVE  \A e \in log' \ log : Justified(e)'
  BY <1>4 DEF LoginInsert, Refresh
<1>5. ASSUME NEW f \in Families, Logout(f) \/ ReuseDetected(f)
      PROVE  \A e \in log' \ log : Justified(e)'
  <2>1. RevokeFamily(f, clock) /\ family' = [family EXCEPT ![f] = "revoked"] /\ toks' = toks
    BY <1>5 DEF Logout, ReuseDetected
  <2>2. family'[f] = "revoked"
    BY <1>2, <2>1
  <2> QED  BY <2>1, <2>2, RevokedJust
<1>6. ASSUME NEW now \in 1 .. MaxClock, LogoutEverywhere(now)
      PROVE  \A e \in log' \ log : Justified(e)'
  <2>1. toks' = toks
        /\ family' = [f \in Families |-> IF family[f] = "live" THEN "revoked" ELSE family[f]]
    BY <1>6 DEF LogoutEverywhere
  <2>2. \A t \in Tokens : SignedOut(t)'
    <3> TAKE t \in Tokens
    <3>1. toks[t].fam \in Families /\ family[toks[t].fam] \in {"live", "revoked"}
      BY <1>2, TokenFields DEF TokenInv
    <3> QED  BY <2>1, <3>1 DEF SignedOut
  <2>3. \A e \in log' : e.toks \subseteq Tokens
    BY <1>1, EventFields DEF AccountStep, LogStep
  <2>4. Tokens' = Tokens
    BY <2>1 DEF Tokens
  <2> QED  BY <2>2, <2>3, <2>4 DEF Justified
<1> QED  BY <1>1, <1>3, <1>4, <1>5, <1>6, AccountJust DEF Accounts

\* Justified does not depend on the clock, the log or the store.
LEMMA JustifiedQuiet ==
  ASSUME UNCHANGED <<family, toks>>, NEW d, Justified(d)
  PROVE  Justified(d)'
BY DEF Justified, SignedOut, Tokens

\* Who denies less than the justified is justified.
LEMMA JustifiedLess ==
  ASSUME NEW d, NEW D, \A x \in D : Justified(x),
         \A t \in d.toks : \E x \in D : t \in x.toks,
         d.cutoff = 0 \/ \E x \in D : d.cutoff = x.cutoff, TypeOK
  PROVE  Justified(d)
<1>1. \A t \in d.toks : SignedOut(t)
  BY DEF Justified
<1>2. ASSUME NEW t \in Tokens, ~toks[t].late, toks[t].at < d.cutoff
      PROVE  SignedOut(t)
  <2>1. d.cutoff # 0
    BY <1>2, TokenFields
  <2> QED  BY <1>2, <2>1 DEF Justified
<1> QED  BY <1>1, <1>2 DEF Justified

\* Every step keeps denials justified: pages and stores copy what the log says.
LEMMA NextJust ==
  ASSUME BaseInv, JustInv, [Next]_vars
  PROVE  JustInv'
<1>1. CASE Accounts
  BY <1>1, AccountsJust
<1>2. CASE Tick \/ Disconnect \/ Registry \/ UNCHANGED vars
  <2>1. UNCHANGED <<family, toks>> /\ log' = log /\ db' = db /\ snapshot' = snapshot
        /\ (poll' = poll \/ poll'.page = {})
    <3>1. CASE Registry
      BY <3>1, RegistryStep DEF RegStep, asVars, NoPoll
    <3>2. CASE Tick \/ Disconnect
      BY <3>2 DEF Tick, Disconnect, asVars, storeVars
    <3>3. CASE UNCHANGED vars
      BY <3>3 DEF vars, asVars, storeVars
    <3> QED  BY <1>2, <3>1, <3>2, <3>3
  <2>2. \A d \in log' \union poll'.page \union {db', snapshot'} : Justified(d)
    BY <2>1 DEF JustInv
  <2>3. \A d \in log' \union poll'.page \union {db', snapshot'} : Justified(d)'
    BY <2>1, <2>2, JustifiedQuiet
  <2> QED  BY <2>3 DEF JustInv
<1>3. ASSUME UNCHANGED <<family, toks>>,
             \A d \in log' \union poll'.page \union {db', snapshot'} : Justified(d)
      PROVE  JustInv'
  <2>1. \A d \in log' \union poll'.page \union {db', snapshot'} : Justified(d)'
    BY <1>3, JustifiedQuiet
  <2> QED  BY <2>1 DEF JustInv
<1>4. TypeOK /\ log \in SUBSET Events /\ db \in Stores /\ snapshot \in Stores
  BY BaseParts
<1>5. CASE FetchPage
  <2>1. UNCHANGED <<family, toks>> /\ log' = PrunedLog /\ db' = db /\ snapshot' = snapshot
        /\ poll'.page = FirstPage({e \in PrunedLog : e.seq > snapshot.checkpoint})
    BY <1>5 DEF FetchPage
  <2>2. poll'.page \subseteq PrunedLog
    BY <2>1 DEF FirstPage
  <2>3. ASSUME NEW p \in PrunedLog
        PROVE  Justified(p)
    <3>1. PICK e \in log : p = Pruned(e)
      BY PrunedLogInv
    <3>2. p.cutoff = e.cutoff /\ p.toks \subseteq e.toks
      BY <1>4, <3>1, PrunedFields
    <3>3. Justified(e)
      BY DEF JustInv
    <3> QED  BY <3>2, <3>3 DEF Justified
  <2>4. \A d \in log' \union poll'.page \union {db', snapshot'} : Justified(d)
    BY <2>1, <2>2, <2>3 DEF JustInv
  <2> QED  BY <1>3, <2>1, <2>4
<1>6. CASE ApplyPage \/ ApplyPageAmbiguous \/ ApplyPageRefused
  <2>1. poll.phase = "fetched" /\ UNCHANGED <<family, toks>> /\ log' = log
        /\ (poll'.page = poll.page \/ poll'.page = {})
    <3>1. poll.phase = "fetched" /\ UNCHANGED <<family, toks>> /\ log' = log
          /\ (poll' = [poll EXCEPT !.phase = "applied"] \/ poll' = NoPoll)
      BY <1>6 DEF ApplyPage, ApplyPageAmbiguous, ApplyPageRefused, asVars
    <3>2. poll \in [phase : {"idle", "fetched", "applied"}, page : SUBSET Events]
      BY BaseParts DEF FeedType
    <3> QED  BY <3>1, <3>2 DEF NoPoll
  <2>2. /\ db' \in {db, Candidate(db, poll.page)}
        /\ snapshot' \in {snapshot, Candidate(snapshot, poll.page)}
    BY <1>6 DEF ApplyPage, ApplyPageAmbiguous, ApplyPageRefused
  <2>3. ASSUME NEW s \in {db, snapshot}
        PROVE  Justified(Candidate(s, poll.page))
    <3> DEFINE c == Candidate(s, poll.page)
               D == {s} \union poll.page
    <3>1. c.toks = {t \in s.toks \union UNION {e.toks : e \in poll.page} : ~Expired(t)}
          /\ (c.cutoff = s.cutoff \/ \E p \in poll.page : c.cutoff = p.cutoff)
      BY <2>1, ApplyParts
    <3>2. \A x \in D : Justified(x)
      BY DEF JustInv
    <3>3. \A t \in c.toks : \E x \in D : t \in x.toks
      <4> HIDE DEF c
      <4> QED  BY <3>1
    <3>4. \E x \in D : c.cutoff = x.cutoff
      <4> HIDE DEF c
      <4> QED  BY <3>1
    <3> HIDE DEF c, D
    <3>5. Justified(c)
      BY <1>4, <3>2, <3>3, <3>4, JustifiedLess
    <3> QED  BY <3>5 DEF c
  <2>4. \A d \in log' \union poll'.page \union {db', snapshot'} : Justified(d)
    BY <2>1, <2>2, <2>3 DEF JustInv
  <2> QED  BY <1>3, <2>1, <2>4
<1>7. CASE Restart
  <2> DEFINE ts == {t \in db.toks : ~Expired(t)}
  <2>1. UNCHANGED <<family, toks>> /\ log' = log /\ poll' = NoPoll
        /\ db' = [db EXCEPT !.toks = ts] /\ snapshot' = db'
    BY <1>7 DEF Restart, asVars
  <2>2. db'.cutoff = db.cutoff /\ db'.toks \subseteq db.toks
    <3>1. ts \subseteq db.toks
      OBVIOUS
    <3> HIDE DEF ts
    <3> QED  BY <1>4, <2>1, <3>1 DEF Stores
  <2>3. Justified(db) /\ \A d \in log : Justified(d)
    BY DEF JustInv
  <2> HIDE DEF ts
  <2>4. Justified(db')
    BY <2>2, <2>3 DEF Justified
  <2>5. poll'.page = {}
    BY <2>1 DEF NoPoll
  <2>6. \A d \in log' \union poll'.page \union {db', snapshot'} : Justified(d)
    BY <2>1, <2>3, <2>4, <2>5
  <2> QED  BY <1>3, <2>1, <2>6
<1> QED  BY <1>1, <1>2, <1>5, <1>6, <1>7 DEF Next, Consumer, Registry

\* At first nothing is denied.
LEMMA InitJust == Init => JustInv
BY DEF Init, JustInv, Justified, EmptyStore, NoPoll, Tokens

\* A token inserted in the second it is stamped with is denied by the node only
\* when its family was revoked.
THEOREM DenialJustified == Spec => []NoFalseDenial
<1>1. BaseInv /\ JustInv /\ [Next]_vars => BaseInv' /\ JustInv'
  BY NextBase, NextJust
<1>2. BaseInv /\ JustInv => NoFalseDenial
  BY DEF JustInv, Justified, NoFalseDenial, IsRevoked
<1> QED  BY InitBase, InitJust, <1>1, <1>2, PTL DEF Spec

----------------------------------------------------------------------------
(* A denial sticks.                                                          *)

\* For an unexpired token the lookup asks what the store says of it.
LEMMA RevokedIsDenied ==
  ASSUME NEW s, NEW t, ~Expired(t)
  PROVE  IsRevoked(s, t) <=> Denies(s, t)
BY DEF IsRevoked, Denies

\* Tokens never change, and an expired token stays expired.
LEMMA TokensStay ==
  ASSUME BaseInv, [Next]_vars, NEW t \in Tokens
  PROVE  /\ toks'[t] = toks[t] /\ t \in Tokens'
         /\ Expired(t) => Expired(t)'
<1>1. toks'[t] = toks[t] /\ t \in Tokens' /\ (clock' = clock \/ clock' = clock + 1)
  <2>1. CASE Accounts
    BY <2>1, AccountsStep DEF AccountStep, TokenStep
  <2>2. CASE Registry
    BY <2>2, RegistryStep DEF RegStep, asVars, Tokens
  <2>3. CASE Tick \/ FetchPage \/ ApplyPage \/ ApplyPageAmbiguous \/ ApplyPageRefused
             \/ Disconnect \/ Restart
    BY <2>3 DEF Tick, FetchPage, ApplyPage, ApplyPageAmbiguous, ApplyPageRefused,
                Disconnect, Restart, asVars, Tokens
  <2>4. CASE UNCHANGED vars
    BY <2>4 DEF vars, asVars, Tokens
  <2> QED  BY <2>1, <2>2, <2>3, <2>4 DEF Next, Consumer, Registry
<1>2. clock \in Nat /\ toks[t].at \in Nat /\ Life \in Nat
  BY BaseParts, TokenFields, NumberTypes
<1> QED  BY <1>1, <1>2 DEF Expired

\* Applying a page forgets nothing that is not expired.
LEMMA CandidateDenies ==
  ASSUME BaseInv, poll.phase = "fetched", NEW s \in {db, snapshot}, NEW t \in Tokens,
         ~Expired(t), Denies(s, t) \/ \E p \in poll.page : Denies(p, t)
  PROVE  Denies(Candidate(s, poll.page), t)
<1> DEFINE c == Candidate(s, poll.page)
<1>1. /\ c \in Stores
      /\ c.toks = {u \in s.toks \union UNION {e.toks : e \in poll.page} : ~Expired(u)}
      /\ s.cutoff <= c.cutoff
      /\ \A p \in poll.page : p.cutoff <= c.cutoff
  BY ApplyParts
<1>2. s.cutoff \in Nat /\ c.cutoff \in Nat /\ toks[t].at \in Nat
      /\ \A p \in poll.page : p.cutoff \in Nat
  BY <1>1, BaseParts, StoreFields, EventFields, TokenFields
<1> SUFFICES Denies(c, t)
  OBVIOUS
<1> HIDE DEF c
<1>3. CASE Denies(s, t)
  BY <1>1, <1>2, <1>3 DEF Denies
<1>4. CASE \E p \in poll.page : Denies(p, t)
  <2>1. PICK p \in poll.page : Denies(p, t)
    BY <1>4
  <2>2. CASE t \in p.toks
    BY <1>1, <2>2 DEF Denies
  <2>3. CASE toks[t].at < p.cutoff
    BY <1>1, <1>2, <2>3 DEF Denies
  <2> QED  BY <2>1, <2>2, <2>3 DEF Denies
<1> QED  BY <1>3, <1>4

\* What a step does to a store: nothing, a page, or the loss of expired tokens.
LEMMA StoreSteps ==
  ASSUME BaseInv, [Next]_vars, NEW t \in Tokens, ~Expired(t)
  PROVE  /\ Denies(db, t) => Denies(db', t)
         /\ Denies(snapshot, t) /\ ~poisoned => Denies(snapshot', t)
<1>1. CASE Accounts
  BY <1>1, AccountsStep DEF AccountStep, storeVars, Denies
<1>2. CASE Registry
  BY <1>2, RegistryStep DEF RegStep, Denies
<1>3. CASE Tick \/ FetchPage \/ ApplyPageRefused \/ Disconnect
  BY <1>3 DEF Tick, FetchPage, ApplyPageRefused, Disconnect, storeVars, Denies
<1>4. CASE UNCHANGED vars
  BY <1>4 DEF vars, storeVars, Denies
<1>5. CASE ApplyPage \/ ApplyPageAmbiguous
  <2>1. /\ poll.phase = "fetched" /\ db' \in {db, Candidate(db, poll.page)}
        /\ snapshot' = Candidate(snapshot, poll.page)
    BY <1>5 DEF ApplyPage, ApplyPageAmbiguous
  <2>2. \A s \in {db, snapshot} : Denies(s, t) => Denies(Candidate(s, poll.page), t)
    BY <2>1, CandidateDenies
  <2> QED  BY <2>1, <2>2
<1>6. CASE Restart
  <2> DEFINE ts == {u \in db.toks : ~Expired(u)}
  <2>1. db' = [db EXCEPT !.toks = ts] /\ snapshot' = db'
    BY <1>6 DEF Restart
  <2>2. t \in ts <=> t \in db.toks
    OBVIOUS
  <2>3. db \in Stores /\ (~poisoned => db = snapshot)
    BY BaseParts DEF StoreInv
  <2> HIDE DEF ts
  <2>4. db'.toks = ts /\ db'.cutoff = db.cutoff
    BY <2>1, <2>3 DEF Stores
  <2>5. Denies(db, t) => Denies(db', t)
    BY <2>2, <2>4 DEF Denies
  <2> QED  BY <2>1, <2>3, <2>5
<1> QED  BY <1>1, <1>2, <1>3, <1>4, <1>5, <1>6 DEF Next, Consumer, Registry

\* A token the node denies stays denied until it expires, across pages, errors
\* and restarts, unless a commit was ambiguous.
THEOREM DenialsStick == Spec => DenialSticks
<1>1. ASSUME BaseInv, [Next]_vars
      PROVE  [\A t \in Tokens :
                IsRevoked(snapshot, t) => IsRevoked(snapshot, t)' \/ Expired(t)' \/ poisoned]_vars
  <2> SUFFICES ASSUME NEW t \in Tokens, IsRevoked(snapshot, t), ~Expired(t)', ~poisoned
               PROVE  IsRevoked(snapshot, t)'
    OBVIOUS
  <2>1. toks'[t] = toks[t] /\ t \in Tokens' /\ ~Expired(t)
    BY <1>1, TokensStay
  <2>2. Denies(snapshot, t)
    BY <2>1, RevokedIsDenied
  <2>3. Denies(snapshot', t)
    BY <1>1, <2>1, <2>2, StoreSteps
  <2> QED  BY <2>1, <2>3 DEF Denies, IsRevoked
<1>2. BaseInv /\ [Next]_vars => BaseInv'
  BY NextBase
<1> QED  BY InitBase, <1>1, <1>2, PTL DEF Spec, DenialSticks

\* A transport goes away only with its record.
THEOREM LiveSessionsKept == Spec => LiveSessionKept
<1>1. ASSUME BaseInv, [Next]_vars
      PROVE  [attached # 0 /\ record.att = attached /\ attached' # attached
                => record'.att # attached]_vars
  <2> SUFFICES ASSUME attached # 0, record.att = attached, attached' # attached
               PROVE  record'.att # attached
    OBVIOUS
  <2>1. NoRecord.att = 0
    BY NoRecordParts
  <2>2. ASSUME NEW a, CloseAttachment(a) PROVE record'.att # attached
    BY <2>1, <2>2, CloseParts
  <2>3. ASSUME NEW a \in Attachments, NEW t \in Tokens, OpenSession(a, t) \/ Reauthenticate(a, t)
        PROVE  record'.att # attached
    BY <2>2, <2>3 DEF OpenSession, Reauthenticate
  <2>4. ASSUME NEW a \in Attachments, CloseSession(a) \/ RunClose(a)
        PROVE  record'.att # attached
    BY <2>2, <2>4 DEF CloseSession, RunClose
  <2>5. CASE Bind
    BY <2>5 DEF Bind, MayBind
  <2>6. CASE BindRefused
    BY <2>2, <2>6 DEF BindRefused
  <2>7. ASSUME NEW a \in Attachments, BindPending(a)
        PROVE  record'.att # attached
    BY <2>7 DEF BindPending, MayBind
  <2>8. CASE Expire \/ PumpReady \/ RevokePage
    BY <2>8 DEF Expire, PumpReady, RevokePage
  <2>9. CASE Disconnect \/ Restart
    BY <2>1, <2>9 DEF Disconnect, Restart
  <2>10. CASE Accounts
    BY <2>10, <1>1, AccountsStep DEF AccountStep, regVars
  <2>11. CASE Tick \/ FetchPage \/ ApplyPage \/ ApplyPageAmbiguous \/ ApplyPageRefused
    BY <2>11 DEF Tick, FetchPage, ApplyPage, ApplyPageAmbiguous, ApplyPageRefused, regVars
  <2>12. CASE UNCHANGED vars
    BY <2>12 DEF vars, regVars
  <2> QED  BY <1>1, <2>3, <2>4, <2>5, <2>6, <2>7, <2>8, <2>9, <2>10, <2>11, <2>12
           DEF Next, Consumer, ReceiveLoop, Timers, Launcher
<1>2. BaseInv /\ [Next]_vars => BaseInv'
  BY NextBase
<1> QED  BY InitBase, <1>1, <1>2, PTL DEF Spec, LiveSessionKept

----------------------------------------------------------------------------
(* An installed transport is authorized.                                     *)

\* The node does not know t to be revoked, or is about to tell the registry.
Cleared(t) ==
  \/ ~IsRevoked(snapshot, t)
  \/ poll.phase = "applied" /\ InPage(poll.page, t)

\* A step that leaves the registry alone and keeps a cleared token cleared.
LEMMA FeedReg ==
  ASSUME BaseInv, RegInv, UNCHANGED regVars,
         \A t \in Tokens : Cleared(t) => Cleared(t)'
  PROVE  RegInv'
<1>1. record' = record /\ opening' = opening /\ opened' = opened /\ ready' = ready
      /\ pending' = pending /\ binding' = binding /\ attached' = attached /\ closing' = closing
  BY DEF regVars
<1>2. record # NoRecord => record.tok \in Tokens
  BY DEF BaseInv, RecordShape
<1>3. record = NoRecord => record.att = 0
  BY NoRecordParts
<1>4. PlaceInv' /\ RecordInv'
  BY <1>1 DEF RegInv, PlaceInv, RecordInv
<1>5. AttachedIsAuthorized'
  <2> SUFFICES ASSUME attached # 0, attached \notin closing, opening \in {NoOpen, attached}
               PROVE  record.att = attached /\ Cleared(record.tok)'
    BY <1>1 DEF AttachedIsAuthorized, Cleared
  <2>1. record.att = attached /\ Cleared(record.tok)
    BY DEF RegInv, AttachedIsAuthorized, Cleared
  <2>2. PICK t \in Tokens : t = record.tok
    BY <1>2, <1>3, <2>1
  <2>3. Cleared(t)'
    BY <2>1, <2>2
  <2>4. Cleared(record.tok)'
    BY <1>1, <2>2, <2>3 DEF Cleared
  <2> QED  BY <2>1, <2>4
<1> QED  BY <1>4, <1>5 DEF RegInv

\* A page that denies a token the store did not deny contains the token.
LEMMA CandidateAdds ==
  ASSUME BaseInv, poll.phase = "fetched", NEW t \in Tokens,
         IsRevoked(Candidate(snapshot, poll.page), t)
  PROVE  IsRevoked(snapshot, t) \/ InPage(poll.page, t)
<1> DEFINE c == Candidate(snapshot, poll.page)
<1>1. /\ c.toks = {u \in snapshot.toks \union UNION {e.toks : e \in poll.page} : ~Expired(u)}
      /\ c.cutoff = snapshot.cutoff \/ \E p \in poll.page : c.cutoff = p.cutoff
  BY ApplyParts
<1>2. IsRevoked(c, t)
  OBVIOUS
<1> HIDE DEF c
<1>3. CASE t \in c.toks /\ ~Expired(t)
  BY <1>1, <1>3 DEF IsRevoked, InPage
<1>4. CASE toks[t].at < c.cutoff
  BY <1>1, <1>4 DEF IsRevoked, InPage
<1> QED  BY <1>2, <1>3, <1>4 DEF IsRevoked

\* The steps of the account service, the clock and the poll.
LEMMA OtherReg ==
  ASSUME BaseInv, RegInv, [Next]_vars,
         Accounts \/ Tick \/ FetchPage \/ ApplyPage \/ ApplyPageAmbiguous \/ ApplyPageRefused
           \/ UNCHANGED vars
  PROVE  RegInv'
<1>1. UNCHANGED regVars
  <2>1. CASE Accounts
    BY <2>1, AccountsStep DEF AccountStep
  <2>2. CASE ~Accounts
    BY <2>2 DEF Tick, FetchPage, ApplyPage, ApplyPageAmbiguous, ApplyPageRefused, vars
  <2> QED  BY <2>1, <2>2
<1>2. SUFFICES ASSUME NEW t \in Tokens, Cleared(t) PROVE Cleared(t)'
  BY <1>1, FeedReg
<1>3. toks'[t] = toks[t] /\ (Expired(t) => Expired(t)')
  BY TokensStay
<1>4. CASE snapshot' = snapshot /\ poll' = poll
  BY <1>2, <1>3, <1>4 DEF Cleared, IsRevoked, InPage
<1>5. CASE FetchPage \/ ApplyPageRefused
  <2>1. snapshot' = snapshot /\ poll.phase # "applied"
    BY <1>5 DEF FetchPage, ApplyPageRefused
  <2>2. ~IsRevoked(snapshot, t)
    BY <1>2, <2>1 DEF Cleared
  <2> QED  BY <1>3, <2>1, <2>2 DEF Cleared, IsRevoked
<1>6. CASE ApplyPage \/ ApplyPageAmbiguous
  <2>1. /\ poll.phase = "fetched" /\ snapshot' = Candidate(snapshot, poll.page)
        /\ poll' = [poll EXCEPT !.phase = "applied"] /\ clock' = clock
    BY <1>6 DEF ApplyPage, ApplyPageAmbiguous
  <2>2. ~IsRevoked(snapshot, t)
    BY <1>2, <2>1 DEF Cleared
  <2>3. ~IsRevoked(snapshot', t) \/ InPage(poll.page, t)
    BY <2>1, <2>2, CandidateAdds
  <2>4. poll'.phase = "applied" /\ poll'.page = poll.page
    <3>1. poll \in [phase : {"idle", "fetched", "applied"}, page : SUBSET Events]
      BY BaseParts DEF FeedType
    <3> QED  BY <2>1, <3>1
  <2>5. CASE InPage(poll.page, t)
    BY <1>3, <2>4, <2>5 DEF Cleared, InPage
  <2>6. CASE ~IsRevoked(snapshot', t)
    BY <1>3, <2>1, <2>6 DEF Cleared, IsRevoked, Expired
  <2> QED  BY <2>3, <2>5, <2>6
<1>7. CASE Accounts \/ Tick \/ UNCHANGED vars
  <2>1. snapshot' = snapshot /\ poll' = poll
    <3>1. CASE Accounts
      BY <3>1, AccountsStep DEF AccountStep, storeVars
    <3>2. CASE Tick \/ UNCHANGED vars
      BY <3>2 DEF Tick, vars, storeVars
    <3> QED  BY <1>7, <3>1, <3>2
  <2> QED  BY <1>4, <2>1
<1> QED  BY <1>5, <1>6, <1>7

\* The registry's own steps.
LEMMA RegistryReg ==
  ASSUME BaseInv, RegInv, Registry
  PROVE  RegInv'
<1> USE DEF NoOpen
<1>1. /\ UNCHANGED <<clock, toks, snapshot>> /\ (poll' = poll \/ poll' = NoPoll)
  BY RegistryStep DEF RegStep, asVars
<1>2. PlaceInv /\ RecordInv /\ AttachedIsAuthorized
  BY DEF RegInv
<1>3. record # NoRecord => record.att # 0
  BY DEF BaseInv, RecordShape
<1>4. NoRecord.att = 0
  BY NoRecordParts
<1>5. \A t : IsRevoked(snapshot, t)' = IsRevoked(snapshot, t)
  BY <1>1 DEF IsRevoked, Expired
<1>6. \A t : poll' = poll => (Cleared(t)' <=> Cleared(t))
  BY <1>1, <1>5 DEF Cleared, InPage
<1>7. attached # 0 => \/ attached \in closing
                      \/ opening \notin {0, attached}
                      \/ record.att = attached /\ Cleared(record.tok)
  BY <1>2 DEF AttachedIsAuthorized, Cleared
<1>8. SUFFICES /\ PlaceInv' /\ RecordInv'
               /\ attached' # 0 => \/ attached' \in closing'
                                   \/ opening' \notin {0, attached'}
                                   \/ record'.att = attached' /\ (Cleared(record.tok))'
  BY DEF RegInv, AttachedIsAuthorized, Cleared
<1>9. ASSUME record' = NoRecord, pending' = {}, attached' = 0,
             opening' = opening \/ opening' = 0,
             opening' # 0 => opening' \in opened',
             opened \subseteq opened', binding' = binding, opening' \notin binding',
             0 \notin binding, ready' = ready
      PROVE  <1>8!1
  <2>1. PlaceInv'
    BY <1>2, <1>9 DEF PlaceInv
  <2>2. RecordInv'
    BY <1>4, <1>9 DEF RecordInv
  <2> QED  BY <1>9, <2>1, <2>2
<1>10. 0 \notin pending \union binding \union closing
  BY BaseParts DEF RegType, Attachments
<1>11. ASSUME NEW a \in Attachments, NEW t \in Tokens, OpenSession(a, t)
       PROVE  <1>8!1
  <2>1. opening = 0 /\ a \notin opened /\ opened' = opened \union {a} /\ a # 0 /\ poll' = poll
        /\ UNCHANGED <<ready, binding, closing>>
    BY <1>11 DEF OpenSession, Attachments, storeVars
  <2>2. CASE UNCHANGED <<record, pending, attached, opening>>
    <3>1. PlaceInv' /\ RecordInv'
      BY <1>2, <2>1, <2>2 DEF PlaceInv, RecordInv
    <3> QED  BY <1>6, <1>7, <2>1, <2>2, <3>1
  <2>3. CASE CloseAttachment(a) /\ opening' = opening
    <3>1. CASE UNCHANGED <<record, pending, attached>>
      BY <2>2, <2>3, <3>1
    <3>2. CASE record' = NoRecord /\ pending' = {} /\ attached' = 0
      BY <1>2, <1>9, <1>10, <2>1, <2>3, <3>2 DEF PlaceInv
    <3> QED  BY <2>3, <3>1, <3>2, CloseParts
  <2>4. CASE record' = [att |-> a, tok |-> t] /\ opening' = a /\ UNCHANGED <<pending, attached>>
    <3>1. record'.att = a
      BY <2>4
    <3>2. PlaceInv'
      BY <1>2, <2>1, <2>4 DEF PlaceInv
    <3>3. RecordInv'
      BY <2>1, <2>4, <3>1 DEF RecordInv
    <3>4. attached # 0 => attached # a
      BY <1>2, <2>1 DEF PlaceInv
    <3> QED  BY <2>1, <2>4, <3>2, <3>3, <3>4
  <2> QED  BY <1>11, <2>2, <2>3, <2>4 DEF OpenSession
<1>12. ASSUME NEW a, CloseAttachment(a), record = NoRecord \/ record.att = a,
              opening' = opening \/ opening' = 0, UNCHANGED <<opened, binding, ready>>
       PROVE  <1>8!1
  <2>1. record' = NoRecord /\ pending' = {} /\ attached' = 0
    BY <1>12, CloseParts
  <2> QED  BY <1>2, <1>9, <1>10, <1>12, <2>1 DEF PlaceInv
<1>13. ASSUME NEW a \in Attachments, NEW t \in Tokens, Reauthenticate(a, t)
       PROVE  <1>8!1
  <2>1. opening = 0 /\ a \in opened /\ (record = NoRecord \/ record.att = a) /\ poll' = poll
        /\ UNCHANGED <<opening, opened, ready, binding, closing>>
    BY <1>13 DEF Reauthenticate, storeVars
  <2>2. CASE CloseAttachment(a)
    BY <1>12, <2>1, <2>2
  <2>3. CASE /\ record' = [att |-> a, tok |-> t] /\ UNCHANGED <<pending, attached>>
             /\ record.att = a /\ ~IsRevoked(snapshot, t)
    <3>1. record'.att = record.att /\ record'.tok = t
      BY <2>3
    <3>2. PlaceInv' /\ RecordInv'
      BY <1>2, <2>1, <2>3, <3>1 DEF PlaceInv, RecordInv
    <3>3. Cleared(record.tok)'
      BY <1>5, <2>3, <3>1 DEF Cleared
    <3> QED  BY <1>7, <2>1, <2>3, <3>1, <3>2, <3>3
  <2> QED  BY <1>13, <2>2, <2>3 DEF Reauthenticate
<1>14. ASSUME NEW a \in Attachments, CloseSession(a)
       PROVE  <1>8!1
  <2>1. record.att = a /\ CloseAttachment(a) /\ UNCHANGED <<opening, opened, binding, ready>>
    BY <1>14 DEF CloseSession
  <2> QED  BY <1>12, <2>1
<1>15. CASE Bind
  <2>1. opening # 0 /\ record.att = opening /\ ~IsRevoked(snapshot, record.tok) /\ poll' = poll
        /\ opening' = 0 /\ UNCHANGED <<record, opened, ready, binding, closing>>
    BY <1>15 DEF Bind, MayBind, storeVars
  <2>2. Cleared(record.tok)'
    BY <1>5, <2>1 DEF Cleared
  <2>3. CASE ready /\ attached' = opening /\ pending' = pending
    <3>1. PlaceInv' /\ RecordInv'
      BY <1>2, <1>10, <2>1, <2>3 DEF PlaceInv, RecordInv
    <3> QED  BY <2>1, <2>2, <2>3, <3>1
  <2>4. CASE ~ready /\ pending' = pending \union {opening} /\ attached' = attached
    <3>1. attached = 0
      BY <1>2, <2>4 DEF PlaceInv
    <3>2. PlaceInv' /\ RecordInv'
      BY <1>2, <1>10, <2>1, <2>4, <3>1 DEF PlaceInv, RecordInv
    <3> QED  BY <2>4, <3>1, <3>2
  <2> QED  BY <1>15, <2>3, <2>4 DEF Bind
<1>16. CASE BindRefused
  <2>1. opening # 0 /\ CloseAttachment(opening) /\ opening' = 0 /\ UNCHANGED <<opened, binding, ready>>
    BY <1>16 DEF BindRefused
  <2>2. record = NoRecord \/ record.att = opening
    BY <1>2, <1>3, <2>1 DEF RecordInv
  <2> QED  BY <1>12, <2>1, <2>2
<1>17. CASE RevokePage
  <2>1. poll.phase = "applied" /\ UNCHANGED <<opening, opened, ready, pending, binding, attached>>
    BY <1>17 DEF RevokePage
  <2>2. CASE record' = NoRecord /\ closing' = closing \union {record.att}
    <3>1. PlaceInv' /\ RecordInv'
      BY <1>2, <1>4, <2>1, <2>2 DEF PlaceInv, RecordInv
    <3> QED  BY <1>7, <2>1, <2>2, <3>1
  <2>3. CASE record' = record /\ closing' = closing
             /\ ~ (record # NoRecord /\ InPage(poll.page, record.tok))
    <3>1. PlaceInv' /\ RecordInv'
      BY <1>2, <2>1, <2>3 DEF PlaceInv, RecordInv
    <3>2. attached # 0 /\ record.att = attached /\ Cleared(record.tok) => Cleared(record.tok)'
      BY <1>4, <1>5, <2>3 DEF Cleared
    <3> QED  BY <1>7, <2>1, <2>3, <3>1, <3>2
  <2> QED  BY <1>17, <2>2, <2>3 DEF RevokePage
<1>18. CASE Expire
  <2>1. record' = NoRecord /\ closing' = closing \union {record.att}
        /\ UNCHANGED <<opening, opened, ready, pending, binding, attached>>
    BY <1>18 DEF Expire
  <2>2. PlaceInv' /\ RecordInv'
    BY <1>2, <1>4, <2>1 DEF PlaceInv, RecordInv
  <2> QED  BY <1>7, <2>1, <2>2
<1>19. ASSUME NEW a \in Attachments, RunClose(a)
       PROVE  <1>8!1
  <2>1. CloseAttachment(a) /\ closing' = closing \ {a} /\ poll' = poll
        /\ UNCHANGED <<opening, opened, ready, binding>>
    BY <1>19 DEF RunClose, storeVars
  <2>2. CASE UNCHANGED <<record, pending, attached>> /\ record # NoRecord /\ record.att # a
    <3>1. PlaceInv' /\ RecordInv'
      BY <1>2, <2>1, <2>2 DEF PlaceInv, RecordInv
    <3>2. attached = a /\ a # 0 => opening \notin {0, attached}
      BY <1>2, <1>3, <2>2 DEF RecordInv
    <3> QED  BY <1>6, <1>7, <2>1, <2>2, <3>1, <3>2
  <2>3. CASE record = NoRecord \/ record.att = a
    BY <1>12, <2>1, <2>3
  <2> QED  BY <2>1, <2>2, <2>3, CloseParts
<1>20. CASE PumpReady
  <2>1. ready' = TRUE /\ binding' = binding \union pending /\ pending' = {} /\ poll' = poll
        /\ UNCHANGED <<record, opening, opened, attached, closing>>
    BY <1>20 DEF PumpReady, storeVars
  <2>2. PlaceInv' /\ RecordInv'
    BY <1>2, <2>1 DEF PlaceInv, RecordInv
  <2> QED  BY <1>6, <1>7, <2>1, <2>2
<1>21. ASSUME NEW a \in Attachments, BindPending(a)
       PROVE  <1>8!1
  <2>1. a \in binding /\ binding' = binding \ {a} /\ poll' = poll /\ a # 0
        /\ UNCHANGED <<opening, opened, ready, pending, closing>>
    BY <1>21 DEF BindPending, storeVars, Attachments
  <2>2. CASE MayBind(a)
    <3>1. record' = record /\ attached' = a /\ record.att = a /\ ~IsRevoked(snapshot, record.tok)
      BY <1>21, <2>2 DEF BindPending, MayBind
    <3>2. Cleared(record.tok)'
      BY <1>5, <3>1 DEF Cleared
    <3>3. PlaceInv' /\ RecordInv'
      BY <1>2, <2>1, <3>1 DEF PlaceInv, RecordInv
    <3> QED  BY <2>1, <3>1, <3>2, <3>3
  <2>3. CASE ~MayBind(a)
    <3>1. attached' = attached /\ (record' = record \/ (record' = NoRecord /\ record.att = a))
      BY <1>21, <2>3 DEF BindPending
    <3>2. attached # a
      BY <1>2, <2>1 DEF PlaceInv
    <3>3. PlaceInv' /\ RecordInv'
      BY <1>2, <1>4, <2>1, <3>1 DEF PlaceInv, RecordInv
    <3> QED  BY <1>6, <1>7, <2>1, <3>1, <3>2, <3>3
  <2> QED  BY <2>2, <2>3
<1> QED  BY <1>11, <1>13, <1>14, <1>15, <1>16, <1>17, <1>18, <1>19, <1>20, <1>21
         DEF Registry, ReceiveLoop, Timers, Launcher

\* A new connection or process has no transport.
LEMMA FaultReg ==
  ASSUME BaseInv, RegInv, Disconnect \/ Restart
  PROVE  RegInv'
<1>1. record' = NoRecord /\ opening' = 0 /\ pending' = {} /\ binding' = {} /\ attached' = 0
      /\ opened' = opened
  BY DEF Disconnect, Restart, NoOpen
<1>2. PlaceInv' /\ RecordInv'
  BY <1>1 DEF PlaceInv, RecordInv
<1>3. AttachedIsAuthorized'
  BY <1>1 DEF AttachedIsAuthorized
<1> QED  BY <1>2, <1>3 DEF RegInv

\* At first nothing is attached.
LEMMA InitReg == Init => RegInv
BY DEF Init, RegInv, PlaceInv, RecordInv, AttachedIsAuthorized, NoOpen

\* Every step keeps the registry's invariant.
LEMMA NextReg ==
  ASSUME BaseInv, RegInv, [Next]_vars
  PROVE  RegInv'
BY OtherReg, RegistryReg, FaultReg DEF Next, Consumer, Registry

\* An installed transport is held by its own record, which the node does not
\* know to be revoked without being about to close it, or its close is due, or
\* a newer open is about to replace it.
THEOREM TransportsAuthorized == Spec => []AttachedIsAuthorized
<1>1. BaseInv /\ RegInv /\ [Next]_vars => BaseInv' /\ RegInv'
  BY NextBase, NextReg
<1>2. RegInv => AttachedIsAuthorized
  BY DEF RegInv
<1> QED  BY InitBase, InitReg, <1>1, <1>2, PTL DEF Spec

----------------------------------------------------------------------------
(* No sign-out is lost while sign-outs everywhere commit with the clock.     *)

\* Store s denies t, or an event of log l that denies it is ahead of s.
HeardBy(l, s, t) == Denies(s, t) \/ \E e \in l : e.seq > s.checkpoint /\ Denies(e, t)

\* The property, said of every unexpired token of a revoked family.
LEMMA NotLostIsHeard ==
  SignOutNotLost <=>
    \A t \in Tokens, s \in {db, snapshot} : SignedOut(t) /\ ~Expired(t) => HeardBy(log, s, t)
<1>1. \A t, s : ~Expired(t) =>
         (HeardBy(log, s, t) <=>
            IsRevoked(s, t) \/ InPage({e \in log : e.seq > s.checkpoint}, t))
  BY DEF HeardBy, Denies, IsRevoked, InPage
<1> QED  BY <1>1 DEF SignOutNotLost

\* It is enough to look at the tokens that were there.
LEMMA HeardNext ==
  ASSUME BaseInv, [Next]_vars, \A t \in Tokens' \ Tokens : ~SignedOut(t)',
         \A t \in Tokens, s \in {db', snapshot'} :
           SignedOut(t)' /\ ~Expired(t) => HeardBy(log', s, t)
  PROVE  SignOutNotLost'
<1>1. ASSUME NEW t \in Tokens', NEW s \in {db', snapshot'}, SignedOut(t)', ~Expired(t)'
      PROVE  HeardBy(log', s, t) /\ toks'[t] = toks[t]
  <2>1. t \in Tokens
    BY <1>1
  <2>2. ~Expired(t) /\ toks'[t] = toks[t]
    BY <1>1, <2>1, TokensStay
  <2> QED  BY <1>1, <2>1, <2>2
<1>2. ASSUME NEW t \in Tokens', NEW s \in {db', snapshot'}, SignedOut(t)', ~Expired(t)'
      PROVE  \/ t \in s.toks \/ toks'[t].at < s.cutoff
             \/ \E e \in log' : e.seq > s.checkpoint /\ (t \in e.toks \/ toks'[t].at < e.cutoff)
  BY <1>1, <1>2 DEF HeardBy, Denies
<1> QED  BY <1>2 DEF SignOutNotLost, IsRevoked, InPage

\* A store that a step leaves as it is, or only prunes, still hears the log.
LEMMA HeardStays ==
  ASSUME BaseInv, [Next]_vars, SignOutNotLost, UNCHANGED <<family, toks>>,
         \A t \in Tokens, s \in {db', snapshot'} :
           ~Expired(t) /\ HeardBy(log, db, t) /\ HeardBy(log, snapshot, t) => HeardBy(log', s, t)
  PROVE  SignOutNotLost'
<1>1. Tokens' = Tokens
  BY DEF Tokens
<1>2. \A t \in Tokens : SignedOut(t)' => SignedOut(t)
  BY DEF SignedOut
<1>3. \A t \in Tokens : SignedOut(t) /\ ~Expired(t) =>
          HeardBy(log, db, t) /\ HeardBy(log, snapshot, t)
  BY NotLostIsHeard
<1> QED  BY <1>1, <1>2, <1>3, HeardNext

\* The page in hand moves the checkpoint over events it contains.
LEMMA ApplyHeard ==
  ASSUME BaseInv, poll.phase = "fetched", NEW s \in {db, snapshot}, NEW t \in Tokens,
         ~Expired(t), s.checkpoint = snapshot.checkpoint, HeardBy(log, s, t)
  PROVE  HeardBy(log, Candidate(s, poll.page), t)
<1> DEFINE c == Candidate(s, poll.page)
<1>1. c \in Stores /\ \E p \in poll.page : c.checkpoint = p.seq
  BY ApplyParts
<1>2. CASE Denies(s, t)
  BY <1>2, CandidateDenies DEF HeardBy
<1>3. ASSUME NEW e \in log, e.seq > s.checkpoint, Denies(e, t)
      PROVE  HeardBy(log, c, t)
  <2>1. PICK p \in poll.page : c.checkpoint = p.seq
    BY <1>1
  <2>2. c.checkpoint \in Nat /\ e.seq \in Nat
    BY <1>1, BaseParts, StoreFields, EventFields
  <2>3. CASE e.seq > c.checkpoint
    BY <1>3, <2>3 DEF HeardBy
  <2>4. CASE e.seq <= c.checkpoint
    <3>1. e \in poll.page
      BY <1>3, <2>1, <2>4, BaseParts DEF PageInv
    <3>2. Denies(c, t)
      BY <1>3, <3>1, CandidateDenies
    <3> QED  BY <3>2 DEF HeardBy
  <2> QED  BY <2>2, <2>3, <2>4
<1> QED  BY <1>2, <1>3 DEF HeardBy

\* Pruning keeps what says anything of an unexpired token.
LEMMA PruneHeard ==
  ASSUME BaseInv, NEW s, NEW t \in Tokens, ~Expired(t), HeardBy(log, s, t)
  PROVE  HeardBy(PrunedLog, s, t)
<1>1. CASE Denies(s, t)
  BY <1>1 DEF HeardBy
<1>2. ASSUME NEW e \in log, e.seq > s.checkpoint, Denies(e, t)
      PROVE  HeardBy(PrunedLog, s, t)
  <2>1. TypeOK /\ LogInv /\ e \in Events
    BY BaseParts
  <2>2. /\ Pruned(e).seq = e.seq /\ Pruned(e).cutoff = e.cutoff
        /\ Pruned(e).toks = {u \in e.toks : ~Expired(u)} /\ e.cutoff \in Nat
    BY <2>1, PrunedFields, EventFields
  <2>3. Denies(Pruned(e), t)
    BY <1>2, <2>2 DEF Denies
  <2>4. Pruned(e).cutoff > 0 \/ Pruned(e).toks # {}
    <3>1. CASE t \in e.toks
      BY <2>2, <3>1
    <3>2. CASE toks[t].at < e.cutoff
      BY <2>1, <2>2, <3>2, TokenFields
    <3> QED  BY <1>2, <3>1, <3>2 DEF Denies
  <2>5. Pruned(e) \in PrunedLog
    BY <2>1, <2>4, PrunedParts
  <2> QED  BY <1>2, <2>2, <2>3, <2>5 DEF HeardBy
<1> QED  BY <1>1, <1>2 DEF HeardBy

\* A step of the account service: what was heard stays heard, and who signs out
\* is heard.
LEMMA AccountHeard ==
  ASSUME BaseInv, SignOutNotLost, [Next]_vars, AccountStep,
         \A t \in Tokens, s \in {db, snapshot} :
           ~Expired(t) /\ HeardBy(log, s, t) => HeardBy(log', s, t),
         \A t \in Tokens, s \in {db, snapshot} :
           ~Expired(t) /\ SignedOut(t)' /\ ~SignedOut(t) => HeardBy(log', s, t)
  PROVE  SignOutNotLost'
<1>1. db' = db /\ snapshot' = snapshot
  BY DEF AccountStep, storeVars
<1>2. \A t \in Tokens' \ Tokens : ~SignedOut(t)'
  BY DEF AccountStep, TokenStep, SignedOut
<1>3. \A t \in Tokens, s \in {db, snapshot} :
          SignedOut(t)' /\ ~Expired(t) => HeardBy(log', s, t)
  BY NotLostIsHeard
<1> QED  BY <1>1, <1>2, <1>3, HeardNext

\* The revocation of family f is heard by every store.
LEMMA FamilyHeard ==
  ASSUME BaseInv, SignOutNotLost, [Next]_vars, AccountStep, NEW f \in Families,
         RevokeFamily(f, clock), toks' = toks,
         \A g \in Families : g # f /\ family'[g] = "revoked" => family[g] = "revoked"
  PROVE  SignOutNotLost'
<1>1. TypeOK /\ LogInv /\ clock \in Nat
  BY BaseParts
<1>2. /\ log \subseteq log'
      /\ Listed({f}, clock) # {} =>
              \E n \in log' : n.seq = lastSeq + 1 /\ n.toks = Listed({f}, clock)
  BY <1>1, RevokeFamilyParts
<1>3. \A t \in Tokens, s \in {db, snapshot} :
           ~Expired(t) /\ HeardBy(log, s, t) => HeardBy(log', s, t)
  BY <1>2 DEF HeardBy
<1>4. ASSUME NEW t \in Tokens, NEW s \in {db, snapshot}, ~Expired(t), SignedOut(t)', ~SignedOut(t)
      PROVE  HeardBy(log', s, t)
  <2>1. toks[t].fam = f
    BY <1>1, <1>4, TokenFields DEF SignedOut
  <2>2. t \in Listed({f}, clock)
    <3>1. clock < toks[t].at + Life
      BY <1>1, <1>4, TokenFields, NumberTypes DEF Expired
    <3> QED  BY <2>1, <3>1 DEF Listed
  <2>3. PICK n \in log' : n.seq = lastSeq + 1 /\ n.toks = Listed({f}, clock)
    BY <1>2, <2>2
  <2>4. lastSeq + 1 > s.checkpoint
    BY BaseParts, StoreFields DEF StoreInv
  <2> QED  BY <2>2, <2>3, <2>4 DEF HeardBy, Denies
<1> QED  BY <1>3, <1>4, AccountHeard

\* A sign-out everywhere with the clock is heard, and what it compacts is said
\* by the event that stays.
LEMMA EverywhereHeard ==
  ASSUME BaseInv, SignOutNotLost, CutoffInv, [Next]_vars, ~LateLogout,
         NEW now \in 1 .. MaxClock, LogoutEverywhere(now)
  PROVE  SignOutNotLost' /\ CutoffInv'
<1> DEFINE ts == {t \in Listed(LiveFamilies, now) : toks[t].at >= now}
           old == UNION {e.toks : e \in {o \in log : o.cutoff = now}}
<1>1. AccountStep
  BY EverywhereStep
<1>2. /\ TypeOK /\ LogInv /\ TokenInv /\ clock \in Nat /\ log \in SUBSET Events
      /\ family \in [Families -> FamilyStates]
  BY BaseParts DEF FeedType
<1>3. now = clock /\ now \in 1 .. clock /\ toks' = toks
  BY <1>2, NumberTypes DEF LogoutEverywhere
<1>4. log' = CompactAccount(Appended(now, ts)) /\ lastSeq' = lastSeq + 1
      /\ family' = [f \in Families |-> IF family[f] = "live" THEN "revoked" ELSE family[f]]
  BY DEF LogoutEverywhere
<1>5. ts \in SUBSET Tokens
  BY DEF Listed
<1>6. \A e \in log : e.cutoff <= now /\ e.cutoff \in Nat /\ e.toks \subseteq Tokens
  BY <1>2, <1>3, EventFields DEF LogInv
<1>7. /\ \A e \in log : e \in log' \/ e.cutoff > 0
      /\ \A m \in log' \ log : m.cutoff = now /\ m.toks = ts \union old
      /\ \E m \in log' : m.seq = lastSeq + 1 /\ m.cutoff = now /\ m.toks = ts \union old
  <2> HIDE DEF ts
  <2> QED  BY <1>2, <1>3, <1>4, <1>5, <1>6, EverywhereParts
<1>8. PICK m \in log' : m.seq = lastSeq + 1 /\ m.cutoff = now /\ m.toks = ts \union old
  BY <1>7
<1>9. \A s \in {db, snapshot} : m.seq > s.checkpoint
  BY <1>8, BaseParts, StoreFields DEF StoreInv
<1>10. \A t \in Tokens : toks[t].at \in Nat /\ toks[t].at <= now /\ toks[t].fam \in Families
  BY <1>2, <1>3, TokenFields DEF TokenInv
<1>11. ASSUME NEW e \in log, e.cutoff > 0, NEW t \in e.toks
       PROVE  toks[t].at <= e.cutoff /\ t \in Tokens
  BY <1>6, <1>11 DEF CutoffInv, AccountEvents
<1>12. ASSUME NEW t \in Tokens, NEW s \in {db, snapshot}, ~Expired(t), HeardBy(log, s, t)
       PROVE  HeardBy(log', s, t)
  <2>1. CASE Denies(s, t)
    BY <2>1 DEF HeardBy
  <2>2. ASSUME NEW e \in log, e.seq > s.checkpoint, Denies(e, t), e \notin log'
        PROVE  Denies(m, t)
    <3>1. e.cutoff > 0 /\ e.cutoff <= now /\ e.cutoff \in Nat
      BY <1>6, <1>7, <2>2
    <3>2. CASE toks[t].at < now
      BY <1>8, <3>2 DEF Denies
    <3>3. CASE ~ (toks[t].at < now)
      <4>1. ~ (toks[t].at < e.cutoff) /\ now \in Nat
        BY <1>2, <1>3, <1>10, <3>1, <3>3
      <4>2. t \in e.toks
        BY <2>2, <4>1 DEF Denies
      <4>3. e.cutoff = now
        BY <1>10, <1>11, <3>1, <3>3, <4>1, <4>2
      <4>4. t \in old
        BY <4>2, <4>3
      <4> HIDE DEF old
      <4> QED  BY <1>8, <4>4 DEF Denies
    <3> QED  BY <3>2, <3>3
  <2>3. CASE ~Denies(s, t)
    <3>1. PICK e \in log : e.seq > s.checkpoint /\ Denies(e, t)
      BY <1>12, <2>3 DEF HeardBy
    <3>2. CASE e \in log'
      BY <3>1, <3>2 DEF HeardBy
    <3>3. CASE e \notin log'
      BY <1>8, <1>9, <2>2, <3>1, <3>3 DEF HeardBy
    <3> QED  BY <3>2, <3>3
  <2> QED  BY <2>1, <2>3
<1>13. ASSUME NEW t \in Tokens, NEW s \in {db, snapshot}, ~Expired(t), SignedOut(t)', ~SignedOut(t)
       PROVE  HeardBy(log', s, t)
  <2>1. family[toks[t].fam] = "live"
    BY <1>3, <1>4, <1>10, <1>13 DEF SignedOut
  <2>2. Denies(m, t)
    <3>1. CASE toks[t].at < now
      BY <1>8, <3>1 DEF Denies
    <3>2. CASE ~ (toks[t].at < now)
      <4>1. now < toks[t].at + Life /\ toks[t].at >= now
        BY <1>2, <1>3, <1>10, <1>13, <3>2, NumberTypes DEF Expired
      <4>2. t \in ts
        BY <1>10, <2>1, <4>1 DEF Listed, LiveFamilies
      <4> HIDE DEF ts
      <4> QED  BY <1>8, <4>2 DEF Denies
    <3> QED  BY <3>1, <3>2
  <2> QED  BY <1>8, <1>9, <2>2 DEF HeardBy
<1>14. SignOutNotLost'
  BY <1>1, <1>12, <1>13, AccountHeard
<1>15. ASSUME NEW e \in log', e.cutoff > 0, NEW t \in e.toks
       PROVE  toks[t].at <= e.cutoff
  <2>1. CASE e \in log
    BY <1>11, <1>15, <2>1
  <2>2. CASE e \notin log
    <3>1. e.cutoff = now /\ e.toks = ts \union old
      BY <1>7, <2>2
    <3>2. t \in Tokens
      BY <1>1, EventFields DEF AccountStep, LogStep
    <3> QED  BY <1>10, <3>1, <3>2
  <2> QED  BY <2>1, <2>2
<1>16. CutoffInv'
  BY <1>3, <1>15 DEF CutoffInv, AccountEvents
<1> QED  BY <1>14, <1>16

\* The account service keeps the sign-outs audible and the cutoffs honest.
LEMMA AccountsLost ==
  ASSUME BaseInv, SignOutNotLost, CutoffInv, ~LateLogout, Accounts, [Next]_vars
  PROVE  SignOutNotLost' /\ CutoffInv'
<1>1. AccountStep
  BY AccountsStep
<1>2. /\ TypeOK /\ LogInv /\ log \in SUBSET Events /\ family \in [Families -> FamilyStates]
  BY BaseParts DEF FeedType
<1>3. ASSUME \A e \in log' : e \in log \/ e.cutoff = 0
      PROVE  CutoffInv'
  <2>1. \A e \in log : e.toks \subseteq Tokens
    BY <1>2, EventFields
  <2>2. \A t \in Tokens : toks'[t] = toks[t]
    BY <1>1 DEF AccountStep, TokenStep
  <2>3. ASSUME NEW e \in log', e.cutoff > 0, NEW t \in e.toks
        PROVE  toks'[t].at <= e.cutoff
    <3>1. e \in log
      BY <1>3, <2>3
    <3> QED  BY <2>1, <2>2, <2>3, <3>1 DEF CutoffInv, AccountEvents
  <2> QED  BY <2>3 DEF CutoffInv, AccountEvents
<1>4. ASSUME log' = log, \A g \in Families : family'[g] = "revoked" => family[g] = "revoked"
      PROVE  SignOutNotLost' /\ CutoffInv'
  <2>1. CutoffInv'
    BY <1>3, <1>4
  <2>2. \A t \in Tokens : SignedOut(t)' => SignedOut(t)
    <3> TAKE t \in Tokens
    <3>1. toks'[t] = toks[t] /\ toks[t].fam \in Families
      BY <1>1, <1>2, TokenFields DEF AccountStep, TokenStep
    <3> QED  BY <1>4, <3>1 DEF SignedOut
  <2>3. SignOutNotLost'
    BY <1>1, <1>4, <2>2, AccountHeard
  <2> QED  BY <2>1, <2>3
<1>5. ASSUME NEW f \in Families, RevokeFamily(f, clock), toks' = toks,
             \A g \in Families : g # f /\ family'[g] = "revoked" => family[g] = "revoked"
      PROVE  SignOutNotLost' /\ CutoffInv'
  <2>1. \A e \in log' : e \in log \/ e.cutoff = 0
    BY <1>2, <1>5, RevokeFamilyParts
  <2> QED  BY <1>1, <1>3, <1>5, <2>1, FamilyHeard
<1>6. ASSUME NEW f \in Families, LoginStart(f)
      PROVE  SignOutNotLost' /\ CutoffInv'
  <2>1. CASE Cardinality(LiveFamilies) < MaxFamilies
    <3>1. family' = [family EXCEPT ![f] = "minting"] /\ log' = log
      BY <1>6, <2>1 DEF LoginStart
    <3> QED  BY <1>2, <1>4, <3>1
  <2>2. CASE ~ (Cardinality(LiveFamilies) < MaxFamilies)
    <3>1. PICK o \in LiveFamilies :
             /\ family' = [family EXCEPT ![f] = "minting", ![o] = "revoked"]
             /\ RevokeFamily(o, clock)
      BY <1>6, <2>2 DEF LoginStart
    <3>2. toks' = toks /\ o \in Families
      BY <1>6, <3>1 DEF LoginStart, LiveFamilies
    <3>3. \A g \in Families : g # o /\ family'[g] = "revoked" => family[g] = "revoked"
      BY <1>2, <3>1
    <3> QED  BY <1>5, <3>1, <3>2, <3>3
  <2> QED  BY <2>1, <2>2
<1>7. ASSUME NEW f \in Families, LoginInsert(f) \/ Refresh(f)
      PROVE  SignOutNotLost' /\ CutoffInv'
  <2>1. log' = log /\ (family' = family \/ family' = [family EXCEPT ![f] = "live"])
    BY <1>7 DEF LoginInsert, Refresh
  <2> QED  BY <1>2, <1>4, <2>1
<1>8. ASSUME NEW f \in Families, Logout(f) \/ ReuseDetected(f)
      PROVE  SignOutNotLost' /\ CutoffInv'
  <2>1. RevokeFamily(f, clock) /\ family' = [family EXCEPT ![f] = "revoked"] /\ toks' = toks
    BY <1>8 DEF Logout, ReuseDetected
  <2>2. \A g \in Families : g # f /\ family'[g] = "revoked" => family[g] = "revoked"
    BY <1>2, <2>1
  <2> QED  BY <1>5, <2>1, <2>2
<1> QED  BY <1>6, <1>7, <1>8, EverywhereHeard DEF Accounts

\* Every step keeps each sign-out either applied or ahead of the node.
LEMMA NextLost ==
  ASSUME BaseInv, SignOutNotLost, CutoffInv, ~LateLogout, [Next]_vars
  PROVE  SignOutNotLost' /\ CutoffInv'
<1>1. CASE Accounts
  BY <1>1, AccountsLost
<1>2. CASE \/ Tick \/ Disconnect \/ Registry \/ ApplyPageRefused \/ UNCHANGED vars
  <2>1. UNCHANGED <<family, toks>> /\ log' = log /\ db' = db /\ snapshot' = snapshot
    <3>1. CASE Registry
      BY <3>1, RegistryStep DEF RegStep, asVars
    <3>2. CASE Tick \/ Disconnect \/ ApplyPageRefused
      BY <3>2 DEF Tick, Disconnect, ApplyPageRefused, asVars, storeVars
    <3>3. CASE UNCHANGED vars
      BY <3>3 DEF vars, asVars, storeVars
    <3> QED  BY <1>2, <3>1, <3>2, <3>3
  <2>2. CutoffInv'
    BY <2>1 DEF CutoffInv, AccountEvents
  <2>3. SignOutNotLost'
    BY <2>1, HeardStays
  <2> QED  BY <2>2, <2>3
<1>3. CASE FetchPage
  <2>1. UNCHANGED <<family, toks>> /\ log' = PrunedLog /\ db' = db /\ snapshot' = snapshot
    BY <1>3 DEF FetchPage
  <2>2. SignOutNotLost'
    BY <2>1, HeardStays, PruneHeard
  <2>3. ASSUME NEW p \in PrunedLog, p.cutoff > 0, NEW t \in p.toks
        PROVE  toks[t].at <= p.cutoff
    <3>1. PICK e \in log : p = Pruned(e)
      BY PrunedLogInv
    <3>2. e \in Events
      BY BaseParts
    <3>3. p.cutoff = e.cutoff /\ p.toks \subseteq e.toks
      BY <3>1, <3>2, PrunedFields
    <3> QED  BY <2>3, <3>3 DEF CutoffInv, AccountEvents
  <2>4. CutoffInv'
    BY <2>1, <2>3 DEF CutoffInv, AccountEvents
  <2> QED  BY <2>2, <2>4
<1>4. CASE ApplyPage \/ ApplyPageAmbiguous
  <2>1. /\ poll.phase = "fetched" /\ ~poisoned
        /\ UNCHANGED <<family, toks>> /\ log' = log
        /\ db' \in {db, Candidate(db, poll.page)}
        /\ snapshot' = Candidate(snapshot, poll.page)
    BY <1>4 DEF ApplyPage, ApplyPageAmbiguous, asVars
  <2>2. db = snapshot
    BY <2>1, BaseParts DEF StoreInv
  <2>3. \A t \in Tokens, s \in {db, snapshot} :
           ~Expired(t) /\ HeardBy(log, s, t) => HeardBy(log, Candidate(s, poll.page), t)
    BY <2>1, <2>2, ApplyHeard
  <2>4. SignOutNotLost'
    BY <2>1, <2>3, HeardStays
  <2>5. CutoffInv'
    BY <2>1 DEF CutoffInv, AccountEvents
  <2> QED  BY <2>4, <2>5
<1>5. CASE Restart
  <2>1. UNCHANGED <<family, toks>> /\ log' = log /\ snapshot' = db'
        /\ db' = [db EXCEPT !.toks = {u \in db.toks : ~Expired(u)}]
    BY <1>5 DEF Restart, asVars
  <2>2. db'.checkpoint = db.checkpoint
    BY <2>1, BaseParts DEF Stores
  <2>3. \A t \in Tokens : ~Expired(t) /\ Denies(db, t) => Denies(db', t)
    BY StoreSteps
  <2>4. \A t \in Tokens : ~Expired(t) /\ HeardBy(log, db, t) => HeardBy(log, db', t)
    BY <2>2, <2>3 DEF HeardBy
  <2>5. SignOutNotLost'
    BY <2>1, <2>4, HeardStays
  <2>6. CutoffInv'
    BY <2>1 DEF CutoffInv, AccountEvents
  <2> QED  BY <2>5, <2>6
<1> QED  BY <1>1, <1>2, <1>3, <1>4, <1>5 DEF Next, Consumer, Registry

\* At first nobody is signed out.
LEMMA InitLost == Init => SignOutNotLost /\ CutoffInv
BY DEF Init, SignOutNotLost, CutoffInv, AccountEvents, Tokens

\* While every sign-out everywhere commits with the clock it reads, an unexpired
\* token of a revoked family is denied by the node's store, on disk and in
\* memory, or an event that denies it is still ahead of that store: compaction,
\* pruning, paging, ambiguous commits and restarts lose none.
THEOREM SignOutsReachNodes ==
  ASSUME ~LateLogout
  PROVE  Spec => []SignOutNotLost
<1>1. BaseInv /\ SignOutNotLost /\ CutoffInv /\ [Next]_vars
        => BaseInv' /\ SignOutNotLost' /\ CutoffInv'
  BY NextBase, NextLost
<1> QED  BY InitBase, InitLost, <1>1, PTL DEF Spec

=============================================================================
