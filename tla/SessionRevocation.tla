------------------------- MODULE SessionRevocation -------------------------
(* How a sign-out reaches a live session.  The account service revokes      *)
(* refresh families and appends events to a compacted log                   *)
(* (internal/authsvc); a node polls the log page by page into a durable     *)
(* store (internal/node/revocation.go, revocation_store.go) and hands each  *)
(* applied page to the registry of live session authorizations, which tears *)
(* the transports down (internal/node/sessionauth.go, attach.go).           *)
(*                                                                          *)
(* One account, one node, one (spawn, session, client) key and an ACP pump  *)
(* as transport.  Attachments are their sequence numbers.  A token is its   *)
(* index in toks; it is valid for Life ticks from the second it is stamped  *)
(* with.  The login handler reads its clock before it writes the row, so a  *)
(* token may be stamped with an earlier second than the one it appears in;  *)
(* LateLogout lets the account-wide sign-out do the same.                   *)
EXTENDS Integers, Sequences, FiniteSets, FiniteSetsExt

CONSTANTS
  Families,     \* refresh families the account may open
  MaxFamilies,  \* live families before a login evicts the oldest
  Life,         \* access token lifetime, in ticks
  Grace,        \* ticks during which a superseded refresh token replays
  PageLimit,    \* events per page of the feed
  MaxClock,     \* bound on the clock
  MaxTokens,    \* bound on tokens minted
  MaxEvents,    \* bound on sign-outs everywhere
  MaxOpens,     \* bound on attachments
  MaxFaults,    \* bound on node restarts, disconnects and storage errors
  LateLogout    \* sign-outs everywhere may commit with an old clock reading

ASSUME RevocationAssumption ==
  /\ IsFiniteSet(Families)
  /\ {MaxFamilies, Life, PageLimit, MaxClock} \subseteq Nat \ {0}
  /\ {Grace, MaxTokens, MaxEvents, MaxOpens, MaxFaults} \subseteq Nat
  /\ LateLogout \in BOOLEAN

VARIABLES
  \* the account service
  clock,     \* seconds, shared by every process
  family,    \* refresh_sessions per family: none, minting, live or revoked
  stamp,     \* the clock reading a login (or its family_created_at) carries
  toks,      \* access tokens minted so far
  log,       \* revocation_events with their tokens
  lastSeq,   \* AUTOINCREMENT of the log
  \* the node's revocation store and its consumer
  db,        \* durable checkpoint, tokens and cutoff
  snapshot,  \* the same, as the lookups see it
  poisoned,  \* a commit was ambiguous: no further page is applied
  poll,      \* the consumer: idle, or with a page fetched or applied
  \* the registry and the attach loop
  record,    \* live authorization of the key, or NoRecord
  opening,   \* attachment registered and not yet bound, or NoOpen
  opened,    \* attachments whose SessionOpen was received
  ready,     \* the pump of the session is registered
  pending,   \* attaches queued until the pump is ready
  binding,   \* queued attaches the launcher took and has not bound
  attached,  \* attachment whose transport is installed, 0 if none
  closing,   \* attachments whose close function is about to run
  faults

asVars == <<family, stamp, toks, log, lastSeq>>
storeVars == <<db, snapshot, poisoned, poll>>
regVars == <<record, opening, opened, ready, pending, binding, attached, closing>>
vars == <<clock, asVars, storeVars, regVars, faults>>

Tokens == 1 .. Len(toks)
Attachments == 1 .. MaxOpens

NoRecord == [att |-> 0, tok |-> 0]
NoOpen == 0
NoPoll == [phase |-> "idle", page |-> {}]

Expired(t) == clock >= toks[t].at + Life

----------------------------------------------------------------------------
(* The account service.                                                     *)

\* Tokens of the families in fs that a revocation at second now still lists.
Listed(fs, now) == {t \in Tokens : toks[t].fam \in fs /\ now < toks[t].at + Life}

LiveFamilies == {f \in Families : family[f] = "live"}

AccountEvents(l) == {e \in l : e.cutoff > 0}

\* Mutant: the first of the equal cutoffs is kept.
CompactAccountFirst(l) ==
  LET acc == AccountEvents(l)
      newest == {e \in acc : \A o \in acc : o.cutoff <= e.cutoff}
      keep == CHOOSE e \in newest : \A o \in newest : o.seq >= e.seq
  IN  IF acc = {} THEN l
      ELSE (l \ acc) \union {[keep EXCEPT !.toks = UNION {e.toks : e \in newest}]}

\* Only the account event with the newest cutoff survives, with the tokens
\* of its equals; the latest sequence number wins among equal cutoffs.
CompactAccount(l) ==
  LET acc == AccountEvents(l)
      newest == {e \in acc : \A o \in acc : o.cutoff <= e.cutoff}
      keep == CHOOSE e \in newest : \A o \in newest : o.seq <= e.seq
  IN  IF acc = {} THEN l
      ELSE (l \ acc) \union {[keep EXCEPT !.toks = UNION {e.toks : e \in newest}]}

Appended(cutoff, ts) == log \union {[seq |-> lastSeq + 1, cutoff |-> cutoff, toks |-> ts]}

\* Revoke one live family and record its unexpired tokens in the same
\* transaction; a family with none left emits no event.
RevokeFamily(f, now) ==
  LET ts == Listed({f}, now)
  IN  IF ts = {} THEN UNCHANGED <<log, lastSeq>>
      ELSE log' = Appended(0, ts) /\ lastSeq' = lastSeq + 1

Mint(f, at) ==
  /\ Len(toks) < MaxTokens
  /\ toks' = Append(toks, [fam |-> f, at |-> at, late |-> at < clock])

\* A login reads the clock and, at the family cap, evicts the oldest family.
LoginStart(f) ==
  /\ family[f] = "none"
  /\ Len(toks) < MaxTokens
  /\ stamp' = [stamp EXCEPT ![f] = clock]
  /\ IF Cardinality(LiveFamilies) < MaxFamilies
       THEN family' = [family EXCEPT ![f] = "minting"] /\ UNCHANGED <<log, lastSeq>>
       ELSE \E o \in LiveFamilies :
              /\ \A g \in LiveFamilies : stamp[o] <= stamp[g]
              /\ family' = [family EXCEPT ![f] = "minting", ![o] = "revoked"]
              /\ RevokeFamily(o, clock)
  /\ UNCHANGED <<clock, toks, storeVars, regVars, faults>>

\* It then mints the pair and inserts the row, stamped with that reading.
LoginInsert(f) ==
  /\ family[f] = "minting"
  /\ Mint(f, stamp[f])
  /\ family' = [family EXCEPT ![f] = "live"]
  /\ UNCHANGED <<clock, stamp, log, lastSeq, storeVars, regVars, faults>>

TokensOf(f) == {t \in Tokens : toks[t].fam = f}

\* Rotation of the refresh token mints a successor access token, stamped with
\* a reading taken after its predecessor's.
Refresh(f) ==
  /\ family[f] = "live"
  /\ \E at \in toks[Max(TokensOf(f))].at .. clock : Mint(f, at)
  /\ UNCHANGED <<clock, family, stamp, log, lastSeq, storeVars, regVars, faults>>

\* A superseded refresh token replayed outside its grace, or two generations
\* old, revokes the family.
ReuseDetected(f) ==
  /\ family[f] = "live"
  /\ \/ Cardinality(TokensOf(f)) > 2
     \/ Cardinality(TokensOf(f)) = 2 /\ clock - toks[Max(TokensOf(f))].at > Grace
  /\ family' = [family EXCEPT ![f] = "revoked"]
  /\ RevokeFamily(f, clock)
  /\ UNCHANGED <<clock, stamp, toks, storeVars, regVars, faults>>

Logout(f) ==
  /\ family[f] = "live"
  /\ family' = [family EXCEPT ![f] = "revoked"]
  /\ RevokeFamily(f, clock)
  /\ UNCHANGED <<clock, stamp, toks, storeVars, regVars, faults>>

\* Sign out everywhere, with the cookie of any session row: one event whose
\* cutoff covers every older token; the live tokens stamped in the cutoff
\* second or later are listed.
LogoutEverywhere(now) ==
  /\ \E f \in Families : family[f] \in {"live", "revoked"}
  /\ lastSeq < MaxEvents
  /\ now = clock \/ (LateLogout /\ now \in 1 .. clock)
  /\ family' = [f \in Families |-> IF family[f] = "live" THEN "revoked" ELSE family[f]]
  /\ LET ts == {t \in Listed(LiveFamilies, now) : toks[t].at >= now}
     IN  log' = CompactAccount(Appended(now, ts))
  /\ lastSeq' = lastSeq + 1
  /\ UNCHANGED <<clock, stamp, toks, storeVars, regVars, faults>>

Tick ==
  /\ clock < MaxClock
  /\ clock' = clock + 1
  /\ UNCHANGED <<asVars, storeVars, regVars, faults>>

----------------------------------------------------------------------------
(* The node's copy of the feed.                                             *)

\* PageAfter: expired tokens and empty family events are pruned first.
PrunedLog ==
  LET live == {[e EXCEPT !.toks = {t \in e.toks : ~Expired(t)}] : e \in log}
  IN  CompactAccount({e \in live : e.cutoff > 0 \/ e.toks # {}})

FirstPage(es) == {e \in es : Cardinality({o \in es : o.seq < e.seq}) < PageLimit}

\* One request: the page after the snapshot's checkpoint.  A page that leaves
\* more behind is followed by the next request at once; an empty one changes
\* nothing but the pruning.
FetchPage ==
  LET after == {e \in PrunedLog : e.seq > snapshot.checkpoint}
  IN  /\ poll.phase = "idle"
      /\ after # {}
      /\ log' = PrunedLog
      /\ poll' = [phase |-> "fetched", page |-> FirstPage(after)]
      /\ UNCHANGED <<clock, family, stamp, toks, lastSeq, db, snapshot, poisoned,
                     regVars, faults>>

\* applyUserRevocationPage: unexpired tokens, the newest cutoff, the last seq.
Candidate(s, page) ==
  [checkpoint |-> Max({e.seq : e \in page}),
   toks |-> {t \in s.toks \union UNION {e.toks : e \in page} : ~Expired(t)},
   cutoff |-> Max({s.cutoff} \union {e.cutoff : e \in page})]

\* Mutant: the lookups take the page and the disk does not.
ApplyPageMemoryOnly ==
  /\ poll.phase = "fetched"
  /\ ~poisoned
  /\ snapshot' = Candidate(snapshot, poll.page)
  /\ poll' = [poll EXCEPT !.phase = "applied"]
  /\ UNCHANGED <<clock, asVars, db, poisoned, regVars, faults>>

\* Commit the page, then hand it to the registry.
ApplyPage ==
  /\ poll.phase = "fetched"
  /\ ~poisoned
  /\ db' = Candidate(db, poll.page)
  /\ snapshot' = Candidate(snapshot, poll.page)
  /\ poll' = [poll EXCEPT !.phase = "applied"]
  /\ UNCHANGED <<clock, asVars, poisoned, regVars, faults>>

\* A commit error is ambiguous: the lookups take the page, the disk may not
\* have it, and the store applies nothing more.
ApplyPageAmbiguous ==
  /\ poll.phase = "fetched"
  /\ ~poisoned
  /\ faults < MaxFaults
  /\ faults' = faults + 1
  /\ snapshot' = Candidate(snapshot, poll.page)
  /\ db' \in {db, Candidate(db, poll.page)}
  /\ poisoned' = TRUE
  /\ poll' = [poll EXCEPT !.phase = "applied"]
  /\ UNCHANGED <<clock, asVars, regVars>>

\* An error before the commit, or a poisoned store: the poll ends.
ApplyPageRefused ==
  /\ poll.phase = "fetched"
  /\ \/ poisoned /\ faults' = faults
     \/ ~poisoned /\ faults < MaxFaults /\ faults' = faults + 1
  /\ poll' = NoPoll
  /\ UNCHANGED <<clock, asVars, db, snapshot, poisoned, regVars>>

\* Mutant: the cutoff second itself is denied.
IsRevokedInclusive(s, t) ==
  \/ t \in s.toks /\ ~Expired(t)
  \/ toks[t].at <= s.cutoff

\* IsRevoked: the lookup every check of the node goes through.
IsRevoked(s, t) ==
  \/ t \in s.toks /\ ~Expired(t)
  \/ toks[t].at < s.cutoff

----------------------------------------------------------------------------
(* The registry of live authorizations.                                     *)

InPage(page, t) == \E e \in page : t \in e.toks \/ toks[t].at < e.cutoff

\* revoke: delete the matching record under the lock; its close function
\* runs after the unlock.
RevokePage ==
  LET hit == record # NoRecord /\ InPage(poll.page, record.tok)
  IN  /\ poll.phase = "applied"
      /\ record' = IF hit THEN NoRecord ELSE record
      /\ closing' = IF hit THEN closing \union {record.att} ELSE closing
      /\ poll' = NoPoll
      /\ UNCHANGED <<clock, asVars, db, snapshot, poisoned, opening, opened, ready,
                     pending, binding, attached, faults>>

\* The timer of the record fires.
Expire ==
  /\ record # NoRecord
  /\ Expired(record.tok)
  /\ record' = NoRecord
  /\ closing' = closing \union {record.att}
  /\ UNCHANGED <<clock, asVars, storeVars, opening, opened, ready, pending, binding,
                 attached, faults>>

\* Mutant: teardown does not look at the incarnation.
CloseAttachmentAny(a) ==
  /\ record' = IF record.att = a THEN NoRecord ELSE record
  /\ pending' = {}
  /\ attached' = 0

\* closeAttachment: teardown is skipped when a newer incarnation is present.
CloseAttachment(a) ==
  IF record # NoRecord /\ record.att # a
    THEN UNCHANGED <<record, pending, attached>>
    ELSE record' = NoRecord /\ pending' = {} /\ attached' = 0

RunClose(a) ==
  /\ a \in closing
  /\ CloseAttachment(a)
  /\ closing' = closing \ {a}
  /\ UNCHANGED <<clock, asVars, storeVars, opening, opened, ready, binding, faults>>

\* SessionOpen: an older sequence is ignored; the token is verified and
\* registerIfNewer asks the lookup again under the registry's lock.  A refusal
\* closes the incarnation refused.
OpenSession(a, t) ==
  /\ opening = NoOpen
  /\ a \notin opened
  /\ opened' = opened \union {a}
  /\ \/ /\ record.att >= a
        /\ UNCHANGED <<record, pending, attached, opening>>
     \/ /\ record.att < a
        /\ Expired(t) \/ IsRevoked(snapshot, t)
        /\ CloseAttachment(a)
        /\ opening' = opening
     \/ /\ record.att < a
        /\ ~Expired(t) /\ ~IsRevoked(snapshot, t)
        /\ record' = [att |-> a, tok |-> t]
        /\ opening' = a
        /\ UNCHANGED <<pending, attached>>
  /\ UNCHANGED <<clock, asVars, storeVars, ready, binding, closing, faults>>

\* bindAttachment: the exact incarnation, unexpired and not revoked.
MayBind(a) ==
  /\ record.att = a
  /\ ~Expired(record.tok)
  /\ ~IsRevoked(snapshot, record.tok)

\* Mutant: the transport is installed whatever became of the record.
BindUnchecked ==
  /\ opening # NoOpen
  /\ IF ready THEN attached' = opening /\ pending' = pending
              ELSE pending' = pending \union {opening} /\ attached' = attached
  /\ opening' = NoOpen
  /\ UNCHANGED <<clock, asVars, storeVars, record, opened, ready, binding, closing, faults>>

\* attachClient under bindAttachment: install the transport, or queue it while
\* the session is starting.
Bind ==
  /\ opening # NoOpen
  /\ MayBind(opening)
  /\ IF ready THEN attached' = opening /\ pending' = pending
              ELSE pending' = pending \union {opening} /\ attached' = attached
  /\ opening' = NoOpen
  /\ UNCHANGED <<clock, asVars, storeVars, record, opened, ready, binding, closing, faults>>

\* The bind is refused, or the session is not known to the node: the record
\* of the incarnation goes and rejectSessionOpen closes it.
BindRefused ==
  /\ opening # NoOpen
  /\ ~MayBind(opening) \/ ~ready
  /\ CloseAttachment(opening)
  /\ opening' = NoOpen
  /\ UNCHANGED <<clock, asVars, storeVars, opened, ready, binding, closing, faults>>

\* The launcher registers the pump and takes the queued attaches ...
PumpReady ==
  /\ ~ready
  /\ ready' = TRUE
  /\ binding' = binding \union pending
  /\ pending' = {}
  /\ UNCHANGED <<clock, asVars, storeVars, record, opening, opened, attached, closing,
                 faults>>

\* ... and binds each after the unlock, if its incarnation is still live.
BindPending(a) ==
  /\ a \in binding
  /\ binding' = binding \ {a}
  /\ attached' = IF MayBind(a) THEN a ELSE attached
  /\ record' = IF record.att = a /\ ~MayBind(a) THEN NoRecord ELSE record
  /\ UNCHANGED <<clock, asVars, storeVars, opening, opened, ready, pending, closing,
                 faults>>

\* SessionReauth with a token of the same session key replaces the record;
\* anything else closes the incarnation.
Reauthenticate(a, t) ==
  LET valid == /\ record.att = a
               /\ ~Expired(record.tok) /\ ~Expired(t)
               /\ ~IsRevoked(snapshot, t)
               /\ toks[t].fam = toks[record.tok].fam
  IN  /\ opening = NoOpen
      /\ a \in opened
      /\ record = NoRecord \/ record.att = a
      /\ IF valid THEN record' = [att |-> a, tok |-> t] /\ UNCHANGED <<pending, attached>>
                  ELSE CloseAttachment(a)
      /\ UNCHANGED <<clock, asVars, storeVars, opening, opened, ready, binding, closing,
                     faults>>

\* SessionClose of the incarnation that holds the record.
CloseSession(a) ==
  /\ opening = NoOpen
  /\ record.att = a /\ a # 0
  /\ CloseAttachment(a)
  /\ UNCHANGED <<clock, asVars, storeVars, opening, opened, ready, binding, closing,
                 faults>>

\* The connection to the control plane ends: the registry is cleared and the
\* attach loop, with its transports, is replaced.
Disconnect ==
  /\ faults < MaxFaults
  /\ faults' = faults + 1
  /\ record' = NoRecord
  /\ opening' = NoOpen
  /\ ready' = FALSE
  /\ pending' = {} /\ binding' = {} /\ closing' = {}
  /\ attached' = 0
  /\ UNCHANGED <<clock, asVars, storeVars, opened>>

\* The node process restarts: the store prunes and loads what is on disk.
Restart ==
  /\ faults < MaxFaults
  /\ faults' = faults + 1
  /\ db' = [db EXCEPT !.toks = {t \in db.toks : ~Expired(t)}]
  /\ snapshot' = [db EXCEPT !.toks = {t \in db.toks : ~Expired(t)}]
  /\ poisoned' = FALSE
  /\ poll' = NoPoll
  /\ record' = NoRecord
  /\ opening' = NoOpen
  /\ ready' = FALSE
  /\ pending' = {} /\ binding' = {} /\ closing' = {}
  /\ attached' = 0
  /\ UNCHANGED <<clock, asVars, opened>>

----------------------------------------------------------------------------

EmptyStore == [checkpoint |-> 0, toks |-> {}, cutoff |-> 0]

Init ==
  /\ clock = 1
  /\ family = [f \in Families |-> "none"]
  /\ stamp = [f \in Families |-> 0]
  /\ toks = <<>>
  /\ log = {} /\ lastSeq = 0
  /\ db = EmptyStore /\ snapshot = EmptyStore
  /\ poisoned = FALSE
  /\ poll = NoPoll
  /\ record = NoRecord
  /\ opening = NoOpen
  /\ opened = {}
  /\ ready = FALSE
  /\ pending = {} /\ binding = {} /\ closing = {}
  /\ attached = 0
  /\ faults = 0

Accounts ==
  \/ \E f \in Families : LoginStart(f) \/ LoginInsert(f) \/ Refresh(f)
                         \/ ReuseDetected(f) \/ Logout(f)
  \/ \E now \in 1 .. MaxClock : LogoutEverywhere(now)

Consumer == FetchPage \/ ApplyPage \/ ApplyPageAmbiguous \/ ApplyPageRefused \/ RevokePage

ReceiveLoop ==
  \/ \E a \in Attachments, t \in Tokens : OpenSession(a, t) \/ Reauthenticate(a, t)
  \/ \E a \in Attachments : CloseSession(a)
  \/ Bind \/ BindRefused

Timers == Expire \/ \E a \in Attachments : RunClose(a)

Launcher == PumpReady \/ \E a \in Attachments : BindPending(a)

Next == Tick \/ Accounts \/ Consumer \/ ReceiveLoop \/ Timers \/ Launcher
        \/ Disconnect \/ Restart

Spec == Init /\ [][Next]_vars

----------------------------------------------------------------------------

Stores == [checkpoint : Nat, toks : SUBSET Tokens, cutoff : Nat]
Events == [seq : Nat \ {0}, cutoff : Nat, toks : SUBSET Tokens]
Attempts == [att : 0 .. MaxOpens, tok : {0} \union Tokens]

\* Every variable has its shape.
TypeOK ==
  /\ clock \in 1 .. MaxClock
  /\ family \in [Families -> {"none", "minting", "live", "revoked"}]
  /\ stamp \in [Families -> 0 .. MaxClock]
  /\ toks \in Seq([fam : Families, at : 1 .. MaxClock, late : BOOLEAN])
  /\ lastSeq \in Nat
  /\ log \in SUBSET Events
  /\ db \in Stores /\ snapshot \in Stores
  /\ poisoned \in BOOLEAN
  /\ poll \in [phase : {"idle", "fetched", "applied"}, page : SUBSET Events]
  /\ record \in Attempts
  /\ opening \in 0 .. MaxOpens
  /\ ready \in BOOLEAN
  /\ {opened, pending, binding, closing} \subseteq SUBSET Attachments
  /\ attached \in 0 .. MaxOpens
  /\ faults \in 0 .. MaxFaults

SignedOut(t) == family[toks[t].fam] = "revoked"

\* An unexpired token of a revoked family is denied by the node's store, on
\* disk and in memory, or an event that denies it is still ahead of that
\* store's checkpoint: compaction, pruning, paging, an ambiguous commit and a
\* restart never let a sign-out slip past a node (revocations.go,
\* revocation_store.go).
SignOutNotLost ==
  \A t \in Tokens, s \in {db, snapshot} :
    SignedOut(t) /\ ~Expired(t) =>
      \/ IsRevoked(s, t)
      \/ InPage({e \in log : e.seq > s.checkpoint}, t)

\* A token inserted in the second it is stamped with is denied only when its
\* family was revoked: a login in the very second of a sign-out everywhere
\* keeps working (the strict cutoff of IsRevoked, the explicit tokens of
\* RevokeAccount).
NoFalseDenial ==
  \A t \in Tokens :
    ~Expired(t) /\ ~toks[t].late /\ IsRevoked(snapshot, t) => SignedOut(t)

\* An installed transport is held by its own record, whose token the node
\* does not know to be revoked unless the page that says so is about to reach
\* the registry; or its close function is about to run; or a newer open is
\* about to replace it or to take it down (sessionauth.go: bindAttachment,
\* closeAttachment, revoke).
AttachedIsAuthorized ==
  attached # 0 =>
    \/ attached \in closing
    \/ opening \notin {NoOpen, attached}
    \/ /\ record.att = attached
       /\ \/ ~IsRevoked(snapshot, record.tok)
          \/ poll.phase = "applied" /\ InPage(poll.page, record.tok)

\* A token the node denies stays denied until it expires, across restarts:
\* the lookups never get ahead of the disk, except after an ambiguous commit
\* (UserRevocationStore.ApplyPage, OpenUserRevocationStore).
DenialSticks ==
  [][\A t \in Tokens :
       IsRevoked(snapshot, t) => IsRevoked(snapshot, t)' \/ Expired(t)' \/ poisoned]_vars

\* A transport goes away only with its record: the late close function of an
\* older incarnation, or the refusal of another open, never takes down the
\* session that holds the record (closeAttachment, removeIfAttachment).
LiveSessionKept ==
  [][attached # 0 /\ record.att = attached /\ attached' # attached
       => record'.att # attached]_vars

=============================================================================
