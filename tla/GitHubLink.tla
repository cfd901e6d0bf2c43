------------------------------ MODULE GitHubLink ------------------------------
(***************************************************************************)
(* The GitHub link of one account, as the account service (AS) keeps it:   *)
(* the owner's link flow (start, callback, redeem), the nodes' mints with  *)
(* their write-ahead rotation, the kill switch, and GitHub itself.         *)
(*                                                                         *)
(* GitHub hands out token tuples (a refresh token and an access token).    *)
(* A refresh token is single use: exchanging it spends the tuple and       *)
(* issues the next one.  The AS therefore stages the new tuple in the      *)
(* pending_* columns before it commits it, and a mint that finds a staged  *)
(* tuple promotes it instead of calling GitHub.  Mints of one link are     *)
(* serialised by a mutex of the process; redeem and revoke do not take it. *)
(*                                                                         *)
(* Tuples are numbered in the order GitHub issues them; 0 is "none".  The  *)
(* delivery id is a function of the version and is left out.  Answers that *)
(* change nothing (a cached token, a denied reference, an unknown link)    *)
(* are stuttering steps.                                                   *)
(***************************************************************************)
EXTENDS Naturals, FiniteSets

CONSTANTS Mints,       \* mint requests the AS may be serving
          Flows,       \* link flows the owner may start
          Users,       \* GitHub identities
          NoMint,      \* nobody holds the mint lock
          NoUser,      \* owner of a tuple GitHub has not issued
          MaxTuples,   \* bound on the tuples GitHub issues
          QuietRelink  \* the owner relinks only between rotations

ASSUME BoundAssumption == MaxTuples \in Nat \ {0}
ASSUME NoMintAssumption == NoMint \notin Mints
ASSUME QuietAssumption == QuietRelink \in BOOLEAN

VARIABLES
  issued,    \* GitHub: tuples issued so far
  owner,     \* GitHub: the identity behind each tuple
  spent,     \* GitHub: tuples whose refresh token was exchanged
  killed,    \* GitHub: tuples whose grant was deleted
  fresh,     \* tuples whose access token outlives githubMintRefreshLead
  row,       \* the github_links row; version 0 means there is none
  lock,      \* githubMintLocks[secret_id]
  mint,      \* the mints in progress
  flow,      \* githubLinkFlows
  peeked,    \* flows with a redeem request past its checks
  revoker,   \* the kill switch in progress
  lost       \* tuples whose successor was dropped before it was staged

github == <<issued, owner, spent, killed, fresh>>
link == <<flow, peeked, revoker>>
vars == <<github, row, lock, mint, link, lost>>

-----------------------------------------------------------------------------
Tuples == 1..MaxTuples
MintSteps == {"idle", "refresh", "mark", "stage", "commit"}
Idle == [pc |-> "idle", tuple |-> 0, version |-> 0, next |-> 0]
NoRow == [version |-> 0, tuple |-> 0, user |-> NoUser, revoked |-> FALSE,
          relink |-> FALSE, staged |-> 0, stagedVersion |-> 0]
NoRevoke == [pc |-> "idle", tuple |-> 0]

RowType == [version: Nat, tuple: 0..MaxTuples, user: Users \cup {NoUser},
            revoked: BOOLEAN, relink: BOOLEAN,
            staged: 0..MaxTuples, stagedVersion: Nat]
MintType == [pc: MintSteps, tuple: 0..MaxTuples, version: Nat,
             next: 0..MaxTuples]
FlowType == [status: {"new", "issued", "ready", "error", "closed"},
             tuple: 0..MaxTuples]
RevokeType == [pc: {"idle", "grant", "flip"}, tuple: 0..MaxTuples]

TypeOK ==
  /\ issued \in 0..MaxTuples
  /\ owner \in [Tuples -> Users \cup {NoUser}]
  /\ spent \in SUBSET Tuples
  /\ killed \in SUBSET Tuples
  /\ fresh \in SUBSET Tuples
  /\ row \in RowType
  /\ lock \in Mints \cup {NoMint}
  /\ mint \in [Mints -> MintType]
  /\ flow \in [Flows -> FlowType]
  /\ peeked \in SUBSET Flows
  /\ revoker \in RevokeType
  /\ lost \in SUBSET (0..MaxTuples)

Init ==
  /\ issued = 0
  /\ owner = [t \in Tuples |-> NoUser]
  /\ spent = {} /\ killed = {} /\ fresh = {}
  /\ row = NoRow
  /\ lock = NoMint
  /\ mint = [m \in Mints |-> Idle]
  /\ flow = [f \in Flows |-> [status |-> "new", tuple |-> 0]]
  /\ peeked = {}
  /\ revoker = NoRevoke
  /\ lost = {}

-----------------------------------------------------------------------------
(* GitHub and the clock.                                                   *)

Usable(t) == t \in 1..issued \ (spent \cup killed)

\* GitHub issues tuple t to identity u.
Issue(t, u) ==
  /\ t = issued + 1 /\ t <= MaxTuples
  /\ issued' = t
  /\ owner' = [owner EXCEPT ![t] = u]
  /\ fresh' = fresh \cup {t}

\* DELETE /applications/{client_id}/grant: every tuple of u dies.
DeleteGrant(u) == killed' = killed \cup {t \in 1..issued : owner[t] = u}

\* An access token comes within the refresh lead of its expiry.
Age(t) ==
  /\ t \in fresh
  /\ fresh' = fresh \ {t}
  /\ UNCHANGED <<issued, owner, spent, killed, row, lock, mint, link, lost>>

\* The owner removes the App at GitHub.
Uninstall(u) ==
  /\ DeleteGrant(u) /\ killed' # killed
  /\ UNCHANGED <<issued, owner, spent, fresh, row, lock, mint, link, lost>>

-----------------------------------------------------------------------------
(* MintGitHubAccessToken.                                                  *)

Linked == row.version > 0 /\ ~row.revoked

Finish(m) ==
  /\ mint' = [mint EXCEPT ![m] = Idle]
  /\ lock' = NoMint

\* The mint reads the row: a staged tuple is promoted, a current token that
\* has aged is refreshed.  ref 0 is an initial reference.
ReadRow(m, ref) ==
  /\ Linked /\ ~row.relink
  /\ \/ /\ row.staged # 0
        /\ mint' = [mint EXCEPT ![m] =
             [pc |-> "commit", tuple |-> row.tuple,
              version |-> row.stagedVersion, next |-> row.staged]]
     \/ /\ row.staged = 0 /\ ref \in {0, row.version} /\ row.tuple \notin fresh
        /\ mint' = [mint EXCEPT ![m] =
             [pc |-> "refresh", tuple |-> row.tuple,
              version |-> row.version + 1, next |-> 0]]
  /\ lock' = m
  /\ UNCHANGED <<github, row, link, lost>>

\* Mutant: a mint that does not wait for the lock.
MintReadUnlocked(m, ref) == mint[m].pc = "idle" /\ ReadRow(m, ref)

\* The mint takes the lock of the link, then reads the row.
MintRead(m, ref) ==
  /\ mint[m].pc = "idle" /\ lock = NoMint
  /\ ReadRow(m, ref)

\* RefreshUserAccessToken: GitHub spends the refresh token and answers with
\* the next tuple, or the answer never reaches the AS.
Exchange(m) ==
  /\ mint[m].pc = "refresh" /\ Usable(mint[m].tuple)
  /\ Issue(issued + 1, owner[mint[m].tuple])
  /\ spent' = spent \cup {mint[m].tuple}
  /\ UNCHANGED <<killed, row, link>>

MintRefresh(m) ==
  /\ Exchange(m)
  /\ mint' = [mint EXCEPT ![m].pc = "stage", ![m].next = issued + 1]
  /\ UNCHANGED <<lock, lost>>

MintRefreshLost(m) ==
  /\ Exchange(m)
  /\ lost' = lost \cup {mint[m].tuple}
  /\ Finish(m)

\* GitHub cannot be reached: unavailable, nothing changed.
MintUnavailable(m) ==
  /\ mint[m].pc = "refresh"
  /\ Finish(m)
  /\ UNCHANGED <<github, row, link, lost>>

\* GitHub rejects the refresh token: ErrRefreshRejected.
MintRejected(m) ==
  /\ mint[m].pc = "refresh" /\ ~Usable(mint[m].tuple)
  /\ mint' = [mint EXCEPT ![m].pc = "mark"]
  /\ UNCHANGED <<github, row, lock, link, lost>>

\* MarkRelinkRequired, which skips a revoked row and whose error is ignored.
MintMark(m) ==
  /\ mint[m].pc = "mark"
  /\ \/ Linked /\ row' = [row EXCEPT !.relink = TRUE]
     \/ UNCHANGED row
  /\ Finish(m)
  /\ UNCHANGED <<github, link, lost>>

\* Mutant: no write-ahead.
MintStageSkipped(m) ==
  /\ mint[m].pc = "stage" /\ Linked
  /\ mint' = [mint EXCEPT ![m].pc = "commit"]
  /\ UNCHANGED <<github, row, lock, link, lost>>

\* StageRotation: the write-ahead of the new tuple.
MintStage(m) ==
  /\ mint[m].pc = "stage" /\ Linked
  /\ row' = [row EXCEPT !.staged = mint[m].next,
                        !.stagedVersion = mint[m].version]
  /\ mint' = [mint EXCEPT ![m].pc = "commit"]
  /\ UNCHANGED <<github, lock, link, lost>>

\* The row was revoked meanwhile, or the write failed.
MintStageFails(m) ==
  /\ mint[m].pc = "stage"
  /\ lost' = lost \cup {mint[m].tuple}
  /\ Finish(m)
  /\ UNCHANGED <<github, row, link>>

\* Mutant: Rotate without its revoked = 0 condition.
MintCommitUnfenced(m) ==
  /\ mint[m].pc = "commit"
  /\ row' = [row EXCEPT !.tuple = mint[m].next, !.version = mint[m].version,
                        !.staged = 0, !.stagedVersion = 0, !.relink = FALSE]
  /\ Finish(m)
  /\ UNCHANGED <<github, link, lost>>

\* Rotate: the tuple becomes the live one and the stage is cleared.
MintCommit(m) ==
  /\ mint[m].pc = "commit" /\ Linked
  /\ row' = [row EXCEPT !.tuple = mint[m].next, !.version = mint[m].version,
                        !.staged = 0, !.stagedVersion = 0, !.relink = FALSE]
  /\ Finish(m)
  /\ UNCHANGED <<github, link, lost>>

\* The row was revoked meanwhile, or the write failed.
MintCommitFails(m) ==
  /\ mint[m].pc = "commit"
  /\ Finish(m)
  /\ UNCHANGED <<github, row, link, lost>>

-----------------------------------------------------------------------------
(* The link flow.                                                          *)

LinkStart(f) ==
  /\ flow[f].status = "new"
  /\ flow' = [flow EXCEPT ![f].status = "issued"]
  /\ UNCHANGED <<github, row, lock, mint, peeked, revoker, lost>>

\* The callback exchanges the code; a failing user fetch drops the tuple
\* and leaves the flow as it was.
LinkCallback(f, u) ==
  /\ flow[f].status = "issued"
  /\ Issue(issued + 1, u)
  /\ \/ flow' = [flow EXCEPT ![f] = [status |-> "ready", tuple |-> issued + 1]]
     \/ UNCHANGED flow
  /\ UNCHANGED <<spent, killed, row, lock, mint, peeked, revoker, lost>>

\* The user refuses at GitHub.
LinkDenied(f) ==
  /\ flow[f].status = "issued"
  /\ flow' = [flow EXCEPT ![f].status = "error"]
  /\ UNCHANGED <<github, row, lock, mint, peeked, revoker, lost>>

\* serveGitHubLinkRedeem up to the pop: the checks, on a copy of the flow.
RedeemPeek(f) ==
  /\ flow[f].status = "ready" /\ f \notin peeked
  /\ peeked' = peeked \cup {f}
  /\ UNCHANGED <<github, row, lock, mint, flow, revoker, lost>>

\* No rotation is staged and no mint is between its read and its last write.
Quiet == row.staged = 0 /\ lock = NoMint

\* Mutant: the version restarts on a revoked row.
RedeemUpsertResets(f) ==
  row' = [row EXCEPT !.version = IF row.revoked THEN 1 ELSE @ + 1,
                     !.tuple = flow[f].tuple,
                     !.user = owner[flow[f].tuple],
                     !.revoked = FALSE, !.relink = FALSE]

\* RedeemUpsert: a new row, or the next version of the old one.
RedeemUpsert(f) ==
  row' = [row EXCEPT !.version = @ + 1, !.tuple = flow[f].tuple,
                     !.user = owner[flow[f].tuple],
                     !.revoked = FALSE, !.relink = FALSE]

\* The single-use pop and the upsert, which may fail.
RedeemPop(f) ==
  /\ f \in peeked /\ flow[f].status = "ready"
  /\ QuietRelink => Quiet
  /\ flow' = [flow EXCEPT ![f] = [status |-> "closed", tuple |-> 0]]
  /\ peeked' = peeked \ {f}
  /\ \/ RedeemUpsert(f)
     \/ UNCHANGED row
  /\ UNCHANGED <<github, lock, mint, revoker, lost>>

\* The reaper evicts an expired flow; a request past its checks finds it gone.
\* Of a ready flow it also deletes the access token, which no row refers to.
ReapFlow(f) ==
  /\ flow[f].status \in {"issued", "ready", "error"}
  /\ flow' = [flow EXCEPT ![f] = [status |-> "closed", tuple |-> 0]]
  /\ peeked' = peeked \ {f}
  /\ UNCHANGED <<github, row, lock, mint, revoker, lost>>

-----------------------------------------------------------------------------
(* serveGitHubLinkRevoke: read the row, delete the grant, close the row.   *)

RevokeRead ==
  /\ revoker.pc = "idle" /\ Linked
  /\ revoker' = [pc |-> "grant", tuple |-> row.tuple]
  /\ UNCHANGED <<github, row, lock, mint, flow, peeked, lost>>

\* GitHub knows the access token only while its tuple is neither spent nor
\* killed; for any other it answers 404, which the AS takes for success.
RevokeGrant ==
  /\ revoker.pc = "grant"
  /\ revoker' = [revoker EXCEPT !.pc = "flip"]
  /\ \/ Usable(revoker.tuple) /\ DeleteGrant(owner[revoker.tuple])
     \/ UNCHANGED killed
  /\ UNCHANGED <<issued, owner, spent, fresh, row, lock, mint, flow, peeked,
                 lost>>

\* The row is closed whatever GitHub answered, unless the write fails.
RevokeFlip ==
  /\ revoker.pc = "flip"
  /\ revoker' = NoRevoke
  /\ \/ Linked /\ row' = [row EXCEPT !.revoked = TRUE]
     \/ UNCHANGED row
  /\ UNCHANGED <<github, lock, mint, flow, peeked, lost>>

-----------------------------------------------------------------------------
\* The AS restarts: mints, flows, locks and the revoke request die.
Crash ==
  /\ lost' = lost \cup {mint[m].tuple : m \in {n \in Mints :
                                                 mint[n].pc = "stage"}}
  /\ mint' = [m \in Mints |-> Idle]
  /\ lock' = NoMint
  /\ flow' = [f \in Flows |->
       IF flow[f].status = "new" THEN flow[f]
       ELSE [status |-> "closed", tuple |-> 0]]
  /\ peeked' = {}
  /\ revoker' = NoRevoke
  /\ UNCHANGED <<github, row>>

MintNext ==
  \E m \in Mints :
    \/ \E ref \in 0..row.version : MintRead(m, ref)
    \/ MintRefresh(m) \/ MintRefreshLost(m)
    \/ MintUnavailable(m) \/ MintRejected(m) \/ MintMark(m)
    \/ MintStage(m) \/ MintStageFails(m)
    \/ MintCommit(m) \/ MintCommitFails(m)

LinkNext ==
  \/ \E f \in Flows :
       \/ LinkStart(f) \/ LinkDenied(f)
       \/ \E u \in Users : LinkCallback(f, u)
       \/ RedeemPeek(f) \/ RedeemPop(f) \/ ReapFlow(f)
  \/ RevokeRead \/ RevokeGrant \/ RevokeFlip

Next ==
  \/ MintNext
  \/ LinkNext
  \/ \E t \in Tuples : Age(t)
  \/ \E u \in Users : Uninstall(u)
  \/ Crash

Spec == Init /\ [][Next]_vars

-----------------------------------------------------------------------------
(* Properties.                                                             *)

\* The successor of the live tuple is in the hands of a mint.
InHand == \E m \in Mints : mint[m].pc = "stage" /\ mint[m].tuple = row.tuple

\* The refresh chain is never dropped silently: when the row's refresh token
\* has been exchanged at GitHub, its successor is staged, or a mint still
\* holds it, or a failure between GitHub's answer and the staging lost it.
\* This is what the write-ahead of MintGitHubAccessToken is for.
ChainKept ==
  row.tuple \in spent =>
    \/ row.staged \notin spent \cup {0}
    \/ InHand
    \/ row.tuple \in lost

\* A link is marked relink_required only when its chain is really broken:
\* GitHub accepts neither the live nor the staged refresh token.
RelinkIsTrue ==
  row.relink => ~Usable(row.tuple) /\ ~Usable(row.staged)

\* Every new live tuple has a version, and so a delivery id, that no earlier
\* tuple of the link had ("no deliveryID collision across revoke->relink").
DeliveryNamesOneTuple ==
  [][row'.tuple # row.tuple => row'.version > row.version]_vars

\* The tokens the AS serves belong to the identity the row names.  Not so when
\* the owner relinks to another identity under a mint: it then commits a tuple
\* of the old one.
TokenMatchesIdentity == row.version > 0 => owner[row.tuple] = row.user

\* A revoked row changes only by a relink: a mint that was under way when
\* the kill switch closed the link installs nothing.
RevokedIsInert == [][row.revoked /\ row'.revoked => row' = row]_vars
=============================================================================
