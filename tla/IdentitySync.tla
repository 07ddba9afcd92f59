---------------------------- MODULE IdentitySync ----------------------------
(***************************************************************************)
(* One account, kept in two databases.  The authentication service         *)
(* (apps/auth) owns the account: its lifecycle state, its security version,*)
(* its sessions and the access tokens it signs.  The Go API (backend) keeps*)
(* a mirror of it and compares every access token with the mirror.  Each   *)
(* change of the account and the event that announces it are one database  *)
(* transaction (the outbox); the event is then posted to the API, any      *)
(* number of times and in any order, until a post is acknowledged.         *)
(*                                                                         *)
(* A handler is one transaction of the API that serves one post.  Times    *)
(* are not modelled: a retry may happen at any moment, a token never       *)
(* expires, and the 30 day recovery period ends by an action of its own.   *)
(***************************************************************************)
EXTENDS Integers, FiniteSets

CONSTANTS
  Handlers,    \* transactions of the API that may run at the same time
  Emails,      \* the addresses the account may have
  NoEmail,     \* the address of an erased account in the API's database
  Requests,    \* the kinds of request that are made
  MaxEvents,   \* bound: identity events ever queued for the account
  MaxCrashes   \* bound: restarts of the authentication service

ASSUME BoundsAssumption ==
  /\ MaxEvents \in Nat \ {0}
  /\ MaxCrashes \in Nat

ASSUME EmailsAssumption == Emails # {} /\ NoEmail \notin Emails

RequestKinds == {"verify", "email", "mfa", "revoke", "suspend", "delete", "sign_in"}
ASSUME RequestsAssumption == Requests \subseteq RequestKinds

Ids == 1..MaxEvents
Versions == 1..(MaxEvents + 1)

(* The states of an account; "none" before sign-up. *)
AccountStates == {"active", "suspended", "deletion_pending", "deleted"}

EventTypes ==
  {"auth_user_created", "email_verified", "email_changed", "sessions_revoked",
   "mfa_configured", "mfa_disabled", "account_state_changed",
   "deletion_requested", "deletion_cancelled", "auth_pseudonymized"}

(* emailVerified or accountState, where the event carries one. *)
Args == {"nothing", "verified", "unverified", "active", "suspended"}

(* NoEmail: the event carries no address. *)
Events == [id : Ids, type : EventTypes, ver : Versions, arg : Args,
           email : Emails \cup {NoEmail}]

VARIABLES
  (* the authentication service's database *)
  aState, aVer, aMfa, aVerified, aEmail,
  session,     \* whether the account has a session row
  recovery,    \* whether it has a recovery token neither used nor revoked
  lapsed,      \* whether the recovery deadline has passed
  outbox,      \* the identity events of lifecycle_outbox
  delivered,   \* ids of the entries with delivered_at set
  nextId,
  (* its memory *)
  signIn,      \* a sign-in has passed the state check, its row not inserted
  hook,        \* the request that is between two of its transactions
  crashes,
  (* the world *)
  tokens,      \* security versions of the access tokens signed so far
  (* the API's database *)
  mLink, mState, mVer, mMfa, mEmail, mErased,
  receipts,    \* ids in identity_event_receipts
  applied,     \* how often each event has changed the mirror (history)
  (* the API's transactions *)
  handler

authVars == <<aState, aVer, aMfa, aVerified, aEmail, session, recovery, lapsed>>
memoryVars == <<signIn, hook, crashes>>
queueVars == <<outbox, nextId>>
mirrorVars == <<mLink, mState, mVer, mMfa, mEmail, mErased>>
apiVars == <<mirrorVars, receipts, applied, handler>>
vars == <<authVars, memoryVars, queueVars, delivered, tokens, apiVars>>

NoEvent == [id |-> 0, type |-> "none", ver |-> 0, arg |-> "nothing", email |-> NoEmail]
Idle == [pc |-> "idle", ev |-> NoEvent, found |-> FALSE, ver |-> 0]

(* Better Auth calls the hook after its own write has committed; the hook  *)
(* then runs in steps: "revoke" and "await" for a changed address, "read"  *)
(* for the version, "queue" for the event, "record" for two-factor.        *)
NoHook == [kind |-> "none", step |-> "none", ver |-> 0, wait |-> 0, arg |-> "nothing",
           email |-> NoEmail]

TypeOK ==
  /\ aState \in AccountStates \cup {"none"}
  /\ aVer \in 0..(MaxEvents + 1)
  /\ aMfa \in BOOLEAN /\ aVerified \in BOOLEAN /\ aEmail \in Emails \cup {NoEmail}
  /\ session \in BOOLEAN
  /\ recovery \in BOOLEAN /\ lapsed \in BOOLEAN
  /\ outbox \subseteq Events
  /\ delivered \subseteq Ids
  /\ nextId \in 1..(MaxEvents + 1)
  /\ signIn \in BOOLEAN
  /\ hook \in [kind : {"none", "created", "verified", "email",
                       "mfa_configured", "mfa_disabled"},
               step : {"none", "revoke", "await", "read", "queue", "record"},
               ver : 0..(MaxEvents + 1), wait : 0..MaxEvents, arg : Args,
               email : Emails \cup {NoEmail}]
  /\ crashes \in 0..MaxCrashes
  /\ tokens \subseteq Versions
  /\ mLink \in {"absent", "inactive", "active"}
  /\ mState \in AccountStates
  /\ mVer \in 0..(MaxEvents + 1)
  /\ mMfa \in BOOLEAN /\ mEmail \in Emails \cup {NoEmail} /\ mErased \in BOOLEAN
  /\ receipts \subseteq Ids
  /\ applied \in [Ids -> Nat]
  /\ handler \in [Handlers -> [pc : {"idle", "sent", "begun", "waiting", "ok"},
                               ev : Events \cup {NoEvent},
                               found : BOOLEAN, ver : 0..(MaxEvents + 1)]]

Init ==
  /\ aState = "none" /\ aVer = 0 /\ aMfa = FALSE /\ aVerified = FALSE
  /\ aEmail = NoEmail /\ session = FALSE /\ recovery = FALSE /\ lapsed = FALSE
  /\ outbox = {} /\ delivered = {} /\ nextId = 1
  /\ signIn = FALSE /\ hook = NoHook /\ crashes = 0
  /\ tokens = {}
  /\ mLink = "absent" /\ mState = "active" /\ mVer = 0 /\ mMfa = FALSE
  /\ mEmail = NoEmail /\ mErased = FALSE
  /\ receipts = {} /\ applied = [i \in Ids |-> 0]
  /\ handler = [h \in Handlers |-> Idle]

-----------------------------------------------------------------------------
(* The authentication service                                              *)

Exists == aState # "none"
Recoverable == aState = "deletion_pending" /\ ~lapsed

(* The entry is written by the transaction that makes the change. *)
Enqueue(entries, type, ver, arg, email) ==
  /\ nextId <= MaxEvents
  /\ outbox' = entries \cup {[id |-> nextId, type |-> type, ver |-> ver, arg |-> arg,
                              email |-> email]}
  /\ nextId' = nextId + 1

(* The new security version, announced by an event of its own. *)
NextVersion(entries, type, arg) ==
  /\ aVer' = aVer + 1
  /\ Enqueue(entries, type, aVer + 1, arg, NoEmail)

(* Faulty variants of the operations below, none of them part of the       *)
(* specification: the version is not raised, a guard is missing.           *)
SetSuspendedKeepsVersion(suspended) ==
  /\ aState \in {"active", "suspended"}
  /\ aState' = IF suspended THEN "suspended" ELSE "active"
  /\ aVer' = aVer
  /\ Enqueue(outbox, "account_state_changed", aVer, aState', NoEmail)
  /\ session' = FALSE
  /\ UNCHANGED <<aMfa, aVerified, aEmail, recovery, lapsed, memoryVars, delivered,
                 tokens, apiVars>>

(* Better Auth inserts the user; the hook that announces it runs after.    *)
SignUp(verified, email) ==
  /\ aState = "none"
  /\ hook = NoHook
  /\ aState' = "active" /\ aVer' = 1
  /\ aVerified' = verified /\ aEmail' = email
  /\ hook' = [NoHook EXCEPT !.kind = "created", !.step = "read", !.email = email,
                            !.arg = IF verified THEN "verified" ELSE "unverified"]
  /\ UNCHANGED <<aMfa, session, recovery, lapsed, signIn, crashes, queueVars,
                 delivered, tokens, apiVars>>

(* The user follows the link of the verification message. *)
VerifyEmail ==
  /\ Exists /\ aState # "deleted" /\ ~aVerified
  /\ hook = NoHook
  /\ aVerified' = TRUE
  /\ hook' = [NoHook EXCEPT !.kind = "verified", !.step = "read"]
  /\ UNCHANGED <<aState, aVer, aMfa, aEmail, session, recovery, lapsed, signIn,
                 crashes, queueVars, delivered, tokens, apiVars>>

(* The user follows the link that confirms a new address. *)
ChangeEmail(email) ==
  /\ Exists /\ aState # "deleted" /\ aVerified
  /\ hook = NoHook
  /\ email # aEmail
  /\ aEmail' = email
  /\ hook' = [NoHook EXCEPT !.kind = "email", !.step = "revoke", !.email = email]
  /\ UNCHANGED <<aState, aVer, aMfa, aVerified, session, recovery, lapsed, signIn,
                 crashes, queueVars, delivered, tokens, apiVars>>

(* Better Auth flips two_factor_enabled for whoever has a session, whatever*)
(* the account's state; recordMfaState follows.                            *)
ToggleMfa ==
  /\ Exists /\ session
  /\ hook = NoHook
  /\ aMfa' = ~aMfa
  /\ hook' = [NoHook EXCEPT !.step = "record",
                            !.kind = IF aMfa THEN "mfa_disabled" ELSE "mfa_configured"]
  /\ UNCHANGED <<aState, aVer, aVerified, aEmail, session, recovery, lapsed, signIn,
                 crashes, queueVars, delivered, tokens, apiVars>>

(* afterEmailVerification of a changed address first revokes the sessions  *)
(* and waits for the API's answer ...                                      *)
HookRevoke ==
  /\ hook.step = "revoke"
  /\ NextVersion(outbox, "sessions_revoked", "nothing")
  /\ session' = FALSE
  /\ hook' = [hook EXCEPT !.step = "await", !.wait = nextId]
  /\ UNCHANGED <<aState, aMfa, aVerified, aEmail, recovery, lapsed, signIn, crashes,
                 delivered, tokens, apiVars>>

(* ... and goes on when its post is acknowledged, also when the erasure has *)
(* deleted the entry meanwhile: the UPDATE then finds no row and nobody     *)
(* looks at how many it found ...                                           *)
HookAwait ==
  /\ hook.step = "await"
  /\ hook.wait \in delivered \/ \A e \in outbox : e.id # hook.wait
  /\ hook' = [hook EXCEPT !.step = "read", !.wait = 0]
  /\ UNCHANGED <<authVars, signIn, crashes, queueVars, delivered, tokens, apiVars>>

(* ... and ends with IdentitySynchronizationPendingError, the new address  *)
(* never announced, when that one delivery attempt fails, though a post of *)
(* the sweep may have been acknowledged.                                   *)
HookGiveUp ==
  /\ hook.step = "await"
  /\ hook' = NoHook
  /\ UNCHANGED <<authVars, signIn, crashes, queueVars, delivered, tokens, apiVars>>

(* currentSecurityVersion: a query of its own, before the event is queued. *)
HookRead ==
  /\ hook.step = "read"
  /\ hook' = [hook EXCEPT !.step = "queue", !.ver = aVer]
  /\ UNCHANGED <<authVars, signIn, crashes, queueVars, delivered, tokens, apiVars>>

HookEvent == [created |-> "auth_user_created", verified |-> "email_verified",
              email |-> "email_changed"]

HookQueue ==
  /\ hook.step = "queue"
  /\ Enqueue(outbox, HookEvent[hook.kind], hook.ver, hook.arg, hook.email)
  /\ hook' = NoHook
  /\ UNCHANGED <<authVars, signIn, crashes, delivered, tokens, apiVars>>

(* recordMfaState, with what the request has found, not what is there now. *)
HookRecordMfa ==
  /\ hook.step = "record"
  /\ NextVersion(outbox, hook.kind, "nothing")
  /\ session' = FALSE
  /\ hook' = NoHook
  /\ UNCHANGED <<aState, aMfa, aVerified, aEmail, recovery, lapsed, signIn, crashes,
                 delivered, tokens, apiVars>>

(* A password change or reset, new backup codes, a linked or unlinked      *)
(* provider, or the API asking: whatever state the account is in.          *)
RevokeSessions ==
  /\ Exists
  /\ NextVersion(outbox, "sessions_revoked", "nothing")
  /\ session' = FALSE
  /\ UNCHANGED <<aState, aMfa, aVerified, aEmail, recovery, lapsed, memoryVars,
                 delivered, tokens, apiVars>>

(* The state it is set to may be the one it has. *)
SetSuspended(suspended) ==
  /\ aState \in {"active", "suspended"}
  /\ aState' = IF suspended THEN "suspended" ELSE "active"
  /\ NextVersion(outbox, "account_state_changed", aState')
  /\ session' = FALSE
  /\ UNCHANGED <<aMfa, aVerified, aEmail, recovery, lapsed, memoryVars, delivered,
                 tokens, apiVars>>

RequestDeletion ==
  /\ aState \in {"active", "suspended"}
  /\ aState' = "deletion_pending"
  /\ recovery' = TRUE /\ lapsed' = FALSE
  /\ NextVersion(outbox, "deletion_requested", "nothing")
  /\ session' = FALSE
  /\ UNCHANGED <<aMfa, aVerified, aEmail, memoryVars, delivered, tokens, apiVars>>

CancelDeletion ==
  /\ Recoverable
  /\ aState' = "active"
  /\ recovery' = FALSE
  /\ NextVersion(outbox, "deletion_cancelled", "nothing")
  /\ UNCHANGED <<aMfa, aVerified, aEmail, session, lapsed, memoryVars, delivered,
                 tokens, apiVars>>

CancelDeletionWithRecoveryToken ==
  /\ Recoverable /\ recovery
  /\ aState' = "active"
  /\ recovery' = FALSE
  /\ NextVersion(outbox, "deletion_cancelled", "nothing")
  /\ UNCHANGED <<aMfa, aVerified, aEmail, session, lapsed, memoryVars, delivered,
                 tokens, apiVars>>

(* Thirty days pass: nothing that lasts seconds is still in progress.      *)
GraceElapses ==
  /\ Recoverable
  /\ hook = NoHook /\ ~signIn
  /\ \A h \in Handlers : handler[h].pc = "idle"
  /\ lapsed' = TRUE
  /\ UNCHANGED <<aState, aVer, aMfa, aVerified, aEmail, session, recovery, memoryVars,
                 queueVars, delivered, tokens, apiVars>>

(* The hourly sweep (or the API) erases the account, its sessions, its     *)
(* recovery tokens and every entry of the outbox that names it, sent or    *)
(* not, and queues the last event.                                         *)
Pseudonymize ==
  /\ aState = "deletion_pending" /\ lapsed
  /\ aState' = "deleted"
  /\ aVerified' = FALSE /\ aMfa' = FALSE /\ aEmail' = NoEmail
  /\ session' = FALSE /\ recovery' = FALSE /\ lapsed' = FALSE
  /\ NextVersion({}, "auth_pseudonymized", "nothing")
  /\ UNCHANGED <<memoryVars, delivered, tokens, apiVars>>

(* databaseHooks.session.create.before reads the state; Better Auth        *)
(* inserts the row afterwards.                                             *)
SignInCheck ==
  /\ ~signIn
  /\ aState = "active" /\ aVerified
  /\ signIn' = TRUE
  /\ UNCHANGED <<authVars, hook, crashes, queueVars, delivered, tokens, apiVars>>

SignInInsert ==
  /\ signIn
  /\ signIn' = FALSE /\ session' = TRUE
  /\ UNCHANGED <<aState, aVer, aMfa, aVerified, aEmail, recovery, lapsed, hook, crashes,
                 queueVars, delivered, tokens, apiVars>>

(* definePayload reads session, state and version in one query, and        *)
(* buildAccessClaims refuses an account that is not active and verified.   *)
MintToken ==
  /\ session
  /\ aState = "active" /\ aVerified
  /\ tokens' = tokens \cup {aVer}
  /\ tokens' # tokens
  /\ UNCHANGED <<authVars, memoryVars, queueVars, delivered, apiVars>>

(* The process restarts: what was between two transactions is forgotten.   *)
Crash ==
  /\ crashes < MaxCrashes
  /\ hook # NoHook \/ signIn
  /\ hook' = NoHook /\ signIn' = FALSE
  /\ crashes' = crashes + 1
  /\ UNCHANGED <<authVars, queueVars, delivered, tokens, apiVars>>

-----------------------------------------------------------------------------
(* Delivery: the request that queued the entry and the five second sweep   *)
(* both post it, and a post that timed out may still be running.           *)

Post(h, e) ==
  /\ handler[h].pc = "idle"
  /\ e.id \notin delivered
  /\ handler' = [handler EXCEPT ![h] = [Idle EXCEPT !.pc = "sent", !.ev = e]]
  /\ UNCHANGED <<authVars, memoryVars, queueVars, delivered, tokens, mirrorVars,
                 receipts, applied>>

(* Faulty variant: an error or a timeout counts as an answer. *)
AcknowledgeAnyAnswer(h) ==
  /\ handler[h].pc # "idle"
  /\ delivered' = delivered \cup {e.id : e \in {o \in outbox : o.id = handler[h].ev.id}}
  /\ handler' = [handler EXCEPT ![h] = Idle]
  /\ UNCHANGED <<authVars, memoryVars, queueVars, tokens, mirrorVars, receipts, applied>>

(* The 2xx answer arrives and delivered_at is set, if the entry is there. *)
Acknowledge(h) ==
  /\ handler[h].pc = "ok"
  /\ delivered' = delivered \cup {e.id : e \in {o \in outbox : o.id = handler[h].ev.id}}
  /\ handler' = [handler EXCEPT ![h] = Idle]
  /\ UNCHANGED <<authVars, memoryVars, queueVars, tokens, mirrorVars, receipts, applied>>

(* The post, its transaction or its answer is lost; nothing was kept of    *)
(* the transaction unless it had committed.                                *)
Lose(h) ==
  /\ handler[h].pc # "idle"
  /\ handler' = [handler EXCEPT ![h] = Idle]
  /\ UNCHANGED <<authVars, memoryVars, queueVars, delivered, tokens, mirrorVars,
                 receipts, applied>>

-----------------------------------------------------------------------------
(* The API: ApplyIdentityEvent                                             *)

InTransaction(h) == handler[h].pc \in {"begun", "waiting"}

(* Faulty variant: the receipt of a duplicate is not looked at. *)
InsertReceiptAlways(h) ==
  /\ handler[h].pc = "sent"
  /\ handler' = [handler EXCEPT ![h].pc = "begun"]
  /\ UNCHANGED <<authVars, memoryVars, queueVars, delivered, tokens, mirrorVars,
                 receipts, applied>>

(* INSERT ... ON CONFLICT DO NOTHING waits for a transaction that has      *)
(* inserted the same event id, then sees whether it has committed.         *)
InsertReceipt(h) ==
  /\ handler[h].pc = "sent"
  /\ \A g \in Handlers : InTransaction(g) => handler[g].ev.id # handler[h].ev.id
  /\ handler' = [handler EXCEPT ![h].pc =
                   IF handler[h].ev.id \in receipts THEN "ok" ELSE "begun"]
  /\ UNCHANGED <<authVars, memoryVars, queueVars, delivered, tokens, mirrorVars,
                 receipts, applied>>

(* SELECT ... FOR UPDATE OF l,u: the statement's snapshot is taken before  *)
(* it waits for the locks, and the row of user_security is not locked, so  *)
(* the version is the one of the snapshot.                                 *)
SelectLink(h) ==
  /\ handler[h].pc = "begun"
  /\ handler' = [handler EXCEPT ![h].pc = "waiting", ![h].found = (mLink # "absent"),
                                ![h].ver = mVer]
  /\ UNCHANGED <<authVars, memoryVars, queueVars, delivered, tokens, mirrorVars,
                 receipts, applied>>

(* The locks are held from here to the commit: one step. *)
Commit(h) ==
  /\ receipts' = receipts \cup {handler[h].ev.id}
  /\ handler' = [handler EXCEPT ![h] = [Idle EXCEPT !.pc = "ok", !.ev = handler[h].ev]]
  /\ UNCHANGED <<authVars, memoryVars, queueVars, delivered, tokens>>

(* Faulty variants: the receipt of an event whose user is not known yet is *)
(* kept, an event of the version already mirrored counts as stale.         *)
NotFoundKeepsReceipt(h) ==
  /\ handler[h].pc = "waiting"
  /\ ~handler[h].found /\ handler[h].ev.type # "auth_user_created"
  /\ UNCHANGED <<mirrorVars, applied>>
  /\ Commit(h)

SkipStaleOrEqual(h) ==
  /\ handler[h].pc = "waiting" /\ handler[h].found
  /\ handler[h].ev.ver <= handler[h].ver
  /\ UNCHANGED <<mirrorVars, applied>>
  /\ Commit(h)

(* ErrNotFound: rolled back, answered with an error, posted again later.   *)
NotFound(h) ==
  /\ handler[h].pc = "waiting"
  /\ ~handler[h].found /\ handler[h].ev.type # "auth_user_created"
  /\ handler' = [handler EXCEPT ![h] = Idle]
  /\ UNCHANGED <<authVars, memoryVars, queueVars, delivered, tokens, mirrorVars,
                 receipts, applied>>

CreateIdentityUser(h) ==
  LET e == handler[h].ev IN
  /\ handler[h].pc = "waiting"
  /\ ~handler[h].found /\ e.type = "auth_user_created"
  /\ mLink' = IF e.arg = "verified" THEN "active" ELSE "inactive"
  /\ mState' = "active" /\ mVer' = e.ver /\ mEmail' = e.email
  /\ applied' = [applied EXCEPT ![e.id] = @ + 1]
  /\ UNCHANGED <<mMfa, mErased>>
  /\ Commit(h)

(* An event older than the version that was read leaves only its receipt. *)
SkipStale(h) ==
  /\ handler[h].pc = "waiting" /\ handler[h].found
  /\ handler[h].ev.ver < handler[h].ver
  /\ UNCHANGED <<mirrorVars, applied>>
  /\ Commit(h)

StateAfter(e) ==
  CASE e.type = "account_state_changed" -> e.arg
    [] e.type = "deletion_requested" -> "deletion_pending"
    [] e.type = "deletion_cancelled" -> "active"
    [] e.type = "auth_pseudonymized" -> "deleted"
    [] OTHER -> mState

LinkAfter(e) ==
  CASE e.type = "email_verified" -> "active"
    [] e.type = "auth_pseudonymized" -> "inactive"
    [] OTHER -> mLink

EmailAfter(e) ==
  CASE e.type = "email_changed" -> e.email
    [] e.type = "auth_pseudonymized" -> NoEmail
    [] OTHER -> mEmail

MfaAfter(e) ==
  CASE e.type = "mfa_configured" -> TRUE
    [] e.type = "mfa_disabled" -> FALSE
    [] OTHER -> mMfa

(* Faulty variant: without GREATEST. *)
ApplyLastWriteWins(h) ==
  LET e == handler[h].ev IN
  /\ handler[h].pc = "waiting" /\ handler[h].found
  /\ e.ver >= handler[h].ver
  /\ mVer' = e.ver
  /\ mState' = StateAfter(e) /\ mLink' = LinkAfter(e)
  /\ mEmail' = EmailAfter(e) /\ mMfa' = MfaAfter(e)
  /\ mErased' = (mErased \/ e.type = "auth_pseudonymized")
  /\ applied' = [applied EXCEPT ![e.id] = @ + 1]
  /\ Commit(h)

(* Faulty variant: an event is applied however old it is. *)
ApplyOfAnyVersion(h) ==
  LET e == handler[h].ev IN
  /\ handler[h].pc = "waiting" /\ handler[h].found
  /\ mVer' = IF e.ver > mVer THEN e.ver ELSE mVer
  /\ mState' = StateAfter(e) /\ mLink' = LinkAfter(e)
  /\ mEmail' = EmailAfter(e) /\ mMfa' = MfaAfter(e)
  /\ mErased' = (mErased \/ e.type = "auth_pseudonymized")
  /\ applied' = [applied EXCEPT ![e.id] = @ + 1]
  /\ Commit(h)

Apply(h) ==
  LET e == handler[h].ev IN
  /\ handler[h].pc = "waiting" /\ handler[h].found
  /\ e.ver >= handler[h].ver
  /\ mVer' = IF e.ver > mVer THEN e.ver ELSE mVer
  /\ mState' = StateAfter(e) /\ mLink' = LinkAfter(e)
  /\ mEmail' = EmailAfter(e) /\ mMfa' = MfaAfter(e)
  /\ mErased' = (mErased \/ e.type = "auth_pseudonymized")
  /\ applied' = [applied EXCEPT ![e.id] = @ + 1]
  /\ Commit(h)

-----------------------------------------------------------------------------
(* The API's check of a request (Authenticate).  A token always claims an  *)
(* active, verified account, because only such an account gets one.        *)

(* ResolveAuthSubject: the link is active and the user has no deleted_at. *)
Resolves == mLink = "active" /\ ~mErased

(* claimsMatchActor: the state and the version claimed are the mirror's. *)
ClaimsMatchActor(t) == mState = "active" /\ t = mVer

Accepts(t) == Resolves /\ ClaimsMatchActor(t)

-----------------------------------------------------------------------------
Account ==
  \/ \E verified \in BOOLEAN, email \in Emails : SignUp(verified, email)
  \/ "verify" \in Requests /\ VerifyEmail
  \/ "email" \in Requests /\ \E email \in Emails : ChangeEmail(email)
  \/ "mfa" \in Requests /\ ToggleMfa
  \/ "revoke" \in Requests /\ RevokeSessions
  \/ "suspend" \in Requests /\ \E suspended \in BOOLEAN : SetSuspended(suspended)
  \/ /\ "delete" \in Requests
     /\ \/ RequestDeletion \/ CancelDeletion \/ CancelDeletionWithRecoveryToken
        \/ GraceElapses \/ Pseudonymize
  \/ "sign_in" \in Requests /\ (SignInCheck \/ SignInInsert \/ MintToken)

Hook ==
  \/ HookRevoke \/ HookAwait \/ HookGiveUp \/ HookRead \/ HookQueue \/ HookRecordMfa

Handle(h) ==
  \/ InsertReceipt(h) \/ SelectLink(h)
  \/ NotFound(h) \/ CreateIdentityUser(h) \/ SkipStale(h) \/ Apply(h)

Delivery == \E h \in Handlers :
  \/ \E e \in outbox : Post(h, e)
  \/ Handle(h)
  \/ Acknowledge(h)
  \/ Lose(h)

Next == Account \/ Hook \/ Crash \/ Delivery

Spec == Init /\ [][Next]_vars

-----------------------------------------------------------------------------
(* Properties                                                              *)

(* Once the outbox has recorded an event as delivered, the API accepts no  *)
(* token that was signed before the change the event announces: neither a  *)
(* retry, a lost answer, a post out of order nor the stale snapshot of a   *)
(* concurrent transaction brings an older security version back.           *)
RevocationHolds ==
  \A e \in outbox : e.id \in delivered =>
    \A t \in tokens : Accepts(t) => t >= e.ver

(* The API never holds a security version the authentication service has   *)
(* not issued, and while the two agree on the version a token is accepted  *)
(* only for an account that is active and verified.                        *)
NoUnavailableAccess ==
  /\ mVer <= aVer
  /\ \A t \in tokens : Accepts(t) /\ mVer = aVer => aState = "active" /\ aVerified

(* "applies an event from the authentication service exactly once"         *)
(* (identity.go): however often and by however many transactions an event  *)
(* is posted, it changes the mirror at most once, and has changed it or    *)
(* been skipped when the outbox records it as delivered.                   *)
AppliedAtMostOnce ==
  /\ \A i \in Ids : applied[i] <= 1
  /\ \A i \in Ids : applied[i] = 1 => i \in receipts
  /\ delivered \subseteq receipts

(* The versions whose events the outbox has recorded as delivered. *)
Promised == {e.ver : e \in {o \in outbox : o.id \in delivered}}
Contract == INSTANCE RevocationContract
              WITH issued <- aVer, mirrored <- mVer, promised <- Promised

(* The two services implement the contract: whatever is lost, repeated,    *)
(* reordered or forgotten, the mirrored version never moves back and never *)
(* past the account's, and nothing is recorded as delivered before the     *)
(* mirror has its version.                                                 *)
KeepsContract == Contract!Spec

(* Once the mirror has erased the account, its state is taken back by one  *)
(* thing only: a transaction whose snapshot is older than the mirror, so   *)
(* one that was reading beside the erasure.  No event that was queued,     *)
(* posted, overtaken or half handled before the erasure, no repeated post  *)
(* and no event queued after it does, and the erasure itself is never      *)
(* forgotten.  (The link and the address are not part of this: a           *)
(* verification or a new address that the erasure overtakes reads the newer*)
(* version and is applied after it.)                                       *)
OnlyStaleReadersUndoErasure ==
  [][mErased =>
       /\ mErased'
       /\ mState' \notin {mState, "deleted"} =>
            \E h \in Handlers : Apply(h) /\ handler[h].ver < mVer]_vars

Lifecycle == {"account_state_changed", "deletion_requested", "deletion_cancelled",
              "auth_pseudonymized"}

(* While the API handles one event at a time, an event that carries the    *)
(* newest security version is reflected by the mirror as soon as the outbox*)
(* records it as delivered: what it says of the state, the second factor,  *)
(* the address and the sign-in is not lost to an older event.  (Once the   *)
(* account is erased only the state counts: a verification that the erasure*)
(* overtakes shares its version.)                                          *)
NewestIsMirrored ==
  \A e \in outbox : e.id \in delivered /\ e.ver = aVer =>
    /\ e.type \in Lifecycle => mState = aState
    /\ aState # "deleted" =>
         /\ e.type = "mfa_configured" => mMfa
         /\ e.type = "mfa_disabled" => ~mMfa
         /\ e.type = "email_changed" => mEmail = e.email
         /\ e.type = "email_verified" => mLink = "active"

(* "The security-sensitive request only succeeds after the API has         *)
(* mirrored the new account/security state" (requestDeletion, service.ts): *)
(* when the deletion request is the newest change of the account's state   *)
(* and is recorded as delivered, which is when it answers, the mirror shows*)
(* the deletion.  It need not: README.                                     *)
MirroredBeforeSuccess ==
  [][\A e \in outbox :
       /\ e.type = "deletion_requested"
       /\ \A o \in outbox : o.type \in Lifecycle => o.ver <= e.ver
       /\ e.id \in delivered' \ delivered
       => mState' = "deletion_pending"]_vars

(* An event older than the mirror's security version does not change the   *)
(* mirror (the test "stale lifecycle event applied").                      *)
NoStaleApply ==
  [][\A h \in Handlers :
       Apply(h) /\ handler[h].ev.ver < mVer => UNCHANGED mirrorVars]_vars

-----------------------------------------------------------------------------
(* Fairness: the sweep posts every undelivered entry again for ever, and   *)
(* an entry that is posted for ever gets through each stage some time.     *)
For(i, A(_)) == \E h \in Handlers : handler[h].ev.id = i /\ A(h)
Decide(h) == CreateIdentityUser(h) \/ SkipStale(h) \/ Apply(h)
Finish(h) == handler[h].pc = "ok" /\ (Acknowledge(h) \/ Lose(h))

Fairness ==
  /\ WF_vars(Hook)
  /\ \A h \in Handlers : WF_vars(NotFound(h)) /\ WF_vars(Finish(h))
  /\ \A i \in Ids :
       /\ SF_vars(\E h \in Handlers : \E e \in outbox : e.id = i /\ Post(h, e))
       /\ SF_vars(For(i, InsertReceipt))
       /\ SF_vars(For(i, SelectLink))
       /\ SF_vars(For(i, Decide))

FairSpec == Spec /\ Fairness

(* A mirror that exists catches up with every security version, so a       *)
(* revoked token is in the end refused whatever is lost on the way.        *)
VersionCatchesUp ==
  \A v \in Versions : (aVer = v /\ mLink # "absent") ~> mVer >= v
=============================================================================
