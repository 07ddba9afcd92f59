-------------------------- MODULE IdentitySyncProofs --------------------------
(***************************************************************************)
(* Proofs about IdentitySync for any number of transactions of the API,    *)
(* any addresses and any bounds: its type invariant, the three safety      *)
(* invariants of the run IdentitySync and the contract, from one inductive *)
(* invariant; what can take an erasure back; and for one transaction at a  *)
(* time what the mirror shows of the newest version.                       *)
(***************************************************************************)
EXTENDS IdentitySync, TLAPS

Created(e) == e.type = "auth_user_created"

(* An event the authentication service has queued at some time. *)
Queued(e) ==
  /\ e \in Events
  /\ e.id < nextId /\ e.ver <= aVer
  /\ e.type = "account_state_changed" => e.arg \in {"active", "suspended"}

(* A hook's steps belong to its kind, and it reads a version that exists. *)
AccountInv ==
  /\ aVer <= nextId
  /\ aState = "none" => aVer = 0
  /\ aState # "none" => aVer >= 1
  /\ hook # NoHook => aState # "none"
  /\ hook.kind = "none" => hook = NoHook
  /\ hook.step \in {"read", "queue"} => hook.kind \in {"created", "verified", "email"}
  /\ hook.step \in {"revoke", "await"} => hook.kind = "email"
  /\ hook.step = "record" => hook.kind \in {"mfa_configured", "mfa_disabled"}
  /\ hook.step = "none" => hook.kind # "created"
  /\ hook.step = "queue" => hook.ver \in 1..aVer

(* An id names one event, in the outbox and in every post of it. *)
EventInv ==
  /\ \A e \in outbox : Queued(e)
  /\ \A e, o \in outbox : e.id = o.id => e = o
  /\ \A h \in Handlers : handler[h].pc = "idle" => handler[h] = Idle
  /\ \A h \in Handlers : handler[h].pc # "idle" => Queued(handler[h].ev)
  /\ \A h \in Handlers : \A o \in outbox : handler[h].ev.id = o.id => handler[h].ev = o

(* The account is announced once, and its mirror exists only if that       *)
(* announcement has a receipt.                                             *)
CreatedInv ==
  /\ hook.kind = "created" \/ aState = "none" =>
       /\ mLink = "absent"
       /\ \A e \in outbox : ~Created(e)
       /\ \A h \in Handlers : ~Created(handler[h].ev)
  /\ \A e, o \in outbox : Created(e) /\ Created(o) => e.id = o.id
  /\ \A e \in outbox, h \in Handlers :
       Created(e) /\ Created(handler[h].ev) => e.id = handler[h].ev.id
  /\ \A g, h \in Handlers :
       Created(handler[g].ev) /\ Created(handler[h].ev) => handler[g].ev.id = handler[h].ev.id
  /\ mLink # "absent" =>
       /\ \A e \in outbox : Created(e) => e.id \in receipts
       /\ \A h \in Handlers : Created(handler[h].ev) => handler[h].ev.id \in receipts

(* At most one transaction has an event in hand that has no receipt, and   *)
(* an event with a receipt is not newer than the mirror.                   *)
ReceiptInv ==
  /\ \A i \in receipts : i < nextId
  /\ delivered \subseteq receipts
  /\ \A h \in Handlers : InTransaction(h) => handler[h].ev.id \notin receipts
  /\ \A g, h \in Handlers :
       InTransaction(g) /\ InTransaction(h) /\ handler[g].ev.id = handler[h].ev.id => g = h
  /\ \A h \in Handlers : handler[h].pc = "ok" => handler[h].ev.id \in receipts
  /\ \A e \in outbox : e.id \in receipts => e.ver <= mVer
  /\ \A i \in Ids : applied[i] <= 1
  /\ \A i \in Ids : i \notin receipts => applied[i] = 0

(* The mirror follows the account, and a snapshot follows the mirror. *)
MirrorInv ==
  /\ mVer <= aVer
  /\ mLink = "absent" => mVer = 0
  /\ \A h \in Handlers : handler[h].ver <= mVer
  /\ \A h \in Handlers : handler[h].found => mLink # "absent"

TokenInv ==
  /\ \A t \in tokens : t <= aVer
  /\ aVer \in tokens => aState = "active" /\ aVerified

IInv ==
  /\ TypeOK /\ AccountInv /\ EventInv /\ CreatedInv /\ ReceiptInv /\ MirrorInv /\ TokenInv
-----------------------------------------------------------------------------
(* What the authentication service's steps have in common.                 *)

Fresh(e) ==
  /\ e.id = nextId /\ nextId' = nextId + 1
  /\ e.ver <= aVer'
  /\ e.type = "account_state_changed" => e.arg \in {"active", "suspended"}

(* The queue grows by at most one event, numbered nextId. *)
QueueEffect ==
  /\ aVer' \in aVer..nextId' /\ nextId' \in nextId..(MaxEvents + 1)
  /\ outbox' \subseteq Events
  /\ \A e \in outbox' \ outbox : Fresh(e)
  /\ \A e, o \in outbox' \ outbox : e = o
  /\ \A e \in outbox' \ outbox : Created(e) => hook.kind = "created"

(* Announced' holds only where Announced did, and no announcement is new. *)
Announcing == hook.kind = "created" \/ aState = "none"

AuthEffect ==
  /\ QueueEffect
  /\ Announcing' => Announcing /\ \A e \in outbox' : Created(e) => e \in outbox
  /\ UNCHANGED <<delivered, mirrorVars, receipts, applied, handler>>

(* A change of the account queues one event of a version of its own. *)
LEMMA NextVersionEffect ==
  ASSUME TypeOK, AccountInv,
         NEW entries, entries \subseteq outbox,
         NEW type \in EventTypes \ {"auth_user_created"}, NEW arg \in Args,
         type = "account_state_changed" => arg \in {"active", "suspended"},
         NextVersion(entries, type, arg)
  PROVE  /\ QueueEffect /\ aVer' = aVer + 1 /\ nextId' = nextId + 1
         /\ \A e \in outbox' \ outbox : ~Created(e)
<1> DEFINE new == [id |-> nextId, type |-> type, ver |-> aVer + 1, arg |-> arg,
                   email |-> NoEmail]
<1>1. /\ aVer' = aVer + 1 /\ nextId' = nextId + 1 /\ nextId <= MaxEvents
      /\ outbox' = entries \cup {new}
  BY DEF NextVersion, Enqueue
<1>2. aVer \in Nat /\ nextId \in Nat /\ aVer <= nextId /\ nextId >= 1 /\ MaxEvents \in Nat
  BY BoundsAssumption DEF TypeOK, AccountInv
<1>3. new \in Events
  BY <1>1, <1>2 DEF Events, Ids, Versions
<1>4. new.id = nextId /\ new.ver = aVer + 1 /\ new.type = type /\ new.arg = arg
  OBVIOUS
<1> HIDE DEF new
<1>5. aVer' \in aVer..nextId' /\ nextId' \in nextId..(MaxEvents + 1)
  BY <1>1, <1>2
<1>6. outbox' \subseteq Events
  BY <1>1, <1>3 DEF TypeOK
<1>7. Fresh(new)
  BY <1>1, <1>2, <1>4 DEF Fresh
<1>8. \A e \in outbox' \ outbox : e = new
  BY <1>1
<1>9. \A e \in outbox' \ outbox : ~Created(e)
  BY <1>4, <1>8 DEF Created
<1> QED
  BY <1>1, <1>5, <1>6, <1>7, <1>8, <1>9 DEF QueueEffect

(* Every step of the account, of a hook and a restart has that effect. *)
LEMMA AuthStep ==
  ASSUME TypeOK, AccountInv, Account \/ Hook \/ Crash
  PROVE  AuthEffect
<1>1. ASSUME NEW type \in EventTypes \ {"auth_user_created"}, NEW arg \in Args,
             type = "account_state_changed" => arg \in {"active", "suspended"},
             \/ NextVersion(outbox, type, arg)
             \/ NextVersion({}, type, arg),
             Announcing' => Announcing, UNCHANGED apiVars, UNCHANGED delivered
      PROVE  AuthEffect
  <2>1. QueueEffect /\ \A e \in outbox' \ outbox : ~Created(e)
    BY <1>1, NextVersionEffect
  <2> QED
    BY <1>1, <2>1 DEF AuthEffect, apiVars
<1>2. ASSUME UNCHANGED <<outbox, nextId, delivered>>, aVer' \in aVer..nextId,
             Announcing' => Announcing, UNCHANGED apiVars
      PROVE  AuthEffect
  <2>1. QueueEffect
    BY <1>2, BoundsAssumption DEF QueueEffect, TypeOK
  <2> QED
    BY <1>2, <2>1 DEF AuthEffect, apiVars
<1>3. ASSUME NEW verified \in BOOLEAN, NEW email \in Emails, SignUp(verified, email)
      PROVE  AuthEffect
  BY <1>2, <1>3 DEF SignUp, Announcing, TypeOK, AccountInv, queueVars
<1>4. ASSUME VerifyEmail \/ ToggleMfa \/ \E email \in Emails : ChangeEmail(email)
      PROVE  AuthEffect
  <2>1. /\ UNCHANGED <<outbox, nextId, delivered, aVer, aState, apiVars>>
        /\ hook'.kind # "created"
    BY <1>4 DEF VerifyEmail, ToggleMfa, ChangeEmail, queueVars, NoHook
  <2> QED
    BY <1>2, <2>1 DEF Announcing, TypeOK, AccountInv
<1>5. ASSUME RevokeSessions PROVE AuthEffect
  <2>1. /\ NextVersion(outbox, "sessions_revoked", "nothing")
        /\ UNCHANGED <<aState, hook, delivered, apiVars>>
    BY <1>5 DEF RevokeSessions, memoryVars
  <2> QED
    BY <1>1, <2>1 DEF Announcing, EventTypes, Args
<1>6. ASSUME NEW suspended \in BOOLEAN, SetSuspended(suspended) PROVE AuthEffect
  <2>1. /\ NextVersion(outbox, "account_state_changed", aState')
        /\ aState' \in {"active", "suspended"} /\ aState # "none"
        /\ UNCHANGED <<hook, delivered, apiVars>>
    BY <1>6 DEF SetSuspended, memoryVars
  <2> QED
    BY <1>1, <2>1 DEF Announcing, EventTypes, Args
<1>7. ASSUME RequestDeletion PROVE AuthEffect
  <2>1. /\ NextVersion(outbox, "deletion_requested", "nothing")
        /\ aState' # "none" /\ UNCHANGED <<hook, delivered, apiVars>>
    BY <1>7 DEF RequestDeletion, memoryVars
  <2> QED
    BY <1>1, <2>1 DEF Announcing, EventTypes, Args
<1>8. ASSUME CancelDeletion \/ CancelDeletionWithRecoveryToken PROVE AuthEffect
  <2>1. /\ NextVersion(outbox, "deletion_cancelled", "nothing")
        /\ aState' # "none" /\ UNCHANGED <<hook, delivered, apiVars>>
    BY <1>8 DEF CancelDeletion, CancelDeletionWithRecoveryToken, memoryVars
  <2> QED
    BY <1>1, <2>1 DEF Announcing, EventTypes, Args
<1>9. ASSUME Pseudonymize PROVE AuthEffect
  <2>1. /\ NextVersion({}, "auth_pseudonymized", "nothing")
        /\ aState' # "none" /\ UNCHANGED <<hook, delivered, apiVars>>
    BY <1>9 DEF Pseudonymize, memoryVars
  <2> QED
    BY <1>1, <2>1 DEF Announcing, EventTypes, Args
<1>10. ASSUME GraceElapses \/ SignInCheck \/ SignInInsert \/ MintToken PROVE AuthEffect
  <2>1. UNCHANGED <<outbox, nextId, delivered, aVer, aState, hook, apiVars>>
    BY <1>10 DEF GraceElapses, SignInCheck, SignInInsert, MintToken, authVars, queueVars,
                 memoryVars
  <2> QED
    BY <1>2, <2>1 DEF Announcing, TypeOK, AccountInv
<1>11. ASSUME HookRevoke PROVE AuthEffect
  <2>1. /\ NextVersion(outbox, "sessions_revoked", "nothing")
        /\ UNCHANGED <<aState, delivered, apiVars>>
        /\ hook'.kind = hook.kind
    BY <1>11 DEF HookRevoke, TypeOK
  <2> QED
    BY <1>1, <2>1 DEF Announcing, EventTypes, Args
<1>12. ASSUME HookAwait \/ HookGiveUp \/ HookRead PROVE AuthEffect
  <2>1. /\ UNCHANGED <<outbox, nextId, delivered, aVer, aState, apiVars>>
        /\ hook'.kind = hook.kind \/ hook' = NoHook
    BY <1>12 DEF HookAwait, HookGiveUp, HookRead, authVars, queueVars, TypeOK
  <2> QED
    BY <1>2, <2>1 DEF Announcing, TypeOK, AccountInv, NoHook
<1>13. ASSUME HookQueue PROVE AuthEffect
  <2> DEFINE new == [id |-> nextId, type |-> HookEvent[hook.kind], ver |-> hook.ver,
                     arg |-> hook.arg, email |-> hook.email]
  <2>1. /\ nextId <= MaxEvents /\ nextId' = nextId + 1
        /\ outbox' = outbox \cup {new}
        /\ UNCHANGED <<aVer, aState, delivered, apiVars>> /\ hook' = NoHook
        /\ hook.step = "queue"
    BY <1>13 DEF HookQueue, Enqueue, authVars
  <2>2. /\ aVer \in Nat /\ nextId \in Nat /\ aVer <= nextId /\ nextId >= 1
        /\ MaxEvents \in Nat
        /\ hook.kind \in {"created", "verified", "email"} /\ hook.ver \in 1..aVer
        /\ hook.arg \in Args /\ hook.email \in Emails \cup {NoEmail}
    BY <2>1, BoundsAssumption DEF TypeOK, AccountInv
  <2>3. /\ HookEvent[hook.kind] \in EventTypes \ {"account_state_changed"}
        /\ HookEvent[hook.kind] = "auth_user_created" => hook.kind = "created"
    BY <2>2 DEF HookEvent, EventTypes
  <2>4. /\ new \in Events /\ new.id = nextId /\ new.ver = hook.ver
        /\ new.type = HookEvent[hook.kind]
    BY <2>1, <2>2, <2>3 DEF Events, Ids, Versions
  <2> HIDE DEF new
  <2>5. Fresh(new)
    BY <2>1, <2>2, <2>3, <2>4 DEF Fresh
  <2>6. \A e \in outbox' \ outbox : e = new
    BY <2>1
  <2>7. QueueEffect
    BY <2>1, <2>2, <2>3, <2>4, <2>5, <2>6 DEF QueueEffect, Created, TypeOK
  <2>8. ~Announcing'
    BY <2>1 DEF Announcing, AccountInv, NoHook
  <2> QED
    BY <2>1, <2>7, <2>8 DEF AuthEffect, apiVars
<1>14. ASSUME HookRecordMfa PROVE AuthEffect
  <2>1. PICK type \in {"mfa_configured", "mfa_disabled"} : NextVersion(outbox, type, "nothing")
    BY <1>14 DEF HookRecordMfa, AccountInv
  <2>2. UNCHANGED <<aState, delivered, apiVars>> /\ hook' = NoHook
    BY <1>14 DEF HookRecordMfa
  <2> QED
    BY <1>1, <2>1, <2>2 DEF Announcing, EventTypes, Args, NoHook
<1>15. ASSUME Crash PROVE AuthEffect
  <2>1. /\ UNCHANGED <<outbox, nextId, delivered, aVer, aState, apiVars>>
        /\ hook' = NoHook
    BY <1>15 DEF Crash, authVars, queueVars
  <2> QED
    BY <1>2, <2>1 DEF Announcing, TypeOK, AccountInv, NoHook
<1> QED
  BY <1>3, <1>4, <1>5, <1>6, <1>7, <1>8, <1>9, <1>10, <1>11, <1>12, <1>13, <1>14, <1>15
  DEF Account, Hook

(* The effect of those steps on what the mirror and the queue promise. *)
LEMMA AuthKeepsEvents ==
  ASSUME TypeOK, AccountInv, EventInv, AuthEffect
  PROVE  EventInv'
<1>1. /\ \A e \in outbox' \ outbox : Fresh(e) /\ e \in Events
      /\ \A e, o \in outbox' \ outbox : e = o
      /\ UNCHANGED handler
      /\ aVer' \in Nat /\ aVer' >= aVer /\ nextId' \in Nat /\ nextId' >= nextId
      /\ aVer \in Nat /\ nextId \in Nat
  BY BoundsAssumption DEF AuthEffect, QueueEffect, TypeOK
<1>2. ASSUME NEW e, Queued(e) PROVE Queued(e)' /\ e.id # nextId
  BY <1>1, <1>2 DEF Queued, Events, Ids, Versions
<1>3. ASSUME NEW e \in outbox' \ outbox PROVE Queued(e)' /\ e.id = nextId
  BY <1>1, <1>3 DEF Queued, Fresh
<1>4. \A e \in outbox' : Queued(e)'
  BY <1>2, <1>3 DEF EventInv
<1>5. \A e, o \in outbox' : e.id = o.id => e = o
  BY <1>1, <1>2, <1>3 DEF EventInv
<1>6. \A h \in Handlers : handler[h].pc # "idle" => Queued(handler[h].ev)'
  BY <1>1, <1>2 DEF EventInv, Queued
<1>7. ASSUME NEW h \in Handlers, NEW o \in outbox', handler[h].ev.id = o.id
      PROVE  handler[h].ev = o
  <2>1. CASE o \in outbox
    BY <1>7, <2>1 DEF EventInv
  <2>2. CASE o \notin outbox
    <3>1. o.id = nextId
      BY <1>3, <2>2
    <3>2. handler[h].pc = "idle"
      BY <1>2, <1>7, <3>1 DEF EventInv
    <3>3. handler[h].ev.id = 0
      BY <3>2 DEF EventInv, Idle, NoEvent
    <3> QED
      BY <1>7, <3>1, <3>3 DEF TypeOK
  <2> QED
    BY <2>1, <2>2
<1> QED
  BY <1>1, <1>4, <1>5, <1>6, <1>7 DEF EventInv

(* An announcement stays the only one, and the mirror stays absent before it. *)
LEMMA AuthKeepsCreated ==
  ASSUME TypeOK, AccountInv, EventInv, CreatedInv, AuthEffect
  PROVE  CreatedInv'
<1>1. /\ UNCHANGED <<handler, mLink, receipts>>
      /\ Announcing' => Announcing /\ \A e \in outbox' : Created(e) => e \in outbox
      /\ \A e \in outbox' \ outbox : Created(e) => Announcing
      /\ \A e, o \in outbox' \ outbox : e = o
  BY DEF AuthEffect, QueueEffect, Announcing, mirrorVars
<1>2. CASE \A e \in outbox' : Created(e) => e \in outbox
  BY <1>1, <1>2 DEF CreatedInv, Announcing
<1>3. CASE ~\A e \in outbox' : Created(e) => e \in outbox
  <2>1. Announcing /\ ~Announcing'
    BY <1>1, <1>3
  <2>2. /\ mLink = "absent"
        /\ \A e \in outbox : ~Created(e)
        /\ \A h \in Handlers : ~Created(handler[h].ev)
    BY <2>1 DEF CreatedInv, Announcing
  <2> QED
    BY <1>1, <2>1, <2>2 DEF CreatedInv, Announcing
<1> QED
  BY <1>2, <1>3

(* They change neither the mirror nor its receipts, and only raise versions. *)
LEMMA AuthKeepsReceipts ==
  ASSUME TypeOK, ReceiptInv, MirrorInv, AuthEffect
  PROVE  ReceiptInv' /\ MirrorInv'
<1>1. /\ UNCHANGED <<delivered, mLink, mVer, receipts, applied, handler>>
      /\ aVer' >= aVer /\ nextId' >= nextId /\ aVer' \in Nat /\ nextId' \in Nat
      /\ aVer \in Nat /\ nextId \in Nat /\ mVer \in Nat /\ receipts \subseteq Nat
      /\ \A e \in outbox' \ outbox : e.id = nextId
  BY BoundsAssumption DEF AuthEffect, QueueEffect, Fresh, TypeOK, mirrorVars, Ids
<1>2. \A i \in receipts : i < nextId /\ i < nextId' /\ i # nextId
  <2>1. \A i \in receipts : i < nextId
    BY DEF ReceiptInv
  <2> QED
    BY <1>1, <2>1
<1>3. \A e \in outbox' : e.id \in receipts => e.ver <= mVer
  BY <1>1, <1>2 DEF ReceiptInv
<1>4. \A h \in Handlers : InTransaction(h)' <=> InTransaction(h)
  BY <1>1 DEF InTransaction
<1>5. ReceiptInv'
  BY <1>1, <1>2, <1>3, <1>4 DEF ReceiptInv
<1>6. MirrorInv'
  BY <1>1 DEF MirrorInv
<1> QED
  BY <1>5, <1>6

(* The same steps on the account itself, on its hooks and on its tokens.   *)
AuthTypes ==
  /\ aState \in AccountStates \cup {"none"} /\ aMfa \in BOOLEAN /\ aVerified \in BOOLEAN
  /\ aEmail \in Emails \cup {NoEmail} /\ session \in BOOLEAN /\ recovery \in BOOLEAN
  /\ lapsed \in BOOLEAN /\ signIn \in BOOLEAN /\ tokens \subseteq Versions
  /\ crashes \in 0..MaxCrashes

HookKinds == {"none", "created", "verified", "email", "mfa_configured", "mfa_disabled"}
HookSteps == {"none", "revoke", "await", "read", "queue", "record"}

HookTypes ==
  hook \in [kind : HookKinds, step : HookSteps,
            ver : 0..(MaxEvents + 1), wait : 0..MaxEvents, arg : Args,
            email : Emails \cup {NoEmail}]

(* One case per action: the account's own types and its hooks. *)
LEMMA AuthKeepsAccount ==
  ASSUME TypeOK, AccountInv, AuthEffect, Account \/ Hook \/ Crash
  PROVE  AuthTypes' /\ HookTypes' /\ AccountInv'
<1>1. /\ aVer' \in Nat /\ aVer' >= aVer /\ aVer' <= nextId' /\ aVer' <= MaxEvents + 1
      /\ nextId' \in 1..(MaxEvents + 1) /\ nextId' >= nextId
      /\ MaxEvents \in Nat /\ MaxCrashes \in Nat
      /\ aVer \in Nat /\ nextId \in Nat /\ nextId >= 1
  BY BoundsAssumption DEF AuthEffect, QueueEffect, TypeOK
<1>2. AuthTypes /\ HookTypes
  BY DEF AuthTypes, HookTypes, HookKinds, HookSteps, TypeOK
<1>3. ASSUME NEW verified \in BOOLEAN, NEW email \in Emails, SignUp(verified, email)
      PROVE  AuthTypes' /\ HookTypes' /\ AccountInv'
  <2>1. AuthTypes'
    BY <1>1, <1>2, <1>3 DEF AuthTypes, AccountInv, SignUp, NoHook, Args, AccountStates
  <2>2. HookTypes'
    BY <1>1, <1>2, <1>3 DEF HookTypes, HookKinds, HookSteps, AccountInv, SignUp, NoHook, Args, AccountStates
  <2>3. AccountInv'
    BY <1>1, <1>2, <1>3 DEF HookTypes, AccountInv, SignUp, NoHook, Args, AccountStates
  <2> QED
    BY <2>1, <2>2, <2>3
<1>4. ASSUME VerifyEmail
      PROVE  AuthTypes' /\ HookTypes' /\ AccountInv'
  <2>1. AuthTypes'
    BY <1>1, <1>2, <1>4 DEF AuthTypes, AccountInv, VerifyEmail, NoHook, Args, Exists
  <2>2. HookTypes'
    BY <1>1, <1>2, <1>4 DEF HookTypes, HookKinds, HookSteps, AccountInv, VerifyEmail, NoHook, Args, Exists
  <2>3. AccountInv'
    BY <1>1, <1>2, <1>4 DEF HookTypes, AccountInv, VerifyEmail, NoHook, Args, Exists
  <2> QED
    BY <2>1, <2>2, <2>3
<1>5. ASSUME NEW email \in Emails, ChangeEmail(email)
      PROVE  AuthTypes' /\ HookTypes' /\ AccountInv'
  <2>1. AuthTypes'
    BY <1>1, <1>2, <1>5 DEF AuthTypes, AccountInv, ChangeEmail, NoHook, Args, Exists
  <2>2. HookTypes'
    BY <1>1, <1>2, <1>5 DEF HookTypes, HookKinds, HookSteps, AccountInv, ChangeEmail, NoHook, Args, Exists
  <2>3. AccountInv'
    BY <1>1, <1>2, <1>5 DEF HookTypes, AccountInv, ChangeEmail, NoHook, Args, Exists
  <2> QED
    BY <2>1, <2>2, <2>3
<1>6. ASSUME ToggleMfa
      PROVE  AuthTypes' /\ HookTypes' /\ AccountInv'
  <2>1. AuthTypes'
    BY <1>1, <1>2, <1>6 DEF AuthTypes, AccountInv, ToggleMfa, NoHook, Args, Exists
  <2>2. HookTypes'
    BY <1>1, <1>2, <1>6 DEF HookTypes, HookKinds, HookSteps, AccountInv, ToggleMfa, NoHook, Args, Exists
  <2>3. AccountInv'
    BY <1>1, <1>2, <1>6 DEF HookTypes, AccountInv, ToggleMfa, NoHook, Args, Exists
  <2> QED
    BY <2>1, <2>2, <2>3
<1>7. ASSUME RevokeSessions
      PROVE  AuthTypes' /\ HookTypes' /\ AccountInv'
  <2>1. AuthTypes'
    BY <1>1, <1>2, <1>7 DEF AuthTypes, AccountInv, RevokeSessions, NextVersion, Exists, memoryVars
  <2>2. HookTypes'
    BY <1>1, <1>2, <1>7 DEF HookTypes, HookKinds, HookSteps, AccountInv, RevokeSessions, NextVersion, Exists, memoryVars
  <2>3. AccountInv'
    BY <1>1, <1>2, <1>7 DEF HookTypes, AccountInv, RevokeSessions, NextVersion, Exists, memoryVars
  <2> QED
    BY <2>1, <2>2, <2>3
<1>8. ASSUME NEW suspended \in BOOLEAN, SetSuspended(suspended)
      PROVE  AuthTypes' /\ HookTypes' /\ AccountInv'
  <2>1. AuthTypes'
    BY <1>1, <1>2, <1>8 DEF AuthTypes, AccountInv, SetSuspended, NextVersion, memoryVars, AccountStates
  <2>2. HookTypes'
    BY <1>1, <1>2, <1>8 DEF HookTypes, HookKinds, HookSteps, AccountInv, SetSuspended, NextVersion, memoryVars, AccountStates
  <2>3. AccountInv'
    BY <1>1, <1>2, <1>8 DEF HookTypes, AccountInv, SetSuspended, NextVersion, memoryVars, AccountStates
  <2> QED
    BY <2>1, <2>2, <2>3
<1>9. ASSUME RequestDeletion
      PROVE  AuthTypes' /\ HookTypes' /\ AccountInv'
  <2>1. AuthTypes'
    BY <1>1, <1>2, <1>9 DEF AuthTypes, AccountInv, RequestDeletion, NextVersion, memoryVars, AccountStates
  <2>2. HookTypes'
    BY <1>1, <1>2, <1>9 DEF HookTypes, HookKinds, HookSteps, AccountInv, RequestDeletion, NextVersion, memoryVars, AccountStates
  <2>3. AccountInv'
    BY <1>1, <1>2, <1>9 DEF HookTypes, AccountInv, RequestDeletion, NextVersion, memoryVars, AccountStates
  <2> QED
    BY <2>1, <2>2, <2>3
<1>10. ASSUME CancelDeletion
      PROVE  AuthTypes' /\ HookTypes' /\ AccountInv'
  <2>1. AuthTypes'
    BY <1>1, <1>2, <1>10 DEF AuthTypes, AccountInv, CancelDeletion, NextVersion, Recoverable, memoryVars, AccountStates
  <2>2. HookTypes'
    BY <1>1, <1>2, <1>10 DEF HookTypes, HookKinds, HookSteps, AccountInv, CancelDeletion, NextVersion, Recoverable, memoryVars, AccountStates
  <2>3. AccountInv'
    BY <1>1, <1>2, <1>10 DEF HookTypes, AccountInv, CancelDeletion, NextVersion, Recoverable, memoryVars, AccountStates
  <2> QED
    BY <2>1, <2>2, <2>3
<1>11. ASSUME CancelDeletionWithRecoveryToken
      PROVE  AuthTypes' /\ HookTypes' /\ AccountInv'
  <2>1. AuthTypes'
    BY <1>1, <1>2, <1>11 DEF AuthTypes, AccountInv, CancelDeletionWithRecoveryToken, NextVersion, Recoverable, memoryVars, AccountStates
  <2>2. HookTypes'
    BY <1>1, <1>2, <1>11 DEF HookTypes, HookKinds, HookSteps, AccountInv, CancelDeletionWithRecoveryToken, NextVersion, Recoverable, memoryVars, AccountStates
  <2>3. AccountInv'
    BY <1>1, <1>2, <1>11 DEF HookTypes, AccountInv, CancelDeletionWithRecoveryToken, NextVersion, Recoverable, memoryVars, AccountStates
  <2> QED
    BY <2>1, <2>2, <2>3
<1>12. ASSUME GraceElapses
      PROVE  AuthTypes' /\ HookTypes' /\ AccountInv'
  <2>1. AuthTypes'
    BY <1>1, <1>2, <1>12 DEF AuthTypes, AccountInv, GraceElapses, memoryVars, Recoverable
  <2>2. HookTypes'
    BY <1>1, <1>2, <1>12 DEF HookTypes, HookKinds, HookSteps, AccountInv, GraceElapses, memoryVars, Recoverable
  <2>3. AccountInv'
    BY <1>1, <1>2, <1>12 DEF HookTypes, AccountInv, GraceElapses, memoryVars, Recoverable
  <2> QED
    BY <2>1, <2>2, <2>3
<1>13. ASSUME Pseudonymize
      PROVE  AuthTypes' /\ HookTypes' /\ AccountInv'
  <2>1. AuthTypes'
    BY <1>1, <1>2, <1>13 DEF AuthTypes, AccountInv, Pseudonymize, NextVersion, memoryVars, AccountStates
  <2>2. HookTypes'
    BY <1>1, <1>2, <1>13 DEF HookTypes, HookKinds, HookSteps, AccountInv, Pseudonymize, NextVersion, memoryVars, AccountStates
  <2>3. AccountInv'
    BY <1>1, <1>2, <1>13 DEF HookTypes, AccountInv, Pseudonymize, NextVersion, memoryVars, AccountStates
  <2> QED
    BY <2>1, <2>2, <2>3
<1>14. ASSUME SignInCheck
      PROVE  AuthTypes' /\ HookTypes' /\ AccountInv'
  <2>1. AuthTypes'
    BY <1>1, <1>2, <1>14 DEF AuthTypes, AccountInv, SignInCheck, authVars
  <2>2. HookTypes'
    BY <1>1, <1>2, <1>14 DEF HookTypes, HookKinds, HookSteps, AccountInv, SignInCheck, authVars
  <2>3. AccountInv'
    BY <1>1, <1>2, <1>14 DEF HookTypes, AccountInv, SignInCheck, authVars
  <2> QED
    BY <2>1, <2>2, <2>3
<1>15. ASSUME SignInInsert
      PROVE  AuthTypes' /\ HookTypes' /\ AccountInv'
  <2>1. AuthTypes'
    BY <1>1, <1>2, <1>15 DEF AuthTypes, AccountInv, SignInInsert
  <2>2. HookTypes'
    BY <1>1, <1>2, <1>15 DEF HookTypes, HookKinds, HookSteps, AccountInv, SignInInsert
  <2>3. AccountInv'
    BY <1>1, <1>2, <1>15 DEF HookTypes, AccountInv, SignInInsert
  <2> QED
    BY <2>1, <2>2, <2>3
<1>16. ASSUME MintToken
      PROVE  AuthTypes' /\ HookTypes' /\ AccountInv'
  <2>1. AuthTypes'
    BY <1>1, <1>2, <1>16 DEF AuthTypes, AccountInv, MintToken, authVars, memoryVars, Versions
  <2>2. HookTypes'
    BY <1>1, <1>2, <1>16 DEF HookTypes, HookKinds, HookSteps, AccountInv, MintToken, authVars, memoryVars, Versions
  <2>3. AccountInv'
    BY <1>1, <1>2, <1>16 DEF HookTypes, AccountInv, MintToken, authVars, memoryVars, Versions
  <2> QED
    BY <2>1, <2>2, <2>3
<1>17. ASSUME HookRevoke
      PROVE  AuthTypes' /\ HookTypes' /\ AccountInv'
  <2>1. AuthTypes'
    BY <1>1, <1>2, <1>17 DEF AuthTypes, HookRevoke, NextVersion, Enqueue
  <2>2. HookTypes'
    <3>1. hook' = [hook EXCEPT !.step = "await", !.wait = nextId]
      BY <1>17 DEF HookRevoke
    <3>2. /\ "await" \in HookSteps /\ "read" \in HookSteps /\ "queue" \in HookSteps
          /\ 0 \in 0..MaxEvents /\ aVer \in 0..(MaxEvents + 1)
      BY <1>1 DEF HookSteps
    <3>3. hook.step = "revoke" => nextId \in 0..MaxEvents
      BY <1>1, <1>17 DEF HookRevoke, NextVersion, Enqueue
    <3> QED
      BY <1>2, <1>17, <3>1, <3>2, <3>3 DEF HookTypes, HookRevoke
  <2>3. /\ hook.step # "none" /\ hook'.kind = hook.kind
        /\ hook'.step = "await" /\ hook'.wait = nextId /\ hook'.ver = hook.ver
    BY <1>2, <1>17 DEF HookTypes, HookRevoke
  <2>4. hook # NoHook /\ hook.kind # "none" /\ aState # "none" /\ aVer >= 1
    BY <2>3, <1>1 DEF NoHook, AccountInv
  <2>5. hook.step \in {"revoke", "await", "read"} /\ aState' = aState
    BY <1>17 DEF HookRevoke, authVars
  <2>6. AccountInv'
    BY <1>1, <1>17, <2>3, <2>4, <2>5 DEF AccountInv, HookRevoke, NextVersion, Enqueue
  <2> QED
    BY <2>1, <2>2, <2>6
<1>18. ASSUME HookAwait
      PROVE  AuthTypes' /\ HookTypes' /\ AccountInv'
  <2>1. AuthTypes'
    BY <1>1, <1>2, <1>18 DEF AuthTypes, HookAwait, authVars
  <2>2. HookTypes'
    <3>1. hook' = [hook EXCEPT !.step = "read", !.wait = 0]
      BY <1>18 DEF HookAwait
    <3>2. /\ "await" \in HookSteps /\ "read" \in HookSteps /\ "queue" \in HookSteps
          /\ 0 \in 0..MaxEvents /\ aVer \in 0..(MaxEvents + 1)
      BY <1>1 DEF HookSteps
    <3>3. hook.step = "revoke" => nextId \in 0..MaxEvents
      BY <1>1, <1>18 DEF HookAwait
    <3> QED
      BY <1>2, <1>18, <3>1, <3>2, <3>3 DEF HookTypes, HookAwait
  <2>3. /\ hook.step # "none" /\ hook'.kind = hook.kind
        /\ hook'.step = "read" /\ hook'.wait = 0 /\ hook'.ver = hook.ver
    BY <1>2, <1>18 DEF HookTypes, HookAwait
  <2>4. hook # NoHook /\ hook.kind # "none" /\ aState # "none" /\ aVer >= 1
    BY <2>3, <1>1 DEF NoHook, AccountInv
  <2>5. hook.step \in {"revoke", "await", "read"} /\ aState' = aState
    BY <1>18 DEF HookAwait, authVars
  <2>6. AccountInv'
    BY <1>1, <1>18, <2>3, <2>4, <2>5 DEF AccountInv, HookAwait, authVars
  <2> QED
    BY <2>1, <2>2, <2>6
<1>19. ASSUME HookGiveUp
      PROVE  AuthTypes' /\ HookTypes' /\ AccountInv'
  <2>1. AuthTypes'
    BY <1>1, <1>2, <1>19 DEF AuthTypes, AccountInv, HookGiveUp, authVars, NoHook, Args
  <2>2. HookTypes'
    BY <1>1, <1>2, <1>19 DEF HookTypes, HookKinds, HookSteps, AccountInv, HookGiveUp, authVars, NoHook, Args
  <2>3. AccountInv'
    BY <1>1, <1>2, <1>19 DEF HookTypes, AccountInv, HookGiveUp, authVars, NoHook, Args
  <2> QED
    BY <2>1, <2>2, <2>3
<1>20. ASSUME HookRead
      PROVE  AuthTypes' /\ HookTypes' /\ AccountInv'
  <2>1. AuthTypes'
    BY <1>1, <1>2, <1>20 DEF AuthTypes, HookRead, authVars
  <2>2. HookTypes'
    <3>1. hook' = [hook EXCEPT !.step = "queue", !.ver = aVer]
      BY <1>20 DEF HookRead
    <3>2. /\ "await" \in HookSteps /\ "read" \in HookSteps /\ "queue" \in HookSteps
          /\ 0 \in 0..MaxEvents /\ aVer \in 0..(MaxEvents + 1)
      BY <1>1 DEF HookSteps
    <3>3. hook.step = "revoke" => nextId \in 0..MaxEvents
      BY <1>1, <1>20 DEF HookRead
    <3> QED
      BY <1>2, <1>20, <3>1, <3>2, <3>3 DEF HookTypes, HookRead
  <2>3. /\ hook.step # "none" /\ hook'.kind = hook.kind
        /\ hook'.step = "queue" /\ hook'.wait = hook.wait /\ hook'.ver = aVer
    BY <1>2, <1>20 DEF HookTypes, HookRead
  <2>4. hook # NoHook /\ hook.kind # "none" /\ aState # "none" /\ aVer >= 1
    BY <2>3, <1>1 DEF NoHook, AccountInv
  <2>5. hook.step \in {"revoke", "await", "read"} /\ aState' = aState
    BY <1>20 DEF HookRead, authVars
  <2>6. AccountInv'
    BY <1>1, <1>20, <2>3, <2>4, <2>5 DEF AccountInv, HookRead, authVars
  <2> QED
    BY <2>1, <2>2, <2>6
<1>21. ASSUME HookQueue
      PROVE  AuthTypes' /\ HookTypes' /\ AccountInv'
  <2>1. AuthTypes'
    BY <1>1, <1>2, <1>21 DEF AuthTypes, AccountInv, HookQueue, authVars, NoHook, Args
  <2>2. HookTypes'
    BY <1>1, <1>2, <1>21 DEF HookTypes, HookKinds, HookSteps, AccountInv, HookQueue, authVars, NoHook, Args
  <2>3. AccountInv'
    BY <1>1, <1>2, <1>21 DEF HookTypes, AccountInv, HookQueue, authVars, NoHook, Args
  <2> QED
    BY <2>1, <2>2, <2>3
<1>22. ASSUME HookRecordMfa
      PROVE  AuthTypes' /\ HookTypes' /\ AccountInv'
  <2>1. AuthTypes'
    BY <1>1, <1>2, <1>22 DEF AuthTypes, AccountInv, HookRecordMfa, NextVersion, NoHook, Args
  <2>2. HookTypes'
    BY <1>1, <1>2, <1>22 DEF HookTypes, HookKinds, HookSteps, AccountInv, HookRecordMfa, NextVersion, NoHook, Args
  <2>3. AccountInv'
    BY <1>1, <1>2, <1>22 DEF HookTypes, AccountInv, HookRecordMfa, NextVersion, NoHook, Args
  <2> QED
    BY <2>1, <2>2, <2>3
<1>23. ASSUME Crash
      PROVE  AuthTypes' /\ HookTypes' /\ AccountInv'
  <2>1. AuthTypes'
    <3>1. /\ crashes \in 0..MaxCrashes /\ crashes < MaxCrashes /\ crashes' = crashes + 1
          /\ signIn' = FALSE /\ UNCHANGED <<authVars, tokens>>
      BY <1>2, <1>23 DEF AuthTypes, Crash
    <3>2. crashes' \in 0..MaxCrashes
      BY <1>1, <3>1
    <3> QED
      BY <1>2, <3>1, <3>2 DEF AuthTypes, authVars
  <2>2. HookTypes'
    BY <1>1, <1>2, <1>23 DEF HookTypes, HookKinds, HookSteps, AccountInv, Crash, authVars, NoHook, Args
  <2>3. AccountInv'
    BY <1>1, <1>2, <1>23 DEF HookTypes, AccountInv, Crash, authVars, NoHook, Args
  <2> QED
    BY <2>1, <2>2, <2>3
<1> QED
  BY <1>3, <1>4, <1>5, <1>6, <1>7, <1>8, <1>9, <1>10, <1>11, <1>12, <1>13, <1>14, <1>15, <1>16, <1>17, <1>18, <1>19, <1>20, <1>21, <1>22, <1>23
  DEF Account, Hook

(* A token of the newest version was signed for an active, verified account, *)
(* and whatever makes the account unavailable raises the version.            *)
LEMMA AuthKeepsTokens ==
  ASSUME TypeOK, AccountInv, TokenInv, Account \/ Hook \/ Crash
  PROVE  TokenInv'
<1>1. aVer \in Nat /\ \A t \in tokens : t \in Nat /\ t <= aVer
  BY DEF TypeOK, TokenInv, Versions
<1>2. ASSUME aVer' = aVer + 1, UNCHANGED tokens PROVE TokenInv'
  BY <1>1, <1>2 DEF TokenInv
<1>3. ASSUME UNCHANGED <<aVer, tokens, aState>>, aVerified => aVerified' PROVE TokenInv'
  BY <1>3 DEF TokenInv
<1>4. ASSUME NEW verified \in BOOLEAN, NEW email \in Emails, SignUp(verified, email)
      PROVE  TokenInv'
  <2>1. tokens = {} \/ tokens = {0}
    BY <1>1, <1>4 DEF SignUp, AccountInv
  <2> QED
    BY <1>4, <2>1 DEF SignUp, TokenInv, TypeOK, Versions
<1>5. ASSUME \/ VerifyEmail \/ ToggleMfa \/ \E email \in Emails : ChangeEmail(email)
             \/ GraceElapses \/ SignInCheck \/ SignInInsert
             \/ HookAwait \/ HookGiveUp \/ HookRead \/ HookQueue \/ Crash
      PROVE  TokenInv'
  <2>1. CASE VerifyEmail \/ ToggleMfa \/ \E email \in Emails : ChangeEmail(email)
    BY <1>3, <2>1 DEF VerifyEmail, ToggleMfa, ChangeEmail
  <2>2. CASE GraceElapses \/ SignInCheck \/ SignInInsert
    BY <1>3, <2>2 DEF GraceElapses, SignInCheck, SignInInsert, authVars
  <2>3. CASE HookAwait \/ HookGiveUp \/ HookRead \/ HookQueue \/ Crash
    BY <1>3, <2>3 DEF HookAwait, HookGiveUp, HookRead, HookQueue, Crash, authVars
  <2> QED
    BY <1>5, <2>1, <2>2, <2>3
<1>6. ASSUME \/ RevokeSessions \/ \E suspended \in BOOLEAN : SetSuspended(suspended)
             \/ RequestDeletion \/ CancelDeletion \/ CancelDeletionWithRecoveryToken
             \/ Pseudonymize \/ HookRevoke \/ HookRecordMfa
      PROVE  TokenInv'
  BY <1>2, <1>6 DEF RevokeSessions, SetSuspended, RequestDeletion, CancelDeletion,
     CancelDeletionWithRecoveryToken, Pseudonymize, HookRevoke, HookRecordMfa, NextVersion
<1>7. ASSUME MintToken PROVE TokenInv'
  BY <1>1, <1>7 DEF MintToken, authVars, TokenInv
<1> QED
  BY <1>4, <1>5, <1>6, <1>7 DEF Account, Hook

(* The steps of the authentication service keep the inductive invariant. *)
LEMMA AuthKeepsInv ==
  ASSUME IInv, Account \/ Hook \/ Crash
  PROVE  IInv'
<1>1. AuthEffect
  BY AuthStep DEF IInv
<1>2. AuthTypes' /\ HookTypes' /\ AccountInv'
  BY <1>1, AuthKeepsAccount DEF IInv
<1>3. /\ aVer' \in 0..(MaxEvents + 1) /\ nextId' \in 1..(MaxEvents + 1) /\ outbox' \subseteq Events
      /\ UNCHANGED <<delivered, mLink, mState, mVer, mMfa, mEmail, mErased, receipts, applied,
                     handler>>
  BY <1>1, BoundsAssumption DEF AuthEffect, QueueEffect, IInv, TypeOK, mirrorVars
<1>4. TypeOK'
  BY <1>2, <1>3 DEF IInv, TypeOK, AuthTypes, HookTypes, HookKinds, HookSteps
<1>5. EventInv' /\ CreatedInv' /\ ReceiptInv' /\ MirrorInv' /\ TokenInv'
  BY <1>1, AuthKeepsEvents, AuthKeepsCreated, AuthKeepsReceipts, AuthKeepsTokens DEF IInv
<1> QED
  BY <1>2, <1>4, <1>5 DEF IInv

-----------------------------------------------------------------------------
(* What the steps of the API and of its posts have in common.              *)

Exchange == [pc : {"idle", "sent", "begun", "waiting", "ok"},
             ev : Events \cup {NoEvent}, found : BOOLEAN, ver : 0..(MaxEvents + 1)]

(* Transaction h moves to r, with the event it had or one of the outbox.   *)
Moves(h, r) ==
  /\ r \in Exchange
  /\ handler' = [handler EXCEPT ![h] = r]
  /\ \/ r = Idle
     \/ /\ r.pc # "idle"
        /\ r.ev \in outbox \/ (handler[h].pc # "idle" /\ r.ev = handler[h].ev)

AuthUnchanged == UNCHANGED <<authVars, memoryVars, queueVars, tokens>>

(* A transaction that starts, ends or is lost keeps hold of a queued event. *)
LEMMA MoveKeepsEvents ==
  ASSUME TypeOK, EventInv, NEW h \in Handlers, NEW r, Moves(h, r), AuthUnchanged
  PROVE  EventInv'
<1>1. UNCHANGED <<outbox, nextId, aVer>>
  BY DEF AuthUnchanged, queueVars, authVars
<1>2. \A e : Queued(e)' <=> Queued(e)
  BY <1>1 DEF Queued
<1>3. \A g \in Handlers : handler'[g] = IF g = h THEN r ELSE handler[g]
  BY DEF Moves, TypeOK
<1>4. r.pc # "idle" => Queued(r.ev) /\ \A o \in outbox : r.ev.id = o.id => r.ev = o
  BY DEF Moves, EventInv, Idle
<1>5. r.pc = "idle" => r = Idle
  BY DEF Moves
<1>6. \A o \in outbox : r.ev.id = o.id => r.ev = o
  <2>1. \A o \in outbox : o.id # 0
    BY DEF TypeOK, Events, Ids
  <2> QED
    BY <1>4, <1>5, <2>1 DEF Idle, NoEvent
<1>7. \A g \in Handlers : handler'[g].pc # "idle" => Queued(handler'[g].ev)
  BY <1>3, <1>4 DEF EventInv
<1>8. \A g \in Handlers : handler'[g].pc # "idle" => Queued(handler[g].ev)'
  BY <1>1, <1>7 DEF Queued
<1>9. \A e \in outbox' : Queued(e)'
  BY <1>1, <1>2 DEF EventInv
<1> QED
  BY <1>1, <1>3, <1>5, <1>6, <1>8, <1>9 DEF EventInv

(* mLink leaves "absent" only by the receipt of the announcement. *)
LEMMA MoveKeepsCreated ==
  ASSUME TypeOK, EventInv, CreatedInv, NEW h \in Handlers, NEW r, Moves(h, r), AuthUnchanged,
         receipts \subseteq receipts',
         \/ mLink # "absent"
         \/ mLink' = "absent"
         \/ Created(handler[h].ev) /\ r.ev = handler[h].ev /\ handler[h].ev.id \in receipts'
  PROVE  CreatedInv'
<1>1. UNCHANGED <<outbox, hook, aState>>
  BY DEF AuthUnchanged, queueVars, authVars, memoryVars
<1>2. \A g \in Handlers : handler'[g] = IF g = h THEN r ELSE handler[g]
  BY DEF Moves, TypeOK
<1>3. Created(r.ev) => r.ev \in outbox \/ r.ev = handler[h].ev
  BY DEF Moves, Idle, NoEvent, Created
<1>4. \A g \in Handlers : Created(handler'[g].ev) =>
        \/ handler'[g].ev \in outbox
        \/ handler'[g].ev = handler[g].ev
  BY <1>2, <1>3
<1>5. Announcing => mLink = "absent" /\ mLink' = "absent"
  BY DEF CreatedInv, Announcing
<1>6. \A e \in outbox, g \in Handlers :
        Created(e) /\ Created(handler'[g].ev) => e.id = handler'[g].ev.id
  BY <1>4 DEF CreatedInv
<1>7. \A f, g \in Handlers :
        Created(handler'[f].ev) /\ Created(handler'[g].ev) => handler'[f].ev.id = handler'[g].ev.id
  BY <1>4 DEF CreatedInv
<1>8. ASSUME mLink' # "absent"
      PROVE  /\ \A e \in outbox : Created(e) => e.id \in receipts'
             /\ \A g \in Handlers : Created(handler'[g].ev) => handler'[g].ev.id \in receipts'
  <2>1. CASE mLink # "absent"
    BY <1>4, <2>1 DEF CreatedInv
  <2>2. CASE Created(handler[h].ev) /\ r.ev = handler[h].ev /\ handler[h].ev.id \in receipts'
    BY <1>2, <1>4, <2>2 DEF CreatedInv
  <2> QED
    BY <1>8, <2>1, <2>2
<1> QED
  BY <1>1, <1>4, <1>5, <1>6, <1>7, <1>8 DEF CreatedInv, Announcing, Created

(* A step that commits nothing: a post, an answer, a loss, a receipt tried, *)
(* a snapshot taken.                                                        *)
LEMMA MoveKeepsReceipts ==
  ASSUME TypeOK, ReceiptInv, MirrorInv, NEW h \in Handlers, NEW r, Moves(h, r), AuthUnchanged,
         UNCHANGED <<mirrorVars, receipts, applied>>,
         delivered' \subseteq receipts,
         r.ver <= mVer, r.found => mLink # "absent",
         r.pc \in {"begun", "waiting"} =>
           /\ r.ev.id \notin receipts
           /\ \A g \in Handlers \ {h} : InTransaction(g) => handler[g].ev.id # r.ev.id,
         r.pc = "ok" => r.ev.id \in receipts
  PROVE  ReceiptInv' /\ MirrorInv'
<1>1. /\ UNCHANGED <<outbox, nextId, aVer, mVer, mLink, receipts, applied>>
      /\ \A g \in Handlers : handler'[g] = IF g = h THEN r ELSE handler[g]
  BY DEF AuthUnchanged, queueVars, authVars, mirrorVars, Moves, TypeOK
<1>2. \A g \in Handlers : InTransaction(g)' <=>
        IF g = h THEN r.pc \in {"begun", "waiting"} ELSE InTransaction(g)
  BY <1>1 DEF InTransaction
<1>3. ReceiptInv'
  BY <1>1, <1>2 DEF ReceiptInv
<1>4. MirrorInv'
  BY <1>1 DEF MirrorInv
<1> QED
  BY <1>3, <1>4

(* A commit: the receipt, and a mirror that is not older than the event. *)
LEMMA CommitKeepsReceipts ==
  ASSUME TypeOK, EventInv, ReceiptInv, MirrorInv, NEW h \in Handlers, handler[h].pc = "waiting",
         Commit(h),
         mVer' \in Nat, mVer' >= mVer, mVer' >= handler[h].ev.ver, mVer' <= aVer,
         mLink' # "absent",
         applied' = applied \/ applied' = [applied EXCEPT ![handler[h].ev.id] = @ + 1]
  PROVE  /\ ReceiptInv' /\ MirrorInv' /\ receipts' \subseteq Ids
         /\ applied' \in [Ids -> Nat] /\ receipts \subseteq receipts'
         /\ handler[h].ev.id \in receipts'
         /\ AuthUnchanged /\ UNCHANGED delivered
         /\ Moves(h, [Idle EXCEPT !.pc = "ok", !.ev = handler[h].ev])
<1> DEFINE r == [Idle EXCEPT !.pc = "ok", !.ev = handler[h].ev]
           e == handler[h].ev
<1>1. /\ AuthUnchanged /\ UNCHANGED <<outbox, nextId, aVer, delivered>>
      /\ receipts' = receipts \cup {e.id} /\ handler' = [handler EXCEPT ![h] = r]
  BY DEF Commit, AuthUnchanged, authVars, queueVars
<1>2. Queued(e) /\ e.id \in Ids /\ e \in Events
  BY DEF EventInv, Queued, Events
<1>3. r.pc = "ok" /\ r.ev = e /\ r.found = FALSE /\ r.ver = 0
  BY DEF Idle
<1>4. r \in Exchange
  <2>1. 0 \in 0..(MaxEvents + 1)
    BY BoundsAssumption
  <2>2. Idle \in Exchange
    BY <2>1 DEF Exchange, Idle
  <2> QED
    BY <1>2, <2>2 DEF Exchange
<1>5. \A g \in Handlers : handler'[g] = IF g = h THEN r ELSE handler[g]
  BY <1>1 DEF TypeOK
<1> HIDE DEF r
<1>6. Moves(h, r)
  BY <1>1, <1>3, <1>4 DEF Moves
<1>7. InTransaction(h) /\ e.id \notin receipts
  BY DEF InTransaction, ReceiptInv
<1>8. \A g \in Handlers : InTransaction(g)' => g # h /\ InTransaction(g) /\ handler'[g] = handler[g]
  BY <1>3, <1>5 DEF InTransaction
<1>9. \A g \in Handlers : InTransaction(g)' => handler[g].ev.id \notin receipts'
  BY <1>1, <1>7, <1>8 DEF ReceiptInv
<1>10. \A o \in outbox : o.id \in receipts' => o.ver <= mVer'
  <2> TAKE o \in outbox
  <2>1. o.ver \in Nat /\ mVer \in Nat
    BY DEF TypeOK, Events, Versions
  <2>2. CASE o.id = e.id
    BY <2>2 DEF EventInv
  <2>3. CASE o.id # e.id
    BY <1>1, <2>1, <2>3 DEF ReceiptInv
  <2> QED
    BY <2>2, <2>3
<1>11. /\ applied' \in [Ids -> Nat]
       /\ \A i \in Ids : applied'[i] <= 1
       /\ \A i \in Ids : i \notin receipts' => applied'[i] = 0
  BY <1>1, <1>2, <1>7 DEF ReceiptInv, TypeOK
<1>12. receipts' \subseteq Ids /\ \A i \in receipts' : i < nextId'
  BY <1>1, <1>2 DEF ReceiptInv, Queued, TypeOK
<1>13. \A g \in Handlers : handler'[g].pc = "ok" => handler'[g].ev.id \in receipts'
  BY <1>1, <1>3, <1>5 DEF ReceiptInv
<1>14. ReceiptInv'
  BY <1>1, <1>8, <1>9, <1>10, <1>11, <1>12, <1>13 DEF ReceiptInv
<1>15. \A g \in Handlers : handler'[g].ver <= mVer'
  <2>1. \A g \in Handlers : handler[g].ver \in Nat /\ mVer \in Nat
    BY DEF TypeOK
  <2> QED
    BY <1>3, <1>5, <2>1 DEF MirrorInv
<1>16. MirrorInv'
  BY <1>1, <1>15 DEF MirrorInv
<1> QED
  BY <1>1, <1>6, <1>11, <1>12, <1>14, <1>16 DEF r

(* The steps of a delivery keep the inductive invariant. *)
LEMMA DeliveryKeepsInv ==
  ASSUME IInv, NEW h \in Handlers,
         (\E e \in outbox : Post(h, e)) \/ Handle(h) \/ Acknowledge(h) \/ Lose(h)
  PROVE  IInv'
<1> DEFINE hh == handler[h]
<1>1. hh \in Exchange /\ Idle \in Exchange
  <2>1. 0 \in 0..(MaxEvents + 1)
    BY BoundsAssumption
  <2> QED
    BY <2>1 DEF IInv, TypeOK, Exchange, Idle
(* The account is untouched, and the mirror's types hold. *)
<1>2. ASSUME AuthUnchanged, EventInv', CreatedInv', ReceiptInv', MirrorInv',
             NEW r, Moves(h, r), delivered' \subseteq Ids, receipts' \subseteq Ids,
             applied' \in [Ids -> Nat],
             mLink' \in {"absent", "inactive", "active"}, mState' \in AccountStates,
             mVer' \in 0..(MaxEvents + 1), mMfa' \in BOOLEAN,
             mEmail' \in Emails \cup {NoEmail}, mErased' \in BOOLEAN
      PROVE  IInv'
  <2>1. UNCHANGED <<authVars, memoryVars, queueVars, tokens>>
    BY <1>2 DEF AuthUnchanged
  <2>2. AccountInv' /\ TokenInv'
    BY <2>1 DEF IInv, AccountInv, TokenInv, authVars, memoryVars, queueVars
  <2>3. handler' \in [Handlers -> Exchange]
    BY <1>2 DEF Moves, IInv, TypeOK, Exchange
  <2>4. TypeOK'
    BY <1>2, <2>1, <2>3 DEF IInv, TypeOK, Exchange, authVars, memoryVars, queueVars
  <2> QED
    BY <1>2, <2>2, <2>4 DEF IInv
(* Nothing is committed. *)
<1>3. ASSUME NEW r, Moves(h, r), AuthUnchanged, UNCHANGED <<mirrorVars, receipts, applied>>,
             delivered' \subseteq receipts,
             r.ver <= mVer, r.found => mLink # "absent",
             r.pc \in {"begun", "waiting"} =>
               /\ r.ev.id \notin receipts
               /\ \A g \in Handlers \ {h} : InTransaction(g) => handler[g].ev.id # r.ev.id,
             r.pc = "ok" => r.ev.id \in receipts
      PROVE  IInv'
  <2>1. ReceiptInv' /\ MirrorInv'
    BY <1>3, MoveKeepsReceipts DEF IInv
  <2>2. EventInv' /\ CreatedInv'
    BY <1>3, MoveKeepsEvents, MoveKeepsCreated DEF IInv, mirrorVars
  <2>3. /\ delivered' \subseteq Ids
        /\ UNCHANGED <<mLink, mState, mVer, mMfa, mEmail, mErased, receipts, applied>>
    BY <1>3 DEF IInv, TypeOK, mirrorVars
  <2> QED
    BY <1>2, <1>3, <2>1, <2>2, <2>3 DEF IInv, TypeOK
(* The receipt is committed. *)
<1>4. ASSUME hh.pc = "waiting", Commit(h),
             mVer' \in Nat, mVer' >= mVer, mVer' >= hh.ev.ver, mVer' <= aVer,
             mLink' \in {"inactive", "active"}, mState' \in AccountStates,
             mMfa' \in BOOLEAN, mEmail' \in Emails \cup {NoEmail}, mErased' \in BOOLEAN,
             mLink # "absent" \/ Created(hh.ev),
             applied' = applied \/ applied' = [applied EXCEPT ![hh.ev.id] = @ + 1]
      PROVE  IInv'
  <2> DEFINE r == [Idle EXCEPT !.pc = "ok", !.ev = hh.ev]
  <2>1. /\ ReceiptInv' /\ MirrorInv' /\ receipts' \subseteq Ids /\ applied' \in [Ids -> Nat]
        /\ receipts \subseteq receipts' /\ hh.ev.id \in receipts'
        /\ AuthUnchanged /\ UNCHANGED delivered /\ Moves(h, r)
    BY <1>4, CommitKeepsReceipts DEF IInv
  <2>2. r.ev = hh.ev
    BY DEF Idle
  <2> HIDE DEF r
  <2>3. EventInv' /\ CreatedInv'
    BY <1>4, <2>1, <2>2, MoveKeepsEvents, MoveKeepsCreated DEF IInv
  <2>4. mVer' \in 0..(MaxEvents + 1) /\ delivered' \subseteq Ids
    BY <1>4, <2>1, BoundsAssumption DEF IInv, TypeOK
  <2> QED
    BY <1>2, <1>4, <2>1, <2>3, <2>4
<1>5. ASSUME NEW e \in outbox, Post(h, e) PROVE IInv'
  <2> DEFINE r == [Idle EXCEPT !.pc = "sent", !.ev = e]
  <2>1. /\ AuthUnchanged /\ UNCHANGED <<mirrorVars, receipts, applied, delivered>>
        /\ handler' = [handler EXCEPT ![h] = r]
    BY <1>5 DEF Post, AuthUnchanged
  <2>2. r \in Exchange /\ r.pc = "sent" /\ r.ev = e /\ r.ver = 0 /\ r.found = FALSE
    BY <1>1, <1>5 DEF Idle, Exchange, IInv, TypeOK
  <2> HIDE DEF r
  <2>3. Moves(h, r)
    BY <1>5, <2>1, <2>2 DEF Moves
  <2> QED
    BY <1>3, <2>1, <2>2, <2>3 DEF IInv, ReceiptInv, TypeOK
<1>6. ASSUME Acknowledge(h) \/ Lose(h) \/ NotFound(h) PROVE IInv'
  <2>1. /\ AuthUnchanged /\ UNCHANGED <<mirrorVars, receipts, applied>>
        /\ handler' = [handler EXCEPT ![h] = Idle]
    BY <1>6 DEF Acknowledge, Lose, NotFound, AuthUnchanged
  <2>2. Moves(h, Idle) /\ Idle.pc = "idle" /\ Idle.ver = 0 /\ Idle.found = FALSE
    BY <1>1, <2>1 DEF Moves, Idle
  <2>3. delivered' \subseteq receipts
    <3>1. hh.pc = "ok" => hh.ev.id \in receipts
      BY DEF IInv, ReceiptInv
    <3> QED
      BY <1>6, <3>1 DEF Acknowledge, Lose, NotFound, IInv, ReceiptInv
  <2>4. mVer \in Nat
    BY DEF IInv, TypeOK
  <2> QED
    BY <1>3, <2>1, <2>2, <2>3, <2>4
<1>7. ASSUME InsertReceipt(h) PROVE IInv'
  <2> DEFINE r == [hh EXCEPT !.pc = IF hh.ev.id \in receipts THEN "ok" ELSE "begun"]
  <2>1. /\ AuthUnchanged /\ UNCHANGED <<mirrorVars, receipts, applied, delivered>>
        /\ handler' = [handler EXCEPT ![h] = r]
        /\ hh.pc = "sent"
        /\ \A g \in Handlers : InTransaction(g) => handler[g].ev.id # hh.ev.id
    BY <1>7 DEF InsertReceipt, AuthUnchanged
  <2>2. /\ r \in Exchange /\ r.ev = hh.ev /\ r.ver = hh.ver /\ r.found = hh.found
        /\ r.pc = IF hh.ev.id \in receipts THEN "ok" ELSE "begun"
    BY <1>1 DEF Exchange
  <2> HIDE DEF r
  <2>3. Moves(h, r)
    BY <2>1, <2>2 DEF Moves
  <2>4. hh.ver <= mVer /\ (hh.found => mLink # "absent") /\ delivered' \subseteq receipts
    BY <2>1 DEF IInv, MirrorInv, ReceiptInv
  <2> QED
    BY <1>3, <2>1, <2>2, <2>3, <2>4
<1>8. ASSUME SelectLink(h) PROVE IInv'
  <2> DEFINE r == [hh EXCEPT !.pc = "waiting", !.found = (mLink # "absent"), !.ver = mVer]
  <2>1. /\ AuthUnchanged /\ UNCHANGED <<mirrorVars, receipts, applied, delivered>>
        /\ handler' = [handler EXCEPT ![h] = r]
        /\ hh.pc = "begun"
    BY <1>8 DEF SelectLink, AuthUnchanged
  <2>2. mVer \in 0..(MaxEvents + 1)
    BY DEF IInv, TypeOK
  <2>3. /\ r \in Exchange /\ r.ev = hh.ev /\ r.ver = mVer /\ r.found = (mLink # "absent")
        /\ r.pc = "waiting"
    BY <1>1, <2>2 DEF Exchange
  <2> HIDE DEF r
  <2>4. Moves(h, r)
    BY <2>1, <2>3 DEF Moves
  <2>5. /\ hh.ev.id \notin receipts /\ delivered' \subseteq receipts
        /\ \A g \in Handlers \ {h} : InTransaction(g) => handler[g].ev.id # hh.ev.id
    BY <2>1 DEF IInv, ReceiptInv, InTransaction
  <2>6. (r.found => mLink # "absent") /\ r.ver <= mVer
    <3>1. r.found => mLink # "absent"
      BY ONLY <2>3, Zenon
    <3>2. r.ver <= mVer
      BY <2>2, <2>3
    <3> QED
      BY <3>1, <3>2
  <2>7. r.pc # "ok" /\ r.ev.id = hh.ev.id
    BY <2>3
  <2> QED
    BY <1>3, <2>1, <2>4, <2>5, <2>6, <2>7
<1>9. hh.pc # "idle" =>
        /\ hh.ev \in Events /\ hh.ev.ver <= aVer /\ hh.ev.ver \in Nat
        /\ hh.ev.arg \in Args /\ hh.ev.email \in Emails \cup {NoEmail}
        /\ hh.ev.type = "account_state_changed" => hh.ev.arg \in {"active", "suspended"}
  BY DEF IInv, EventInv, Queued, Events, Versions
<1>10. /\ mVer \in Nat /\ mVer <= aVer /\ hh.ver <= mVer /\ hh.ver \in Nat
       /\ hh.found => mLink # "absent"
       /\ mLink = "absent" => mVer = 0
  BY <1>1 DEF IInv, TypeOK, MirrorInv, Exchange
<1>11. ASSUME CreateIdentityUser(h) PROVE IInv'
  <2>1. hh.pc = "waiting" /\ Created(hh.ev) /\ Commit(h) /\ mVer' = hh.ev.ver
    BY <1>11 DEF CreateIdentityUser, Created
  <2>2. mVer = 0
    <3>1. hh.ev.id \notin receipts
      BY <2>1 DEF IInv, ReceiptInv, InTransaction
    <3> QED
      BY <1>10, <2>1, <3>1 DEF IInv, CreatedInv
  <2>3. /\ mLink' \in {"inactive", "active"} /\ mState' \in AccountStates
        /\ mMfa' = mMfa /\ mErased' = mErased /\ mEmail' = hh.ev.email
        /\ applied' = [applied EXCEPT ![hh.ev.id] = @ + 1]
    BY <1>11 DEF CreateIdentityUser, AccountStates
  <2>4. mMfa' \in BOOLEAN /\ mErased' \in BOOLEAN
    BY <2>3 DEF IInv, TypeOK
  <2>5. /\ mVer' \in Nat /\ mVer' >= mVer /\ mVer' >= hh.ev.ver /\ mVer' <= aVer
        /\ mEmail' \in Emails \cup {NoEmail}
    BY <1>9, <2>1, <2>2, <2>3
  <2> QED
    BY <1>4, <2>1, <2>3, <2>4, <2>5
<1>12. ASSUME SkipStale(h) PROVE IInv'
  <2>1. /\ hh.pc = "waiting" /\ hh.found /\ Commit(h) /\ hh.ev.ver < hh.ver
        /\ UNCHANGED <<mLink, mState, mVer, mMfa, mEmail, mErased, applied>>
    BY <1>12 DEF SkipStale, mirrorVars
  <2> QED
    BY <1>4, <1>9, <1>10, <2>1 DEF IInv, TypeOK
<1>13. ASSUME Apply(h) PROVE IInv'
  <2>1. /\ hh.pc = "waiting" /\ hh.found /\ Commit(h)
        /\ mVer' = IF hh.ev.ver > mVer THEN hh.ev.ver ELSE mVer
        /\ mState' = StateAfter(hh.ev) /\ mLink' = LinkAfter(hh.ev)
        /\ mEmail' = EmailAfter(hh.ev) /\ mMfa' = MfaAfter(hh.ev)
        /\ mErased' \in BOOLEAN
        /\ applied' = [applied EXCEPT ![hh.ev.id] = @ + 1]
    BY <1>13 DEF Apply
  <2>2. mState' \in AccountStates
    BY <1>9, <2>1 DEF StateAfter, AccountStates, IInv, TypeOK
  <2>3. mLink' \in {"inactive", "active"}
    BY <1>10, <2>1 DEF LinkAfter, IInv, TypeOK
  <2>4. mEmail' \in Emails \cup {NoEmail}
    BY <1>9, <2>1 DEF EmailAfter, IInv, TypeOK
  <2>5. mMfa' \in BOOLEAN
    BY <2>1 DEF MfaAfter, IInv, TypeOK
  <2> QED
    BY <1>4, <1>9, <1>10, <2>1, <2>2, <2>3, <2>4, <2>5
<1> QED
  BY <1>5, <1>6, <1>7, <1>8, <1>11, <1>12, <1>13 DEF Handle

-----------------------------------------------------------------------------
(* Before sign-up nothing has happened: the invariant holds. *)
LEMMA InitInv == Init => IInv
<1> SUFFICES ASSUME Init PROVE IInv
  OBVIOUS
<1>1. TypeOK
  <2>1. /\ 0 \in 0..(MaxEvents + 1) /\ 1 \in 1..(MaxEvents + 1) /\ 0 \in 0..MaxEvents
        /\ 0 \in 0..MaxCrashes
    BY BoundsAssumption
  <2> QED
    BY <2>1 DEF Init, TypeOK, Idle, NoHook, Args, AccountStates
<1>2. AccountInv
  BY DEF Init, AccountInv, NoHook
<1>3. EventInv /\ CreatedInv
  BY DEF Init, EventInv, CreatedInv, Created, Idle, NoEvent
<1>4. ReceiptInv /\ MirrorInv /\ TokenInv
  BY DEF Init, ReceiptInv, MirrorInv, TokenInv, InTransaction, Idle
<1> QED
  BY <1>1, <1>2, <1>3, <1>4 DEF IInv

(* Each step of either service preserves the invariant. *)
LEMMA NextInv == IInv /\ [Next]_vars => IInv'
<1> SUFFICES ASSUME IInv, [Next]_vars PROVE IInv'
  OBVIOUS
<1>1. CASE Account \/ Hook \/ Crash
  BY <1>1, AuthKeepsInv
<1>2. CASE Delivery
  BY <1>2, DeliveryKeepsInv DEF Delivery
<1>3. CASE UNCHANGED vars
  BY <1>3 DEF vars, authVars, memoryVars, queueVars, apiVars, mirrorVars, IInv, TypeOK,
     AccountInv, EventInv, Queued, CreatedInv, Created, ReceiptInv, InTransaction, MirrorInv,
     TokenInv
<1> QED
  BY <1>1, <1>2, <1>3 DEF Next

(* The inductive invariant holds in every reachable state. *)
THEOREM Inductive == Spec => []IInv
  BY InitInv, NextInv, PTL DEF Spec

(* Every variable of the two services keeps its type. *)
THEOREM TypeCorrect == Spec => []TypeOK
<1>1. IInv => TypeOK
  BY DEF IInv
<1> QED
  BY <1>1, Inductive, PTL

(* An event recorded as delivered is covered by the mirror's version, so   *)
(* no token signed before its change is accepted: for any number of        *)
(* transactions that race, any loss and any order.                         *)
THEOREM RevocationIsKept == Spec => []RevocationHolds
<1>1. IInv => RevocationHolds
  <2> SUFFICES ASSUME IInv, NEW e \in outbox, e.id \in delivered,
                      NEW t \in tokens, Accepts(t)
               PROVE  t >= e.ver
    BY DEF RevocationHolds
  <2>1. t = mVer /\ e.ver <= mVer
    BY DEF Accepts, ClaimsMatchActor, IInv, ReceiptInv
  <2>2. e.ver \in Nat /\ mVer \in Nat
    BY DEF IInv, TypeOK, Events, Versions
  <2> QED
    BY <2>1, <2>2
<1> QED
  BY <1>1, Inductive, PTL

(* The mirror is never ahead, and a token accepted at the version both     *)
(* services hold belongs to an active, verified account.                   *)
THEOREM AccessIsAvailable == Spec => []NoUnavailableAccess
<1>1. IInv => NoUnavailableAccess
  BY DEF IInv, MirrorInv, TokenInv, NoUnavailableAccess, Accepts, ClaimsMatchActor
<1> QED
  BY <1>1, Inductive, PTL

(* No event changes the mirror twice, and none is recorded as delivered    *)
(* that the API has no receipt of.                                         *)
THEOREM AppliedOnce == Spec => []AppliedAtMostOnce
<1>1. IInv => AppliedAtMostOnce
  <2> SUFFICES ASSUME IInv PROVE AppliedAtMostOnce
    OBVIOUS
  <2>1. \A i \in Ids : applied[i] = 1 => i \in receipts
    BY DEF IInv, ReceiptInv
  <2> QED
    BY <2>1 DEF IInv, ReceiptInv, AppliedAtMostOnce
<1> QED
  BY <1>1, Inductive, PTL
-----------------------------------------------------------------------------
(* The refinement: each step is a step of the contract or leaves it alone. *)

(* What is promised depends on the outbox and the acknowledgements only,   *)
(* and an entry that has just been queued is not acknowledged yet.         *)
LEMMA PromisedByAuth ==
  ASSUME IInv, AuthEffect, outbox \subseteq outbox' \/ outbox' \cap outbox = {}
  PROVE  Promised' \in {Promised, {}} /\ (outbox \subseteq outbox' => Promised' = Promised)
<1>1. \A e \in outbox' \ outbox : e.id = nextId
  BY DEF AuthEffect, QueueEffect, Fresh
<1>2. nextId \notin delivered
  <2>1. nextId \in Nat
    BY DEF IInv, TypeOK
  <2>2. \A i \in delivered : i < nextId
    BY DEF IInv, ReceiptInv
  <2> QED
    BY <2>1, <2>2
<1>3. delivered' = delivered
  BY DEF AuthEffect
<1>4. \A e \in outbox' : e.id \in delivered => e \in outbox
  BY <1>1, <1>2
<1>5. CASE outbox \subseteq outbox'
  BY <1>3, <1>4, <1>5 DEF Promised
<1>6. CASE outbox' \cap outbox = {}
  <2>1. Promised' = {}
    BY <1>3, <1>4, <1>6 DEF Promised
  <2> QED
    BY <2>1, <1>3, <1>4 DEF Promised
<1> QED
  BY <1>5, <1>6

(* A step of the account or a hook issues a version or issues none.        *)
LEMMA AuthIssues ==
  ASSUME IInv, Account \/ Hook \/ Crash
  PROVE  /\ aVer' = aVer \/ aVer' = aVer + 1
         /\ outbox \subseteq outbox' \/ (outbox' \cap outbox = {} /\ aVer' = aVer + 1)
<1> USE DEF NextVersion, Enqueue, authVars, queueVars
<1>1. aVer \in Nat /\ nextId \in Nat
  BY DEF IInv, TypeOK
<1>2. ASSUME NEW verified \in BOOLEAN, NEW email \in Emails, SignUp(verified, email)
      PROVE  aVer' = aVer + 1 /\ outbox' = outbox
  BY <1>2 DEF SignUp, IInv, AccountInv
<1>3. ASSUME \/ VerifyEmail \/ ToggleMfa \/ \E email \in Emails : ChangeEmail(email)
             \/ GraceElapses \/ SignInCheck \/ SignInInsert \/ MintToken
             \/ HookAwait \/ HookGiveUp \/ HookRead \/ Crash
      PROVE  aVer' = aVer /\ outbox' = outbox
  BY <1>3 DEF VerifyEmail, ToggleMfa, ChangeEmail, GraceElapses, SignInCheck, SignInInsert,
              MintToken, HookAwait, HookGiveUp, HookRead, Crash
<1>4. ASSUME \/ RevokeSessions \/ \E suspended \in BOOLEAN : SetSuspended(suspended)
             \/ RequestDeletion \/ CancelDeletion \/ CancelDeletionWithRecoveryToken
             \/ HookRevoke \/ HookRecordMfa
      PROVE  aVer' = aVer + 1 /\ outbox \subseteq outbox'
  BY <1>4 DEF RevokeSessions, SetSuspended, RequestDeletion, CancelDeletion,
              CancelDeletionWithRecoveryToken, HookRevoke, HookRecordMfa
<1>5. ASSUME HookQueue PROVE aVer' = aVer /\ outbox \subseteq outbox'
  BY <1>5 DEF HookQueue
<1>6. ASSUME Pseudonymize PROVE aVer' = aVer + 1 /\ outbox' \cap outbox = {}
  <2> DEFINE last == [id |-> nextId, type |-> "auth_pseudonymized", ver |-> aVer + 1,
                      arg |-> "nothing", email |-> NoEmail]
  <2>1. aVer' = aVer + 1 /\ outbox' = {last}
    BY <1>6 DEF Pseudonymize
  <2>2. last.id = nextId
    OBVIOUS
  <2>3. \A e \in outbox : e.id < nextId
    BY DEF IInv, EventInv, Queued
  <2> HIDE DEF last
  <2>4. last \notin outbox
    BY <1>1, <2>2, <2>3
  <2> QED
    BY <2>1, <2>4
<1> QED
  BY <1>2, <1>3, <1>4, <1>5, <1>6 DEF Account, Hook

(* Every step of the system is one of the contract's, or none. *)
LEMMA StepKeepsContract ==
  ASSUME IInv, [Next]_vars
  PROVE  [Contract!Next]_(Contract!contractVars)
<1> USE DEF Contract!Next, Contract!contractVars
<1>1. aVer \in Nat /\ mVer \in Nat /\ mVer <= aVer
  BY DEF IInv, TypeOK, MirrorInv
<1>2. CASE Account \/ Hook \/ Crash
  <2>1. AuthEffect
    BY <1>2, AuthStep DEF IInv
  <2>2. /\ aVer' = aVer \/ aVer' = aVer + 1
        /\ outbox \subseteq outbox' \/ (outbox' \cap outbox = {} /\ aVer' = aVer + 1)
    BY <1>2, AuthIssues
  <2>3. Promised' \in {Promised, {}} /\ (outbox \subseteq outbox' => Promised' = Promised)
    BY <2>1, <2>2, PromisedByAuth
  <2>4. mVer' = mVer
    BY <2>1 DEF AuthEffect, mirrorVars
  <2> QED
    BY <2>2, <2>3, <2>4 DEF Contract!Issue
<1>3. ASSUME NEW h \in Handlers, Acknowledge(h) PROVE Contract!Promise \/ UNCHANGED Contract!contractVars
  <2> DEFINE ev == handler[h].ev
  <2>1. /\ handler[h].pc = "ok"
        /\ delivered' = delivered \cup {e.id : e \in {o \in outbox : o.id = ev.id}}
        /\ UNCHANGED <<aVer, outbox, mVer>>
    BY <1>3 DEF Acknowledge, authVars, queueVars, mirrorVars
  <2>2. ev.id \in receipts
    BY <2>1 DEF IInv, ReceiptInv
  <2>3. CASE \E o \in outbox : o.id = ev.id
    <3>1. PICK o \in outbox : o.id = ev.id
      BY <2>3
    <3>2. o.ver <= mVer /\ o.ver \in Nat \ {0}
      <4>1. o.ver \in Versions
        BY DEF IInv, TypeOK, Events
      <4>2. o.ver <= mVer
        BY <2>2, <3>1 DEF IInv, ReceiptInv
      <4> QED
        BY <4>1, <4>2 DEF Versions
    <3>3. \A e \in outbox : e.id = o.id => e = o
      BY DEF IInv, EventInv
    <3>4. delivered' = delivered \cup {o.id}
      BY <2>1, <3>1, <3>3
    <3>5. Promised' = Promised \cup {o.ver}
      BY <2>1, <3>3, <3>4 DEF Promised
    <3>6. o.ver \in 1..mVer
      BY <1>1, <3>2
    <3> QED
      BY <2>1, <3>5, <3>6 DEF Contract!Promise
  <2>4. CASE ~ \E o \in outbox : o.id = ev.id
    <3>1. delivered' = delivered
      BY <2>1, <2>4
    <3> QED
      BY <2>1, <3>1 DEF Promised
  <2> QED
    BY <2>3, <2>4
<1>4. ASSUME NEW h \in Handlers, CreateIdentityUser(h) \/ Apply(h)
      PROVE  Contract!Mirror \/ UNCHANGED Contract!contractVars
  <2>1. UNCHANGED <<aVer, outbox, delivered>>
    BY <1>4 DEF CreateIdentityUser, Apply, Commit, authVars, queueVars
  <2>2. Promised' = Promised
    BY <2>1 DEF Promised
  <2>3. handler[h].pc = "waiting"
    BY <1>4 DEF CreateIdentityUser, Apply
  <2>4. handler[h].ev.ver \in Nat /\ handler[h].ev.ver <= aVer
    BY <2>3 DEF IInv, EventInv, Queued, Events, Versions
  <2>5. CASE Apply(h)
    <3>1. mVer' = IF handler[h].ev.ver > mVer THEN handler[h].ev.ver ELSE mVer
      BY <2>5 DEF Apply
    <3> QED
      BY <1>1, <2>1, <2>2, <2>4, <3>1 DEF Contract!Mirror
  <2>6. CASE CreateIdentityUser(h)
    <3>1. mVer' = handler[h].ev.ver /\ Created(handler[h].ev)
      BY <2>6 DEF CreateIdentityUser, Created
    <3>2. mVer = 0
      <4>1. handler[h].ev.id \notin receipts
        BY <2>3 DEF IInv, ReceiptInv, InTransaction
      <4> QED
        BY <3>1, <4>1 DEF IInv, CreatedInv, MirrorInv
    <3> QED
      BY <1>1, <2>1, <2>2, <2>4, <3>1, <3>2 DEF Contract!Mirror
  <2> QED
    BY <1>4, <2>5, <2>6
<1>5. ASSUME NEW h \in Handlers,
             \/ \E e \in outbox : Post(h, e)
             \/ InsertReceipt(h) \/ SelectLink(h) \/ NotFound(h) \/ SkipStale(h) \/ Lose(h)
      PROVE  UNCHANGED Contract!contractVars
  <2>1. UNCHANGED <<aVer, outbox, delivered, mVer>>
    BY <1>5 DEF Post, InsertReceipt, SelectLink, NotFound, SkipStale, Lose, Commit, authVars,
                queueVars, mirrorVars
  <2> QED
    BY <2>1 DEF Promised
<1>6. CASE Delivery
  BY <1>3, <1>4, <1>5, <1>6 DEF Delivery, Handle
<1>7. CASE UNCHANGED vars
  BY <1>7 DEF vars, authVars, queueVars, apiVars, mirrorVars, Promised
<1> QED
  BY <1>2, <1>6, <1>7 DEF Next

(* The outbox, the posts, the API's transactions and the restarts implement*)
(* the contract: the mirrored version only moves forward, never past the   *)
(* account's, and nothing is promised that the mirror has not reached.     *)
THEOREM ContractIsKept == Spec => KeepsContract
<1>1. Init => Contract!Init
  BY DEF Init, Contract!Init, Promised
<1>2. IInv /\ [Next]_vars => [Contract!Next]_(Contract!contractVars)
  BY StepKeepsContract
<1> QED
  BY <1>1, <1>2, Inductive, PTL DEF Spec, KeepsContract, Contract!Spec
-----------------------------------------------------------------------------
(* What the mirror shows while the API handles one event at a time.  The   *)
(* first invariant is about the events and holds for any number of         *)
(* transactions; the second one is about the mirror and needs one.         *)

(* An event of the outbox or of a post that is still under way. *)
Known(e) ==
  \/ e \in outbox
  \/ \E h \in Handlers : handler[h].pc # "idle" /\ handler[h].ev = e

(* The kinds of event that are queued together with a version of their own. *)
Raising == Lifecycle \cup {"sessions_revoked", "mfa_configured", "mfa_disabled"}

Erasure(e) == e.type = "auth_pseudonymized"
NewEmail(e) == e.type = "email_changed"

(* The state a lifecycle event announces. *)
Announced(e) ==
  CASE e.type = "account_state_changed" -> e.arg
    [] e.type = "deletion_requested" -> "deletion_pending"
    [] e.type = "deletion_cancelled" -> "active"
    [] OTHER -> "deleted"

(* A version names one change; the newest one that is of the account's     *)
(* state announces the state it has, and nothing follows the erasure.  Of  *)
(* two changed addresses the later one has the newer version, because the  *)
(* hook revokes the sessions before it reads the version.                  *)
VersionInv ==
  /\ \A e, o : Known(e) /\ Known(o) /\ {e.type, o.type} \subseteq Raising /\ e.ver = o.ver => e = o
  /\ \A e : Known(e) /\ e.type \in Lifecycle /\ e.ver = aVer => Announced(e) = aState
  /\ \A e : Known(e) /\ Erasure(e) => aState = "deleted"
  /\ \A p, e : Known(p) /\ Erasure(p) /\ Known(e) /\ e.type \in Lifecycle => e.ver <= p.ver
  /\ \A e, o : Known(e) /\ Known(o) /\ NewEmail(e) /\ NewEmail(o) /\ e.ver = o.ver => e = o
  /\ \A e : Known(e) /\ NewEmail(e) =>
       /\ hook.kind = "email" /\ hook.step \in {"await", "read"} => e.ver < aVer
       /\ hook.kind = "email" /\ hook.step = "queue" => e.ver < hook.ver

(* What an event of the newest version says is what the mirror shows. *)
Reflected(e) ==
  /\ e.type \in Lifecycle => mState = aState
  /\ aState # "deleted" =>
       /\ e.type = "mfa_configured" => mMfa
       /\ e.type = "mfa_disabled" => ~mMfa
       /\ e.type = "email_changed" => mEmail = e.email
       /\ e.type = "email_verified" => mLink = "active"

ErasedInv ==
  mErased =>
    /\ aState = "deleted" /\ mState = "deleted" /\ mLink # "absent"
    /\ \A e : Known(e) /\ e.type \in Lifecycle /\ ~Erasure(e) => e.ver < mVer

(* The snapshot of the one transaction is the mirror that it changes.      *)
SerialInv ==
  /\ IInv /\ VersionInv
  /\ \A h \in Handlers : handler[h].pc = "waiting" =>
       handler[h].ver = mVer /\ (handler[h].found <=> mLink # "absent")
  /\ ErasedInv
  /\ \A e \in outbox : e.id \in receipts /\ e.ver = aVer => Reflected(e)

(* What a known event is. *)
LEMMA KnownFacts ==
  ASSUME IInv, NEW e, Known(e)
  PROVE  /\ Queued(e) /\ e.ver \in Nat /\ e.ver >= 1 /\ e.ver <= aVer /\ e.id # nextId
         /\ aVer \in Nat /\ nextId \in Nat /\ aState # "none"
<1>1. Queued(e)
  BY DEF Known, IInv, EventInv
<1>2. e.ver \in Nat /\ e.ver >= 1 /\ e.ver <= aVer /\ e.id < nextId /\ e.id \in Nat
  BY <1>1 DEF Queued, Events, Versions, Ids
<1>3. aVer \in Nat /\ nextId \in Nat
  BY DEF IInv, TypeOK
<1>4. aState # "none"
  BY <1>2, <1>3 DEF IInv, AccountInv
<1> QED
  BY <1>1, <1>2, <1>3, <1>4

(* The account's steps make nothing known but what they queue. *)
LEMMA AuthKnown ==
  ASSUME AuthEffect, NEW e, Known(e)'
  PROVE  Known(e) \/ e \in outbox' \ outbox
<1>1. handler' = handler
  BY DEF AuthEffect
<1> QED
  BY <1>1 DEF Known

(* A change of the account is newer than all that is known. *)
LEMMA RaisingKeepsVersions ==
  ASSUME IInv, VersionInv, AuthEffect,
         NEW entries, NEW type \in Raising, NEW arg, NextVersion(entries, type, arg),
         entries \subseteq outbox,
         \A e : e.type = type /\ e.arg = arg /\ type \in Lifecycle => Announced(e) = aState',
         aState = "deleted" => aState' = "deleted" /\ type \notin Lifecycle,
         type = "auth_pseudonymized" => aState' = "deleted",
         hook' = hook \/ hook' = NoHook \/ hook'.step = "await"
  PROVE  /\ VersionInv' /\ aVer' # aVer
         /\ aState = "deleted" =>
              aState' = "deleted" /\ \A e \in outbox' \ outbox : e.type \notin Lifecycle
<1> DEFINE new == [id |-> nextId, type |-> type, ver |-> aVer + 1, arg |-> arg,
                   email |-> NoEmail]
<1>1. aVer' = aVer + 1 /\ outbox' = entries \cup {new} /\ aVer \in Nat
  BY DEF NextVersion, Enqueue, IInv, TypeOK
<1>2. new.ver = aVer + 1 /\ new.type = type /\ new.arg = arg
  OBVIOUS
<1> HIDE DEF new
<1>3. \A e : Known(e)' => (Known(e) /\ e.ver <= aVer /\ e.ver \in Nat) \/ e = new
  <2> SUFFICES ASSUME NEW e, Known(e)', e # new PROVE Known(e) /\ e.ver <= aVer /\ e.ver \in Nat
    OBVIOUS
  <2>1. Known(e)
    BY <1>1, AuthKnown
  <2> QED
    BY <2>1, KnownFacts
<1>4. type # "email_changed"
  BY DEF Raising, Lifecycle
<1>5. ASSUME NEW e, NEW o, Known(e)', Known(o)', {e.type, o.type} \subseteq Raising, e.ver = o.ver
      PROVE  e = o
  BY <1>1, <1>2, <1>3, <1>5 DEF VersionInv
<1>6. ASSUME NEW e, Known(e)', e.type \in Lifecycle, e.ver = aVer' PROVE Announced(e) = aState'
  <2>1. e = new
    BY <1>1, <1>3, <1>6
  <2> QED
    BY <1>2, <1>6, <2>1
<1>7. ASSUME NEW e, Known(e)', Erasure(e) PROVE aState' = "deleted"
  <2>1. CASE e = new
    BY <1>2, <1>7, <2>1 DEF Erasure
  <2>2. CASE Known(e)
    BY <1>7, <2>2 DEF VersionInv
  <2> QED
    BY <1>3, <1>7, <2>1, <2>2
<1>8. ASSUME NEW p, NEW e, Known(p)', Erasure(p), Known(e)', e.type \in Lifecycle
      PROVE  e.ver <= p.ver
  <2>1. CASE p = new
    BY <1>1, <1>2, <1>3, <1>8, <2>1
  <2>2. CASE p # new
    <3>1. Known(p)
      BY <1>3, <1>8, <2>2
    <3>2. aState = "deleted"
      BY <1>8, <3>1 DEF VersionInv
    <3>3. e # new
      BY <1>2, <1>8, <3>2
    <3>4. Known(e)
      BY <1>3, <1>8, <3>3
    <3> QED
      BY <1>8, <3>1, <3>4 DEF VersionInv
  <2> QED
    BY <2>1, <2>2
<1>9. \A e : Known(e)' /\ NewEmail(e) => Known(e)
  BY <1>2, <1>3, <1>4 DEF NewEmail
<1>10. ASSUME NEW e, NEW o, Known(e)', Known(o)', NewEmail(e), NewEmail(o), e.ver = o.ver
       PROVE  e = o
  BY <1>9, <1>10 DEF VersionInv
<1>11. ASSUME NEW e, Known(e)', NewEmail(e)
       PROVE  /\ hook'.kind = "email" /\ hook'.step \in {"await", "read"} => e.ver < aVer'
              /\ hook'.kind = "email" /\ hook'.step = "queue" => e.ver < hook'.ver
  <2>1. Known(e) /\ e.ver < aVer'
    <3>1. Known(e)
      BY <1>9, <1>11
    <3> QED
      BY <1>1, <3>1, KnownFacts
  <2>2. CASE hook' = hook
    BY <1>11, <2>1, <2>2 DEF VersionInv
  <2>3. CASE hook' = NoHook \/ hook'.step = "await"
    BY <2>1, <2>3 DEF NoHook
  <2> QED
    BY <2>2, <2>3
<1>12. VersionInv'
  BY <1>5, <1>6, <1>7, <1>8, <1>10, <1>11 DEF VersionInv, Erasure, NewEmail, Announced
<1>13. \A e \in outbox' \ outbox : e = new
  BY <1>1
<1> QED
  BY <1>1, <1>2, <1>12, <1>13

(* Steps that queue nothing keep what is known and the order of versions. *)
LEMMA QuietKeepsVersions ==
  ASSUME IInv, VersionInv, AuthEffect, outbox' = outbox, aVer' = aVer, aState' = aState,
         \/ hook' = hook \/ hook'.kind # "email" \/ hook'.step = "revoke"
         \/ hook.kind = "email" /\ hook.step = "await" /\ hook'.step = "read"
         \/ hook.kind = "email" /\ hook.step = "read" /\ hook'.step = "queue" /\ hook'.ver = aVer
  PROVE  VersionInv'
<1>1. \A e : Known(e)' <=> Known(e)
  BY DEF AuthEffect, Known
<1>2. ASSUME NEW e, Known(e), NewEmail(e)
      PROVE  /\ hook'.kind = "email" /\ hook'.step \in {"await", "read"} => e.ver < aVer
             /\ hook'.kind = "email" /\ hook'.step = "queue" => e.ver < hook'.ver
  BY <1>2 DEF VersionInv
<1> QED
  BY <1>1, <1>2 DEF VersionInv, Erasure, NewEmail, Announced

(* Every step of the account, of a hook and a restart. *)
LEMMA AuthKeepsVersions ==
  ASSUME IInv, VersionInv, Account \/ Hook \/ Crash
  PROVE  /\ VersionInv' /\ (aVer' = aVer => aState' = aState)
         /\ aState = "deleted" =>
              aState' = "deleted" /\ \A e \in outbox' \ outbox : e.type \notin Lifecycle
<1> DEFINE Goal == /\ VersionInv' /\ (aVer' = aVer => aState' = aState)
                   /\ aState = "deleted" =>
                        aState' = "deleted" /\ \A e \in outbox' \ outbox : e.type \notin Lifecycle
<1>1. AuthEffect
  BY AuthStep DEF IInv
<1>2. ASSUME UNCHANGED <<outbox, aVer, aState>>,
             \/ hook' = hook \/ hook'.kind # "email" \/ hook'.step = "revoke"
             \/ hook.kind = "email" /\ hook.step = "await" /\ hook'.step = "read"
             \/ hook.kind = "email" /\ hook.step = "read" /\ hook'.step = "queue"
                /\ hook'.ver = aVer
      PROVE  Goal
  BY <1>1, <1>2, QuietKeepsVersions
<1>3. ASSUME NEW verified \in BOOLEAN, NEW email \in Emails, SignUp(verified, email)
      PROVE  Goal
  <2>1. /\ aState = "none" /\ hook'.step = "read" /\ hook'.kind = "created" /\ outbox' = outbox
        /\ aVer = 0 /\ aVer' = 1
    BY <1>3 DEF SignUp, NoHook, queueVars, IInv, AccountInv
  <2>2. \A e : ~Known(e)
    BY <2>1, KnownFacts
  <2>3. \A e : ~Known(e)'
    BY <1>1, <2>1, <2>2, AuthKnown
  <2>4. VersionInv'
    BY <2>3 DEF VersionInv
  <2> QED
    BY <2>1, <2>4
<1>4. ASSUME VerifyEmail \/ ToggleMfa \/ \E email \in Emails : ChangeEmail(email)
      PROVE  Goal
  <2>1. UNCHANGED <<outbox, aVer, aState>> /\ (hook'.kind # "email" \/ hook'.step = "revoke")
    BY <1>4 DEF VerifyEmail, ToggleMfa, ChangeEmail, queueVars, NoHook
  <2> QED
    BY <1>2, <2>1
<1>5. ASSUME GraceElapses \/ SignInCheck \/ SignInInsert \/ MintToken PROVE Goal
  <2>1. UNCHANGED <<outbox, aVer, aState, hook>>
    BY <1>5 DEF GraceElapses, SignInCheck, SignInInsert, MintToken, queueVars, authVars, memoryVars
  <2> QED
    BY <1>2, <2>1
<1>6. ASSUME HookGiveUp \/ Crash PROVE Goal
  <2>1. UNCHANGED <<outbox, aVer, aState>> /\ hook'.kind # "email"
    BY <1>6 DEF HookGiveUp, Crash, queueVars, authVars, NoHook
  <2> QED
    BY <1>2, <2>1
<1>7. ASSUME HookAwait PROVE Goal
  <2>1. UNCHANGED <<outbox, aVer, aState>> /\ hook.step = "await" /\ hook'.step = "read"
    BY <1>7 DEF HookAwait, queueVars, authVars, IInv, TypeOK
  <2>2. hook.kind = "email"
    BY <2>1 DEF IInv, AccountInv
  <2> QED
    BY <1>2, <2>1, <2>2
<1>8. ASSUME HookRead PROVE Goal
  <2>1. /\ UNCHANGED <<outbox, aVer, aState>>
        /\ hook.step = "read" /\ hook'.step = "queue" /\ hook'.ver = aVer /\ hook'.kind = hook.kind
    BY <1>8 DEF HookRead, queueVars, authVars, IInv, TypeOK
  <2> QED
    BY <1>2, <2>1
<1>9. ASSUME NEW entries, entries \subseteq outbox,
             NEW type \in Raising, NEW arg, NextVersion(entries, type, arg),
             \A e : e.type = type /\ e.arg = arg /\ type \in Lifecycle => Announced(e) = aState',
             aState = "deleted" => aState' = "deleted" /\ type \notin Lifecycle,
             type = "auth_pseudonymized" => aState' = "deleted",
             hook' = hook \/ hook' = NoHook \/ hook'.step = "await"
      PROVE  Goal
  BY <1>1, <1>9, RaisingKeepsVersions
<1>10. ASSUME RevokeSessions \/ HookRevoke PROVE Goal
  <2>1. /\ NextVersion(outbox, "sessions_revoked", "nothing") /\ aState' = aState
        /\ hook' = hook \/ hook'.step = "await"
    BY <1>10 DEF RevokeSessions, HookRevoke, memoryVars, IInv, TypeOK
  <2>2. "sessions_revoked" \in Raising /\ "sessions_revoked" \notin Lifecycle
    BY DEF Raising, Lifecycle
  <2> QED
    BY <1>9, <2>1, <2>2
<1>11. ASSUME HookRecordMfa PROVE Goal
  <2>1. PICK type \in {"mfa_configured", "mfa_disabled"} : NextVersion(outbox, type, "nothing")
    BY <1>11 DEF HookRecordMfa, IInv, AccountInv
  <2>2. hook' = NoHook /\ aState' = aState
    BY <1>11 DEF HookRecordMfa
  <2>3. type \in Raising /\ type \notin Lifecycle
    BY <2>1 DEF Raising, Lifecycle
  <2> QED
    BY <1>9, <2>1, <2>2, <2>3
<1>12. ASSUME NEW suspended \in BOOLEAN, SetSuspended(suspended) PROVE Goal
  <2>1. /\ NextVersion(outbox, "account_state_changed", aState') /\ hook' = hook
        /\ aState # "deleted"
    BY <1>12 DEF SetSuspended, memoryVars
  <2>2. "account_state_changed" \in Raising
    BY DEF Raising, Lifecycle
  <2>3. \A e : e.type = "account_state_changed" /\ e.arg = aState' => Announced(e) = aState'
    BY DEF Announced
  <2> QED
    BY <1>9, <2>1, <2>2, <2>3
<1>13. ASSUME RequestDeletion PROVE Goal
  <2>1. /\ NextVersion(outbox, "deletion_requested", "nothing") /\ hook' = hook
        /\ aState # "deleted" /\ aState' = "deletion_pending"
    BY <1>13 DEF RequestDeletion, memoryVars
  <2>2. "deletion_requested" \in Raising
    BY DEF Raising, Lifecycle
  <2>3. \A e : e.type = "deletion_requested" => Announced(e) = aState'
    BY <2>1 DEF Announced
  <2> QED
    BY <1>9, <2>1, <2>2, <2>3
<1>14. ASSUME CancelDeletion \/ CancelDeletionWithRecoveryToken PROVE Goal
  <2>1. /\ NextVersion(outbox, "deletion_cancelled", "nothing") /\ hook' = hook
        /\ aState # "deleted" /\ aState' = "active"
    BY <1>14 DEF CancelDeletion, CancelDeletionWithRecoveryToken, Recoverable, memoryVars
  <2>2. "deletion_cancelled" \in Raising
    BY DEF Raising, Lifecycle
  <2>3. \A e : e.type = "deletion_cancelled" => Announced(e) = aState'
    BY <2>1 DEF Announced
  <2> QED
    BY <1>9, <2>1, <2>2, <2>3
<1>15. ASSUME Pseudonymize PROVE Goal
  <2>1. /\ NextVersion({}, "auth_pseudonymized", "nothing") /\ hook' = hook
        /\ aState # "deleted" /\ aState' = "deleted"
    BY <1>15 DEF Pseudonymize, memoryVars
  <2>2. "auth_pseudonymized" \in Raising
    BY DEF Raising, Lifecycle
  <2>3. \A e : e.type = "auth_pseudonymized" => Announced(e) = aState'
    BY <2>1 DEF Announced
  <2> QED
    BY <1>9, <2>1, <2>2, <2>3
<1>16. ASSUME HookQueue PROVE Goal
  <2> DEFINE new == [id |-> nextId, type |-> HookEvent[hook.kind], ver |-> hook.ver,
                     arg |-> hook.arg, email |-> hook.email]
  <2>1. /\ outbox' = outbox \cup {new} /\ hook.step = "queue" /\ hook' = NoHook
        /\ UNCHANGED <<aVer, aState>>
    BY <1>16 DEF HookQueue, Enqueue, authVars
  <2>2. hook.kind \in {"created", "verified", "email"}
    BY <2>1 DEF IInv, AccountInv
  <2>3. /\ new.type \notin Raising /\ new.ver = hook.ver
        /\ NewEmail(new) => hook.kind = "email"
    BY <2>2 DEF HookEvent, Raising, Lifecycle, NewEmail
  <2> HIDE DEF new
  <2>4. \A e : Known(e)' => Known(e) \/ e = new
    BY <1>1, <2>1, AuthKnown
  <2>5. Lifecycle \subseteq Raising /\ \A e : Erasure(e) => e.type \in Lifecycle
    BY DEF Raising, Lifecycle, Erasure
  <2>6. ASSUME NEW e, NEW o, Known(e)', Known(o)', NewEmail(e), NewEmail(o), e.ver = o.ver
        PROVE  e = o
    <3>1. \A x : Known(x) /\ NewEmail(x) /\ NewEmail(new) => x.ver < hook.ver /\ x.ver \in Nat
      BY <2>1, <2>3, KnownFacts DEF VersionInv
    <3>2. hook.ver \in Nat
      BY DEF IInv, TypeOK
    <3>3. \A x : Known(x) /\ NewEmail(x) /\ NewEmail(new) => x.ver # new.ver
      BY <2>3, <3>1, <3>2
    <3> QED
      BY <2>4, <2>6, <3>3 DEF VersionInv
  <2>7. \A e, o : Known(e)' /\ Known(o)' /\ {e.type, o.type} \subseteq Raising /\ e.ver = o.ver => e = o
    BY <2>3, <2>4 DEF VersionInv
  <2>8. \A e : Known(e)' /\ e.type \in Lifecycle => Known(e)
    BY <2>3, <2>4, <2>5
  <2>9. VersionInv'
    BY <2>1, <2>5, <2>6, <2>7, <2>8 DEF VersionInv, Erasure, NewEmail, Announced, NoHook
  <2>10. \A e \in outbox' \ outbox : e.type \notin Lifecycle
    BY <2>1, <2>3, <2>5
  <2> QED
    BY <2>1, <2>9, <2>10
<1> QED
  BY <1>3, <1>4, <1>5, <1>6, <1>7, <1>8, <1>10, <1>11, <1>12, <1>13, <1>14, <1>15, <1>16
  DEF Account, Hook

(* A delivery makes nothing known and leaves the account as it is. *)
LEMMA DeliveryKeepsVersions ==
  ASSUME IInv, VersionInv, NEW h \in Handlers,
         (\E e \in outbox : Post(h, e)) \/ Handle(h) \/ Acknowledge(h) \/ Lose(h)
  PROVE  VersionInv' /\ AuthUnchanged /\ \A e : Known(e)' => Known(e)
<1>1. AuthUnchanged
  BY DEF AuthUnchanged, Post, Handle, Acknowledge, Lose, InsertReceipt, SelectLink, NotFound,
         CreateIdentityUser, SkipStale, Apply, Commit
<1>2. /\ \A g \in Handlers \ {h} : handler'[g] = handler[g]
      /\ handler'[h].pc # "idle" =>
           handler'[h].ev \in outbox \/ (handler[h].pc # "idle" /\ handler'[h].ev = handler[h].ev)
  <2>1. ASSUME NEW e \in outbox, Post(h, e) PROVE <1>2!1 /\ handler'[h].ev \in outbox
    BY <2>1 DEF Post, Idle, IInv, TypeOK
  <2>2. ASSUME Acknowledge(h) \/ Lose(h) \/ NotFound(h) PROVE <1>2!1 /\ handler'[h].pc = "idle"
    BY <2>2 DEF Acknowledge, Lose, NotFound, Idle, IInv, TypeOK
  <2>3. ASSUME InsertReceipt(h) \/ SelectLink(h)
        PROVE  <1>2!1 /\ handler[h].pc # "idle" /\ handler'[h].ev = handler[h].ev
    BY <2>3 DEF InsertReceipt, SelectLink, IInv, TypeOK
  <2>4. ASSUME Commit(h), handler[h].pc = "waiting"
        PROVE  <1>2!1 /\ handler[h].pc # "idle" /\ handler'[h].ev = handler[h].ev
    BY <2>4 DEF Commit, Idle, IInv, TypeOK
  <2> QED
    BY <2>1, <2>2, <2>3, <2>4 DEF Handle, CreateIdentityUser, SkipStale, Apply
<1>3. \A e : Known(e)' => Known(e)
  <2> SUFFICES ASSUME NEW e, Known(e)' PROVE Known(e)
    OBVIOUS
  <2>1. outbox' = outbox
    BY <1>1 DEF AuthUnchanged, queueVars
  <2>2. CASE e \in outbox
    BY <2>2 DEF Known
  <2>3. CASE e \notin outbox
    <3>1. PICK g \in Handlers : handler'[g].pc # "idle" /\ handler'[g].ev = e
      BY <2>1, <2>3 DEF Known
    <3> QED
      BY <1>2, <2>3, <3>1 DEF Known
  <2> QED
    BY <2>2, <2>3
<1>4. UNCHANGED <<aVer, aState, hook>>
  BY <1>1 DEF AuthUnchanged, authVars, memoryVars
<1>5. VersionInv'
  BY <1>3, <1>4 DEF VersionInv, Erasure, NewEmail, Announced
<1> QED
  BY <1>1, <1>3, <1>5

(* What a later event of the same version changes is something else. *)
LEMMA ApplyKeepsReflected ==
  ASSUME IInv, VersionInv, NEW h \in Handlers, handler[h].pc = "waiting",
         mState' = StateAfter(handler[h].ev), mLink' = LinkAfter(handler[h].ev),
         mEmail' = EmailAfter(handler[h].ev), mMfa' = MfaAfter(handler[h].ev),
         UNCHANGED <<aState, aVer>>,
         handler[h].ev.ver = aVer,
         NEW e \in outbox, e.ver = aVer, e = handler[h].ev \/ Reflected(e)
  PROVE  Reflected(e)'
<1> DEFINE ev == handler[h].ev
<1>1. Known(ev) /\ Known(e)
  BY DEF Known
<1>2. Lifecycle \subseteq Raising /\ {"mfa_configured", "mfa_disabled"} \subseteq Raising
  BY DEF Raising
<1>3. \A o : Known(o) /\ o.type \in Raising /\ e.type \in Raising /\ o.ver = aVer => o = e
  BY <1>1 DEF VersionInv
<1>4. ASSUME e.type \in Lifecycle PROVE mState' = aState
  <2>1. CASE ev = e
    <3>1. Announced(e) = aState
      BY <1>1, <1>4 DEF VersionInv
    <3>2. mState' = Announced(e)
      BY <1>4, <2>1 DEF StateAfter, Announced, Lifecycle
    <3> QED
      BY <3>1, <3>2
  <2>2. CASE ev # e
    <3>1. ev.type \notin Lifecycle
      BY <1>1, <1>2, <1>3, <1>4, <2>2
    <3>2. mState' = mState
      BY <3>1 DEF StateAfter, Lifecycle
    <3> QED
      BY <1>4, <2>2, <3>2 DEF Reflected
  <2> QED
    BY <2>1, <2>2
<1> SUFFICES ASSUME aState # "deleted"
             PROVE  /\ e.type = "mfa_configured" => mMfa'
                    /\ e.type = "mfa_disabled" => ~mMfa'
                    /\ e.type = "email_changed" => mEmail' = e.email
                    /\ e.type = "email_verified" => mLink' = "active"
  BY <1>4 DEF Reflected
<1>5. ~Erasure(ev)
  BY <1>1 DEF VersionInv
<1>6. ASSUME e.type = "mfa_configured" PROVE mMfa'
  <2>1. ev.type # "mfa_disabled"
    BY <1>1, <1>2, <1>3, <1>6
  <2>2. CASE ev = e
    BY <1>6, <2>2, Zenon DEF MfaAfter
  <2>3. CASE ev # e
    <3>1. mMfa
      BY <1>6, <2>3 DEF Reflected
    <3>2. MfaAfter(ev)
      BY <2>1, <3>1, Zenon DEF MfaAfter
    <3> QED
      BY <3>2, Zenon
  <2> QED
    BY <2>2, <2>3
<1>7. ASSUME e.type = "mfa_disabled" PROVE ~mMfa'
  <2>1. ev.type # "mfa_configured"
    BY <1>1, <1>2, <1>3, <1>7
  <2>2. CASE ev = e
    BY <1>7, <2>2 DEF MfaAfter
  <2>3. CASE ev # e
    <3>1. ~mMfa
      BY <1>7, <2>3 DEF Reflected
    <3>2. MfaAfter(ev) = IF ev.type = "mfa_disabled" THEN FALSE ELSE mMfa
      BY <2>1 DEF MfaAfter
    <3> QED
      BY <3>1, <3>2
  <2> QED
    BY <2>2, <2>3
<1>8. ASSUME e.type = "email_changed" PROVE mEmail' = e.email
  <2>1. CASE ev = e
    BY <1>8, <2>1 DEF EmailAfter
  <2>2. CASE ev # e
    <3>1. ~NewEmail(ev)
      BY <1>1, <1>8, <2>2 DEF VersionInv, NewEmail
    <3>2. mEmail' = mEmail
      BY <1>5, <3>1 DEF EmailAfter, NewEmail, Erasure
    <3> QED
      BY <1>8, <2>2, <3>2 DEF Reflected
  <2> QED
    BY <2>1, <2>2
<1>9. ASSUME e.type = "email_verified" PROVE mLink' = "active"
  <2>1. CASE ev = e
    BY <1>9, <2>1 DEF LinkAfter
  <2>2. CASE ev # e
    <3>1. mLink = "active"
      BY <1>9, <2>2 DEF Reflected
    <3> QED
      BY <1>5, <3>1 DEF LinkAfter, Erasure
  <2> QED
    BY <2>1, <2>2
<1> QED
  BY <1>6, <1>7, <1>8, <1>9

(* An applied event: its snapshot is the mirror, so it is not older. *)
LEMMA ApplyKeepsSerial ==
  ASSUME \A g, h \in Handlers : g = h, SerialInv, NEW h \in Handlers, Apply(h)
  PROVE  /\ ErasedInv'
         /\ \A e \in outbox' : e.id \in receipts' /\ e.ver = aVer' => Reflected(e)'
<1> DEFINE ev == handler[h].ev
<1>1. /\ handler[h].pc = "waiting" /\ handler[h].found /\ ev.ver >= handler[h].ver
      /\ mState' = StateAfter(ev) /\ mLink' = LinkAfter(ev)
      /\ mEmail' = EmailAfter(ev) /\ mMfa' = MfaAfter(ev)
      /\ mErased' = (mErased \/ Erasure(ev))
      /\ mVer' = IF ev.ver > mVer THEN ev.ver ELSE mVer
      /\ receipts' = receipts \cup {ev.id}
  BY DEF Apply, Commit, Erasure
<1>2. handler[h].ver = mVer /\ mLink # "absent" /\ IInv /\ VersionInv /\ ErasedInv
  BY <1>1 DEF SerialInv
<1>3. Known(ev) /\ mVer \in Nat /\ mVer <= aVer /\ aVer \in Nat
  BY <1>1, <1>2 DEF Known, IInv, TypeOK, MirrorInv
<1>4. ev.ver \in Nat /\ ev.ver <= aVer
  BY <1>2, <1>3, KnownFacts
<1>5. mVer' = ev.ver /\ ev.ver >= mVer
  BY <1>1, <1>2, <1>3, <1>4
<1>6. UNCHANGED <<aState, aVer, outbox>> /\ \A e : Known(e)' => Known(e)
  BY <1>2, DeliveryKeepsVersions DEF Handle, AuthUnchanged, authVars, queueVars
<1>7. \A e : Known(e) => e.ver \in Nat
  BY <1>2, KnownFacts
<1>8. ASSUME mErased' /\ ~Erasure(ev) PROVE mErased /\ mState' = mState
  <2>1. mErased
    BY <1>1, <1>8
  <2>2. ev.type \notin Lifecycle
    BY <1>2, <1>3, <1>4, <1>5, <1>8, <2>1 DEF ErasedInv
  <2> QED
    BY <1>1, <2>1, <2>2 DEF StateAfter, Lifecycle
<1>9. ErasedInv'
  <2> SUFFICES ASSUME mErased'
               PROVE  /\ aState' = "deleted" /\ mState' = "deleted" /\ mLink' # "absent"
                      /\ \A e : Known(e)' /\ e.type \in Lifecycle /\ ~Erasure(e) => e.ver < mVer'
    BY DEF ErasedInv, Erasure
  <2>1. mLink' # "absent"
    BY <1>1, <1>2 DEF LinkAfter
  <2>2. CASE Erasure(ev)
    <3>1. aState = "deleted" /\ mState' = "deleted"
      BY <1>1, <1>2, <1>3, <2>2 DEF VersionInv, Erasure, StateAfter
    <3>2. ASSUME NEW e, Known(e), e.type \in Lifecycle, ~Erasure(e) PROVE e.ver < ev.ver
      <4>1. e.ver <= ev.ver
        BY <1>2, <1>3, <2>2, <3>2 DEF VersionInv
      <4>2. e.ver # ev.ver
        BY <1>2, <1>3, <2>2, <3>2 DEF VersionInv, Raising, Lifecycle, Erasure
      <4> QED
        BY <1>4, <1>7, <3>2, <4>1, <4>2
    <3> QED
      BY <1>5, <1>6, <2>1, <3>1, <3>2
  <2>3. CASE ~Erasure(ev)
    <3>1. mErased /\ mState' = mState
      BY <1>8, <2>3
    <3>2. \A e : Known(e) /\ e.type \in Lifecycle /\ ~Erasure(e) => e.ver < mVer'
      BY <1>2, <1>3, <1>4, <1>5, <1>7, <3>1 DEF ErasedInv
    <3> QED
      BY <1>2, <1>6, <2>1, <3>1, <3>2 DEF ErasedInv
  <2> QED
    BY <2>2, <2>3
<1>10. ASSUME NEW e \in outbox, e.id \in receipts', e.ver = aVer PROVE Reflected(e)'
  <2>1. e = ev \/ e.id \in receipts
    BY <1>1, <1>2, <1>10 DEF IInv, EventInv
  <2>2. CASE e = ev
    BY <1>1, <1>2, <1>6, <1>10, <2>2, ApplyKeepsReflected
  <2>3. CASE e.id \in receipts
    <3>1. Reflected(e)
      BY <1>10, <2>3 DEF SerialInv
    <3>2. aVer <= mVer
      BY <1>2, <1>10, <2>3 DEF IInv, ReceiptInv
    <3>3. ev.ver = aVer
      BY <1>3, <1>4, <1>5, <3>2
    <3> QED
      BY <1>1, <1>2, <1>6, <1>10, <3>1, <3>3, ApplyKeepsReflected
  <2> QED
    BY <2>1, <2>2, <2>3
<1> QED
  BY <1>6, <1>9, <1>10

(* The announcement of the account: nothing else is mirrored yet. *)
LEMMA CreateKeepsSerial ==
  ASSUME SerialInv, NEW h \in Handlers, CreateIdentityUser(h)
  PROVE  /\ ErasedInv' /\ ~mErased
         /\ \A e \in outbox' : e.id \in receipts' /\ e.ver = aVer' => Reflected(e)'
<1> DEFINE ev == handler[h].ev
<1>1. /\ handler[h].pc = "waiting" /\ ~handler[h].found /\ ev.type = "auth_user_created"
      /\ mErased' = mErased /\ receipts' = receipts \cup {ev.id}
  BY DEF CreateIdentityUser, Commit
<1>2. mLink = "absent" /\ IInv /\ VersionInv /\ ErasedInv
  BY <1>1 DEF SerialInv
<1>3. mVer = 0 /\ ~mErased
  BY <1>2 DEF IInv, MirrorInv, ErasedInv
<1>4. outbox' = outbox
  BY <1>2, DeliveryKeepsVersions DEF Handle, AuthUnchanged, queueVars
<1>5. ASSUME NEW e \in outbox, e.id \in receipts' PROVE Reflected(e)'
  <2>1. e.id \notin receipts
    <3>1. e.ver >= 1 /\ e.ver \in Nat
      BY <1>2, KnownFacts DEF Known
    <3> QED
      BY <1>2, <1>3, <3>1 DEF IInv, ReceiptInv
  <2>2. e = ev
    BY <1>1, <1>2, <1>5, <2>1 DEF IInv, EventInv
  <2> QED
    BY <1>1, <2>2 DEF Reflected, Lifecycle
<1> QED
  BY <1>1, <1>3, <1>4, <1>5 DEF ErasedInv

(* With one transaction at a time the invariant is inductive. *)
LEMMA SerialStep ==
  ASSUME \A g, h \in Handlers : g = h, SerialInv, [Next]_vars
  PROVE  SerialInv'
<1>1. IInv /\ IInv' /\ VersionInv /\ ErasedInv
  BY NextInv DEF SerialInv
<1> DEFINE Snapshots == \A h \in Handlers : handler[h].pc = "waiting" =>
                          handler[h].ver = mVer /\ (handler[h].found <=> mLink # "absent")
           Shown == \A e \in outbox : e.id \in receipts /\ e.ver = aVer => Reflected(e)
<1>2. Snapshots /\ Shown
  BY DEF SerialInv
<1>3. ASSUME VersionInv', Snapshots', ErasedInv', Shown' PROVE SerialInv'
  BY <1>1, <1>3 DEF SerialInv
<1> HIDE DEF Snapshots, Shown
<1>5. CASE Account \/ Hook \/ Crash
  <2>1. /\ VersionInv' /\ (aVer' = aVer => aState' = aState)
        /\ aState = "deleted" =>
             aState' = "deleted" /\ \A e \in outbox' \ outbox : e.type \notin Lifecycle
    BY <1>1, <1>5, AuthKeepsVersions
  <2>2. AuthEffect
    BY <1>1, <1>5, AuthStep DEF IInv
  <2>3. UNCHANGED <<mLink, mState, mVer, mMfa, mEmail, mErased, receipts, handler>>
    BY <2>2 DEF AuthEffect, mirrorVars
  <2>4. Snapshots'
    BY <1>2, <2>3 DEF Snapshots
  <2>5. ErasedInv'
    <3> SUFFICES ASSUME mErased
                 PROVE  /\ aState' = "deleted" /\ mState' = "deleted" /\ mLink' # "absent"
                        /\ \A e : Known(e)' /\ e.type \in Lifecycle /\ ~Erasure(e) => e.ver < mVer'
      BY <2>3 DEF ErasedInv, Erasure
    <3>1. aState = "deleted"
      BY <1>1 DEF ErasedInv
    <3>2. \A e : Known(e)' /\ e.type \in Lifecycle => Known(e)
      BY <2>1, <2>2, <3>1, AuthKnown
    <3> QED
      BY <1>1, <2>1, <2>3, <3>1, <3>2 DEF ErasedInv
  <2>6. ASSUME NEW e \in outbox', e.id \in receipts', e.ver = aVer' PROVE Reflected(e)'
    <3>1. e \in outbox /\ e.ver <= mVer
      <4>1. e.id # nextId
        BY <1>1, <2>3, <2>6 DEF IInv, ReceiptInv, TypeOK
      <4>2. e \in outbox
        BY <2>2, <2>6, <4>1 DEF AuthEffect, QueueEffect, Fresh
      <4> QED
        BY <1>1, <2>3, <2>6, <4>2 DEF IInv, ReceiptInv
    <3>2. mVer <= aVer /\ aVer <= aVer' /\ aVer \in Nat /\ aVer' \in Nat /\ mVer \in Nat
      BY <1>1, <2>2 DEF IInv, MirrorInv, TypeOK, AuthEffect, QueueEffect
    <3>3. aVer' = aVer /\ aState' = aState
      BY <2>1, <2>6, <3>1, <3>2
    <3>4. Reflected(e)
      BY <1>2, <2>3, <2>6, <3>1, <3>3 DEF Shown
    <3> QED
      BY <2>3, <3>3, <3>4 DEF Reflected
  <2>7. Shown'
    BY <2>6 DEF Shown
  <2> QED
    BY <1>3, <2>1, <2>3, <2>4, <2>5, <2>7
<1>6. ASSUME NEW h \in Handlers,
             (\E e \in outbox : Post(h, e)) \/ Handle(h) \/ Acknowledge(h) \/ Lose(h)
      PROVE  SerialInv'
  <2>1. VersionInv' /\ UNCHANGED <<aVer, aState, outbox>> /\ \A e : Known(e)' => Known(e)
    BY <1>1, <1>6, DeliveryKeepsVersions DEF AuthUnchanged, authVars, queueVars
  <2>2. \A g \in Handlers : g = h
    OBVIOUS
  <2>3. ASSUME UNCHANGED mirrorVars PROVE ErasedInv'
    BY <1>1, <2>1, <2>3 DEF mirrorVars, ErasedInv, Erasure
  <2>4. ASSUME UNCHANGED <<mirrorVars, receipts>> PROVE Shown'
    BY <1>2, <2>1, <2>4 DEF mirrorVars, Shown, Reflected
  <2>5. ASSUME handler'[h].pc # "waiting" PROVE Snapshots'
    BY <2>2, <2>5 DEF Snapshots
  <2>6. ASSUME Commit(h) PROVE handler'[h].pc # "waiting"
    BY <1>1, <2>6 DEF Commit, Idle, IInv, TypeOK
  <2>7. ASSUME \/ \E e \in outbox : Post(h, e)
               \/ Acknowledge(h) \/ Lose(h) \/ NotFound(h) \/ InsertReceipt(h)
        PROVE  UNCHANGED <<mirrorVars, receipts>> /\ handler'[h].pc # "waiting"
    <3>1. UNCHANGED <<mirrorVars, receipts>>
      BY <2>7 DEF Post, Acknowledge, Lose, NotFound, InsertReceipt
    <3>2. CASE \E e \in outbox : Post(h, e)
      BY <1>1, <3>2 DEF Post, Idle, IInv, TypeOK
    <3>3. CASE Acknowledge(h) \/ Lose(h) \/ NotFound(h)
      BY <1>1, <3>3 DEF Acknowledge, Lose, NotFound, Idle, IInv, TypeOK
    <3>4. CASE InsertReceipt(h)
      BY <1>1, <3>4 DEF InsertReceipt, IInv, TypeOK
    <3> QED
      BY <2>7, <3>1, <3>2, <3>3, <3>4
  <2>8. CASE \/ \E e \in outbox : Post(h, e)
             \/ Acknowledge(h) \/ Lose(h) \/ NotFound(h) \/ InsertReceipt(h)
    BY <1>3, <2>1, <2>3, <2>4, <2>5, <2>7, <2>8 DEF mirrorVars
  <2>9. CASE SelectLink(h)
    <3>1. /\ UNCHANGED <<mirrorVars, receipts>>
          /\ handler'[h].ver = mVer /\ handler'[h].found = (mLink # "absent")
      BY <1>1, <2>9 DEF SelectLink, IInv, TypeOK
    <3>2. Snapshots'
      BY <2>2, <3>1 DEF Snapshots, mirrorVars
    <3> QED
      BY <1>3, <2>1, <2>3, <2>4, <3>1, <3>2 DEF mirrorVars
  <2>10. CASE SkipStale(h)
    <3>1. /\ Commit(h) /\ UNCHANGED mirrorVars /\ handler[h].pc = "waiting"
          /\ handler[h].ev.ver < handler[h].ver /\ receipts' = receipts \cup {handler[h].ev.id}
      BY <2>10 DEF SkipStale, Commit
    <3>2. handler[h].ev.ver # aVer
      <4>1. Known(handler[h].ev) /\ handler[h].ver = mVer
        BY <1>2, <3>1 DEF Known, Snapshots
      <4>2. mVer <= aVer /\ mVer \in Nat /\ aVer \in Nat
        BY <1>1 DEF IInv, MirrorInv, TypeOK
      <4> QED
        BY <1>1, <3>1, <4>1, <4>2, KnownFacts
    <3>3. \A e \in outbox : e.id \in receipts' /\ e.ver = aVer => e.id \in receipts
      BY <1>1, <3>1, <3>2 DEF IInv, EventInv
    <3>4. Shown'
      BY <1>2, <2>1, <3>1, <3>3 DEF mirrorVars, Shown, Reflected
    <3> QED
      BY <1>3, <2>1, <2>3, <2>5, <2>6, <3>1, <3>4 DEF mirrorVars
  <2>11. CASE CreateIdentityUser(h)
    <3>1. ErasedInv' /\ ~mErased /\ Shown'
      BY <2>11, CreateKeepsSerial DEF Shown
    <3> QED
      BY <1>3, <2>1, <2>5, <2>6, <2>11, <3>1 DEF CreateIdentityUser
  <2>12. CASE Apply(h)
    <3>1. ErasedInv' /\ Shown'
      BY <2>12, ApplyKeepsSerial DEF Shown
    <3> QED
      BY <1>3, <2>1, <2>5, <2>6, <2>12, <3>1 DEF Apply
  <2> QED
    BY <1>6, <2>8, <2>9, <2>10, <2>11, <2>12 DEF Handle
<1>7. CASE Delivery
  BY <1>6, <1>7 DEF Delivery
<1>8. CASE UNCHANGED vars
  <2>1. UNCHANGED <<outbox, handler, hook, aVer, aState, receipts, mirrorVars>>
    BY <1>8 DEF vars, authVars, memoryVars, queueVars, apiVars
  <2>2. VersionInv'
    BY <1>1, <2>1 DEF VersionInv, Known, Erasure, NewEmail, Announced
  <2>3. ErasedInv' /\ Snapshots' /\ Shown'
    BY <1>1, <1>2, <2>1 DEF ErasedInv, Known, Erasure, Snapshots, Shown, Reflected, mirrorVars
  <2> QED
    BY <1>3, <2>1, <2>2, <2>3 DEF mirrorVars
<1> QED
  BY <1>5, <1>7, <1>8 DEF Next

(* The invariant of an API that handles one event at a time holds in every *)
(* reachable state.                                                        *)
THEOREM SerialInductive ==
  ASSUME \A g, h \in Handlers : g = h
  PROVE  Spec => []SerialInv
<1>1. ASSUME Init PROVE SerialInv
  <2>1. IInv
    BY <1>1, InitInv
  <2>2. \A e : ~Known(e)
    BY <1>1 DEF Init, Known, Idle
  <2>3. VersionInv /\ ErasedInv
    BY <1>1, <2>2 DEF Init, VersionInv, ErasedInv
  <2> QED
    BY <1>1, <2>1, <2>3 DEF Init, SerialInv, Idle
<1>2. SerialInv /\ [Next]_vars => SerialInv'
  BY SerialStep
<1> QED
  BY <1>1, <1>2, PTL DEF Spec

(* What is left of an erasure whatever is stale: every other event about   *)
(* the account's state that can still be posted is older than the mirror.  *)
GoneInv ==
  /\ IInv /\ VersionInv
  /\ mErased =>
       /\ aState = "deleted" /\ mLink # "absent"
       /\ \A e : Known(e) /\ e.type \in Lifecycle /\ ~Erasure(e) => e.ver < mVer

(* What a step of any number of transactions may do to an erased account. *)
StaleOnly ==
  mErased =>
    /\ mErased'
    /\ mState' \notin {mState, "deleted"} =>
         \E h \in Handlers : Apply(h) /\ handler[h].ver < mVer

LEMMA ApplyKeepsGone ==
  ASSUME GoneInv, NEW h \in Handlers, Apply(h)
  PROVE  GoneInv' /\ StaleOnly
<1> DEFINE ev == handler[h].ev
<1>1. /\ handler[h].pc = "waiting" /\ handler[h].found /\ ev.ver >= handler[h].ver
      /\ mState' = StateAfter(ev) /\ mLink' = LinkAfter(ev)
      /\ mErased' = (mErased \/ Erasure(ev))
      /\ mVer' = IF ev.ver > mVer THEN ev.ver ELSE mVer
  BY DEF Apply, Erasure
<1>2. IInv /\ VersionInv /\ Known(ev) /\ mLink # "absent" /\ handler[h].ver <= mVer
  BY <1>1 DEF GoneInv, Known, IInv, MirrorInv
<1>3. /\ mVer \in Nat /\ ev.ver \in Nat /\ handler[h].ver \in Nat
      /\ \A e : Known(e) => e.ver \in Nat
  BY <1>2, KnownFacts DEF IInv, TypeOK
<1>4. IInv' /\ VersionInv' /\ UNCHANGED <<aState, aVer, outbox>> /\ \A e : Known(e)' => Known(e)
  <2>1. Next
    BY DEF Next, Delivery, Handle
  <2> QED
    BY <1>2, <2>1, NextInv, DeliveryKeepsVersions DEF Handle, AuthUnchanged, authVars, queueVars
<1>5. mVer' \in Nat /\ mVer' >= mVer /\ mVer' >= ev.ver
  BY <1>1, <1>3
<1>6. mLink' # "absent"
  BY <1>1, <1>2 DEF LinkAfter
<1>7. ASSUME Erasure(ev)
      PROVE  aState = "deleted" /\ \A e : Known(e) /\ e.type \in Lifecycle /\ ~Erasure(e) => e.ver < ev.ver
  <2>1. aState = "deleted"
    BY <1>2, <1>7 DEF VersionInv
  <2>2. ASSUME NEW e, Known(e), e.type \in Lifecycle, ~Erasure(e) PROVE e.ver < ev.ver
    <3>1. e.ver <= ev.ver
      BY <1>2, <1>7, <2>2 DEF VersionInv
    <3>2. e.ver # ev.ver
      BY <1>2, <1>7, <2>2 DEF VersionInv, Raising, Lifecycle, Erasure
    <3> QED
      BY <1>3, <2>2, <3>1, <3>2
  <2> QED
    BY <2>1, <2>2
<1>8. ASSUME mErased' PROVE aState = "deleted"
  BY <1>1, <1>7, <1>8 DEF GoneInv
<1>9. ASSUME mErased', NEW e, Known(e), e.type \in Lifecycle, ~Erasure(e) PROVE e.ver < mVer'
  <2>1. e.ver \in Nat
    BY <1>3, <1>9
  <2>2. CASE Erasure(ev)
    BY <1>3, <1>5, <1>7, <1>9, <2>1, <2>2
  <2>3. CASE ~Erasure(ev)
    <3>1. mErased
      BY <1>1, <1>9, <2>3
    <3>2. e.ver < mVer
      BY <1>9, <3>1 DEF GoneInv
    <3> QED
      BY <1>3, <1>5, <2>1, <3>2
  <2> QED
    BY <2>2, <2>3
<1>10. GoneInv'
  <2>1. ASSUME mErased', NEW e, Known(e)', e.type \in Lifecycle, ~Erasure(e) PROVE e.ver < mVer'
    BY <1>4, <1>9, <2>1
  <2> QED
    BY <1>4, <1>6, <1>8, <2>1 DEF GoneInv, Erasure
<1>11. ASSUME mErased, mState' \notin {mState, "deleted"} PROVE handler[h].ver < mVer
  <2>1. ev.type \in Lifecycle /\ ~Erasure(ev)
    BY <1>1, <1>11 DEF StateAfter, Lifecycle, Erasure
  <2>2. ev.ver < mVer
    BY <1>2, <1>11, <2>1 DEF GoneInv
  <2> QED
    BY <1>1, <1>3, <2>2
<1> QED
  BY <1>1, <1>10, <1>11 DEF StaleOnly

LEMMA StepKeepsGone == GoneInv /\ [Next]_vars => GoneInv' /\ StaleOnly
<1> SUFFICES ASSUME GoneInv, [Next]_vars PROVE GoneInv' /\ StaleOnly
  OBVIOUS
<1>1. IInv /\ IInv' /\ VersionInv
  BY NextInv DEF GoneInv
<1>2. ASSUME VersionInv', UNCHANGED <<aState, mirrorVars>>, \A e : Known(e)' => Known(e)
      PROVE  GoneInv' /\ StaleOnly
  BY <1>1, <1>2 DEF GoneInv, StaleOnly, mirrorVars, Erasure
<1>3. CASE Account \/ Hook \/ Crash
  <2>1. /\ VersionInv'
        /\ aState = "deleted" =>
             aState' = "deleted" /\ \A e \in outbox' \ outbox : e.type \notin Lifecycle
    BY <1>1, <1>3, AuthKeepsVersions
  <2>2. AuthEffect
    BY <1>1, <1>3, AuthStep DEF IInv
  <2>3. UNCHANGED <<mLink, mState, mVer, mErased>>
    BY <2>2 DEF AuthEffect, mirrorVars
  <2>4. ASSUME mErased, NEW e, Known(e)', e.type \in Lifecycle PROVE Known(e)
    BY <2>1, <2>2, <2>4, AuthKnown DEF GoneInv
  <2> QED
    BY <1>1, <2>1, <2>3, <2>4 DEF GoneInv, StaleOnly, Erasure
<1>4. ASSUME NEW h \in Handlers,
             (\E e \in outbox : Post(h, e)) \/ Handle(h) \/ Acknowledge(h) \/ Lose(h)
      PROVE  GoneInv' /\ StaleOnly
  <2>1. VersionInv' /\ UNCHANGED aState /\ \A e : Known(e)' => Known(e)
    BY <1>1, <1>4, DeliveryKeepsVersions DEF AuthUnchanged, authVars
  <2>2. CASE \/ (\E e \in outbox : Post(h, e)) \/ Acknowledge(h) \/ Lose(h)
             \/ InsertReceipt(h) \/ SelectLink(h) \/ NotFound(h) \/ SkipStale(h)
    <3>1. UNCHANGED mirrorVars
      BY <2>2 DEF Post, Acknowledge, Lose, InsertReceipt, SelectLink, NotFound, SkipStale
    <3> QED
      BY <1>2, <2>1, <3>1
  <2>3. CASE CreateIdentityUser(h)
    <3>1. ~mErased /\ mErased' = mErased
      <4>1. handler[h].ev.type = "auth_user_created" /\ ~handler[h].found
            /\ handler[h].pc = "waiting" /\ mErased' = mErased
        BY <2>3 DEF CreateIdentityUser
      <4>2. handler[h].ev.id \notin receipts
        BY <1>1, <4>1 DEF IInv, ReceiptInv, InTransaction
      <4>3. mLink = "absent"
        BY <1>1, <4>1, <4>2 DEF IInv, CreatedInv, Created
      <4> QED
        BY <4>1, <4>3 DEF GoneInv
    <3> QED
      BY <1>1, <2>1, <3>1 DEF GoneInv, StaleOnly
  <2>4. CASE Apply(h)
    BY <2>4, ApplyKeepsGone
  <2> QED
    BY <1>4, <2>2, <2>3, <2>4 DEF Handle
<1>5. CASE Delivery
  BY <1>4, <1>5 DEF Delivery
<1>6. CASE UNCHANGED vars
  <2>1. UNCHANGED <<outbox, handler, hook, aVer, aState, mirrorVars>>
    BY <1>6 DEF vars, authVars, memoryVars, queueVars, apiVars
  <2>2. VersionInv' /\ \A e : Known(e)' => Known(e)
    BY <1>1, <2>1 DEF VersionInv, Known, Erasure, NewEmail, Announced
  <2> QED
    BY <1>2, <2>1, <2>2
<1> QED
  BY <1>3, <1>5, <1>6 DEF Next

(* For any number of transactions at a time: once ApplyIdentityEvent has   *)
(* applied the erasure, only a transaction that had read an older version  *)
(* of the mirror can give the account another state.  Events posted before *)
(* the erasure and handled after it, repeated posts and events that a hook *)
(* queues later cannot.                                                    *)
THEOREM ErasureOutlastsEvents == Spec => OnlyStaleReadersUndoErasure
<1>1. ASSUME Init PROVE GoneInv
  <2>1. IInv
    BY <1>1, InitInv
  <2>2. \A e : ~Known(e)
    BY <1>1 DEF Init, Known, Idle
  <2> QED
    BY <1>1, <2>1, <2>2 DEF Init, GoneInv, VersionInv
<1>2. GoneInv /\ [Next]_vars => GoneInv'
  BY StepKeepsGone
<1>3. GoneInv /\ [Next]_vars =>
        [mErased => /\ mErased'
                    /\ mState' \notin {mState, "deleted"} =>
                         \E h \in Handlers : Apply(h) /\ handler[h].ver < mVer]_vars
  BY StepKeepsGone DEF StaleOnly
<1> QED
  BY <1>1, <1>2, <1>3, PTL DEF Spec, OnlyStaleReadersUndoErasure

(* While the API handles one event at a time, the mirror shows what an     *)
(* event of the newest security version says as soon as the outbox records *)
(* it as delivered (ApplyIdentityEvent and the outbox's acknowledgement).  *)
THEOREM NewestIsReflected ==
  ASSUME \A g, h \in Handlers : g = h
  PROVE  Spec => []NewestIsMirrored
<1>1. SerialInv => NewestIsMirrored
  <2> SUFFICES ASSUME SerialInv PROVE NewestIsMirrored
    OBVIOUS
  <2>1. \A e \in outbox : e.id \in delivered /\ e.ver = aVer => Reflected(e)
    BY DEF SerialInv, IInv, ReceiptInv
  <2> QED
    BY <2>1 DEF NewestIsMirrored, Reflected
<1> QED
  BY <1>1, SerialInductive, PTL
=============================================================================
