------------------------------ MODULE Invitations ------------------------------
(***************************************************************************)
(* Invitations to one season: the Go API keeps them, hands their messages  *)
(* to the authentication service's mail outbox, and enrols whoever accepts *)
(* one.  Meanwhile members are enrolled directly, addresses change, and the*)
(* season is closed, reopened and deleted.                                 *)
(*                                                                         *)
(* Every transaction here takes the season's row FOR UPDATE with its first *)
(* statement, and what else it decides on is read after that, by statements*)
(* with snapshots of their own or under locks: it is one action.  What a   *)
(* request does outside its transaction is an action of its own: the first *)
(* look at an invitation, the hand-over of the message, the receipt.       *)
(*                                                                         *)
(* A link stands for the token and the delivery id that are drawn together.*)
(* Names, roles, audit records and who may invite are left out.            *)
(***************************************************************************)
EXTENDS Integers, FiniteSets

CONSTANTS
  Invites,    \* ids of invitations
  Users,
  Emails,
  NoEmail,    \* any address that nobody invites
  NoUser,
  Tasks,      \* requests that may run at the same time
  MaxLinks    \* bound: links drawn

ASSUME LinksAssumption == MaxLinks \in Nat
ASSUME AddressAssumption == NoEmail \notin Emails /\ NoUser \notin Users

Links == 1..MaxLinks

(* An expired invitation is an open one whose expires_at has passed. *)
Statuses == {"open", "accepted", "cancelled"}

(* With the table's check that who accepted is there exactly if somebody did. *)
Rows == {row \in [email : Emails, status : Statuses, expired : BOOLEAN, link : Links,
                  sent : BOOLEAN, by : Users \cup {NoUser}] :
           row.status = "accepted" <=> row.by # NoUser}

Absent == [email |-> NoEmail, status |-> "none", expired |-> FALSE, link |-> 0,
           sent |-> FALSE, by |-> NoUser]

VARIABLES
  season,     \* "open", "closed" or "deleted"
  invite,     \* app.season_invitations
  contact,    \* the address of each account, user_contacts
  active,     \* the users whose account is active
  enrolled,   \* users with an enrollment in the season
  nextLink,
  queued,     \* links whose message is in the mail outbox: it may arrive at any time
  task,
  taken,      \* invitation, link and user of each acceptance (history)
  moved       \* those whose enrollment a correction has taken from the user (history)

history == <<taken, moved>>
vars == <<season, invite, contact, active, enrolled, nextLink, queued, task, history>>

(* user_contacts_email_unique *)
Unshared(addresses) ==
  \A u, v \in Users : u # v /\ addresses[u] = addresses[v] => addresses[u] = NoEmail

Idle == [pc |-> "idle", invite |-> "none", link |-> 0, user |-> NoUser]

(* "handoff": an invitation is committed, its message not handed over;     *)
(* "mark": it is, the receipt is not written; "accept": the link has been  *)
(* looked up, the transaction not begun.                                   *)
TaskStates == [pc : {"idle", "handoff", "mark", "accept"},
               invite : Invites \cup {"none"}, link : 0..MaxLinks,
               user : Users \cup {NoUser}]

TypeOK ==
  /\ season \in {"open", "closed", "deleted"}
  /\ invite \in [Invites -> Rows \cup {Absent}]
  /\ contact \in [Users -> Emails \cup {NoEmail}] /\ Unshared(contact)
  /\ active \subseteq Users /\ enrolled \subseteq Users
  /\ nextLink \in 1..(MaxLinks + 1)
  /\ queued \subseteq Links
  /\ task \in [Tasks -> TaskStates]
  /\ taken \subseteq [invite : Invites, link : Links, user : Users]
  /\ moved \subseteq taken

Init ==
  /\ season = "open"
  /\ invite = [i \in Invites |-> Absent]
  /\ contact \in {addresses \in [Users -> Emails \cup {NoEmail}] : Unshared(addresses)}
  /\ active = Users
  /\ enrolled = {}
  /\ nextLink = 1 /\ queued = {}
  /\ task = [t \in Tasks |-> Idle]
  /\ taken = {} /\ moved = {}

-----------------------------------------------------------------------------
(* lockOpenSeason *)
LocksOpenSeason == season = "open"

Open(i) == invite[i].status = "open"

(* No invitation to the address is open, expired or not: the unique index  *)
(* season_invitations_pending.                                             *)
NotPending(email) == \A i \in Invites : Open(i) => invite[i].email # email

NotMember(email) == \A u \in enrolled : contact[u] # email

(* The link is drawn and the row written; the message comes later. *)
Draw(t, i, row) ==
  /\ task[t] = Idle
  /\ nextLink <= MaxLinks
  /\ nextLink' = nextLink + 1
  /\ invite' = [invite EXCEPT ![i] = row]
  /\ task' = [task EXCEPT ![t] = [Idle EXCEPT !.pc = "handoff", !.invite = i,
                                              !.link = nextLink]]
  /\ UNCHANGED <<season, contact, active, enrolled, queued, history>>

CreateInvitation(t, i, email) ==
  /\ LocksOpenSeason
  /\ invite[i] = Absent
  /\ NotMember(email) /\ NotPending(email)
  /\ Draw(t, i, [email |-> email, status |-> "open", expired |-> FALSE,
                 link |-> nextLink, sent |-> FALSE, by |-> NoUser])

ResendInvitation(t, i) ==
  /\ LocksOpenSeason
  /\ Open(i)
  /\ Draw(t, i, [invite[i] EXCEPT !.link = nextLink, !.expired = FALSE, !.sent = FALSE])

CancelInvitation(i) ==
  /\ LocksOpenSeason
  /\ Open(i)
  /\ invite' = [invite EXCEPT ![i].status = "cancelled"]
  /\ UNCHANGED <<season, contact, active, enrolled, nextLink, queued, task, history>>

(* Seven days pass. *)
Expire(i) ==
  /\ Open(i) /\ ~invite[i].expired
  /\ invite' = [invite EXCEPT ![i].expired = TRUE]
  /\ UNCHANGED <<season, contact, active, enrolled, nextLink, queued, task, history>>

-----------------------------------------------------------------------------
(* The message                                                             *)

(* The authentication service queues it; its 202 arrives or is lost. *)
SendInvitation(t) ==
  /\ task[t].pc = "handoff"
  /\ queued' = queued \cup {task[t].link}
  /\ task' \in {[task EXCEPT ![t].pc = "mark"], [task EXCEPT ![t] = Idle]}
  /\ UNCHANGED <<season, invite, contact, active, enrolled, nextLink, history>>

(* Faulty variant: the receipt is written whichever delivery it is for. *)
MarkAnyDelivery(t) ==
  /\ task[t].pc = "mark"
  /\ invite' = [invite EXCEPT ![task[t].invite].sent = TRUE]
  /\ task' = [task EXCEPT ![t] = Idle]
  /\ UNCHANGED <<season, contact, active, enrolled, nextLink, queued, history>>

(* UPDATE ... WHERE delivery_id = $2: without effect if there is a newer. *)
MarkInvitationSent(t) ==
  /\ task[t].pc = "mark"
  /\ invite' = [invite EXCEPT ![task[t].invite].sent =
                  @ \/ invite[task[t].invite].link = task[t].link]
  /\ task' = [task EXCEPT ![t] = Idle]
  /\ UNCHANGED <<season, contact, active, enrolled, nextLink, queued, history>>

-----------------------------------------------------------------------------
(* Acceptance                                                              *)

Matches(i, link, u) ==
  /\ invite[i].link = link /\ Open(i)
  /\ u \in active /\ contact[u] = invite[i].email

(* InvitationForUser, outside the transaction and without a lock. *)
InvitationForUser(t, u, link) ==
  /\ task[t] = Idle
  /\ link \in queued
  /\ season # "deleted"
  /\ \E i \in Invites :
       /\ Matches(i, link, u) /\ ~invite[i].expired
       /\ task' = [task EXCEPT ![t] = [pc |-> "accept", invite |-> i, link |-> link,
                                       user |-> u]]
  /\ UNCHANGED <<season, invite, contact, active, enrolled, nextLink, queued, history>>

Enrol(t, i) ==
  /\ task[t].user \notin enrolled
  /\ enrolled' = enrolled \cup {task[t].user}
  /\ invite' = [invite EXCEPT ![i].status = "accepted", ![i].by = task[t].user]
  /\ taken' = taken \cup {[invite |-> i, link |-> task[t].link, user |-> task[t].user]}
  /\ task' = [task EXCEPT ![t] = Idle]
  /\ UNCHANGED <<season, contact, active, nextLink, queued, moved>>

(* Faulty variants: the transaction trusts what was looked up, but for the *)
(* state of the invitation; or it does not lock the season; or it looks at *)
(* the invitation again, but not at whether it is still open.              *)
AcceptWhatWasSeen(t) ==
  /\ task[t].pc = "accept"
  /\ LocksOpenSeason
  /\ Open(task[t].invite)
  /\ Enrol(t, task[t].invite)

AcceptInAnySeason(t) ==
  /\ task[t].pc = "accept"
  /\ \E i \in Invites : Matches(i, task[t].link, task[t].user) /\ Enrol(t, i)

AcceptCancelled(t) ==
  /\ task[t].pc = "accept"
  /\ LocksOpenSeason
  /\ \E i \in Invites :
       /\ invite[i].link = task[t].link
       /\ task[t].user \in active /\ contact[task[t].user] = invite[i].email
       /\ Enrol(t, i)

(* The time it compares expires_at with was taken when the request arrived,*)
(* so what had not expired then has not expired now.                       *)
AcceptInvitation(t) ==
  /\ task[t].pc = "accept"
  /\ LocksOpenSeason
  /\ \E i \in Invites : Matches(i, task[t].link, task[t].user) /\ Enrol(t, i)

(* The request fails: a conflict, no such invitation any more, an error of *)
(* the hand-over, a crash.                                                 *)
Fail(t) ==
  /\ task[t] # Idle
  /\ task' = [task EXCEPT ![t] = Idle]
  /\ UNCHANGED <<season, invite, contact, active, enrolled, nextLink, queued, history>>

-----------------------------------------------------------------------------
(* Around it                                                               *)

(* CreateEnrollment, by an administrator. *)
CreateEnrollment(u) ==
  /\ LocksOpenSeason
  /\ u \notin enrolled
  /\ enrolled' = enrolled \cup {u}
  /\ UNCHANGED <<season, invite, contact, active, nextLink, queued, task, history>>

(* The enrollment of a member who should not have it goes to another active*)
(* user or to another season, or to both; nothing is left of it here, so   *)
(* the member can be invited again.  (One that comes from another season is*)
(* like CreateEnrollment.)                                                 *)
CorrectEnrollment(u, others) ==
  /\ LocksOpenSeason
  /\ u \in enrolled
  /\ others \subseteq active \ enrolled
  /\ enrolled' = (enrolled \ {u}) \cup others
  /\ moved' = moved \cup {a \in taken : a.user = u}
  /\ UNCHANGED <<season, invite, contact, active, nextLink, queued, task, taken>>

(* An identity event: another address, or the account is suspended or      *)
(* active again.                                                           *)
ApplyIdentityEvent(u, email) ==
  /\ contact' = [contact EXCEPT ![u] = email] /\ Unshared(contact')
  /\ active' \in {active, active \ {u}, active \cup {u}}
  /\ <<contact', active'>> # <<contact, active>>
  /\ UNCHANGED <<season, invite, enrolled, nextLink, queued, task, history>>

CloseSeason == season = "open" /\ season' = "closed"
ReopenSeason == season = "closed" /\ season' = "open"

(* Neither an enrollment, removed ones included, nor an invitation that can*)
(* be accepted.                                                            *)
DeleteEmptySeason ==
  /\ season # "deleted"
  /\ enrolled = {}
  /\ \A i \in Invites : Open(i) => invite[i].expired
  /\ season' = "deleted"

Season ==
  /\ CloseSeason \/ ReopenSeason \/ DeleteEmptySeason
  /\ UNCHANGED <<invite, contact, active, enrolled, nextLink, queued, task, history>>

Next ==
  \/ \E t \in Tasks :
       \/ \E i \in Invites : ResendInvitation(t, i)
       \/ \E i \in Invites, email \in Emails : CreateInvitation(t, i, email)
       \/ SendInvitation(t) \/ MarkInvitationSent(t)
       \/ \E u \in Users, link \in Links : InvitationForUser(t, u, link)
       \/ AcceptInvitation(t) \/ Fail(t)
  \/ \E i \in Invites : CancelInvitation(i) \/ Expire(i)
  \/ \E u \in Users : CreateEnrollment(u)
  \/ \E u \in Users : CorrectEnrollment(u, {}) \/ \E v \in Users : CorrectEnrollment(u, {v})
  \/ \E u \in Users, email \in Emails \cup {NoEmail} : ApplyIdentityEvent(u, email)
  \/ Season

Spec == Init /\ [][Next]_vars

-----------------------------------------------------------------------------
(* Properties                                                              *)

(* An invitation "can be accepted once"; sending it again "gives it a new  *)
(* link and expiry and invalidates the old link", and so does cancelling   *)
(* it: however requests overlap, an acceptance is the only one of its      *)
(* invitation and of its newest link, and nothing that was cancelled is    *)
(* accepted.  Who has accepted is a member, and accepts nothing else, until*)
(* an administrator corrects the enrollment away: then they may be invited,*)
(* and accept, again.                                                      *)
AcceptedOnce ==
  /\ \A a, b \in taken : a.invite = b.invite => a = b
  /\ \A a, b \in taken \ moved : a.user = b.user => a = b
  /\ \A a \in taken \ moved : a.user \in enrolled
  /\ \A a \in taken :
       /\ invite[a.invite].status = "accepted" /\ invite[a.invite].by = a.user
       /\ invite[a.invite].link = a.link

(* A receipt is of the message with the link that works: an invitation     *)
(* that shows as sent has its current link in the mail outbox, whatever    *)
(* answer of an earlier delivery comes late.                               *)
SentIsCurrent ==
  \A i \in Invites : invite[i].sent => invite[i].link \in queued

(* Nobody is enrolled by an invitation to another address than the one     *)
(* that is theirs at that moment: not after a change of address, and not   *)
(* when the account is no longer active.                                   *)
AddresseeAccepts ==
  [][\A a \in taken' \ taken :
       a.user \in active /\ contact[a.user] = invite[a.invite].email]_vars

(* A deleted season has no members, and no invitation to it that anybody   *)
(* could still accept.                                                     *)
DeletedIsEmpty ==
  season = "deleted" =>
    enrolled = {} /\ \A i \in Invites : Open(i) => invite[i].expired
=============================================================================
