--------------------------- MODULE InvitationsProofs ---------------------------
(***************************************************************************)
(* Any number of invitations, users, addresses, links and overlapping      *)
(* requests: the invariants of Invitations, and that only the addressee is *)
(* enrolled.                                                               *)
(***************************************************************************)
EXTENDS Invitations, TLAPS

(* A request that is under way knows its invitation and its link; it writes*)
(* the receipt only of a message that has been handed over.                *)
TaskInv ==
  \A t \in Tasks :
    /\ task[t].pc # "idle" => task[t].invite \in Invites /\ task[t].link \in Links
    /\ task[t].pc = "mark" => task[t].link \in queued
    /\ task[t].pc = "accept" => task[t].user \in Users

IInv == TypeOK /\ TaskInv /\ AcceptedOnce /\ SentIsCurrent /\ DeletedIsEmpty

(* Row by row, what an operation writes to an invitation is an invitation. *)
LEMMA NoRow == Absent.status = "none" /\ Absent.sent = FALSE /\ Absent.expired = FALSE
  BY DEF Absent

LEMMA NoReceipt == [Absent EXCEPT !.sent = FALSE] = Absent
<1> DEFINE Nothing == [email : {NoEmail}, status : {"none"}, expired : {FALSE}, link : {0},
                       sent : {FALSE}, by : {NoUser}]
<1>1. Absent \in Nothing
  BY DEF Absent
<1>2. \A row \in Nothing : [row EXCEPT !.sent = FALSE] = row
  OBVIOUS
<1> QED  BY <1>1, <1>2

LEMMA OpenIsRow ==
  ASSUME TypeOK, NEW i \in Invites, Open(i)
  PROVE  invite[i] \in Rows
  BY NoRow DEF TypeOK, Open

LEMMA RowFields ==
  ASSUME NEW row \in Rows
  PROVE  /\ row.email \in Emails /\ row.status \in Statuses /\ row.expired \in BOOLEAN
         /\ row.link \in Links /\ row.sent \in BOOLEAN /\ row.by \in Users \cup {NoUser}
         /\ row.status = "accepted" <=> row.by # NoUser
  BY DEF Rows

LEMMA NewRow ==
  ASSUME NEW email \in Emails, NEW link \in Links
  PROVE  [email |-> email, status |-> "open", expired |-> FALSE, link |-> link,
          sent |-> FALSE, by |-> NoUser] \in Rows
  BY DEF Rows, Statuses

LEMMA ResentRow ==
  ASSUME NEW row \in Rows, row.status = "open", NEW link \in Links
  PROVE  [row EXCEPT !.link = link, !.expired = FALSE, !.sent = FALSE] \in Rows
  BY DEF Rows, Statuses

LEMMA EndedRow ==
  ASSUME NEW row \in Rows, row.status = "open"
  PROVE  /\ [row EXCEPT !.status = "cancelled"] \in Rows
         /\ [row EXCEPT !.expired = TRUE] \in Rows
  BY DEF Rows, Statuses

LEMMA AcceptedRow ==
  ASSUME NEW row \in Rows, NEW user \in Users
  PROVE  [row EXCEPT !.status = "accepted", !.by = user] \in Rows
  BY AddressAssumption DEF Rows, Statuses

LEMMA SentRow ==
  ASSUME NEW row \in Rows, NEW sent \in BOOLEAN
  PROVE  [row EXCEPT !.sent = sent] \in Rows
  BY DEF Rows, Statuses

LEMMA IdleState == Idle \in TaskStates /\ Idle.pc = "idle"
  BY LinksAssumption DEF Idle, TaskStates

-----------------------------------------------------------------------------
LEMMA InitIInv == Init => IInv
<1> SUFFICES ASSUME Init PROVE IInv
  OBVIOUS
<1>1. TypeOK
  BY IdleState, LinksAssumption DEF Init, TypeOK
<1>2. TaskInv
  BY IdleState DEF Init, TaskInv
<1>3. AcceptedOnce /\ DeletedIsEmpty
  BY DEF Init, AcceptedOnce, DeletedIsEmpty
<1>4. SentIsCurrent
  BY NoRow DEF Init, SentIsCurrent
<1> QED  BY <1>1, <1>2, <1>3, <1>4 DEF IInv

(* Writing the row of an invitation with a new link, not sent yet, and not *)
(* accepted before, disturbs nothing while the season is open.             *)
LEMMA DrawKeeps ==
  ASSUME IInv, LocksOpenSeason,
         NEW t \in Tasks, NEW i \in Invites, NEW row \in Rows,
         row.link = nextLink, row.sent = FALSE,
         invite[i].status # "accepted",
         Draw(t, i, row)
  PROVE  IInv'
<1> DEFINE state == [Idle EXCEPT !.pc = "handoff", !.invite = i, !.link = nextLink]
<1>1. /\ nextLink \in Links /\ nextLink' = nextLink + 1
      /\ invite' = [invite EXCEPT ![i] = row]
      /\ task' = [task EXCEPT ![t] = state]
      /\ UNCHANGED <<season, contact, active, enrolled, queued, history>>
  BY LinksAssumption DEF Draw, IInv, TypeOK, Links
<1>2. /\ state \in TaskStates /\ state.pc = "handoff" /\ state.invite = i
      /\ state.link = nextLink
  <2>1. nextLink \in 0..MaxLinks
    BY <1>1, LinksAssumption DEF Links
  <2> QED  BY <2>1 DEF Idle, TaskStates
<1> HIDE DEF state
<1>3. TypeOK'
  <2>1. nextLink' \in 1..(MaxLinks + 1)
    BY <1>1, LinksAssumption DEF Links
  <2> QED  BY <1>1, <1>2, <2>1 DEF IInv, TypeOK, history
<1>4. TaskInv'
  BY <1>1, <1>2 DEF IInv, TypeOK, TaskInv
<1>5. AcceptedOnce'
  BY <1>1 DEF IInv, TypeOK, AcceptedOnce, history
<1>6. SentIsCurrent'
  BY <1>1 DEF IInv, TypeOK, SentIsCurrent
<1>7. DeletedIsEmpty'
  BY <1>1 DEF LocksOpenSeason, DeletedIsEmpty
<1> QED  BY <1>3, <1>4, <1>5, <1>6, <1>7 DEF IInv

LEMMA CreateKeeps ==
  ASSUME IInv, NEW t \in Tasks, NEW i \in Invites, NEW email \in Emails,
         CreateInvitation(t, i, email)
  PROVE  IInv'
<1> DEFINE row == [email |-> email, status |-> "open", expired |-> FALSE,
                   link |-> nextLink, sent |-> FALSE, by |-> NoUser]
<1>1. nextLink \in Links
  BY LinksAssumption DEF CreateInvitation, Draw, IInv, TypeOK, Links
<1>2. row \in Rows /\ row.link = nextLink /\ row.sent = FALSE
  BY <1>1, NewRow
<1>3. LocksOpenSeason /\ invite[i].status # "accepted" /\ Draw(t, i, row)
  BY NoRow DEF CreateInvitation
<1> HIDE DEF row
<1> QED  BY <1>2, <1>3, DrawKeeps

LEMMA ResendKeeps ==
  ASSUME IInv, NEW t \in Tasks, NEW i \in Invites, ResendInvitation(t, i)
  PROVE  IInv'
<1> DEFINE row == [invite[i] EXCEPT !.link = nextLink, !.expired = FALSE, !.sent = FALSE]
<1>1. nextLink \in Links
  BY LinksAssumption DEF ResendInvitation, Draw, IInv, TypeOK, Links
<1>2. invite[i] \in Rows /\ invite[i].status = "open"
  BY OpenIsRow DEF ResendInvitation, IInv, Open
<1>3. row \in Rows
  BY <1>1, <1>2, ResentRow
<1>4. row.link = nextLink /\ row.sent = FALSE
  BY <1>2 DEF Rows
<1>5. LocksOpenSeason /\ invite[i].status # "accepted" /\ Draw(t, i, row)
  BY <1>2 DEF ResendInvitation
<1> HIDE DEF row
<1> QED  BY <1>3, <1>4, <1>5, DrawKeeps

(* An open invitation is cancelled, or expires. *)
LEMMA EndKeeps ==
  ASSUME IInv, NEW i \in Invites, CancelInvitation(i) \/ Expire(i)
  PROVE  IInv'
<1>1. invite[i] \in Rows /\ invite[i].status = "open"
  BY OpenIsRow DEF CancelInvitation, Expire, IInv, Open
<1>2. PICK row \in Rows : /\ invite' = [invite EXCEPT ![i] = row]
                          /\ row.link = invite[i].link /\ row.sent = invite[i].sent
                          /\ row.status = "open" => row.expired
  <2>1. CASE CancelInvitation(i)
    <3> DEFINE row == [invite[i] EXCEPT !.status = "cancelled"]
    <3>1. row.link = invite[i].link /\ row.sent = invite[i].sent /\ row.status = "cancelled"
      BY <1>1 DEF Rows
    <3>2. invite' = [invite EXCEPT ![i] = row]
      BY <2>1 DEF CancelInvitation
    <3>3. row \in Rows
      BY <1>1, EndedRow
    <3> QED  BY <3>1, <3>2, <3>3
  <2>2. CASE Expire(i)
    <3> DEFINE row == [invite[i] EXCEPT !.expired = TRUE]
    <3>1. row.link = invite[i].link /\ row.sent = invite[i].sent /\ row.expired
      BY <1>1 DEF Rows
    <3>2. invite' = [invite EXCEPT ![i] = row]
      BY <2>2 DEF Expire
    <3>3. row \in Rows
      BY <1>1, EndedRow
    <3> QED  BY <3>1, <3>2, <3>3
  <2> QED  BY <2>1, <2>2
<1>3. UNCHANGED <<season, contact, active, enrolled, nextLink, queued, task, history>>
  BY DEF CancelInvitation, Expire
<1>4. TypeOK'
  BY <1>2, <1>3 DEF IInv, TypeOK, history
<1>5. TaskInv'
  BY <1>3 DEF IInv, TaskInv
<1>6. AcceptedOnce'
  BY <1>1, <1>2, <1>3 DEF IInv, TypeOK, AcceptedOnce, history
<1>7. SentIsCurrent'
  BY <1>2, <1>3 DEF IInv, TypeOK, SentIsCurrent
<1>8. DeletedIsEmpty'
  BY <1>2, <1>3 DEF IInv, TypeOK, DeletedIsEmpty, Open
<1> QED  BY <1>4, <1>5, <1>6, <1>7, <1>8 DEF IInv

-----------------------------------------------------------------------------
(* A request that only gets on, or ends, with what it knows.               *)
LEMMA TaskMoves ==
  ASSUME IInv, NEW t \in Tasks, NEW state \in TaskStates,
         task' = [task EXCEPT ![t] = state],
         state.pc # "idle" => state.invite \in Invites /\ state.link \in Links,
         state.pc = "mark" => state.link \in queued',
         state.pc = "accept" => state.user \in Users,
         queued \subseteq queued', queued' \subseteq Links,
         UNCHANGED <<season, invite, contact, active, enrolled, nextLink, history>>
  PROVE  IInv'
<1>1. TypeOK'
  BY DEF IInv, TypeOK, history
<1>2. TaskInv'
  BY DEF IInv, TypeOK, TaskInv
<1>3. AcceptedOnce'
  BY DEF IInv, AcceptedOnce, history
<1>4. SentIsCurrent' /\ DeletedIsEmpty'
  BY DEF IInv, SentIsCurrent, DeletedIsEmpty, Open
<1> QED  BY <1>1, <1>2, <1>3, <1>4 DEF IInv

LEMMA SendKeeps ==
  ASSUME IInv, NEW t \in Tasks, SendInvitation(t)
  PROVE  IInv'
<1>1. /\ task[t] \in TaskStates /\ task[t].invite \in Invites /\ task[t].link \in Links
      /\ queued \subseteq Links /\ queued' = queued \cup {task[t].link}
      /\ UNCHANGED <<season, invite, contact, active, enrolled, nextLink, history>>
  BY DEF SendInvitation, IInv, TypeOK, TaskInv
<1>2. CASE task' = [task EXCEPT ![t].pc = "mark"]
  <2> DEFINE state == [task[t] EXCEPT !.pc = "mark"]
  <2>1. /\ state \in TaskStates /\ state.pc = "mark" /\ state.invite = task[t].invite
        /\ state.link = task[t].link
    BY <1>1 DEF TaskStates
  <2>2. task' = [task EXCEPT ![t] = state]
    BY <1>2
  <2> HIDE DEF state
  <2> QED  BY <1>1, <2>1, <2>2, TaskMoves
<1>3. CASE task' = [task EXCEPT ![t] = Idle]
  BY <1>1, <1>3, IdleState, TaskMoves
<1> QED  BY <1>2, <1>3 DEF SendInvitation

LEMMA FailKeeps ==
  ASSUME IInv, NEW t \in Tasks, Fail(t)
  PROVE  IInv'
<1>1. queued \subseteq Links
  BY DEF IInv, TypeOK, history
<1> QED  BY <1>1, IdleState, TaskMoves DEF Fail

LEMMA LookKeeps ==
  ASSUME IInv, NEW t \in Tasks, NEW u \in Users, NEW link \in Links,
         InvitationForUser(t, u, link)
  PROVE  IInv'
<1>1. PICK i \in Invites : task' = [task EXCEPT ![t] = [pc |-> "accept", invite |-> i,
                                                       link |-> link, user |-> u]]
  BY DEF InvitationForUser
<1> DEFINE state == [pc |-> "accept", invite |-> i, link |-> link, user |-> u]
<1>2. state \in TaskStates
  <2>1. link \in 0..MaxLinks
    BY LinksAssumption DEF Links
  <2> QED  BY <2>1 DEF TaskStates
<1>3. queued \subseteq Links
  BY DEF IInv, TypeOK, history
<1>4. state.pc = "accept" /\ state.invite = i /\ state.link = link /\ state.user = u
  OBVIOUS
<1>5. /\ task' = [task EXCEPT ![t] = state]
      /\ UNCHANGED <<season, invite, contact, active, enrolled, nextLink, queued, history>>
  BY <1>1 DEF InvitationForUser
<1> HIDE DEF state
<1> QED  BY <1>2, <1>3, <1>4, <1>5, TaskMoves

(* The receipt is written to the invitation whose message has been handed  *)
(* over, or not at all.                                                    *)
LEMMA MarkKeeps ==
  ASSUME IInv, NEW t \in Tasks, MarkInvitationSent(t)
  PROVE  IInv'
<1> DEFINE i == task[t].invite
           sent == invite[i].sent \/ invite[i].link = task[t].link
           row == [invite[i] EXCEPT !.sent = sent]
<1>1. /\ i \in Invites /\ task[t].link \in queued
      /\ task' = [task EXCEPT ![t] = Idle]
      /\ invite' = [invite EXCEPT ![i] = row]
      /\ UNCHANGED <<season, contact, active, enrolled, nextLink, queued, history>>
  BY DEF MarkInvitationSent, IInv, TaskInv
<1>2. invite[i] \in Rows \cup {Absent}
  BY <1>1 DEF IInv, TypeOK, history
<1>3. /\ row.status = invite[i].status /\ row.link = invite[i].link /\ row.by = invite[i].by
      /\ row.expired = invite[i].expired /\ row.sent = sent
  BY <1>2 DEF Rows, Absent
<1>4. row \in Rows \cup {Absent}
  <2>1. CASE invite[i] \in Rows
    BY <2>1, SentRow
  <2>2. CASE invite[i] = Absent
    <3>1. task[t].link # 0
      BY LinksAssumption DEF MarkInvitationSent, IInv, TaskInv, Links
    <3>2. sent = FALSE
      BY <2>2, <3>1 DEF Absent
    <3>3. row = [Absent EXCEPT !.sent = FALSE]
      BY <2>2, <3>2
    <3>4. [Absent EXCEPT !.sent = FALSE] = Absent
      BY NoReceipt
    <3> QED  BY <3>3, <3>4
  <2> QED  BY <1>2, <2>1, <2>2
<1> HIDE DEF row
<1>5. TypeOK'
  BY <1>1, <1>4, IdleState DEF IInv, TypeOK, history
<1>6. TaskInv'
  BY <1>1, IdleState DEF IInv, TypeOK, TaskInv
<1>7. AcceptedOnce'
  BY <1>1, <1>3 DEF IInv, TypeOK, AcceptedOnce, history
<1>8. SentIsCurrent'
  BY <1>1, <1>3 DEF IInv, TypeOK, SentIsCurrent
<1>9. DeletedIsEmpty'
  BY <1>1, <1>3 DEF IInv, TypeOK, DeletedIsEmpty, Open
<1> QED  BY <1>5, <1>6, <1>7, <1>8, <1>9 DEF IInv

(* The new acceptance is of an invitation that was open and by a user who  *)
(* was not enrolled: it has neither in common with an earlier one whose    *)
(* enrollment is still the user's.                                         *)
LEMMA AcceptKeeps ==
  ASSUME IInv, NEW t \in Tasks, AcceptInvitation(t)
  PROVE  IInv'
<1>1. PICK i \in Invites : Matches(i, task[t].link, task[t].user) /\ Enrol(t, i)
  BY DEF AcceptInvitation
<1> DEFINE user == task[t].user
           row == [invite[i] EXCEPT !.status = "accepted", !.by = user]
           new == [invite |-> i, link |-> task[t].link, user |-> user]
<1>2. /\ invite[i] \in Rows /\ invite[i].status = "open" /\ invite[i].link = task[t].link
      /\ user \in Users /\ user \notin enrolled /\ task[t].link \in Links
  BY <1>1, OpenIsRow DEF Matches, Enrol, AcceptInvitation, IInv, TaskInv, Open
<1>3. /\ row \in Rows /\ row.status = "accepted" /\ row.by = user
      /\ row.link = task[t].link /\ row.sent = invite[i].sent
  <2>1. row \in Rows
    BY <1>2, AcceptedRow
  <2> QED  BY <1>2, <2>1 DEF Rows
<1>4. /\ invite' = [invite EXCEPT ![i] = row] /\ enrolled' = enrolled \cup {user}
      /\ taken' = taken \cup {new} /\ task' = [task EXCEPT ![t] = Idle]
      /\ UNCHANGED <<season, contact, active, nextLink, queued, moved>>
  BY <1>1 DEF Enrol
<1>5. /\ new.invite = i /\ new.link = task[t].link /\ new.user = user
      /\ new \in [invite : Invites, link : Links, user : Users]
  BY <1>2
<1> HIDE DEF row, new, user
<1>6. TypeOK'
  BY <1>2, <1>3, <1>4, <1>5, IdleState DEF IInv, TypeOK, history
<1>7. TaskInv'
  BY <1>4, IdleState DEF IInv, TypeOK, TaskInv
<1>8. new \notin taken /\ new \notin moved
  <2>1. new \notin taken
    BY <1>2, <1>5 DEF IInv, AcceptedOnce
  <2> QED  BY <2>1 DEF IInv, TypeOK
<1>9. AcceptedOnce'
  <2>1. /\ \A a \in taken : a.invite # i
        /\ \A a \in taken \ moved : a.user # user
    BY <1>2 DEF IInv, AcceptedOnce
  <2>2. \A a \in taken : a.invite \in Invites
    BY DEF IInv, TypeOK
  <2>3. \A a, b \in taken' : a.invite = b.invite => a = b
    BY <1>4, <1>5, <2>1 DEF IInv, AcceptedOnce
  <2>4. \A a, b \in taken' \ moved' : a.user = b.user => a = b
    BY <1>4, <1>5, <2>1 DEF IInv, AcceptedOnce
  <2>5. \A a \in taken' \ moved' : a.user \in enrolled'
    BY <1>4, <1>5 DEF IInv, AcceptedOnce
  <2>6. \A a \in taken' :
          /\ invite'[a.invite].status = "accepted" /\ invite'[a.invite].by = a.user
          /\ invite'[a.invite].link = a.link
    BY <1>3, <1>4, <1>5, <2>1, <2>2 DEF IInv, TypeOK, AcceptedOnce
  <2> QED  BY <2>3, <2>4, <2>5, <2>6 DEF AcceptedOnce
<1>10. SentIsCurrent'
  BY <1>2, <1>3, <1>4 DEF IInv, TypeOK, SentIsCurrent
<1>11. DeletedIsEmpty'
  BY <1>4 DEF AcceptInvitation, LocksOpenSeason, DeletedIsEmpty
<1> QED  BY <1>6, <1>7, <1>9, <1>10, <1>11 DEF IInv

LEMMA AroundKeeps ==
  ASSUME IInv,
         \/ \E u \in Users : CreateEnrollment(u)
         \/ \E u \in Users, email \in Emails \cup {NoEmail} : ApplyIdentityEvent(u, email)
         \/ Season
  PROVE  IInv'
<1>1. UNCHANGED <<invite, nextLink, queued, task, taken, moved>> /\ enrolled \subseteq enrolled'
  BY DEF CreateEnrollment, ApplyIdentityEvent, Season, history
<1>2. TypeOK'
  BY <1>1 DEF IInv, TypeOK, CreateEnrollment, ApplyIdentityEvent, Season, CloseSeason,
     ReopenSeason, DeleteEmptySeason
<1>3. TaskInv' /\ AcceptedOnce' /\ SentIsCurrent'
  BY <1>1 DEF IInv, TaskInv, AcceptedOnce, SentIsCurrent
<1>4. DeletedIsEmpty'
  BY <1>1 DEF IInv, DeletedIsEmpty, Open, CreateEnrollment, LocksOpenSeason,
     ApplyIdentityEvent, Season, CloseSeason, ReopenSeason, DeleteEmptySeason
<1> QED  BY <1>2, <1>3, <1>4 DEF IInv

(* A correction marks the acceptances of the member who leaves. *)
LEMMA CorrectKeeps ==
  ASSUME IInv, NEW u \in Users, NEW others \in SUBSET Users, CorrectEnrollment(u, others)
  PROVE  IInv'
<1>1. /\ season = "open" /\ enrolled' = (enrolled \ {u}) \cup others
      /\ moved' = moved \cup {a \in taken : a.user = u}
      /\ UNCHANGED <<season, invite, contact, active, nextLink, queued, task, taken>>
  BY DEF CorrectEnrollment, LocksOpenSeason
<1>2. TypeOK' /\ TaskInv'
  BY <1>1 DEF IInv, TypeOK, TaskInv
<1>3. AcceptedOnce'
  <2>1. taken' \ moved' = {a \in taken \ moved : a.user # u}
    BY <1>1
  <2> QED  BY <1>1, <2>1 DEF IInv, AcceptedOnce
<1>4. SentIsCurrent' /\ DeletedIsEmpty'
  BY <1>1 DEF IInv, SentIsCurrent, DeletedIsEmpty
<1> QED  BY <1>2, <1>3, <1>4 DEF IInv

-----------------------------------------------------------------------------
(* The inductive invariant holds in every reachable state. *)
THEOREM Inductive == Spec => []IInv
<1>1. IInv /\ [Next]_vars => IInv'
  <2> SUFFICES ASSUME IInv, [Next]_vars PROVE IInv'
    OBVIOUS
  <2>1. CASE UNCHANGED vars
    BY <2>1 DEF vars, history, IInv, TypeOK, TaskInv, AcceptedOnce, SentIsCurrent,
       DeletedIsEmpty, Open
  <2>2. CASE Next
    BY <2>2, CreateKeeps, ResendKeeps, SendKeeps, MarkKeeps, LookKeeps, AcceptKeeps,
       FailKeeps, EndKeeps, AroundKeeps, CorrectKeeps DEF Next
  <2> QED  BY <2>1, <2>2
<1> QED  BY <1>1, InitIInv, PTL DEF Spec

(* Every variable keeps its type, the table its check that an invitation   *)
(* has an acceptor exactly if it is accepted.                              *)
THEOREM TypeCorrect == Spec => []TypeOK
<1>1. IInv => TypeOK  BY DEF IInv
<1> QED  BY <1>1, Inductive, PTL

(* An invitation is accepted at most once, by its newest link, and never   *)
(* after it was cancelled (AcceptInvitation); who has accepted one is a    *)
(* member, and accepts no other, until CorrectEnrollment moves the         *)
(* enrollment away.                                                        *)
THEOREM AcceptanceIsOnce == Spec => []AcceptedOnce
<1>1. IInv => AcceptedOnce  BY DEF IInv
<1> QED  BY <1>1, Inductive, PTL

(* A receipt is of the message with the current link. *)
THEOREM ReceiptIsCurrent == Spec => []SentIsCurrent
<1>1. IInv => SentIsCurrent  BY DEF IInv
<1> QED  BY <1>1, Inductive, PTL

(* Nobody is, becomes or can become a member of a deleted season. *)
THEOREM DeletedStaysEmpty == Spec => []DeletedIsEmpty
<1>1. IInv => DeletedIsEmpty  BY DEF IInv
<1> QED  BY <1>1, Inductive, PTL

(* Only the addressee is enrolled by an invitation: its address is that of *)
(* the user, whose account is active, at the moment of the enrolment.      *)
THEOREM OnlyTheAddressee == Spec => AddresseeAccepts
<1> DEFINE Added == \A a \in taken' \ taken :
                      a.user \in active /\ contact[a.user] = invite[a.invite].email
<1>1. ASSUME [Next]_vars PROVE [Added]_vars
  <2>1. ASSUME NEW t \in Tasks, AcceptInvitation(t) PROVE Added
    <3>1. PICK i \in Invites : Matches(i, task[t].link, task[t].user) /\ Enrol(t, i)
      BY <2>1 DEF AcceptInvitation
    <3>2. \A a \in taken' \ taken : a.invite = i /\ a.user = task[t].user
      BY <3>1 DEF Enrol
    <3> QED  BY <3>1, <3>2 DEF Matches
  <2>2. CASE UNCHANGED vars
    BY <2>2
  <2>3. CASE UNCHANGED taken
    BY <2>3
  <2>4. Next => UNCHANGED taken \/ \E t \in Tasks : AcceptInvitation(t)
    BY DEF Next, CreateInvitation, ResendInvitation, Draw, SendInvitation,
       MarkInvitationSent, InvitationForUser, Fail, CancelInvitation, Expire,
       CreateEnrollment, CorrectEnrollment, ApplyIdentityEvent, Season, history
  <2> QED  BY <1>1, <2>1, <2>2, <2>3, <2>4
<1> QED  BY <1>1, PTL DEF Spec, AddresseeAccepts
=============================================================================
