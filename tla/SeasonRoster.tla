----------------------------- MODULE SeasonRoster -----------------------------
(***************************************************************************)
(* The members of one season and their mentorships, as the Go API's        *)
(* transactions (backend/internal/dal) change them at READ COMMITTED: a    *)
(* season is closed and reopened, members are enrolled, change their role, *)
(* are removed or corrected, a student is given a mentor, and the mirrored *)
(* second factor of a user turns a coordinator's access on and off.        *)
(*                                                                         *)
(* A task is one transaction.  It begins with its reads, the locks it takes*)
(* and its writes, which nobody else sees, and it commits or rolls back.   *)
(* What it has to wait for is a condition of its beginning, or, where the  *)
(* code reads first and waits afterwards, of its commit.                   *)
(*                                                                         *)
(* The API checks that the season is open (and, for a promotion, that the  *)
(* member is a student) before the transaction begins and without a lock.  *)
(* Such a check may be out of date by any amount, and every season and     *)
(* nearly every member passes it at some time, so it guards nothing here:  *)
(* the guards below are those that the transactions themselves evaluate.   *)
(* Who may ask, student levels, dates and audit records are left out.      *)
(***************************************************************************)
EXTENDS Integers, FiniteSets

CONSTANTS
  Enrollments,  \* ids of enrollments
  Users,
  NoUser,       \* no user: of an enrollment that is not in this season
  Tasks,        \* transactions that may run at the same time
  Requests,     \* the kinds of request that are made
  MaxCloses     \* bound: how often the season is closed

ASSUME UsersAssumption == NoUser \notin Users
ASSUME ClosesAssumption == MaxCloses \in Nat

RequestKinds == {"enroll", "role", "promote", "remove", "correct", "close", "delete",
                 "mfa", "mentor", "reassign"}
ASSUME RosterRequestsAssumption == Requests \subseteq RequestKinds

Roles == {"student", "mentor", "coordinator"}
Removed == {"kicked", "withdrawn"}

(* closedBy is completed_by_close_id (0: NULL), snapshot is                *)
(* close_assignment_state.                                                 *)
Members ==
  [user : Users, role : Roles, state : {"active", "completed"} \cup Removed,
   assignment : {"active", "pending_mfa", "revoked"},
   closedBy : 0..MaxCloses, snapshot : {"none", "active", "pending_mfa"}]

Absent == [user |-> NoUser, role |-> "none", state |-> "none", assignment |-> "none",
           closedBy |-> 0, snapshot |-> "none"]

Mentorships == [mentor : Enrollments, student : Enrollments]

VARIABLES
  season,     \* "open", "closed" or "deleted"
  closes,     \* close events written so far
  openClose,  \* the close event with no reopened_at, 0 when there is none
  member,     \* the enrollments
  live,       \* mentorships with neither ended_at nor deleted_at
  mfa,        \* user_security.mfa_configured
  task        \* the transactions that have begun

vars == <<season, closes, openClose, member, live, mfa, task>>
committed == <<season, closes, openClose, member, live, mfa>>

(* A transaction in progress.                                              *)
(*   season  it holds the season's row, locked FOR UPDATE                  *)
(*   rows    enrollments it has written, with their new contents in new    *)
(*   keys    those it also holds FOR UPDATE, which a foreign key waits for *)
(*   ends    mentorships it has found live and is going to end             *)
(*   held    those of them it has locked                                   *)
(*   adds    mentorships it has inserted                                   *)
(*   user, configured, pending   an MFA event, see ApplyMfa                *)
NoTask == [op |-> "none", season |-> FALSE, rows |-> {}, new |-> <<>>, keys |-> {},
           ends |-> {}, held |-> {}, adds |-> {},
           user |-> NoUser, configured |-> FALSE, pending |-> {}]

Ops == {"none", "enroll", "role", "promote", "remove", "correct", "arrive", "close",
        "reopen", "delete", "mfa", "mentor", "reassign"}

TypeOK ==
  /\ season \in {"open", "closed", "deleted"}
  /\ closes \in 0..MaxCloses /\ openClose \in 0..closes
  /\ member \in [Enrollments -> Members \cup {Absent}]
  /\ live \subseteq Mentorships
  /\ mfa \in [Users -> BOOLEAN]
  /\ \A t \in Tasks :
       /\ task[t].op \in Ops /\ task[t].season \in BOOLEAN
       /\ task[t].keys \subseteq task[t].rows /\ task[t].rows \subseteq Enrollments
       /\ task[t].op # "none" =>
            /\ DOMAIN task[t].new = task[t].rows
            /\ \A e \in task[t].rows : task[t].new[e] \in Members \cup {Absent}
       /\ task[t].held \subseteq Mentorships
       /\ task[t].ends \subseteq Mentorships /\ task[t].adds \subseteq Mentorships
       /\ task[t].user \in Users \cup {NoUser} /\ task[t].configured \in BOOLEAN
       /\ task[t].pending \subseteq Enrollments

Init ==
  /\ season = "open" /\ closes = 0 /\ openClose = 0
  /\ member = [e \in Enrollments |-> Absent]
  /\ live = {}
  /\ mfa = [u \in Users |-> FALSE]
  /\ task = [t \in Tasks |-> NoTask]

-----------------------------------------------------------------------------
(* Locks                                                                   *)

Others(t) == Tasks \ {t}

(* SELECT ... FROM app.seasons ... FOR UPDATE does not wait. *)
SeasonFree(t) == \A o \in Others(t) : ~task[o].season

RowFree(t, e) == \A o \in Others(t) : e \notin task[o].rows

MentorshipFree(t, m) == \A o \in Others(t) : m \notin task[o].held

(* The unique index mentorships_one_active_mentor: no other live mentorship*)
(* of the student, and nobody is about to insert one.                      *)
NoRival(t, student, own) ==
  /\ \A m \in live \ own : m.student # student
  /\ \A o \in Others(t) : \A m \in task[o].adds : m.student # student

AsStudent(e) == {m \in live : m.student = e}
AsMentor(e) == {m \in live : m.mentor = e}

Begin(t, transaction) ==
  /\ task[t] = NoTask
  /\ task' = [task EXCEPT ![t] =
                [transaction EXCEPT
                   !.held = {m \in transaction.ends : MentorshipFree(t, m)}]]
  /\ UNCHANGED committed

(* The new contents of the one row that a transaction writes. *)
Only(e, contents) == [x \in {e} |-> contents]

-----------------------------------------------------------------------------
(* Members                                                                 *)

(* Faulty variant: the season's state is not looked at again. *)
LocksAnySeason(t) == SeasonFree(t)

(* lockOpenSeason *)
LocksOpenSeason(t) == SeasonFree(t) /\ season = "open"

(* The trigger require_coordinator_mfa, on the committed mfa_configured. *)
Assignment(role, user) ==
  IF role = "coordinator" /\ ~mfa[user] THEN "pending_mfa" ELSE "active"

(* Faulty variant: without the trigger. *)
WithRoleUnchecked(m, role) == [m EXCEPT !.role = role, !.assignment = "active"]

(* An enrollment with a new role, as the update and the trigger leave it. *)
WithRole(m, role) == [m EXCEPT !.role = role, !.assignment = Assignment(role, m.user)]

(* Faulty variants, none of them part of the specification: the role is    *)
(* written to a row that was read without a lock, and a mentor's students  *)
(* are forgotten.                                                          *)
UpdateRoleWithoutLock(t, e, role) ==
  /\ member[e].state = "active"
  /\ Begin(t, [NoTask EXCEPT !.op = "role", !.rows = {e},
                 !.new = Only(e, WithRole(member[e], role)),
                 !.ends = IF role = "student" THEN AsMentor(e) ELSE AsStudent(e)])

UpdateRoleKeepsMentorships(t, e, role) ==
  /\ RowFree(t, e)
  /\ member[e].state = "active"
  /\ Begin(t, [NoTask EXCEPT !.op = "role", !.rows = {e},
                 !.new = Only(e, WithRole(member[e], role)), !.ends = AsStudent(e)])

CreateEnrollment(t, e, u, role) ==
  /\ LocksOpenSeason(t)
  /\ member[e] = Absent /\ RowFree(t, e)
  /\ \A x \in Enrollments : member[x].user # u
  /\ Begin(t, [NoTask EXCEPT !.op = "enroll", !.season = TRUE, !.rows = {e},
                 !.new = Only(e, [user |-> u, role |-> role, state |-> "active",
                                  assignment |-> Assignment(role, u),
                                  closedBy |-> 0, snapshot |-> "none"])])

(* One UPDATE of the row; it neither locks the season nor the row's key. *)
UpdateEnrollmentRoleAndLevel(t, e, role) ==
  /\ RowFree(t, e)
  /\ member[e].state = "active"
  /\ Begin(t, [NoTask EXCEPT !.op = "role", !.rows = {e},
                 !.new = Only(e, WithRole(member[e], role)),
                 !.ends = IF role = "student" THEN AsMentor(e) ELSE AsStudent(e)])

PromoteEnrollment(t, e, role) ==
  /\ RowFree(t, e)
  /\ member[e].state = "active"
  /\ Begin(t, [NoTask EXCEPT !.op = "promote", !.rows = {e}, !.keys = {e},
                 !.new = Only(e, WithRole(member[e], role)), !.ends = AsStudent(e)])

RemoveEnrollment(t, e) ==
  /\ RowFree(t, e)
  /\ member[e].state = "active"
  /\ Begin(t, [NoTask EXCEPT !.op = "remove", !.rows = {e}, !.keys = {e},
                 !.new = Only(e, [member[e] EXCEPT
                                    !.state = IF member[e].role = "student"
                                              THEN "kicked" ELSE "withdrawn",
                                    !.assignment = "revoked"]),
                 !.ends = AsStudent(e) \cup AsMentor(e)])

(* The enrollment is given to another user, or (NoUser) to another season, *)
(* and its mentorships are deleted.                                        *)
CorrectEnrollment(t, e, u) ==
  LET m == member[e] IN
  /\ LocksOpenSeason(t)
  /\ m # Absent /\ RowFree(t, e)
  /\ m.user # u
  /\ u # NoUser => \A x \in Enrollments : member[x].user # u
  /\ Begin(t, [NoTask EXCEPT !.op = "correct", !.season = TRUE, !.rows = {e},
                 !.keys = {e},
                 !.new = Only(e, IF u = NoUser THEN Absent
                                 ELSE [m EXCEPT !.user = u,
                                         !.assignment = IF m.state = "active"
                                           THEN Assignment(m.role, u) ELSE @]),
                 !.ends = AsStudent(e) \cup AsMentor(e)])

(* An enrollment of another open season is given to this one.  Whether its *)
(* user changes too, and so has to be waited for, is left open.            *)
CorrectIntoSeason(t, e, u, role, state) ==
  /\ LocksOpenSeason(t)
  /\ member[e] = Absent /\ RowFree(t, e)
  /\ \A x \in Enrollments : member[x].user # u
  /\ Begin(t, [NoTask EXCEPT !.op = "arrive", !.season = TRUE, !.rows = {e},
                 !.keys = {e},
                 !.new = Only(e, [user |-> u, role |-> role, state |-> state,
                                  assignment |-> IF state = "active"
                                    THEN Assignment(role, u) ELSE "revoked",
                                  closedBy |-> 0, snapshot |-> "none"])])

-----------------------------------------------------------------------------
(* The season                                                              *)

Enrolled == {e \in Enrollments : member[e] # Absent}

(* An enrollment that the season's closing completes. *)
Completed(m, event) ==
  [m EXCEPT !.state = "completed", !.closedBy = event, !.snapshot = m.assignment,
            !.assignment = "revoked"]

(* ... and its reopening makes active again; the trigger has the last word *)
(* on a coordinator.                                                       *)
Restored(m) ==
  [m EXCEPT !.state = "active", !.closedBy = 0, !.snapshot = "none",
            !.assignment = IF m.role = "coordinator" THEN Assignment(m.role, m.user)
                           ELSE m.snapshot]

CloseSeason(t) ==
  /\ SeasonFree(t) /\ \A e \in Enrolled : RowFree(t, e)
  /\ season = "open" /\ openClose = 0 /\ closes < MaxCloses
  /\ Begin(t, [NoTask EXCEPT !.op = "close", !.season = TRUE,
                 !.rows = Enrolled, !.keys = Enrolled,
                 !.new = [e \in Enrolled |->
                            IF member[e].state = "active"
                            THEN Completed(member[e], closes + 1) ELSE member[e]]])

ReopenSeason(t) ==
  /\ openClose # 0 /\ season = "closed"
  /\ SeasonFree(t) /\ \A e \in Enrolled : RowFree(t, e)
  /\ Begin(t, [NoTask EXCEPT !.op = "reopen", !.season = TRUE,
                 !.rows = Enrolled, !.keys = Enrolled,
                 !.new = [e \in Enrolled |->
                            IF member[e].state = "completed" /\ member[e].closedBy = openClose
                            THEN Restored(member[e]) ELSE member[e]]])

DeleteEmptySeason(t) ==
  /\ SeasonFree(t) /\ season # "deleted"
  /\ Enrolled = {}
  /\ Begin(t, [NoTask EXCEPT !.op = "delete", !.season = TRUE])

-----------------------------------------------------------------------------
(* Mentorships                                                             *)

CanMentor(e) == member[e].state = "active" /\ member[e].role \in {"mentor", "coordinator"}
CanLearn(e) == member[e].state = "active" /\ member[e].role = "student"
Pair(mentor, student) == [mentor |-> mentor, student |-> student]

(* The insert looks the two up in its snapshot and locks neither; so does  *)
(* the trigger validate_mentorship.  The foreign keys wait at the end.     *)
CreateMentorship(t, mentor, student) ==
  /\ CanMentor(mentor) /\ CanLearn(student)
  /\ NoRival(t, student, {})
  /\ Begin(t, [NoTask EXCEPT !.op = "mentor", !.adds = {Pair(mentor, student)}])

(* The old mentorship is locked and ended, a new one is inserted. *)
UpdateMentorship(t, m, mentor, student) ==
  /\ MentorshipFree(t, m)
  /\ m # Pair(mentor, student)
  /\ CanMentor(mentor) /\ CanLearn(student)
  /\ NoRival(t, student, {m})
  /\ Begin(t, [NoTask EXCEPT !.op = "reassign", !.ends = {m},
                 !.adds = {Pair(mentor, student)}])

(* Whoever waits for a mentorship finds it ended and leaves it alone. *)
Ended(ms) == [o \in Tasks |-> [task[o] EXCEPT !.ends = @ \ ms, !.held = @ \ ms]]

DeleteMentorship(m) ==
  /\ \A o \in Tasks : m \notin task[o].held
  /\ live' = live \ {m}
  /\ task' = Ended({m})
  /\ UNCHANGED <<season, closes, openClose, member, mfa>>

-----------------------------------------------------------------------------
(* The end of a transaction                                                *)

(* It waits for whoever holds a mentorship that it is to end, and, its     *)
(* foreign keys, for whoever holds the season or an enrollment that a new  *)
(* mentorship refers to or the user that an enrollment now refers to.      *)
Waits(t) ==
  \E o \in Others(t) :
    \/ task[t].ends \cap task[o].held # {}
    \/ task[t].adds # {} /\ task[o].season
    \/ \E m \in task[t].adds : {m.mentor, m.student} \cap task[o].keys # {}
    \/ /\ task[t].op \in {"enroll", "correct"} /\ task[o].op = "mfa"
       /\ \E e \in task[t].rows : task[t].new[e].user = task[o].user

Commit(t) ==
  LET tx == task[t] IN
  /\ tx.op \notin {"none", "mfa"}
  /\ ~Waits(t)
  /\ season' = CASE tx.op = "close" -> "closed"
                 [] tx.op = "reopen" -> "open"
                 [] tx.op = "delete" -> "deleted"
                 [] OTHER -> season
  /\ closes' = IF tx.op = "close" THEN closes + 1 ELSE closes
  /\ openClose' = CASE tx.op = "close" -> closes + 1
                    [] tx.op = "reopen" -> 0
                    [] OTHER -> openClose
  /\ member' = [e \in Enrollments |-> IF e \in tx.rows THEN tx.new[e] ELSE member[e]]
  /\ live' = (live \ tx.ends) \cup tx.adds
  /\ task' = [Ended(tx.ends) EXCEPT ![t] = NoTask]
  /\ UNCHANGED mfa

(* Deadlock victims, cancelled requests, lost connections. *)
Rollback(t) ==
  /\ task[t] # NoTask
  /\ task' = [task EXCEPT ![t] = NoTask]
  /\ UNCHANGED committed

-----------------------------------------------------------------------------
(* The MFA event (applyMFAConfigured, applyMFADisabled): the transaction   *)
(* writes mfa_configured, then updates the coordinator enrollments it sees *)
(* in the other state, then the snapshots of those a closing completed.    *)

Opposite(configured) == IF configured THEN "pending_mfa" ELSE "active"
Target(configured) == IF configured THEN "active" ELSE "pending_mfa"

AccessOf(e, u, configured) ==
  /\ member[e].user = u /\ member[e].role = "coordinator" /\ member[e].state = "active"
  /\ member[e].assignment = Opposite(configured)

SnapshotOf(e, u, configured) ==
  /\ member[e].user = u /\ member[e].role = "coordinator" /\ member[e].state = "completed"
  /\ member[e].closedBy # 0 /\ member[e].snapshot = Opposite(configured)

ApplyMfa(t, u, configured) ==
  /\ \A o \in Others(t) : task[o].user # u
  /\ Begin(t, [NoTask EXCEPT !.op = "mfa", !.user = u, !.configured = configured,
                 !.pending = {e \in Enrollments : AccessOf(e, u, configured)}])

(* A row that has changed since it was seen is looked at again. *)
CommitMfa(t) ==
  LET u == task[t].user  configured == task[t].configured IN
  /\ task[t].op = "mfa"
  /\ \A e \in Enrollments :
       e \in task[t].pending \/ SnapshotOf(e, u, configured) => RowFree(t, e)
  /\ mfa' = [mfa EXCEPT ![u] = configured]
  /\ member' = [e \in Enrollments |->
       CASE e \in task[t].pending /\ AccessOf(e, u, configured) ->
              [member[e] EXCEPT !.assignment = Target(configured)]
         [] SnapshotOf(e, u, configured) ->
              [member[e] EXCEPT !.snapshot = Target(configured)]
         [] OTHER -> member[e]]
  /\ task' = [task EXCEPT ![t] = NoTask]
  /\ UNCHANGED <<season, closes, openClose, live>>

-----------------------------------------------------------------------------
Membership(t) == \E e \in Enrollments :
  \/ "enroll" \in Requests /\ \E u \in Users, role \in Roles : CreateEnrollment(t, e, u, role)
  \/ "role" \in Requests /\ \E role \in {"student", "mentor"} :
       UpdateEnrollmentRoleAndLevel(t, e, role)
  \/ "promote" \in Requests /\ \E role \in {"mentor", "coordinator"} :
       PromoteEnrollment(t, e, role)
  \/ "remove" \in Requests /\ RemoveEnrollment(t, e)
  \/ /\ "correct" \in Requests
     /\ \/ \E u \in Users \cup {NoUser} : CorrectEnrollment(t, e, u)
        \/ \E u \in Users, role \in Roles, state \in {"active"} \cup Removed :
             CorrectIntoSeason(t, e, u, role, state)

Season(t) ==
  \/ "close" \in Requests /\ (CloseSeason(t) \/ ReopenSeason(t))
  \/ "delete" \in Requests /\ DeleteEmptySeason(t)

Mentoring(t) ==
  \/ "mentor" \in Requests /\ \E mentor, student \in Enrollments :
       CreateMentorship(t, mentor, student)
  \/ "reassign" \in Requests /\ \E m \in live, mentor, student \in Enrollments :
       UpdateMentorship(t, m, mentor, student)

Next ==
  \/ \E t \in Tasks :
       \/ Membership(t) \/ Season(t) \/ Mentoring(t)
       \/ "mfa" \in Requests /\ \E u \in Users, configured \in BOOLEAN :
            ApplyMfa(t, u, configured)
       \/ Commit(t) \/ CommitMfa(t) \/ Rollback(t)
  \/ "reassign" \in Requests /\ \E m \in live : DeleteMentorship(m)

Spec == Init /\ [][Next]_vars

-----------------------------------------------------------------------------
(* Properties                                                              *)

(* A closed season has no active member, and an enrollment is completed by *)
(* a closing exactly as long as the season is closed by it: no enrolment,  *)
(* role change, removal or correction that was under way when the season   *)
(* was closed or reopened slips a member past the transition.              *)
SeasonAgreesWithMembers ==
  /\ season = "closed" => openClose # 0 /\ \A e \in Enrollments : member[e].state # "active"
  /\ \A e \in Enrollments : member[e].closedBy # 0 =>
       season = "closed" /\ member[e].closedBy = openClose /\ member[e].state = "completed"
  /\ season = "deleted" => Enrolled = {}

(* However transactions overlap, the members change as if each call took   *)
(* effect at once, at its commit (RosterContract): what a transaction read *)
(* of them before it waited, or before others committed, still holds when  *)
(* it writes.  Access and mentorships are not part of this: they depend on *)
(* rows that are read without a lock (LiveMentorshipsAreValid,             *)
(* CoordinatorsHaveMfa).                                                   *)
Seat(m) == [user |-> m.user, role |-> m.role, state |-> m.state]
Atomic == INSTANCE RosterContract WITH seat <- [e \in Enrollments |-> Seat(member[e])]
CallsAreAtomic == Atomic!Spec

(* A member who was kicked or withdrew never comes back: no transaction    *)
(* that read the enrollment before the removal and no reopening of the     *)
(* season makes it active or completed again.                              *)
RemovedIsFinal ==
  [][\A e \in Enrollments : member[e].state \in Removed =>
       member'[e].state = member[e].state \/ member'[e] = Absent]_vars

(* "mentorship requires a mentor/coordinator and a student", "mentorship   *)
(* requires active or completed, non-deleted enrollments" (the trigger     *)
(* validate_mentorship): what a live mentorship refers to.                 *)
LiveMentorshipsAreValid ==
  \A m \in live :
    /\ member[m.mentor].role \in {"mentor", "coordinator"}
    /\ member[m.student].role = "student"
    /\ {member[m.mentor].state, member[m.student].state} \subseteq {"active", "completed"}

(* "Privileged assignments derive their state from the mirrored MFA record.*)
(* The trigger prevents callers from bypassing that invariant." (migration *)
(* 00001): an active coordinator has access just when the user has a second*)
(* factor.                                                                 *)
CoordinatorsHaveMfa ==
  \A e \in Enrollments :
    member[e].role = "coordinator" /\ member[e].state = "active" =>
      member[e].assignment = Target(mfa[member[e].user])
=============================================================================
