--------------------------- MODULE SeasonRosterProofs ---------------------------
(***************************************************************************)
(* Proofs about the members of a season, for any number of enrollments,    *)
(* users and concurrent transactions and every kind of request.            *)
(*                                                                         *)
(* A transaction that has begun holds the locks under which it read what it*)
(* is going to write.  So what it found is still true when it commits: a   *)
(* member it is about to change is still active, the season it is about to *)
(* close still open, and the rows of a closing are still all members.      *)
(***************************************************************************)
EXTENDS SeasonRoster, TLAPS

(* Transactions that hold the season's row, and those that write no row.   *)
SeasonOps == {"enroll", "correct", "arrive", "close", "reopen", "delete"}
MemberOps == {"role", "promote", "remove"}
RowlessOps == {"none", "delete", "mfa", "mentor", "reassign"}

(* A record of a member: completed by a closing, active with an assignment,*)
(* or neither.                                                             *)
WellFormed(m) ==
  /\ m \in Members \cup {Absent}
  /\ m.state = "completed" <=> m.closedBy # 0
  /\ m.state = "active" => m.assignment # "revoked"
  /\ m.closedBy # 0 => m.snapshot # "none"

Transaction(tx) ==
  /\ DOMAIN tx = DOMAIN NoTask
  /\ tx.op \in Ops /\ tx.season \in BOOLEAN
  /\ tx.keys \subseteq tx.rows /\ tx.rows \subseteq Enrollments
  /\ tx.op # "none" => DOMAIN tx.new = tx.rows
  /\ tx.ends \subseteq Mentorships /\ tx.adds \subseteq Mentorships
  /\ tx.user \in Users \cup {NoUser} /\ tx.configured \in BOOLEAN
  /\ tx.pending \subseteq Enrollments

(* What a transaction that has begun found, and still holds. *)
Sound(tx) ==
  /\ tx.season <=> tx.op \in SeasonOps
  /\ tx.op \in RowlessOps => tx.rows = {}
  /\ \A e \in tx.rows :
       /\ WellFormed(tx.new[e])
       /\ tx.new[e].closedBy # 0 => tx.op = "close" /\ tx.new[e].closedBy = closes + 1
       /\ tx.op = "close" => tx.new[e].state # "active"
       /\ tx.op \in MemberOps => member[e].state = "active" /\ tx.new[e] # Absent
       /\ member[e].state \in Removed => tx.new[e].state = member[e].state \/ tx.new[e] = Absent
  /\ tx.op \in {"enroll", "correct", "arrive", "close"} => season = "open"
  /\ tx.op \in {"close", "reopen"} => tx.rows = Enrolled
  /\ tx.op = "close" => closes < MaxCloses
  /\ tx.op = "reopen" => season = "closed"
  /\ tx.op = "delete" => Enrolled = {}

LocksAreExclusive ==
  \A t, o \in Tasks : t # o =>
    /\ ~(task[t].season /\ task[o].season)
    /\ task[t].rows \cap task[o].rows = {}

MembersAreWellFormed ==
  /\ member \in [Enrollments -> Members \cup {Absent}]
  /\ \A e \in Enrollments : WellFormed(member[e])

RosterInv ==
  /\ TypeOK
  /\ SeasonAgreesWithMembers
  /\ season = "open" => openClose = 0
  /\ MembersAreWellFormed
  /\ DOMAIN task = Tasks
  /\ \A t \in Tasks : Transaction(task[t]) /\ Sound(task[t])
  /\ LocksAreExclusive

(* What a transaction would leave if it committed now: valid mentorships,  *)
(* and coordinators with the access that their second factor gives them.   *)
After(tx) == [e \in Enrollments |-> IF e \in tx.rows THEN tx.new[e] ELSE member[e]]

MentorshipFits(m, contents) ==
  /\ contents[m.mentor].role \in {"mentor", "coordinator"}
  /\ contents[m.student].role = "student"
  /\ {contents[m.mentor].state, contents[m.student].state} \subseteq {"active", "completed"}

AccessFits(contents) ==
  contents.role = "coordinator" /\ contents.state = "active" =>
    contents.assignment = Target(mfa[contents.user])

LeavesValid(tx) ==
  /\ \A m \in (live \ tx.ends) \cup tx.adds : MentorshipFits(m, After(tx))
  /\ \A e \in tx.rows : AccessFits(tx.new[e])
  /\ tx.op = "mfa" => tx.pending = {e \in Enrollments : AccessOf(e, tx.user, tx.configured)}

Valid == LiveMentorshipsAreValid /\ CoordinatorsHaveMfa

-----------------------------------------------------------------------------
(* Beginning                                                               *)

(* The type of what is committed, apart from that of the transactions. *)
CommittedOK ==
  /\ season \in {"open", "closed", "deleted"}
  /\ closes \in 0..MaxCloses /\ openClose \in 0..closes
  /\ live \subseteq Mentorships
  /\ mfa \in [Users -> BOOLEAN]

LEMMA TypeOfParts ==
  ASSUME CommittedOK', MembersAreWellFormed', DOMAIN task' = Tasks,
         \A t \in Tasks : /\ Transaction(task'[t]) /\ Sound(task[t])'
                          /\ task'[t].held \subseteq Mentorships
  PROVE  TypeOK'
<1>1. member' \in [Enrollments -> Members \cup {Absent}]
  BY DEF MembersAreWellFormed, WellFormed
<1>2. ASSUME NEW t \in Tasks
      PROVE  \A e \in task'[t].rows : task'[t].new[e] \in Members \cup {Absent}
  BY <1>2 DEF Sound, WellFormed
<1>3. ASSUME NEW t \in Tasks
      PROVE  /\ task'[t].op \in Ops /\ task'[t].season \in BOOLEAN
             /\ task'[t].keys \subseteq task'[t].rows /\ task'[t].rows \subseteq Enrollments
             /\ task'[t].op # "none" => DOMAIN task'[t].new = task'[t].rows
             /\ task'[t].ends \subseteq Mentorships /\ task'[t].adds \subseteq Mentorships
             /\ task'[t].user \in Users \cup {NoUser} /\ task'[t].configured \in BOOLEAN
             /\ task'[t].pending \subseteq Enrollments
  BY <1>3 DEF Transaction
<1>4. QED BY <1>1, <1>2, <1>3 DEF TypeOK, CommittedOK

(* A transaction that takes its locks and reads what is committed. *)
LEMMA BeginningIsSound ==
  ASSUME RosterInv, NEW t \in Tasks, NEW tx, Begin(t, tx),
         Transaction(tx), Sound(tx),
         tx.season => SeasonFree(t), \A e \in tx.rows : RowFree(t, e)
  PROVE  RosterInv'
<1> DEFINE begun == [tx EXCEPT !.held = {m \in tx.ends : MentorshipFree(t, m)}]
<1>1. /\ task' = [task EXCEPT ![t] = begun] /\ DOMAIN task = Tasks
      /\ \A o \in Tasks : task'[o] = IF o = t THEN begun ELSE task[o]
  BY DEF Begin, RosterInv
<1>2. /\ begun.op = tx.op /\ begun.season = tx.season /\ begun.rows = tx.rows
      /\ begun.new = tx.new /\ begun.keys = tx.keys /\ begun.ends = tx.ends
      /\ begun.adds = tx.adds /\ begun.user = tx.user /\ begun.configured = tx.configured
      /\ begun.pending = tx.pending /\ begun.held \subseteq tx.ends
      /\ DOMAIN begun = DOMAIN tx
  BY DEF Transaction, NoTask
<1> HIDE DEF begun
<1>3. UNCHANGED <<season, closes, openClose, member, live, mfa>> /\ Enrolled' = Enrolled
  BY DEF Begin, committed, Enrolled
<1>4. \A o \in Tasks : Transaction(task'[o])
  BY <1>1, <1>2 DEF RosterInv, Transaction
<1>5. \A o \in Tasks : Sound(task[o])'
  <2>1. Sound(begun) /\ \A o \in Tasks : Sound(task[o])
    BY <1>2 DEF RosterInv, Sound
  <2>2. QED BY <1>1, <1>3, <2>1 DEF Sound
<1>6. \A o \in Tasks : task'[o].held \subseteq Mentorships
  BY <1>1, <1>2 DEF RosterInv, TypeOK, Transaction
<1>7. LocksAreExclusive'
  <2>1. \A o \in Tasks \ {t} : ~(tx.season /\ task[o].season) /\ tx.rows \cap task[o].rows = {}
    BY DEF SeasonFree, RowFree, Others
  <2>2. QED BY <1>1, <1>2, <2>1 DEF RosterInv, LocksAreExclusive
<1>8. MembersAreWellFormed' /\ CommittedOK' /\ SeasonAgreesWithMembers' /\ DOMAIN task' = Tasks
      /\ (season = "open" => openClose = 0)'
  BY <1>1, <1>3 DEF RosterInv, TypeOK, MembersAreWellFormed, CommittedOK,
       SeasonAgreesWithMembers
<1>9. TypeOK'
  BY <1>1, <1>4, <1>5, <1>6, <1>8, TypeOfParts
<1>10. QED BY <1>4, <1>5, <1>7, <1>8, <1>9 DEF RosterInv

(* What an operation does to the enrollment e, of which it writes n, as the*)
(* members are now: RosterContract's call of that kind.                    *)
NotSeated(u) == \A e \in Enrollments : member[e].user # u

Moves(from, to, m, n) == Seat(n) = IF m.state = from THEN [Seat(m) EXCEPT !.state = to] ELSE Seat(m)

Takes(op, e, n) ==
  LET m == member[e] IN
  /\ op \in {"role", "promote"} => n.user = m.user /\ n.state = m.state /\ n.role \in Roles
  /\ op = "remove" =>
       Seat(n) = [Seat(m) EXCEPT !.state = IF m.role = "student" THEN "kicked" ELSE "withdrawn"]
  /\ op \in {"enroll", "arrive"} =>
       /\ m = Absent /\ NotSeated(n.user)
       /\ n.user \in Users /\ n.role \in Roles /\ n.state \in {"active", "kicked", "withdrawn"}
  /\ op = "correct" =>
       /\ m # Absent
       /\ \/ n = Absent
          \/ n.user \in Users /\ n.role = m.role /\ n.state = m.state /\ NotSeated(n.user)
  /\ op = "close" => Moves("active", "completed", m, n)
  /\ op = "reopen" => Moves("completed", "active", m, n)

(* What a transaction is going to write is what its call does to the       *)
(* members as they are, although it decided before others committed.       *)
UpToDate(tx) ==
  /\ tx.op \in MemberOps \cup {"enroll", "correct", "arrive"} => \E e \in Enrollments : tx.rows = {e}
  /\ \A e \in tx.rows : Takes(tx.op, e, tx.new[e])
  /\ tx.op = "delete" => season # "deleted"

(* How a transaction begins: sound, up to date, and, where what is         *)
(* committed is valid, to leave it valid.                                  *)
Begins(t, tx) ==
  /\ Begin(t, tx) /\ Transaction(tx) /\ Sound(tx) /\ UpToDate(tx)
  /\ tx.season => SeasonFree(t)
  /\ \A e \in tx.rows : RowFree(t, e)
  /\ Valid => LeavesValid(tx)

(* A transaction that writes one row, with the contents m. *)
OneRow(tx, e, m) ==
  /\ DOMAIN tx = DOMAIN NoTask
  /\ tx.op \in MemberOps \cup {"enroll", "correct", "arrive"}
  /\ tx.season <=> tx.op \in SeasonOps
  /\ tx.season \in BOOLEAN
  /\ tx.rows = {e} /\ tx.new = Only(e, m) /\ tx.keys \subseteq {e}
  /\ tx.ends \subseteq live /\ tx.adds = {}
  /\ tx.user = NoUser /\ tx.configured = FALSE /\ tx.pending = {}

(* The mentorships that a transaction leaves alone fit what it writes. *)
RowFits(ends, e, m) ==
  /\ AccessFits(m)
  /\ \A p \in live \ ends :
       /\ p.mentor = e => \/ member[e] = Absent
                          \/ m.role \in {"mentor", "coordinator"} /\ m.state = "active"
       /\ p.student = e => \/ member[e] = Absent
                           \/ m.role = "student" /\ m.state = "active"

LEMMA OneRowBegins ==
  ASSUME RosterInv, NEW t \in Tasks, NEW tx, NEW e \in Enrollments, NEW m,
         Begin(t, tx), OneRow(tx, e, m), RowFree(t, e),
         tx.op \in SeasonOps => LocksOpenSeason(t),
         WellFormed(m), m.closedBy = 0,
         tx.op \in MemberOps => member[e].state = "active" /\ m # Absent,
         member[e].state \in Removed => m.state = member[e].state \/ m = Absent,
         RowFits(tx.ends, e, m), Takes(tx.op, e, m)
  PROVE  Begins(t, tx)
<1>1. Transaction(tx)
  BY DEF OneRow, Only, Transaction, Ops, MemberOps, RosterInv, TypeOK
<1>2. tx.new[e] = m
  BY DEF OneRow, Only
<1>3. Sound(tx)
  BY <1>2 DEF OneRow, Sound, SeasonOps, MemberOps, RowlessOps, LocksOpenSeason
<1>4. (tx.season => SeasonFree(t)) /\ \A x \in tx.rows : RowFree(t, x)
  BY DEF OneRow, LocksOpenSeason
<1>5. ASSUME Valid, NEW p \in live \ tx.ends
      PROVE  MentorshipFits(p, After(tx))
  <2>1. p.mentor \in Enrollments /\ p.student \in Enrollments
    BY DEF RosterInv, TypeOK, Mentorships
  <2>2. MentorshipFits(p, member)
    BY <1>5 DEF Valid, LiveMentorshipsAreValid, MentorshipFits
  <2>3. member[p.mentor] # Absent /\ member[p.student] # Absent
    BY <2>2 DEF MentorshipFits, Absent
  <2>4. \A x \in Enrollments : After(tx)[x] = IF x = e THEN m ELSE member[x]
    BY <1>2 DEF After, OneRow
  <2>5. QED BY <2>1, <2>2, <2>3, <2>4 DEF RowFits, MentorshipFits
<1>6. Valid => LeavesValid(tx)
  BY <1>2, <1>5 DEF LeavesValid, OneRow, RowFits, MemberOps
<1>7. UpToDate(tx)
  BY <1>2 DEF UpToDate, OneRow, MemberOps
<1>8. QED BY <1>1, <1>3, <1>4, <1>6, <1>7 DEF Begins

(* What is known of a member. *)
LEMMA MemberFacts ==
  ASSUME RosterInv, NEW e \in Enrollments
  PROVE  /\ WellFormed(member[e])
         /\ member[e].state = "active" => member[e] \in Members /\ member[e].closedBy = 0
         /\ season = "open" => member[e].closedBy = 0
  BY DEF RosterInv, MembersAreWellFormed, WellFormed, Absent, SeasonAgreesWithMembers

(* The trigger gives a coordinator the access that the second factor gives.*)
LEMMA AssignmentFits ==
  ASSUME NEW u
  PROVE  Assignment("coordinator", u) = Target(mfa[u])
  BY DEF Assignment, Target

LEMMA WithRoleIsWellFormed ==
  ASSUME NEW m \in Members, m.closedBy = 0, m.state = "active", NEW role \in Roles
  PROVE  LET n == WithRole(m, role) IN
         /\ WellFormed(n) /\ n.closedBy = 0 /\ n.state = "active" /\ n # Absent /\ n.role = role
         /\ n.user = m.user /\ n.assignment = Assignment(role, m.user)
<1>1. Assignment(role, m.user) \in {"active", "pending_mfa"}
  BY DEF Assignment
<1>2. QED BY <1>1 DEF WithRole, WellFormed, Members, Absent

LEMMA CreateEnrollmentBegins ==
  ASSUME RosterInv, NEW t \in Tasks, NEW e \in Enrollments, NEW u \in Users, NEW role \in Roles,
         CreateEnrollment(t, e, u, role)
  PROVE  \E begun : Begins(t, begun)
<1> DEFINE m == [user |-> u, role |-> role, state |-> "active",
                 assignment |-> Assignment(role, u), closedBy |-> 0, snapshot |-> "none"]
           tx == [NoTask EXCEPT !.op = "enroll", !.season = TRUE, !.rows = {e},
                                !.new = Only(e, m)]
<1>1. WellFormed(m) /\ m.closedBy = 0
  BY ClosesAssumption DEF WellFormed, Members, Absent, Assignment
<1>2. Begin(t, tx) /\ LocksOpenSeason(t) /\ RowFree(t, e) /\ member[e] = Absent
  BY DEF CreateEnrollment
<1>3. member[e].state \notin Removed
  BY <1>2 DEF Absent, Removed
<1>4. OneRow(tx, e, m) /\ tx.op = "enroll"
  BY DEF OneRow, NoTask, SeasonOps
<1>5. RowFits(tx.ends, e, m)
  BY <1>2, AssignmentFits DEF RowFits, AccessFits
<1>6. Takes("enroll", e, m)
  BY <1>2 DEF Takes, NotSeated, CreateEnrollment
<1> HIDE DEF m, tx
<1>7. Begins(t, tx)
  BY <1>1, <1>2, <1>3, <1>4, <1>5, <1>6, OneRowBegins DEF MemberOps
<1>8. QED BY <1>7

LEMMA UpdateRoleBegins ==
  ASSUME RosterInv, NEW t \in Tasks, NEW e \in Enrollments, NEW role \in Roles,
         UpdateEnrollmentRoleAndLevel(t, e, role)
  PROVE  \E begun : Begins(t, begun)
<1> DEFINE m == WithRole(member[e], role)
           tx == [NoTask EXCEPT !.op = "role", !.rows = {e}, !.new = Only(e, m),
                    !.ends = IF role = "student" THEN AsMentor(e) ELSE AsStudent(e)]
<1>1. /\ WellFormed(m) /\ m.closedBy = 0 /\ m # Absent
      /\ m.state = "active" /\ m.role = role /\ m.assignment = Assignment(role, m.user)
      /\ m.user = member[e].user
  BY MemberFacts, WithRoleIsWellFormed DEF Roles, UpdateEnrollmentRoleAndLevel
<1>2. Begin(t, tx) /\ RowFree(t, e) /\ member[e].state = "active"
  BY DEF UpdateEnrollmentRoleAndLevel
<1>3. OneRow(tx, e, m) /\ tx.op = "role"
  BY DEF OneRow, NoTask, SeasonOps, MemberOps, AsMentor, AsStudent
<1>4. RowFits(tx.ends, e, m)
  BY <1>1, AssignmentFits DEF RowFits, AccessFits, NoTask, AsMentor, AsStudent, Roles
<1> HIDE DEF m, tx
<1>5. Takes("role", e, m)
  BY <1>1, <1>2 DEF Takes
<1>6. Begins(t, tx)
  BY <1>1, <1>2, <1>3, <1>4, <1>5, OneRowBegins DEF Removed, SeasonOps
<1>7. QED BY <1>6

LEMMA PromoteBegins ==
  ASSUME RosterInv, NEW t \in Tasks, NEW e \in Enrollments, NEW role \in {"mentor", "coordinator"},
         PromoteEnrollment(t, e, role)
  PROVE  \E begun : Begins(t, begun)
<1> DEFINE m == WithRole(member[e], role)
           tx == [NoTask EXCEPT !.op = "promote", !.rows = {e}, !.keys = {e},
                    !.new = Only(e, m), !.ends = AsStudent(e)]
<1>1. /\ WellFormed(m) /\ m.closedBy = 0 /\ m # Absent
      /\ m.state = "active" /\ m.role = role /\ m.assignment = Assignment(role, m.user)
      /\ m.user = member[e].user
  BY MemberFacts, WithRoleIsWellFormed DEF Roles, PromoteEnrollment
<1>2. Begin(t, tx) /\ RowFree(t, e) /\ member[e].state = "active"
  BY DEF PromoteEnrollment
<1>3. OneRow(tx, e, m) /\ tx.op = "promote"
  BY DEF OneRow, NoTask, SeasonOps, MemberOps, AsStudent
<1>4. RowFits(tx.ends, e, m)
  BY <1>1, AssignmentFits DEF RowFits, AccessFits, NoTask, AsStudent
<1> HIDE DEF m, tx
<1>5. Takes("promote", e, m)
  BY <1>1, <1>2 DEF Takes, Roles
<1>6. Begins(t, tx)
  BY <1>1, <1>2, <1>3, <1>4, <1>5, OneRowBegins DEF Removed, SeasonOps
<1>7. QED BY <1>6

LEMMA RemoveBegins ==
  ASSUME RosterInv, NEW t \in Tasks, NEW e \in Enrollments, RemoveEnrollment(t, e)
  PROVE  \E begun : Begins(t, begun)
<1> DEFINE m == [member[e] EXCEPT !.state = IF member[e].role = "student"
                                            THEN "kicked" ELSE "withdrawn",
                                  !.assignment = "revoked"]
           tx == [NoTask EXCEPT !.op = "remove", !.rows = {e}, !.keys = {e},
                    !.new = Only(e, m), !.ends = AsStudent(e) \cup AsMentor(e)]
<1>1. Begin(t, tx) /\ RowFree(t, e) /\ member[e].state = "active"
  BY DEF RemoveEnrollment
<1>2. WellFormed(m) /\ m.closedBy = 0 /\ m # Absent
  BY <1>1, MemberFacts DEF WellFormed, Members, Absent, Removed
<1>3. OneRow(tx, e, m) /\ tx.op = "remove"
  BY DEF OneRow, NoTask, SeasonOps, MemberOps, AsStudent, AsMentor
<1>4. RowFits(tx.ends, e, m)
  BY <1>1, <1>2 DEF RowFits, AccessFits, NoTask, AsMentor, AsStudent
<1>5. Takes("remove", e, m)
  <2>1. member[e] \in Members
    BY <1>1, MemberFacts
  <2>2. QED BY <2>1 DEF Takes, Seat, Members
<1> HIDE DEF m, tx
<1>6. Begins(t, tx)
  BY <1>1, <1>2, <1>3, <1>4, <1>5, OneRowBegins DEF Removed, SeasonOps
<1>7. QED BY <1>6

LEMMA CorrectBegins ==
  ASSUME RosterInv, NEW t \in Tasks, NEW e \in Enrollments, NEW u \in Users \cup {NoUser},
         CorrectEnrollment(t, e, u)
  PROVE  \E begun : Begins(t, begun)
<1> DEFINE m == IF u = NoUser THEN Absent
                ELSE [member[e] EXCEPT !.user = u,
                        !.assignment = IF member[e].state = "active"
                                       THEN Assignment(member[e].role, u) ELSE @]
           tx == [NoTask EXCEPT !.op = "correct", !.season = TRUE, !.rows = {e},
                    !.keys = {e}, !.new = Only(e, m), !.ends = AsStudent(e) \cup AsMentor(e)]
<1>1. /\ Begin(t, tx) /\ RowFree(t, e) /\ LocksOpenSeason(t) /\ season = "open"
      /\ member[e] # Absent
  BY DEF CorrectEnrollment, LocksOpenSeason
<1>2. /\ WellFormed(m) /\ m.closedBy = 0 /\ (m.state = member[e].state \/ m = Absent)
      /\ AccessFits(m)
  <2>1. CASE u = NoUser
    BY <2>1 DEF WellFormed, Absent, AccessFits
  <2>2. CASE u # NoUser
    <3>1. member[e] \in Members /\ member[e].closedBy = 0 /\ WellFormed(member[e]) /\ u \in Users
      BY <1>1, <2>2, MemberFacts DEF WellFormed
    <3>2. Assignment(member[e].role, u) \in {"active", "pending_mfa"}
      BY DEF Assignment
    <3>3. AccessFits(m)
      BY <2>2, <3>1, AssignmentFits DEF AccessFits, Members
    <3>4. QED BY <2>2, <3>1, <3>2, <3>3 DEF WellFormed, Members
  <2>3. QED BY <2>1, <2>2
<1>3. OneRow(tx, e, m) /\ tx.op = "correct"
  BY DEF OneRow, NoTask, SeasonOps, AsStudent, AsMentor
<1>4. RowFits(tx.ends, e, m)
  BY <1>1, <1>2 DEF RowFits, NoTask, AsMentor, AsStudent
<1>5. Takes("correct", e, m)
  <2>1. CASE u = NoUser
    BY <1>1, <2>1 DEF Takes
  <2>2. CASE u # NoUser
    <3>1. member[e] \in Members /\ u \in Users /\ NotSeated(u)
      BY <1>1, <2>2, MemberFacts DEF WellFormed, NotSeated, CorrectEnrollment
    <3>2. m.user = u /\ m.role = member[e].role /\ m.state = member[e].state
      BY <2>2, <3>1 DEF Members
    <3>3. QED BY <1>1, <3>1, <3>2 DEF Takes
  <2>3. QED BY <2>1, <2>2
<1> HIDE DEF m, tx
<1>6. Begins(t, tx)
  BY <1>1, <1>2, <1>3, <1>4, <1>5, OneRowBegins DEF MemberOps
<1>7. QED BY <1>6

LEMMA CorrectIntoSeasonBegins ==
  ASSUME RosterInv, NEW t \in Tasks, NEW e \in Enrollments, NEW u \in Users, NEW role \in Roles,
         NEW state \in {"active"} \cup Removed, CorrectIntoSeason(t, e, u, role, state)
  PROVE  \E begun : Begins(t, begun)
<1> DEFINE m == [user |-> u, role |-> role, state |-> state,
                 assignment |-> IF state = "active" THEN Assignment(role, u) ELSE "revoked",
                 closedBy |-> 0, snapshot |-> "none"]
           tx == [NoTask EXCEPT !.op = "arrive", !.season = TRUE, !.rows = {e}, !.keys = {e},
                                !.new = Only(e, m)]
<1>1. WellFormed(m) /\ m.closedBy = 0
  BY ClosesAssumption DEF WellFormed, Members, Absent, Assignment, Removed
<1>2. Begin(t, tx) /\ LocksOpenSeason(t) /\ RowFree(t, e) /\ member[e] = Absent
  BY DEF CorrectIntoSeason
<1>3. member[e].state \notin Removed
  BY <1>2 DEF Absent, Removed
<1>4. OneRow(tx, e, m) /\ tx.op = "arrive"
  BY DEF OneRow, NoTask, SeasonOps
<1>5. RowFits(tx.ends, e, m)
  BY <1>2, AssignmentFits DEF RowFits, AccessFits
<1>6. Takes("arrive", e, m)
  BY <1>2 DEF Takes, NotSeated, CorrectIntoSeason, Removed
<1> HIDE DEF m, tx
<1>7. Begins(t, tx)
  BY <1>1, <1>2, <1>3, <1>4, <1>5, <1>6, OneRowBegins DEF MemberOps
<1>8. QED BY <1>7

(* A member whose season is closed or reopened keeps their role. *)
StaysMember(e, m) ==
  /\ m.role = member[e].role /\ AccessFits(m)
  /\ member[e].state \in {"active", "completed"} => m.state \in {"active", "completed"}

LEMMA AllRowsLeaveValid ==
  ASSUME RosterInv, Valid, NEW tx, tx.rows = Enrolled, tx.ends = {}, tx.adds = {}, tx.op # "mfa",
         \A e \in Enrolled : StaysMember(e, tx.new[e])
  PROVE  LeavesValid(tx)
<1>1. ASSUME NEW m \in live
      PROVE  MentorshipFits(m, After(tx))
  <2>1. m.mentor \in Enrollments /\ m.student \in Enrollments
    BY DEF RosterInv, TypeOK, Mentorships
  <2>2. MentorshipFits(m, member)
    BY DEF Valid, LiveMentorshipsAreValid, MentorshipFits
  <2>3. m.mentor \in Enrolled /\ m.student \in Enrolled
    BY <2>1, <2>2 DEF MentorshipFits, Absent, Enrolled
  <2>4. \A e \in Enrolled : After(tx)[e] = tx.new[e]
    BY DEF After, Enrolled
  <2>5. QED BY <2>2, <2>3, <2>4 DEF StaysMember, MentorshipFits
<1>2. QED BY <1>1 DEF LeavesValid, StaysMember

LEMMA CloseSeasonBegins ==
  ASSUME RosterInv, NEW t \in Tasks, CloseSeason(t)
  PROVE  \E begun : Begins(t, begun)
<1> DEFINE new == [e \in Enrolled |-> IF member[e].state = "active"
                                      THEN Completed(member[e], closes + 1) ELSE member[e]]
           tx == [NoTask EXCEPT !.op = "close", !.season = TRUE, !.rows = Enrolled,
                                !.keys = Enrolled, !.new = new]
<1>1. /\ Begin(t, tx) /\ SeasonFree(t) /\ \A e \in Enrolled : RowFree(t, e)
      /\ season = "open" /\ closes < MaxCloses
  BY DEF CloseSeason
<1>2. closes + 1 \in 0..MaxCloses /\ closes + 1 # 0
  BY <1>1, ClosesAssumption DEF RosterInv, TypeOK
<1>3. ASSUME NEW e \in Enrolled
      PROVE  /\ WellFormed(new[e]) /\ new[e].state # "active"
             /\ new[e].closedBy # 0 => new[e].closedBy = closes + 1
             /\ member[e].state \in Removed => new[e].state = member[e].state
             /\ StaysMember(e, new[e])
             /\ Takes("close", e, new[e])
  <2>1. e \in Enrollments
    BY DEF Enrolled
  <2>2. WellFormed(member[e]) /\ member[e].closedBy = 0
    BY <1>1, <2>1, MemberFacts
  <2>3. CASE member[e].state = "active"
    <3>1. member[e] \in Members /\ new[e] = Completed(member[e], closes + 1)
      BY <2>1, <2>3, MemberFacts
    <3>2. Takes("close", e, new[e])
      BY <2>3, <3>1 DEF Takes, Moves, Seat, Completed, Members
    <3>3. QED BY <1>2, <2>2, <2>3, <3>1, <3>2
                 DEF WellFormed, Completed, Members, Removed, Absent, StaysMember, AccessFits
  <2>4. CASE member[e].state # "active"
    BY <2>2, <2>4 DEF StaysMember, AccessFits, Takes, Moves
  <2>5. QED BY <2>3, <2>4
<1>4. /\ tx.op = "close" /\ tx.season = TRUE /\ tx.rows = Enrolled /\ tx.keys = Enrolled
      /\ tx.new = new /\ DOMAIN new = Enrolled /\ DOMAIN tx = DOMAIN NoTask
      /\ tx.ends = {} /\ tx.adds = {} /\ tx.pending = {}
      /\ tx.user = NoUser /\ tx.configured = FALSE
  BY DEF NoTask
<1> HIDE DEF new, tx
<1>5. Transaction(tx)
  BY <1>4 DEF Transaction, Ops, Enrolled
<1>6. Sound(tx)
  BY <1>1, <1>3, <1>4 DEF Sound, SeasonOps, RowlessOps, MemberOps
<1>7. Valid => LeavesValid(tx)
  BY <1>3, <1>4, AllRowsLeaveValid
<1>8. UpToDate(tx)
  BY <1>3, <1>4 DEF UpToDate, MemberOps
<1>9. Begins(t, tx)
  BY <1>1, <1>4, <1>5, <1>6, <1>7, <1>8 DEF Begins
<1>10. QED BY <1>9

LEMMA RestoredIsWellFormed ==
  ASSUME NEW m \in Members, m.snapshot \in {"active", "pending_mfa"}
  PROVE  LET n == Restored(m) IN
         /\ WellFormed(n) /\ n.closedBy = 0 /\ n.state = "active" /\ n.role = m.role
         /\ AccessFits(n) /\ n.user = m.user
<1> DEFINE a == IF m.role = "coordinator" THEN Assignment(m.role, m.user) ELSE m.snapshot
<1>1. a \in {"active", "pending_mfa"}
  BY DEF Assignment
<1>2. Restored(m) = [m EXCEPT !.state = "active", !.closedBy = 0, !.snapshot = "none",
                              !.assignment = a]
  BY DEF Restored
<1> HIDE DEF a
<1>3. 0 \in 0..MaxCloses
  BY ClosesAssumption
<1>4. Restored(m) \in Members
  BY <1>1, <1>2, <1>3 DEF Members
<1>5. m.role = "coordinator" => a = Target(mfa[m.user])
  BY AssignmentFits DEF a
<1>6. QED BY <1>1, <1>2, <1>4, <1>5 DEF WellFormed, Members, AccessFits

LEMMA ReopenSeasonBegins ==
  ASSUME RosterInv, NEW t \in Tasks, ReopenSeason(t)
  PROVE  \E begun : Begins(t, begun)
<1> DEFINE new == [e \in Enrolled |->
                     IF member[e].state = "completed" /\ member[e].closedBy = openClose
                     THEN Restored(member[e]) ELSE member[e]]
           tx == [NoTask EXCEPT !.op = "reopen", !.season = TRUE, !.rows = Enrolled,
                                !.keys = Enrolled, !.new = new]
<1>1. /\ Begin(t, tx) /\ SeasonFree(t) /\ \A e \in Enrolled : RowFree(t, e)
      /\ season = "closed"
  BY DEF ReopenSeason
<1>2. ASSUME NEW e \in Enrolled
      PROVE  /\ WellFormed(new[e]) /\ new[e].closedBy = 0
             /\ member[e].state \in Removed => new[e].state = member[e].state
             /\ StaysMember(e, new[e])
             /\ Takes("reopen", e, new[e])
  <2>1. e \in Enrollments
    BY DEF Enrolled
  <2>2. WellFormed(member[e])
    BY <2>1, MemberFacts
  <2>3. member[e].closedBy # 0 => member[e].closedBy = openClose /\ member[e].state = "completed"
    BY <2>1 DEF RosterInv, SeasonAgreesWithMembers
  <2>4. CASE member[e].closedBy # 0
    <3>1. member[e] \in Members /\ new[e] = Restored(member[e])
      BY <2>2, <2>3, <2>4 DEF WellFormed, Absent
    <3>2. member[e].snapshot \in {"active", "pending_mfa"}
      BY <2>2, <2>4, <3>1 DEF WellFormed, Members
    <3>3. Takes("reopen", e, new[e])
      BY <2>3, <2>4, <3>1, <3>2, RestoredIsWellFormed DEF Takes, Moves, Seat
    <3>4. QED BY <2>3, <2>4, <3>1, <3>2, <3>3, RestoredIsWellFormed DEF Removed, StaysMember
  <2>5. CASE member[e].closedBy = 0
    <3>1. new[e] = member[e] /\ member[e].state # "active"
      BY <1>1, <2>1, <2>2, <2>5 DEF WellFormed, RosterInv, SeasonAgreesWithMembers
    <3>2. member[e].state # "completed"
      BY <2>2, <2>5 DEF WellFormed
    <3>3. QED BY <2>2, <2>5, <3>1, <3>2 DEF StaysMember, AccessFits, Takes, Moves
  <2>6. QED BY <2>4, <2>5
<1>3. /\ tx.op = "reopen" /\ tx.season = TRUE /\ tx.rows = Enrolled /\ tx.keys = Enrolled
      /\ tx.new = new /\ DOMAIN new = Enrolled /\ DOMAIN tx = DOMAIN NoTask
      /\ tx.ends = {} /\ tx.adds = {} /\ tx.pending = {}
      /\ tx.user = NoUser /\ tx.configured = FALSE
  BY DEF NoTask
<1> HIDE DEF new, tx
<1>4. Transaction(tx)
  BY <1>3 DEF Transaction, Ops, Enrolled
<1>5. Sound(tx)
  BY <1>1, <1>2, <1>3 DEF Sound, SeasonOps, RowlessOps, MemberOps
<1>6. Valid => LeavesValid(tx)
  BY <1>2, <1>3, AllRowsLeaveValid
<1>7. UpToDate(tx)
  BY <1>2, <1>3 DEF UpToDate, MemberOps
<1>8. Begins(t, tx)
  BY <1>1, <1>3, <1>4, <1>5, <1>6, <1>7 DEF Begins
<1>9. QED BY <1>8

LEMMA DeleteEmptySeasonBegins ==
  ASSUME RosterInv, NEW t \in Tasks, DeleteEmptySeason(t)
  PROVE  \E begun : Begins(t, begun)
<1> DEFINE tx == [NoTask EXCEPT !.op = "delete", !.season = TRUE]
<1>1. Begin(t, tx) /\ SeasonFree(t) /\ Enrolled = {} /\ season # "deleted"
  BY DEF DeleteEmptySeason
<1>2. /\ Transaction(tx) /\ tx.rows = {} /\ tx.op = "delete" /\ tx.season = TRUE
      /\ tx.ends = {} /\ tx.adds = {}
  BY DEF Transaction, Ops, NoTask
<1> HIDE DEF tx
<1>3. Sound(tx)
  BY <1>1, <1>2 DEF Sound, SeasonOps, RowlessOps
<1>4. Valid => LeavesValid(tx)
  BY <1>1, <1>2, AllRowsLeaveValid
<1>5. UpToDate(tx)
  BY <1>1, <1>2 DEF UpToDate, MemberOps
<1>6. Begins(t, tx)
  BY <1>1, <1>2, <1>3, <1>4, <1>5 DEF Begins
<1>7. QED BY <1>6

(* A transaction that neither writes a row nor locks the season. *)
Rowless(tx) ==
  /\ Transaction(tx) /\ tx.op \in {"mfa", "mentor", "reassign"}
  /\ tx.rows = {} /\ tx.season = FALSE

LEMMA RowlessBegins ==
  ASSUME RosterInv, NEW t \in Tasks, NEW tx, Begin(t, tx), Rowless(tx),
         \A m \in tx.adds : MentorshipFits(m, member),
         tx.op = "mfa" => tx.pending = {e \in Enrollments : AccessOf(e, tx.user, tx.configured)}
  PROVE  Begins(t, tx)
<1>1. Sound(tx)
  BY DEF Sound, Rowless, SeasonOps, RowlessOps
<1>2. \A e \in Enrollments : After(tx)[e] = member[e]
  BY DEF After, Rowless
<1>3. ASSUME Valid, NEW m \in (live \ tx.ends) \cup tx.adds
      PROVE  MentorshipFits(m, After(tx))
  <2>1. m.mentor \in Enrollments /\ m.student \in Enrollments
    BY DEF RosterInv, TypeOK, Mentorships, Rowless, Transaction
  <2>2. MentorshipFits(m, member)
    BY <1>3 DEF Valid, LiveMentorshipsAreValid, MentorshipFits
  <2>3. QED BY <1>2, <2>1, <2>2 DEF MentorshipFits
<1>4. Valid => LeavesValid(tx)
  BY <1>3 DEF LeavesValid, Rowless
<1>5. UpToDate(tx)
  BY DEF UpToDate, Rowless, MemberOps
<1>6. QED BY <1>1, <1>4, <1>5 DEF Begins, Rowless

LEMMA MentorshipsBegin ==
  ASSUME RosterInv, NEW t \in Tasks, NEW mentor \in Enrollments, NEW student \in Enrollments,
         \/ CreateMentorship(t, mentor, student)
         \/ \E m \in live : UpdateMentorship(t, m, mentor, student)
  PROVE  \E begun : Begins(t, begun)
<1>1. Pair(mentor, student) \in Mentorships /\ live \subseteq Mentorships
  BY DEF Pair, Mentorships, RosterInv, TypeOK
<1>2. MentorshipFits(Pair(mentor, student), member)
  BY DEF CreateMentorship, UpdateMentorship, CanMentor, CanLearn, Pair, MentorshipFits
<1>3. CASE CreateMentorship(t, mentor, student)
  <2> DEFINE tx == [NoTask EXCEPT !.op = "mentor", !.adds = {Pair(mentor, student)}]
  <2>1. Begin(t, tx)
    BY <1>3 DEF CreateMentorship
  <2>2. Rowless(tx) /\ tx.adds = {Pair(mentor, student)} /\ tx.op = "mentor"
    BY <1>1 DEF Rowless, Transaction, Ops, NoTask
  <2> HIDE DEF tx
  <2>3. Begins(t, tx)
    BY <1>2, <2>1, <2>2, RowlessBegins
  <2>4. QED BY <2>3
<1>4. ASSUME NEW m \in live, UpdateMentorship(t, m, mentor, student)
      PROVE  \E begun : Begins(t, begun)
  <2> DEFINE tx == [NoTask EXCEPT !.op = "reassign", !.ends = {m},
                      !.adds = {Pair(mentor, student)}]
  <2>1. Begin(t, tx)
    BY <1>4 DEF UpdateMentorship
  <2>2. Rowless(tx) /\ tx.adds = {Pair(mentor, student)} /\ tx.op = "reassign"
    BY <1>1 DEF Rowless, Transaction, Ops, NoTask
  <2> HIDE DEF tx
  <2>3. Begins(t, tx)
    BY <1>2, <2>1, <2>2, RowlessBegins
  <2>4. QED BY <2>3
<1>5. QED BY <1>3, <1>4

LEMMA ApplyMfaBegins ==
  ASSUME RosterInv, NEW t \in Tasks, NEW u \in Users, NEW configured \in BOOLEAN,
         ApplyMfa(t, u, configured)
  PROVE  \E begun : Begins(t, begun)
<1> DEFINE tx == [NoTask EXCEPT !.op = "mfa", !.user = u, !.configured = configured,
                    !.pending = {e \in Enrollments : AccessOf(e, u, configured)}]
<1>1. Begin(t, tx)
  BY DEF ApplyMfa
<1>2. Rowless(tx) /\ tx.adds = {}
  BY DEF Rowless, Transaction, Ops, NoTask
<1>3. /\ tx.user = u /\ tx.configured = configured
      /\ tx.pending = {e \in Enrollments : AccessOf(e, u, configured)}
  BY DEF NoTask
<1> HIDE DEF tx
<1>4. Begins(t, tx)
  BY <1>1, <1>2, <1>3, RowlessBegins
<1>5. QED BY <1>4

(* Whatever begins, begins so. *)
LEMMA RequestsBegin ==
  ASSUME RosterInv, NEW t \in Tasks,
         \/ Membership(t) \/ Season(t) \/ Mentoring(t)
         \/ \E u \in Users, configured \in BOOLEAN : ApplyMfa(t, u, configured)
  PROVE  \E begun : Begins(t, begun)
<1>1. CASE Membership(t)
  <2>1. PICK e \in Enrollments :
          \/ \E u \in Users, role \in Roles : CreateEnrollment(t, e, u, role)
          \/ \E role \in {"student", "mentor"} : UpdateEnrollmentRoleAndLevel(t, e, role)
          \/ \E role \in {"mentor", "coordinator"} : PromoteEnrollment(t, e, role)
          \/ RemoveEnrollment(t, e)
          \/ \E u \in Users \cup {NoUser} : CorrectEnrollment(t, e, u)
          \/ \E u \in Users, role \in Roles, state \in {"active"} \cup Removed :
               CorrectIntoSeason(t, e, u, role, state)
    BY <1>1 DEF Membership
  <2>2. {"student", "mentor"} \subseteq Roles
    BY DEF Roles
  <2>3. QED BY <2>1, <2>2, CreateEnrollmentBegins, UpdateRoleBegins, PromoteBegins,
               RemoveBegins, CorrectBegins, CorrectIntoSeasonBegins
<1>2. CASE Season(t)
  BY <1>2, CloseSeasonBegins, ReopenSeasonBegins, DeleteEmptySeasonBegins DEF Season
<1>3. CASE Mentoring(t)
  BY <1>3, MentorshipsBegin DEF Mentoring
<1>4. QED BY <1>1, <1>2, <1>3, ApplyMfaBegins

-----------------------------------------------------------------------------
(* Ending                                                                  *)

(* Of a transaction only the mentorships it is going to end became fewer.  *)
WaitsForFewer(before, after) ==
  /\ DOMAIN after = DOMAIN before
  /\ after.op = before.op /\ after.season = before.season
  /\ after.rows = before.rows /\ after.new = before.new /\ after.keys = before.keys
  /\ after.adds = before.adds /\ after.user = before.user
  /\ after.configured = before.configured /\ after.pending = before.pending
  /\ after.ends \subseteq before.ends /\ after.held \subseteq before.held

(* The transactions of ts end; the others find some mentorships ended. *)
TransactionsEnd(ts) ==
  /\ DOMAIN task' = Tasks
  /\ \A t \in ts : task'[t] = NoTask
  /\ \A o \in Tasks \ ts : WaitsForFewer(task[o], task'[o])

LEMMA EndedWaitsForFewer ==
  ASSUME RosterInv, NEW ms
  PROVE  /\ DOMAIN Ended(ms) = Tasks
         /\ \A o \in Tasks : /\ WaitsForFewer(task[o], Ended(ms)[o])
                             /\ Ended(ms)[o].ends = task[o].ends \ ms
<1>1. ASSUME NEW o \in Tasks
      PROVE  /\ WaitsForFewer(task[o], Ended(ms)[o])
             /\ Ended(ms)[o].ends = task[o].ends \ ms
  <2>1. DOMAIN task[o] = DOMAIN NoTask
    BY DEF RosterInv, Transaction
  <2>2. Ended(ms)[o] = [task[o] EXCEPT !.ends = task[o].ends \ ms, !.held = task[o].held \ ms]
    BY DEF Ended
  <2>3. QED BY <2>1, <2>2 DEF WaitsForFewer, NoTask
<1>2. QED BY <1>1 DEF Ended

LEMMA NothingBegun == Transaction(NoTask) /\ NoTask.held = {} /\ NoTask.rows = {} /\ NoTask.season = FALSE
                      /\ NoTask.op = "none"
  BY DEF Transaction, NoTask, Ops

LEMMA LeftOver ==
  ASSUME RosterInv, NEW ts \in SUBSET Tasks, TransactionsEnd(ts)
  PROVE  /\ \A o \in Tasks : Transaction(task'[o]) /\ task'[o].held \subseteq Mentorships
         /\ LocksAreExclusive'
<1>1. ASSUME NEW o \in Tasks
      PROVE  /\ Transaction(task'[o]) /\ task'[o].held \subseteq Mentorships
             /\ task'[o].rows \subseteq task[o].rows
             /\ task'[o].season => task[o].season
  <2>1. Transaction(task[o]) /\ task[o].held \subseteq Mentorships
    BY DEF RosterInv, TypeOK
  <2>2. CASE o \in ts
    BY <2>2, NothingBegun DEF TransactionsEnd
  <2>3. CASE o \notin ts
    BY <2>1, <2>3 DEF TransactionsEnd, WaitsForFewer, Transaction
  <2>4. QED BY <2>2, <2>3
<1>2. LocksAreExclusive'
  BY <1>1 DEF RosterInv, LocksAreExclusive
<1>3. QED BY <1>1, <1>2

(* Transactions end and nothing that the others hold has changed. *)
LEMMA OthersStaySound ==
  ASSUME RosterInv, NEW ts \in SUBSET Tasks, TransactionsEnd(ts),
         \A o \in Tasks \ ts : /\ task[o].season => UNCHANGED <<season, closes>>
                               /\ task[o].season => Enrolled' = Enrolled
                               /\ \A e \in task[o].rows : member'[e] = member[e]
  PROVE  \A o \in Tasks : Sound(task[o])'
<1>1. ASSUME NEW o \in ts
      PROVE  Sound(task[o])'
  <2>1. task'[o] = NoTask
    BY DEF TransactionsEnd
  <2>2. QED BY <2>1, NothingBegun DEF Sound, SeasonOps, RowlessOps, MemberOps
<1>2. ASSUME NEW o \in Tasks \ ts
      PROVE  Sound(task[o])'
  <2>1. Sound(task[o])
    BY DEF RosterInv
  <2>2. /\ task'[o].op = task[o].op /\ task'[o].season = task[o].season
        /\ task'[o].rows = task[o].rows /\ task'[o].new = task[o].new
    BY DEF TransactionsEnd, WaitsForFewer
  <2>3. CASE task[o].season
    BY <2>1, <2>2, <2>3 DEF Sound
  <2>4. CASE ~task[o].season
    <3>1. task[o].op \notin SeasonOps
      BY <2>1, <2>4 DEF Sound
    <3>2. \A e \in task[o].rows : task[o].new[e].closedBy = 0
      BY <2>1, <3>1 DEF Sound, SeasonOps
    <3>3. QED BY <2>1, <2>2, <3>1, <3>2 DEF Sound, SeasonOps
  <2>5. QED BY <2>3, <2>4
<1>3. QED BY <1>1, <1>2

LEMMA RollbackKeepsInv ==
  ASSUME RosterInv, NEW t \in Tasks, Rollback(t)
  PROVE  RosterInv'
<1>1. UNCHANGED <<season, closes, openClose, member, live, mfa>> /\ Enrolled' = Enrolled
  BY DEF Rollback, committed, Enrolled
<1>2. TransactionsEnd({t})
  BY DEF TransactionsEnd, Rollback, RosterInv, WaitsForFewer
<1>3. \A o \in Tasks : Sound(task[o])'
  BY <1>1, <1>2, OthersStaySound
<1>4. MembersAreWellFormed' /\ CommittedOK' /\ SeasonAgreesWithMembers' /\ DOMAIN task' = Tasks
      /\ (season = "open" => openClose = 0)'
  BY <1>1, <1>2 DEF RosterInv, TypeOK, MembersAreWellFormed, CommittedOK,
       SeasonAgreesWithMembers, TransactionsEnd
<1>5. QED BY <1>2, <1>3, <1>4, LeftOver, TypeOfParts DEF RosterInv

LEMMA DeleteMentorshipKeepsInv ==
  ASSUME RosterInv, NEW m \in live, DeleteMentorship(m)
  PROVE  RosterInv'
<1>1. UNCHANGED <<season, closes, openClose, member, mfa>> /\ Enrolled' = Enrolled
  BY DEF DeleteMentorship, Enrolled
<1>2. TransactionsEnd({})
  BY EndedWaitsForFewer DEF TransactionsEnd, DeleteMentorship
<1>3. \A o \in Tasks : Sound(task[o])'
  BY <1>1, <1>2, OthersStaySound
<1>4. MembersAreWellFormed' /\ CommittedOK' /\ SeasonAgreesWithMembers' /\ DOMAIN task' = Tasks
      /\ (season = "open" => openClose = 0)'
  BY <1>1, <1>2 DEF RosterInv, TypeOK, MembersAreWellFormed, CommittedOK,
       SeasonAgreesWithMembers, TransactionsEnd, DeleteMentorship
<1>5. QED BY <1>2, <1>3, <1>4, LeftOver, TypeOfParts DEF RosterInv

(* What a commit does to the rows, the season and the other transactions. *)
LEMMA CommitEffects ==
  ASSUME RosterInv, NEW t \in Tasks, Commit(t)
  PROVE  /\ TransactionsEnd({t}) /\ Sound(task[t]) /\ Transaction(task[t])
         /\ member' \in [Enrollments -> Members \cup {Absent}]
         /\ \A e \in Enrollments :
              member'[e] = IF e \in task[t].rows THEN task[t].new[e] ELSE member[e]
         /\ task[t].op \in {"role", "promote", "remove", "enroll", "correct", "arrive", "mentor",
                            "reassign", "close", "reopen", "delete"}
         /\ task[t].op \notin {"close", "reopen", "delete"} => UNCHANGED <<season, closes, openClose>>
         /\ task[t].op = "close" => season' = "closed" /\ closes' = closes + 1 /\ openClose' = closes + 1
         /\ task[t].op = "reopen" => season' = "open" /\ closes' = closes /\ openClose' = 0
         /\ task[t].op = "delete" => season' = "deleted" /\ UNCHANGED <<closes, openClose>>
<1>1. Sound(task[t]) /\ Transaction(task[t])
  BY DEF RosterInv
<1>2. TransactionsEnd({t})
  BY EndedWaitsForFewer DEF TransactionsEnd, Commit
<1>3. /\ member' \in [Enrollments -> Members \cup {Absent}]
      /\ \A e \in Enrollments :
           member'[e] = IF e \in task[t].rows THEN task[t].new[e] ELSE member[e]
  <2>1. member' = [e \in Enrollments |-> IF e \in task[t].rows THEN task[t].new[e] ELSE member[e]]
    BY DEF Commit
  <2>2. \A e \in Enrollments : member[e] \in Members \cup {Absent}
    BY MemberFacts DEF WellFormed
  <2>3. \A e \in task[t].rows : task[t].new[e] \in Members \cup {Absent}
    BY <1>1 DEF Sound, WellFormed
  <2>4. QED BY <2>1, <2>2, <2>3
<1>4. task[t].op \in Ops \ {"none", "mfa"}
  BY <1>1 DEF Commit, Transaction
<1>5. QED BY <1>1, <1>2, <1>3, <1>4 DEF Commit, Ops

LEMMA CommitKeepsMembers ==
  ASSUME RosterInv, NEW t \in Tasks, Commit(t)
  PROVE  /\ MembersAreWellFormed'
         /\ task[t].op \notin SeasonOps => Enrolled' = Enrolled
<1>1. \A e \in Enrollments : WellFormed(member'[e])
  BY CommitEffects, MemberFacts DEF Sound
<1>2. task[t].op \notin SeasonOps => task[t].op \in MemberOps \/ task[t].rows = {}
  BY CommitEffects DEF Sound, SeasonOps, MemberOps, RowlessOps
<1>3. ASSUME task[t].op \in MemberOps, NEW e \in task[t].rows
      PROVE  member[e] # Absent /\ task[t].new[e] # Absent
  <2>1. member[e].state = "active" /\ task[t].new[e] # Absent
    BY <1>3, CommitEffects DEF Sound
  <2>2. Absent.state = "none"
    BY DEF Absent
  <2>3. QED BY <2>1, <2>2
<1>4. task[t].op \notin SeasonOps =>
        \A e \in Enrollments : member'[e] = Absent <=> member[e] = Absent
  BY <1>2, <1>3, CommitEffects
<1>5. task[t].op \notin SeasonOps => Enrolled' = Enrolled
  BY <1>4 DEF Enrolled
<1>6. QED BY <1>1, <1>5, CommitEffects DEF MembersAreWellFormed

LEMMA CommitKeepsSeason ==
  ASSUME RosterInv, NEW t \in Tasks, Commit(t)
  PROVE  SeasonAgreesWithMembers' /\ CommittedOK' /\ (season = "open" => openClose = 0)'
<1> DEFINE tx == task[t]
<1>1. /\ SeasonAgreesWithMembers /\ CommittedOK /\ (season = "open" => openClose = 0)
      /\ live' \subseteq Mentorships /\ mfa' = mfa
  BY CommitEffects DEF RosterInv, TypeOK, CommittedOK, Commit, Transaction
<1>2. \A e \in Enrollments : WellFormed(member[e]) /\ WellFormed(member'[e])
  BY MemberFacts, CommitKeepsMembers DEF MembersAreWellFormed
<1>3. \A e \in Enrollments \ Enrolled : member[e].closedBy = 0 /\ member[e].state = "none"
  BY DEF Enrolled, Absent
<1>4. \A e \in Enrollments : member[e] = Absent => member[e].closedBy = 0 /\ member[e].state = "none"
  BY DEF Absent
<1>5. CASE tx.op \in {"role", "promote", "remove", "mentor", "reassign"}
  <2>1. \A e \in tx.rows : member[e].state = "active" /\ tx.new[e].closedBy = 0
    BY <1>5, CommitEffects DEF Sound, MemberOps, RowlessOps
  <2>2. UNCHANGED <<season, closes, openClose>> /\ Enrolled' = Enrolled
    BY <1>5, CommitEffects, CommitKeepsMembers DEF SeasonOps
  <2>3. season = "closed" => tx.rows = {}
    BY <1>1, <2>1, CommitEffects DEF SeasonAgreesWithMembers, Transaction
  <2>4. QED BY <1>1, <2>1, <2>2, <2>3, CommitEffects DEF SeasonAgreesWithMembers, CommittedOK
<1>6. CASE tx.op \in {"enroll", "correct", "arrive"}
  <2>1. season = "open" /\ \A e \in tx.rows : tx.new[e].closedBy = 0
    BY <1>6, CommitEffects DEF Sound
  <2>2. UNCHANGED <<season, closes, openClose>>
    BY <1>6, CommitEffects
  <2>3. QED BY <1>1, <2>1, <2>2, CommitEffects DEF SeasonAgreesWithMembers, CommittedOK
<1>7. CASE tx.op = "close"
  <2>1. /\ tx.rows = Enrolled /\ season = "open" /\ closes < MaxCloses
        /\ \A e \in tx.rows : /\ tx.new[e].state # "active"
                              /\ tx.new[e].closedBy # 0 => tx.new[e].closedBy = closes + 1
    BY <1>7, CommitEffects DEF Sound
  <2>2. season' = "closed" /\ closes' = closes + 1 /\ openClose' = closes + 1
    BY <1>7, CommitEffects
  <2>3. \A e \in Enrollments : /\ member'[e].state # "active"
                               /\ member'[e].closedBy # 0 => member'[e].closedBy = closes + 1
    BY <1>3, <2>1, CommitEffects
  <2>4. closes + 1 \in 0..MaxCloses /\ closes + 1 # 0 /\ closes + 1 \in 0..(closes + 1)
    BY <1>1, <2>1, ClosesAssumption DEF CommittedOK
  <2>5. QED BY <1>1, <1>2, <2>2, <2>3, <2>4 DEF SeasonAgreesWithMembers, CommittedOK, WellFormed
<1>8. CASE tx.op = "reopen"
  <2>1. tx.rows = Enrolled /\ \A e \in tx.rows : tx.new[e].closedBy = 0
    BY <1>8, CommitEffects DEF Sound
  <2>2. season' = "open" /\ closes' = closes /\ openClose' = 0
    BY <1>8, CommitEffects
  <2>3. ASSUME NEW e \in Enrollments
        PROVE  member'[e].closedBy = 0
    <3>1. CASE e \in Enrolled
      BY <2>1, <3>1, CommitEffects
    <3>2. CASE e \notin Enrolled
      BY <1>3, <2>1, <3>2, CommitEffects
    <3>3. QED BY <3>1, <3>2
  <2>4. 0 \in 0..closes' /\ closes' \in 0..MaxCloses
    BY <1>1, <2>2, ClosesAssumption DEF CommittedOK
  <2>5. CommittedOK'
    BY <1>1, <2>2, <2>4 DEF CommittedOK
  <2>6. QED BY <2>2, <2>3, <2>5 DEF SeasonAgreesWithMembers
<1>9. CASE tx.op = "delete"
  <2>1. tx.rows = {} /\ Enrolled = {}
    BY <1>9, CommitEffects DEF Sound, RowlessOps
  <2>2. season' = "deleted" /\ UNCHANGED <<closes, openClose>>
    BY <1>9, CommitEffects
  <2>3. Enrolled' = {} /\ \A e \in Enrollments : member'[e].closedBy = 0
    BY <1>3, <2>1, CommitEffects DEF Enrolled
  <2>4. QED BY <1>1, <2>2, <2>3 DEF SeasonAgreesWithMembers, CommittedOK
<1>10. QED BY <1>5, <1>6, <1>7, <1>8, <1>9, CommitEffects

LEMMA CommitKeepsInv ==
  ASSUME RosterInv, NEW t \in Tasks, Commit(t)
  PROVE  RosterInv'
<1>1. ASSUME NEW o \in Tasks \ {t}
      PROVE  /\ task[o].season => UNCHANGED <<season, closes>>
             /\ task[o].season => Enrolled' = Enrolled
             /\ \A e \in task[o].rows : member'[e] = member[e]
  <2>1. ~(task[o].season /\ task[t].season) /\ task[t].rows \cap task[o].rows = {}
    BY DEF RosterInv, LocksAreExclusive
  <2>2. \A e \in task[o].rows : member'[e] = member[e]
    BY <2>1, CommitEffects DEF RosterInv, Transaction
  <2>3. CASE task[o].season
    <3>1. task[t].op \notin SeasonOps
      BY <2>1, <2>3, CommitEffects DEF Sound
    <3>2. QED BY <2>2, <3>1, CommitEffects, CommitKeepsMembers DEF SeasonOps
  <2>4. QED BY <2>2, <2>3
<1>2. \A o \in Tasks : Sound(task[o])'
  BY <1>1, CommitEffects, OthersStaySound
<1>3. DOMAIN task' = Tasks
  BY CommitEffects DEF TransactionsEnd
<1>4. QED BY <1>2, <1>3, CommitEffects, CommitKeepsMembers, CommitKeepsSeason, LeftOver, TypeOfParts
        DEF RosterInv

(* A transaction never brings back a member who was removed. *)
LEMMA CommitKeepsRemoved ==
  ASSUME RosterInv, NEW t \in Tasks, Commit(t), NEW e \in Enrollments, member[e].state \in Removed
  PROVE  member'[e].state = member[e].state \/ member'[e] = Absent
  BY CommitEffects DEF Sound

(* The MFA event changes only how coordinators' assignments stand, and of  *)
(* no row that another transaction has written.                            *)
LEMMA CommitMfaEffects ==
  ASSUME RosterInv, NEW t \in Tasks, CommitMfa(t)
  PROVE  /\ TransactionsEnd({t})
         /\ UNCHANGED <<season, closes, openClose, live>>
         /\ mfa' = [mfa EXCEPT ![task[t].user] = task[t].configured]
         /\ DOMAIN member' = Enrollments
         /\ \A e \in Enrollments :
              /\ WellFormed(member'[e])
              /\ member'[e].user = member[e].user /\ member'[e].role = member[e].role
              /\ member'[e].state = member[e].state /\ member'[e].closedBy = member[e].closedBy
              /\ member'[e] = Absent <=> member[e] = Absent
              /\ ~RowFree(t, e) => member'[e] = member[e]
<1> DEFINE u == task[t].user
           configured == task[t].configured
           target == Target(configured)
<1>1. target \in {"active", "pending_mfa"}
  BY DEF Target
<1>2. TransactionsEnd({t})
  BY DEF TransactionsEnd, CommitMfa, RosterInv, WaitsForFewer
<1>3. \A e \in Enrollments :
        member'[e] = CASE e \in task[t].pending /\ AccessOf(e, u, configured) ->
                            [member[e] EXCEPT !.assignment = target]
                       [] SnapshotOf(e, u, configured) -> [member[e] EXCEPT !.snapshot = target]
                       [] OTHER -> member[e]
  BY DEF CommitMfa
<1>4. \A e \in Enrollments : e \in task[t].pending \/ SnapshotOf(e, u, configured) => RowFree(t, e)
  BY DEF CommitMfa
<1> HIDE DEF target
<1>5. ASSUME NEW e \in Enrollments
      PROVE  /\ WellFormed(member'[e])
             /\ member'[e].user = member[e].user /\ member'[e].role = member[e].role
             /\ member'[e].state = member[e].state /\ member'[e].closedBy = member[e].closedBy
             /\ member'[e] = Absent <=> member[e] = Absent
             /\ ~RowFree(t, e) => member'[e] = member[e]
  <2>1. WellFormed(member[e]) /\ Absent.state = "none"
    BY MemberFacts DEF Absent
  <2>2. CASE e \in task[t].pending /\ AccessOf(e, u, configured)
    <3>0. member[e].state = "active" /\ ~SnapshotOf(e, u, configured)
      BY <2>2 DEF AccessOf, SnapshotOf
    <3>1. member'[e] = [member[e] EXCEPT !.assignment = target] /\ member[e].state = "active"
      BY <1>3, <2>2, <3>0
    <3>2. member[e] \in Members
      BY <2>1, <3>1 DEF WellFormed
    <3>3. RowFree(t, e)
      BY <1>4, <2>2
    <3>4. member[e].closedBy = 0 /\ member'[e].assignment = target
      BY <2>1, <3>1, <3>2 DEF WellFormed, Members
    <3>5. member'[e] \in Members /\ target # "revoked" /\ member'[e].state = "active"
      BY <1>1, <3>1, <3>2 DEF Members
    <3>6. WellFormed(member'[e])
      BY <3>1, <3>2, <3>4, <3>5 DEF WellFormed, Members
    <3>7. QED BY <2>1, <3>1, <3>2, <3>3, <3>6 DEF Members
  <2>3. CASE ~(e \in task[t].pending /\ AccessOf(e, u, configured)) /\ SnapshotOf(e, u, configured)
    <3>1. /\ member'[e] = [member[e] EXCEPT !.snapshot = target]
          /\ member[e].state = "completed"
      BY <1>3, <2>3 DEF SnapshotOf
    <3>2. member[e] \in Members /\ RowFree(t, e)
      BY <1>4, <2>1, <2>3, <3>1 DEF WellFormed
    <3>3. QED BY <1>1, <2>1, <3>1, <3>2 DEF WellFormed, Members
  <2>4. CASE ~(e \in task[t].pending /\ AccessOf(e, u, configured)) /\ ~SnapshotOf(e, u, configured)
    BY <1>3, <2>1, <2>4
  <2>5. QED BY <2>2, <2>3, <2>4
<1>6. DOMAIN member' = Enrollments
  BY DEF CommitMfa
<1>7. QED BY <1>2, <1>5, <1>6 DEF CommitMfa

LEMMA CommitMfaKeepsInv ==
  ASSUME RosterInv, NEW t \in Tasks, CommitMfa(t)
  PROVE  RosterInv'
<1>1. Enrolled' = Enrolled
  BY CommitMfaEffects DEF Enrolled
<1>2. \A o \in Tasks \ {t} : \A e \in task[o].rows : member'[e] = member[e]
  <2>1. ASSUME NEW o \in Tasks \ {t}, NEW e \in task[o].rows
        PROVE  member'[e] = member[e]
    <3>1. e \in Enrollments /\ ~RowFree(t, e)
      BY DEF RosterInv, Transaction, RowFree, Others
    <3>2. QED BY <3>1, CommitMfaEffects
  <2>2. QED BY <2>1
<1>3. \A o \in Tasks : Sound(task[o])'
  BY <1>1, <1>2, CommitMfaEffects, OthersStaySound
<1>4. MembersAreWellFormed'
  <2>1. \A e \in Enrollments : member'[e] \in Members \cup {Absent}
    BY CommitMfaEffects DEF WellFormed
  <2>2. member' = [e \in Enrollments |-> member'[e]]
    BY DEF CommitMfa
  <2>3. QED BY <2>1, <2>2, CommitMfaEffects DEF MembersAreWellFormed
<1>5. mfa' \in [Users -> BOOLEAN]
  BY CommitMfaEffects DEF RosterInv, TypeOK
<1>6. CommittedOK' /\ (season = "open" => openClose = 0)'
  BY <1>5, CommitMfaEffects DEF RosterInv, TypeOK, CommittedOK
<1>7. SeasonAgreesWithMembers'
  <2>1. \A e \in Enrollments :
          member'[e].state = member[e].state /\ member'[e].closedBy = member[e].closedBy
    BY CommitMfaEffects
  <2>2. season' = season /\ openClose' = openClose
    BY CommitMfaEffects
  <2>3. SeasonAgreesWithMembers
    BY DEF RosterInv
  <2>4. QED BY <1>1, <2>1, <2>2, <2>3 DEF SeasonAgreesWithMembers
<1>8. DOMAIN task' = Tasks
  BY CommitMfaEffects DEF TransactionsEnd
<1>9. QED BY <1>3, <1>4, <1>6, <1>7, <1>8, CommitMfaEffects, LeftOver, TypeOfParts DEF RosterInv

-----------------------------------------------------------------------------
(* Every step                                                              *)

LEMMA InitHasInv ==
  ASSUME Init
  PROVE  RosterInv
<1>1. MembersAreWellFormed
  BY DEF Init, MembersAreWellFormed, WellFormed, Absent
<1>2. \A t \in Tasks : Transaction(task[t]) /\ Sound(task[t]) /\ task[t] = NoTask
  BY NothingBegun DEF Init, Sound, SeasonOps, RowlessOps, MemberOps
<1>3. TypeOK
  <2>1. closes \in 0..MaxCloses /\ openClose \in 0..closes
    BY ClosesAssumption DEF Init
  <2>2. mfa \in [Users -> BOOLEAN] /\ live \subseteq Mentorships /\ season = "open"
    BY DEF Init
  <2>3. member \in [Enrollments -> Members \cup {Absent}]
    BY <1>1 DEF MembersAreWellFormed
  <2>4. QED BY <1>2, <2>1, <2>2, <2>3, NothingBegun DEF TypeOK, Transaction
<1>4. SeasonAgreesWithMembers /\ (season = "open" => openClose = 0)
  BY DEF Init, SeasonAgreesWithMembers, Absent
<1>5. LocksAreExclusive
  BY <1>2, NothingBegun DEF LocksAreExclusive
<1>6. DOMAIN task = Tasks
  BY DEF Init
<1>7. QED BY <1>1, <1>2, <1>3, <1>4, <1>5, <1>6 DEF RosterInv

LEMMA StepKeepsInv ==
  ASSUME RosterInv, [Next]_vars
  PROVE  RosterInv'
<1>1. CASE UNCHANGED vars
  BY <1>1 DEF vars, RosterInv, TypeOK, SeasonAgreesWithMembers, MembersAreWellFormed, Sound,
       LocksAreExclusive, Enrolled
<1>2. ASSUME NEW t \in Tasks,
             \/ Membership(t) \/ Season(t) \/ Mentoring(t)
             \/ \E u \in Users, configured \in BOOLEAN : ApplyMfa(t, u, configured)
      PROVE  RosterInv'
  <2>1. PICK tx : Begins(t, tx)
    BY <1>2, RequestsBegin
  <2>2. QED BY <2>1, BeginningIsSound DEF Begins
<1>3. ASSUME NEW t \in Tasks, Commit(t) \/ CommitMfa(t) \/ Rollback(t)
      PROVE  RosterInv'
  BY <1>3, CommitKeepsInv, CommitMfaKeepsInv, RollbackKeepsInv
<1>4. ASSUME NEW m \in live, DeleteMentorship(m)
      PROVE  RosterInv'
  BY <1>4, DeleteMentorshipKeepsInv
<1>5. QED BY <1>1, <1>2, <1>3, <1>4 DEF Next

(* What the locks of a season keep holds in every reachable state, with any*)
(* number of calls under way (dal/seasons.go, dal/enrollments.go).         *)
THEOREM RosterInvariant == Spec => []RosterInv
<1>1. Init => RosterInv
  BY InitHasInv
<1>2. RosterInv /\ [Next]_vars => RosterInv'
  BY StepKeepsInv
<1>3. QED BY <1>1, <1>2, PTL DEF Spec

(* The variables keep to their types. *)
THEOREM RosterTypes == Spec => []TypeOK
<1>1. RosterInv => TypeOK
  BY DEF RosterInv
<1>2. QED BY <1>1, RosterInvariant, PTL

(* A closed season has no active member, and a member is completed by a    *)
(* closing exactly as long as the season is closed by it, however many     *)
(* transactions (seasons.go, enrollments.go) are under way at once.        *)
THEOREM SeasonsAgreeWithMembers == Spec => []SeasonAgreesWithMembers
<1>1. RosterInv => SeasonAgreesWithMembers
  BY DEF RosterInv
<1>2. QED BY <1>1, RosterInvariant, PTL

(* A member who was kicked or withdrew never comes back, though role       *)
(* changes and closings that read the enrollment before may commit later.  *)
THEOREM RemovedStaysRemoved == Spec => RemovedIsFinal
<1>1. ASSUME RosterInv, [Next]_vars
      PROVE  [\A e \in Enrollments : member[e].state \in Removed =>
                member'[e].state = member[e].state \/ member'[e] = Absent]_vars
  <2>1. CASE UNCHANGED vars
    BY <2>1
  <2>2. CASE member' = member
    BY <2>2
  <2>3. ASSUME NEW t \in Tasks, Commit(t)
        PROVE  \A e \in Enrollments : member[e].state \in Removed =>
                 member'[e].state = member[e].state \/ member'[e] = Absent
    BY <1>1, <2>3, CommitKeepsRemoved
  <2>4. ASSUME NEW t \in Tasks, CommitMfa(t)
        PROVE  \A e \in Enrollments : member'[e].state = member[e].state
    BY <1>1, <2>4, CommitMfaEffects
  <2>5. ASSUME NEW t \in Tasks,
               \/ Membership(t) \/ Season(t) \/ Mentoring(t)
               \/ \E u \in Users, configured \in BOOLEAN : ApplyMfa(t, u, configured)
        PROVE  member' = member
    BY <1>1, <2>5, RequestsBegin DEF Begins, Begin, committed
  <2>6. ASSUME NEW t \in Tasks, Rollback(t)
        PROVE  member' = member
    BY <2>6 DEF Rollback, committed
  <2>7. ASSUME NEW m \in live, DeleteMentorship(m)
        PROVE  member' = member
    BY <2>7 DEF DeleteMentorship
  <2>8. CASE \E t \in Tasks : Commit(t) \/ CommitMfa(t)
    BY <2>3, <2>4, <2>8
  <2>9. CASE Next /\ ~\E t \in Tasks : Commit(t) \/ CommitMfa(t)
    <3>1. member' = member
      BY <2>5, <2>6, <2>7, <2>9 DEF Next
    <3>2. QED BY <2>2, <3>1
  <2>10. QED BY <1>1, <2>1, <2>8, <2>9
<1>2. QED BY <1>1, RosterInvariant, PTL DEF Spec, RemovedIsFinal

-----------------------------------------------------------------------------
(* Calls take effect at once                                               *)

AtomicInv == RosterInv /\ \A t \in Tasks : UpToDate(task[t])

(* What a transaction found stays so, when nothing changes in its rows but *)
(* access, and, if it holds the season, nothing in anybody's membership.   *)
LEMMA OthersStayUpToDate ==
  ASSUME RosterInv, NEW ts \in SUBSET Tasks, TransactionsEnd(ts),
         NEW o \in Tasks \ ts, UpToDate(task[o]),
         \A e \in task[o].rows : Seat(member'[e]) = Seat(member[e])
                                 /\ (member'[e] = Absent <=> member[e] = Absent),
         task[o].season => season' = season /\ \A e \in Enrollments : member'[e].user = member[e].user
  PROVE  UpToDate(task[o])'
<1>1. /\ task'[o].op = task[o].op /\ task'[o].rows = task[o].rows /\ task'[o].new = task[o].new
      /\ task[o].season <=> task[o].op \in SeasonOps
  BY DEF TransactionsEnd, WaitsForFewer, RosterInv, Sound
<1>2. ASSUME NEW e \in task[o].rows
      PROVE  Takes(task[o].op, e, task[o].new[e])'
  <2>1. Takes(task[o].op, e, task[o].new[e])
    BY DEF UpToDate
  <2>2. /\ member'[e].user = member[e].user /\ member'[e].role = member[e].role
        /\ member'[e].state = member[e].state
    BY DEF Seat
  <2>3. \A u : task[o].op \in SeasonOps /\ NotSeated(u) => NotSeated(u)'
    BY <1>1 DEF NotSeated
  <2>4. QED BY <1>1, <2>1, <2>2, <2>3 DEF Takes, Moves, Seat, SeasonOps
<1>3. QED BY <1>1, <1>2 DEF UpToDate, SeasonOps

LEMMA NothingIsUpToDate == UpToDate(NoTask)
  BY NothingBegun DEF UpToDate, MemberOps

(* Whoever does not hold the season changes nobody's user.                 *)
LEMMA UsersStay ==
  ASSUME AtomicInv, NEW t \in Tasks, Commit(t), ~task[t].season
  PROVE  \A e \in Enrollments : member'[e].user = member[e].user
<1>1. Sound(task[t]) /\ UpToDate(task[t])
  BY DEF AtomicInv, RosterInv
<1>2. task[t].op \notin SeasonOps
  BY <1>1 DEF Sound
<1>3. task[t].rows = {} \/ task[t].op \in MemberOps
  BY <1>2, CommitEffects DEF AtomicInv, SeasonOps, MemberOps, Sound, RowlessOps
<1>4. ASSUME NEW e \in task[t].rows
      PROVE  task[t].new[e].user = member[e].user
  BY <1>1, <1>3 DEF UpToDate, Takes, MemberOps, Seat
<1>5. QED BY <1>4, CommitEffects DEF AtomicInv

LEMMA CommitKeepsAtomic ==
  ASSUME AtomicInv, NEW t \in Tasks, Commit(t)
  PROVE  AtomicInv'
<1>1. RosterInv /\ RosterInv' /\ TransactionsEnd({t}) /\ Sound(task[t])
  BY CommitKeepsInv, CommitEffects DEF AtomicInv
<1>2. ASSUME NEW o \in Tasks \ {t}
      PROVE  UpToDate(task[o])'
  <2>1. ~(task[o].season /\ task[t].season) /\ task[t].rows \cap task[o].rows = {}
    BY DEF AtomicInv, RosterInv, LocksAreExclusive
  <2>2. \A e \in task[o].rows : member'[e] = member[e]
    BY <1>1, <2>1, CommitEffects DEF RosterInv, Transaction
  <2>3. task[o].season => season' = season /\ \A e \in Enrollments : member'[e].user = member[e].user
    BY <1>1, <2>1, UsersStay, CommitEffects DEF Sound, SeasonOps
  <2>4. UpToDate(task[o]) /\ {t} \in SUBSET Tasks
    BY DEF AtomicInv
  <2>5. QED BY <1>1, <2>2, <2>3, <2>4, OthersStayUpToDate
<1>3. UpToDate(task[t])'
  BY <1>1, NothingIsUpToDate, NothingBegun DEF TransactionsEnd, UpToDate, MemberOps
<1>4. QED BY <1>1, <1>2, <1>3 DEF AtomicInv

LEMMA CommitMfaKeepsAtomic ==
  ASSUME AtomicInv, NEW t \in Tasks, CommitMfa(t)
  PROVE  AtomicInv'
<1>1. RosterInv /\ RosterInv' /\ TransactionsEnd({t}) /\ UNCHANGED season
  BY CommitMfaKeepsInv, CommitMfaEffects DEF AtomicInv
<1>2. \A e \in Enrollments : /\ Seat(member'[e]) = Seat(member[e])
                             /\ member'[e].user = member[e].user
                             /\ member'[e] = Absent <=> member[e] = Absent
  BY <1>1, CommitMfaEffects DEF Seat
<1>3. ASSUME NEW o \in Tasks \ {t}
      PROVE  UpToDate(task[o])'
  <2>1. UpToDate(task[o]) /\ {t} \in SUBSET Tasks /\ task[o].rows \subseteq Enrollments
    BY DEF AtomicInv, RosterInv, Transaction
  <2>2. QED BY <1>1, <1>2, <2>1, OthersStayUpToDate
<1>4. UpToDate(task[t])'
  BY <1>1, NothingIsUpToDate, NothingBegun DEF TransactionsEnd, UpToDate, MemberOps
<1>5. QED BY <1>1, <1>3, <1>4 DEF AtomicInv

(* Transactions end, or mentorships, and what is committed of members stays.*)
LEMMA OthersEndKeepsAtomic ==
  ASSUME AtomicInv, RosterInv', UNCHANGED <<season, member>>,
         NEW ts \in SUBSET Tasks, TransactionsEnd(ts)
  PROVE  AtomicInv'
<1>1. ASSUME NEW o \in Tasks \ ts
      PROVE  UpToDate(task[o])'
  BY OthersStayUpToDate DEF AtomicInv
<1>2. ASSUME NEW o \in ts
      PROVE  UpToDate(task[o])'
  BY NothingIsUpToDate, NothingBegun DEF TransactionsEnd, UpToDate, MemberOps
<1>3. QED BY <1>1, <1>2 DEF AtomicInv

LEMMA BeginningKeepsAtomic ==
  ASSUME AtomicInv, NEW t \in Tasks, NEW tx, Begins(t, tx)
  PROVE  AtomicInv'
<1>1. RosterInv' /\ Begin(t, tx) /\ UpToDate(tx) /\ Transaction(tx)
  BY BeginningIsSound DEF Begins, AtomicInv
<1>2. UNCHANGED <<season, member>> /\ DOMAIN task = Tasks
  BY <1>1 DEF Begin, committed, AtomicInv, RosterInv
<1>3. \A o \in Tasks \ {t} : task'[o] = task[o]
  BY <1>1, <1>2 DEF Begin
<1>4. task'[t].op = tx.op /\ task'[t].rows = tx.rows /\ task'[t].new = tx.new
  BY <1>1, <1>2 DEF Begin, Transaction, NoTask
<1>5. UpToDate(task[t])'
  BY <1>1, <1>2, <1>4 DEF UpToDate, Takes, Moves, NotSeated
<1>6. \A o \in Tasks \ {t} : UpToDate(task[o])'
  BY <1>2, <1>3 DEF AtomicInv, UpToDate, Takes, Moves, NotSeated
<1>7. QED BY <1>1, <1>5, <1>6 DEF AtomicInv

LEMMA StepKeepsAtomic ==
  ASSUME AtomicInv, [Next]_vars
  PROVE  AtomicInv'
<1>1. RosterInv /\ RosterInv'
  BY StepKeepsInv DEF AtomicInv
<1>2. CASE UNCHANGED vars
  BY <1>1, <1>2 DEF vars, AtomicInv, UpToDate, Takes, Moves, NotSeated
<1>3. ASSUME NEW t \in Tasks,
             \/ Membership(t) \/ Season(t) \/ Mentoring(t)
             \/ \E u \in Users, configured \in BOOLEAN : ApplyMfa(t, u, configured)
      PROVE  AtomicInv'
  BY <1>1, <1>3, RequestsBegin, BeginningKeepsAtomic
<1>4. ASSUME NEW t \in Tasks, Commit(t) \/ CommitMfa(t)
      PROVE  AtomicInv'
  BY <1>4, CommitKeepsAtomic, CommitMfaKeepsAtomic
<1>5. ASSUME NEW t \in Tasks, Rollback(t)
      PROVE  AtomicInv'
  <2>1. TransactionsEnd({t}) /\ UNCHANGED <<season, member>>
    BY <1>1, <1>5 DEF Rollback, committed, TransactionsEnd, RosterInv, WaitsForFewer
  <2>2. {t} \in SUBSET Tasks
    OBVIOUS
  <2>3. QED BY <1>1, <2>1, <2>2, OthersEndKeepsAtomic
<1>6. ASSUME NEW m \in live, DeleteMentorship(m)
      PROVE  AtomicInv'
  <2>1. TransactionsEnd({}) /\ UNCHANGED <<season, member>>
    BY <1>1, <1>6, EndedWaitsForFewer DEF DeleteMentorship, TransactionsEnd
  <2>2. QED BY <1>1, <2>1, OthersEndKeepsAtomic
<1>7. QED BY <1>2, <1>3, <1>4, <1>5, <1>6 DEF Next

(* What a call is about to write is in every reachable state what it would *)
(* do to the members now (seasons.go, enrollments.go).                     *)
THEOREM AtomicInvariant == Spec => []AtomicInv
<1>1. Init => AtomicInv
  BY InitHasInv, NothingIsUpToDate DEF AtomicInv, Init
<1>2. AtomicInv /\ [Next]_vars => AtomicInv'
  BY StepKeepsAtomic
<1>3. QED BY <1>1, <1>2, PTL DEF Spec

seats == [e \in Enrollments |-> Seat(member[e])]

(* An enrollment is empty to the contract when there is none.              *)
LEMMA EmptySeats ==
  ASSUME RosterInv, NEW e \in Enrollments
  PROVE  seats[e] = Atomic!Empty <=> member[e] = Absent
<1>1. WellFormed(member[e])
  BY MemberFacts
<1>2. member[e] \in Members => member[e].user # NoUser
  BY UsersAssumption DEF Members
<1>3. QED BY <1>1, <1>2 DEF seats, Seat, Atomic!Empty, Absent, WellFormed

(* The commit of a transaction that writes one row is that call on it.     *)
LEMMA OneRowIsACall ==
  ASSUME AtomicInv, NEW t \in Tasks, Commit(t),
         task[t].op \in MemberOps \cup {"enroll", "correct", "arrive"}
  PROVE  Atomic!Next
<1>1. RosterInv /\ Sound(task[t]) /\ UpToDate(task[t])
  BY DEF AtomicInv, RosterInv
<1>2. PICK e \in Enrollments : task[t].rows = {e}
  BY <1>1 DEF UpToDate
<1> DEFINE m == member[e]
           n == task[t].new[e]
<1>3. /\ Takes(task[t].op, e, n) /\ WellFormed(n) /\ season' = season
      /\ task[t].op \in {"enroll", "correct", "arrive"} => season = "open"
      /\ task[t].op \in MemberOps => m.state = "active"
  BY <1>1, <1>2, CommitEffects DEF UpToDate, Sound, MemberOps
<1>4. \A x \in Enrollments : member'[x] = IF x = e THEN n ELSE member[x]
  BY <1>1, <1>2, CommitEffects
<1>5. seats' = [seats EXCEPT ![e] = Seat(n)]
  BY <1>4 DEF seats
<1>6. \A x \in Enrollments : seats[x].user = member[x].user
  BY DEF seats, Seat
<1>7. seats[e] = Seat(m) /\ (seats[e] = Atomic!Empty <=> m = Absent)
  BY <1>1, EmptySeats DEF seats
<1> HIDE DEF m, n
<1>8. CASE task[t].op \in {"role", "promote"}
  <2>1. Seat(n) = [Seat(m) EXCEPT !.role = n.role] /\ n.role \in Atomic!Roles
    BY <1>3, <1>8 DEF Takes, Seat, Roles, Atomic!Roles, m
  <2>2. seats[e].state = "active"
    BY <1>3, <1>7, <1>8 DEF Seat, MemberOps
  <2>3. Atomic!ChangeRole(e)
    BY <1>3, <1>5, <1>7, <2>1, <2>2 DEF Atomic!ChangeRole, Atomic!Sits, seats
  <2>4. QED BY <2>3 DEF Atomic!Next
<1>9. CASE task[t].op = "remove"
  <2>1. Seat(n) = [Seat(m) EXCEPT !.state = IF m.role = "student" THEN "kicked" ELSE "withdrawn"]
    BY <1>3, <1>9 DEF Takes, m
  <2>2. seats[e].state = "active" /\ seats[e].role = m.role
    BY <1>3, <1>7, <1>9 DEF Seat, MemberOps
  <2>3. Atomic!Remove(e)
    BY <1>3, <1>5, <1>7, <2>1, <2>2 DEF Atomic!Remove, Atomic!Sits, seats
  <2>4. QED BY <2>3 DEF Atomic!Next
<1>10. CASE task[t].op \in {"enroll", "arrive"}
  <2>1. /\ season = "open" /\ m = Absent /\ NotSeated(n.user)
        /\ n.user \in Users /\ n.role \in Atomic!Roles /\ n.state \in {"active", "kicked", "withdrawn"}
    BY <1>3, <1>10 DEF Takes, Roles, Atomic!Roles, m
  <2>2. Atomic!NotSeated(n.user)
    BY <1>6, <2>1 DEF NotSeated, Atomic!NotSeated, seats
  <2>3. Atomic!Sits(e, [user |-> n.user, role |-> n.role, state |-> n.state])
    BY <1>5 DEF Atomic!Sits, Seat, seats
  <2>4. Atomic!Enter(e)
    BY <1>3, <1>7, <2>1, <2>2, <2>3 DEF Atomic!Enter, seats
  <2>5. QED BY <2>4 DEF Atomic!Next
<1>11. CASE task[t].op = "correct"
  <2>1. season = "open" /\ m # Absent
    BY <1>3, <1>11 DEF Takes, m
  <2>2. CASE n = Absent
    <3>1. Atomic!Sits(e, Atomic!Empty)
      BY <1>5, <2>2 DEF Atomic!Sits, Atomic!Empty, Absent, Seat, seats
    <3>2. Atomic!Correct(e)
      BY <1>3, <1>7, <2>1, <3>1 DEF Atomic!Correct, seats
    <3>3. QED BY <3>2 DEF Atomic!Next
  <2>3. CASE n # Absent
    <3>1. n.user \in Users /\ n.role = m.role /\ n.state = m.state /\ NotSeated(n.user)
      BY <1>3, <1>11, <2>3 DEF Takes, m
    <3>2. Seat(n) = [seats[e] EXCEPT !.user = n.user]
      BY <1>7, <3>1 DEF Seat
    <3>3. Atomic!NotSeated(n.user)
      BY <1>6, <3>1 DEF NotSeated, Atomic!NotSeated, seats
    <3>4. Atomic!Sits(e, [seats[e] EXCEPT !.user = n.user])
      BY <1>5, <3>2 DEF Atomic!Sits, seats
    <3>5. Atomic!Correct(e)
      BY <1>3, <1>7, <2>1, <3>1, <3>3, <3>4 DEF Atomic!Correct, seats
    <3>6. QED BY <3>5 DEF Atomic!Next
  <2>4. QED BY <2>2, <2>3
<1>12. QED BY <1>8, <1>9, <1>10, <1>11 DEF MemberOps

(* The commit of a closing or reopening is that call on all members.       *)
LEMMA AllRowsAreACall ==
  ASSUME AtomicInv, NEW t \in Tasks, Commit(t), task[t].op \in {"close", "reopen"}
  PROVE  Atomic!Next
<1> DEFINE from == IF task[t].op = "close" THEN "active" ELSE "completed"
           to == IF task[t].op = "close" THEN "completed" ELSE "active"
<1>1. RosterInv /\ Sound(task[t]) /\ UpToDate(task[t])
  BY DEF AtomicInv, RosterInv
<1>2. task[t].rows = Enrolled
  BY <1>1 DEF Sound
<1>3. ASSUME NEW e \in Enrollments
      PROVE  seats'[e] = IF seats[e].state = from THEN [seats[e] EXCEPT !.state = to] ELSE seats[e]
  <2>1. seats[e] = Seat(member[e]) /\ seats'[e] = Seat(member'[e]) /\ seats[e].state = member[e].state
    BY DEF seats, Seat
  <2>2. CASE e \in Enrolled
    <3>1. Moves(from, to, member[e], task[t].new[e])
      BY <1>1, <1>2, <2>2 DEF UpToDate, Takes
    <3>2. member'[e] = task[t].new[e]
      BY <1>1, <1>2, <2>2, CommitEffects
    <3> HIDE DEF from, to, seats
    <3>3. CASE member[e].state = from
      BY <2>1, <3>1, <3>2, <3>3 DEF Moves
    <3>4. CASE member[e].state # from
      BY <2>1, <3>1, <3>2, <3>4 DEF Moves
    <3>5. QED BY <3>3, <3>4
  <2>3. CASE e \notin Enrolled
    <3>1. member'[e] = member[e] /\ e \notin task[t].rows
      BY <1>1, <1>2, <2>3, CommitEffects
    <3>2. member[e].state = "none"
      BY <2>3 DEF Enrolled, Absent
    <3>3. QED BY <2>1, <3>1, <3>2
  <2>4. QED BY <2>2, <2>3
<1>4. Atomic!AllGo(from, to)
  BY <1>3 DEF Atomic!AllGo, seats
<1>5. \/ task[t].op = "close" /\ season = "open" /\ season' = "closed"
      \/ task[t].op = "reopen" /\ season = "closed" /\ season' = "open"
  BY <1>1, CommitEffects DEF Sound
<1>6. Atomic!Close \/ Atomic!Reopen
  BY <1>4, <1>5 DEF Atomic!Close, Atomic!Reopen
<1>7. QED BY <1>6 DEF Atomic!Next

LEMMA CommitIsACall ==
  ASSUME AtomicInv, NEW t \in Tasks, Commit(t)
  PROVE  Atomic!Next \/ UNCHANGED <<season, seats>>
<1>1. RosterInv /\ Sound(task[t]) /\ UpToDate(task[t])
  BY DEF AtomicInv, RosterInv
<1>2. CASE task[t].op \in {"mentor", "reassign"}
  <2>1. task[t].rows = {} /\ season' = season
    BY <1>1, <1>2, CommitEffects DEF Sound, RowlessOps
  <2>2. QED BY <1>1, <2>1, CommitEffects DEF seats
<1>3. CASE task[t].op = "delete"
  <2>1. task[t].rows = {} /\ Enrolled = {} /\ season # "deleted" /\ season' = "deleted"
    BY <1>1, <1>3, CommitEffects DEF Sound, RowlessOps, UpToDate
  <2>2. \A e \in Enrollments : seats[e] = Atomic!Empty
    BY <1>1, <2>1, EmptySeats DEF Enrolled
  <2>3. seats' = seats
    BY <1>1, <2>1, CommitEffects DEF seats
  <2>4. Atomic!Delete
    BY <2>1, <2>2, <2>3 DEF Atomic!Delete, seats
  <2>5. QED BY <2>4 DEF Atomic!Next
<1>4. QED BY <1>1, <1>2, <1>3, OneRowIsACall, AllRowsAreACall, CommitEffects DEF MemberOps

LEMMA StepIsACall ==
  ASSUME AtomicInv, [Next]_vars
  PROVE  [Atomic!Next]_<<season, seats>>
<1>1. RosterInv
  BY DEF AtomicInv
<1>2. CASE UNCHANGED <<season, member>>
  BY <1>2 DEF seats
<1>3. ASSUME NEW t \in Tasks, CommitMfa(t)
      PROVE  UNCHANGED <<season, seats>>
  BY <1>1, <1>3, CommitMfaEffects DEF seats, Seat
<1>4. CASE UNCHANGED vars
  BY <1>2, <1>4 DEF vars
<1>5. ASSUME NEW t \in Tasks,
             \/ Membership(t) \/ Season(t) \/ Mentoring(t)
             \/ \E u \in Users, configured \in BOOLEAN : ApplyMfa(t, u, configured)
      PROVE  UNCHANGED <<season, member>>
  BY <1>1, <1>5, RequestsBegin DEF Begins, Begin, committed
<1>6. ASSUME NEW t \in Tasks, Rollback(t)
      PROVE  UNCHANGED <<season, member>>
  BY <1>6 DEF Rollback, committed
<1>7. ASSUME NEW m \in live, DeleteMentorship(m)
      PROVE  UNCHANGED <<season, member>>
  BY <1>7 DEF DeleteMentorship
<1>8. QED BY <1>2, <1>3, <1>4, <1>5, <1>6, <1>7, CommitIsACall DEF Next

(* However many calls are under way, the season and who is in it change as *)
(* if each call took effect at one moment (seasons.go, enrollments.go).    *)
THEOREM CallsTakeEffectAtOnce == Spec => CallsAreAtomic
<1>1. Init => Atomic!Init
  BY DEF Init, Atomic!Init, Atomic!Empty, Seat, Absent
<1>2. AtomicInv /\ [Next]_vars => [Atomic!Next]_(Atomic!contractVars)
  BY StepIsACall DEF Atomic!contractVars, seats
<1>3. QED BY <1>1, <1>2, AtomicInvariant, PTL DEF Spec, CallsAreAtomic, Atomic!Spec

-----------------------------------------------------------------------------
(* One transaction at a time                                               *)
(*                                                                         *)
(* What follows does not hold of transactions that run at the same time:   *)
(* the mentorships are found without a lock on the members, and the        *)
(* coordinators without one on the second factor.                          *)

AloneInv == RosterInv /\ Valid /\ \A t \in Tasks : LeavesValid(task[t])

LEMMA NothingLeavesValid ==
  ASSUME RosterInv, Valid, NEW t \in Tasks, task[t] = NoTask
  PROVE  LeavesValid(task[t])
<1>1. /\ NoTask.rows = {} /\ NoTask.ends = {} /\ NoTask.adds = {} /\ NoTask.op = "none"
  BY DEF NoTask
<1>2. \A e \in Enrollments : After(NoTask)[e] = member[e]
  BY <1>1 DEF After
<1>3. \A m \in live : m.mentor \in Enrollments /\ m.student \in Enrollments
  BY DEF RosterInv, TypeOK, Mentorships
<1>4. \A m \in live : MentorshipFits(m, After(NoTask))
  BY <1>2, <1>3 DEF Valid, LiveMentorshipsAreValid, MentorshipFits
<1>5. QED BY <1>1, <1>4 DEF LeavesValid

(* A transaction that has fewer mentorships to leave valid.                *)
LEMMA StillLeavesValid ==
  ASSUME NEW t \in Tasks, NEW tx, LeavesValid(tx), member' = member, mfa' = mfa,
         (live' \ task'[t].ends) \cup task'[t].adds \subseteq (live \ tx.ends) \cup tx.adds,
         task'[t].rows = tx.rows, task'[t].new = tx.new, task'[t].op = tx.op,
         task'[t].user = tx.user, task'[t].configured = tx.configured,
         task'[t].pending = tx.pending
  PROVE  LeavesValid(task[t])'
<1>1. After(task[t])' = After(tx)
  BY DEF After
<1>2. \A m \in ((live \ task[t].ends) \cup task[t].adds)' : MentorshipFits(m, After(task[t])')
  BY <1>1 DEF LeavesValid
<1>3. \A e \in tx.rows : AccessFits(tx.new[e]) => AccessFits(tx.new[e])'
  BY DEF AccessFits
<1>4. \A e \in task'[t].rows : AccessFits(task[t].new[e])'
  BY <1>3 DEF LeavesValid, AccessFits
<1>5. task'[t].op = "mfa" =>
        task'[t].pending = {e \in Enrollments : AccessOf(e, task[t].user, task[t].configured)'}
  BY DEF LeavesValid, AccessOf
<1>6. QED BY <1>2, <1>4, <1>5 DEF LeavesValid, MentorshipFits, AccessFits, AccessOf

LEMMA CommitStaysValid ==
  ASSUME AloneInv, NEW t \in Tasks, Commit(t), RosterInv'
  PROVE  Valid'
<1> DEFINE tx == task[t]
<1>1. live' = (live \ tx.ends) \cup tx.adds /\ mfa' = mfa
  BY DEF Commit
<1>2. \A e \in Enrollments : member'[e] = After(tx)[e]
  BY CommitEffects DEF AloneInv, After
<1>3. LeavesValid(tx) /\ Valid
  BY DEF AloneInv
<1>4. LiveMentorshipsAreValid'
  <2>1. \A m \in live' : m.mentor \in Enrollments /\ m.student \in Enrollments
    BY DEF RosterInv, TypeOK, Mentorships
  <2>2. \A m \in live' : MentorshipFits(m, After(tx))
    BY <1>1, <1>3 DEF LeavesValid
  <2>3. \A m \in live' : MentorshipFits(m, member')
    BY <1>2, <2>1, <2>2 DEF MentorshipFits
  <2>4. QED BY <2>3 DEF LiveMentorshipsAreValid, MentorshipFits
<1>5. CoordinatorsHaveMfa'
  <2>1. \A e \in Enrollments : AccessFits(member'[e])
    BY <1>2, <1>3 DEF LeavesValid, After, Valid, CoordinatorsHaveMfa, AccessFits
  <2>2. QED BY <1>1, <2>1 DEF CoordinatorsHaveMfa, AccessFits
<1>6. QED BY <1>4, <1>5 DEF Valid

LEMMA CommitMfaStaysValid ==
  ASSUME AloneInv, NEW t \in Tasks, CommitMfa(t), RosterInv'
  PROVE  Valid'
<1> DEFINE u == task[t].user
           configured == task[t].configured
<1>1. RosterInv /\ Valid /\ LeavesValid(task[t]) /\ task[t].op = "mfa"
  BY DEF AloneInv, CommitMfa
<1>2. LiveMentorshipsAreValid'
  <2>1. \A m \in live : m.mentor \in Enrollments /\ m.student \in Enrollments
    BY <1>1 DEF RosterInv, TypeOK, Mentorships
  <2>2. \A e \in Enrollments : member'[e].role = member[e].role /\ member'[e].state = member[e].state
    BY <1>1, CommitMfaEffects
  <2>3. live' = live
    BY <1>1, CommitMfaEffects
  <2>4. QED BY <1>1, <2>1, <2>2, <2>3 DEF Valid, LiveMentorshipsAreValid
<1>3. ASSUME NEW e \in Enrollments, member'[e].role = "coordinator", member'[e].state = "active"
      PROVE  member'[e].assignment = Target(mfa'[member'[e].user])
  <2>1. /\ member[e].role = "coordinator" /\ member[e].state = "active"
        /\ member'[e].user = member[e].user
    BY <1>1, <1>3, CommitMfaEffects
  <2>2. member[e] \in Members /\ member[e].assignment \in {"active", "pending_mfa"}
    BY <1>1, <2>1, MemberFacts DEF WellFormed, Members
  <2>3. mfa'[member[e].user] = IF member[e].user = u THEN configured ELSE mfa[member[e].user]
    BY <1>1, <2>2, CommitMfaEffects DEF RosterInv, TypeOK, Members
  <2>4. ~SnapshotOf(e, u, configured)
    BY <2>1 DEF SnapshotOf
  <2>5. member'[e] = IF e \in task[t].pending /\ AccessOf(e, u, configured)
                     THEN [member[e] EXCEPT !.assignment = Target(configured)] ELSE member[e]
    BY <2>4 DEF CommitMfa
  <2>6. e \in task[t].pending <=> AccessOf(e, u, configured)
    BY <1>1 DEF LeavesValid
  <2>7. CASE AccessOf(e, u, configured)
    <3>1. member[e].user = u
      BY <2>7 DEF AccessOf
    <3>2. QED BY <2>1, <2>2, <2>3, <2>5, <2>6, <2>7, <3>1 DEF Members
  <2>8. CASE ~AccessOf(e, u, configured)
    <3>1. member'[e] = member[e]
      BY <2>5, <2>8
    <3>2. CASE member[e].user = u
      BY <2>1, <2>2, <2>3, <2>8, <3>1, <3>2 DEF AccessOf, Opposite, Target
    <3>3. CASE member[e].user # u
      BY <1>1, <2>1, <2>3, <3>1, <3>3 DEF Valid, CoordinatorsHaveMfa
    <3>4. QED BY <3>2, <3>3
  <2>9. QED BY <2>7, <2>8
<1>4. CoordinatorsHaveMfa'
  BY <1>3 DEF CoordinatorsHaveMfa
<1>5. QED BY <1>2, <1>4 DEF Valid

LEMMA AloneStep ==
  ASSUME \A a, b \in Tasks : a = b, AloneInv, [Next]_vars
  PROVE  AloneInv'
<1>1. RosterInv /\ RosterInv'
  BY StepKeepsInv DEF AloneInv
<1>2. CASE UNCHANGED vars
  <2>1. Valid'
    BY <1>2 DEF AloneInv, Valid, LiveMentorshipsAreValid, CoordinatorsHaveMfa, vars
  <2>2. \A t \in Tasks : LeavesValid(task[t])'
    BY <1>2, StillLeavesValid DEF AloneInv, vars
  <2>3. QED BY <1>1, <2>1, <2>2 DEF AloneInv
<1>3. ASSUME NEW t \in Tasks,
             \/ Membership(t) \/ Season(t) \/ Mentoring(t)
             \/ \E u \in Users, configured \in BOOLEAN : ApplyMfa(t, u, configured)
      PROVE  AloneInv'
  <2>1. PICK tx : Begins(t, tx)
    BY <1>1, <1>3, RequestsBegin
  <2>2. UNCHANGED <<season, closes, openClose, member, live, mfa>>
    BY <2>1 DEF Begins, Begin, committed
  <2>3. Valid'
    BY <2>2 DEF AloneInv, Valid, LiveMentorshipsAreValid, CoordinatorsHaveMfa
  <2>4. /\ task'[t].rows = tx.rows /\ task'[t].new = tx.new /\ task'[t].op = tx.op
        /\ task'[t].user = tx.user /\ task'[t].configured = tx.configured
        /\ task'[t].pending = tx.pending /\ task'[t].ends = tx.ends /\ task'[t].adds = tx.adds
    <3>1. task'[t] = [tx EXCEPT !.held = {m \in tx.ends : MentorshipFree(t, m)}]
      BY <1>1, <2>1 DEF Begins, Begin, RosterInv
    <3>2. DOMAIN tx = DOMAIN NoTask
      BY <2>1 DEF Begins, Transaction
    <3>3. QED BY <3>1, <3>2 DEF NoTask
  <2>5. LeavesValid(tx)
    BY <2>1 DEF Begins, AloneInv
  <2>6. LeavesValid(task[t])'
    BY <2>2, <2>4, <2>5, StillLeavesValid
  <2>7. QED BY <1>1, <2>3, <2>6 DEF AloneInv
<1>4. ASSUME NEW t \in Tasks, Valid', task'[t] = NoTask
      PROVE  AloneInv'
  <2>1. LeavesValid(task[t])'
    <3>1. /\ NoTask.rows = {} /\ NoTask.ends = {} /\ NoTask.adds = {} /\ NoTask.op = "none"
      BY DEF NoTask
    <3>2. \A e \in Enrollments : After(task[t])'[e] = member'[e]
      BY <1>4, <3>1 DEF After
    <3>3. \A m \in live' : m.mentor \in Enrollments /\ m.student \in Enrollments
      BY <1>1 DEF RosterInv, TypeOK, Mentorships
    <3>4. \A m \in live' : MentorshipFits(m, After(task[t])')
      BY <1>4, <3>2, <3>3 DEF Valid, LiveMentorshipsAreValid, MentorshipFits
    <3>5. QED BY <1>4, <3>1, <3>4 DEF LeavesValid, MentorshipFits
  <2>2. QED BY <1>1, <1>4, <2>1 DEF AloneInv
<1>5. ASSUME NEW t \in Tasks, Commit(t)
      PROVE  AloneInv'
  <2>1. task'[t] = NoTask
    BY <1>1, <1>5, CommitEffects DEF TransactionsEnd
  <2>2. QED BY <1>1, <1>4, <1>5, <2>1, CommitStaysValid
<1>6. ASSUME NEW t \in Tasks, CommitMfa(t)
      PROVE  AloneInv'
  <2>1. task'[t] = NoTask
    BY <1>1, <1>6, CommitMfaEffects DEF TransactionsEnd
  <2>2. QED BY <1>1, <1>4, <1>6, <2>1, CommitMfaStaysValid
<1>7. ASSUME NEW t \in Tasks, Rollback(t)
      PROVE  AloneInv'
  <2>1. task'[t] = NoTask
    BY <1>1, <1>7 DEF Rollback, RosterInv
  <2>2. Valid'
    BY <1>7 DEF Rollback, committed, AloneInv, Valid, LiveMentorshipsAreValid, CoordinatorsHaveMfa
  <2>3. QED BY <1>4, <2>1, <2>2
<1>8. ASSUME NEW m \in live, DeleteMentorship(m)
      PROVE  AloneInv'
  <2>1. live' = live \ {m} /\ member' = member /\ mfa' = mfa /\ task' = Ended({m})
    BY <1>8 DEF DeleteMentorship
  <2>2. Valid'
    BY <2>1 DEF AloneInv, Valid, LiveMentorshipsAreValid, CoordinatorsHaveMfa
  <2>3. ASSUME NEW t \in Tasks
        PROVE  LeavesValid(task[t])'
    <3>1. WaitsForFewer(task[t], task'[t]) /\ task'[t].ends = task[t].ends \ {m}
      BY <1>1, <2>1, EndedWaitsForFewer
    <3>2. (live' \ task'[t].ends) \cup task'[t].adds
            \subseteq (live \ task[t].ends) \cup task[t].adds
      BY <2>1, <3>1 DEF WaitsForFewer
    <3>3. QED BY <2>1, <3>1, <3>2, StillLeavesValid DEF WaitsForFewer, AloneInv
  <2>4. QED BY <1>1, <2>2, <2>3 DEF AloneInv
<1>9. QED BY <1>2, <1>3, <1>5, <1>6, <1>7, <1>8 DEF Next

(* What a call alone has read is still so when it commits: the invariant of*)
(* an API that serves one call at a time holds in every reachable state.   *)
THEOREM AloneInvariant ==
  ASSUME \A a, b \in Tasks : a = b
  PROVE  Spec => []AloneInv
<1>1. ASSUME Init
      PROVE  AloneInv
  <2>1. RosterInv /\ Valid
    BY <1>1, InitHasInv DEF Init, Valid, LiveMentorshipsAreValid, CoordinatorsHaveMfa, Absent
  <2>2. QED BY <1>1, <2>1, NothingLeavesValid DEF AloneInv, Init
<1>2. AloneInv /\ [Next]_vars => AloneInv'
  BY AloneStep
<1>3. QED BY <1>1, <1>2, PTL DEF Spec

(* When transactions do not overlap, a live mentorship is of a mentor or   *)
(* coordinator and a student, and both are active or completed (the trigger*)
(* validate_mentorship).                                                   *)
THEOREM MentorshipsStayValid ==
  ASSUME \A a, b \in Tasks : a = b
  PROVE  Spec => []LiveMentorshipsAreValid
<1>1. AloneInv => LiveMentorshipsAreValid
  BY DEF AloneInv, Valid
<1>2. QED BY <1>1, AloneInvariant, PTL

(* When transactions do not overlap, an active coordinator has access just *)
(* when the user has a second factor (the trigger require_coordinator_mfa  *)
(* and the MFA events).                                                    *)
THEOREM CoordinatorsKeepMfa ==
  ASSUME \A a, b \in Tasks : a = b
  PROVE  Spec => []CoordinatorsHaveMfa
<1>1. AloneInv => CoordinatorsHaveMfa
  BY DEF AloneInv, Valid
<1>2. QED BY <1>1, AloneInvariant, PTL
=============================================================================
