----------------------------- MODULE Participation -----------------------------
(***************************************************************************)
(* When somebody took part in a season, and which season what they did then*)
(* counts for.  A trigger on the enrollments keeps the periods; the season *)
(* of an attempt or an interview is nowhere stored, but derived from them  *)
(* every time (activity_scope).                                            *)
(*                                                                         *)
(* A change of role or state is dated by the handler, before the           *)
(* transaction waits for anybody, so changes need not be applied in the    *)
(* order of their dates: a request is one action, and its date any moment  *)
(* up to now.  What is not dated so is dated by the transaction's begin.   *)
(* The clocks of API and database are one.                                 *)
(***************************************************************************)
EXTENDS Integers, FiniteSets

CONSTANTS
  Subjects,       \* users
  SeasonNumbers,  \* ids of seasons, in their order
  EnrollmentIds,
  MaxTime,        \* bound: moments
  MaxEdits        \* bound: changes of enrollments, seasons and dates

ASSUME ParticipationBounds ==
  /\ SeasonNumbers \subseteq Nat \ {0} /\ IsFiniteSet(SeasonNumbers)
  /\ MaxTime \in Nat \ {0} /\ MaxEdits \in Nat

Moments == 1..MaxTime
Forever == MaxTime + 1  \* the end of a period that is open

VARIABLES
  clock,
  closed,       \* seasons that are closed
  dates,        \* the first and the last moment of each season
  enrollment,   \* rows of enrollments, or NoRow
  periods,      \* rows of enrollment_participation
  edits         \* how many changes there were

participationVars == <<clock, closed, dates, enrollment, periods, edits>>

SeasonalRoles == {"student", "mentor"}  \* a coordinator is as a mentor here
NoRow == [state |-> "absent"]
EnrollmentRows ==
  [user : Subjects, season : SeasonNumbers, role : SeasonalRoles,
   state : {"active", "completed", "kicked", "withdrawn"},
   created : Moments, changed : {0} \cup Moments]

(* The states the trigger counts as taking part.                           *)
TakesPart(m) == m.state \in {"active", "completed"}

ParticipationInit ==
  /\ clock = 1 /\ closed = {} /\ edits = 0
  /\ dates \in [SeasonNumbers -> {[from |-> f, to |-> MaxTime] : f \in Moments}]
  /\ enrollment = [e \in EnrollmentIds |-> NoRow]
  /\ periods = {}

ParticipationTypeOK ==
  /\ clock \in Moments /\ edits \in 0..MaxEdits /\ closed \subseteq SeasonNumbers
  /\ dates \in [SeasonNumbers -> [from : Moments, to : Moments]]
  /\ enrollment \in [EnrollmentIds -> EnrollmentRows \cup {NoRow}]
  /\ periods \subseteq
       [of : EnrollmentIds, role : SeasonalRoles, from : Moments, to : 1..Forever]
  /\ \A p \in periods : p.from <= p.to  \* the CHECK of the table

-----------------------------------------------------------------------------
(* The trigger                                                             *)

Present(e) == enrollment[e] # NoRow
OpenPeriods(e) == {p \in periods : p.of = e /\ p.to = Forever}
Later(i, j) == IF i > j THEN i ELSE j

Period(e, role, from) == [of |-> e, role |-> role, from |-> from, to |-> Forever]

(* Faulty variants, none of them part of the specification: the new period *)
(* starts with the enrollment; only a change of the role is followed; a    *)
(* period is ended at the date of the change, though it began later.       *)
TrackedFromCreation(e, old, new, begun) ==
  LET at == IF new.changed # old.changed THEN new.changed ELSE begun IN
  IF old.role = new.role /\ TakesPart(old) = TakesPart(new) THEN periods
  ELSE (periods \ OpenPeriods(e))
         \cup {[p EXCEPT !.to = Later(p.from, at)] : p \in OpenPeriods(e)}
         \cup (IF TakesPart(new) THEN {Period(e, new.role, new.created)} ELSE {})

TrackedWithoutState(e, old, new, begun) ==
  LET at == IF new.changed # old.changed THEN new.changed ELSE begun IN
  IF old.role = new.role THEN periods
  ELSE (periods \ OpenPeriods(e))
         \cup {[p EXCEPT !.to = Later(p.from, at)] : p \in OpenPeriods(e)}
         \cup (IF TakesPart(new) THEN {Period(e, new.role, at)} ELSE {})

TrackedToTheDate(e, old, new, begun) ==
  LET at == IF new.changed # old.changed THEN new.changed ELSE begun IN
  IF old.role = new.role /\ TakesPart(old) = TakesPart(new) THEN periods
  ELSE (periods \ OpenPeriods(e))
         \cup {[p EXCEPT !.to = at] : p \in OpenPeriods(e)}
         \cup (IF TakesPart(new) THEN {Period(e, new.role, at)} ELSE {})

(* The periods, when the row of e goes from "old" to "new" in a transaction*)
(* begun at "begun".                                                       *)
Tracked(e, old, new, begun) ==
  LET at == IF new.changed # old.changed THEN new.changed ELSE begun IN
  IF old.role = new.role /\ TakesPart(old) = TakesPart(new) THEN periods
  ELSE (periods \ OpenPeriods(e))
         \cup {[p EXCEPT !.to = Later(p.from, at)] : p \in OpenPeriods(e)}
         \cup (IF TakesPart(new) THEN {Period(e, new.role, at)} ELSE {})

-----------------------------------------------------------------------------
(* Enrollments                                                             *)

Edit == edits < MaxEdits /\ edits' = edits + 1

(* The row e is written by an UPDATE of role and state.                    *)
Rewritten(e, new, begun) ==
  /\ Edit
  /\ enrollment' = [enrollment EXCEPT ![e] = new]
  /\ periods' = Tracked(e, enrollment[e], new, begun)
  /\ UNCHANGED <<clock, closed, dates>>

(* One enrollment of a user in a season.                                   *)
Enrollable(u, s) ==
  \A e \in EnrollmentIds : Present(e) => ~(enrollment[e].user = u /\ enrollment[e].season = s)

Enroll(e, u, s, role, begun) ==
  /\ Edit
  /\ ~Present(e) /\ s \notin closed /\ Enrollable(u, s)
  /\ enrollment' = [enrollment EXCEPT ![e] =
       [user |-> u, season |-> s, role |-> role, state |-> "active",
        created |-> begun, changed |-> 0]]
  /\ periods' = periods \cup {Period(e, role, begun)}
  /\ UNCHANGED <<clock, closed, dates>>

(* The date is kept when the role stays what it is.                        *)
UpdateEnrollmentRole(e, role, at, begun) ==
  LET m == enrollment[e] IN
  /\ m.state = "active"
  /\ Rewritten(e, [m EXCEPT !.role = role, !.changed = IF m.role # role THEN at ELSE @], begun)

Promote(e, at, begun) ==
  /\ enrollment[e].state = "active"
  /\ Rewritten(e, [enrollment[e] EXCEPT !.role = "mentor", !.changed = at], begun)

EndEnrollment(e, at, begun) ==
  LET m == enrollment[e] IN
  /\ m.state = "active"
  /\ Rewritten(e, [m EXCEPT !.state = IF m.role = "student" THEN "kicked" ELSE "withdrawn",
                          !.changed = at], begun)

(* The canary chooses its role, active again if it was not.                *)
setCanarySeasonRole(e, role, at, begun) ==
  LET m == enrollment[e] IN
  /\ Present(e) /\ m.season \notin closed
  /\ m.role # role \/ m.state # "active"
  /\ Rewritten(e, [m EXCEPT !.role = role, !.state = "active", !.changed = at], begun)

(* Neither role nor state is written, so the trigger does not run: the     *)
(* periods go with the enrollment to another user or season.               *)
Correct(e, u, s) ==
  LET m == enrollment[e] IN
  /\ Edit
  /\ Present(e) /\ {m.season, s} \cap closed = {}
  /\ <<u, s>> # <<m.user, m.season>>
  /\ \A x \in EnrollmentIds \ {e} :
       Present(x) => <<enrollment[x].user, enrollment[x].season>> # <<u, s>>
  /\ enrollment' = [enrollment EXCEPT ![e].user = u, ![e].season = s]
  /\ UNCHANGED <<clock, closed, dates, periods>>

-----------------------------------------------------------------------------
(* Seasons.  A closing completes the active members, a reopening undoes it;*)
(* to the trigger both states are taking part.                             *)

InSeason(s, state) ==
  {e \in EnrollmentIds :
     Present(e) /\ enrollment[e].season = s /\ enrollment[e].state = state}

(* The rows of es are moved to "state"; what the trigger does to each, it  *)
(* does to all.                                                            *)
Restated(es, state, at) ==
  /\ Edit
  /\ enrollment' = [e \in EnrollmentIds |->
       IF e \in es THEN [enrollment[e] EXCEPT !.state = state, !.changed = at]
       ELSE enrollment[e]]
  /\ LET After(e) == Tracked(e, enrollment[e], enrollment'[e], at)
         kept == {p \in periods : \A e \in es : p \in After(e)}
     IN periods' = kept \cup UNION {After(e) \ periods : e \in es}
  /\ UNCHANGED <<clock, dates>>

CompleteMembers(s, at) ==
  /\ s \notin closed /\ closed' = closed \cup {s}
  /\ Restated(InSeason(s, "active"), "completed", at)

RestoreMembers(s, at) ==
  /\ s \in closed /\ closed' = closed \ {s}
  /\ Restated(InSeason(s, "completed"), "active", at)

UpdateSeasonDefinition(s, from, to) ==
  /\ Edit
  /\ s \notin closed /\ from <= to
  /\ dates' = [dates EXCEPT ![s] = [from |-> from, to |-> to]]
  /\ UNCHANGED <<clock, closed, enrollment, periods>>

Tick ==
  /\ clock < MaxTime /\ clock' = clock + 1
  /\ UNCHANGED <<closed, dates, enrollment, periods, edits>>

(* A request about an enrollment is made when it exists.                   *)
Dated(e, at) == Present(e) /\ enrollment[e].created <= at

ParticipationNext ==
  \/ Tick
  \/ \E begun \in 1..clock, e \in EnrollmentIds :
       \/ \E u \in Subjects, s \in SeasonNumbers, role \in SeasonalRoles :
            Enroll(e, u, s, role, begun)
       \/ \E at \in 1..begun : Dated(e, at)
            /\ \/ \E role \in SeasonalRoles :
                    UpdateEnrollmentRole(e, role, at, begun) \/ setCanarySeasonRole(e, role, at, begun)
               \/ Promote(e, at, begun) \/ EndEnrollment(e, at, begun)
  \/ \E e \in EnrollmentIds, u \in Subjects, s \in SeasonNumbers : Correct(e, u, s)
  \/ \E s \in SeasonNumbers, at \in 1..clock : CompleteMembers(s, at) \/ RestoreMembers(s, at)
  \/ \E s \in SeasonNumbers, from, to \in Moments : UpdateSeasonDefinition(s, from, to)

ParticipationSpec == ParticipationInit /\ [][ParticipationNext]_participationVars

-----------------------------------------------------------------------------
(* What a user did at a moment                                             *)

NoSeason == 0

(* The seasons with periods of a student around the moment t.              *)
Candidates(u, t) ==
  {c \in [season : SeasonNumbers, from : Moments] :
     /\ dates[c.season].from <= t /\ t <= dates[c.season].to
     /\ \E e \in EnrollmentIds, p \in periods :
          /\ Present(e) /\ enrollment[e].user = u /\ enrollment[e].season = c.season
          /\ p.of = e /\ p.role = "student" /\ p.from = c.from
          /\ c.from <= t /\ t < p.to}

(* ORDER BY start_at DESC, started_at DESC, id.                            *)
Precedes(c, d, ds) ==
  LET C == ds[c.season].from  D == ds[d.season].from IN
  \/ C > D
  \/ C = D /\ c.from > d.from
  \/ C = D /\ c.from = d.from /\ c.season <= d.season

First(cs, ds) ==
  IF cs = {} THEN NoSeason
  ELSE (CHOOSE c \in cs : \A d \in cs : Precedes(c, d, ds)).season

activity_scope(u, t) == First(Candidates(u, t), dates)

(* Faulty variant: only the role a member has now is looked at.            *)
activitySeasonsByRole(u) ==
  {s \in SeasonNumbers : \E e \in EnrollmentIds :
     /\ Present(e) /\ enrollment[e].user = u /\ enrollment[e].season = s
     /\ enrollment[e].role = "student"}

(* The seasons offered to the user in the tables of their activity.        *)
activitySeasons(u) ==
  {s \in SeasonNumbers : \E e \in EnrollmentIds :
     /\ Present(e) /\ enrollment[e].user = u /\ enrollment[e].season = s
     /\ \/ enrollment[e].role = "student"
        \/ \E p \in periods : p.of = e /\ p.role = "student"}

-----------------------------------------------------------------------------
(* An enrollment has one open period, of its role, exactly as long as it   *)
(* takes part, completed members included: the trigger that ends periods   *)
(* and starts them never loses count, in whatever order dated changes come.*)
OpenPeriodIsCurrent ==
  \A e \in EnrollmentIds :
    IF Present(e) /\ TakesPart(enrollment[e])
    THEN \E p \in OpenPeriods(e) : OpenPeriods(e) = {p} /\ p.role = enrollment[e].role
    ELSE OpenPeriods(e) = {}

(* What is known to have counted stays so: a change of one enrollment's    *)
(* role or state moves nothing that was done before the date of the change,*)
(* for nobody ("A kick changes the participation interval, not earlier     *)
(* records"); and a new enrollment nothing before it was made.  Corrections*)
(* and new dates of a season may.                                          *)
SettlesPast ==
  \A e \in EnrollmentIds :
    /\ enrollment'[e] # enrollment[e] /\ enrollment'[e] # NoRow
    /\ Present(e) => enrollment'[e].user = enrollment[e].user
                     /\ enrollment'[e].season = enrollment[e].season
    => LET date == IF Present(e) THEN enrollment'[e].changed ELSE enrollment'[e].created
       IN \A u \in Subjects, t \in Moments :
            t < date => activity_scope(u, t)' = activity_scope(u, t)

PastIsSettled == [][SettlesPast]_participationVars

(* A season that something counts for is offered where it is looked for:   *)
(* the view of the database and the filter of the page agree.              *)
CountedIsOffered ==
  \A u \in Subjects, t \in Moments :
    activity_scope(u, t) # NoSeason => activity_scope(u, t) \in activitySeasons(u)
=============================================================================
