-------------------------- MODULE ParticipationProofs --------------------------
(***************************************************************************)
(* Proofs about the periods of participation, for any number of users,     *)
(* seasons and enrollments, any moments and any number of changes; and that*)
(* what is proved of a part of the API holds of Backend, which composes it.*)
(*                                                                         *)
(* Every change of a row either leaves the periods alone, for the row takes*)
(* part as before and in the same role, or ends the open period of the row *)
(* and starts another at the date of the change.  No period is of an       *)
(* enrollment that does not exist; so a new one brings none with it.       *)
(***************************************************************************)
EXTENDS Backend, KeysAndRatesProofs, WellFoundedInduction

PeriodsHaveRows == \A p \in periods : Present(p.of)

ParticipationInv == ParticipationTypeOK /\ OpenPeriodIsCurrent /\ PeriodsHaveRows

Periods == [of : EnrollmentIds, role : SeasonalRoles, from : Moments, to : 1..Forever]

(* Moments are numbers, and come before the end of an open period. *)
LEMMA MomentsAreBounded ==
  /\ MaxTime \in Nat \ {0} /\ Forever = MaxTime + 1
  /\ Moments \subseteq Int /\ 1..Forever \subseteq Int /\ Forever \in 1..Forever
  /\ \A t \in Moments : t >= 1 /\ t <= MaxTime /\ t < Forever /\ t \in 1..Forever
  BY ParticipationBounds DEF Moments, Forever

(* A period that is ended keeps what it is, and is no longer open. *)
LEMMA EndedPeriod ==
  ASSUME NEW p \in Periods, NEW at \in Moments, p.from <= p.to
  PROVE  LET q == [p EXCEPT !.to = Later(p.from, at)] IN
         /\ q \in Periods /\ q.of = p.of /\ q.role = p.role /\ q.from = p.from
         /\ q.to = Later(p.from, at) /\ q.to # Forever /\ q.from <= q.to
  BY MomentsAreBounded DEF Periods, Later

(* A period that is started is open. *)
LEMMA StartedPeriod ==
  ASSUME NEW e \in EnrollmentIds, NEW role \in SeasonalRoles, NEW at \in Moments
  PROVE  LET q == Period(e, role, at) IN
         /\ q \in Periods /\ q.of = e /\ q.role = role /\ q.from = at /\ q.to = Forever
         /\ q.from <= q.to
  BY MomentsAreBounded DEF Periods, Period

(* The first season depends on the candidates and the dates only. *)
LEMMA ScopeIsOfCandidates ==
  ASSUME NEW u \in Subjects, NEW t \in Moments,
         dates' = dates, Candidates(u, t)' = Candidates(u, t)
  PROVE  activity_scope(u, t)' = activity_scope(u, t)
  BY DEF activity_scope

-----------------------------------------------------------------------------
(* A row written by an UPDATE                                              *)

(* What a request may write: a row of the same user and season, changed at *)
(* a moment, and dated before its transaction unless the trigger has       *)
(* nothing to do.                                                          *)
Writable(e, new, begun) ==
  LET old == enrollment[e] IN
  /\ new \in EnrollmentRows /\ new # NoRow
  /\ new.user = old.user /\ new.season = old.season
  /\ new.changed \in Moments \cup {old.changed}
  /\ \/ old.role = new.role /\ TakesPart(old) = TakesPart(new)
     \/ new.changed <= begun

(* The periods after a change that the trigger follows. *)
LEMMA TrackedChange ==
  ASSUME ParticipationInv,
         NEW e \in EnrollmentIds, NEW new, NEW begun \in Moments, Present(e),
         Writable(e, new, begun), Rewritten(e, new, begun)
  PROVE  \/ /\ periods' = periods
            /\ enrollment[e].role = new.role /\ TakesPart(enrollment[e]) = TakesPart(new)
         \/ \E at \in Moments :
              /\ new.changed <= at
              /\ periods' = (periods \ OpenPeriods(e))
                     \cup {[p EXCEPT !.to = Later(p.from, at)] : p \in OpenPeriods(e)}
                     \cup (IF TakesPart(new) THEN {Period(e, new.role, at)} ELSE {})
<1>1. new.changed # enrollment[e].changed => new.changed \in Moments /\ new.changed <= new.changed
  <2>1. \A t \in Moments : t <= t
    BY MomentsAreBounded
  <2>2. QED BY <2>1 DEF Writable
<1>2. CASE enrollment[e].role = new.role /\ TakesPart(enrollment[e]) = TakesPart(new)
  BY <1>2 DEF Rewritten, Tracked
<1>3. CASE ~(enrollment[e].role = new.role /\ TakesPart(enrollment[e]) = TakesPart(new))
  <2>1. new.changed <= begun
    BY <1>3 DEF Writable
  <2>2. CASE new.changed # enrollment[e].changed
    BY <1>1, <1>3, <2>2 DEF Rewritten, Tracked
  <2>3. CASE new.changed = enrollment[e].changed
    BY <1>3, <2>1, <2>3 DEF Rewritten, Tracked
  <2>4. QED BY <2>2, <2>3
<1>4. QED BY <1>2, <1>3

(* A written row keeps the invariant. *)
LEMMA RewrittenKeepsInv ==
  ASSUME ParticipationInv,
         NEW e \in EnrollmentIds, NEW new, NEW begun \in Moments, Present(e),
         Writable(e, new, begun), Rewritten(e, new, begun)
  PROVE  ParticipationInv'
<1> USE DEF ParticipationInv
<1>1. /\ \A x \in EnrollmentIds : enrollment'[x] = IF x = e THEN new ELSE enrollment[x]
      /\ enrollment' \in [EnrollmentIds -> EnrollmentRows \cup {NoRow}]
      /\ \A x \in EnrollmentIds : Present(x)' = Present(x)
  BY DEF Rewritten, ParticipationTypeOK, Writable, Present
<1>2. /\ clock' \in Moments /\ edits' \in 0..MaxEdits /\ closed' \subseteq SeasonNumbers
      /\ dates' \in [SeasonNumbers -> [from : Moments, to : Moments]]
  BY ParticipationBounds DEF Rewritten, ParticipationTypeOK, Edit
<1>3. \A p \in periods : p \in Periods /\ p.from <= p.to
  BY DEF ParticipationTypeOK, Periods
<1>4. new.role \in SeasonalRoles /\ enrollment[e] \in EnrollmentRows
  BY DEF Writable, EnrollmentRows, ParticipationTypeOK, Present
<1>5. CASE periods' = periods /\ enrollment[e].role = new.role
           /\ TakesPart(enrollment[e]) = TakesPart(new)
  <2>1. ParticipationTypeOK'
    BY <1>1, <1>2, <1>5 DEF ParticipationTypeOK
  <2>2. \A x \in EnrollmentIds : OpenPeriods(x)' = OpenPeriods(x)
    BY <1>5 DEF OpenPeriods
  <2>3. \A x \in EnrollmentIds :
          Present(x) => enrollment'[x].role = enrollment[x].role
                        /\ TakesPart(enrollment'[x]) = TakesPart(enrollment[x])
    BY <1>1, <1>5
  <2>4. OpenPeriodIsCurrent'
    BY <1>1, <2>2, <2>3 DEF OpenPeriodIsCurrent
  <2>5. PeriodsHaveRows'
    BY <1>1, <1>3, <1>5 DEF PeriodsHaveRows, Periods
  <2>6. QED BY <2>1, <2>4, <2>5
<1>6. ASSUME NEW at \in Moments,
             periods' = (periods \ OpenPeriods(e))
                     \cup {[p EXCEPT !.to = Later(p.from, at)] : p \in OpenPeriods(e)}
                     \cup (IF TakesPart(new) THEN {Period(e, new.role, at)} ELSE {})
      PROVE  ParticipationInv'
  <2>1. \A q \in periods' :
          \/ q \in periods \ OpenPeriods(e)
          \/ \E p \in OpenPeriods(e) : q = [p EXCEPT !.to = Later(p.from, at)]
          \/ TakesPart(new) /\ q = Period(e, new.role, at)
    BY <1>6
  <2>0. /\ Period(e, new.role, at) \in Periods /\ Period(e, new.role, at).of = e
        /\ Period(e, new.role, at).from <= Period(e, new.role, at).to
        /\ Period(e, new.role, at).to = Forever /\ Period(e, new.role, at).role = new.role
    BY <1>4, StartedPeriod
  <2>2. \A q \in periods' : q \in Periods /\ q.from <= q.to
    <3>1. \A p \in OpenPeriods(e) :
            LET q == [p EXCEPT !.to = Later(p.from, at)] IN q \in Periods /\ q.from <= q.to
      BY <1>3, EndedPeriod DEF OpenPeriods
    <3>2. QED BY <1>3, <2>0, <2>1, <3>1
  <2>3. \A p \in OpenPeriods(e) :
          LET q == [p EXCEPT !.to = Later(p.from, at)] IN q.of = e /\ q.to # Forever
    BY <1>3, EndedPeriod DEF OpenPeriods
  <2>4. \A x \in EnrollmentIds \ {e} : OpenPeriods(x)' = OpenPeriods(x)
    <3> SUFFICES ASSUME NEW x \in EnrollmentIds \ {e} PROVE OpenPeriods(x)' = OpenPeriods(x)
      OBVIOUS
    <3>1. \A q \in periods' : q.of = x => q \in periods
      BY <2>0, <2>1, <2>3
    <3>2. \A q \in periods : q.of = x => q \in periods'
      BY <1>6 DEF OpenPeriods
    <3>3. QED BY <3>1, <3>2 DEF OpenPeriods
  <2>5. OpenPeriods(e)' = IF TakesPart(new) THEN {Period(e, new.role, at)} ELSE {}
    <3>1. \A q \in periods' : q.of = e /\ q.to = Forever => TakesPart(new) /\ q = Period(e, new.role, at)
      BY <2>1, <2>3 DEF OpenPeriods
    <3>2. TakesPart(new) => Period(e, new.role, at) \in periods'
      BY <1>6
    <3>3. QED BY <2>0, <3>1, <3>2 DEF OpenPeriods
  <2>6. OpenPeriodIsCurrent'
    <3> SUFFICES ASSUME NEW x \in EnrollmentIds
                 PROVE  IF Present(x)' /\ TakesPart(enrollment'[x])
                        THEN \E p \in OpenPeriods(x)' :
                               OpenPeriods(x)' = {p} /\ p.role = enrollment'[x].role
                        ELSE OpenPeriods(x)' = {}
      BY DEF OpenPeriodIsCurrent
    <3>1. CASE x = e
      BY <1>1, <2>0, <2>5, <3>1
    <3>2. CASE x # e
      BY <1>1, <2>4, <3>2 DEF OpenPeriodIsCurrent
    <3>3. QED BY <3>1, <3>2
  <2>7. ParticipationTypeOK'
    BY <1>1, <1>2, <2>2 DEF ParticipationTypeOK, Periods
  <2>8. PeriodsHaveRows'
    <3>1. \A q \in periods' : q.of \in EnrollmentIds /\ (q.of = e \/ q \in periods)
      BY <2>0, <2>1, <2>2, <2>3 DEF Periods
    <3>2. QED BY <1>1, <3>1 DEF PeriodsHaveRows
  <2>9. QED BY <2>6, <2>7, <2>8
<1>7. QED BY <1>5, <1>6, TrackedChange

(* ... and moves nothing before its date. *)
LEMMA RewrittenSettles ==
  ASSUME ParticipationInv,
         NEW e \in EnrollmentIds, NEW new, NEW begun \in Moments, Present(e),
         Writable(e, new, begun), Rewritten(e, new, begun)
  PROVE  SettlesPast
<1> USE DEF ParticipationInv
<1>1. /\ \A x \in EnrollmentIds : enrollment'[x] = IF x = e THEN new ELSE enrollment[x]
      /\ \A x \in EnrollmentIds : Present(x)' = Present(x)
      /\ \A x \in EnrollmentIds :
           Present(x) => enrollment'[x].user = enrollment[x].user
                         /\ enrollment'[x].season = enrollment[x].season
      /\ dates' = dates
  BY DEF Rewritten, ParticipationTypeOK, Writable, Present
<1>2. \A p \in periods : p \in Periods /\ p.from <= p.to
  BY DEF ParticipationTypeOK, Periods
<1>3. new.role \in SeasonalRoles
  BY DEF Writable, EnrollmentRows
<1>4. SUFFICES ASSUME NEW u \in Subjects, NEW t \in Moments, t < new.changed
               PROVE  Candidates(u, t)' = Candidates(u, t)
  BY <1>1, ScopeIsOfCandidates DEF SettlesPast
<1> DEFINE Counts(ps) ==
      {c \in [season : SeasonNumbers, from : Moments] :
         /\ dates[c.season].from <= t /\ t <= dates[c.season].to
         /\ \E x \in EnrollmentIds, p \in ps :
              /\ Present(x) /\ enrollment[x].user = u /\ enrollment[x].season = c.season
              /\ p.of = x /\ p.role = "student" /\ p.from = c.from
              /\ c.from <= t /\ t < p.to}
<1>5. Candidates(u, t) = Counts(periods)
  BY DEF Candidates
<1>6. Candidates(u, t)' = Counts(periods')
  BY <1>1 DEF Candidates
<1>7. CASE periods' = periods
  BY <1>5, <1>6, <1>7
<1>8. ASSUME NEW at \in Moments, new.changed <= at,
             periods' = (periods \ OpenPeriods(e))
                     \cup {[p EXCEPT !.to = Later(p.from, at)] : p \in OpenPeriods(e)}
                     \cup (IF TakesPart(new) THEN {Period(e, new.role, at)} ELSE {})
      PROVE  Counts(periods') = Counts(periods)
  <2>1. t < at
    <3>1. new.changed \in {0} \cup Moments
      BY DEF Writable, EnrollmentRows
    <3>2. QED BY <1>4, <1>8, <3>1, MomentsAreBounded
  <2>2. ASSUME NEW p \in OpenPeriods(e)
        PROVE  LET q == [p EXCEPT !.to = Later(p.from, at)] IN
               /\ q.of = p.of /\ q.role = p.role /\ q.from = p.from
               /\ p.from <= t => t < p.to /\ t < q.to
    <3>1. p \in Periods /\ p.from <= p.to /\ p.to = Forever /\ p.from \in Moments
      BY <1>2 DEF OpenPeriods, Periods
    <3>2. p.from <= t => t < Later(p.from, at)
      <4>1. p.from \in Int /\ t \in Int /\ at \in Int
        BY <3>1, MomentsAreBounded
      <4>2. QED BY <2>1, <4>1 DEF Later
    <3>3. t < p.to
      BY <3>1, MomentsAreBounded
    <3>4. QED BY <3>1, <3>2, <3>3, EndedPeriod
  <2>3. ~(Period(e, new.role, at).from <= t)
    BY <2>1, MomentsAreBounded DEF Period
  <2>4. \A p \in periods : p.from <= t /\ t < p.to =>
          \E q \in periods' : q.of = p.of /\ q.role = p.role /\ q.from = p.from /\ t < q.to
    <3> SUFFICES ASSUME NEW p \in periods, p.from <= t, t < p.to
                 PROVE  \E q \in periods' :
                          q.of = p.of /\ q.role = p.role /\ q.from = p.from /\ t < q.to
      OBVIOUS
    <3>1. CASE p \in OpenPeriods(e)
      <4>1. [p EXCEPT !.to = Later(p.from, at)] \in periods'
        BY <1>8, <3>1
      <4>2. QED BY <2>2, <3>1, <4>1
    <3>2. CASE p \notin OpenPeriods(e)
      BY <1>8, <3>2
    <3>3. QED BY <3>1, <3>2
  <2>5. \A q \in periods' : q.from <= t /\ t < q.to =>
          \E p \in periods : q.of = p.of /\ q.role = p.role /\ q.from = p.from /\ t < p.to
    <3> SUFFICES ASSUME NEW q \in periods', q.from <= t, t < q.to
                 PROVE  \E p \in periods :
                          q.of = p.of /\ q.role = p.role /\ q.from = p.from /\ t < p.to
      OBVIOUS
    <3>1. \/ q \in periods
          \/ \E p \in OpenPeriods(e) : q = [p EXCEPT !.to = Later(p.from, at)]
      BY <1>8, <2>3
    <3>2. QED BY <2>2, <3>1 DEF OpenPeriods
  <2>6. QED BY <2>4, <2>5
<1>9. QED BY <1>5, <1>6, <1>7, <1>8, TrackedChange

-----------------------------------------------------------------------------
(* The other steps                                                         *)

(* A new enrollment brings its first period, and none of the past. *)
LEMMA EnrollStep ==
  ASSUME ParticipationInv, NEW e \in EnrollmentIds, NEW u \in Subjects,
         NEW s \in SeasonNumbers, NEW role \in SeasonalRoles, NEW begun \in Moments,
         Enroll(e, u, s, role, begun)
  PROVE  ParticipationInv' /\ SettlesPast
<1> USE DEF ParticipationInv
<1> DEFINE new == [user |-> u, season |-> s, role |-> role, state |-> "active",
                   created |-> begun, changed |-> 0]
<1>1. new \in EnrollmentRows /\ new # NoRow /\ new.state = "active" /\ new.role = role
      /\ new.user = u /\ new.season = s /\ new.created = begun /\ TakesPart(new)
  <2>1. new \in EnrollmentRows
    BY DEF EnrollmentRows
  <2>2. new # NoRow
    BY DEF NoRow
  <2>3. QED BY <2>1, <2>2 DEF TakesPart
<1> HIDE DEF new
<1>2. /\ ~Present(e)
      /\ \A x \in EnrollmentIds : enrollment'[x] = IF x = e THEN new ELSE enrollment[x]
      /\ enrollment' \in [EnrollmentIds -> EnrollmentRows \cup {NoRow}]
      /\ \A x \in EnrollmentIds : Present(x)' = (x = e \/ Present(x))
      /\ periods' = periods \cup {Period(e, role, begun)}
      /\ dates' = dates /\ clock' = clock /\ closed' = closed /\ edits' \in 0..MaxEdits
  BY <1>1, ParticipationBounds DEF Enroll, ParticipationTypeOK, Present, Edit, new
<1>3. /\ Period(e, role, begun) \in Periods /\ Period(e, role, begun).of = e
      /\ Period(e, role, begun).role = role /\ Period(e, role, begun).from = begun
      /\ Period(e, role, begun).to = Forever
      /\ Period(e, role, begun).from <= Period(e, role, begun).to
  BY StartedPeriod
<1>4. \A p \in periods : p.of # e
  BY <1>2 DEF PeriodsHaveRows
<1>5. ParticipationTypeOK'
  BY <1>2, <1>3 DEF ParticipationTypeOK, Periods
<1>6. OpenPeriodIsCurrent'
  <2>1. OpenPeriods(e)' = {Period(e, role, begun)}
    BY <1>2, <1>3, <1>4 DEF OpenPeriods
  <2>2. \A x \in EnrollmentIds \ {e} : OpenPeriods(x)' = OpenPeriods(x)
    BY <1>2, <1>3 DEF OpenPeriods
  <2>3. QED BY <1>1, <1>2, <1>3, <2>1, <2>2 DEF OpenPeriodIsCurrent
<1>7. PeriodsHaveRows'
  <2>1. \A p \in periods : p.of \in EnrollmentIds
    BY DEF ParticipationTypeOK
  <2>2. QED BY <1>2, <1>3, <2>1 DEF PeriodsHaveRows
<1>8. SettlesPast
  <2>1. SUFFICES ASSUME NEW v \in Subjects, NEW t \in Moments, t < begun
                 PROVE  Candidates(v, t)' = Candidates(v, t)
    BY <1>1, <1>2, ScopeIsOfCandidates DEF SettlesPast
  <2>2. ~(begun <= t)
    BY <2>1, MomentsAreBounded
  <2>3. ASSUME NEW x \in EnrollmentIds, NEW p \in periods', Present(x)', p.of = x, p.from <= t
        PROVE  Present(x) /\ p \in periods /\ enrollment'[x] = enrollment[x]
    BY <1>2, <1>3, <1>4, <2>2, <2>3
  <2>4. ASSUME NEW x \in EnrollmentIds, NEW p \in periods, Present(x), p.of = x
        PROVE  Present(x)' /\ p \in periods' /\ enrollment'[x] = enrollment[x]
    BY <1>2, <2>4
  <2>5. QED BY <1>2, <2>3, <2>4 DEF Candidates
<1>9. QED BY <1>5, <1>6, <1>7, <1>8

(* To the trigger a completed member takes part as an active one does. *)
LEMMA RestatedStep ==
  ASSUME ParticipationInv, NEW s \in SeasonNumbers, NEW at \in Moments,
         CompleteMembers(s, at) \/ RestoreMembers(s, at)
  PROVE  ParticipationInv' /\ SettlesPast
<1> USE DEF ParticipationInv
<1>1. PICK from \in {"active", "completed"}, to \in {"active", "completed"} :
        Restated(InSeason(s, from), to, at)
  BY DEF CompleteMembers, RestoreMembers
<1> DEFINE es == InSeason(s, from)
<1>2. /\ \A x \in EnrollmentIds :
           /\ enrollment'[x] = IF x \in es THEN [enrollment[x] EXCEPT !.state = to, !.changed = at]
                             ELSE enrollment[x]
           /\ x \in es => enrollment[x] \in EnrollmentRows /\ enrollment[x].state = from
      /\ es \subseteq EnrollmentIds
  BY <1>1 DEF Restated, InSeason, ParticipationTypeOK, Present
<1>3. \A x \in EnrollmentIds :
        /\ enrollment'[x] \in EnrollmentRows \cup {NoRow}
        /\ Present(x)' = Present(x)
        /\ Present(x) => /\ enrollment'[x].user = enrollment[x].user
                         /\ enrollment'[x].season = enrollment[x].season
                         /\ enrollment'[x].role = enrollment[x].role
                         /\ TakesPart(enrollment'[x]) = TakesPart(enrollment[x])
  <2> SUFFICES ASSUME NEW x \in EnrollmentIds
               PROVE  /\ enrollment'[x] \in EnrollmentRows \cup {NoRow}
                      /\ Present(x)' = Present(x)
                      /\ Present(x) => /\ enrollment'[x].user = enrollment[x].user
                                       /\ enrollment'[x].season = enrollment[x].season
                                       /\ enrollment'[x].role = enrollment[x].role
                                       /\ TakesPart(enrollment'[x]) = TakesPart(enrollment[x])
    OBVIOUS
  <2>1. CASE x \notin es
    BY <1>2, <2>1 DEF Present, ParticipationTypeOK
  <2>2. CASE x \in es
    <3>1. enrollment'[x] = [enrollment[x] EXCEPT !.state = to, !.changed = at]
          /\ enrollment[x] \in EnrollmentRows /\ enrollment[x].state = from
      BY <1>2, <2>2
    <3>2. enrollment'[x] \in EnrollmentRows /\ enrollment'[x].state = to
      BY <3>1 DEF EnrollmentRows
    <3>3. enrollment'[x] # NoRow /\ enrollment[x] # NoRow
      <4>1. enrollment'[x].state # "absent" /\ enrollment[x].state # "absent"
        BY <3>1, <3>2
      <4>2. QED BY <4>1 DEF NoRow
    <3>4. QED BY <3>1, <3>2, <3>3 DEF EnrollmentRows, Present, TakesPart
  <2>3. QED BY <2>1, <2>2
<1>4. \A x \in es : Present(x) /\ Tracked(x, enrollment[x], enrollment'[x], at) = periods
  BY <1>2, <1>3 DEF Tracked, InSeason
<1>5. periods' = periods /\ dates' = dates /\ clock' = clock /\ edits' \in 0..MaxEdits
      /\ enrollment' \in [EnrollmentIds -> EnrollmentRows \cup {NoRow}]
  <2>1. periods' = periods
    <3>1. {p \in periods : \A e \in es : p \in Tracked(e, enrollment[e], enrollment'[e], at)} = periods
      BY <1>4
    <3>2. UNION {Tracked(e, enrollment[e], enrollment'[e], at) \ periods : e \in es} = {}
      BY <1>4
    <3>3. QED BY <1>1, <3>1, <3>2 DEF Restated
  <2>2. enrollment' \in [EnrollmentIds -> EnrollmentRows \cup {NoRow}]
    BY <1>1, <1>3 DEF Restated
  <2>3. edits' \in 0..MaxEdits
    <3>1. Edit
      BY <1>1 DEF Restated
    <3>2. QED BY <3>1, ParticipationBounds DEF Edit, ParticipationTypeOK
  <2>4. QED BY <1>1, <2>1, <2>2, <2>3 DEF Restated
<1>6. ParticipationTypeOK'
  <2>1. closed' \subseteq SeasonNumbers
    BY DEF CompleteMembers, RestoreMembers, ParticipationTypeOK
  <2>2. QED BY <1>5, <2>1 DEF ParticipationTypeOK
<1>7. OpenPeriodIsCurrent'
  <2>1. \A x \in EnrollmentIds : OpenPeriods(x)' = OpenPeriods(x)
    BY <1>5 DEF OpenPeriods
  <2>2. QED BY <1>3, <2>1 DEF OpenPeriodIsCurrent
<1>8. PeriodsHaveRows'
  <2>1. \A p \in periods : p.of \in EnrollmentIds
    BY DEF ParticipationTypeOK
  <2>2. QED BY <1>3, <1>5, <2>1 DEF PeriodsHaveRows
<1>9. SettlesPast
  <2>1. \A v \in Subjects, t \in Moments : Candidates(v, t)' = Candidates(v, t)
    BY <1>3, <1>5 DEF Candidates
  <2>2. QED BY <1>5, <2>1, ScopeIsOfCandidates DEF SettlesPast
<1>10. QED BY <1>6, <1>7, <1>8, <1>9

(* A correction moves a row with its periods, and reaches back. *)
LEMMA CorrectStep ==
  ASSUME ParticipationInv, NEW e \in EnrollmentIds, NEW u \in Subjects,
         NEW s \in SeasonNumbers, Correct(e, u, s)
  PROVE  ParticipationInv' /\ SettlesPast
<1> USE DEF ParticipationInv
<1>1. enrollment[e] \in EnrollmentRows
  BY DEF Correct, ParticipationTypeOK, Present
<1> DEFINE new == [enrollment[e] EXCEPT !.user = u, !.season = s]
<1>2. /\ new \in EnrollmentRows /\ new # NoRow /\ new.role = enrollment[e].role
      /\ TakesPart(new) = TakesPart(enrollment[e]) /\ new.user = u /\ new.season = s
  <2>1. new \in EnrollmentRows /\ new.role = enrollment[e].role /\ new.state = enrollment[e].state
        /\ new.user = u /\ new.season = s
    BY <1>1 DEF EnrollmentRows
  <2>2. new # NoRow
    BY <2>1 DEF EnrollmentRows, NoRow
  <2>3. QED BY <2>1, <2>2 DEF TakesPart
<1>3. enrollment' = [enrollment EXCEPT ![e] = new]
  BY DEF Correct
<1> HIDE DEF new
<1>4. /\ \A x \in EnrollmentIds : enrollment'[x] = IF x = e THEN new ELSE enrollment[x]
      /\ enrollment' \in [EnrollmentIds -> EnrollmentRows \cup {NoRow}]
      /\ \A x \in EnrollmentIds : Present(x)' = Present(x)
      /\ Present(e) /\ periods' = periods /\ dates' = dates /\ clock' = clock /\ closed' = closed
  BY <1>2, <1>3 DEF Correct, ParticipationTypeOK, Present
<1>5. edits' \in 0..MaxEdits
  BY ParticipationBounds DEF Correct, Edit, ParticipationTypeOK
<1>6. ParticipationTypeOK'
  BY <1>4, <1>5 DEF ParticipationTypeOK
<1>7. OpenPeriodIsCurrent'
  <2>1. \A x \in EnrollmentIds : OpenPeriods(x)' = OpenPeriods(x)
    BY <1>4 DEF OpenPeriods
  <2>2. QED BY <1>2, <1>4, <2>1 DEF OpenPeriodIsCurrent
<1>8. PeriodsHaveRows'
  BY <1>4 DEF PeriodsHaveRows, ParticipationTypeOK
<1>9. SettlesPast
  <2>1. ~(new.user = enrollment[e].user /\ new.season = enrollment[e].season)
    BY <1>2 DEF Correct
  <2>2. QED BY <1>4, <2>1 DEF SettlesPast
<1>10. QED BY <1>6, <1>7, <1>8, <1>9

(* What a request makes of the row of a member. *)
LEMMA MemberStep ==
  ASSUME ParticipationInv, NEW e \in EnrollmentIds, NEW begun \in Moments, NEW at \in 1..begun,
         Present(e), NEW role \in SeasonalRoles,
         \/ UpdateEnrollmentRole(e, role, at, begun) \/ setCanarySeasonRole(e, role, at, begun)
         \/ Promote(e, at, begun) \/ EndEnrollment(e, at, begun)
  PROVE  ParticipationInv' /\ SettlesPast
<1> USE DEF ParticipationInv
<1>1. /\ enrollment[e] \in EnrollmentRows /\ at \in Moments /\ at <= begun
      /\ at \in Int /\ begun \in Int
  <2>1. enrollment[e] \in EnrollmentRows
    BY DEF ParticipationTypeOK, Present
  <2>2. at \in Moments /\ at <= begun /\ at \in Int /\ begun \in Int
    BY MomentsAreBounded DEF Moments
  <2>3. QED BY <2>1, <2>2
<1> DEFINE m == enrollment[e]
<1>2. ASSUME NEW new, Rewritten(e, new, begun), new \in EnrollmentRows,
             new.user = m.user, new.season = m.season,
             new.changed = at \/ (new.changed = m.changed /\ new.role = m.role /\ new.state = m.state)
      PROVE  ParticipationInv' /\ SettlesPast
  <2>1. new # NoRow
    BY <1>2 DEF EnrollmentRows, NoRow
  <2>2. Writable(e, new, begun)
    BY <1>1, <1>2, <2>1 DEF Writable, TakesPart
  <2>3. QED BY <1>2, <2>2, RewrittenKeepsInv, RewrittenSettles
<1>3. CASE UpdateEnrollmentRole(e, role, at, begun)
  <2>0. PICK new : new = [m EXCEPT !.role = role, !.changed = IF m.role # role THEN at ELSE @]
    OBVIOUS
  <2>1. new \in EnrollmentRows /\ new.user = m.user /\ new.season = m.season /\ new.state = m.state
        /\ new.role = role /\ new.changed = IF m.role # role THEN at ELSE m.changed
    BY <1>1, <2>0 DEF EnrollmentRows
  <2>2. Rewritten(e, new, begun)
    BY <1>3, <2>0 DEF UpdateEnrollmentRole, Rewritten
  <2>3. QED BY <1>2, <2>1, <2>2
<1>4. CASE setCanarySeasonRole(e, role, at, begun)
  <2>0. PICK new : new = [m EXCEPT !.role = role, !.state = "active", !.changed = at]
    OBVIOUS
  <2>1. new \in EnrollmentRows /\ new.user = m.user /\ new.season = m.season /\ new.changed = at
    BY <1>1, <2>0 DEF EnrollmentRows
  <2>2. Rewritten(e, new, begun)
    BY <1>4, <2>0 DEF setCanarySeasonRole, Rewritten
  <2>3. QED BY <1>2, <2>1, <2>2
<1>5. CASE Promote(e, at, begun)
  <2>0. PICK new : new = [m EXCEPT !.role = "mentor", !.changed = at]
    OBVIOUS
  <2>1. new \in EnrollmentRows /\ new.user = m.user /\ new.season = m.season /\ new.changed = at
    BY <1>1, <2>0 DEF EnrollmentRows, SeasonalRoles
  <2>2. Rewritten(e, new, begun)
    BY <1>5, <2>0 DEF Promote, Rewritten
  <2>3. QED BY <1>2, <2>1, <2>2
<1>6. CASE EndEnrollment(e, at, begun)
  <2>0. PICK new : new = [m EXCEPT !.state = IF m.role = "student" THEN "kicked" ELSE "withdrawn",
                              !.changed = at]
    OBVIOUS
  <2>1. new \in EnrollmentRows /\ new.user = m.user /\ new.season = m.season /\ new.changed = at
    BY <1>1, <2>0 DEF EnrollmentRows
  <2>2. Rewritten(e, new, begun)
    BY <1>6, <2>0 DEF EndEnrollment, Rewritten
  <2>3. QED BY <1>2, <2>1, <2>2
<1>7. QED BY <1>3, <1>4, <1>5, <1>6

(* EnrollmentRows and periods are as they were. *)
LEMMA OtherStep ==
  ASSUME ParticipationInv,
         \/ Tick \/ UNCHANGED participationVars
         \/ \E s \in SeasonNumbers, from, to \in Moments : UpdateSeasonDefinition(s, from, to)
  PROVE  ParticipationInv' /\ SettlesPast
<1> USE DEF ParticipationInv
<1>1. enrollment' = enrollment /\ periods' = periods /\ closed' = closed
  BY DEF Tick, UpdateSeasonDefinition, participationVars
<1>2. clock' \in Moments /\ edits' \in 0..MaxEdits
  BY ParticipationBounds DEF Tick, UpdateSeasonDefinition, participationVars, ParticipationTypeOK,
     Moments, Edit
<1>3. dates' \in [SeasonNumbers -> [from : Moments, to : Moments]]
  BY DEF Tick, UpdateSeasonDefinition, participationVars, ParticipationTypeOK
<1>4. ParticipationTypeOK'
  BY <1>1, <1>2, <1>3 DEF ParticipationTypeOK
<1>5. OpenPeriodIsCurrent' /\ PeriodsHaveRows'
  BY <1>1 DEF OpenPeriodIsCurrent, OpenPeriods, PeriodsHaveRows, Present
<1>6. QED BY <1>1, <1>4, <1>5 DEF SettlesPast

-----------------------------------------------------------------------------
(* The theorems                                                            *)

LEMMA ParticipationStarts == ParticipationInit => ParticipationInv
<1> SUFFICES ASSUME ParticipationInit PROVE ParticipationInv
  OBVIOUS
<1>1. 1 \in Moments /\ MaxTime \in Moments /\ 0 \in 0..MaxEdits
  BY ParticipationBounds DEF Moments
<1>2. ParticipationTypeOK
  BY <1>1 DEF ParticipationInit, ParticipationTypeOK
<1>3. OpenPeriodIsCurrent /\ PeriodsHaveRows
  BY DEF ParticipationInit, OpenPeriodIsCurrent, PeriodsHaveRows, OpenPeriods, Present
<1>4. QED BY <1>2, <1>3 DEF ParticipationInv

LEMMA ParticipationStep ==
  ASSUME ParticipationInv, [ParticipationNext]_participationVars
  PROVE  ParticipationInv' /\ SettlesPast
<1>1. \A t \in 1..clock : t \in Moments
  BY MomentsAreBounded DEF ParticipationInv, ParticipationTypeOK, Moments
<1>2. CASE Tick \/ UNCHANGED participationVars
  BY <1>2, OtherStep
<1>3. CASE \E s \in SeasonNumbers, from, to \in Moments : UpdateSeasonDefinition(s, from, to)
  BY <1>3, OtherStep
<1>4. ASSUME NEW begun \in 1..clock, NEW e \in EnrollmentIds, NEW u \in Subjects,
             NEW s \in SeasonNumbers, NEW role \in SeasonalRoles, Enroll(e, u, s, role, begun)
      PROVE  ParticipationInv' /\ SettlesPast
  BY <1>1, <1>4, EnrollStep
<1>5. ASSUME NEW begun \in 1..clock, NEW e \in EnrollmentIds, NEW at \in 1..begun, Dated(e, at),
             NEW role \in SeasonalRoles,
             \/ UpdateEnrollmentRole(e, role, at, begun) \/ setCanarySeasonRole(e, role, at, begun)
             \/ Promote(e, at, begun) \/ EndEnrollment(e, at, begun)
      PROVE  ParticipationInv' /\ SettlesPast
  <2>1. Present(e) /\ begun \in Moments
    BY <1>1, <1>5 DEF Dated
  <2>2. QED BY <1>5, <2>1, MemberStep
<1>6. ASSUME NEW e \in EnrollmentIds, NEW u \in Subjects, NEW s \in SeasonNumbers, Correct(e, u, s)
      PROVE  ParticipationInv' /\ SettlesPast
  BY <1>6, CorrectStep
<1>7. ASSUME NEW s \in SeasonNumbers, NEW at \in 1..clock,
             CompleteMembers(s, at) \/ RestoreMembers(s, at)
      PROVE  ParticipationInv' /\ SettlesPast
  BY <1>1, <1>7, RestatedStep
<1>8. "student" \in SeasonalRoles
  BY DEF SeasonalRoles
<1>9. QED BY <1>2, <1>3, <1>4, <1>5, <1>6, <1>7, <1>8 DEF ParticipationNext

(* The inductive invariant. *)
THEOREM ParticipationInductive == ParticipationSpec => []ParticipationInv
<1>1. ParticipationInit => ParticipationInv
  BY ParticipationStarts
<1>2. ParticipationInv /\ [ParticipationNext]_participationVars => ParticipationInv'
  BY ParticipationStep
<1>3. QED BY <1>1, <1>2, PTL DEF ParticipationSpec

(* The variables keep to their types, and every period ends after it begins*)
(* as the table demands, however late a change is applied.                 *)
THEOREM ParticipationTypeCorrect == ParticipationSpec => []ParticipationTypeOK
<1>1. ParticipationInv => ParticipationTypeOK
  BY DEF ParticipationInv
<1>2. QED BY <1>1, ParticipationInductive, PTL

(* The trigger keeps one open period for each enrollment that takes part,  *)
(* of its role, and none for the others.                                   *)
THEOREM OnePeriodIsOpen == ParticipationSpec => []OpenPeriodIsCurrent
<1>1. ParticipationInv => OpenPeriodIsCurrent
  BY DEF ParticipationInv
<1>2. QED BY <1>1, ParticipationInductive, PTL

(* A change of a member moves nothing that was done before its date.       *)
THEOREM PastStays == ParticipationSpec => PastIsSettled
<1>1. ParticipationInv /\ [ParticipationNext]_participationVars => [SettlesPast]_participationVars
  BY ParticipationStep
<1>2. QED BY <1>1, ParticipationInductive, PTL DEF ParticipationSpec, PastIsSettled
-----------------------------------------------------------------------------
(* What counts is offered.  Of the seasons that a moment may count for, one*)
(* precedes the others, for moments and seasons are bounded numbers; and   *)
(* whichever it is, it has a period of a student.                          *)

LEMMA LeastExists ==
  ASSUME NEW S \in SUBSET Nat, S # {}
  PROVE  \E x \in S : \A y \in S : x <= y
<1>1. PICK x \in S : \A y \in S : ~(<<y, x>> \in OpToRel(<, Nat))
  BY NatLessThanWellFounded, WFMin
<1>2. \A y \in S : ~(y < x)
  BY <1>1 DEF OpToRel
<1>3. QED BY <1>2

LEMMA LatestExists ==
  ASSUME NEW S \in SUBSET Moments, S # {}
  PROVE  \E x \in S : \A y \in S : y <= x
<1> DEFINE T == {MaxTime - x : x \in S}
<1>1. \A x \in S : x \in Int /\ MaxTime - x \in Nat
  BY MomentsAreBounded
<1>2. T \in SUBSET Nat /\ T # {}
  BY <1>1
<1>3. PICK z \in T : \A y \in T : z <= y
  <2> HIDE DEF T
  <2>1. QED BY <1>2, LeastExists
<1>4. PICK x \in S : z = MaxTime - x
  BY <1>3
<1>5. \A y \in S : MaxTime - x <= MaxTime - y
  BY <1>3, <1>4
<1>6. QED BY <1>1, <1>5, MomentsAreBounded

LEMMA OnePrecedes ==
  ASSUME ParticipationTypeOK, NEW cs \in SUBSET [season : SeasonNumbers, from : Moments], cs # {}
  PROVE  \E c \in cs : \A d \in cs : Precedes(c, d, dates)
<1> DEFINE Start(c) == dates[c.season].from
<1>1. \A c \in cs : Start(c) \in Moments /\ c.from \in Moments /\ c.season \in Nat
  BY ParticipationBounds DEF ParticipationTypeOK
<1>2. PICK b \in cs : \A d \in cs : Start(d) <= Start(b)
  <2> DEFINE S == {Start(c) : c \in cs}
  <2>1. S \in SUBSET Moments /\ S # {}
    BY <1>1
  <2>2. PICK x \in S : \A y \in S : y <= x
    <3> HIDE DEF S
    <3>1. QED BY <2>1, LatestExists
  <2>3. QED BY <2>2
<1> HIDE DEF Start
<1>3. PICK k \in cs : Start(k) = Start(b) /\ \A d \in cs : Start(d) = Start(b) => d.from <= k.from
  <2> DEFINE S == {c.from : c \in {d \in cs : Start(d) = Start(b)}}
  <2>1. S \in SUBSET Moments /\ S # {}
    BY <1>1
  <2>2. PICK x \in S : \A y \in S : y <= x
    <3> HIDE DEF S
    <3>1. QED BY <2>1, LatestExists
  <2>3. QED BY <2>2
<1>4. PICK c \in cs : /\ Start(c) = Start(b) /\ c.from = k.from
                      /\ \A d \in cs : Start(d) = Start(b) /\ d.from = k.from => c.season <= d.season
  <2> DEFINE S == {c.season : c \in {d \in cs : Start(d) = Start(b) /\ d.from = k.from}}
  <2>1. S \in SUBSET Nat /\ S # {}
    BY <1>1, <1>3
  <2>2. PICK x \in S : \A y \in S : x <= y
    <3> HIDE DEF S
    <3>1. QED BY <2>1, LeastExists
  <2>3. QED BY <2>2
<1>5. ASSUME NEW d \in cs PROVE Precedes(c, d, dates)
  <2>1. Start(c) \in Int /\ Start(d) \in Int /\ c.from \in Int /\ d.from \in Int
    BY <1>1, MomentsAreBounded
  <2>2. Start(d) <= Start(c) /\ (Start(d) = Start(c) => d.from <= c.from)
    BY <1>2, <1>3, <1>4
  <2>3. Start(d) = Start(c) /\ d.from = c.from => c.season <= d.season
    BY <1>4
  <2>4. \/ Start(c) > Start(d)
        \/ Start(c) = Start(d) /\ c.from > d.from
        \/ Start(c) = Start(d) /\ c.from = d.from /\ c.season <= d.season
    BY <2>1, <2>2, <2>3
  <2>5. QED BY <2>4 DEF Precedes, Start
<1>6. QED BY <1>5

(* The season that the view of the database lets an attempt or an interview*)
(* count for is among those the tables of the activity offer               *)
(* (activity_scope; activityPeriod.ts): whatever moment, whatever dates.    *)
THEOREM CountedSeasonsAreOffered == ParticipationSpec => []CountedIsOffered
<1>1. ASSUME ParticipationTypeOK, NEW u \in Subjects, NEW t \in Moments,
             activity_scope(u, t) # NoSeason
      PROVE  activity_scope(u, t) \in activitySeasons(u)
  <2> DEFINE cs == Candidates(u, t)
  <2>1. cs \in SUBSET [season : SeasonNumbers, from : Moments] /\ cs # {}
    BY <1>1 DEF activity_scope, First, Candidates
  <2>2. PICK c \in cs : activity_scope(u, t) = c.season
    <3> HIDE DEF cs
    <3>1. \E c \in cs : \A d \in cs : Precedes(c, d, dates)
      BY <1>1, <2>1, OnePrecedes
    <3>2. PICK c \in cs : c = CHOOSE x \in cs : \A d \in cs : Precedes(x, d, dates)
      BY <3>1
    <3>3. QED BY <2>1, <3>2 DEF activity_scope, First, cs
  <2>3. QED BY <2>2 DEF Candidates, activitySeasons
<1>2. ParticipationTypeOK => CountedIsOffered
  BY <1>1 DEF CountedIsOffered
<1>3. QED BY <1>2, ParticipationTypeCorrect, PTL

-----------------------------------------------------------------------------
(* Backend: the parts in one specification                                 *)

(* Whatever part moves, each is as its own specification says: it starts as*)
(* the part does, and makes its steps or none (dal/invitations.go,         *)
(* dal/participation.go, auth/auth.go, ratelimit).                         *)
THEOREM PartsOfBackend ==
  BackendSpec => Spec /\ ParticipationSpec /\ KeysSpec /\ RatesSpec
<1>1. BackendInit => Init /\ ParticipationInit /\ KeysInit /\ RatesInit
  BY DEF BackendInit
<1>2. [BackendNext]_backendVars => [Next]_vars
  BY DEF BackendNext, backendVars
<1>3. [BackendNext]_backendVars => [ParticipationNext]_participationVars
  BY DEF BackendNext, backendVars
<1>4. [BackendNext]_backendVars => [KeysNext]_keyVars
  BY DEF BackendNext, backendVars
<1>5. [BackendNext]_backendVars => [RatesNext]_rateVars
  BY DEF BackendNext, backendVars
<1>6. QED BY <1>1, <1>2, <1>3, <1>4, <1>5, PTL DEF BackendSpec, Spec, ParticipationSpec, KeysSpec, RatesSpec

(* The types of the parts of the API as they are composed: participation   *)
(* periods, the key cache and the limiters keep them, whichever part moves *)
(* (migrations/00002_domain_content.sql, auth/auth.go, ratelimit).         *)
THEOREM BackendTypeCorrect == BackendSpec => []BackendTypeOK
<1>1. ParticipationTypeOK /\ KeysTypeOK /\ RatesTypeOK => BackendTypeOK
  BY DEF BackendTypeOK
<1>2. QED BY <1>1, PartsOfBackend, ParticipationTypeCorrect, KeysTypeCorrect, RatesTypeCorrect, PTL
=============================================================================
