---------------------------- MODULE MockInterviews ----------------------------
(***************************************************************************)
(* One recorded mock interview: its row, its rounds and the history of its *)
(* versions, as the Go API changes them (api/mock_interviews.go,           *)
(* mockinterviews/service.go, dal/mock_interviews.go).                     *)
(*                                                                         *)
(* A request reads the interview without a lock, decides on what it read   *)
(* who may do what and what the interview becomes, and then writes in one  *)
(* transaction that holds the interview's row.  Between the two any other  *)
(* request may write.  The interviewer owns the notes and the rounds with  *)
(* their contents, the interviewee their own notes and the review of each  *)
(* round, a director or system administrator the two identities.           *)
(*                                                                         *)
(* Scores, kinds, problems and texts of a round are one value, its content.*)
(* The time of the interview never changes once recorded, so the           *)
(* transaction's comparison of it never fails and is left out, like the    *)
(* season, which a view derives (ActivityScope), and the audit record.     *)
(***************************************************************************)
EXTENDS Integers, Sequences, FiniteSets, FiniteSetsExt, Functions

CONSTANTS
  Persons,
  Members,       \* users whose status lets them take part in an interview
  Admins,        \* directors and system administrators with recent MFA
  Rounds,        \* ids of rounds
  RoundContents, \* contents of rounds
  Texts,         \* notes and comments
  NoText,        \* the empty text
  NoPerson,
  MaxWriters,    \* bound: requests between their read and their write
  MaxVersions    \* bound: versions of the interview

ASSUME MockUsersAssumption ==
  Members \subseteq Persons /\ Admins \subseteq Persons /\ NoPerson \notin Persons
ASSUME MockTextsAssumption == NoText \in Texts
ASSUME MockBoundsAssumption == MaxWriters \in Nat /\ MaxVersions \in Nat
ASSUME MockRoundsAssumption == IsFiniteSet(Rounds)

VARIABLES
  mock,      \* the interview's row with its rounds
  last,      \* the snapshot in the newest version
  versions,  \* how many versions there are
  reqs       \* requests that have read and not yet written

mockVars == <<mock, last, versions, reqs>>

StoredRounds == [position : Nat \ {0}, content : RoundContents, reviewed : BOOLEAN, comment : Texts]

(* The rounds an interviewer submits, in their order: at least one, no id  *)
(* twice.                                                                  *)
Submissions ==
  {w \in UNION {[1..n -> [id : Rounds, content : RoundContents]] : n \in 1..Cardinality(Rounds)} :
     \A i, j \in DOMAIN w : w[i].id = w[j].id => i = j}

(* What GetMockInterview returns and a version keeps. *)
Snapshot(m) ==
  [interviewer |-> m.interviewer, interviewee |-> m.interviewee, notes |-> m.notes,
   theirs |-> m.theirs, rounds |-> m.rounds]

NoMock == [state |-> "none", interviewer |-> NoPerson, interviewee |-> NoPerson,
           notes |-> NoText, theirs |-> NoText, rounds |-> <<>>]

MockInit ==
  /\ mock = NoMock
  /\ last = Snapshot(NoMock)
  /\ versions = 0
  /\ reqs = {}

-----------------------------------------------------------------------------
(* Rounds                                                                  *)

Ids(wanted) == {wanted[i].id : i \in DOMAIN wanted}
PositionIn(wanted, id) == CHOOSE i \in DOMAIN wanted : wanted[i].id = id

(* What Service.Update makes of a submission: it copies the reviews of the *)
(* interview it was given, which is the one the request has read.          *)
Candidate(seen, wanted) ==
  [i \in DOMAIN wanted |->
     LET old == wanted[i].id \in DOMAIN seen.rounds IN
     [id |-> wanted[i].id, content |-> wanted[i].content,
      reviewed |-> old /\ seen.rounds[wanted[i].id].reviewed,
      comment |-> IF old THEN seen.rounds[wanted[i].id].comment ELSE NoText]]

(* Faulty variant: the candidate is written as it is. *)
ReconciledAsSubmitted(stored, wanted) ==
  [id \in Ids(wanted) |->
     LET i == PositionIn(wanted, id) IN
     [position |-> i, content |-> wanted[i].content,
      reviewed |-> wanted[i].reviewed, comment |-> wanted[i].comment]]

(* The transaction writes the contents and the positions, never a review.  *)
Reconciled(stored, wanted) ==
  [id \in Ids(wanted) |->
     LET i == PositionIn(wanted, id)
         old == id \in DOMAIN stored IN
     [position |-> i, content |-> wanted[i].content,
      reviewed |-> old /\ stored[id].reviewed,
      comment |-> IF old THEN stored[id].comment ELSE NoText]]

(* Faulty variant: only the range of the new positions is cleared. *)
ShiftByWanted(stored, wanted) == Len(wanted)

(* Rounds that stay move out of the way first when one of them gets        *)
(* another position: (interview, position) is unique at every statement.   *)
Reordered(stored, wanted) ==
  \E i \in DOMAIN wanted :
    wanted[i].id \in DOMAIN stored /\ stored[wanted[i].id].position # i

Shift(stored, wanted) ==
  Max({Len(wanted)} \cup {stored[id].position : id \in DOMAIN stored})

(* How far the rounds that stay move first.                                *)
Displacement(stored, wanted) == IF Reordered(stored, wanted) THEN Shift(stored, wanted) ELSE 0

(* The positions when the rounds that are not wanted have been deleted, the*)
(* others moved away and the first k of the submission written.            *)
PositionsAfter(stored, wanted, moved, k) ==
  LET written == {wanted[i].id : i \in 1..k} IN
  [id \in (DOMAIN stored \cap Ids(wanted)) \cup written |->
     IF id \in written THEN PositionIn(wanted, id) ELSE stored[id].position + moved]

(* Some statement finds the position of another round taken.  The move away*)
(* writes the rows one by one, in an order of the database's choice.       *)
Clash(stored, wanted) ==
  LET moved == Displacement(stored, wanted) IN
  \/ /\ moved > 0
     /\ \E a, b \in DOMAIN stored \cap Ids(wanted) :
          stored[a].position + moved = stored[b].position
  \/ \E k \in 0..Len(wanted) : ~IsInjective(PositionsAfter(stored, wanted, moved, k))

-----------------------------------------------------------------------------
(* Recording an interview                                                  *)

MayRecord(u, interviewee) == {u, interviewee} \subseteq Members /\ u # interviewee

(* createMockInterview.  The status of both people is read before the      *)
(* transaction.                                                            *)
Create(u, interviewee, wanted, notes) ==
  /\ mock.state = "none" /\ versions < MaxVersions
  /\ MayRecord(u, interviewee)
  /\ mock' = [state |-> "live", interviewer |-> u, interviewee |-> interviewee,
              notes |-> notes, theirs |-> NoText, rounds |-> Reconciled(<<>>, Candidate(last, wanted))]
  /\ last' = Snapshot(mock')
  /\ versions' = versions + 1
  /\ UNCHANGED reqs

-----------------------------------------------------------------------------
(* Requests: what is read, and who may go on                               *)

MayBegin ==
  /\ mock.state = "live"
  /\ Cardinality(reqs) < MaxWriters /\ versions + Cardinality(reqs) < MaxVersions

Begin(r) ==
  /\ MayBegin
  /\ r \notin reqs
  /\ reqs' = reqs \cup {r}
  /\ UNCHANGED <<mock, last, versions>>

MayChange(u) == u \in Members \cup Admins

BeginUpdate(u, wanted, notes) ==
  /\ MayChange(u) /\ u = mock.interviewer
  /\ Begin([op |-> "update", seen |-> Snapshot(mock), wanted |-> wanted, notes |-> notes])

BeginDeleteInterview(u) ==
  /\ MayChange(u) /\ u = mock.interviewer
  /\ Begin([op |-> "delete", seen |-> Snapshot(mock)])

BeginReview(u, id, reviewed, comment) ==
  /\ MayChange(u) /\ u = mock.interviewee
  /\ id \in DOMAIN mock.rounds
  /\ Begin([op |-> "review", seen |-> Snapshot(mock), id |-> id,
            reviewed |-> reviewed, comment |-> comment])

BeginNotes(u, notes) ==
  /\ MayChange(u) /\ u = mock.interviewee
  /\ Begin([op |-> "notes", seen |-> Snapshot(mock), notes |-> notes])

BeginCorrection(u, interviewer, interviewee) ==
  /\ u \in Admins
  /\ interviewer \in Members /\ interviewee \in Members /\ interviewer # interviewee
  /\ Begin([op |-> "correct", seen |-> Snapshot(mock),
            interviewer |-> interviewer, interviewee |-> interviewee])

-----------------------------------------------------------------------------
(* Requests: the transaction                                               *)

(* The row is locked FOR UPDATE if it is not deleted. *)
Found == mock.state = "live"

(* Faulty variant: the version keeps what the request has read. *)
KeptSnapshotAsRead(r, m) ==
  IF m.state = "deleted" \/ r.op = "notes" THEN Snapshot(m)
  ELSE [Snapshot(m) EXCEPT !.theirs = r.seen.theirs]

(* Unless the interview is deleted, the version keeps what is stored now,  *)
(* with the fields the request does not own.                               *)
KeptSnapshot(r, m) == IF m.state = "deleted" THEN r.seen ELSE Snapshot(m)

Write(r, m) ==
  /\ mock' = m
  /\ last' = KeptSnapshot(r, m)
  /\ versions' = versions + 1
  /\ reqs' = reqs \ {r}

Update(r) ==
  /\ r.op = "update" /\ Found
  /\ LET wanted == Candidate(r.seen, r.wanted) IN
     /\ ~Clash(mock.rounds, wanted)
     /\ Write(r, [mock EXCEPT !.notes = r.notes, !.rounds = Reconciled(mock.rounds, wanted)])

Delete(r) ==
  /\ r.op = "delete" /\ Found
  /\ Write(r, [mock EXCEPT !.state = "deleted"])

Review(r) ==
  /\ r.op = "review" /\ Found
  /\ r.id \in DOMAIN mock.rounds
  /\ Write(r, [mock EXCEPT !.rounds[r.id].reviewed = r.reviewed,
                           !.rounds[r.id].comment = r.comment])

SetNotes(r) ==
  /\ r.op = "notes" /\ Found
  /\ Write(r, [mock EXCEPT !.theirs = r.notes])

Correct(r) ==
  /\ r.op = "correct" /\ Found
  /\ Write(r, [mock EXCEPT !.interviewer = r.interviewer, !.interviewee = r.interviewee])

(* The transaction is rolled back, and the request answered with an error. *)
Refused(r) ==
  /\ \/ ~Found
     \/ r.op = "review" /\ r.id \notin DOMAIN mock.rounds
     \/ r.op = "update" /\ Clash(mock.rounds, Candidate(r.seen, r.wanted))
  /\ reqs' = reqs \ {r}
  /\ UNCHANGED <<mock, last, versions>>

MockNext ==
  \/ /\ mock.state = "none"
     /\ \E u, v \in Persons, w \in Submissions, t \in Texts : Create(u, v, w, t)
  \/ /\ MayBegin
     /\ \E u \in Persons :
          \/ BeginDeleteInterview(u)
          \/ \E t \in Texts : BeginNotes(u, t)
          \/ \E i, e \in Persons : BeginCorrection(u, i, e)
          \/ u = mock.interviewer /\ \E w \in Submissions, t \in Texts : BeginUpdate(u, w, t)
          \/ \E id \in Rounds, b \in BOOLEAN, t \in Texts : BeginReview(u, id, b, t)
  \/ \E r \in reqs : Update(r) \/ Delete(r) \/ Review(r) \/ SetNotes(r) \/ Correct(r) \/ Refused(r)

MockSpec == MockInit /\ [][MockNext]_mockVars

-----------------------------------------------------------------------------
(* Properties                                                              *)

IsSnapshot(s) ==
  /\ DOMAIN s = {"interviewer", "interviewee", "notes", "theirs", "rounds"}
  /\ {s.interviewer, s.interviewee} \subseteq Persons \cup {NoPerson}
  /\ {s.notes, s.theirs} \subseteq Texts
  /\ DOMAIN s.rounds \subseteq Rounds
  /\ \A id \in DOMAIN s.rounds : s.rounds[id] \in StoredRounds

(* The variables keep to their types, and a request to what it may ask. *)
MockTypeOK ==
  /\ mock.state \in {"none", "live", "deleted"}
  /\ IsSnapshot(Snapshot(mock)) /\ IsSnapshot(last)
  /\ mock.state # "none" => mock.interviewer # mock.interviewee /\ DOMAIN mock.rounds # {}
  /\ versions \in 0..MaxVersions
  /\ Cardinality(reqs) <= MaxWriters
  /\ \A r \in reqs :
       /\ r.op \in {"update", "delete", "review", "notes", "correct"}
       /\ IsSnapshot(r.seen)
       /\ r.op = "update" => r.wanted \in Submissions /\ r.notes \in Texts
       /\ r.op = "review" => r.id \in Rounds /\ r.reviewed \in BOOLEAN /\ r.comment \in Texts
       /\ r.op = "notes" => r.notes \in Texts
       /\ r.op = "correct" => {r.interviewer, r.interviewee} \subseteq Persons

(* writeMockInterview promises to "Snapshot the persisted result, including*)
(* fields this operation did not own": whatever was read and written       *)
(* meanwhile, the newest version of an interview that is not deleted is the*)
(* interview.                                                              *)
NewestVersionIsStored == mock.state = "live" => last = Snapshot(mock)

(* reconcileMockRounds leaves the rounds numbered from 1 without a gap, and*)
(* no submission in flight, computed from whatever rounds there were, runs *)
(* into the unique positions.                                              *)
RoundsFit ==
  /\ mock.state # "none" =>
       {mock.rounds[id].position : id \in DOMAIN mock.rounds} = 1..Cardinality(DOMAIN mock.rounds)
  /\ \A r \in reqs : r.op = "update" => ~Clash(mock.rounds, Candidate(r.seen, r.wanted))

InterviewersPart(m) ==
  <<m.notes, [id \in DOMAIN m.rounds |-> <<m.rounds[id].position, m.rounds[id].content>>]>>
IntervieweesPart(m, ids) ==
  <<m.theirs, [id \in ids |-> <<m.rounds[id].reviewed, m.rounds[id].comment>>]>>
AdminsPart(m) == <<m.interviewer, m.interviewee>>

(* Each write changes what one person owns: an edit decided on an old read *)
(* takes back no review and no note of the interviewee that was saved      *)
(* meanwhile, a review no edit, and a correction neither.                  *)
PartsChangeAlone ==
  [][mock.state = "live" =>
       LET both == DOMAIN mock.rounds \cap DOMAIN mock'.rounds IN
       Cardinality({p \in 1..4 :
         \/ p = 1 /\ InterviewersPart(mock) # InterviewersPart(mock')
         \/ p = 2 /\ IntervieweesPart(mock, both) # IntervieweesPart(mock', both)
         \/ p = 3 /\ AdminsPart(mock) # AdminsPart(mock')
         \/ p = 4 /\ mock.state # mock'.state}) <= 1]_mockVars
=============================================================================
