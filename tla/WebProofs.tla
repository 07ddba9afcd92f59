------------------------------- MODULE WebProofs -------------------------------
(***************************************************************************)
(* Proofs about the parts of MCWeb: the record of a mock interview, the    *)
(* page that edits it, the session of a tab, the guards of the pages, the  *)
(* account as its owner edits it; for any number of people, seasons,       *)
(* rounds, texts and requests.  With those of ListsProofs, what is proved  *)
(* of a part holds of MCWeb, which composes them.                          *)
(***************************************************************************)
EXTENDS MCWeb, ListsProofs, SequenceTheorems

-----------------------------------------------------------------------------
(* MockInterviews: the newest version                                      *)

(* Whatever a request had read, the newest version of an interview that is *)
(* not deleted is the interview as stored (dal/mock_interviews.go,         *)
(* writeMockInterview).                                                    *)
THEOREM NewestVersionStays == MockSpec => []NewestVersionIsStored
<1> USE DEF NewestVersionIsStored
<1>1. MockInit => NewestVersionIsStored
  BY DEF MockInit
<1>2. ASSUME NewestVersionIsStored, [MockNext]_mockVars PROVE NewestVersionIsStored'
  <2>1. CASE UNCHANGED <<mock, last>>
    BY <1>2, <2>1 DEF Snapshot
  <2>2. CASE last' = Snapshot(mock')
    BY <2>2 DEF Snapshot
  <2>3. ASSUME NEW r, NEW m, Write(r, m) PROVE NewestVersionIsStored'
    BY <2>3 DEF Write, KeptSnapshot, Snapshot
  <2>4. ASSUME NEW r, Begin(r) PROVE UNCHANGED <<mock, last>>
    BY <2>4 DEF Begin
  <2>5. ASSUME NEW u, NEW v, NEW w, NEW t, Create(u, v, w, t) PROVE last' = Snapshot(mock')
    BY <2>5 DEF Create
  <2>6. ASSUME NEW r, Refused(r) PROVE UNCHANGED <<mock, last>>
    BY <2>6 DEF Refused
  <2>7. ASSUME NEW r, Update(r) \/ Delete(r) \/ Review(r) \/ SetNotes(r) \/ Correct(r)
        PROVE  NewestVersionIsStored'
    BY <2>3, <2>7 DEF Update, Delete, Review, SetNotes, Correct
  <2>8. CASE UNCHANGED mockVars
    BY <2>1, <2>8 DEF mockVars
  <2>9. CASE MockNext
    <3>1. CASE \E u, v \in Persons, w \in Submissions, t \in Texts : Create(u, v, w, t)
      BY <3>1, <2>2, <2>5
    <3>2. CASE \E u \in Persons :
                 \/ BeginDeleteInterview(u)
                 \/ \E t \in Texts : BeginNotes(u, t)
                 \/ \E i, e \in Persons : BeginCorrection(u, i, e)
                 \/ u = mock.interviewer /\ \E w \in Submissions, t \in Texts : BeginUpdate(u, w, t)
                 \/ \E id \in Rounds, b \in BOOLEAN, t \in Texts : BeginReview(u, id, b, t)
      <4>1. UNCHANGED <<mock, last>>
        BY <3>2, <2>4 DEF BeginDeleteInterview, BeginNotes, BeginCorrection, BeginUpdate, BeginReview
      <4>2. QED BY <4>1, <2>1
    <3>3. CASE \E r \in reqs : Update(r) \/ Delete(r) \/ Review(r) \/ SetNotes(r) \/ Correct(r) \/ Refused(r)
      BY <3>3, <2>1, <2>6, <2>7
    <3>4. QED BY <2>9, <3>1, <3>2, <3>3 DEF MockNext
  <2>10. QED BY <1>2, <2>8, <2>9
<1>3. QED BY <1>1, <1>2, PTL DEF MockSpec

-----------------------------------------------------------------------------
(* MockInterviews: positions                                               *)
(*                                                                         *)
(* A submission names its rounds in their order.  Written, they are its    *)
(* rounds and numbered by it; and on the way there the rounds that stay are*)
(* either where they will be or beyond all positions, old and new.         *)

IsSubmission(c, n) ==
  /\ n \in Nat \ {0} /\ DOMAIN c = 1..n /\ Len(c) = n
  /\ \A i \in 1..n : c[i].id \in Rounds /\ c[i].content \in RoundContents
  /\ \A i, j \in 1..n : c[i].id = c[j].id => i = j

LEMMA CandidatesAreSubmissions ==
  ASSUME NEW wanted \in Submissions, NEW seen
  PROVE  \E n \in Nat : IsSubmission(Candidate(seen, wanted), n)
<1>1. Cardinality(Rounds) \in Nat
  BY MockRoundsAssumption, FS_CardinalityType
<1>2. PICK n \in 1..Cardinality(Rounds) : wanted \in [1..n -> [id : Rounds, content : RoundContents]]
  BY DEF Submissions
<1>3. n \in Nat \ {0}
  BY <1>1
<1>4. \A i, j \in 1..n : wanted[i].id = wanted[j].id => i = j
  BY <1>2 DEF Submissions
<1> DEFINE c == Candidate(seen, wanted)
           e(i) == c[i]
           T == {c[i] : i \in 1..n}
<1>5. DOMAIN c = 1..n /\ \A i \in 1..n : c[i].id = wanted[i].id /\ c[i].content = wanted[i].content
  BY <1>2 DEF Candidate
<1>6. c = [i \in 1..n |-> c[i]]
  BY <1>2 DEF Candidate
<1> HIDE DEF c
<1>7. c \in [1..n -> T]
  BY <1>6
<1> HIDE DEF T
<1>8. Len(c) = n
  BY <1>3, <1>7
<1>9. \A i \in 1..n : wanted[i].id \in Rounds /\ wanted[i].content \in RoundContents
  BY <1>2
<1>10. IsSubmission(c, n)
  BY <1>3, <1>4, <1>5, <1>8, <1>9 DEF IsSubmission
<1>11. QED BY <1>3, <1>10 DEF c

LEMMA PositionsAreIndices ==
  ASSUME NEW c, NEW n, IsSubmission(c, n)
  PROVE  /\ \A i \in 1..n : c[i].id \in Ids(c) /\ PositionIn(c, c[i].id) = i
         /\ \A id \in Ids(c) : PositionIn(c, id) \in 1..n /\ c[PositionIn(c, id)].id = id
  BY DEF IsSubmission, Ids, PositionIn

LEMMA SubmissionsAreCounted ==
  ASSUME NEW c, NEW n, IsSubmission(c, n)
  PROVE  Cardinality(Ids(c)) = n /\ Ids(c) # {} /\ Ids(c) \subseteq Rounds
<1> DEFINE f == [i \in 1..n |-> c[i].id]
<1>1. f \in [1..n -> Ids(c)]
  BY PositionsAreIndices
<1>2. \A i, j \in 1..n : f[i] = f[j] => i = j
  BY DEF IsSubmission
<1>3. \A id \in Ids(c) : \E i \in 1..n : f[i] = id
  BY PositionsAreIndices
<1>4. f \in Bijection(1..n, Ids(c))
  <2> HIDE DEF f
  <2>1. QED BY <1>1, <1>2, <1>3 DEF Bijection, Injection, Surjection, IsInjective
<1>5. ExistsBijection(1..n, Ids(c))
  BY <1>4 DEF ExistsBijection
<1>6. Cardinality(Ids(c)) = n
  BY <1>5, FS_CountingElements DEF IsSubmission
<1>7. Ids(c) # {} /\ Ids(c) \subseteq Rounds
  BY DEF Ids, IsSubmission
<1>8. QED BY <1>6, <1>7

RoundSets == UNION {[D -> StoredRounds] : D \in SUBSET Rounds}

(* The positions are the numbers from 1 on, each once.                     *)
Numbered(rounds) ==
  /\ DOMAIN rounds # {}
  /\ \A a, b \in DOMAIN rounds : rounds[a].position = rounds[b].position => a = b
  /\ {rounds[id].position : id \in DOMAIN rounds} = 1..Cardinality(DOMAIN rounds)

LEMMA ReconciledIsNumbered ==
  ASSUME NEW c, NEW n, IsSubmission(c, n), NEW stored \in RoundSets
  PROVE  Reconciled(stored, c) \in RoundSets /\ Numbered(Reconciled(stored, c))
<1> DEFINE rounds == Reconciled(stored, c)
<1>1. DOMAIN rounds = Ids(c)
  BY DEF Reconciled
<1>2. \A id \in Ids(c) : rounds[id].position = PositionIn(c, id)
  BY DEF Reconciled
<1>3. \A id \in Ids(c) : rounds[id] \in StoredRounds
  <2> SUFFICES ASSUME NEW id \in Ids(c) PROVE rounds[id] \in StoredRounds
    OBVIOUS
  <2> DEFINE i == PositionIn(c, id)
             old == id \in DOMAIN stored
  <2>1. i \in Nat \ {0} /\ c[i].content \in RoundContents
    <3>1. i \in 1..n /\ n \in Nat
      BY PositionsAreIndices DEF IsSubmission
    <3> HIDE DEF i
    <3>2. QED BY <3>1 DEF IsSubmission
  <2>2. old => stored[id] \in StoredRounds
    BY DEF RoundSets
  <2>3. (old /\ stored[id].reviewed) \in BOOLEAN
    OBVIOUS
  <2>4. (IF old THEN stored[id].comment ELSE NoText) \in Texts
    BY <2>2, MockTextsAssumption DEF StoredRounds
  <2>5. rounds[id] = [position |-> i, content |-> c[i].content,
                      reviewed |-> old /\ stored[id].reviewed,
                      comment |-> IF old THEN stored[id].comment ELSE NoText]
    BY DEF Reconciled
  <2> HIDE DEF rounds, i, old
  <2>6. QED BY <2>1, <2>3, <2>4, <2>5 DEF StoredRounds
<1>4. rounds \in [Ids(c) -> StoredRounds]
  <2>1. rounds = [id \in Ids(c) |-> rounds[id]]
    BY DEF Reconciled
  <2> HIDE DEF rounds
  <2>2. QED BY <2>1, <1>3
<1> HIDE DEF rounds
<1>5. rounds \in RoundSets
  BY <1>4, SubmissionsAreCounted DEF RoundSets
<1>6. \A a, b \in Ids(c) : rounds[a].position = rounds[b].position => a = b
  BY <1>2, PositionsAreIndices
<1>7. {rounds[id].position : id \in Ids(c)} = 1..n
  BY <1>2, PositionsAreIndices
<1>8. Numbered(rounds)
  BY <1>1, <1>6, <1>7, SubmissionsAreCounted DEF Numbered
<1>9. QED BY <1>5, <1>8 DEF rounds

(* The rounds that move away move beyond the submission's positions and    *)
(* beyond their own.                                                       *)
LEMMA ShiftIsBeyond ==
  ASSUME NEW c, NEW n, IsSubmission(c, n), NEW stored \in RoundSets, Numbered(stored)
  PROVE  /\ Shift(stored, c) \in Nat /\ Shift(stored, c) >= n
         /\ \A id \in DOMAIN stored : Shift(stored, c) >= stored[id].position
<1> DEFINE m == Cardinality(DOMAIN stored)
           S == {n} \cup {stored[id].position : id \in DOMAIN stored}
<1>1. m \in Nat
  <2>1. DOMAIN stored \subseteq Rounds
    BY DEF RoundSets
  <2>2. QED BY <2>1, MockRoundsAssumption, FS_Subset, FS_CardinalityType
<1>2. S = {n} \cup 1..m
  BY DEF Numbered
<1>3. \E x \in {n} \cup 1..m : \A y \in {n} \cup 1..m : x >= y
  <2> HIDE DEF m
  <2>1. n \in Nat \ {0}
    BY DEF IsSubmission
  <2>2. CASE n >= m
    BY <2>1, <2>2, <1>1
  <2>3. CASE ~(n >= m)
    <3>1. m \in {n} \cup 1..m /\ \A y \in {n} \cup 1..m : m >= y
      BY <2>1, <2>3, <1>1
    <3>2. QED BY <3>1
  <2>4. QED BY <2>2, <2>3
<1>4. Shift(stored, c) = Max(S)
  BY DEF Shift, IsSubmission
<1>5. Max(S) \in S /\ \A y \in S : Max(S) >= y
  <2> HIDE DEF S
  <2>1. \E x \in S : \A y \in S : x >= y
    BY <1>2, <1>3
  <2>2. QED BY <2>1 DEF Max
<1>6. S \subseteq Nat
  <2>1. n \in Nat
    BY DEF IsSubmission
  <2> HIDE DEF m, S
  <2>2. QED BY <2>1, <1>1, <1>2
<1>7. QED BY <1>4, <1>5, <1>6

LEMMA NoClashes ==
  ASSUME NEW c, NEW n, IsSubmission(c, n), NEW stored \in RoundSets, Numbered(stored)
  PROVE  ~Clash(stored, c)
<1> DEFINE moved == Displacement(stored, c)
<1>1. \A id \in DOMAIN stored : stored[id].position \in Nat \ {0}
  BY DEF RoundSets, StoredRounds
<1>2. n \in Nat \ {0} /\ Len(c) = n
  BY DEF IsSubmission
<1>3. \/ /\ moved \in Nat /\ moved >= n
         /\ \A id \in DOMAIN stored : moved >= stored[id].position
      \/ /\ moved = 0
         /\ \A i \in 1..n : c[i].id \in DOMAIN stored => stored[c[i].id].position = i
  BY ShiftIsBeyond DEF Displacement, Reordered, IsSubmission
<1> HIDE DEF moved
<1>4. ASSUME moved > 0, NEW a \in DOMAIN stored, NEW b \in DOMAIN stored
      PROVE  stored[a].position + moved # stored[b].position
  BY <1>1, <1>3, <1>4
<1>5. ASSUME NEW k \in 0..n
      PROVE  IsInjective(PositionsAfter(stored, c, moved, k))
  <2> DEFINE written == {c[i].id : i \in 1..k}
             kept == (DOMAIN stored \cap Ids(c)) \ written
             f == PositionsAfter(stored, c, moved, k)
  <2>1. written \subseteq Ids(c)
    BY <1>2, PositionsAreIndices
  <2>2. \A x \in written : f[x] \in 1..n /\ f[x] = PositionIn(c, x)
    BY <2>1, PositionsAreIndices DEF PositionsAfter
  <2>3. \A x \in kept : f[x] = stored[x].position + moved
    BY DEF PositionsAfter
  <2>4. DOMAIN f = kept \cup written
    BY DEF PositionsAfter
  <2>5. \A x, y \in written : f[x] = f[y] => x = y
    BY <2>1, <2>2, PositionsAreIndices
  <2> HIDE DEF f
  <2>6. ASSUME NEW x \in kept, NEW y \in kept, f[x] = f[y] PROVE x = y
    <3>1. stored[x].position + moved = stored[y].position + moved
      BY <2>3, <2>6
    <3>2. stored[x].position = stored[y].position
      BY <3>1, <1>1, <1>3
    <3>3. QED BY <3>2 DEF Numbered
  <2>7. ASSUME NEW x \in kept, NEW y \in written, f[x] = f[y] PROVE x = y
    <3>1. stored[x].position \in Nat \ {0} /\ f[x] = stored[x].position + moved /\ f[y] \in 1..n
      BY <1>1, <2>2, <2>3
    <3>2. ~(moved >= n)
      BY <3>1, <2>7, <1>2, <1>3
    <3>3. moved = 0 /\ \A i \in 1..n : c[i].id \in DOMAIN stored => stored[c[i].id].position = i
      BY <3>2, <1>3
    <3>4. PositionIn(c, x) \in 1..n /\ c[PositionIn(c, x)].id = x
      BY PositionsAreIndices
    <3>5. f[x] = PositionIn(c, x)
      BY <3>1, <3>3, <3>4
    <3>6. PositionIn(c, x) = PositionIn(c, y) /\ y \in Ids(c)
      BY <3>5, <2>1, <2>2, <2>7
    <3>7. QED BY <3>6, PositionsAreIndices
  <2> HIDE DEF kept, written
  <2>8. QED BY <2>4, <2>5, <2>6, <2>7 DEF IsInjective, f
<1>6. QED BY <1>2, <1>4, <1>5 DEF Clash, moved

MockRecords ==
  [state : {"none", "live", "deleted"}, interviewer : Persons \cup {NoPerson},
   interviewee : Persons \cup {NoPerson}, notes : Texts, theirs : Texts, rounds : RoundSets]

MockInv ==
  /\ mock \in MockRecords
  /\ IF mock.state = "none" THEN reqs = {} ELSE Numbered(mock.rounds)
  /\ \A r \in reqs :
       /\ r.op = "update" => r.wanted \in Submissions /\ r.notes \in Texts
       /\ r.op = "review" => r.reviewed \in BOOLEAN /\ r.comment \in Texts
       /\ r.op = "notes" => r.notes \in Texts
       /\ r.op = "correct" => r.interviewer \in Persons /\ r.interviewee \in Persons

LEMMA MockInitHasInv == MockInit => MockInv
<1> SUFFICES ASSUME MockInit PROVE MockInv
  OBVIOUS
<1>1. <<>> \in RoundSets
  <2>1. <<>> \in [{} -> StoredRounds]
    OBVIOUS
  <2>2. QED BY <2>1 DEF RoundSets
<1>2. QED BY <1>1, MockTextsAssumption DEF MockInit, MockInv, NoMock, MockRecords

LEMMA SubmittedIsNumbered ==
  ASSUME NEW wanted \in Submissions, NEW seen, NEW stored \in RoundSets
  PROVE  /\ Reconciled(stored, Candidate(seen, wanted)) \in RoundSets
         /\ Numbered(Reconciled(stored, Candidate(seen, wanted)))
BY CandidatesAreSubmissions, ReconciledIsNumbered

WithReview(rounds, id, b, t) == [rounds EXCEPT ![id].reviewed = b, ![id].comment = t]

(* A review leaves the rounds and their positions.                         *)
LEMMA ReviewedIsNumbered ==
  ASSUME NEW rounds \in RoundSets, NEW id \in DOMAIN rounds, NEW b \in BOOLEAN, NEW t \in Texts
  PROVE  LET new == WithReview(rounds, id, b, t) IN
         /\ new \in RoundSets /\ DOMAIN new = DOMAIN rounds
         /\ \A x \in DOMAIN rounds : /\ new[x].position = rounds[x].position
                                     /\ new[x].content = rounds[x].content
         /\ Numbered(rounds) => Numbered(new)
<1> DEFINE new == [rounds EXCEPT ![id].reviewed = b, ![id].comment = t]
<1>1. PICK D \in SUBSET Rounds : rounds \in [D -> StoredRounds]
  BY DEF RoundSets
<1>2. DOMAIN new = D
  BY <1>1
<1>3. ASSUME NEW x \in D
      PROVE  /\ new[x] \in StoredRounds /\ new[x].position = rounds[x].position
             /\ new[x].content = rounds[x].content
  <2>1. CASE x = id
    <3>1. new[x] = [rounds[id] EXCEPT !.reviewed = b, !.comment = t]
      BY <1>1, <2>1
    <3>2. rounds[id] \in StoredRounds
      BY <1>1
    <3> HIDE DEF new
    <3>3. QED BY <3>1, <3>2, <2>1 DEF StoredRounds
  <2>2. CASE x # id
    BY <1>1, <2>2
  <2>3. QED BY <2>1, <2>2
<1>4. new \in [D -> StoredRounds]
  <2>1. new = [x \in D |-> new[x]]
    BY <1>1
  <2> HIDE DEF new
  <2>2. QED BY <2>1, <1>3
<1> HIDE DEF new
<1>5. new \in RoundSets
  BY <1>4 DEF RoundSets
<1>6. {new[x].position : x \in D} = {rounds[x].position : x \in D}
  BY <1>3
<1>7. Numbered(rounds) => Numbered(new)
  BY <1>1, <1>2, <1>3, <1>6 DEF Numbered
<1>8. QED BY <1>1, <1>2, <1>3, <1>5, <1>7 DEF new, WithReview

LEMMA MockStepKeepsInv ==
  ASSUME MockInv, [MockNext]_mockVars
  PROVE  MockInv'
<1> USE DEF MockInv
<1>1. CASE UNCHANGED mockVars
  BY <1>1 DEF mockVars, MockRecords, Numbered, RoundSets, StoredRounds, Submissions
<1>2. ASSUME NEW m \in MockRecords, NEW r \in reqs, Write(r, m), m.state # "none", Numbered(m.rounds)
      PROVE  MockInv'
  <2>1. mock' = m /\ reqs' \subseteq reqs
    BY <1>2 DEF Write
  <2>2. QED BY <1>2, <2>1
<1>3. ASSUME NEW u \in Persons, NEW v \in Persons, NEW w \in Submissions, NEW t \in Texts,
             Create(u, v, w, t)
      PROVE  MockInv'
  <2>1. <<>> \in RoundSets
    <3>1. <<>> \in [{} -> StoredRounds]
      OBVIOUS
    <3>2. QED BY <3>1 DEF RoundSets
  <2> DEFINE rounds == Reconciled(<<>>, Candidate(last, w))
  <2>2. rounds \in RoundSets /\ Numbered(rounds)
    BY <2>1, SubmittedIsNumbered
  <2>3. mock' = [state |-> "live", interviewer |-> u, interviewee |-> v,
                 notes |-> t, theirs |-> NoText, rounds |-> rounds]
    BY <1>3 DEF Create
  <2>4. reqs' = {}
    BY <1>3 DEF Create
  <2> HIDE DEF rounds
  <2>5. QED BY <2>2, <2>3, <2>4, MockTextsAssumption DEF MockRecords
<1>4. ASSUME NEW u \in Persons,
             \/ BeginDeleteInterview(u)
             \/ \E t \in Texts : BeginNotes(u, t)
             \/ \E i, e \in Persons : BeginCorrection(u, i, e)
             \/ \E w \in Submissions, t \in Texts : BeginUpdate(u, w, t)
             \/ \E id \in Rounds, b \in BOOLEAN, t \in Texts : BeginReview(u, id, b, t)
      PROVE  MockInv'
  <2>1. PICK r : /\ Begin(r)
                 /\ r.op = "update" => r.wanted \in Submissions /\ r.notes \in Texts
                 /\ r.op = "review" => r.reviewed \in BOOLEAN /\ r.comment \in Texts
                 /\ r.op = "notes" => r.notes \in Texts
                 /\ r.op = "correct" => r.interviewer \in Persons /\ r.interviewee \in Persons
    <3>1. CASE BeginDeleteInterview(u)
      BY <3>1 DEF BeginDeleteInterview
    <3>2. CASE \E t \in Texts : BeginNotes(u, t)
      BY <3>2 DEF BeginNotes
    <3>3. CASE \E i, e \in Persons : BeginCorrection(u, i, e)
      BY <3>3 DEF BeginCorrection
    <3>4. CASE \E w \in Submissions, t \in Texts : BeginUpdate(u, w, t)
      BY <3>4 DEF BeginUpdate
    <3>5. CASE \E id \in Rounds, b \in BOOLEAN, t \in Texts : BeginReview(u, id, b, t)
      BY <3>5 DEF BeginReview
    <3>6. QED BY <1>4, <3>1, <3>2, <3>3, <3>4, <3>5
  <2>2. reqs' = reqs \cup {r} /\ mock' = mock /\ mock.state = "live"
    BY <2>1 DEF Begin, MayBegin
  <2>3. QED BY <2>1, <2>2 DEF MockRecords, Numbered, RoundSets, StoredRounds, Submissions
<1>5. ASSUME NEW r \in reqs, Update(r) PROVE MockInv'
  <2> DEFINE rounds == Reconciled(mock.rounds, Candidate(r.seen, r.wanted))
  <2>1. r.wanted \in Submissions /\ r.notes \in Texts /\ mock.rounds \in RoundSets
    BY <1>5 DEF Update, MockRecords
  <2>2. rounds \in RoundSets /\ Numbered(rounds)
    BY <2>1, SubmittedIsNumbered
  <2> DEFINE m == [mock EXCEPT !.notes = r.notes, !.rounds = rounds]
  <2>3. Write(r, m) /\ mock.state = "live"
    BY <1>5 DEF Update, Found
  <2> HIDE DEF rounds
  <2>4. m \in MockRecords /\ m.state = "live" /\ m.rounds = rounds
    BY <2>1, <2>2, <2>3 DEF MockRecords
  <2> HIDE DEF m
  <2>5. QED BY <1>2, <2>2, <2>3, <2>4
<1>6. ASSUME NEW r \in reqs, Delete(r) PROVE MockInv'
  <2> DEFINE m == [mock EXCEPT !.state = "deleted"]
  <2>1. Write(r, m) /\ mock.state = "live"
    BY <1>6 DEF Delete, Found
  <2>2. m \in MockRecords /\ m.state = "deleted" /\ m.rounds = mock.rounds
    BY DEF MockRecords
  <2> HIDE DEF m
  <2>3. QED BY <1>2, <2>1, <2>2
<1>7. ASSUME NEW r \in reqs, Review(r) PROVE MockInv'
  <2> DEFINE rounds == WithReview(mock.rounds, r.id, r.reviewed, r.comment)
             m == [mock EXCEPT !.rounds = rounds]
  <2>1. /\ r.reviewed \in BOOLEAN /\ r.comment \in Texts /\ mock.state = "live"
        /\ r.id \in DOMAIN mock.rounds /\ mock.rounds \in RoundSets
    BY <1>7 DEF Review, Found, MockRecords
  <2>2. rounds \in RoundSets /\ Numbered(rounds)
    BY <2>1, ReviewedIsNumbered
  <2>3. Write(r, [mock EXCEPT !.rounds[r.id].reviewed = r.reviewed, !.rounds[r.id].comment = r.comment])
    BY <1>7 DEF Review
  <2>4. [mock EXCEPT !.rounds[r.id].reviewed = r.reviewed, !.rounds[r.id].comment = r.comment] = m
    BY DEF MockRecords, WithReview
  <2> HIDE DEF rounds
  <2>5. m \in MockRecords /\ m.state = "live" /\ m.rounds = rounds
    BY <2>1, <2>2 DEF MockRecords
  <2> HIDE DEF m
  <2>6. QED BY <1>2, <2>2, <2>3, <2>4, <2>5
<1>8. ASSUME NEW r \in reqs, SetNotes(r) PROVE MockInv'
  <2> DEFINE m == [mock EXCEPT !.theirs = r.notes]
  <2>1. Write(r, m) /\ mock.state = "live" /\ r.notes \in Texts
    BY <1>8 DEF SetNotes, Found
  <2>2. m \in MockRecords /\ m.state = "live" /\ m.rounds = mock.rounds
    BY <2>1 DEF MockRecords
  <2> HIDE DEF m
  <2>3. QED BY <1>2, <2>1, <2>2
<1>9. ASSUME NEW r \in reqs, Correct(r) PROVE MockInv'
  <2> DEFINE m == [mock EXCEPT !.interviewer = r.interviewer, !.interviewee = r.interviewee]
  <2>1. Write(r, m) /\ mock.state = "live" /\ r.interviewer \in Persons /\ r.interviewee \in Persons
    BY <1>9 DEF Correct, Found
  <2>2. m \in MockRecords /\ m.state = "live" /\ m.rounds = mock.rounds
    BY <2>1 DEF MockRecords
  <2> HIDE DEF m
  <2>3. QED BY <1>2, <2>1, <2>2
<1>10. ASSUME NEW r \in reqs, Refused(r) PROVE MockInv'
  BY <1>10 DEF Refused, MockRecords, Numbered, RoundSets, StoredRounds, Submissions
<1>11. QED
  BY <1>1, <1>3, <1>4, <1>5, <1>6, <1>7, <1>8, <1>9, <1>10 DEF MockNext

LEMMA MockInvariant == MockSpec => []MockInv
<1>1. MockInv /\ [MockNext]_mockVars => MockInv'
  BY MockStepKeepsInv
<1>2. QED BY <1>1, MockInitHasInv, PTL DEF MockSpec

(* What MockInv leaves of the types: what a version and a request keep, and*)
(* how many there are of both.                                             *)
MockCounts ==
  /\ IsFiniteSet(reqs) /\ Cardinality(reqs) <= MaxWriters
  /\ versions \in Nat /\ versions + Cardinality(reqs) <= MaxVersions
MockKept ==
  /\ mock.state # "none" => mock.interviewer # mock.interviewee
  /\ IsSnapshot(last)
  /\ \A r \in reqs :
       /\ r.op \in {"update", "delete", "review", "notes", "correct"}
       /\ IsSnapshot(r.seen)
       /\ r.op = "review" => r.id \in Rounds
       /\ r.op = "correct" => r.interviewer # r.interviewee

LEMMA RecordsHaveSnapshots ==
  ASSUME NEW m \in MockRecords
  PROVE  IsSnapshot(Snapshot(m))
<1>1. /\ DOMAIN m.rounds \subseteq Rounds
      /\ \A id \in DOMAIN m.rounds : m.rounds[id] \in StoredRounds
  BY DEF MockRecords, RoundSets
<1>2. PICK s : s = Snapshot(m)
  OBVIOUS
<1>3. /\ DOMAIN s = {"interviewer", "interviewee", "notes", "theirs", "rounds"}
      /\ s.interviewer = m.interviewer /\ s.interviewee = m.interviewee
      /\ s.notes = m.notes /\ s.theirs = m.theirs /\ s.rounds = m.rounds
  BY <1>2 DEF Snapshot
<1>4. /\ {m.interviewer, m.interviewee} \subseteq Persons \cup {NoPerson}
      /\ {m.notes, m.theirs} \subseteq Texts
  BY DEF MockRecords
<1>5. IsSnapshot(s)
  BY <1>1, <1>3, <1>4 DEF IsSnapshot
<1>6. QED BY <1>2, <1>5

LEMMA NoMockIsRecord == NoMock \in MockRecords
<1>1. <<>> \in [{} -> StoredRounds]
  OBVIOUS
<1>2. <<>> \in RoundSets
  BY <1>1 DEF RoundSets
<1>3. QED BY <1>2, MockTextsAssumption DEF NoMock, MockRecords

(* What a write does to the counts, and to what is kept.                   *)
LEMMA WritesKeepTypes ==
  ASSUME MockCounts, MockKept, NEW m \in MockRecords, m.state # "none",
         m.interviewer # m.interviewee, NEW r \in reqs, Write(r, m)
  PROVE  MockCounts' /\ MockKept'
<1>1. /\ mock' = m /\ last' \in {r.seen, Snapshot(m)} /\ versions' = versions + 1
      /\ reqs' = reqs \ {r}
  BY DEF Write, KeptSnapshot
<1>2. /\ IsFiniteSet(reqs \ {r}) /\ Cardinality(reqs \ {r}) = Cardinality(reqs) - 1
      /\ Cardinality(reqs) \in Nat
  BY FS_RemoveElement, FS_CardinalityType DEF MockCounts
<1>3. MockCounts'
  BY <1>1, <1>2, MockBoundsAssumption DEF MockCounts
<1>4. IsSnapshot(last')
  BY <1>1, RecordsHaveSnapshots DEF MockKept
<1>5. MockKept'
  BY <1>1, <1>4 DEF MockKept, IsSnapshot
<1>6. QED BY <1>3, <1>5

LEMMA MockStepKeepsTypes ==
  ASSUME MockInv, MockInv', MockCounts, MockKept, [MockNext]_mockVars
  PROVE  MockCounts' /\ MockKept'
<1>1. CASE UNCHANGED mockVars
  BY <1>1 DEF mockVars, MockCounts, MockKept, IsSnapshot
<1>2. ASSUME NEW u \in Persons, NEW v \in Persons, NEW w, NEW t, Create(u, v, w, t), mock.state = "none"
      PROVE  MockCounts' /\ MockKept'
  <2>1. /\ mock' \in MockRecords /\ last' = Snapshot(mock') /\ reqs = {} /\ reqs' = {}
        /\ versions' = versions + 1 /\ versions < MaxVersions
        /\ mock'.interviewer # mock'.interviewee
    BY <1>2 DEF Create, MayRecord, MockInv
  <2>2. IsSnapshot(last')
    BY <2>1, RecordsHaveSnapshots
  <2>3. Cardinality({}) = 0 /\ IsFiniteSet({})
    BY FS_EmptySet
  <2>4. MockCounts'
    BY <2>1, <2>3, MockBoundsAssumption DEF MockCounts
  <2>5. QED BY <2>1, <2>2, <2>4 DEF MockKept, IsSnapshot
<1>3. ASSUME NEW r, Begin(r), r.seen = Snapshot(mock),
             r.op \in {"update", "delete", "review", "notes", "correct"},
             r.op = "review" => r.id \in Rounds,
             r.op = "correct" => r.interviewer # r.interviewee
      PROVE  MockCounts' /\ MockKept'
  <2>1. /\ r \notin reqs /\ reqs' = reqs \cup {r} /\ UNCHANGED <<mock, last, versions>>
        /\ Cardinality(reqs) < MaxWriters /\ versions + Cardinality(reqs) < MaxVersions
    BY <1>3 DEF Begin, MayBegin
  <2>2. /\ IsFiniteSet(reqs \cup {r}) /\ Cardinality(reqs \cup {r}) = Cardinality(reqs) + 1
        /\ Cardinality(reqs) \in Nat
    BY <2>1, FS_AddElement, FS_CardinalityType DEF MockCounts
  <2>3. MockCounts'
    BY <2>1, <2>2, MockBoundsAssumption DEF MockCounts
  <2>4. IsSnapshot(r.seen)
    BY <1>3, RecordsHaveSnapshots DEF MockInv
  <2>5. QED BY <1>3, <2>1, <2>3, <2>4 DEF MockKept, IsSnapshot
<1>4. ASSUME NEW u \in Persons,
             \/ BeginDeleteInterview(u)
             \/ \E t \in Texts : BeginNotes(u, t)
             \/ \E i, e \in Persons : BeginCorrection(u, i, e)
             \/ \E w \in Submissions, t \in Texts : BeginUpdate(u, w, t)
             \/ \E id \in Rounds, b \in BOOLEAN, t \in Texts : BeginReview(u, id, b, t)
      PROVE  MockCounts' /\ MockKept'
  <2>1. CASE BeginDeleteInterview(u)
    <3>1. PICK r : Begin(r) /\ r = [op |-> "delete", seen |-> Snapshot(mock)]
      BY <2>1 DEF BeginDeleteInterview
    <3>2. QED BY <1>3, <3>1
  <2>2. ASSUME NEW t \in Texts, BeginNotes(u, t) PROVE MockCounts' /\ MockKept'
    <3>1. PICK r : Begin(r) /\ r = [op |-> "notes", seen |-> Snapshot(mock), notes |-> t]
      BY <2>2 DEF BeginNotes
    <3>2. QED BY <1>3, <3>1
  <2>3. ASSUME NEW i \in Persons, NEW e \in Persons, BeginCorrection(u, i, e)
        PROVE  MockCounts' /\ MockKept'
    <3>1. PICK r : Begin(r) /\ r = [op |-> "correct", seen |-> Snapshot(mock),
                                   interviewer |-> i, interviewee |-> e]
      BY <2>3 DEF BeginCorrection
    <3>2. i # e
      BY <2>3 DEF BeginCorrection
    <3>3. QED BY <1>3, <3>1, <3>2
  <2>4. ASSUME NEW w \in Submissions, NEW t \in Texts, BeginUpdate(u, w, t)
        PROVE  MockCounts' /\ MockKept'
    <3>1. PICK r : Begin(r) /\ r = [op |-> "update", seen |-> Snapshot(mock),
                                   wanted |-> w, notes |-> t]
      BY <2>4 DEF BeginUpdate
    <3>2. QED BY <1>3, <3>1
  <2>5. ASSUME NEW id \in Rounds, NEW b \in BOOLEAN, NEW t \in Texts, BeginReview(u, id, b, t)
        PROVE  MockCounts' /\ MockKept'
    <3>1. PICK r : Begin(r) /\ r = [op |-> "review", seen |-> Snapshot(mock), id |-> id,
                                   reviewed |-> b, comment |-> t]
      BY <2>5 DEF BeginReview
    <3>2. QED BY <1>3, <3>1
  <2>6. QED BY <1>4, <2>1, <2>2, <2>3, <2>4, <2>5
<1>5. ASSUME NEW r \in reqs,
             Update(r) \/ Delete(r) \/ Review(r) \/ SetNotes(r) \/ Correct(r)
      PROVE  MockCounts' /\ MockKept'
  <2>1. Write(r, mock') /\ mock.state = "live"
    BY <1>5 DEF Update, Delete, Review, SetNotes, Correct, Found, Write
  <2>2. mock' \in MockRecords /\ mock \in MockRecords
    BY DEF MockInv
  <2>3. mock'.state \in {"live", "deleted"} /\ mock'.interviewer # mock'.interviewee
    <3>1. mock.interviewer # mock.interviewee /\ (r.op = "correct" => r.interviewer # r.interviewee)
      BY <2>1 DEF MockKept
    <3>2. CASE Correct(r)
      BY <2>1, <2>2, <3>1, <3>2 DEF Correct, Write, MockRecords
    <3>3. CASE Delete(r)
      BY <2>1, <2>2, <3>1, <3>3 DEF Delete, Write, MockRecords
    <3>4. CASE SetNotes(r)
      BY <2>1, <2>2, <3>1, <3>4 DEF SetNotes, Write, MockRecords
    <3>5. CASE Update(r)
      <4>1. PICK rounds : mock' = [mock EXCEPT !.notes = r.notes, !.rounds = rounds]
        BY <3>5 DEF Update, Write
      <4>2. QED BY <2>1, <2>2, <3>1, <4>1 DEF MockRecords
    <3>6. CASE Review(r)
      <4>1. mock' = [mock EXCEPT !.rounds = WithReview(mock.rounds, r.id, r.reviewed, r.comment)]
        BY <2>2, <3>6 DEF Review, Write, WithReview, MockRecords
      <4>2. QED BY <2>1, <2>2, <3>1, <4>1 DEF MockRecords
    <3>7. QED BY <1>5, <3>2, <3>3, <3>4, <3>5, <3>6
  <2>4. mock'.state # "none"
    BY <2>3
  <2>5. PICK m : m = mock'
    OBVIOUS
  <2>6. QED BY <2>1, <2>2, <2>3, <2>4, <2>5, WritesKeepTypes
<1>6. ASSUME NEW r \in reqs, Refused(r) PROVE MockCounts' /\ MockKept'
  <2>1. reqs' = reqs \ {r} /\ UNCHANGED <<mock, last, versions>>
    BY <1>6 DEF Refused
  <2>2. /\ IsFiniteSet(reqs \ {r}) /\ Cardinality(reqs \ {r}) = Cardinality(reqs) - 1
        /\ Cardinality(reqs) \in Nat
    BY FS_RemoveElement, FS_CardinalityType DEF MockCounts
  <2>3. MockCounts'
    BY <2>1, <2>2, MockBoundsAssumption DEF MockCounts
  <2>4. QED BY <2>1, <2>3 DEF MockKept, IsSnapshot
<1>7. QED BY <1>1, <1>2, <1>4, <1>5, <1>6 DEF MockNext

(* The interview, its newest version and the requests keep their types, and*)
(* there are no more versions than were asked for: also of what a request  *)
(* has read, however old it is by now (dal/mock_interviews.go).            *)
THEOREM MockTypeCorrect == MockSpec => []MockTypeOK
<1>1. MockInit => MockCounts /\ MockKept
  <2>1. IsSnapshot(Snapshot(NoMock))
    BY NoMockIsRecord, RecordsHaveSnapshots
  <2>2. Cardinality({}) = 0 /\ IsFiniteSet({}) /\ NoMock.state = "none"
    BY FS_EmptySet DEF NoMock
  <2>3. QED BY <2>1, <2>2, MockBoundsAssumption DEF MockInit, MockCounts, MockKept
<1>2. MockInv /\ MockInv' /\ MockCounts /\ MockKept /\ [MockNext]_mockVars => MockCounts' /\ MockKept'
  BY MockStepKeepsTypes
<1>3. MockInv /\ MockCounts /\ MockKept => MockTypeOK
  <2> SUFFICES ASSUME MockInv, MockCounts, MockKept PROVE MockTypeOK
    OBVIOUS
  <2>1. IsSnapshot(Snapshot(mock)) /\ mock.state \in {"none", "live", "deleted"}
    BY RecordsHaveSnapshots DEF MockInv, MockRecords
  <2>2. versions \in 0..MaxVersions
    BY FS_CardinalityType, MockBoundsAssumption DEF MockCounts
  <2>3. mock.state # "none" => DOMAIN mock.rounds # {}
    BY DEF MockInv, Numbered
  <2>4. QED BY <2>1, <2>2, <2>3 DEF MockTypeOK, MockInv, MockCounts, MockKept
<1>4. QED BY <1>1, <1>2, <1>3, MockInvariant, PTL DEF MockSpec

(* However many rounds an interview has and whatever each submission in    *)
(* flight had read, positions are numbered without a gap and no statement  *)
(* of the reconciliation meets one that is taken (dal/mock_interviews.go). *)
THEOREM PositionsFit == MockSpec => []RoundsFit
<1>1. ASSUME MockInv PROVE RoundsFit
  <2>1. mock.state # "none" =>
          {mock.rounds[id].position : id \in DOMAIN mock.rounds} = 1..Cardinality(DOMAIN mock.rounds)
    BY <1>1 DEF MockInv, Numbered
  <2>2. ASSUME NEW r \in reqs, r.op = "update"
        PROVE  ~Clash(mock.rounds, Candidate(r.seen, r.wanted))
    <3>1. mock.rounds \in RoundSets /\ Numbered(mock.rounds) /\ r.wanted \in Submissions
      BY <1>1, <2>2 DEF MockInv, MockRecords
    <3>2. QED BY <3>1, CandidatesAreSubmissions, NoClashes
  <2>3. QED BY <2>1, <2>2 DEF RoundsFit
<1>2. QED BY <1>1, MockInvariant, PTL
-----------------------------------------------------------------------------
(* MockInterviews: who changes what                                        *)

(* From m to n, only what q owns changes: the interviewer (1), the         *)
(* interviewee (2), an administrator (3), or the deletion (4).             *)
ChangesOnly(q, m, n) ==
  LET both == DOMAIN m.rounds \cap DOMAIN n.rounds IN
  /\ q # 1 => InterviewersPart(m) = InterviewersPart(n)
  /\ q # 2 => IntervieweesPart(m, both) = IntervieweesPart(n, both)
  /\ q # 3 => AdminsPart(m) = AdminsPart(n)
  /\ q # 4 => m.state = n.state

LEMMA SameRoundsSameParts ==
  ASSUME NEW m, NEW n, m.rounds = n.rounds
  PROVE  /\ m.notes = n.notes => InterviewersPart(m) = InterviewersPart(n)
         /\ m.theirs = n.theirs => \A ids : IntervieweesPart(m, ids) = IntervieweesPart(n, ids)
  BY DEF InterviewersPart, IntervieweesPart

(* An edit copies the reviews of the rounds that stay as they are stored.  *)
LEMMA EditsKeepReviews ==
  ASSUME NEW m \in MockRecords, NEW n \in MockRecords, NEW c,
         n.rounds = Reconciled(m.rounds, c), n.theirs = m.theirs
  PROVE  LET both == DOMAIN m.rounds \cap DOMAIN n.rounds IN
         IntervieweesPart(m, both) = IntervieweesPart(n, both)
<1> DEFINE both == DOMAIN m.rounds \cap DOMAIN n.rounds
<1>1. DOMAIN n.rounds = Ids(c)
  BY DEF Reconciled
<1>2. ASSUME NEW id \in both
      PROVE  n.rounds[id].reviewed = m.rounds[id].reviewed /\ n.rounds[id].comment = m.rounds[id].comment
  <2>1. m.rounds[id] \in StoredRounds
    BY DEF MockRecords, RoundSets
  <2>2. m.rounds[id].reviewed \in BOOLEAN
    BY <2>1 DEF StoredRounds
  <2>3. n.rounds[id] = [position |-> PositionIn(c, id), content |-> c[PositionIn(c, id)].content,
                        reviewed |-> m.rounds[id].reviewed, comment |-> m.rounds[id].comment]
    <3>1. n.rounds[id].reviewed = (id \in DOMAIN m.rounds /\ m.rounds[id].reviewed)
      BY <1>1 DEF Reconciled
    <3>2. (id \in DOMAIN m.rounds /\ m.rounds[id].reviewed) = m.rounds[id].reviewed
      BY <2>2
    <3>3. QED BY <1>1, <3>2 DEF Reconciled
  <2>4. QED BY <2>3
<1>3. QED BY <1>2 DEF IntervieweesPart

(* A review keeps the positions and the contents.                          *)
LEMMA ReviewsKeepRounds ==
  ASSUME NEW rounds \in RoundSets, NEW id \in DOMAIN rounds, NEW b \in BOOLEAN, NEW t \in Texts,
         NEW m, NEW n, m.rounds = rounds, n.notes = m.notes,
         n.rounds = WithReview(rounds, id, b, t)
  PROVE  InterviewersPart(m) = InterviewersPart(n)
<1>1. /\ DOMAIN n.rounds = DOMAIN rounds
      /\ \A x \in DOMAIN rounds : /\ n.rounds[x].position = rounds[x].position
                                  /\ n.rounds[x].content = rounds[x].content
  BY ReviewedIsNumbered
<1>2. QED BY <1>1 DEF InterviewersPart

LEMMA StepsChangeOnly ==
  ASSUME MockInv, [MockNext]_mockVars, mock.state = "live"
  PROVE  \E q \in 1..4 : ChangesOnly(q, mock, mock')
<1> USE DEF ChangesOnly
<1>1. mock \in MockRecords
  BY DEF MockInv
<1>2. CASE mock' = mock
  BY <1>2
<1>3. ASSUME NEW r \in reqs, Update(r) PROVE ChangesOnly(1, mock, mock')
  <2> DEFINE rounds == Reconciled(mock.rounds, Candidate(r.seen, r.wanted))
  <2>1. r.wanted \in Submissions /\ r.notes \in Texts /\ mock.rounds \in RoundSets
    BY <1>1, <1>3 DEF Update, MockInv, MockRecords
  <2>2. rounds \in RoundSets
    BY <2>1, SubmittedIsNumbered
  <2>3. mock' = [mock EXCEPT !.notes = r.notes, !.rounds = rounds]
    BY <1>3 DEF Update, Write
  <2>4. mock'.rounds = rounds /\ mock'.theirs = mock.theirs /\ mock' \in MockRecords
        /\ mock'.state = mock.state /\ mock'.interviewer = mock.interviewer /\ mock'.interviewee = mock.interviewee
    <3> HIDE DEF rounds
    <3>1. QED BY <1>1, <2>1, <2>2, <2>3 DEF MockRecords
  <2>5. QED BY <1>1, <2>4, EditsKeepReviews DEF AdminsPart
<1>4. ASSUME NEW r \in reqs, Delete(r) PROVE ChangesOnly(4, mock, mock')
  BY <1>1, <1>4, SameRoundsSameParts DEF Delete, Write, MockRecords, AdminsPart
<1>5. ASSUME NEW r \in reqs, Review(r) PROVE ChangesOnly(2, mock, mock')
  <2> DEFINE rounds == WithReview(mock.rounds, r.id, r.reviewed, r.comment)
  <2>1. /\ r.id \in DOMAIN mock.rounds /\ r.reviewed \in BOOLEAN /\ r.comment \in Texts
        /\ mock.rounds \in RoundSets
    BY <1>1, <1>5 DEF Review, MockInv, MockRecords
  <2>2. mock' = [mock EXCEPT !.rounds[r.id].reviewed = r.reviewed, !.rounds[r.id].comment = r.comment]
    BY <1>5 DEF Review, Write
  <2>3. mock' = [mock EXCEPT !.rounds = rounds]
    BY <1>1, <2>2 DEF MockRecords, WithReview
  <2>4. /\ mock'.rounds = rounds /\ mock'.notes = mock.notes /\ mock'.state = mock.state
        /\ mock'.interviewer = mock.interviewer /\ mock'.interviewee = mock.interviewee
    <3> HIDE DEF rounds
    <3>1. QED BY <1>1, <2>3 DEF MockRecords
  <2>5. InterviewersPart(mock) = InterviewersPart(mock')
    BY <2>1, <2>4, ReviewsKeepRounds
  <2>6. QED BY <2>4, <2>5 DEF AdminsPart
<1>6. ASSUME NEW r \in reqs, SetNotes(r) PROVE ChangesOnly(2, mock, mock')
  BY <1>1, <1>6, SameRoundsSameParts DEF SetNotes, Write, MockRecords, AdminsPart
<1>7. ASSUME NEW r \in reqs, Correct(r) PROVE ChangesOnly(3, mock, mock')
  <2>1. /\ mock'.rounds = mock.rounds /\ mock'.notes = mock.notes /\ mock'.theirs = mock.theirs
        /\ mock'.state = mock.state
    BY <1>1, <1>7 DEF Correct, Write, MockRecords
  <2>2. QED BY <2>1, SameRoundsSameParts
<1>8. ASSUME NEW r \in reqs, Refused(r) PROVE mock' = mock
  BY <1>8 DEF Refused
<1>9. ASSUME NEW u \in Persons,
             \/ BeginDeleteInterview(u)
             \/ \E t \in Texts : BeginNotes(u, t)
             \/ \E i, e \in Persons : BeginCorrection(u, i, e)
             \/ \E w \in Submissions, t \in Texts : BeginUpdate(u, w, t)
             \/ \E id \in Rounds, b \in BOOLEAN, t \in Texts : BeginReview(u, id, b, t)
      PROVE  mock' = mock
  BY <1>9 DEF BeginDeleteInterview, BeginNotes, BeginCorrection, BeginUpdate, BeginReview, Begin
<1> HIDE DEF ChangesOnly
<1>10. CASE UNCHANGED mockVars
  BY <1>2, <1>10 DEF mockVars
<1>11. QED
  BY <1>2, <1>3, <1>4, <1>5, <1>6, <1>7, <1>8, <1>9, <1>10 DEF MockNext

(* However many requests are between their read and their write, each step *)
(* of a live interview changes what one of the interviewer, the interviewee*)
(* and an administrator owns, or deletes it (dal/mock_interviews.go).      *)
THEOREM PartsAreOwned == MockSpec => PartsChangeAlone
<1> DEFINE Parts ==
             LET both == DOMAIN mock.rounds \cap DOMAIN mock'.rounds IN
             {p \in 1..4 :
               \/ p = 1 /\ InterviewersPart(mock) # InterviewersPart(mock')
               \/ p = 2 /\ IntervieweesPart(mock, both) # IntervieweesPart(mock', both)
               \/ p = 3 /\ AdminsPart(mock) # AdminsPart(mock')
               \/ p = 4 /\ mock.state # mock'.state}
<1>1. ASSUME MockInv, [MockNext]_mockVars, mock.state = "live"
      PROVE  Cardinality(Parts) <= 1
  <2>1. PICK q \in 1..4 : ChangesOnly(q, mock, mock')
    BY <1>1, StepsChangeOnly
  <2>2. Parts \subseteq {q}
    BY <2>1 DEF ChangesOnly
  <2> HIDE DEF Parts
  <2>3. Parts = {} \/ Parts = {q}
    BY <2>2
  <2>4. CASE Parts = {}
    <3>1. Cardinality(Parts) = 0
      BY <2>4, FS_EmptySet
    <3>2. QED BY <3>1
  <2>5. CASE Parts = {q}
    <3>1. Cardinality(Parts) = 1
      BY <2>5, FS_Singleton
    <3>2. QED BY <3>1
  <2>6. QED BY <2>3, <2>4, <2>5
<1>2. MockInv /\ [MockNext]_mockVars =>
        [mock.state = "live" => Cardinality(Parts) <= 1]_mockVars
  BY <1>1
<1>3. QED BY <1>2, MockInvariant, PTL DEF MockSpec, PartsChangeAlone

-----------------------------------------------------------------------------
(* MockPage: what was confirmed is shown                                   *)

LEMMA MinIsMember ==
  ASSUME NEW S \in SUBSET PageRounds, S # {}
  PROVE  Min(S) \in S
<1>1. S \in SUBSET Nat
  BY PageBoundsAssumption DEF PageRounds
<1>2. QED BY <1>1, LeastExists DEF Min

Drafts == [PageRounds -> PageReview]
ReviewSets == UNION {[D -> PageReview] : D \in SUBSET PageRounds}
ReviewSaves == [n : Nat, at : Places \cup {"dialog"}, base : PageMock, next : PageMock,
                reviews : ReviewSets, todo : SUBSET PageRounds, orphan : BOOLEAN]

PageShapes ==
  /\ started \in Nat
  /\ server \in PageMock /\ listed \in PageMock /\ overlay \in PageMock \cup {Nothing}
  /\ dialog = Nothing \/ dialog \in [draft : Drafts, saving : BOOLEAN]
  /\ saves \subseteq ReviewSaves
  /\ \A s \in saves : s.todo \subseteq DOMAIN s.reviews

(* What has been confirmed is in the version the save under way has made,  *)
(* or in the page's own.                                                   *)
ConfirmedIsKept ==
  /\ \A s, t \in saves : s = t
  /\ \A s \in saves : \A r \in s.todo : s.reviews[r] # s.base.review[r]
  /\ \A r \in PageRounds : acked[r] # Nothing =>
       /\ \A s \in saves : s.next.review[r] = acked[r]
       /\ (\A s \in saves : s.next = s.base) => overlay # Nothing /\ overlay.review[r] = acked[r]

PageInv ==
  /\ viewer \in {"interviewee", "interviewer"} /\ overlapped \in BOOLEAN
  /\ DOMAIN acked = PageRounds
  /\ viewer = "interviewer" => /\ \A r \in PageRounds : acked[r] = Nothing
                               /\ \A s \in saves : "at" \in DOMAIN s /\ s.at = "edit"
  /\ viewer = "interviewee" => PageShapes
  /\ viewer = "interviewee" /\ ~overlapped => ConfirmedIsKept

LEMMA PageInitHasInv == PageInit => PageInv
<1> SUFFICES ASSUME PageInit PROVE PageInv
  OBVIOUS
<1>1. server \in PageMock
  BY PageTextsAssumption DEF PageInit, PageMock, PageReview
<1>2. QED BY <1>1 DEF PageInit, PageInv, PageShapes, ConfirmedIsKept

(* The saves that a render orphans are otherwise what they were.           *)
Alike(s, t) == s.at = t.at /\ s.base = t.base /\ s.next = t.next /\ s.reviews = t.reviews /\ s.todo = t.todo

LEMMA RenderedSaves ==
  ASSUME NEW p, NEW d, NEW rest \in SUBSET ReviewSaves,
         Rendered(p, d, rest) \/ Kept(p, d, rest) \/ Unmounted(rest)
  PROVE  /\ saves' \subseteq ReviewSaves
         /\ \A s \in saves' : \E t \in rest : Alike(s, t)
         /\ (\A s, t \in rest : s = t) => \A s, t \in saves' : s = t
         /\ \A t \in rest : \E s \in saves' : Alike(s, t)
         /\ dialog' \in {Nothing, d}
<1>1. CASE saves' = rest /\ dialog' = d
  BY <1>1 DEF Alike
<1>2. CASE /\ dialog' = Nothing
           /\ saves' = {[s EXCEPT !.orphan = s.orphan \/ s.at \in {"row", "dialog", "edit"}] : s \in rest}
  <2> DEFINE O(s) == [s EXCEPT !.orphan = s.orphan \/ s.at \in {"row", "dialog", "edit"}]
  <2>1. ASSUME NEW s \in rest PROVE O(s) \in ReviewSaves /\ Alike(O(s), s)
    BY DEF ReviewSaves, Alike
  <2>2. saves' = {O(s) : s \in rest}
    BY <1>2
  <2> HIDE DEF O
  <2>3. QED BY <1>2, <2>1, <2>2
<1>3. CASE dialog' = Nothing /\ saves' = {[s EXCEPT !.orphan = TRUE] : s \in rest}
  <2> DEFINE O(s) == [s EXCEPT !.orphan = TRUE]
  <2>1. ASSUME NEW s \in rest PROVE O(s) \in ReviewSaves /\ Alike(O(s), s)
    BY DEF ReviewSaves, Alike
  <2>2. saves' = {O(s) : s \in rest}
    BY <1>3
  <2> HIDE DEF O
  <2>3. QED BY <1>3, <2>1, <2>2
<1>4. QED BY <1>1, <1>2, <1>3 DEF Rendered, Kept, Unmounted

(* A save that starts is made from what the page shows.                    *)
LEMMA StartKeepsInv ==
  ASSUME PageInv, viewer = "interviewee", NEW at \in Places \cup {"dialog"},
         NEW reviews \in ReviewSets,
         \A r \in DOMAIN reviews : reviews[r] # ShownInterview.review[r],
         Start(NewSave(at, reviews)),
         dialog' = Nothing \/ dialog' \in [draft : Drafts, saving : BOOLEAN]
  PROVE  PageInv'
<1> DEFINE s == NewSave(at, reviews)
<1>1. PageShapes
  BY DEF PageInv
<1>2. ShownInterview \in PageMock
  BY <1>1 DEF ShownInterview, PageShapes
<1>3. DOMAIN reviews \subseteq PageRounds
  BY DEF ReviewSets
<1>4. /\ s \in ReviewSaves /\ s.base = ShownInterview /\ s.next = ShownInterview
      /\ s.reviews = reviews /\ s.todo = DOMAIN reviews
  BY <1>1, <1>2, <1>3 DEF NewSave, ReviewSaves, PageShapes
<1> HIDE DEF s
<1>5. /\ saves' = saves \cup {s} /\ started' = started + 1
      /\ overlapped' = (overlapped \/ saves # {})
      /\ UNCHANGED <<viewer, server, listed, overlay, acked>>
  BY DEF Start, s
<1>6. PageShapes'
  BY <1>1, <1>4, <1>5 DEF PageShapes, PageMock, PageReview, PageRounds, Drafts, ReviewSaves, ReviewSets
<1>7. ASSUME ~overlapped' PROVE ConfirmedIsKept'
  <2>1. ~overlapped /\ saves = {}
    BY <1>5, <1>7 DEF PageInv
  <2>2. ConfirmedIsKept
    BY <2>1 DEF PageInv
  <2>3. saves' = {s}
    BY <2>1, <1>5
  <2>4. \A r \in PageRounds : acked[r] # Nothing =>
          overlay # Nothing /\ overlay.review[r] = acked[r] /\ ShownInterview.review[r] = acked[r]
    BY <2>1, <2>2 DEF ConfirmedIsKept, ShownInterview
  <2>5. QED BY <2>3, <2>4, <1>4, <1>5 DEF ConfirmedIsKept
<1>8. overlapped' \in BOOLEAN
  BY <1>5 DEF PageInv
<1>9. QED BY <1>5, <1>6, <1>7, <1>8 DEF PageInv, PageRounds

(* A save ends: the page shows the version it made, if it made one.        *)
LEMMA EndedKeepsInv ==
  ASSUME PageInv, viewer = "interviewee", NEW s \in saves, Ended(s), server' \in PageMock,
         UNCHANGED <<viewer, listed, started, acked, overlapped>>
  PROVE  PageInv'
<1>1. PageShapes
  BY DEF PageInv
<1> DEFINE p == IF s.at \in Places /\ ~s.orphan THEN [pending EXCEPT ![s.at] = FALSE] ELSE pending
           d == IF s.at = "dialog" /\ ~s.orphan /\ dialog # Nothing
                THEN IF s.todo = {} THEN Nothing ELSE [dialog EXCEPT !.saving = FALSE]
                ELSE dialog
<1>2. /\ d = dialog \/ d = Nothing \/ (d = [dialog EXCEPT !.saving = FALSE] /\ dialog # Nothing)
      /\ Rendered(p, d, saves \ {s}) \/ Kept(p, d, saves \ {s})
  BY DEF Ended
<1> HIDE DEF p, d
<1>3. overlay' = IF Reported(s) THEN s.next ELSE overlay
  BY DEF Ended
<1>4. saves \ {s} \in SUBSET ReviewSaves
  BY <1>1 DEF PageShapes
<1>5. /\ saves' \subseteq ReviewSaves
      /\ \A x \in saves' : \E t \in saves \ {s} : Alike(x, t)
      /\ dialog' \in {Nothing, d}
  BY <1>2, <1>4, RenderedSaves
<1>6. PageShapes'
  <2>1. dialog' = Nothing \/ dialog' \in [draft : Drafts, saving : BOOLEAN]
    BY <1>1, <1>2, <1>5 DEF PageShapes
  <2>2. overlay' \in PageMock \cup {Nothing}
    BY <1>1, <1>3 DEF PageShapes, ReviewSaves
  <2>3. \A x \in saves' : x.todo \subseteq DOMAIN x.reviews
    BY <1>1, <1>5 DEF PageShapes, Alike
  <2>4. QED BY <1>1, <1>5, <2>1, <2>2, <2>3 DEF PageShapes, PageMock, PageReview, PageRounds, Drafts, ReviewSaves, ReviewSets
<1>7. ASSUME ~overlapped' PROVE ConfirmedIsKept'
  <2>1. ConfirmedIsKept
    BY <1>7 DEF PageInv
  <2>2. saves' = {}
    BY <2>1, <1>5 DEF ConfirmedIsKept
  <2>3. s.next \in PageMock
    BY <1>1 DEF PageShapes, ReviewSaves
  <2>4. s.next # Nothing
    BY <2>3, NothingAssumption
  <2>5. \A r \in PageRounds : acked[r] # Nothing => overlay' # Nothing /\ overlay'.review[r] = acked[r]
    <3>1. CASE Reported(s)
      BY <3>1, <1>3, <2>1, <2>4 DEF ConfirmedIsKept
    <3>2. CASE ~Reported(s)
      BY <3>2, <1>3, <2>1 DEF ConfirmedIsKept, Reported
    <3>3. QED BY <3>1, <3>2
  <2>6. QED BY <2>2, <2>5 DEF ConfirmedIsKept, PageRounds
<1>8. QED BY <1>6, <1>7 DEF PageInv, PageRounds

LEMMA RoundSavedKeepsInv ==
  ASSUME PageInv, viewer = "interviewee", NEW s \in saves, RoundSaved(s)
  PROVE  PageInv'
<1> DEFINE r == Min(s.todo)
           t == [s EXCEPT !.next = WithRoundReview(s, r), !.todo = @ \ {r}]
<1>1. PageShapes
  BY DEF PageInv
<1>2. s \in ReviewSaves /\ s.todo \subseteq DOMAIN s.reviews /\ s.todo # {}
  BY <1>1 DEF PageShapes, RoundSaved
<1>3. r \in s.todo /\ r \in PageRounds /\ r \in DOMAIN s.reviews
  <2>1. s.todo \in SUBSET PageRounds
    BY <1>2 DEF ReviewSaves
  <2>2. QED BY <2>1, <1>2, MinIsMember
<1>4. /\ server' = [server EXCEPT !.review[r] = s.reviews[r]]
      /\ acked' = [acked EXCEPT ![r] = s.reviews[r]]
      /\ saves' = (saves \ {s}) \cup {t}
      /\ UNCHANGED <<viewer, listed, overlay, dialog, started, overlapped>>
  BY DEF RoundSaved
<1> HIDE DEF r
<1>5. s.reviews[r] \in PageReview
  BY <1>2, <1>3 DEF ReviewSaves, ReviewSets
<1>6. WithRoundReview(s, r) \in PageMock
  BY <1>2, <1>3, <1>5 DEF WithRoundReview, ReviewSaves, PageMock
<1>7. /\ t \in ReviewSaves /\ t.next = WithRoundReview(s, r) /\ t.todo = s.todo \ {r}
      /\ t.base = s.base /\ t.reviews = s.reviews
  BY <1>2, <1>6 DEF ReviewSaves
<1>8. \A x \in PageRounds : t.next.review[x] = IF x = r THEN s.reviews[r] ELSE s.next.review[x]
  BY <1>2, <1>3, <1>7 DEF WithRoundReview, ReviewSaves, PageMock
<1> HIDE DEF t
<1>9. server' \in PageMock
  BY <1>1, <1>3, <1>4, <1>5 DEF PageShapes, PageMock
<1>10. PageShapes'
  <2>1. \A x \in saves' : x \in ReviewSaves /\ x.todo \subseteq DOMAIN x.reviews
    BY <1>1, <1>2, <1>4, <1>7 DEF PageShapes
  <2>2. QED BY <1>1, <1>4, <1>9, <2>1 DEF PageShapes, PageMock, PageReview, PageRounds, Drafts, ReviewSaves, ReviewSets
<1>11. ASSUME ~overlapped' PROVE ConfirmedIsKept'
  <2>1. ConfirmedIsKept /\ DOMAIN acked = PageRounds
    BY <1>11, <1>4 DEF PageInv
  <2>2. saves' = {t}
    BY <2>1, <1>4 DEF ConfirmedIsKept
  <2>3. s.reviews[r] # s.base.review[r]
    BY <2>1, <1>3 DEF ConfirmedIsKept
  <2>4. t.next # t.base
    BY <2>3, <1>3, <1>7, <1>8
  <2>5. \A x \in t.todo : t.reviews[x] # t.base.review[x]
    BY <2>1, <1>7 DEF ConfirmedIsKept
  <2>6. \A x \in PageRounds : acked'[x] # Nothing => t.next.review[x] = acked'[x]
    BY <2>1, <1>3, <1>4, <1>8 DEF ConfirmedIsKept
  <2>7. QED BY <2>2, <2>4, <2>5, <2>6 DEF ConfirmedIsKept, PageRounds
<1>12. DOMAIN acked' = PageRounds
  BY <1>4 DEF PageInv
<1>13. QED BY <1>4, <1>10, <1>11, <1>12 DEF PageInv, PageRounds

LEMMA InterviewersStepKeepsInv ==
  ASSUME PageInv, PageNext, viewer = "interviewer"
  PROVE  PageInv'
<1> DEFINE Edit(s) == "at" \in DOMAIN s /\ s.at = "edit"
<1>1. /\ overlapped \in BOOLEAN /\ DOMAIN acked = PageRounds
      /\ \A r \in PageRounds : acked[r] = Nothing
      /\ \A s \in saves : Edit(s)
  BY DEF PageInv
<1>2. ASSUME NEW p, NEW d, NEW rest \in SUBSET saves,
             Rendered(p, d, rest) \/ Kept(p, d, rest) \/ Unmounted(rest)
      PROVE  \A s \in saves' : Edit(s)
  <2>1. CASE saves' = rest
    BY <2>1, <1>1
  <2>2. CASE saves' = {[s EXCEPT !.orphan = s.orphan \/ s.at \in {"row", "dialog", "edit"}] : s \in rest}
    BY <2>2, <1>1
  <2>3. CASE saves' = {[s EXCEPT !.orphan = TRUE] : s \in rest}
    BY <2>3, <1>1
  <2>4. QED BY <1>2, <2>1, <2>2, <2>3 DEF Rendered, Kept, Unmounted
<1>3. SUFFICES /\ viewer' = viewer /\ overlapped' \in BOOLEAN /\ acked' = acked
               /\ \A s \in saves' : Edit(s)
  BY <1>1 DEF PageInv, PageRounds
<1>4. CASE SaveEdit
  <2>1. PICK s : Start(s) /\ Edit(s)
    BY <1>4 DEF SaveEdit
  <2>2. QED BY <2>1, <1>1 DEF Start
<1>5. CASE Open \/ Discard \/ (\E c \in Contents : TypeContent(c))
           \/ (\E r \in PageRounds, v \in PageReview : ReviewedElsewhere(r, v))
  BY <1>1, <1>5 DEF Open, Discard, TypeContent, ReviewedElsewhere
<1>6. CASE Reloaded \/ ReloadFails
  BY <1>1, <1>2, <1>6 DEF Reloaded, ReloadFails
<1>7. CASE \E s \in saves : EditSaved(s) \/ EditFails(s)
  <2>1. PICK s \in saves : EditSaved(s) \/ EditFails(s)
    BY <1>7
  <2>2. PICK p, d : Rendered(p, d, saves \ {s}) \/ Kept(p, d, saves \ {s})
    BY <2>1 DEF EditSaved, EditFails
  <2>3. \A t \in saves' : Edit(t)
    BY <2>2, <1>2
  <2>4. QED BY <2>1, <2>3, <1>1 DEF EditSaved, EditFails
<1>8. QED
  <2>1. ~SaveNotes /\ \A r \in PageRounds, v \in PageReview : ~TypeReview(r, v)
    BY DEF SaveNotes, TypeReview
  <2>2. \A at \in {"row", "overall"} : ~ToggleAll(at)
    BY DEF ToggleAll, Toggle
  <2>3. \A r \in PageRounds : ~ToggleOne(r)
    BY DEF ToggleOne, Toggle
  <2>4. \A s \in saves : ~RoundSaved(s) /\ ~SaveEnds(s) /\ \A arrived \in BOOLEAN : ~SaveFails(s, arrived)
    BY <1>1 DEF RoundSaved, SaveEnds, SaveFails
  <2>5. QED BY <1>4, <1>5, <1>6, <1>7, <2>1, <2>2, <2>3, <2>4 DEF PageNext

LEMMA IntervieweesStepKeepsInv ==
  ASSUME PageInv, PageNext, viewer = "interviewee"
  PROVE  PageInv'
<1>1. PageShapes /\ overlapped \in BOOLEAN /\ DOMAIN acked = PageRounds
  BY DEF PageInv
<1>2. ShownInterview \in PageMock
  BY <1>1 DEF ShownInterview, PageShapes
<1>3. \A s \in saves : s.at # "edit"
  BY <1>1 DEF PageShapes, ReviewSaves, Places
<1>4. ASSUME NEW at \in Places, NEW rounds \in SUBSET PageRounds, NEW b \in BOOLEAN,
             \A r \in rounds : ShownInterview.review[r].reviewed # b,
             Toggle(at, rounds, b)
      PROVE  PageInv'
  <2> DEFINE reviews == [r \in rounds |-> [reviewed |-> b, comment |-> ShownInterview.review[r].comment]]
  <2>1. \A r \in rounds : [reviewed |-> b, comment |-> ShownInterview.review[r].comment] \in PageReview
    BY <1>2 DEF PageMock, PageReview
  <2>2. reviews \in ReviewSets
    BY <2>1 DEF ReviewSets
  <2>3. \A r \in DOMAIN reviews : reviews[r] # ShownInterview.review[r]
    BY <1>4
  <2>4. Start(NewSave(at, reviews)) /\ dialog' = Nothing
    BY <1>4 DEF Toggle
  <2> HIDE DEF reviews
  <2>5. QED BY <2>2, <2>3, <2>4, StartKeepsInv
<1>5. ASSUME NEW at \in {"row", "overall"}, ToggleAll(at) PROVE PageInv'
  <2> DEFINE complete == \A r \in PageRounds : ShownInterview.review[r].reviewed
             b == ~complete
             rounds == {r \in PageRounds : ShownInterview.review[r].reviewed = complete}
  <2>1. complete \in BOOLEAN /\ b \in BOOLEAN
    OBVIOUS
  <2>2. \A r \in rounds : ShownInterview.review[r].reviewed # b
    BY <2>1
  <2>3. Toggle(at, rounds, b)
    BY <1>5 DEF ToggleAll
  <2>4. rounds \in SUBSET PageRounds
    OBVIOUS
  <2>5. at \in Places
    BY DEF Places
  <2> HIDE DEF complete, rounds, b
  <2>6. QED BY <1>4, <2>1, <2>2, <2>3, <2>4, <2>5
<1>6. ASSUME NEW r \in PageRounds, ToggleOne(r) PROVE PageInv'
  <2>1. ShownInterview.review[r].reviewed \in BOOLEAN
    BY <1>2 DEF PageMock, PageReview
  <2>2. Toggle("details", {r}, ~ShownInterview.review[r].reviewed)
    BY <1>6 DEF ToggleOne
  <2> DEFINE b == ~ShownInterview.review[r].reviewed
  <2>3. b \in BOOLEAN /\ \A x \in {r} : ShownInterview.review[x].reviewed # b
    BY <2>1
  <2>4. Toggle("details", {r}, b) /\ {r} \in SUBSET PageRounds /\ "details" \in Places
    BY <2>2 DEF Places
  <2> HIDE DEF b
  <2>5. QED BY <1>4, <2>3, <2>4
<1>7. ASSUME \/ Open \/ Discard
             \/ \E r \in PageRounds, v \in PageReview : TypeReview(r, v)
      PROVE  PageInv'
  <2>1. dialog' = Nothing \/ dialog' \in [draft : Drafts, saving : BOOLEAN]
    <3>1. CASE Open
      BY <3>1, <1>2 DEF Open, Own, PageMock, Drafts
    <3>2. CASE Discard
      BY <3>2 DEF Discard
    <3>3. CASE \E r \in PageRounds, v \in PageReview : TypeReview(r, v)
      BY <3>3, <1>1 DEF TypeReview, PageShapes, Drafts
    <3>4. QED BY <1>7, <3>1, <3>2, <3>3
  <2>2. UNCHANGED <<viewer, wide, server, listed, overlay, saves, pending, started, loaded, elsewhere,
                    acked, overlapped>>
    BY <1>7 DEF Open, Discard, TypeReview
  <2>3. QED BY <2>1, <2>2 DEF PageInv, PageShapes, ConfirmedIsKept, PageMock, PageReview, PageRounds,
                              Drafts, ReviewSaves, ReviewSets
<1>8. CASE SaveNotes
  <2> DEFINE reviews == [r \in Changed |-> dialog.draft[r]]
  <2>1. dialog # Nothing /\ dialog \in [draft : Drafts, saving : BOOLEAN]
    BY <1>1, <1>8 DEF SaveNotes, Dirty, PageShapes
  <2>2. reviews \in [Changed -> PageReview] /\ Changed \subseteq PageRounds
    BY <2>1 DEF Drafts, Changed
  <2>3. reviews \in ReviewSets
    BY <2>2 DEF ReviewSets
  <2>4. \A r \in DOMAIN reviews : reviews[r] # ShownInterview.review[r]
    BY DEF Changed
  <2>5. Start(NewSave("dialog", reviews)) /\ dialog' \in [draft : Drafts, saving : BOOLEAN]
    BY <1>8, <2>1 DEF SaveNotes
  <2> HIDE DEF reviews
  <2>6. QED BY <2>3, <2>4, <2>5, StartKeepsInv
<1>9. CASE Reloaded \/ ReloadFails
  <2>1. saves \in SUBSET ReviewSaves /\ (Rendered(pending, dialog, saves) \/ Unmounted(saves))
    BY <1>1, <1>9 DEF Reloaded, ReloadFails, PageShapes
  <2>2. /\ saves' \subseteq ReviewSaves
        /\ \A s \in saves' : \E t \in saves : Alike(s, t)
        /\ (\A s, t \in saves : s = t) => \A s, t \in saves' : s = t
        /\ \A t \in saves : \E s \in saves' : Alike(s, t)
        /\ dialog' \in {Nothing, dialog}
    BY <2>1, RenderedSaves
  <2>3. listed' \in {server, listed} /\ UNCHANGED <<viewer, server, overlay, started, acked, overlapped>>
    BY <1>9 DEF Reloaded, ReloadFails
  <2>4. PageShapes'
    <3>1. \A s \in saves' : s.todo \subseteq DOMAIN s.reviews
      BY <1>1, <2>2 DEF Alike, PageShapes
    <3>2. QED BY <1>1, <2>2, <2>3, <3>1 DEF PageShapes, PageMock, PageReview, PageRounds, Drafts, ReviewSaves, ReviewSets
  <2>5. ASSUME ~overlapped' PROVE ConfirmedIsKept'
    <3>1. ConfirmedIsKept
      BY <2>3, <2>5 DEF PageInv
    <3>2. \A s \in saves' : \A r \in s.todo : s.reviews[r] # s.base.review[r]
      BY <2>2, <3>1 DEF ConfirmedIsKept, Alike
    <3>3. \A r \in PageRounds : acked[r] # Nothing => \A s \in saves' : s.next.review[r] = acked[r]
      BY <2>2, <3>1 DEF ConfirmedIsKept, Alike
    <3>4. (\A s \in saves' : s.next = s.base) => \A s \in saves : s.next = s.base
      BY <2>2 DEF Alike
    <3>5. QED BY <2>2, <2>3, <3>1, <3>2, <3>3, <3>4 DEF ConfirmedIsKept, PageRounds
  <2>6. QED BY <1>1, <2>3, <2>4, <2>5 DEF PageInv, PageRounds
<1>10. ASSUME NEW s \in saves, RoundSaved(s) PROVE PageInv'
  BY <1>10, RoundSavedKeepsInv
<1>11. ASSUME NEW s \in saves, SaveEnds(s) PROVE PageInv'
  <2>1. Ended(s) /\ server' \in PageMock /\ UNCHANGED <<viewer, listed, started, acked, overlapped>>
    BY <1>1, <1>11 DEF SaveEnds, PageShapes, PageMock, PageReview, PageRounds
  <2>2. QED BY <2>1, EndedKeepsInv
<1>12. ASSUME NEW s \in saves, NEW arrived \in BOOLEAN, SaveFails(s, arrived) PROVE PageInv'
  <2>1. s \in ReviewSaves /\ s.todo \subseteq DOMAIN s.reviews /\ s.todo # {} /\ s.todo \in SUBSET PageRounds
    BY <1>1, <1>12 DEF SaveFails, PageShapes, ReviewSaves
  <2>2. Min(s.todo) \in s.todo
    BY <2>1, MinIsMember
  <2>3. s.reviews[Min(s.todo)] \in PageReview /\ Min(s.todo) \in PageRounds
    BY <2>1, <2>2 DEF ReviewSaves, ReviewSets
  <2>4. server' \in PageMock
    <3>1. server \in PageMock
      BY <1>1 DEF PageShapes
    <3>2. \/ server' = [server EXCEPT !.review[Min(s.todo)] = s.reviews[Min(s.todo)]]
          \/ server' = server
      BY <1>12 DEF SaveFails
    <3>3. QED BY <2>3, <3>1, <3>2 DEF PageMock
  <2>5. Ended(s) /\ UNCHANGED <<viewer, listed, started, acked, overlapped>>
    BY <1>12 DEF SaveFails
  <2>6. QED BY <2>4, <2>5, EndedKeepsInv
<1>13. QED
  <2>1. ~SaveEdit /\ (\A c \in Contents : ~TypeContent(c))
    BY DEF SaveEdit, TypeContent
  <2>2. \A r \in PageRounds, v \in PageReview : ~ReviewedElsewhere(r, v)
    BY DEF ReviewedElsewhere
  <2>3. \A s \in saves : ~EditSaved(s) /\ ~EditFails(s)
    BY <1>3 DEF EditSaved, EditFails
  <2>4. QED BY <1>5, <1>6, <1>7, <1>8, <1>9, <1>10, <1>11, <1>12, <2>1, <2>2, <2>3 DEF PageNext

LEMMA PageStepKeepsInv ==
  ASSUME PageInv, [PageNext]_pageVars
  PROVE  PageInv'
<1>1. CASE UNCHANGED pageVars
  BY <1>1 DEF pageVars, PageInv, PageShapes, ConfirmedIsKept, PageMock, PageReview, PageRounds,
              Drafts, ReviewSaves, ReviewSets
<1>2. QED BY <1>1, InterviewersStepKeepsInv, IntervieweesStepKeepsInv DEF PageInv

(* However many rounds an interview has and wherever a save stops, the page*)
(* shows of each round the review that the API last confirmed to it, or the*)
(* save under way reports it when it ends, unless two saves were under way *)
(* at once (pages/MockInterviewsPage.tsx).                                 *)
THEOREM ConfirmedReviewsAreShown == PageSpec => []ConfirmedIsShown
<1>1. ASSUME PageInv PROVE ConfirmedIsShown
  <2>1. CASE viewer = "interviewer"
    BY <1>1, <2>1 DEF PageInv, ConfirmedIsShown
  <2>2. CASE viewer = "interviewee"
    BY <1>1, <2>2 DEF PageInv, ConfirmedIsKept, ConfirmedIsShown, ShownInterview, Reported
  <2>3. QED BY <1>1, <2>1, <2>2 DEF PageInv
<1>2. PageInv /\ [PageNext]_pageVars => PageInv'
  BY PageStepKeepsInv
<1>3. QED BY <1>1, <1>2, PageInitHasInv, PTL DEF PageSpec

-----------------------------------------------------------------------------
(* MockPage: the drafts of the cards                                       *)

EditSaves == [n : Nat, at : {"edit"}, base : PageMock, content : Contents, orphan : BOOLEAN]

(* What the interviewer's page holds, as PageShapes the interviewee's.     *)
EditShapes ==
  /\ started \in Nat
  /\ server \in PageMock /\ listed \in PageMock /\ overlay \in PageMock \cup {Nothing}
  /\ dialog = Nothing \/ dialog \in [draft : Contents, saving : BOOLEAN]
  /\ saves \subseteq EditSaves

CardsInv == PageInv /\ (viewer = "interviewer" => EditShapes)

LEMMA CardsInitHasInv == PageInit => CardsInv
<1> SUFFICES ASSUME PageInit PROVE EditShapes
  BY PageInitHasInv DEF CardsInv
<1>1. server \in PageMock
  BY PageTextsAssumption DEF PageInit, PageMock, PageReview
<1>2. QED BY <1>1 DEF PageInit, EditShapes

LEMMA RenderedEdits ==
  ASSUME NEW p, NEW d, NEW rest \in SUBSET EditSaves,
         Rendered(p, d, rest) \/ Kept(p, d, rest) \/ Unmounted(rest)
  PROVE  saves' \subseteq EditSaves /\ dialog' \in {Nothing, d}
<1>1. CASE saves' = rest /\ dialog' = d
  BY <1>1
<1>2. CASE /\ dialog' = Nothing
           /\ saves' = {[s EXCEPT !.orphan = s.orphan \/ s.at \in {"row", "dialog", "edit"}] : s \in rest}
  <2>1. ASSUME NEW s \in rest
        PROVE  [s EXCEPT !.orphan = s.orphan \/ s.at \in {"row", "dialog", "edit"}] \in EditSaves
    BY DEF EditSaves
  <2>2. QED BY <1>2, <2>1
<1>3. CASE dialog' = Nothing /\ saves' = {[s EXCEPT !.orphan = TRUE] : s \in rest}
  <2>1. ASSUME NEW s \in rest PROVE [s EXCEPT !.orphan = TRUE] \in EditSaves
    BY DEF EditSaves
  <2>2. QED BY <1>3, <2>1
<1>4. QED BY <1>1, <1>2, <1>3 DEF Rendered, Kept, Unmounted

LEMMA InterviewersStepKeepsShapes ==
  ASSUME EditShapes, PageInv, PageNext, viewer = "interviewer"
  PROVE  EditShapes'
<1> USE DEF EditShapes
<1>1. ShownInterview \in PageMock
  BY DEF ShownInterview
<1>2. \A s \in saves : s \in EditSaves /\ s.at = "edit" /\ s.content \in Contents
  BY DEF EditSaves
<1>3. EditSaves' = EditSaves /\ PageMock' = PageMock
  BY DEF EditSaves, PageMock, PageReview, PageRounds
<1>4. ASSUME \/ Open \/ Discard \/ \E c \in Contents : TypeContent(c)
      PROVE  EditShapes'
  <2>1. UNCHANGED <<server, listed, overlay, saves, started>>
    BY <1>4 DEF Open, Discard, TypeContent
  <2>2. dialog' = Nothing \/ dialog' \in [draft : Contents, saving : BOOLEAN]
    <3>1. CASE Open
      BY <3>1, <1>1 DEF Open, Own, PageMock
    <3>2. CASE Discard
      BY <3>2 DEF Discard
    <3>3. CASE \E c \in Contents : TypeContent(c)
      BY <3>3 DEF TypeContent
    <3>4. QED BY <1>4, <3>1, <3>2, <3>3
  <2>3. QED BY <2>1, <2>2, <1>3
<1>5. CASE SaveEdit
  <2> DEFINE s == [n |-> started, at |-> "edit", base |-> ShownInterview, content |-> dialog.draft,
                   orphan |-> FALSE]
  <2>1. dialog \in [draft : Contents, saving : BOOLEAN]
    BY <1>5 DEF SaveEdit, Dirty
  <2>2. s \in EditSaves
    BY <1>1, <2>1 DEF EditSaves
  <2>3. Start(s) /\ dialog' = [dialog EXCEPT !.saving = TRUE]
    BY <1>5 DEF SaveEdit
  <2> HIDE DEF s
  <2>4. dialog' \in [draft : Contents, saving : BOOLEAN]
    BY <2>1, <2>3
  <2>5. /\ saves' = saves \cup {s} /\ started' = started + 1
        /\ UNCHANGED <<server, listed, overlay>>
    BY <2>3 DEF Start
  <2>6. QED BY <2>2, <2>4, <2>5, <1>3
<1>6. CASE Reloaded \/ ReloadFails
  <2>1. saves' \subseteq EditSaves /\ dialog' \in {Nothing, dialog}
    BY <1>6, RenderedEdits DEF Reloaded, ReloadFails
  <2>2. listed' \in {server, listed} /\ UNCHANGED <<server, overlay, started>>
    BY <1>6 DEF Reloaded, ReloadFails
  <2>3. QED BY <2>1, <2>2, <1>3
<1>7. ASSUME NEW s \in saves, EditSaved(s) PROVE EditShapes'
  <2>1. PICK d \in {dialog, Nothing} : Rendered(pending, d, saves \ {s})
    BY <1>7 DEF EditSaved
  <2>2. saves' \subseteq EditSaves /\ dialog' \in {Nothing, d}
    BY <2>1, RenderedEdits
  <2>3. server' = [server EXCEPT !.content = s.content] /\ overlay' = server'
        /\ UNCHANGED <<listed, started>>
    BY <1>7 DEF EditSaved
  <2>4. server' \in PageMock
    BY <2>3, <1>2 DEF PageMock
  <2>5. QED BY <2>1, <2>2, <2>3, <2>4, <1>3
<1>8. ASSUME NEW s \in saves, EditFails(s) PROVE EditShapes'
  <2>1. /\ saves' = saves \ {s}
        /\ \/ dialog' = dialog
           \/ dialog # Nothing /\ dialog' = [dialog EXCEPT !.saving = FALSE]
        /\ UNCHANGED <<server, listed, overlay, started>>
    BY <1>8 DEF EditFails, Kept
  <2>2. dialog' = Nothing \/ dialog' \in [draft : Contents, saving : BOOLEAN]
    BY <2>1
  <2>3. QED BY <2>1, <2>2, <1>3
<1>9. ASSUME NEW r \in PageRounds, NEW v \in PageReview, ReviewedElsewhere(r, v) PROVE EditShapes'
  <2>1. server' = [server EXCEPT !.review[r] = v] /\ UNCHANGED <<listed, overlay, saves, dialog, started>>
    BY <1>9 DEF ReviewedElsewhere
  <2>2. server' \in PageMock
    BY <2>1 DEF PageMock
  <2>3. QED BY <2>1, <2>2, <1>3
<1>10. QED
  <2>1. ~SaveNotes /\ \A r \in PageRounds, v \in PageReview : ~TypeReview(r, v)
    BY DEF SaveNotes, TypeReview
  <2>2. \A at \in {"row", "overall"} : ~ToggleAll(at)
    BY DEF ToggleAll, Toggle
  <2>3. \A r \in PageRounds : ~ToggleOne(r)
    BY DEF ToggleOne, Toggle
  <2>4. \A s \in saves : ~RoundSaved(s) /\ ~SaveEnds(s) /\ \A arrived \in BOOLEAN : ~SaveFails(s, arrived)
    BY <1>2 DEF RoundSaved, SaveEnds, SaveFails
  <2>5. QED BY <1>4, <1>5, <1>6, <1>7, <1>8, <1>9, <2>1, <2>2, <2>3, <2>4 DEF PageNext

LEMMA CardsStepKeepsInv ==
  ASSUME CardsInv, [PageNext]_pageVars
  PROVE  CardsInv'
<1>1. PageInv'
  BY PageStepKeepsInv DEF CardsInv
<1>2. ASSUME viewer' = "interviewer" PROVE EditShapes'
  <2>1. CASE UNCHANGED pageVars
    BY <2>1, <1>2 DEF CardsInv, pageVars, EditShapes, EditSaves, PageMock, PageReview, PageRounds
  <2>2. CASE PageNext /\ viewer = "interviewer"
    BY <2>2, InterviewersStepKeepsShapes DEF CardsInv
  <2>3. PageNext => viewer' = viewer
    BY DEF PageNext, ToggleAll, ToggleOne, Toggle, Open, Discard, SaveNotes, SaveEdit, Reloaded,
           ReloadFails, TypeReview, TypeContent, RoundSaved, SaveEnds, SaveFails, EditSaved, EditFails,
           ReviewedElsewhere, Start
  <2>4. QED BY <2>1, <2>2, <2>3, <1>2
<1>3. QED BY <1>1, <1>2 DEF CardsInv

(* What CardsInv leaves of the types: the counts, which checkboxes are     *)
(* disabled, and that every save under way has a number of its own.        *)
PageCounts ==
  /\ pending \in [Places -> BOOLEAN] /\ failed \in BOOLEAN
  /\ {started, loaded} \subseteq Nat /\ started + loaded <= MaxPageRequests
  /\ elsewhere \in 0..MaxElsewhere
SavesNumbered ==
  \A s \in saves : s.n \in Nat /\ s.n < started /\ \A t \in saves : s.n = t.n => s = t

LEMMA SavesAreShaped ==
  ASSUME CardsInv
  PROVE  saves \subseteq ReviewSaves \cup EditSaves
  BY DEF CardsInv, PageInv, PageShapes, EditShapes

(* A render, or none, keeps the numbers of the saves it does not end.      *)
LEMMA RendersKeepNumbers ==
  ASSUME CardsInv, SavesNumbered, started' = started,
         NEW p \in [Places -> BOOLEAN], NEW d, NEW rest \in SUBSET saves,
         Rendered(p, d, rest) \/ Kept(p, d, rest) \/ Unmounted(rest)
  PROVE  SavesNumbered' /\ pending' \in [Places -> BOOLEAN]
<1>1. ASSUME saves' = rest PROVE SavesNumbered'
  BY <1>1 DEF SavesNumbered
<1>2. ASSUME NEW all \in BOOLEAN,
             saves' = {[s EXCEPT !.orphan = all \/ s.orphan \/ s.at \in {"row", "dialog", "edit"}] :
                         s \in rest}
      PROVE  SavesNumbered'
  <2> DEFINE O(s) == [s EXCEPT !.orphan = all \/ s.orphan \/ s.at \in {"row", "dialog", "edit"}]
  <2>1. ASSUME NEW s \in rest PROVE O(s).n = s.n
    BY SavesAreShaped DEF ReviewSaves, EditSaves
  <2>2. saves' = {O(s) : s \in rest}
    BY <1>2
  <2> HIDE DEF O
  <2>3. \A x \in saves' : \E s \in rest : x = O(s) /\ x.n = s.n
    BY <2>1, <2>2
  <2>4. ASSUME NEW x \in saves' PROVE x.n \in Nat /\ x.n < started'
    BY <2>3, <2>4 DEF SavesNumbered
  <2>5. ASSUME NEW x \in saves', NEW y \in saves', x.n = y.n PROVE x = y
    <3>1. PICK s \in rest, z \in rest : x = O(s) /\ x.n = s.n /\ y = O(z) /\ y.n = z.n
      BY <2>3
    <3>2. s = z
      BY <2>5, <3>1 DEF SavesNumbered
    <3>3. QED BY <3>1, <3>2
  <2>6. QED BY <2>4, <2>5 DEF SavesNumbered
<1>3. CASE Rendered(p, d, rest) \/ Kept(p, d, rest)
  <2>1. /\ \/ saves' = rest
           \/ saves' = {[s EXCEPT !.orphan = FALSE \/ s.orphan \/ s.at \in {"row", "dialog", "edit"}] :
                           s \in rest}
        /\ pending' \in {p, [p EXCEPT !["row"] = FALSE]}
    BY <1>3 DEF Rendered, Kept
  <2>2. QED BY <1>1, <1>2, <2>1 DEF Places
<1>4. CASE Unmounted(rest)
  <2>1. /\ saves' = {[s EXCEPT !.orphan = TRUE \/ s.orphan \/ s.at \in {"row", "dialog", "edit"}] :
                       s \in rest}
        /\ pending' = [q \in Places |-> FALSE]
    BY <1>4 DEF Unmounted
  <2>2. QED BY <1>2, <2>1
<1>5. QED BY <1>3, <1>4

LEMMA StartsKeepNumbers ==
  ASSUME SavesNumbered, PageCounts, NEW s, s.n = started, Start(s)
  PROVE  SavesNumbered' /\ started' \in Nat /\ started' + loaded <= MaxPageRequests
<1>1. /\ saves' = saves \cup {s} /\ started' = started + 1
      /\ started \in Nat /\ loaded \in Nat /\ MaxPageRequests \in Nat
      /\ started + loaded < MaxPageRequests
  BY PageBoundsAssumption DEF Start, PageCounts
<1>2. QED BY <1>1 DEF SavesNumbered

LEMMA PageInitCounts == PageInit => PageCounts /\ SavesNumbered
<1> SUFFICES ASSUME PageInit PROVE PageCounts /\ SavesNumbered
  OBVIOUS
<1>1. {MaxPageRequests, MaxElsewhere} \subseteq Nat
  BY PageBoundsAssumption
<1>2. started = 0 /\ loaded = 0 /\ elsewhere = 0 /\ saves = {}
  BY DEF PageInit
<1>3. pending \in [Places -> BOOLEAN] /\ failed \in BOOLEAN
  BY DEF PageInit
<1>4. QED BY <1>1, <1>2, <1>3 DEF PageCounts, SavesNumbered

LEMMA PageStepKeepsCounts ==
  ASSUME CardsInv, PageCounts, SavesNumbered, [PageNext]_pageVars
  PROVE  PageCounts' /\ SavesNumbered'
<1>1. ASSUME UNCHANGED <<saves, pending, started, loaded, failed>>,
             UNCHANGED elsewhere \/ \E r \in PageRounds, v \in PageReview : ReviewedElsewhere(r, v)
      PROVE  PageCounts' /\ SavesNumbered'
  <2>1. elsewhere' \in 0..MaxElsewhere
    BY <1>1, PageBoundsAssumption DEF PageCounts, ReviewedElsewhere
  <2>2. QED BY <1>1, <2>1 DEF PageCounts, SavesNumbered
<1>2. ASSUME NEW s, s.n = started, Start(s), pending' \in [Places -> BOOLEAN]
      PROVE  PageCounts' /\ SavesNumbered'
  <2>1. UNCHANGED <<loaded, elsewhere, failed>>
    BY <1>2 DEF Start
  <2>2. SavesNumbered' /\ started' \in Nat /\ started' + loaded <= MaxPageRequests
    BY <1>2, StartsKeepNumbers
  <2>3. QED BY <1>2, <2>1, <2>2 DEF PageCounts
<1>3. ASSUME NEW p \in [Places -> BOOLEAN], NEW d, NEW rest \in SUBSET saves,
             Rendered(p, d, rest) \/ Kept(p, d, rest) \/ Unmounted(rest),
             UNCHANGED <<started, elsewhere>>, failed' \in BOOLEAN,
             loaded' \in Nat, started + loaded' <= MaxPageRequests
      PROVE  PageCounts' /\ SavesNumbered'
  <2>1. SavesNumbered' /\ pending' \in [Places -> BOOLEAN]
    BY <1>3, RendersKeepNumbers
  <2>2. QED BY <1>3, <2>1 DEF PageCounts
<1>4. ASSUME NEW at \in Places, NEW rounds, NEW b, Toggle(at, rounds, b)
      PROVE  PageCounts' /\ SavesNumbered'
  <2>1. PICK s : s.n = started /\ Start(s)
    BY <1>4 DEF Toggle, NewSave
  <2>2. pending' \in [Places -> BOOLEAN]
    BY <1>4 DEF Toggle, PageCounts
  <2>3. QED BY <1>2, <2>1, <2>2
<1>5. CASE \E at \in {"row", "overall"} : ToggleAll(at)
  <2>1. PICK at, rounds, b : at \in Places /\ Toggle(at, rounds, b)
    BY <1>5 DEF ToggleAll, Places
  <2>2. QED BY <1>4, <2>1
<1>6. CASE \E r \in PageRounds : ToggleOne(r)
  BY <1>4, <1>6 DEF ToggleOne, Places
<1>7. CASE SaveNotes \/ SaveEdit
  <2>1. PICK s : s.n = started /\ Start(s)
    BY <1>7 DEF SaveNotes, SaveEdit, NewSave
  <2>2. pending' \in [Places -> BOOLEAN]
    BY <1>7 DEF SaveNotes, SaveEdit, PageCounts
  <2>3. QED BY <1>2, <2>1, <2>2
<1>8. CASE \/ UNCHANGED pageVars \/ Open \/ Discard
           \/ \E r \in PageRounds, v \in PageReview : TypeReview(r, v)
           \/ \E c \in Contents : TypeContent(c)
           \/ \E r \in PageRounds, v \in PageReview : ReviewedElsewhere(r, v)
  BY <1>1, <1>8 DEF pageVars, Open, Discard, TypeReview, TypeContent, ReviewedElsewhere
<1>9. CASE Reloaded
  <2>1. /\ Rendered(pending, dialog, saves) /\ UNCHANGED <<started, elsewhere>>
        /\ loaded' = loaded + 1 /\ started + loaded < MaxPageRequests /\ failed' = FALSE
    BY <1>9 DEF Reloaded
  <2>2. loaded' \in Nat /\ started + loaded' <= MaxPageRequests
    BY <2>1, PageBoundsAssumption DEF PageCounts
  <2>3. QED BY <1>3, <2>1, <2>2 DEF PageCounts
<1>9a. CASE ReloadFails
  <2>1. Unmounted(saves) /\ UNCHANGED <<started, loaded, elsewhere>> /\ failed' = TRUE
    BY <1>9a DEF ReloadFails
  <2>2. QED BY <1>3, <2>1 DEF PageCounts
<1>10. ASSUME NEW s \in saves, RoundSaved(s) PROVE PageCounts' /\ SavesNumbered'
  <2>1. PICK x : x = WithRoundReview(s, Min(s.todo))
    OBVIOUS
  <2>2. PICK todo : todo = s.todo \ {Min(s.todo)}
    OBVIOUS
  <2>3. PICK t : t = [s EXCEPT !.next = x, !.todo = todo]
    OBVIOUS
  <2>4. t.n = s.n
    BY <2>3, SavesAreShaped DEF ReviewSaves, EditSaves
  <2>5. /\ saves' = (saves \ {s}) \cup {t}
        /\ UNCHANGED <<pending, started, loaded, elsewhere, failed>>
    BY <1>10, <2>1, <2>2, <2>3 DEF RoundSaved
  <2>6. SavesNumbered'
    BY <2>4, <2>5 DEF SavesNumbered
  <2>7. QED BY <2>5, <2>6 DEF PageCounts
<1>11. ASSUME NEW s \in saves, EditSaved(s) \/ EditFails(s) PROVE PageCounts' /\ SavesNumbered'
  <2>1. PICK d : Rendered(pending, d, saves \ {s}) \/ Kept(pending, d, saves \ {s})
    BY <1>11 DEF EditSaved, EditFails
  <2>2. UNCHANGED <<started, loaded, elsewhere, failed>>
    BY <1>11 DEF EditSaved, EditFails
  <2>3. QED BY <1>3, <2>1, <2>2 DEF PageCounts
<1>12. ASSUME NEW s \in saves, SaveEnds(s) \/ \E arrived \in BOOLEAN : SaveFails(s, arrived)
       PROVE  PageCounts' /\ SavesNumbered'
  <2>1. Ended(s) /\ UNCHANGED <<started, loaded, elsewhere, failed>>
    BY <1>12 DEF SaveEnds, SaveFails
  <2>2. PICK d, p : /\ Rendered(p, d, saves \ {s}) \/ Kept(p, d, saves \ {s})
                    /\ p = IF s.at \in Places /\ ~s.orphan
                           THEN [pending EXCEPT ![s.at] = FALSE] ELSE pending
    BY <2>1 DEF Ended
  <2>3. p \in [Places -> BOOLEAN]
    BY <2>2 DEF PageCounts
  <2>4. QED BY <1>3, <2>1, <2>2, <2>3 DEF PageCounts
<1>13. QED BY <1>5, <1>6, <1>7, <1>8, <1>9, <1>10, <1>11, <1>12, <1>9a DEF PageNext

(* What the page shows, its checkboxes, its dialog and its saves keep their*)
(* types, and no two saves under way are confused, for any number of rounds*)
(* and of requests (pages/MockInterviewsPage.tsx).                         *)
THEOREM PageTypeCorrect == PageSpec => []PageTypeOK
<1>1. PageInit => PageCounts /\ SavesNumbered
  BY PageInitCounts
<1>2. CardsInv /\ [PageNext]_pageVars => CardsInv'
  BY CardsStepKeepsInv
<1>3. CardsInv /\ PageCounts /\ SavesNumbered /\ [PageNext]_pageVars => PageCounts' /\ SavesNumbered'
  BY PageStepKeepsCounts
<1>4. CardsInv /\ PageCounts /\ SavesNumbered => PageTypeOK
  <2> SUFFICES ASSUME CardsInv, PageCounts, SavesNumbered PROVE PageTypeOK
    OBVIOUS
  <2>1. /\ {server, listed} \subseteq PageMock /\ overlay \in PageMock \cup {Nothing}
        /\ dialog \in PageDialog \cup {Nothing}
    <3>1. CASE viewer = "interviewer"
      BY <3>1 DEF CardsInv, EditShapes, PageDialog
    <3>2. CASE viewer = "interviewee"
      BY <3>2 DEF CardsInv, PageInv, PageShapes, Drafts, PageDialog
    <3>3. QED BY <3>1, <3>2 DEF CardsInv, PageInv
  <2>2. \A s \in saves : s.base \in PageMock /\ (s.at # "edit" => s.next \in PageMock)
    BY SavesAreShaped DEF ReviewSaves, EditSaves
  <2>3. {started, loaded} \subseteq 0..MaxPageRequests
    BY PageBoundsAssumption DEF PageCounts
  <2>4. QED BY <2>1, <2>2, <2>3 DEF PageTypeOK, PageCounts, SavesNumbered
<1>5. QED BY <1>1, <1>2, <1>3, <1>4, CardsInitHasInv, PTL DEF PageSpec

(* Only closing the dialog, the end of a save and a load that fails take a *)
(* card's draft.                                                           *)
LEMMA WhatTakesADraft ==
  ASSUME CardsInv, SavesNumbered, PageNext, ~wide, Dirty, dialog' = Nothing
  PROVE  \/ UNCHANGED <<overlay, listed, failed, saves>>
         \/ \E s \in saves : s.at \in {"dialog", "edit"} /\ \A t \in saves' : t.n # s.n
         \/ ~failed /\ failed'
<1>1. dialog \in PageDialog /\ dialog # Nothing
  <2>1. CASE viewer = "interviewer"
    BY <2>1 DEF CardsInv, EditShapes, Dirty, PageDialog
  <2>2. CASE viewer = "interviewee"
    BY <2>2 DEF CardsInv, PageInv, PageShapes, Drafts, Dirty, PageDialog
  <2>3. QED BY <2>1, <2>2 DEF CardsInv, PageInv
<1>2. [dialog EXCEPT !.saving = TRUE] # Nothing
  <2>1. [dialog EXCEPT !.saving = TRUE] \in PageDialog
    BY <1>1 DEF PageDialog
  <2>2. QED BY <2>1, NothingAssumption
<1>3. \A p, d, rest : Rendered(p, d, rest) => dialog' = d /\ saves' = rest
  BY DEF Rendered, Remounts
<1>4. ~SaveNotes /\ ~SaveEdit
  BY <1>2 DEF SaveNotes, SaveEdit
<1>5. ~Open /\ ~Reloaded
  BY <1>1, <1>3 DEF Open, Reloaded
<1>6. \A at, rounds, b : ~Toggle(at, rounds, b)
  BY <1>1 DEF Toggle
<1>7. (\A at : ~ToggleAll(at)) /\ \A r : ~ToggleOne(r)
  BY <1>6 DEF ToggleAll, ToggleOne
<1>8. (\A s \in saves : ~RoundSaved(s)) /\ \A r, v : ~ReviewedElsewhere(r, v)
  BY <1>1 DEF RoundSaved, ReviewedElsewhere
<1>9. Discard \/ (\E r, v : TypeReview(r, v)) \/ (\E c : TypeContent(c))
        => UNCHANGED <<overlay, listed, failed, saves>>
  BY DEF Discard, TypeReview, TypeContent
<1>10. ASSUME NEW s \in saves, EditSaved(s) \/ EditFails(s)
       PROVE  s.at = "edit" /\ \A t \in saves' : t.n # s.n
  BY <1>3, <1>10 DEF EditSaved, EditFails, Kept, SavesNumbered
<1>11. ASSUME NEW s \in saves, Ended(s) PROVE s.at = "dialog" /\ \A t \in saves' : t.n # s.n
  <2> DEFINE d == IF s.at = "dialog" /\ ~s.orphan /\ dialog # Nothing
                  THEN IF s.todo = {} THEN Nothing ELSE [dialog EXCEPT !.saving = FALSE]
                  ELSE dialog
  <2>1. dialog' = d /\ saves' = saves \ {s}
    BY <1>3, <1>11 DEF Ended, Kept
  <2>2. QED BY <2>1, <1>1 DEF SavesNumbered
<1>12. ASSUME NEW s \in saves, SaveEnds(s) \/ \E arrived \in BOOLEAN : SaveFails(s, arrived)
       PROVE  s.at = "dialog" /\ \A t \in saves' : t.n # s.n
  BY <1>11, <1>12 DEF SaveEnds, SaveFails
<1>13. ReloadFails => ~failed /\ failed'
  BY DEF ReloadFails
<1>14. QED BY <1>4, <1>5, <1>7, <1>8, <1>9, <1>10, <1>12, <1>13 DEF PageNext

(* Where the page shows cards, however many saves are under way, what a    *)
(* person has typed goes only with the dialog they close, a dialog's save  *)
(* that ends, or the rows, when the page fails to load again               *)
(* (pages/MockInterviewsPage.tsx, components/DataTable.tsx).               *)
THEOREM DraftsOfCardsAreKept == PageSpec => CardDraftsAreKept
<1>1. CardsInv /\ [PageNext]_pageVars => CardsInv'
  BY CardsStepKeepsInv
<1>2. CardsInv /\ SavesNumbered /\ [PageNext]_pageVars =>
        [~wide /\ Dirty /\ dialog' = Nothing =>
           \/ UNCHANGED <<overlay, listed, failed, saves>>
           \/ \E s \in saves : s.at \in {"dialog", "edit"} /\ \A t \in saves' : t.n # s.n
           \/ ~failed /\ failed']_pageVars
  BY WhatTakesADraft
<1>3. PageInit => PageCounts /\ SavesNumbered
  BY PageInitCounts
<1>4. CardsInv /\ PageCounts /\ SavesNumbered /\ [PageNext]_pageVars => PageCounts' /\ SavesNumbered'
  BY PageStepKeepsCounts
<1>5. QED BY <1>1, <1>2, <1>3, <1>4, CardsInitHasInv, PTL DEF PageSpec, CardDraftsAreKept

-----------------------------------------------------------------------------
(* WebSession: whom the tab shows                                          *)
(*                                                                         *)
(* Everything that may become the token or the cached account is the       *)
(* owner's, or is marked as late.  The page of sign-in, where the owner    *)
(* changes, shows nothing that was cached but what is marked; a request for*)
(* a token that is not answered yet has nobody's answer, and a fetch that  *)
(* has no token yet nobody's account.                                      *)

OfOwner(s) == s.user \in {Nobody, owner}

Cookies == Sessions \cup {NoSession}

SessionShapes ==
  /\ cookie \in Cookies /\ token \in Cookies
  /\ late \in [token : BOOLEAN, fetch : BOOLEAN, me : BOOLEAN]
  /\ me \in [who : Cookies, error : BOOLEAN, fresh : BOOLEAN]
  /\ fetching \in [at : {"idle", "token", "api"}, who : Cookies, n : Nat]
  /\ asks \subseteq [n : Nat, at : {"sent", "answered"}, who : Cookies]
  /\ asked \in Nat /\ shared \in Nat

SessionIsOwners ==
  /\ OfOwner(cookie)
  /\ ~late.token => OfOwner(token)
  /\ ~late.fetch => OfOwner(fetching.who)
  /\ ~late.me /\ ~me.error => OfOwner(me.who)
  /\ \A a \in asks : a.n \in lateAsks \/ OfOwner(a.who)
  /\ \A a \in asks : a.at = "sent" => a.who = NoSession
  /\ fetching.at # "api" => fetching.who = NoSession
  /\ page = "sign-in" /\ ~late.me /\ ~me.error => me.who = NoSession

SessionInv == SessionShapes /\ SessionIsOwners

LEMMA SessionInitHasInv == SessionInit => SessionInv
<1> SUFFICES ASSUME SessionInit PROVE SessionInv
  OBVIOUS
<1> USE DEF SessionInit, NoMe, Resting, Cookies, Timely
<1>1. SessionShapes
  BY DEF SessionShapes
<1>2. SessionIsOwners
  BY DEF SessionIsOwners, OfOwner, NoSession
<1>3. QED BY <1>1, <1>2 DEF SessionInv

LEMMA SessionStepKeepsInv ==
  ASSUME SessionInv, [SessionNext]_sessionVars
  PROVE  SessionInv'
<1> USE DEF SessionInv
<1>0. NoSession.user = Nobody
  BY DEF NoSession
<1>1. CASE UNCHANGED sessionVars
  BY <1>1 DEF sessionVars, SessionShapes, SessionIsOwners, OfOwner
<1>2. ASSUME NEW a \in asks, TokenServed(a) PROVE SessionInv'
  <2>1. SessionShapes'
    BY <1>2 DEF SessionShapes, Cookies, Sessions, NoSession, Resting, TokenServed, serviceVars, queryVars, lateVars
  <2>2. SessionIsOwners'
    BY <1>2 DEF SessionShapes, SessionIsOwners, OfOwner, Cookies, NoSession, Resting, TokenServed, serviceVars, queryVars, lateVars
  <2>3. QED BY <2>1, <2>2
<1>3. ASSUME NEW a \in asks, TokenArrives(a) PROVE SessionInv'
  <2> USE DEF SessionShapes, Cookies
  <2>1. a.who \in Cookies /\ (a.n \in lateAsks \/ OfOwner(a.who))
    BY DEF SessionIsOwners
  <2>2. a.who # NoSession => a.who \in Sessions
    BY <2>1
  <2> DEFINE Waits == fetching.at = "token" /\ fetching.n = a.n
  <2>3. \/ ~Waits /\ fetching' = fetching /\ me' = me
        \/ /\ Waits /\ a.who = NoSession /\ fetching' = Resting
           /\ me' = [me EXCEPT !.error = TRUE, !.fresh = FALSE]
        \/ /\ Waits /\ a.who # NoSession
           /\ fetching' = [at |-> "api", who |-> a.who, n |-> 0] /\ me' = me
    BY <1>3 DEF TokenArrives
  <2>4. /\ token' = IF a.who = NoSession THEN token ELSE a.who
        /\ late'.token = IF a.who = NoSession THEN late.token ELSE a.n \in lateAsks
        /\ late'.fetch = IF Waits THEN a.n \in lateAsks ELSE late.fetch
        /\ late'.me = late.me
        /\ late' \in [token : BOOLEAN, fetch : BOOLEAN, me : BOOLEAN]
        /\ asks' \subseteq asks /\ shared' = 0
        /\ UNCHANGED <<cookie, owner, asked, page, lateAsks>>
    <3>1. late' = [late EXCEPT !.token = IF a.who = NoSession THEN @ ELSE a.n \in lateAsks,
                               !.fetch = IF Waits THEN a.n \in lateAsks ELSE @]
      BY <1>3 DEF TokenArrives
    <3>2. /\ token' = IF a.who = NoSession THEN token ELSE a.who
          /\ asks' \subseteq asks /\ shared' = 0
          /\ UNCHANGED <<cookie, owner, asked, page, lateAsks>>
      BY <1>3 DEF TokenArrives, serviceVars
    <3> HIDE DEF Waits
    <3>3. late \in [token : BOOLEAN, fetch : BOOLEAN, me : BOOLEAN] /\ (a.n \in lateAsks) \in BOOLEAN
      BY <2>1
    <3>4. CASE a.who = NoSession
      BY <3>1, <3>2, <3>3, <3>4
    <3>5. CASE a.who # NoSession /\ Waits
      BY <3>1, <3>2, <3>3, <3>5
    <3>6. CASE a.who # NoSession /\ ~Waits
      BY <3>1, <3>2, <3>3, <3>6
    <3>7. QED BY <3>4, <3>5, <3>6
  <2> HIDE DEF Waits
  <2>5. SessionShapes'
    <3>1. me' \in [who : Cookies, error : BOOLEAN, fresh : BOOLEAN]
      BY <2>3
    <3>2. fetching' \in [at : {"idle", "token", "api"}, who : Cookies, n : Nat]
      BY <2>1, <2>3 DEF Resting
    <3>3. QED BY <2>1, <2>4, <3>1, <3>2
  <2>6. SessionIsOwners'
    <3>1. CASE ~Waits /\ fetching' = fetching /\ me' = me
      BY <3>1, <2>1, <2>4 DEF SessionIsOwners, OfOwner
    <3>2. CASE /\ Waits /\ a.who = NoSession /\ fetching' = Resting
               /\ me' = [me EXCEPT !.error = TRUE, !.fresh = FALSE]
      BY <3>2, <2>1, <2>4 DEF SessionIsOwners, OfOwner, Resting, NoSession
    <3>3. CASE /\ Waits /\ a.who # NoSession
               /\ fetching' = [at |-> "api", who |-> a.who, n |-> 0] /\ me' = me
      BY <3>3, <2>1, <2>4 DEF SessionIsOwners, OfOwner, Resting
    <3>4. QED BY <2>3, <3>1, <3>2, <3>3
  <2>7. QED BY <2>5, <2>6
<1>4. CASE TokenExpires
  <2>1. SessionShapes'
    BY <1>4 DEF SessionShapes, Cookies, Sessions, NoSession, Resting, TokenExpires, serviceVars, tokenVars, queryVars, lateVars
  <2>2. SessionIsOwners'
    BY <1>4 DEF SessionShapes, SessionIsOwners, OfOwner, Cookies, NoSession, Resting, TokenExpires, serviceVars, tokenVars, queryVars, lateVars
  <2>3. QED BY <2>1, <2>2
<1>5. CASE OtherCall
  <2>1. SessionShapes'
    BY <1>5 DEF SessionShapes, Cookies, Sessions, NoSession, Resting, OtherCall, AskForToken, serviceVars, tokenVars, queryVars, lateVars
  <2>2. SessionIsOwners'
    <3>1. \A x \in asks' : x \in asks \/ x = [n |-> asked + 1, at |-> "sent", who |-> NoSession]
      BY <1>5 DEF OtherCall, AskForToken
    <3>2. UNCHANGED <<cookie, owner, token, me, fetching, page, late, lateAsks>>
      BY <1>5 DEF OtherCall, AskForToken, serviceVars, queryVars, lateVars
    <3>3. QED BY <3>1, <3>2, <1>0 DEF SessionIsOwners, OfOwner
  <2>3. QED BY <2>1, <2>2
<1>6. CASE FetchMe
  <2>1. SessionShapes'
    BY <1>6 DEF SessionShapes, Cookies, Sessions, NoSession, Resting, FetchMe, AskForToken, serviceVars, tokenVars, queryVars, lateVars
  <2>2. SessionIsOwners'
    <3>1. \A x \in asks' : x \in asks \/ x = [n |-> asked + 1, at |-> "sent", who |-> NoSession]
      BY <1>6 DEF FetchMe, AskForToken, tokenVars
    <3>2. UNCHANGED <<cookie, owner, token, me, page, lateAsks>>
      BY <1>6 DEF FetchMe, AskForToken, serviceVars, tokenVars
    <3>3. /\ late'.token = late.token /\ late'.fetch = late.token /\ late'.me = late.me
          /\ \/ fetching'.at = "api" /\ fetching'.who = token
             \/ fetching'.at = "token" /\ fetching'.who = NoSession
      BY <1>6 DEF FetchMe, SessionShapes
    <3>4. QED BY <3>1, <3>2, <3>3, <1>0 DEF SessionIsOwners, OfOwner
  <2>3. QED BY <2>1, <2>2
<1>7. CASE MeArrives
  <2>1. SessionShapes'
    BY <1>7 DEF SessionShapes, Cookies, Sessions, NoSession, Resting, MeArrives, serviceVars, tokenVars, queryVars, lateVars
  <2>2. SessionIsOwners'
    BY <1>7 DEF SessionShapes, SessionIsOwners, OfOwner, Cookies, NoSession, Resting, MeArrives, serviceVars, tokenVars, queryVars, lateVars
  <2>3. QED BY <2>1, <2>2
<1>8. CASE MeFails
  <2>1. SessionShapes'
    BY <1>8 DEF SessionShapes, Cookies, Sessions, NoSession, Resting, MeFails, serviceVars, tokenVars, queryVars, lateVars
  <2>2. SessionIsOwners'
    BY <1>8 DEF SessionShapes, SessionIsOwners, OfOwner, Cookies, NoSession, Resting, MeFails, serviceVars, tokenVars, queryVars, lateVars
  <2>3. QED BY <2>1, <2>2
<1>9. CASE MeGoesStale
  <2>1. SessionShapes'
    BY <1>9 DEF SessionShapes, Cookies, Sessions, NoSession, Resting, MeGoesStale, serviceVars, tokenVars, queryVars, lateVars
  <2>2. SessionIsOwners'
    BY <1>9 DEF SessionShapes, SessionIsOwners, OfOwner, Cookies, NoSession, Resting, MeGoesStale, serviceVars, tokenVars, queryVars, lateVars
  <2>3. QED BY <2>1, <2>2
<1>10. CASE ShellAsksSession
  <2>1. SessionShapes'
    BY <1>10 DEF SessionShapes, Cookies, Sessions, NoSession, Resting, ShellAsksSession, serviceVars, tokenVars, queryVars, lateVars
  <2>2. SessionIsOwners'
    BY <1>10 DEF SessionShapes, SessionIsOwners, OfOwner, Cookies, NoSession, Resting, ShellAsksSession, serviceVars, tokenVars, queryVars, lateVars
  <2>3. QED BY <2>1, <2>2
<1>11. CASE ShellLeaves
  <2>1. SessionShapes'
    BY <1>11 DEF SessionShapes, Cookies, Sessions, NoSession, Resting, ShellLeaves, serviceVars, tokenVars, queryVars, lateVars
  <2>2. SessionIsOwners'
    BY <1>11 DEF SessionShapes, SessionIsOwners, OfOwner, Cookies, NoSession, Resting, ShellLeaves, serviceVars, tokenVars, queryVars, lateVars
  <2>3. QED BY <2>1, <2>2
<1>12. CASE GuardAsksSecondFactor
  <2>1. SessionShapes'
    BY <1>12 DEF SessionShapes, Cookies, Sessions, NoSession, Resting, GuardAsksSecondFactor, serviceVars, tokenVars, queryVars, lateVars
  <2>2. SessionIsOwners'
    BY <1>12 DEF SessionShapes, SessionIsOwners, OfOwner, Cookies, NoSession, Resting, GuardAsksSecondFactor, serviceVars, tokenVars, queryVars, lateVars
  <2>3. QED BY <2>1, <2>2
<1>13. CASE StepUp
  <2>1. SessionShapes'
    BY <1>13 DEF SessionShapes, Cookies, Sessions, NoSession, Resting, StepUp, ClearAccessToken, serviceVars, tokenVars, queryVars, lateVars
  <2>2. SessionIsOwners'
    <3>1. /\ token' = NoSession /\ UNCHANGED <<owner, me, fetching, asks, lateAsks>>
          /\ late'.token = FALSE /\ late'.fetch = late.fetch /\ late'.me = late.me
      BY <1>13 DEF StepUp, ClearAccessToken, queryVars, SessionShapes
    <3>2. cookie'.user = cookie.user /\ page' = "app"
      BY <1>13 DEF StepUp, SessionShapes, Cookies, Sessions
    <3>3. QED BY <3>1, <3>2, <1>0 DEF SessionIsOwners, OfOwner
  <2>3. QED BY <2>1, <2>2
<1>14. CASE BeginLeaving
  <2>1. SessionShapes'
    BY <1>14 DEF SessionShapes, Cookies, Sessions, NoSession, Resting, BeginLeaving, serviceVars, tokenVars, queryVars, lateVars
  <2>2. SessionIsOwners'
    <3>1. cookie' \in {cookie, NoSession} /\ UNCHANGED <<owner, token, me, fetching, asks, page, late, lateAsks>>
      BY <1>14 DEF BeginLeaving, tokenVars, queryVars, lateVars
    <3>2. QED BY <3>1, <1>0 DEF SessionIsOwners, OfOwner
  <2>3. QED BY <2>1, <2>2
<1>15. CASE Leave
  <2>1. SessionShapes'
    BY <1>15 DEF SessionShapes, Cookies, Sessions, NoSession, Resting, Leave, ClearAccessToken, ClearQueries, NoMe, Timely, serviceVars, tokenVars, queryVars, lateVars
  <2>2. SessionIsOwners'
    BY <1>15 DEF SessionShapes, SessionIsOwners, OfOwner, Cookies, NoSession, Resting, Leave, ClearAccessToken, ClearQueries, NoMe, Timely, serviceVars, tokenVars, queryVars, lateVars
  <2>3. QED BY <2>1, <2>2
<1>16. CASE ChangeFails
  <2>1. SessionShapes'
    BY <1>16 DEF SessionShapes, Cookies, Sessions, NoSession, Resting, ChangeFails, serviceVars, tokenVars, queryVars, lateVars
  <2>2. SessionIsOwners'
    BY <1>16 DEF SessionShapes, SessionIsOwners, OfOwner, Cookies, NoSession, Resting, ChangeFails, serviceVars, tokenVars, queryVars, lateVars
  <2>3. QED BY <2>1, <2>2
<1>17. CASE SessionEnds
  <2>1. SessionShapes'
    BY <1>17 DEF SessionShapes, Cookies, Sessions, NoSession, Resting, SessionEnds, serviceVars, tokenVars, queryVars, lateVars
  <2>2. SessionIsOwners'
    BY <1>17 DEF SessionShapes, SessionIsOwners, OfOwner, Cookies, NoSession, Resting, SessionEnds, serviceVars, tokenVars, queryVars, lateVars
  <2>3. QED BY <2>1, <2>2
<1>18. CASE InvitationLink
  <2>1. SessionShapes'
    BY <1>18 DEF SessionShapes, Cookies, Sessions, NoSession, Resting, InvitationLink, serviceVars, tokenVars, queryVars, lateVars
  <2>2. SessionIsOwners'
    BY <1>18 DEF SessionShapes, SessionIsOwners, OfOwner, Cookies, NoSession, Resting, InvitationLink, serviceVars, tokenVars, queryVars, lateVars
  <2>3. QED BY <2>1, <2>2
<1>19. CASE UseAnotherAccount
  <2>1. SessionShapes'
    BY <1>19 DEF SessionShapes, Cookies, Sessions, NoSession, Resting, UseAnotherAccount, ClearAccessToken, serviceVars, tokenVars, queryVars, lateVars
  <2>2. SessionIsOwners'
    <3>1. /\ token' = NoSession /\ UNCHANGED <<owner, me, fetching, asks, lateAsks>>
          /\ late'.token = FALSE /\ late'.fetch = late.fetch /\ late'.me = late.me
      BY <1>19 DEF UseAnotherAccount, ClearAccessToken, queryVars, SessionShapes
    <3>2. /\ cookie' \in {cookie, NoSession}
          /\ page' = "sign-in" => page = "sign-in" \/ me.error
      BY <1>19 DEF UseAnotherAccount
    <3>3. QED BY <3>1, <3>2, <1>0 DEF SessionIsOwners, OfOwner
  <2>3. QED BY <2>1, <2>2
<1>20. ASSUME NEW u \in Accounts, NEW mfa \in BOOLEAN, SignIn(u, mfa) PROVE SessionInv'
  <2> USE DEF SignIn, ClearAccessToken, queryVars
  <2>1. SessionShapes'
    BY <1>20 DEF SessionShapes, Cookies, Sessions, NoSession
  <2>2. /\ cookie'.user = owner' /\ token' = NoSession /\ page' = "app"
        /\ me' = me /\ fetching' = fetching /\ asks' = asks /\ late'.me = late.me
        /\ late'.fetch = (fetching.at = "api")
    BY <1>20 DEF SessionShapes
  <2>3. ~late'.me /\ ~me'.error => me'.who = NoSession
    BY <1>20, <2>2 DEF SessionIsOwners
  <2>4. ASSUME NEW a \in asks PROVE a.n \in lateAsks' \/ a.who = NoSession
    <3>1. a.at \in {"sent", "answered"}
      BY DEF SessionShapes
    <3>2. CASE a.at = "sent"
      BY <3>2 DEF SessionIsOwners
    <3>3. CASE a.at = "answered"
      BY <1>20, <3>3
    <3>4. QED BY <3>1, <3>2, <3>3
  <2>5. SessionIsOwners'
    BY <2>2, <2>3, <2>4, <1>0 DEF SessionIsOwners, OfOwner
  <2>6. QED BY <2>1, <2>5
<1>21. QED
  BY <1>1, <1>2, <1>3, <1>4, <1>5, <1>6, <1>7, <1>8, <1>9, <1>10, <1>11, <1>12, <1>13, <1>14, <1>15, <1>16, <1>17, <1>18, <1>19, <1>20 DEF SessionNext

(* The next person on a tab sees nothing of the one before and calls the   *)
(* API only as themselves, but for what a request brings that outlived its *)
(* page and for the account that InvitationAcceptPage.tsx:109 leaves       *)
(* (api/client.ts, App.tsx, the pages that sign in and out).               *)
THEOREM TheOwnerIsShown == SessionSpec => []OnlyTheOwnerIsShown
<1>1. SessionInv => OnlyTheOwnerIsShown
  BY DEF SessionInv, SessionShapes, SessionIsOwners, OnlyTheOwnerIsShown, OfOwner
<1>2. SessionInv /\ [SessionNext]_sessionVars => SessionInv'
  BY SessionStepKeepsInv
<1>3. QED BY <1>1, <1>2, SessionInitHasInv, PTL DEF SessionSpec

(* The requests for a token are numbered as they are asked.                *)
AsksAreCounted ==
  /\ asked \in 0..MaxAsks /\ shared \in 0..asked /\ signIns \in 0..MaxSignIns
  /\ \A a \in asks : a.n \in 1..asked
  /\ lateAsks \subseteq 1..asked /\ leaving \in {"no", "sign-out", "change"}
  /\ page \in {"app", "sign-in", "two-factor"}

LEMMA AsksInitially == SessionInit => AsksAreCounted
  BY SessionAssumption DEF SessionInit, AsksAreCounted

LEMMA StepKeepsAsksCounted ==
  ASSUME SessionShapes, AsksAreCounted, [SessionNext]_sessionVars
  PROVE  AsksAreCounted'
<1> USE SessionAssumption DEF AsksAreCounted, serviceVars, tokenVars, lateVars
<1>1. CASE UNCHANGED sessionVars
  BY <1>1 DEF sessionVars
<1>2. ASSUME NEW a \in asks, TokenServed(a) PROVE AsksAreCounted'
  <2>1. [a EXCEPT !.at = "answered", !.who = cookie].n = a.n
    BY DEF SessionShapes
  <2>2. QED BY <1>2, <2>1 DEF TokenServed
<1>3. ASSUME NEW a \in asks, TokenArrives(a) PROVE AsksAreCounted'
  BY <1>3 DEF TokenArrives
<1>4. CASE AskForToken /\ UNCHANGED <<signIns, page, leaving, lateAsks>>
  <2>1. asked' = asked + 1 /\ shared' = asked + 1 /\ asked < MaxAsks
    BY <1>4 DEF AskForToken
  <2>2. \A a \in asks' : a \in asks \/ a.n = asked'
    BY <1>4 DEF AskForToken
  <2>3. QED BY <1>4, <2>1, <2>2
<1>5. CASE TokenExpires \/ MeArrives \/ MeFails \/ MeGoesStale \/ ShellAsksSession \/ ShellLeaves
           \/ GuardAsksSecondFactor \/ StepUp \/ BeginLeaving \/ Leave \/ ChangeFails \/ SessionEnds
           \/ InvitationLink \/ UseAnotherAccount
  BY <1>5 DEF TokenExpires, MeArrives, MeFails, MeGoesStale, ShellAsksSession, ShellLeaves,
     GuardAsksSecondFactor, StepUp, BeginLeaving, Leave, ChangeFails, SessionEnds, InvitationLink,
     UseAnotherAccount, ClearAccessToken
<1>6. ASSUME NEW u \in Accounts, NEW mfa \in BOOLEAN, SignIn(u, mfa) PROVE AsksAreCounted'
  BY <1>6 DEF SignIn, ClearAccessToken
<1>7. CASE OtherCall \/ FetchMe
  BY <1>4, <1>7 DEF OtherCall, FetchMe
<1>8. QED BY <1>1, <1>2, <1>3, <1>5, <1>6, <1>7 DEF SessionNext

LEMMA ShapesAreTypes == SessionShapes /\ AsksAreCounted => SessionTypeOK
<1> SUFFICES ASSUME SessionShapes, AsksAreCounted PROVE SessionTypeOK
  OBVIOUS
<1>1. \A a \in asks : a \in [n : 1..asked, at : {"sent", "answered"}, who : Sessions \cup {NoSession}]
  <2> SUFFICES ASSUME NEW a \in asks PROVE a \in [n : 1..asked, at : {"sent", "answered"}, who : Sessions \cup {NoSession}]
    OBVIOUS
  <2>1. a \in [n : Nat, at : {"sent", "answered"}, who : Sessions \cup {NoSession}] /\ a.n \in 1..asked
    BY DEF SessionShapes, AsksAreCounted, Cookies
  <2>2. QED BY <2>1
<1>2. {cookie, token, me.who, fetching.who} \subseteq Sessions \cup {NoSession} /\ fetching.at \in {"idle", "token", "api"}
  BY DEF SessionShapes, Cookies
<1>3. late \in [token : BOOLEAN, fetch : BOOLEAN, me : BOOLEAN]
  BY DEF SessionShapes
<1>4. QED BY <1>1, <1>2, <1>3 DEF AsksAreCounted, SessionTypeOK

(* The session, the token, its requests and the cached account keep to     *)
(* their types (api/client.ts, api/queries.ts).                            *)
THEOREM SessionTypeCorrect == SessionSpec => []SessionTypeOK
<1>1. SessionInv /\ AsksAreCounted => SessionTypeOK
  BY ShapesAreTypes DEF SessionInv
<1>2. SessionInv /\ AsksAreCounted /\ [SessionNext]_sessionVars => (SessionInv /\ AsksAreCounted)'
  BY SessionStepKeepsInv, StepKeepsAsksCounted DEF SessionInv
<1>3. QED BY <1>1, <1>2, SessionInitHasInv, AsksInitially, PTL DEF SessionSpec

-----------------------------------------------------------------------------
(* Access: what the guards let pass                                        *)

LEMMA PageCases ==
  ASSUME NEW a \in routeObjects
  PROVE  \/ \E n \in SharedPages : a = At(n) /\ a.page = n /\ a.season = 0
         \/ \E n \in SeasonPages, s \in Seasons : a = In(n, s) /\ a.page = n /\ a.season = s
  BY DEF routeObjects, At, In

LEMMA ShellLetsMembersPass ==
  ASSUME NEW p \in People, NEW a \in routeObjects, ProtectedShell(p, a) = {}
  PROVE  \/ a.page = "two-factor"
         \/ ~IsMember(p) /\ a.page \in {"profile", "settings"}
         \/ IsMember(p) /\ HasDirectoryAccess(p)
         \/ IsMember(p) /\ HistoricalReview(p, a)
         \/ IsMember(p) /\ a.page \in {"root", "dashboard", "activity", "profile", "settings"}
<1>1. CASE a = At("two-factor")
  BY <1>1 DEF At
<1>2. CASE a # At("two-factor") /\ ~IsMember(p)
  <2>1. a \in NonmemberRoutes
    BY <1>2 DEF ProtectedShell
  <2>2. QED BY <2>1, <1>2 DEF NonmemberRoutes, At
<1>3. CASE a # At("two-factor") /\ IsMember(p)
  <2>1. HasDirectoryAccess(p) \/ HistoricalReview(p, a) \/ a \in FormerMemberRoutes
    BY <1>3 DEF ProtectedShell
  <2>2. a \in FormerMemberRoutes => a.page \in {"root", "dashboard", "activity", "profile", "settings"}
    BY DEF FormerMemberRoutes, At
  <2>3. QED BY <2>1, <2>2, <1>3
<1>4. QED BY <1>1, <1>2, <1>3

LEMMA DirectoryIsShared ==
  ASSUME NEW p \in People
  PROVE  HasDirectoryAccess(p) <=> CanReadSharedActivity(p)
  BY DEF HasDirectoryAccess, CanReadSharedActivity

LEMMA MembersRecord ==
  ASSUME NEW p \in People
  PROVE  IsMember(p) <=> CanRecordActivity(p)
  BY DEF IsMember, CanRecordActivity

(* A finite set of numbers with a member has a greatest one: of such sets  *)
(* without it there would be a smallest.                                   *)
LEMMA MaxExists ==
  ASSUME NEW S \in SUBSET Nat, IsFiniteSet(S), S # {}
  PROVE  \E m \in S : \A x \in S : x <= m
<1> DEFINE Bad == {T \in SUBSET S : T # {} /\ ~\E m \in T : \A x \in T : x <= m}
           Sizes == {Cardinality(T) : T \in Bad}
<1>1. \A T \in SUBSET S : IsFiniteSet(T) /\ Cardinality(T) \in Nat
  BY FS_Subset, FS_CardinalityType
<1>2. SUFFICES ASSUME Bad # {} PROVE FALSE
  OBVIOUS
<1>3. Sizes \subseteq Nat /\ Sizes # {}
  BY <1>1, <1>2
<1>4. PICK n \in Sizes : \A k \in Sizes : ~(<<k, n>> \in OpToRel(<, Nat))
  <2> HIDE DEF Sizes
  <2>1. QED BY <1>3, NatLessThanWellFounded, WFMin
<1>5. PICK T \in Bad : n = Cardinality(T)
  OBVIOUS
<1>6. PICK x \in T : TRUE
  OBVIOUS
<1>7. Cardinality(T \ {x}) = n - 1 /\ n \in Nat /\ Cardinality(T \ {x}) \in Nat
  <2>1. IsFiniteSet(T) /\ Cardinality(T) \in Nat /\ T \in SUBSET S
    BY <1>1, <1>5
  <2>2. Cardinality(T \ {x}) = Cardinality(T) - 1
    BY <2>1, <1>6, FS_RemoveElement
  <2>3. T \ {x} \in SUBSET S
    BY <2>1
  <2>4. QED BY <2>1, <2>2, <2>3, <1>1, <1>5
<1>8. T \ {x} \notin Bad
  <2> HIDE DEF Bad
  <2>1. ASSUME T \ {x} \in Bad PROVE FALSE
    <3>1. Cardinality(T \ {x}) \in Sizes
      BY <2>1
    <3>2. ~(Cardinality(T \ {x}) < n)
      BY <3>1, <1>4, <1>7, <1>3 DEF OpToRel
    <3>3. QED BY <3>2, <1>7
  <2>2. QED BY <2>1
<1>9. CASE T \ {x} = {}
  BY <1>9, <1>5, <1>6
<1>10. CASE T \ {x} # {}
  <2>1. PICK m \in T \ {x} : \A y \in T \ {x} : y <= m
    BY <1>8, <1>10
  <2>2. m \in Nat /\ x \in Nat /\ m \in T /\ T \subseteq Nat
    BY <1>5, <1>6
  <2>3. CASE x <= m
    BY <2>1, <2>2, <2>3, <1>5
  <2>4. CASE ~(x <= m)
    <3>1. \A y \in T : y <= x
      BY <2>1, <2>2, <2>4
    <3>2. QED BY <3>1, <1>5, <1>6
  <2>5. QED BY <2>3, <2>4
<1>11. QED BY <1>9, <1>10

LEMMA MaxSeasonIsGreatest == \A s \in Seasons : MaxSeason \in Seasons /\ s <= MaxSeason
<1>1. Seasons # {} => \E m \in Seasons : \A x \in Seasons : x <= m
  BY MaxExists, SeasonsAssumption
<1>2. QED BY <1>1 DEF MaxSeason

(* The workspace of the dashboard, when it is a season's, is of a season   *)
(* the person may view.                                                    *)
LEMMA WorkspacesCanBeViewed ==
  ASSUME NEW p \in People, NEW w \in workspaces(p), w.place \in Seasons
  PROVE  CanViewSeason(p, w.place)
<1>1. w \notin {[place |-> -1, role |-> "system_admin"], [place |-> 0, role |-> "director"]}
  BY SeasonsAssumption
<1>2. w.place # MaxSeason + 1
  <2>1. MaxSeason \in Nat /\ w.place \in Nat /\ w.place <= MaxSeason
    BY MaxSeasonIsGreatest, SeasonsAssumption
  <2>2. QED BY <2>1
<1>3. w \in {[place |-> s, role |-> p.in[s].role] :
               s \in {t \in Seasons : p.in[t].state \in {"active", "completed"}}}
  BY <1>1, <1>2 DEF workspaces
<1>4. p.in[w.place].state \in {"active", "completed"}
  BY <1>3
<1>5. p.in[w.place] \in Memberships
  BY DEF People
<1>6. CASE p.in[w.place].role = "student" /\ p.in[w.place].state = "completed"
  <2>1. p.in[w.place] = [role |-> "student", state |-> "completed"]
    BY <1>5, <1>6 DEF Memberships, NotEnrolled
  <2>2. QED BY <2>1 DEF CanViewSeason, CanReadSharedActivity, Alumni
<1>7. CASE p.in[w.place].state = "active"
  BY <1>7 DEF CanViewSeason, CanReadSharedActivity, IsActive
<1>8. CASE p.in[w.place].role \in {"mentor", "coordinator"}
  BY <1>4, <1>8 DEF CanViewSeason, CanReviewSeason
<1>9. QED BY <1>4, <1>5, <1>6, <1>7, <1>8 DEF Memberships, NotEnrolled, SeasonRoles

LEMMA PlacesAreNumbers ==
  ASSUME NEW p \in People, NEW w \in workspaces(p)
  PROVE  w.place + 1 \in Nat /\ w.place \in Int
<1>1. \/ w.place = -1 \/ w.place = 0 \/ w.place \in Seasons
      \/ w.place = MaxSeason + 1 /\ Enrolled(p) # {}
      \/ w.place = MaxSeason + 1 /\ Alumni(p)
  BY DEF workspaces
<1>2. Alumni(p) \/ Enrolled(p) # {} => MaxSeason \in Nat
  BY MaxSeasonIsGreatest, SeasonsAssumption DEF Alumni, Enrolled
<1>3. CASE w.place \in Seasons
  <2>1. w.place \in Nat
    BY <1>3, SeasonsAssumption
  <2>2. QED BY <2>1
<1>4. CASE w.place = -1 \/ w.place = 0
  BY <1>4
<1>5. CASE w.place = MaxSeason + 1 /\ MaxSeason \in Nat
  <2> HIDE DEF MaxSeason
  <2>1. QED BY <1>5
<1>6. QED BY <1>1, <1>2, <1>3, <1>4, <1>5

LEMMA ActiveWorkspaceIsOne ==
  ASSUME NEW p \in People, NEW a, NEW chosen
  PROVE  \/ activeWorkspace(p, a, chosen) \in workspaces(p)
         \/ activeWorkspace(p, a, chosen) = NoWorkspace
<1>1. ASSUME workspaces(p) # {}
      PROVE  \E w \in workspaces(p) : \A v \in workspaces(p) : w.place <= v.place
  <2> DEFINE P == {w.place + 1 : w \in workspaces(p)}
  <2>1. P \subseteq Nat /\ P # {}
    BY <1>1, PlacesAreNumbers
  <2>2. PICK x \in P : \A y \in P : x <= y
    <3> HIDE DEF P
    <3>1. QED BY <2>1, LeastExists
  <2>3. PICK w \in workspaces(p) : x = w.place + 1
    OBVIOUS
  <2>4. \A v \in workspaces(p) : w.place + 1 <= v.place + 1
    BY <2>2, <2>3
  <2>5. QED BY <2>4, PlacesAreNumbers
<1> HIDE DEF workspaces
<1>2. QED BY <1>1 DEF activeWorkspace

LEMMA DashboardCanBeRead ==
  ASSUME NEW p \in People, NEW a, NEW chosen
  PROVE  LET s == activeWorkspace(p, a, chosen).place IN s \in Seasons => CanViewSeason(p, s)
<1>1. NoWorkspace.place \notin Seasons
  BY SeasonsAssumption DEF NoWorkspace
<1>2. QED BY <1>1, ActiveWorkspaceIsOne, WorkspacesCanBeViewed

LEMMA ShownIsPermitted ==
  ASSUME NEW p \in People, NEW a \in routeObjects, NEW chosen, Shown(p, a)
  PROVE  \/ Permitted(p, a, chosen)
         \/ a.page = "season-updates" /\ Experience(p, a.season) = "student"
<1>1. ProtectedShell(p, a) = {} /\ RouteTarget(p, a) = {}
  BY DEF Shown, Target
<1>2. /\ a.page \in SharedPages \cup SeasonPages
      /\ a.page \in SeasonPages => a.season \in Seasons
      /\ a.page \in SharedPages => a = At(a.page)
      /\ a.page \in SeasonPages => a = In(a.page, a.season)
  BY PageCases DEF SharedPages, SeasonPages
<1>3. /\ \A s \in Seasons : p.in[s] \in Memberships
      /\ p.roles \subseteq GlobalRoles
  BY DEF People
<1>4. \/ a.page = "two-factor"
      \/ ~IsMember(p) /\ a.page \in {"profile", "settings"}
      \/ IsMember(p) /\ HasDirectoryAccess(p)
      \/ IsMember(p) /\ HistoricalReview(p, a)
      \/ IsMember(p) /\ a.page \in {"root", "dashboard", "activity", "profile", "settings"}
  BY <1>1, ShellLetsMembersPass
<1>5. \A s \in Seasons : HistoricalReview(p, a) /\ a.season = s /\ a # At("seasons") => CanReviewSeason(p, s)
  BY <1>3 DEF HistoricalReview, CanReviewSeason
<1>6. CASE a.page = "dashboard"
  BY <1>4, <1>6, DashboardCanBeRead, MembersRecord DEF Permitted, SeasonPages
<1>7. CASE a.page \in {"seasons", "activity"}
  BY <1>4, <1>7, MembersRecord DEF Permitted, SeasonPages
<1>8. CASE a.page = "graduates"
  <2>1. ~HistoricalReview(p, a)
    BY <1>2, <1>8, <1>3, SeasonsAssumption DEF HistoricalReview, At, SharedPages
  <2>2. HasDirectoryAccess(p)
    BY <1>4, <1>8, <2>1
  <2>3. QED BY <2>2, <1>8, DirectoryIsShared DEF Permitted, SeasonPages
<1>9. CASE a.page = "season-updates"
  <2> DEFINE m == p.in[a.season]
  <2>1. a.season \in Seasons /\ m \in Memberships
    BY <1>2, <1>3, <1>9 DEF SeasonPages
  <2>2. Experience(p, a.season) # "none"
    BY <1>1, <1>9 DEF RouteTarget, SeasonPages
  <2>3. CanReadSharedActivity(p) \/ CanReviewSeason(p, a.season)
    BY <1>9, <1>4, <1>5, <2>1, DirectoryIsShared DEF At
  <2>4. CASE Experience(p, a.season) = "reviewer"
    <3>1. IsSeasonAdmin(p, a.season)
      BY <2>4 DEF Experience, IsSeasonAdmin
    <3>2. QED BY <3>1, <2>4, <1>9 DEF Permitted, SeasonPages, CanReadUpdates
  <2>5. CASE Experience(p, a.season) = "mentor"
    BY <2>3, <2>5, <1>9 DEF Permitted, SeasonPages, CanReadUpdates, CanViewSeason
  <2>6. CASE Experience(p, a.season) = "student"
    BY <2>6, <1>9
  <2>7. QED BY <2>2, <2>4, <2>5, <2>6 DEF Experience
<1>10. CASE a.page = "person-in-season"
  BY <1>10, <1>4, <1>5, <1>2, DirectoryIsShared DEF Permitted, At, In, SeasonPages
<1>11. CASE a.page \in SeasonPages \ {"season-updates", "person-in-season"}
  <2>1. CanReadSharedActivity(p) \/ CanReviewSeason(p, a.season)
    BY <1>11, <1>4, <1>5, <1>2, DirectoryIsShared DEF At, In, SeasonPages
  <2>2. QED BY <2>1, <1>11 DEF Permitted, SeasonPages, CanViewSeason
<1>12. CASE a.page = "admin"
  BY <1>1, <1>12 DEF RouteTarget, RequireAdmin, Permitted, SeasonPages
<1>13. CASE a.page = "admin-users"
  BY <1>1, <1>13 DEF RouteTarget, RequireSystemAdmin, Permitted, SeasonPages
<1>14. CASE a.page = "admin-enrollments"
  <2>1. p.mfa /\ (p.roles # {} \/ \E s \in Seasons : p.in[s] = [role |-> "coordinator", state |-> "active"])
    BY <1>1, <1>14 DEF RouteTarget, RequireSeasonOperations, SeasonPages
  <2>2. QED BY <2>1, <1>14 DEF Permitted, SeasonPages, IsSeasonAdmin
<1>15. CASE a.page \in {"root", "profile", "settings", "forbidden", "two-factor", "users"}
  BY <1>15 DEF Permitted, SeasonPages
<1>16. QED
  BY <1>2, <1>6, <1>7, <1>8, <1>9, <1>10, <1>11, <1>12, <1>13, <1>14, <1>15 DEF SharedPages

-----------------------------------------------------------------------------
(* Access: the redirects                                                   *)

Settles(p, a) == Shown(p, a) \/ Blank(p, a)

(* Members rest on the pages that the guards send them to, and so do others*)
(* on their profile.                                                       *)
LEMMA PagesSentToAreAtRest ==
  ASSUME NEW p \in People
  PROVE  /\ Settles(p, At("two-factor"))
         /\ ~IsMember(p) => Settles(p, At("profile"))
         /\ IsMember(p) => Settles(p, At("forbidden")) /\ Settles(p, At("dashboard"))
         /\ IsMember(p) /\ HasDirectoryAccess(p) => Settles(p, At("graduates"))
<1> USE DEF Settles, Shown, Blank, Target
<1>1. \A n \in {"forbidden", "two-factor", "profile", "dashboard", "graduates"} : RouteTarget(p, At(n)) = {}
  BY DEF RouteTarget, At
<1>2. Settles(p, At("two-factor"))
  BY <1>1 DEF ProtectedShell
<1>3. ~IsMember(p) => ProtectedShell(p, At("profile")) = {}
  BY DEF ProtectedShell, NonmemberRoutes, At
<1>4. IsMember(p) => ProtectedShell(p, At("forbidden")) \in {{}, {At("forbidden")}}
  BY DEF ProtectedShell
<1>5. IsMember(p) => ProtectedShell(p, At("dashboard")) = {}
  BY DEF ProtectedShell, FormerMemberRoutes
<1>6. IsMember(p) /\ HasDirectoryAccess(p) => ProtectedShell(p, At("graduates")) = {}
  BY DEF ProtectedShell
<1>7. QED BY <1>1, <1>2, <1>3, <1>4, <1>5, <1>6

LEMMA SeasonsPassedAreAtRest ==
  ASSUME NEW p \in People, NEW s \in Seasons, ProtectedShell(p, In("season-overview", s)) = {}
  PROVE  Settles(p, In("season", s))
<1>1. In("season-overview", s) \in routeObjects /\ In("season", s) \in routeObjects
  BY DEF routeObjects, SeasonPages
<1>2. /\ In("season-overview", s).page = "season-overview" /\ In("season-overview", s).season = s
      /\ In("season", s).page = "season" /\ In("season", s).season = s
  BY DEF In
<1>3. IsMember(p) /\ (HasDirectoryAccess(p) \/ HistoricalReview(p, In("season-overview", s)))
  BY <1>1, <1>2, ShellLetsMembersPass
<1>4. HistoricalReview(p, In("season-overview", s)) => /\ p.in[s].state = "completed"
                                                       /\ HistoricalReview(p, In("season", s))
  BY <1>2, SeasonsAssumption DEF HistoricalReview, At
<1>5. ProtectedShell(p, In("season", s)) = {}
  BY <1>3, <1>4 DEF ProtectedShell
<1>6. SeasonWorkspaceGuard(p, s) = {}
  BY <1>3, <1>4 DEF SeasonWorkspaceGuard, HasDirectoryAccess
<1>7. RouteTarget(p, In("season", s)) = {}
  BY <1>2, <1>6 DEF RouteTarget
<1>8. QED BY <1>5, <1>7 DEF Settles, Shown, Target

(* What the shell and the routes send to, and whom.                        *)
LEMMA WhereGuardsSend ==
  ASSUME NEW p \in People, NEW a \in routeObjects, NEW b \in Target(p, a)
  PROVE  \/ /\ b = At("profile") /\ ~IsMember(p) /\ a # b
         \/ /\ b = At("forbidden") /\ IsMember(p)
            /\ a = b => ~HasDirectoryAccess(p)
         \/ /\ b = At("two-factor") /\ a # b
         \/ /\ b = At("dashboard") /\ IsMember(p) /\ a # b
         \/ /\ b = At("graduates") /\ IsMember(p) /\ HasDirectoryAccess(p) /\ a # b
         \/ \E s \in Seasons : /\ a = In("season-overview", s) /\ b = In("season", s) /\ a # b
                               /\ ProtectedShell(p, a) = {}
<1>1. CASE ProtectedShell(p, a) # {}
  <2>1. b \in ProtectedShell(p, a)
    BY <1>1 DEF Target
  <2>2. CASE ~IsMember(p)
    BY <2>1, <2>2 DEF ProtectedShell, NonmemberRoutes
  <2>3. CASE IsMember(p)
    BY <2>1, <2>3 DEF ProtectedShell
  <2>4. QED BY <2>2, <2>3
<1>2. CASE ProtectedShell(p, a) = {}
  <2>1. b \in RouteTarget(p, a)
    BY <1>2 DEF Target
  <2>2. a.page # "two-factor" /\ a.page # "profile" /\ a.page # "settings"
    BY <2>1 DEF RouteTarget
  <2>3. /\ IsMember(p)
        /\ \/ HasDirectoryAccess(p) \/ HistoricalReview(p, a)
           \/ a.page \in {"root", "dashboard", "activity", "profile", "settings"}
    BY <1>2, <2>2, ShellLetsMembersPass
  <2>4. CASE a.page = "root"
    BY <2>1, <2>3, <2>4 DEF RouteTarget, At
  <2>5. CASE a.page = "users"
    <3>1. ~HistoricalReview(p, a)
      <4>1. a = At("users")
        BY <2>5, PageCases DEF SeasonPages
      <4>2. QED BY <4>1, SeasonsAssumption DEF HistoricalReview, At
    <3>2. HasDirectoryAccess(p)
      BY <3>1, <2>3, <2>5
    <3>3. b = At("graduates")
      BY <2>1, <2>5 DEF RouteTarget
    <3>4. QED BY <3>2, <3>3, <2>3, <2>5 DEF At
  <2>6. CASE a.page = "season-overview"
    <3>1. PICK s \in Seasons : a = In("season-overview", s) /\ a.season = s
      BY <2>6, PageCases DEF SharedPages
    <3>2. b = In("season", s)
      BY <3>1, <2>1, <2>6 DEF RouteTarget
    <3>3. QED BY <3>1, <3>2, <1>2 DEF In
  <2>7. CASE a.page \in {"admin", "admin-users", "admin-enrollments", "season", "season-updates"}
    <3>1. b \in {At("forbidden"), At("two-factor")}
      BY <2>1, <2>7 DEF RouteTarget, RequireAdmin, RequireSystemAdmin, RequireSeasonOperations,
                        SeasonWorkspaceGuard
    <3>2. a # b
      BY <3>1, <2>7 DEF At
    <3>3. QED BY <3>1, <3>2, <2>3
  <2>8. QED BY <2>1, <2>4, <2>5, <2>6, <2>7 DEF RouteTarget
<1>3. QED BY <1>1, <1>2

(* One redirect is enough: where it leads, the person rests.               *)
LEMMA OneRedirectSettles ==
  ASSUME NEW p \in People, NEW a \in routeObjects, NEW b \in Target(p, a), ~Settles(p, a)
  PROVE  Settles(p, b) /\ b # a /\ b \in routeObjects
<1>1. b # a
  BY DEF Settles, Blank
<1>2. b \in routeObjects
  BY WhereGuardsSend DEF routeObjects, SharedPages, SeasonPages
<1>3. Settles(p, b)
  BY WhereGuardsSend, PagesSentToAreAtRest, SeasonsPassedAreAtRest
<1>4. QED BY <1>1, <1>2, <1>3

AccessInv ==
  /\ person \in People /\ path \in routeObjects
  /\ trail = {} \/ (AtRest /\ path \notin trail)

LEMMA AccessInitHasInv == AccessInit => AccessInv
  BY DEF AccessInit, AccessInv, routeObjects, SharedPages

LEMMA AccessStepKeepsInv ==
  ASSUME AccessInv, [AccessNext]_accessVars
  PROVE  AccessInv'
<1> USE DEF AccessInv
<1>1. CASE UNCHANGED accessVars
  BY <1>1 DEF accessVars, AtRest, Shown, Blank
<1>2. ASSUME NEW a \in routeObjects, Visit(a) PROVE AccessInv'
  BY <1>2 DEF Visit
<1>3. CASE Redirect
  <2>1. ~Settles(person, path) /\ trail' = trail \cup {path} /\ person' = person
    BY <1>3 DEF Redirect, AtRest, Settles
  <2>2. PICK b \in Target(person, path) : path' = b
    BY <1>3 DEF Redirect
  <2>3. Settles(person, b) /\ b # path /\ b \in routeObjects
    BY <2>1, <2>2, OneRedirectSettles
  <2>4. trail = {}
    BY <2>1 DEF AtRest, Settles
  <2>5. AtRest'
    BY <2>1, <2>2, <2>3 DEF AtRest, Settles, Shown, Blank
  <2>6. QED BY <2>1, <2>2, <2>3, <2>4, <2>5
<1>4. CASE SecondFactor
  <2>1. person' \in People
    BY <1>4 DEF SecondFactor, People
  <2>2. QED BY <1>4, <2>1 DEF SecondFactor, routeObjects, SharedPages
<1>5. CASE Elsewhere
  <2>1. path' \in routeObjects /\ trail' = {}
    BY <1>5 DEF Elsewhere
  <2>2. CASE \E s \in Seasons, to \in {"completed", "ended"} :
               IsActive(person, s) /\ person' = [person EXCEPT !.in[s].state = to]
    <3>1. PICK s \in Seasons, to \in {"completed", "ended"} :
            IsActive(person, s) /\ person' = [person EXCEPT !.in[s].state = to]
      BY <2>2
    <3>2. person.in \in [Seasons -> Memberships]
      BY DEF People
    <3>3. person.in[s] \in [role : SeasonRoles, state : EnrollmentStates]
      BY <3>1, <3>2 DEF Memberships, NotEnrolled, IsActive
    <3>4. [person.in[s] EXCEPT !.state = to] \in Memberships
      BY <3>3 DEF Memberships, EnrollmentStates
    <3>5. [person.in EXCEPT ![s].state = to] \in [Seasons -> Memberships]
      BY <3>2, <3>4
    <3>6. QED BY <2>1, <3>1, <3>5 DEF People
  <2>3. CASE person' = [person EXCEPT !.mfa = FALSE]
    BY <2>1, <2>3 DEF People
  <2>4. QED BY <1>5, <2>2, <2>3 DEF Elsewhere
<1>6. ASSUME NEW w \in workspaces(person), setActiveWorkspaceId(w) PROVE AccessInv'
  <2>1. path' \in routeObjects
    BY <1>6 DEF setActiveWorkspaceId, routeObjects, SharedPages, SeasonPages
  <2>2. QED BY <1>6, <2>1 DEF setActiveWorkspaceId
<1>7. QED BY <1>1, <1>2, <1>3, <1>4, <1>5, <1>6 DEF AccessNext

LEMMA AccessInvariant == AccessSpec => []AccessInv
<1>1. AccessInv /\ [AccessNext]_accessVars => AccessInv'
  BY AccessStepKeepsInv
<1>2. QED BY <1>1, AccessInitHasInv, PTL DEF AccessSpec

(* Whatever season, role and second factor a person has, a page that the   *)
(* guards of the application show is one whose reads the API permits them, *)
(* but for the updates of a student who is not active (App.tsx, authz.go). *)
THEOREM ShownIsReadable == AccessSpec => []ShownPagesCanBeRead
<1>1. AccessInv => ShownPagesCanBeRead
  BY ShownIsPermitted DEF AccessInv, ShownPagesCanBeRead
<1>2. QED BY <1>1, AccessInvariant, PTL

(* A person is redirected once at most, and only former members end on the *)
(* empty window of those who have no access (App.tsx and the pages).       *)
THEOREM RedirectsEnd == AccessSpec => []RedirectsSettle
<1>1. ASSUME AccessInv PROVE RedirectsSettle
  <2>1. path \notin trail
    BY <1>1 DEF AccessInv
  <2>2. ASSUME Blank(person, path)
        PROVE  path = At("forbidden") /\ IsMember(person) /\ ~HasDirectoryAccess(person)
    BY <1>1, <2>2, WhereGuardsSend DEF AccessInv, Blank
  <2>3. QED BY <2>1, <2>2 DEF RedirectsSettle
<1>2. QED BY <1>1, AccessInvariant, PTL

TrailInv ==
  /\ trail \subseteq routeObjects
  /\ selected \in {NoWorkspace.place, -1, 0, MaxSeason + 1} \cup Seasons

LEMMA StepKeepsTrail ==
  ASSUME path \in routeObjects, TrailInv, [AccessNext]_accessVars
  PROVE  TrailInv'
<1>1. \A w \in workspaces(person) : w.place \in {-1, 0, MaxSeason + 1} \cup Seasons
  BY DEF workspaces
<1>2. QED
  BY <1>1 DEF TrailInv, AccessNext, accessVars, Visit, Redirect, SecondFactor, Elsewhere,
              setActiveWorkspaceId

(* A person is where a route leads, came from routes, and has chosen a     *)
(* workspace there is, also on a site without a season (App.tsx,           *)
(* WorkspaceContext.tsx).                                                  *)
THEOREM AccessTypeCorrect == AccessSpec => []AccessTypeOK
<1>1. AccessInit => TrailInv
  BY DEF AccessInit, TrailInv
<1>2. AccessInv /\ TrailInv /\ [AccessNext]_accessVars => TrailInv'
  BY StepKeepsTrail DEF AccessInv
<1>3. AccessInv /\ TrailInv => AccessTypeOK
  BY DEF AccessInv, TrailInv, AccessTypeOK
<1>4. QED BY <1>1, <1>2, <1>3, AccessInvariant, PTL DEF AccessSpec

-----------------------------------------------------------------------------
(* AccountEdits: what the settings report as saved                         *)
(*                                                                         *)
(* The request of the settings is one at a time, and asks for what the     *)
(* settings remember.  From when it is stored until another change is      *)
(* stored or answered, the row is what it asked for; from its answer on,   *)
(* so is what the tab shows, and every read of the account since.          *)

Stored(body) == [name |-> body.name, zone |-> body.zone, configured |-> TRUE]

OfSettings == {r \in patches : r.from = "settings"}

EditsInv ==
  /\ others \in BOOLEAN
  /\ DOMAIN settings = {"zone", "typed", "save", "body", "zoneToo", "goals"}
  /\ \A r \in patches : DOMAIN r = {"n", "from", "body", "at"}
  /\ \A r \in OfSettings : settings.save = "zone" /\ settings.body = r.body
  /\ \A q, r \in OfSettings : q = r
  /\ ~others => \A r \in OfSettings : r.at = "stored" => account = Stored(r.body)
  /\ settings.save = "reading" /\ ~others =>
       /\ account = Stored(settings.body) /\ cachedMe = Stored(settings.body)
       /\ reading.at = "read" => reading.answer = Stored(settings.body)

LEMMA EditsInitHasInv == EditsInit => EditsInv
<1> SUFFICES ASSUME EditsInit PROVE EditsInv
  OBVIOUS
<1>1. patches = {} /\ others = FALSE /\ settings.save = "none"
  BY DEF EditsInit
<1>2. DOMAIN settings = {"zone", "typed", "save", "body", "zoneToo", "goals"}
  BY DEF EditsInit
<1>3. QED BY <1>1, <1>2 DEF EditsInv, OfSettings

(* A fetch of the account changes what is shown, and ends a save; it does  *)
(* not change what the save is about.                                      *)
LEMMA SettlingKeepsTheRest ==
  ASSUME DOMAIN settings = {"zone", "typed", "save", "body", "zoneToo", "goals"}, NEW p
  PROVE  /\ DOMAIN Follows(settings, p) = DOMAIN settings
         /\ Follows(settings, p).body = settings.body /\ Follows(settings, p).save = settings.save
         /\ DOMAIN Settled(settings) = DOMAIN settings
         /\ DOMAIN Settled(Follows(settings, p)) = DOMAIN settings
         /\ Settled(settings).body = settings.body
         /\ Settled(Follows(settings, p)).body = settings.body
         /\ Settled(settings).save # "reading" /\ Settled(Follows(settings, p)).save # "reading"
         /\ (Settled(settings).save = "zone") <=> (settings.save = "zone")
         /\ (Settled(Follows(settings, p)).save = "zone") <=> (settings.save = "zone")
<1>1. /\ DOMAIN Follows(settings, p) = DOMAIN settings
      /\ Follows(settings, p).body = settings.body /\ Follows(settings, p).save = settings.save
  BY DEF Follows
<1>2. ASSUME NEW st, DOMAIN st = DOMAIN settings
      PROVE  /\ DOMAIN Settled(st) = DOMAIN settings
             /\ Settled(st).body = st.body
             /\ Settled(st).save # "reading"
             /\ (Settled(st).save = "zone") <=> (st.save = "zone")
  <2>1. CASE st.save = "reading"
    BY <1>2, <2>1 DEF Settled
  <2>2. CASE st.save = "failing"
    BY <1>2, <2>2 DEF Settled
  <2>3. CASE st.save # "reading" /\ st.save # "failing"
    <3>1. Settled(st) = st
      BY <2>3 DEF Settled
    <3>2. QED BY <1>2, <2>3, <3>1
  <2>4. QED BY <2>1, <2>2, <2>3
<1>3. QED BY <1>1, <1>2

LEMMA EditsStepKeepsInv ==
  ASSUME EditsInv, [EditsNext]_editVars
  PROVE  EditsInv'
<1> USE DEF EditsInv, OfSettings, Stored
<1>1. CASE UNCHANGED editVars
  BY <1>1 DEF editVars
<1>2. CASE StartFetch \/ FetchRead
  <2>1. UNCHANGED <<account, cachedMe, patches, settings, others>>
    BY <1>2 DEF StartFetch, FetchRead
  <2>2. reading'.at = "sent" \/ (reading'.at = "read" /\ reading'.answer = account)
    BY <1>2 DEF StartFetch, FetchRead
  <2>3. QED BY <2>1, <2>2
<1>3. CASE FetchArrives \/ MeFetchFails
  <2>1. /\ DOMAIN settings' = DOMAIN settings /\ settings'.body = settings.body
        /\ settings'.save # "reading" /\ (settings'.save = "zone" <=> settings.save = "zone")
    BY <1>3, SettlingKeepsTheRest DEF FetchArrives, MeFetchFails
  <2>2. UNCHANGED <<account, patches, others>>
    BY <1>3 DEF FetchArrives, MeFetchFails
  <2>3. QED BY <2>1, <2>2
<1>4. CASE StoreTimezone
  BY <1>4 DEF StoreTimezone, Patch
<1>5. ASSUME NEW r \in patches, PatchStored(r) PROVE EditsInv'
  <2>1. /\ account' = Stored(r.body) /\ others' = (r.from # "settings")
        /\ UNCHANGED <<cachedMe, reading, settings>>
    BY <1>5 DEF PatchStored
  <2> DEFINE q == [r EXCEPT !.at = "stored"]
  <2>2. /\ DOMAIN q = DOMAIN r /\ q.from = r.from /\ q.body = r.body
        /\ patches' = (patches \ {r}) \cup {q}
    BY <1>5 DEF PatchStored
  <2> HIDE DEF q
  <2>3. QED BY <2>1, <2>2
<1>6. ASSUME NEW r \in patches, AutoAnswered(r) PROVE EditsInv'
  <2>1. /\ patches' \subseteq patches /\ others' = TRUE
        /\ settings' = settings \/ settings' = Follows(settings, PatchAnswer(r))
    BY <1>6 DEF AutoAnswered
  <2>2. DOMAIN settings' = DOMAIN settings /\ settings'.save = settings.save /\ settings'.body = settings.body
    BY <2>1, SettlingKeepsTheRest
  <2>3. QED BY <2>1, <2>2
<1>7. ASSUME NEW r \in patches, ProfileAnswered(r) PROVE EditsInv'
  <2>1. /\ patches' \subseteq patches /\ others' = TRUE
        /\ settings' = settings \/ settings' = Follows(settings, PatchAnswer(r))
    BY <1>7 DEF ProfileAnswered
  <2>2. DOMAIN settings' = DOMAIN settings /\ settings'.save = settings.save /\ settings'.body = settings.body
    BY <2>1, SettlingKeepsTheRest
  <2>3. QED BY <2>1, <2>2
<1>8. ASSUME NEW r \in patches, SettingsAnswered(r) PROVE EditsInv'
  <2>1. patches' = patches \ {r} /\ r \in OfSettings /\ UNCHANGED <<account, others>>
    BY <1>8 DEF SettingsAnswered
  <2>2. {x \in patches' : x.from = "settings"} = {}
    BY <2>1
  <2>3. reading'.at = "sent"
    BY <1>8 DEF SettingsAnswered, InvalidateMe
  <2>4. CASE /\ r.at = "stored" /\ cachedMe' = PatchAnswer(r)
             /\ settings' = [Follows(settings, PatchAnswer(r)) EXCEPT !.save = "reading"]
    <3>1. settings'.body = settings.body /\ DOMAIN settings' = DOMAIN settings
      BY <2>4, SettlingKeepsTheRest
    <3>2. settings.body = r.body /\ (~others => account = Stored(r.body))
      BY <2>1, <2>4
    <3>3. QED BY <2>1, <2>2, <2>3, <2>4, <3>1, <3>2 DEF PatchAnswer
  <2>5. CASE settings' = [settings EXCEPT !.save = "failing"]
    BY <2>1, <2>2, <2>5
  <2>6. QED BY <1>8, <2>4, <2>5 DEF SettingsAnswered
<1>9. CASE OpenProfile \/ CloseProfile \/ RemountProfile
           \/ (\E v \in [name : Names, zone : Zones] : TypeProfile(v))
  BY <1>9 DEF OpenProfile, CloseProfile, RemountProfile, TypeProfile
<1>10. CASE SubmitProfile
  BY <1>10 DEF SubmitProfile, Patch
<1>11. CASE \/ \E z \in Zones : ChooseZone(z)
            \/ \E g \in Goals : TypeGoals(g)
  <2>1. /\ DOMAIN settings' = DOMAIN settings /\ settings'.body = settings.body
        /\ settings'.save = IF Saving THEN settings.save ELSE "none"
    BY <1>11 DEF ChooseZone, TypeGoals
  <2>2. UNCHANGED <<account, cachedMe, reading, patches, others>>
    BY <1>11 DEF ChooseZone, TypeGoals
  <2>3. QED BY <2>1, <2>2 DEF Saving
<1>12. CASE SaveSettings
  <2>1. OfSettings = {} /\ UNCHANGED <<account, cachedMe, reading, others>>
    BY <1>12 DEF SaveSettings, Saving
  <2> DEFINE body == [name |-> cachedMe.name, zone |-> settings.zone]
  <2>2. CASE patches' = patches /\ settings'.save = "goals" /\ DOMAIN settings' = DOMAIN settings
    BY <2>1, <2>2
  <2>3. CASE Patch("settings", body) /\ settings'.save = "zone" /\ settings'.body = body /\ DOMAIN settings' = DOMAIN settings
    BY <2>1, <2>3 DEF Patch
  <2>4. QED BY <1>12, <2>2, <2>3 DEF SaveSettings
<1>13. CASE GoalsStored
  <2>1. OfSettings = {} /\ UNCHANGED <<account, cachedMe, reading, others>>
    BY <1>13 DEF GoalsStored
  <2>2. CASE /\ settings' = [settings EXCEPT !.typed = NothingTyped, !.save = "zone"]
             /\ Patch("settings", settings.body)
    BY <2>1, <2>2 DEF Patch
  <2>3. CASE settings' = [settings EXCEPT !.typed = NothingTyped, !.save = "saved"] /\ patches' = patches
    BY <2>1, <2>3
  <2>4. QED BY <1>13, <2>2, <2>3 DEF GoalsStored
<1>14. CASE GoalsFail
  BY <1>14 DEF GoalsFail
<1>15. CASE AccountChangedElsewhere
  BY <1>15 DEF AccountChangedElsewhere
<1>16. QED
  BY <1>1, <1>2, <1>3, <1>4, <1>5, <1>6, <1>7, <1>8, <1>9, <1>10, <1>11, <1>12, <1>13, <1>14, <1>15
     DEF EditsNext

(* "Saved" is true: whatever the timezone stored by itself, the dialog of  *)
(* the profile and fetches of the account do meanwhile, the tab then shows *)
(* what was stored (pages/SettingsPage.tsx, WorkspaceContext.tsx).         *)
THEOREM SavedSettingsAreShown == EditsSpec => SavedIsShown
<1> DEFINE SaysSaved == settings.save = "reading" /\ settings'.save = "saved" /\ ~others
                          => cachedMe' = [name |-> settings.body.name, zone |-> settings.body.zone,
                                          configured |-> TRUE]
<1>1. ASSUME EditsInv, EditsNext PROVE SaysSaved
  <2> SUFFICES ASSUME settings.save = "reading", settings'.save = "saved", ~others
               PROVE  cachedMe' = Stored(settings.body)
    BY DEF Stored
  <2>1. account = Stored(settings.body) /\ cachedMe = Stored(settings.body)
    BY <1>1 DEF EditsInv
  <2>2. CASE FetchArrives \/ MeFetchFails
    BY <1>1, <2>1, <2>2 DEF EditsInv, FetchArrives, MeFetchFails
  <2>3. DOMAIN settings = {"zone", "typed", "save", "body", "zoneToo", "goals"} /\ OfSettings = {}
    BY <1>1 DEF EditsInv, OfSettings
  <2>4. Saving /\ settings' # settings
    BY DEF Saving
  <2>5. \A p : Follows(settings, p).save = "reading"
    BY <2>3, SettlingKeepsTheRest
  <2>6. ~(StartFetch \/ FetchRead \/ StoreTimezone \/ OpenProfile \/ CloseProfile \/ RemountProfile
          \/ SubmitProfile \/ AccountChangedElsewhere \/ SaveSettings \/ GoalsStored \/ GoalsFail)
    BY <2>4 DEF StartFetch, FetchRead, StoreTimezone, OpenProfile, CloseProfile, RemountProfile,
                SubmitProfile, AccountChangedElsewhere, SaveSettings, GoalsStored, GoalsFail
  <2>7. \A v \in [name : Names, zone : Zones] : ~TypeProfile(v)
    BY <2>4 DEF TypeProfile
  <2>8. \A z \in Zones : ~ChooseZone(z)
    BY <2>3, <2>4 DEF ChooseZone
  <2>9. \A g \in Goals : ~TypeGoals(g)
    BY <2>3, <2>4 DEF TypeGoals
  <2>10. \A r \in patches : ~PatchStored(r) /\ ~AutoAnswered(r) /\ ~ProfileAnswered(r)
    BY <2>4, <2>5 DEF PatchStored, AutoAnswered, ProfileAnswered
  <2>11. \A r \in patches : ~SettingsAnswered(r)
    BY <2>3 DEF SettingsAnswered, OfSettings
  <2>12. QED BY <1>1, <2>2, <2>6, <2>7, <2>8, <2>9, <2>10, <2>11 DEF EditsNext
<1>2. EditsInv /\ [EditsNext]_editVars => [SaysSaved]_editVars
  BY <1>1
<1>3. EditsInv /\ [EditsNext]_editVars => EditsInv'
  BY EditsStepKeepsInv
<1>4. QED BY <1>2, <1>3, EditsInitHasInv, PTL DEF EditsSpec, SavedIsShown

-----------------------------------------------------------------------------
(* AccountEdits: the types                                                 *)

(* What a form or the cache asks for, and the types of the rest.           *)
Wishes == [name : Names, zone : Zones]

EditsShapes ==
  /\ account \in Profiles /\ cachedMe \in Profiles /\ goals \in Goals
  /\ form \in [open : BOOLEAN, values : Wishes, start : Wishes]
  /\ settings \in [zone : Zones, typed : Goals \cup {NothingTyped},
                   save : {"none", "goals", "zone", "reading", "failing", "saved", "failed"},
                   body : Wishes, zoneToo : BOOLEAN, goals : Goals]
  /\ reading.at = "read" => reading.answer \in Profiles
  /\ patched \in Nat /\ foreign \in Nat /\ patched + foreign <= MaxAccountEdits
  /\ patches \subseteq [n : 1..patched, from : {"auto", "profile", "settings"}, body : Wishes,
                        at : {"sent", "stored"}]

(* What is asked for, once stored, is an account, and an account can be    *)
(* asked for: the timezone the browser detects is one there is.            *)
LEMMA WishesAreStored ==
  /\ \A v \in Wishes : [name |-> v.name, zone |-> v.zone, configured |-> TRUE] \in Profiles
  /\ \A p \in Profiles : Values(p) \in Wishes /\ ChosenZone(p) \in Zones
  BY EditsAssumption DEF Wishes, Profiles, Values, ChosenZone

LEMMA EditsShapesInitially == EditsInit => EditsShapes
<1> SUFFICES ASSUME EditsInit PROVE EditsShapes
  OBVIOUS
<1>1. account \in Profiles /\ Values(account) \in Wishes /\ ChosenZone(account) \in Zones
  BY WishesAreStored DEF EditsInit
<1>2. form \in [open : BOOLEAN, values : Wishes, start : Wishes]
  BY <1>1 DEF EditsInit
<1>3. settings \in [zone : Zones, typed : Goals \cup {NothingTyped},
                   save : {"none", "goals", "zone", "reading", "failing", "saved", "failed"},
                   body : Wishes, zoneToo : BOOLEAN, goals : Goals]
  BY <1>1 DEF EditsInit
<1>4. QED BY <1>1, <1>2, <1>3, EditsAssumption DEF EditsInit, EditsShapes, NoMeFetch

LEMMA EditsStepKeepsShapes ==
  ASSUME EditsShapes, [EditsNext]_editVars
  PROVE  EditsShapes'
<1> DEFINE Forms == [open : BOOLEAN, values : Wishes, start : Wishes]
           Saves == {"none", "goals", "zone", "reading", "failing", "saved", "failed"}
           Settings == [zone : Zones, typed : Goals \cup {NothingTyped}, save : Saves,
                        body : Wishes, zoneToo : BOOLEAN, goals : Goals]
           Patches(n) == [n : 1..n, from : {"auto", "profile", "settings"}, body : Wishes,
                          at : {"sent", "stored"}]
<1>1. /\ account \in Profiles /\ cachedMe \in Profiles /\ goals \in Goals
      /\ form \in Forms /\ settings \in Settings
      /\ reading.at = "read" => reading.answer \in Profiles
      /\ patched \in Nat /\ foreign \in Nat /\ patched + foreign <= MaxAccountEdits
      /\ patches \subseteq Patches(patched)
  BY DEF EditsShapes
<1>2. ASSUME account' \in Profiles, cachedMe' \in Profiles, goals' \in Goals,
             form' \in Forms, settings' \in Settings,
             reading'.at = "read" => reading'.answer \in Profiles,
             patched' \in Nat, foreign' \in Nat, patched' + foreign' <= MaxAccountEdits,
             patches' \subseteq Patches(patched')
      PROVE  EditsShapes'
  BY <1>2 DEF EditsShapes
<1>3. \A st \in Settings, p \in Profiles : Follows(st, p) \in Settings
  BY WishesAreStored DEF Follows
<1>4. \A st \in Settings : Settled(st) \in Settings
  <2> SUFFICES ASSUME NEW st \in Settings PROVE Settled(st) \in Settings
    OBVIOUS
  <2>1. CASE st.save = "reading"
    BY <2>1 DEF Settled
  <2>2. CASE st.save = "failing"
    BY <2>2 DEF Settled
  <2>3. CASE st.save # "reading" /\ st.save # "failing"
    BY <2>3 DEF Settled
  <2>4. QED BY <2>1, <2>2, <2>3
<1>5. \A r \in patches : PatchAnswer(r) \in Profiles /\ r.body \in Wishes
  BY <1>1, WishesAreStored DEF PatchAnswer
<1>6. ASSUME NEW from \in {"auto", "profile", "settings"}, NEW v \in Wishes, Patch(from, v), foreign' = foreign
      PROVE  /\ patched' \in Nat /\ patched' + foreign' <= MaxAccountEdits
             /\ patches' \subseteq Patches(patched')
  <2>1. patched' = patched + 1 /\ patched' \in Nat /\ patched' + foreign' <= MaxAccountEdits
    BY <1>1, <1>6, EditsAssumption DEF Patch
  <2>2. [n |-> patched', from |-> from, body |-> v, at |-> "sent"] \in Patches(patched')
    BY <1>1, <2>1
  <2>3. Patches(patched) \subseteq Patches(patched')
    BY <1>1, <2>1
  <2>4. QED BY <1>1, <1>6, <2>1, <2>2, <2>3 DEF Patch
<1> HIDE DEF Forms, Settings, Patches
<1>7. CASE UNCHANGED editVars
  BY <1>1, <1>2, <1>7 DEF editVars
<1>8. CASE StartFetch \/ FetchRead
  BY <1>1, <1>2, <1>8 DEF StartFetch, FetchRead, restVars
<1>9. CASE FetchArrives
  <2>1. reading.answer \in Profiles
    BY <1>1, <1>9 DEF FetchArrives
  <2>2. settings' \in Settings
    BY <1>1, <1>3, <1>4, <1>9, <2>1 DEF FetchArrives
  <2>3. reading'.at = "idle"
    BY <1>9 DEF FetchArrives, NoMeFetch
  <2>4. QED BY <1>1, <1>2, <1>9, <2>1, <2>2, <2>3 DEF FetchArrives, restVars
<1>10. CASE MeFetchFails
  <2>1. settings' \in Settings /\ reading'.at = "idle"
    BY <1>1, <1>4, <1>10 DEF MeFetchFails, NoMeFetch
  <2>2. QED BY <1>1, <1>2, <1>10, <2>1 DEF MeFetchFails, restVars
<1>11. CASE StoreTimezone
  <2>1. [name |-> cachedMe.name, zone |-> Detected] \in Wishes
    BY <1>1, EditsAssumption DEF Wishes, Profiles
  <2>2. QED BY <1>1, <1>2, <1>6, <1>11, <2>1 DEF StoreTimezone
<1>12. ASSUME NEW r \in patches, PatchStored(r) PROVE EditsShapes'
  <2>1. account' \in Profiles
    BY <1>5, <1>12 DEF PatchStored, PatchAnswer
  <2>2. [r EXCEPT !.at = "stored"] \in Patches(patched)
    BY <1>1 DEF Patches
  <2>3. patches' \subseteq Patches(patched')
    BY <1>1, <1>12, <2>2 DEF PatchStored
  <2>4. QED BY <1>1, <1>2, <1>12, <2>1, <2>3 DEF PatchStored, restVars
<1>13. ASSUME NEW r \in patches, AutoAnswered(r) PROVE EditsShapes'
  <2>1. cachedMe' \in Profiles /\ settings' \in Settings
    BY <1>1, <1>3, <1>5, <1>13 DEF AutoAnswered
  <2>2. QED BY <1>1, <1>2, <1>13, <2>1 DEF AutoAnswered, restVars
<1>14. ASSUME NEW r \in patches, ProfileAnswered(r) PROVE EditsShapes'
  <2>1. [open |-> FALSE, values |-> r.body, start |-> r.body] \in Forms
    BY <1>5 DEF Forms
  <2>2. cachedMe' \in Profiles /\ settings' \in Settings /\ form' \in Forms
    BY <1>1, <1>3, <1>5, <1>14, <2>1 DEF ProfileAnswered
  <2>3. QED BY <1>1, <1>2, <1>14, <2>2 DEF ProfileAnswered
<1>15. ASSUME NEW r \in patches, SettingsAnswered(r) PROVE EditsShapes'
  <2>1. \A st \in Settings, s \in {"reading", "failing"} : [st EXCEPT !.save = s] \in Settings
    BY DEF Settings
  <2>2. cachedMe' \in Profiles /\ settings' \in Settings
    BY <1>1, <1>3, <1>5, <1>15, <2>1 DEF SettingsAnswered
  <2>3. reading'.at = "sent"
    BY <1>15 DEF SettingsAnswered, InvalidateMe
  <2>4. QED BY <1>1, <1>2, <1>15, <2>2, <2>3 DEF SettingsAnswered, restVars
<1>16. CASE OpenProfile \/ CloseProfile \/ RemountProfile
            \/ (\E v \in [name : Names, zone : Zones] : TypeProfile(v))
  <2>1. Values(cachedMe) \in Wishes
    BY <1>1, WishesAreStored
  <2>2. \A v \in Wishes : [open |-> FALSE, values |-> v, start |-> v] \in Forms
                          /\ [form EXCEPT !.values = v] \in Forms
    BY <1>1 DEF Forms
  <2>3. \A o \in BOOLEAN : [form EXCEPT !.open = o] \in Forms
    BY <1>1 DEF Forms
  <2>4. form' \in Forms
    BY <1>16, <2>1, <2>2, <2>3 DEF OpenProfile, CloseProfile, RemountProfile, TypeProfile, Wishes
  <2>5. QED BY <1>1, <1>2, <1>16, <2>4 DEF OpenProfile, CloseProfile, RemountProfile, TypeProfile
<1>17. CASE SubmitProfile
  <2>1. form.values \in Wishes
    BY <1>1 DEF Forms
  <2>2. QED BY <1>1, <1>2, <1>6, <1>17, <2>1 DEF SubmitProfile
<1>18. CASE \/ \E z \in Zones : ChooseZone(z)
            \/ \E g \in Goals : TypeGoals(g)
  <2>1. \A z \in Zones, g \in Goals, s \in Saves :
           /\ [settings EXCEPT !.zone = z, !.save = s] \in Settings
           /\ [settings EXCEPT !.typed = g, !.save = s] \in Settings
    BY <1>1 DEF Settings
  <2>2. PICK s \in Saves : s = IF Saving THEN settings.save ELSE "none"
    BY <1>1 DEF Settings
  <2>3. ASSUME NEW z \in Zones, ChooseZone(z) PROVE settings' \in Settings
    <3>1. settings' = [settings EXCEPT !.zone = z, !.save = s]
      <4>1. CASE Saving
        BY <2>2, <2>3, <4>1 DEF ChooseZone
      <4>2. CASE ~Saving
        BY <2>2, <2>3, <4>2 DEF ChooseZone
      <4>3. QED BY <4>1, <4>2
    <3>2. QED BY <1>1, <2>1, <2>2, <3>1 DEF Settings
  <2>4. ASSUME NEW g \in Goals, TypeGoals(g) PROVE settings' \in Settings
    <3>1. settings' = [settings EXCEPT !.typed = g, !.save = s]
      <4>1. CASE Saving
        BY <2>2, <2>4, <4>1 DEF TypeGoals
      <4>2. CASE ~Saving
        BY <2>2, <2>4, <4>2 DEF TypeGoals
      <4>3. QED BY <4>1, <4>2
    <3>2. QED BY <1>1, <2>1, <2>2, <3>1 DEF Settings
  <2>5. settings' \in Settings
    BY <1>18, <2>3, <2>4
  <2>6. QED BY <1>1, <1>2, <1>18, <2>5 DEF ChooseZone, TypeGoals, restVars
<1>19. CASE SaveSettings
  <2> DEFINE body == [name |-> cachedMe.name, zone |-> settings.zone]
             sending == [settings EXCEPT !.body = body, !.zoneToo = settings.zone # cachedMe.zone]
  <2>1. body \in Wishes
    BY <1>1 DEF Wishes, Profiles, Settings
  <2>2. sending \in Settings /\ sending.typed = settings.typed
    BY <1>1, <2>1 DEF Settings
  <2>3. CASE settings.typed # NothingTyped
    <3>1. settings.typed \in Goals
      BY <1>1, <2>3 DEF Settings
    <3>2. [sending EXCEPT !.save = "goals", !.goals = settings.typed] \in Settings
      BY <2>2, <3>1 DEF Settings
    <3>3. QED BY <1>1, <1>2, <1>19, <2>3, <3>2 DEF SaveSettings, restVars
  <2>4. CASE settings.typed = NothingTyped
    <3>1. [sending EXCEPT !.save = "zone"] \in Settings
      BY <2>2 DEF Settings
    <3>2. Patch("settings", body) /\ settings' \in Settings
      BY <1>19, <2>4, <3>1 DEF SaveSettings
    <3>3. UNCHANGED <<goals, form, foreign, account, cachedMe, reading>>
      BY <1>19 DEF SaveSettings, restVars
    <3> HIDE DEF body
    <3>4. QED BY <1>1, <1>2, <1>6, <2>1, <3>2, <3>3
  <2>5. QED BY <2>3, <2>4
<1>20. CASE GoalsStored
  <2>1. /\ [settings EXCEPT !.typed = NothingTyped, !.save = "zone"] \in Settings
        /\ [settings EXCEPT !.typed = NothingTyped, !.save = "saved"] \in Settings
        /\ settings.body \in Wishes /\ settings.goals \in Goals
    BY <1>1 DEF Settings
  <2>2. settings' \in Settings /\ goals' \in Goals
    BY <1>20, <2>1 DEF GoalsStored
  <2>3. /\ UNCHANGED <<account, cachedMe, reading, form, foreign>>
        /\ Patch("settings", settings.body) \/ UNCHANGED <<patches, patched>>
    BY <1>20 DEF GoalsStored
  <2>4. QED BY <1>1, <1>2, <1>6, <2>1, <2>2, <2>3
<1>21. CASE GoalsFail
  <2>1. settings' \in Settings
    BY <1>1, <1>21 DEF GoalsFail, Settings
  <2>2. QED BY <1>1, <1>2, <1>21, <2>1 DEF GoalsFail, InvalidateMe, restVars
<1>22. CASE AccountChangedElsewhere
  <2>1. account' \in Profiles
    BY <1>22 DEF AccountChangedElsewhere, Profiles
  <2>2. foreign' \in Nat /\ patched' + foreign' <= MaxAccountEdits /\ patched' = patched
    BY <1>1, <1>22, EditsAssumption DEF AccountChangedElsewhere
  <2>3. QED BY <1>1, <1>2, <1>22, <2>1, <2>2 DEF AccountChangedElsewhere
<1>23. QED
  BY <1>7, <1>8, <1>9, <1>10, <1>11, <1>12, <1>13, <1>14, <1>15, <1>16, <1>17, <1>18, <1>19, <1>20,
     <1>21, <1>22 DEF EditsNext

(* The account, what the tab keeps of it, its forms and its requests keep  *)
(* to their types (SettingsPage.tsx, EditProfileDialog.tsx, queries.ts).   *)
THEOREM EditsTypeCorrect == EditsSpec => []EditsTypeOK
<1>1. EditsShapes => EditsTypeOK
  BY DEF EditsShapes, EditsTypeOK, Wishes
<1>2. EditsShapes /\ [EditsNext]_editVars => EditsShapes'
  BY EditsStepKeepsShapes
<1>3. QED BY <1>1, <1>2, EditsShapesInitially, PTL DEF EditsSpec

-----------------------------------------------------------------------------
(* MCWeb: the parts in one specification                                   *)

(* Whatever part moves, each is as its own specification says: it starts as*)
(* the part does, and makes its steps or none (dal/mock_interviews.go,     *)
(* dal/monday_updates.go, the pages, auth and api of the web application). *)
THEOREM PartsOfWeb ==
  WebSpec => /\ MockSpec /\ MondaySpec /\ PageSpec /\ ListSpec
             /\ SessionSpec /\ AccessSpec /\ EditsSpec
<1>1. WebInit => /\ MockInit /\ MondayInit /\ PageInit /\ ListInit
                 /\ SessionInit /\ AccessInit /\ EditsInit
  BY DEF WebInit
<1>2. ASSUME [WebNext]_webVars
      PROVE  /\ [MockNext]_mockVars /\ [MondayNext]_mondayVars /\ [PageNext]_pageVars
             /\ [ListNext]_listVars /\ [SessionNext]_sessionVars /\ [AccessNext]_accessVars
             /\ [EditsNext]_editVars
  <2>1. CASE UNCHANGED webVars
    BY <2>1 DEF webVars
  <2>2. CASE WebNext
    BY <2>2 DEF WebNext, OthersStay
  <2>3. QED BY <1>2, <2>1, <2>2
<1>3. [WebNext]_webVars =>
        /\ [MockNext]_mockVars /\ [MondayNext]_mondayVars /\ [PageNext]_pageVars
        /\ [ListNext]_listVars /\ [SessionNext]_sessionVars /\ [AccessNext]_accessVars
        /\ [EditsNext]_editVars
  BY <1>2
<1>4. QED BY <1>1, <1>3, PTL
          DEF WebSpec, MockSpec, MondaySpec, PageSpec, ListSpec, SessionSpec, AccessSpec, EditsSpec

(* The types of the records of a season and of the parts of the web        *)
(* application, whichever of them moves: the interviews and updates of the *)
(* API, the pages, lists, session, guards and settings of the web          *)
(* (dal/mock_interviews.go, pages/MockInterviewsPage.tsx, api/queries.ts). *)
THEOREM WebTypeCorrect == WebSpec => []WebTypeOK
<1>1. MockTypeOK /\ MondayTypeOK /\ PageTypeOK /\ ListTypeOK
        /\ SessionTypeOK /\ AccessTypeOK /\ EditsTypeOK => WebTypeOK
  BY DEF WebTypeOK
<1>2. QED BY <1>1, PartsOfWeb, MockTypeCorrect, MondayTypeCorrect, PageTypeCorrect, ListTypeCorrect,
             SessionTypeCorrect, AccessTypeCorrect, EditsTypeCorrect, PTL
=============================================================================
