------------------------------ MODULE ListsProofs ------------------------------
(***************************************************************************)
(* Proofs about the lists the web application keeps in its cache while they*)
(* are loaded again and changed: the Monday updates of a season, and the   *)
(* weeks, enrollments and mentorships an administrator sees.               *)
(***************************************************************************)
EXTENDS MondayUpdates, SeasonLists, FiniteSetTheorems, WellFoundedInduction, TLAPS

-----------------------------------------------------------------------------
(* MondayUpdates, for any number of weeks, mentors, updates and loads      *)
(*                                                                         *)
(* One update per week rests on the locks: the lock of the season lets one *)
(* post at a time past it, so what the post has looked for and not found   *)
(* is not inserted by another before it commits.  That the list of the page*)
(* is up to date rests on what a load has read: an answer that is on its   *)
(* way says what was confirmed before, for a confirmation replaces a load  *)
(* that may have read too early.                                           *)

UpdateIds == {u.id : u \in updates}

(* UpdateIds are given once; a post has its update exactly when it is committed. *)
IdsAreUnique ==
  /\ \A p, q \in posts : p.id = q.id => p = q
  /\ \A u, v \in updates : u.id = v.id => u = v
  /\ \A p \in posts : p.at = "committed" <=> p.id \in UpdateIds
  /\ \A p \in posts : p.id \notin postedIds

(* What the locks protect.                                                 *)
LocksProtect ==
  /\ \A p, q \in posts : HoldsSeason(p) /\ HoldsSeason(q) => p = q
  /\ \A p \in posts : HoldsSeason(p) => open
  /\ \A p \in posts : HoldsEnrollment(p) => member = "active"
  /\ \A p \in posts : p.at = "checked" => ~Submitted(p.week)

(* What is deleted stays deleted.                                          *)
DeletedAreDead ==
  /\ \A d \in deletions : d.at = "done" => \A u \in Live : u.id # d.id
  /\ \A u \in Live : u.id \notin deletedIds

(* A set of items that says what the page has had confirmed.               *)
Current(items) ==
  /\ \A u \in Live : u.id \in postedIds => [id |-> u.id, week |-> u.week] \in items
  /\ \A i \in items : i.id \notin deletedIds

LoadsAreCurrent ==
  /\ load.at = "read" => Current(load.items)
  /\ load = NoLoad /\ list.ok => Current(list.items)

MondayInv ==
  /\ MondayTypeOK /\ IdsAreUnique /\ LocksProtect /\ OneUpdatePerWeek
  /\ DeletedAreDead /\ LoadsAreCurrent

-----------------------------------------------------------------------------
(* What an action makes of the posts                                       *)

States == {"asked", "season", "enrollment", "checked", "committed", "refused"}

(* A post that moves on keeps its id, its week and its tab.                *)
LEMMA MovedPost ==
  ASSUME MondayTypeOK, NEW p \in posts, NEW at \in States
  PROVE  /\ [p EXCEPT !.at = at].id = p.id /\ [p EXCEPT !.at = at].week = p.week
         /\ [p EXCEPT !.at = at].tab = p.tab /\ [p EXCEPT !.at = at].at = at
         /\ [p EXCEPT !.at = at] \in [id : 1..MaxUpdates, week : WeekIds, tab : {"page", "other"}, at : States]
  BY DEF MondayTypeOK, States

(* A post that moves on without an update written.                         *)
LEMMA MovingKeepsTypes ==
  ASSUME MondayTypeOK, NEW p \in posts, NEW at \in States, Moved(p, at),
         UNCHANGED <<open, member, assigned, updates, marks, deletions, markings, pageState>>
  PROVE  MondayTypeOK'
<1>1. \A q \in posts' : q = [p EXCEPT !.at = at] \/ (q \in posts /\ q # p)
  BY DEF Moved
<1>2. posts \subseteq [id : 1..MaxUpdates, week : WeekIds, tab : {"page", "other"}, at : States]
  BY DEF MondayTypeOK, States
<1>3. [p EXCEPT !.at = at] \in [id : 1..MaxUpdates, week : WeekIds, tab : {"page", "other"},
                                at : States]
  BY MovedPost
<1>4. posts' \subseteq [id : 1..MaxUpdates, week : WeekIds, tab : {"page", "other"}, at : States]
  BY <1>1, <1>2, <1>3
<1>5. QED BY <1>4 DEF MondayTypeOK, States, pageState

LEMMA MovingKeepsIds ==
  ASSUME MondayTypeOK, IdsAreUnique, NEW p \in posts, NEW at \in States, Moved(p, at),
         p.at # "committed", at # "committed", UNCHANGED <<updates, pageState>>
  PROVE  IdsAreUnique'
  BY MovedPost DEF IdsAreUnique, Moved, UpdateIds, pageState

LEMMA MovingKeepsLocks ==
  ASSUME MondayTypeOK, LocksProtect, NEW p \in posts, NEW at \in States, Moved(p, at),
         at \in {"season", "enrollment", "checked"} =>
           open /\ \A q \in posts : HoldsSeason(q) => q = p,
         at \in {"enrollment", "checked"} => member = "active",
         at = "checked" => ~Submitted(p.week),
         UNCHANGED <<open, member, updates>>
  PROVE  LocksProtect'
<1>1. \A q \in posts' : q = [p EXCEPT !.at = at] \/ (q \in posts /\ q # p)
  BY DEF Moved
<1>2. \A week : Submitted(week)' <=> Submitted(week)
  BY DEF Submitted, Live
<1> QED  BY <1>1, <1>2, MovedPost DEF LocksProtect, HoldsSeason, HoldsEnrollment

(* The page and the updates decide the rest.                               *)
LEMMA PostsApart ==
  ASSUME OneUpdatePerWeek, DeletedAreDead, LoadsAreCurrent,
         UNCHANGED <<updates, deletions, pageState>>
  PROVE  OneUpdatePerWeek' /\ DeletedAreDead' /\ LoadsAreCurrent'
  BY DEF OneUpdatePerWeek, DeletedAreDead, LoadsAreCurrent, Current, Live, NoLoad, pageState

LEMMA MovingKeepsInv ==
  ASSUME MondayInv, NEW p \in posts,
         LockSeason(p) \/ LockEnrollment(p) \/ Check(p) \/ Refuse(p)
  PROVE  MondayInv'
<1>1. PICK at \in States \ {"committed"} :
        /\ Moved(p, at) /\ p.at # "committed"
        /\ at \in {"season", "enrollment", "checked"} =>
             open /\ \A q \in posts : HoldsSeason(q) => q = p
        /\ at \in {"enrollment", "checked"} => member = "active"
        /\ at = "checked" => ~Submitted(p.week)
  <2>1. CASE LockSeason(p)
    BY <2>1 DEF LockSeason, SeasonFree, States
  <2>2. CASE LockEnrollment(p)
    BY <2>2 DEF LockEnrollment, MondayInv, LocksProtect, HoldsSeason, States
  <2>3. CASE Check(p)
    BY <2>3 DEF Check, MondayInv, LocksProtect, HoldsSeason, HoldsEnrollment, States
  <2>4. CASE Refuse(p)
    BY <2>4 DEF Refuse, States
  <2> QED  BY <2>1, <2>2, <2>3, <2>4
<1>2. UNCHANGED <<open, member, assigned, updates, marks, deletions, markings, pageState>>
  BY DEF LockSeason, LockEnrollment, Check, Refuse
<1>3. MondayTypeOK'
  BY <1>1, <1>2, MovingKeepsTypes DEF MondayInv
<1>4. IdsAreUnique'
  BY <1>1, <1>2, MovingKeepsIds DEF MondayInv
<1>5. LocksProtect'
  BY <1>1, <1>2, MovingKeepsLocks DEF MondayInv
<1>6. OneUpdatePerWeek' /\ DeletedAreDead' /\ LoadsAreCurrent'
  BY <1>2, PostsApart DEF MondayInv
<1> QED  BY <1>3, <1>4, <1>5, <1>6 DEF MondayInv

LEMMA CommitKeepsInv ==
  ASSUME MondayInv, NEW p \in posts, Commit(p)
  PROVE  MondayInv'
<1> DEFINE new == [id |-> p.id, week |-> p.week, deleted |-> FALSE]
<1>1. /\ Moved(p, "committed") /\ updates' = updates \cup {new} /\ p.at = "checked"
      /\ UNCHANGED <<open, member, assigned, marks, deletions, markings, pageState>>
  BY DEF Commit
<1>2. Live' = Live \cup {new}
  BY <1>1 DEF Live
<1> HIDE DEF new
<1>0. new.id = p.id /\ new.week = p.week /\ new \in [id : {p.id}, week : {p.week}, deleted : {FALSE}]
  BY DEF new
<1>3. p.id \notin UpdateIds /\ p.id \notin postedIds \cup deletedIds /\ ~Submitted(p.week)
  BY <1>1 DEF MondayInv, IdsAreUnique, LocksProtect, MondayTypeOK, UpdateIds
<1>4. \A q \in posts' : q = [p EXCEPT !.at = "committed"] \/ (q \in posts /\ q # p)
  BY <1>1 DEF Moved
<1>5. MondayTypeOK'
  <2>1. new \in [id : 1..MaxUpdates, week : WeekIds, deleted : BOOLEAN]
    BY DEF MondayInv, MondayTypeOK, new
  <2>2. posts' \subseteq [id : 1..MaxUpdates, week : WeekIds, tab : {"page", "other"}, at : States]
    <3> DEFINE Posts == [id : 1..MaxUpdates, week : WeekIds, tab : {"page", "other"}, at : States]
    <3>1. posts \subseteq Posts
      BY DEF MondayInv, MondayTypeOK, States
    <3>2. "committed" \in States
      BY DEF States
    <3>3. [p EXCEPT !.at = "committed"] \in Posts
      BY <3>1, <3>2
    <3> QED  BY <1>4, <3>1, <3>3
  <2>3. {u.id : u \in updates} \subseteq {u.id : u \in updates'}
    BY <1>1
  <2> QED  BY <1>1, <2>1, <2>2, <2>3 DEF MondayInv, MondayTypeOK, States, pageState
<1>6. IdsAreUnique'
  <2>1. UpdateIds' = UpdateIds \cup {p.id}
    BY <1>1, <1>0 DEF UpdateIds
  <2>2. [p EXCEPT !.at = "committed"].id = p.id /\ [p EXCEPT !.at = "committed"].at = "committed"
    BY MovedPost DEF States, MondayInv
  <2>3. \A q \in posts : q.id = p.id => q = p
    BY DEF MondayInv, IdsAreUnique
  <2>4. \A u, v \in updates' : u.id = v.id => u = v
    BY <1>1, <1>3, <1>0 DEF MondayInv, IdsAreUnique, UpdateIds
  <2>5. postedIds' = postedIds
    BY <1>1 DEF pageState
  <2> QED  BY <1>3, <1>4, <2>1, <2>2, <2>3, <2>4, <2>5 DEF MondayInv, IdsAreUnique
<1>7. LocksProtect'
  <2>1. \A q \in posts' : HoldsSeason(q) => FALSE
    BY <1>1, <1>4, MovedPost DEF MondayInv, LocksProtect, HoldsSeason, States
  <2> QED  BY <2>1 DEF LocksProtect, HoldsSeason, HoldsEnrollment
<1>8. OneUpdatePerWeek'
  BY <1>2, <1>3, <1>0 DEF MondayInv, OneUpdatePerWeek, Submitted
<1>9. DeletedAreDead'
  <2>1. \A d \in deletions : d.id # p.id
    BY <1>3 DEF MondayInv, MondayTypeOK, UpdateIds
  <2> QED  BY <1>1, <1>2, <1>3, <1>0, <2>1 DEF MondayInv, DeletedAreDead, pageState
<1>10. LoadsAreCurrent'
  BY <1>1, <1>2, <1>3, <1>0 DEF MondayInv, LoadsAreCurrent, Current, NoLoad, pageState
<1> QED  BY <1>5, <1>6, <1>7, <1>8, <1>9, <1>10 DEF MondayInv

(* A post that begins has an id of its own.                                *)
LEMMA BeginningKeepsInv ==
  ASSUME MondayInv, NEW id \in 1..MaxUpdates, NEW week \in WeekIds, NEW tab \in {"page", "other"},
         BeginPost(id, week, tab), UNCHANGED pageState
  PROVE  MondayInv'
<1> DEFINE new == [id |-> id, week |-> week, tab |-> tab, at |-> "asked"]
<1>1. /\ posts' = posts \cup {new} /\ id \notin UpdateIds /\ \A p \in posts : p.id # id
      /\ UNCHANGED <<open, member, assigned, updates, marks, deletions, markings, pageState>>
  BY DEF BeginPost, UpdateIds
<1>2. new.id = id /\ new.at = "asked"
  OBVIOUS
<1>3. MondayTypeOK'
  BY <1>1 DEF MondayInv, MondayTypeOK, pageState
<1> HIDE DEF new
<1>4. IdsAreUnique'
  <2>1. UpdateIds' = UpdateIds /\ postedIds' = postedIds /\ id \notin postedIds
    BY <1>1 DEF UpdateIds, pageState, MondayInv, MondayTypeOK
  <2> QED  BY <1>1, <1>2, <2>1 DEF MondayInv, IdsAreUnique
<1>5. LocksProtect'
  BY <1>1, <1>2 DEF MondayInv, LocksProtect, HoldsSeason, HoldsEnrollment, Submitted, Live
<1>6. OneUpdatePerWeek' /\ DeletedAreDead' /\ LoadsAreCurrent'
  BY <1>1, PostsApart DEF MondayInv
<1> QED  BY <1>3, <1>4, <1>5, <1>6 DEF MondayInv

(* A confirmation makes the list load again; one that is lost does not.    *)
LEMMA AnsweringKeepsInv ==
  ASSUME MondayInv, NEW p \in posts, PostAnswered(p) \/ PostAnswerLost(p)
  PROVE  MondayInv'
<1>1. /\ posts' = posts \ {p} /\ p.at \in {"committed", "refused"}
      /\ UNCHANGED <<open, member, assigned, updates, marks, deletions, markings, list, loads, deletedIds>>
      /\ \/ load' = NewLoad /\ postedIds' = postedIds \cup {p.id} /\ p.id \in UpdateIds
         \/ UNCHANGED <<load, postedIds>>
  BY DEF PostAnswered, PostAnswerLost, LoadAfterPost, MondayInv, IdsAreUnique, pageState
<1>2. MondayTypeOK'
  BY <1>1 DEF MondayInv, MondayTypeOK, NewLoad, UpdateIds
<1>3. IdsAreUnique'
  BY <1>1 DEF MondayInv, IdsAreUnique, UpdateIds
<1>4. LocksProtect'
  BY <1>1 DEF MondayInv, LocksProtect, HoldsSeason, HoldsEnrollment, Submitted, Live
<1>5. OneUpdatePerWeek' /\ DeletedAreDead'
  BY <1>1 DEF MondayInv, OneUpdatePerWeek, DeletedAreDead, Live
<1>6. LoadsAreCurrent'
  BY <1>1 DEF MondayInv, LoadsAreCurrent, Current, Live, NoLoad, NewLoad
<1> QED  BY <1>2, <1>3, <1>4, <1>5, <1>6 DEF MondayInv

-----------------------------------------------------------------------------
(* Deletions and marks                                                     *)

LEMMA BeginDeleteKeepsInv ==
  ASSUME MondayInv, NEW u \in Live, NEW tab \in {"page", "other"}, BeginDelete(u, tab)
  PROVE  MondayInv'
<1> DEFINE new == [id |-> u.id, tab |-> tab, at |-> "asked"]
<1>1. /\ deletions' = deletions \cup {new} /\ new.at = "asked"
      /\ UNCHANGED <<open, member, assigned, updates, marks, posts, markings, pageState>>
  BY DEF BeginDelete
<1>2. MondayTypeOK'
  BY <1>1 DEF MondayInv, MondayTypeOK, Live, pageState
<1> HIDE DEF new
<1>3. IdsAreUnique' /\ LocksProtect' /\ OneUpdatePerWeek' /\ LoadsAreCurrent'
  BY <1>1 DEF MondayInv, IdsAreUnique, UpdateIds, LocksProtect, HoldsSeason, HoldsEnrollment, Submitted, Live,
              OneUpdatePerWeek, LoadsAreCurrent, Current, NoLoad, pageState
<1>4. DeletedAreDead'
  BY <1>1 DEF MondayInv, DeletedAreDead, Live, pageState
<1> QED  BY <1>2, <1>3, <1>4 DEF MondayInv

(* What is deleted leaves the live updates, and they are otherwise the same.*)
LEMMA DeletedLive ==
  ASSUME MondayTypeOK, NEW d \in deletions, DeleteUpdate(d)
  PROVE  /\ Live' = {u \in Live : u.id # d.id}
         /\ UpdateIds' = UpdateIds
         /\ updates' \subseteq [id : 1..MaxUpdates, week : WeekIds, deleted : BOOLEAN]
         /\ \A v \in updates' : \E u \in updates :
              v.id = u.id /\ v = IF u.id = d.id THEN [u EXCEPT !.deleted = TRUE] ELSE u
<1> DEFINE After(u) == IF u.id = d.id THEN [u EXCEPT !.deleted = TRUE] ELSE u
<1>1. updates' = {After(u) : u \in updates}
  BY DEF DeleteUpdate
<1>2. \A u \in updates :
        /\ After(u) \in [id : 1..MaxUpdates, week : WeekIds, deleted : BOOLEAN] /\ After(u).id = u.id
        /\ u.id = d.id => After(u).deleted
        /\ u.id # d.id => After(u) = u
        /\ After(u) = IF u.id = d.id THEN [u EXCEPT !.deleted = TRUE] ELSE u
  BY DEF MondayTypeOK
<1> HIDE DEF After
<1>3. Live' = {u \in Live : u.id # d.id}
  BY <1>1, <1>2 DEF Live
<1>4. UpdateIds' = UpdateIds
  BY <1>1, <1>2 DEF UpdateIds
<1> QED  BY <1>1, <1>2, <1>3, <1>4

LEMMA DeleteKeepsInv ==
  ASSUME MondayInv, NEW d \in deletions, DeleteUpdate(d)
  PROVE  MondayInv'
<1> DEFINE at == IF \E u \in Live : u.id = d.id THEN "done" ELSE "missing"
<1> DEFINE moved == [d EXCEPT !.at = at]
<1>1. /\ deletions' = (deletions \ {d}) \cup {moved}
      /\ UNCHANGED <<open, member, assigned, marks, posts, markings, pageState>>
  BY DEF DeleteUpdate
<1>2. moved.id = d.id /\ moved \in [id : UpdateIds, tab : {"page", "other"}, at : {"asked", "done", "missing"}]
  BY DEF MondayInv, MondayTypeOK, UpdateIds
<1> HIDE DEF moved
<1>3. /\ Live' = {u \in Live : u.id # d.id} /\ UpdateIds' = UpdateIds
      /\ updates' \subseteq [id : 1..MaxUpdates, week : WeekIds, deleted : BOOLEAN]
  BY DeletedLive DEF MondayInv
<1>4. MondayTypeOK'
  BY <1>1, <1>2, <1>3 DEF MondayInv, MondayTypeOK, UpdateIds, pageState
<1>5. IdsAreUnique'
  <2>1. \A u, v \in updates' : u.id = v.id => u = v
    BY DeletedLive DEF MondayInv, IdsAreUnique
  <2> QED  BY <1>1, <1>3, <2>1 DEF MondayInv, IdsAreUnique, pageState
<1>6. LocksProtect' /\ OneUpdatePerWeek'
  BY <1>1, <1>3 DEF MondayInv, LocksProtect, HoldsSeason, HoldsEnrollment, Submitted, OneUpdatePerWeek
<1>7. DeletedAreDead' /\ LoadsAreCurrent'
  BY <1>1, <1>2, <1>3 DEF MondayInv, DeletedAreDead, LoadsAreCurrent, Current, NoLoad, pageState
<1> QED  BY <1>4, <1>5, <1>6, <1>7 DEF MondayInv

LEMMA DeleteAnsweredKeepsInv ==
  ASSUME MondayInv, NEW d \in deletions, DeleteAnswered(d) \/ DeleteAnswerLost(d)
  PROVE  MondayInv'
<1>1. /\ deletions' = deletions \ {d}
      /\ UNCHANGED <<open, member, assigned, updates, marks, posts, markings, list, loads, postedIds>>
      /\ \/ load' = NewLoad /\ deletedIds' = deletedIds \cup {d.id} /\ d.at = "done"
         \/ UNCHANGED <<load, deletedIds>>
  BY DEF DeleteAnswered, DeleteAnswerLost, LoadAfterPost, pageState
<1>2. MondayTypeOK'
  BY <1>1 DEF MondayInv, MondayTypeOK, NewLoad
<1>3. IdsAreUnique' /\ LocksProtect' /\ OneUpdatePerWeek'
  BY <1>1 DEF MondayInv, IdsAreUnique, UpdateIds, LocksProtect, HoldsSeason, HoldsEnrollment, Submitted, Live,
              OneUpdatePerWeek
<1>4. DeletedAreDead' /\ LoadsAreCurrent'
  BY <1>1 DEF MondayInv, DeletedAreDead, LoadsAreCurrent, Current, Live, NoLoad, NewLoad
<1> QED  BY <1>2, <1>3, <1>4 DEF MondayInv

LEMMA MarksKeepInv ==
  ASSUME MondayInv,
         \/ \E u \in Live, m \in assigned : BeginMark(u, m)
         \/ \E k \in markings : PutMark(k)
  PROVE  MondayInv'
<1>1. UNCHANGED <<open, member, assigned, updates, posts, deletions, pageState>>
  BY DEF BeginMark, PutMark
<1>2. MondayTypeOK'
  <2>1. marks' \cup markings' \subseteq [update : UpdateIds, mentor : Mentors]
    BY DEF BeginMark, PutMark, MondayInv, MondayTypeOK, Live, UpdateIds
  <2> QED  BY <1>1, <2>1 DEF MondayInv, MondayTypeOK, UpdateIds, pageState
<1>3. IdsAreUnique' /\ LocksProtect' /\ OneUpdatePerWeek' /\ DeletedAreDead' /\ LoadsAreCurrent'
  BY <1>1, PostsApart DEF MondayInv, IdsAreUnique, UpdateIds, LocksProtect, HoldsSeason, HoldsEnrollment,
              Submitted, Live, pageState
<1> QED  BY <1>2, <1>3 DEF MondayInv

-----------------------------------------------------------------------------
(* The season, and the loads of the page                                   *)

LEMMA SeasonKeepsInv ==
  ASSUME MondayInv, SeasonCloses \/ SeasonReopens \/ RemoveStudent
  PROVE  MondayInv'
<1>1. UNCHANGED <<updates, marks, posts, deletions, markings, pageState>>
  BY DEF SeasonCloses, SeasonReopens, RemoveStudent
<1>2. MondayTypeOK'
  BY DEF SeasonCloses, SeasonReopens, RemoveStudent, MondayInv, MondayTypeOK, pageState
<1>3. LocksProtect'
  BY DEF SeasonCloses, SeasonReopens, RemoveStudent, MondayInv, LocksProtect, SeasonFree,
         EnrollmentFree, HoldsSeason, HoldsEnrollment, Submitted, Live
<1>4. IdsAreUnique' /\ OneUpdatePerWeek' /\ DeletedAreDead' /\ LoadsAreCurrent'
  BY <1>1, PostsApart DEF MondayInv, IdsAreUnique, UpdateIds, pageState
<1> QED  BY <1>2, <1>3, <1>4 DEF MondayInv

LEMMA LoadingKeepsInv ==
  ASSUME MondayInv, StartLoad \/ ReadList \/ ReadFails \/ ShowList
  PROVE  MondayInv'
<1>1. UNCHANGED <<apiVars, postedIds, deletedIds>>
  BY DEF StartLoad, ReadList, ReadFails, ShowList
<1>2. Listed \subseteq [id : 1..MaxUpdates, week : WeekIds] /\ Current(Listed)
  BY DEF Listed, Live, MondayInv, MondayTypeOK, Current, DeletedAreDead
<1>3. MondayTypeOK'
  <2>1. CASE StartLoad
    BY <1>1, <2>1, MondayBoundsAssumption DEF StartLoad, NewLoad, MondayInv, MondayTypeOK, apiVars
  <2>2. CASE ReadList
    BY <1>1, <1>2, <2>2 DEF ReadList, MondayInv, MondayTypeOK, apiVars
  <2>3. CASE ReadFails
    BY <1>1, <2>3 DEF ReadFails, MondayInv, MondayTypeOK, apiVars
  <2>4. CASE ShowList
    BY <1>1, <2>4 DEF ShowList, NoLoad, MondayInv, MondayTypeOK, apiVars
  <2> QED  BY <2>1, <2>2, <2>3, <2>4
<1>4. IdsAreUnique' /\ LocksProtect' /\ OneUpdatePerWeek' /\ DeletedAreDead'
  BY <1>1 DEF MondayInv, IdsAreUnique, UpdateIds, LocksProtect, HoldsSeason, HoldsEnrollment, Submitted, Live,
              OneUpdatePerWeek, DeletedAreDead, apiVars
<1>5. LoadsAreCurrent'
  <2>1. \A items : Current(items)' <=> Current(items)
    BY <1>1 DEF Current, Live, apiVars
  <2>2. CASE StartLoad
    BY <2>2 DEF StartLoad, NewLoad, NoLoad, LoadsAreCurrent
  <2>3. CASE ReadList
    BY <1>2, <2>1, <2>3 DEF ReadList, NoLoad, LoadsAreCurrent
  <2>4. CASE ReadFails
    BY <2>4 DEF ReadFails, NoLoad, LoadsAreCurrent
  <2>5. CASE ShowList
    BY <2>1, <2>5 DEF ShowList, NoLoad, LoadsAreCurrent, MondayInv, MondayTypeOK
  <2> QED  BY <2>2, <2>3, <2>4, <2>5
<1> QED  BY <1>3, <1>4, <1>5 DEF MondayInv

-----------------------------------------------------------------------------
(* Theorems                                                                *)

(* The invariant holds in every reachable state, however many posts,       *)
(* deletions, closings and removals overlap.                               *)
THEOREM MondayInductive == MondaySpec => []MondayInv
<1>1. MondayInit => MondayInv
  BY MondayBoundsAssumption
     DEF MondayInit, MondayInv, MondayTypeOK, IdsAreUnique, LocksProtect, OneUpdatePerWeek,
         DeletedAreDead, LoadsAreCurrent, Current, Live, NewLoad, NoLoad
<1>2. MondayInv /\ [MondayNext]_mondayVars => MondayInv'
  <2> SUFFICES ASSUME MondayInv, [MondayNext]_mondayVars PROVE MondayInv'
    OBVIOUS
  <2>1. ASSUME NEW id \in 1..MaxUpdates, NEW week \in WeekIds,
               Submit(id, week) \/ PostElsewhere(id, week)
        PROVE  MondayInv'
    BY <2>1, BeginningKeepsInv DEF Submit, PostElsewhere
  <2>2. ASSUME NEW p \in posts,
               LockSeason(p) \/ LockEnrollment(p) \/ Check(p) \/ Commit(p) \/ Refuse(p)
                 \/ PostAnswered(p) \/ PostAnswerLost(p)
        PROVE  MondayInv'
    BY <2>2, MovingKeepsInv, CommitKeepsInv, AnsweringKeepsInv
  <2>3. ASSUME NEW u \in Live, RemoveUpdate(u, "page") \/ RemoveUpdate(u, "other") PROVE MondayInv'
    BY <2>3, BeginDeleteKeepsInv DEF RemoveUpdate
  <2>4. ASSUME NEW d \in deletions, DeleteUpdate(d) \/ DeleteAnswered(d) \/ DeleteAnswerLost(d) PROVE MondayInv'
    BY <2>4, DeleteKeepsInv, DeleteAnsweredKeepsInv
  <2>5. CASE UNCHANGED mondayVars
    BY <2>5 DEF mondayVars, apiVars, pageState, MondayInv, MondayTypeOK, IdsAreUnique, UpdateIds, LocksProtect,
                HoldsSeason, HoldsEnrollment, Submitted, OneUpdatePerWeek, DeletedAreDead,
                LoadsAreCurrent, Current, Live, NoLoad
  <2> QED
    BY <2>1, <2>2, <2>3, <2>4, <2>5, MarksKeepInv, SeasonKeepsInv, LoadingKeepsInv DEF MondayNext
<1> QED  BY <1>1, <1>2, PTL DEF MondaySpec

(* Every variable of the Monday updates keeps its type.                    *)
THEOREM MondayTypeCorrect == MondaySpec => []MondayTypeOK
<1>1. MondayInv => MondayTypeOK
  BY DEF MondayInv
<1> QED  BY <1>1, MondayInductive, PTL

(* "One update per student per week is allowed", for any number of tabs.   *)
THEOREM OnceAWeek == MondaySpec => []OneUpdatePerWeek
<1>1. MondayInv => OneUpdatePerWeek
  BY DEF MondayInv
<1> QED  BY <1>1, MondayInductive, PTL

(* Once it has loaded its list, the page shows every update it has had     *)
(* confirmed, and none it has deleted.                                     *)
THEOREM ListKeepsUp == MondaySpec => []ConfirmedIsListed
<1>1. MondayInv => ConfirmedIsListed
  BY DEF MondayInv, LoadsAreCurrent, Current, ConfirmedIsListed
<1> QED  BY <1>1, MondayInductive, PTL

(* An update appears only while the season is open and the student active, *)
(* though neither has to be so when the request was authorised.            *)
THEOREM OnlyActiveStudentsPost == MondaySpec => PostedByActiveStudent
<1> DEFINE Right == \A u \in updates' : u.id \notin {v.id : v \in updates} => open /\ member = "active"
<1>1. MondayInv /\ [MondayNext]_mondayVars => [Right]_mondayVars
  <2> SUFFICES ASSUME MondayInv, MondayNext PROVE Right
    OBVIOUS
  <2>1. ASSUME NEW p \in posts, Commit(p) PROVE Right
    <3>1. open /\ member = "active"
      BY <2>1 DEF Commit, MondayInv, LocksProtect, HoldsSeason, HoldsEnrollment
    <3> QED  BY <3>1
  <2>2. ASSUME NEW d \in deletions, DeleteUpdate(d) PROVE Right
    BY <2>2, DeletedLive DEF MondayInv
  <2>3. CASE updates' = updates
    BY <2>3
  <2> QED
    BY <2>1, <2>2, <2>3
       DEF MondayNext, Submit, PostElsewhere, BeginPost, LockSeason, LockEnrollment, Check, Refuse,
           PostAnswered, PostAnswerLost, RemoveUpdate, BeginDelete, DeleteAnswered, DeleteAnswerLost,
           BeginMark, PutMark, SeasonCloses, SeasonReopens, RemoveStudent, StartLoad, ReadList, ReadFails,
           ShowList, apiVars
<1> QED  BY <1>1, MondayInductive, PTL DEF MondaySpec, PostedByActiveStudent

-----------------------------------------------------------------------------
(* SeasonLists, for any number of rows, keys, changes and requests         *)
(*                                                                         *)
(* That a list shows what was confirmed rests on how it is read: a load    *)
(* that no change has met half way has all rows up to the one its next page*)
(* begins after.  And it rests on the answers: of two requests about one   *)
(* row each is told of the other, so the answer to one that was alone is   *)
(* newer than all that was confirmed of the row before.                    *)

(* What the page has had confirmed of a row, a list of items shows.        *)
Shows(items, id) ==
  confirmed[id] > 0 =>
    /\ \A i \in items : i.id = id => i.at >= confirmed[id]
    /\ Visible(id) => \E i \in items : i.id = id

Items == [id : RowIds, key : Keys, at : Nat, live : BOOLEAN]
Requests == [n : Nat, op : Ops, id : RowIds, key : Keys,
             at : {"asked", "done", "conflict", "missing"}, row : Items, overlap : BOOLEAN]

ListShapes ==
  /\ kind \in {"weeks", "enrollments", "mentorships"}
  /\ rows \in [RowIds -> [key : Keys, at : Nat, state : {"none", "live", "removed", "gone"}]]
  /\ changes \in Nat /\ requests \in Nat /\ raced \in BOOLEAN
  /\ confirmed \in [RowIds -> Nat]
  /\ cached \in [ok : BOOLEAN, items : SUBSET Items]
  /\ fetch \in [at : {"idle", "asked", "read"}, after : RowIds \cup {0}, seen : SUBSET RowIds,
                items : SUBSET Items, first : SUBSET Items, clean : BOOLEAN]
  /\ sent \subseteq Requests

(* The rows are numbered by the changes; what was confirmed happened.      *)
RowsAreNumbered ==
  \A id \in RowIds :
    /\ rows[id].at <= changes /\ confirmed[id] <= rows[id].at
    /\ rows[id].state = "none" => rows[id].at = 0

(* What a request that was served has left in the table.                   *)
ServedIsStored ==
  \A q \in sent : q.at = "done" =>
    /\ 0 < q.row.at /\ q.row.at <= rows[q.row.id].at
    /\ (q.op = "edit" /\ kind = "mentorships") => rows[q.id].state = "gone"
    /\ ~(q.op = "edit" /\ kind = "mentorships") => q.row.id = q.id
    /\ q.op = "end" /\ kind # "enrollments" =>
         rows[q.id].state = "gone" /\ q.row.at = rows[q.id].at

(* Of two requests about one row each knows of the other; the answer to one*)
(* that was alone is news.                                                 *)
AnswersAreNews ==
  /\ \A p, q \in sent : p # q /\ p.id = q.id => p.overlap /\ q.overlap
  /\ \A q \in sent :
       q.at = "done" /\ ~q.overlap /\ q.op \in {"create", "edit"} /\ kind # "mentorships" =>
         confirmed[q.row.id] <= q.row.at

(* A load that nothing has disturbed has read the list up to the row its   *)
(* next page begins after, or all of it.                                   *)
LoadsAreTrue ==
  fetch.clean =>
    /\ fetch.at = "asked" /\ fetch.after = 0 => fetch.items = {} /\ fetch.seen = {}
    /\ fetch.at = "asked" /\ fetch.after # 0 =>
         /\ Visible(fetch.after)
         /\ fetch.items = {t \in Table : ~Before(AsItem(fetch.after), t)}
         /\ \A id \in fetch.seen : Visible(id) /\ ~Before(AsItem(fetch.after), AsItem(id))
    /\ fetch.at = "read" => \A id \in RowIds : Shows(fetch.items, id)

CacheIsTrue == fetch.at = "idle" /\ ~raced => \A id \in RowIds : Shows(cached.items, id)

ListInv ==
  /\ ListShapes /\ RowsAreNumbered /\ ServedIsStored /\ AnswersAreNews /\ LoadsAreTrue /\ CacheIsTrue

(* A set of numbers has a least one, for < is well-founded.                *)
LEMMA LeastExists ==
  ASSUME NEW S \in SUBSET Nat, S # {}
  PROVE  \E x \in S : \A y \in S : x <= y
<1>1. PICK x \in S : \A y \in S : ~(<<y, x>> \in OpToRel(<, Nat))
  BY NatLessThanWellFounded, WFMin
<1>2. \A y \in S : ~(y < x)
  BY <1>1 DEF OpToRel
<1>3. \A y \in S : x <= y
  BY <1>2
<1>4. QED BY <1>3

(* Reading page by page                                                    *)

LEMMA TableIsFinite == IsFiniteSet(Table)
<1> DEFINE ids == {id \in RowIds : Visible(id)}
           f == [id \in ids |-> AsItem(id)]
<1>1. IsFiniteSet(ids)
  BY ListBoundsAssumption, FS_Subset
<1>2. f \in Surjection(ids, Table)
  BY DEF Surjection, Table
<1>3. QED BY <1>1, <1>2, FS_Surjection

LEMMA TableIsKeyed ==
  ASSUME ListShapes
  PROVE  /\ Table \subseteq Items
         /\ \A t \in Table : t.id \in RowIds /\ Visible(t.id) /\ t = AsItem(t.id)
         /\ \A id \in RowIds : Visible(id) => AsItem(id) \in Table /\ AsItem(id).id = id
<1>1. \A id \in RowIds : AsItem(id) \in Items /\ AsItem(id).id = id
  BY DEF AsItem, Items, ListShapes
<1>2. \A t \in Table : \E id \in RowIds : Visible(id) /\ t = AsItem(id)
  BY DEF Table
<1>3. \A id \in RowIds : Visible(id) => AsItem(id) \in Table
  BY DEF Table
<1>4. QED BY <1>1, <1>2, <1>3

(* Before orders the rows of the table.                                    *)
LEMMA BeforeIsAnOrder ==
  ASSUME ListShapes
  PROVE  /\ \A t \in Table : ~Before(t, t)
         /\ \A t, u, v \in Table : Before(t, u) /\ Before(u, v) => Before(t, v)
         /\ \A t, u \in Table : t = u \/ Before(t, u) \/ Before(u, t)
         /\ \A t, u \in Table : ~(Before(t, u) /\ Before(u, t))
<1>1. \A t \in Items : t.id \in Nat /\ t.key \in Nat
  BY ListBoundsAssumption DEF Items
<1>2. \A t, u \in Table : t.id = u.id => t = u
  BY TableIsKeyed
<1>3. \A t \in Table : t.id \in Nat /\ t.key \in Nat
  BY <1>1, TableIsKeyed
<1> USE <1>3
<1>4. \A t \in Table : ~Before(t, t)
  BY DEF Before
<1>5. \A t, u, v \in Table : Before(t, u) /\ Before(u, v) => Before(t, v)
  <2>1. CASE kind = "weeks"
    BY <2>1 DEF Before
  <2>2. CASE kind # "weeks"
    BY <2>2 DEF Before
  <2>3. QED BY <2>1, <2>2
<1>6. \A t, u \in Table : t.id # u.id => Before(t, u) \/ Before(u, t)
  BY DEF Before
<1>7. \A t, u \in Table : ~(Before(t, u) /\ Before(u, t))
  BY <1>4, <1>5
<1>8. QED BY <1>2, <1>4, <1>5, <1>6, <1>7

(* How many rows are before t.                                             *)
Ahead(rest, t) == Cardinality({u \in rest : Before(u, t)})

LEMMA LaterIsFurther ==
  ASSUME ListShapes, NEW rest \in SUBSET Table, NEW t \in rest, NEW u \in rest, Before(t, u)
  PROVE  Ahead(rest, t) \in Nat /\ Ahead(rest, u) \in Nat /\ Ahead(rest, t) < Ahead(rest, u)
<1> DEFINE T == {v \in rest : Before(v, t)}
           U == {v \in rest : Before(v, u)}
<1>1. IsFiniteSet(T) /\ IsFiniteSet(U)
  <2>1. T \in SUBSET Table /\ U \in SUBSET Table
    OBVIOUS
  <2>2. QED BY <2>1, TableIsFinite, FS_Subset
<1>2. T \cup {t} \in SUBSET U /\ t \notin T
  BY BeforeIsAnOrder
<1>3. Cardinality(T) \in Nat /\ Cardinality(U) \in Nat
  BY <1>1, FS_CardinalityType
<1>4. Cardinality(T \cup {t}) = Cardinality(T) + 1
  BY <1>1, <1>2, FS_AddElement
<1>5. Cardinality(T \cup {t}) <= Cardinality(U)
  BY <1>1, <1>2, FS_Subset
<1>6. QED BY <1>3, <1>4, <1>5 DEF Ahead

LEMMA AheadIsNat ==
  ASSUME ListShapes, NEW rest \in SUBSET Table, NEW t \in rest
  PROVE  Ahead(rest, t) \in Nat
<1>1. {u \in rest : Before(u, t)} \in SUBSET Table
  OBVIOUS
<1>2. IsFiniteSet({u \in rest : Before(u, t)})
  BY <1>1, TableIsFinite, FS_Subset
<1>3. QED BY <1>2, FS_CardinalityType DEF Ahead

(* A page is the beginning of what there is to read; when that is more, the*)
(* page has a last row.                                                    *)
LEMMA PagesAreBeginnings ==
  ASSUME ListShapes, NEW rest \in SUBSET Table
  PROVE  /\ PageOf(rest) \subseteq rest
         /\ \A t \in rest, u \in PageOf(rest) : Before(t, u) => t \in PageOf(rest)
         /\ PageOf(rest) # rest =>
              /\ LastOf(PageOf(rest)) \in PageOf(rest)
              /\ \A u \in PageOf(rest) : u = LastOf(PageOf(rest)) \/ Before(u, LastOf(PageOf(rest)))
<1> DEFINE page == PageOf(rest)
<1>1. page = {t \in rest : Ahead(rest, t) < PageLimit}
  BY DEF PageOf, Ahead
<1>2. PageLimit \in Nat /\ PageLimit > 0
  BY ListBoundsAssumption
<1> HIDE DEF page
<1>3. ASSUME NEW t \in rest, NEW u \in page, Before(t, u) PROVE t \in page
  BY <1>1, <1>2, <1>3, LaterIsFurther
<1>4. ASSUME page # rest PROVE page # {}
  <2> DEFINE N == {Ahead(rest, t) : t \in rest}
  <2>1. N \in SUBSET Nat /\ N # {}
    BY <1>1, <1>4, AheadIsNat
  <2>2. PICK n \in N : \A m \in N : n <= m
    BY <2>1, LeastExists
  <2>3. PICK t \in rest : n = Ahead(rest, t)
    BY <2>2
  <2>4. ASSUME NEW u \in rest, Before(u, t) PROVE FALSE
    <3>1. Ahead(rest, u) \in N
      OBVIOUS
    <3> HIDE DEF N
    <3>2. QED BY <2>2, <2>3, <2>4, <3>1, LaterIsFurther
  <2>5. {u \in rest : Before(u, t)} = {}
    BY <2>4
  <2>6. Ahead(rest, t) = 0
    BY <2>5, FS_EmptySet DEF Ahead
  <2>7. QED BY <1>1, <1>2, <2>6
<1>5. ASSUME page # {} PROVE \E t \in page : \A u \in page : u = t \/ Before(u, t)
  <2> DEFINE N == {PageLimit - Ahead(rest, t) : t \in page}
  <2>1. \A t \in page : t \in rest /\ Ahead(rest, t) \in Nat /\ Ahead(rest, t) < PageLimit
    BY <1>1, AheadIsNat
  <2>2. N \in SUBSET Nat /\ N # {}
    BY <1>2, <1>5, <2>1
  <2>3. PICK n \in N : \A m \in N : n <= m
    BY <2>2, LeastExists
  <2>4. PICK t \in page : n = PageLimit - Ahead(rest, t)
    BY <2>3
  <2>5. ASSUME NEW u \in page, Before(t, u) PROVE FALSE
    <3>1. PageLimit - Ahead(rest, u) \in N
      OBVIOUS
    <3> HIDE DEF N
    <3>2. Ahead(rest, t) < Ahead(rest, u)
      BY <2>1, <2>5, LaterIsFurther
    <3>3. PageLimit - Ahead(rest, t) <= PageLimit - Ahead(rest, u)
      BY <2>3, <2>4, <3>1
    <3>4. QED BY <1>2, <2>1, <3>2, <3>3
  <2>6. \A u \in page : u \in Table
    BY <2>1
  <2>7. QED BY <2>5, <2>6, BeforeIsAnOrder
<1>6. ASSUME page # rest
      PROVE  LastOf(page) \in page /\ \A u \in page : u = LastOf(page) \/ Before(u, LastOf(page))
  BY <1>4, <1>5, <1>6 DEF LastOf
<1>7. QED BY <1>1, <1>3, <1>6 DEF page

(* The rows read before a page, and the page, are the rows up to its last. *)
LEMMA LoadsGoOn ==
  ASSUME ListInv, FetchPage, fetch.clean
  PROVE  LoadsAreTrue'
<1>1. /\ ListShapes /\ RowsAreNumbered /\ LoadsAreTrue
      /\ fetch.at = "asked"
      /\ UNCHANGED <<kind, rows, changes, confirmed>>
  BY DEF ListInv, FetchPage
<1> DEFINE page == PageOf(Rest)
           last == LastOf(page)
<1>2. /\ page # Rest /\ last.id \notin fetch.seen =>
           fetch' = [fetch EXCEPT !.items = @ \cup page, !.after = last.id, !.seen = @ \cup {last.id}]
      /\ ~(page # Rest /\ last.id \notin fetch.seen) =>
           fetch' = [fetch EXCEPT !.items = @ \cup page, !.at = "read"]
  BY DEF FetchPage
<1>3. Rest \in SUBSET Table
  BY DEF Rest
<1>4. /\ page \subseteq Rest
      /\ \A t \in Rest, u \in page : Before(t, u) => t \in page
      /\ page # Rest => last \in page /\ \A u \in page : u = last \/ Before(u, last)
  BY <1>1, <1>3, PagesAreBeginnings
<1> HIDE DEF page, last
<1>5. /\ fetch.items \subseteq Table
      /\ \A t \in fetch.items, u \in Rest : Before(t, u)
      /\ \A id \in fetch.seen : Visible(id) /\ AsItem(id) \in fetch.items
      /\ fetch.items \cup Rest = Table
  <2>1. CASE fetch.after = 0
    <3>1. fetch.items = {} /\ fetch.seen = {} /\ Rest = Table
      BY <1>1, <2>1 DEF LoadsAreTrue, Rest
    <3>2. QED BY <3>1
  <2>2. CASE fetch.after # 0
    <3> DEFINE a == AsItem(fetch.after)
    <3>1. /\ Visible(fetch.after) /\ fetch.after \in RowIds
          /\ fetch.items = {t \in Table : ~Before(a, t)}
          /\ Rest = {t \in Table : Before(a, t)}
          /\ \A id \in fetch.seen : id \in RowIds /\ Visible(id) /\ ~Before(a, AsItem(id))
      BY <1>1, <2>2 DEF LoadsAreTrue, Rest, ListShapes
    <3>2. a \in Table
      BY <1>1, <3>1, TableIsKeyed
    <3> HIDE DEF a
    <3>3. \A t \in fetch.items, u \in Rest : Before(t, u)
      BY <1>1, <3>1, <3>2, BeforeIsAnOrder
    <3>4. \A id \in fetch.seen : AsItem(id) \in fetch.items
      BY <1>1, <3>1, TableIsKeyed
    <3>5. QED BY <3>1, <3>3, <3>4
  <2>3. QED BY <2>1, <2>2
<1>6. Table' = Table /\ \A id : AsItem(id)' = AsItem(id) /\ Visible(id)' = Visible(id)
  BY <1>1 DEF Table, AsItem, Visible
<1>7. CASE page # Rest /\ last.id \notin fetch.seen
  <2>1. last \in Rest /\ last \in Table /\ last = AsItem(last.id) /\ Visible(last.id) /\ last.id \in RowIds
    BY <1>1, <1>3, <1>4, <1>7, TableIsKeyed
  <2>2. /\ fetch'.at = "asked" /\ fetch'.after = last.id /\ last.id # 0
        /\ fetch'.items = fetch.items \cup page /\ fetch'.seen = fetch.seen \cup {last.id}
    BY <1>1, <1>2, <1>7, <2>1, ListBoundsAssumption DEF ListShapes
  <2>3. fetch.items \cup page = {t \in Table : ~Before(last, t)}
    <3>1. \A t \in fetch.items \cup page : t \in Table /\ ~Before(last, t)
      BY <1>1, <1>3, <1>4, <1>5, <1>7, <2>1, BeforeIsAnOrder
    <3>2. ASSUME NEW t \in Table, ~Before(last, t), t \notin fetch.items PROVE t \in page
      BY <1>1, <1>4, <1>5, <1>7, <2>1, <3>2, BeforeIsAnOrder
    <3>3. QED BY <3>1, <3>2
  <2>4. \A id \in fetch.seen \cup {last.id} : Visible(id) /\ ~Before(last, AsItem(id))
    BY <1>1, <1>5, <2>1, BeforeIsAnOrder
  <2>5. /\ Visible(fetch.after)'
        /\ (fetch.items = {t \in Table : ~Before(AsItem(fetch.after), t)})'
        /\ (\A id \in fetch.seen : Visible(id) /\ ~Before(AsItem(fetch.after), AsItem(id)))'
    <3>1. rows' = rows /\ kind' = kind /\ fetch.after' = last.id /\ last = AsItem(last.id)
      BY <1>1, <2>1, <2>2
    <3>2. (fetch.items = {t \in Table : ~Before(AsItem(fetch.after), t)})'
      BY <1>6, <2>2, <2>3, <3>1 DEF Before, AsItem
    <3>3. (\A id \in fetch.seen : Visible(id) /\ ~Before(AsItem(fetch.after), AsItem(id)))'
      BY <2>2, <2>4, <3>1 DEF Visible, Before, AsItem
    <3>4. Visible(fetch.after)'
      BY <2>1, <3>1 DEF Visible
    <3>5. QED BY <3>2, <3>3, <3>4
  <2>6. QED BY <2>2, <2>5 DEF LoadsAreTrue
<1>8. CASE page = Rest
  <2>1. fetch'.at = "read" /\ fetch'.items = Table
    BY <1>1, <1>2, <1>5, <1>8 DEF ListShapes
  <2>2. ASSUME NEW id \in RowIds PROVE Shows(Table, id)
    <3>1. confirmed[id] \in Nat /\ rows[id].at \in Nat /\ confirmed[id] <= rows[id].at
      BY <1>1 DEF ListShapes, RowsAreNumbered
    <3>2. \A i \in Table : i.id = id => i.at = rows[id].at
      BY <1>1, TableIsKeyed DEF AsItem
    <3>3. Visible(id) => \E i \in Table : i.id = id
      BY <1>1, TableIsKeyed
    <3>4. QED BY <3>1, <3>2, <3>3 DEF Shows
  <2>3. \A id \in RowIds : Shows(fetch.items, id)'
    BY <1>1, <2>1, <2>2 DEF Shows, Visible
  <2>4. QED BY <2>1, <2>3 DEF LoadsAreTrue
<1>9. CASE page # Rest /\ last.id \in fetch.seen
  <2>1. last \in Rest /\ last = AsItem(last.id)
    BY <1>1, <1>3, <1>4, <1>9, TableIsKeyed
  <2>2. Before(last, last)
    BY <1>5, <1>9, <2>1
  <2>3. QED BY <1>1, <1>3, <2>1, <2>2, BeforeIsAnOrder
<1>10. QED BY <1>7, <1>8, <1>9

(* What was confirmed is shown                                             *)

Rows == [RowIds -> [key : Keys, at : Nat, state : {"none", "live", "removed", "gone"}]]

(* What a change leaves of the table: a row that is gone stays as it is.   *)
LEMMA ChangesOfRows ==
  ASSUME ListShapes, RowsAreNumbered, NEW op \in Ops, NEW id \in RowIds, NEW new \in RowIds,
         NEW key \in Keys, op = "create" => id = new, Change(op, id, key, new)
  PROVE  /\ changes' = changes + 1 /\ rows' \in Rows
         /\ \A x \in RowIds :
              /\ rows[x].at <= rows'[x].at /\ rows'[x].at <= changes'
              /\ rows'[x].state = "none" => rows'[x].at = 0
              /\ rows[x].state = "gone" => rows'[x] = rows[x]
              /\ rows'[x].state \in {"live", "removed"} => Visible(x) \/ rows[x].at = 0
         /\ rows'[new].at = changes + 1
         /\ op = "edit" /\ kind = "mentorships" => rows'[id].state = "gone"
         /\ ~(op = "edit" /\ kind = "mentorships") => new = id
         /\ op = "end" /\ kind # "enrollments" => rows'[id].state = "gone"
<1>1. rows \in Rows /\ changes \in Nat /\ Done(op, id, key, new) /\ changes' = changes + 1
  BY DEF ListShapes, Rows, Change
<1>2. \A x \in RowIds : rows[x].at \in Nat /\ rows[x].at <= changes /\ (rows[x].state = "none" => rows[x].at = 0)
  BY <1>1 DEF RowsAreNumbered, Rows
<1> DEFINE Goal == /\ rows' \in Rows
                   /\ \A x \in RowIds :
                        /\ rows[x].at <= rows'[x].at /\ rows'[x].at <= changes'
                        /\ rows'[x].state = "none" => rows'[x].at = 0
                        /\ rows[x].state = "gone" => rows'[x] = rows[x]
                        /\ rows'[x].state \in {"live", "removed"} => Visible(x) \/ rows[x].at = 0
                   /\ rows'[new].at = changes + 1
<1>3. ASSUME NEW k \in Keys, NEW s \in {"live", "removed", "gone"},
             rows' = Put(new, k, s), rows[new].state # "gone"
      PROVE  Goal
  <2>1. \A x \in RowIds : rows'[x] = IF x = new THEN [key |-> k, at |-> changes + 1, state |-> s] ELSE rows[x]
    BY <1>1, <1>3 DEF Put, Rows
  <2>2. rows' \in Rows
    BY <1>1, <1>3 DEF Put, Rows
  <2>3. Visible(new) \/ rows[new].at = 0
    BY <1>1, <1>2, <1>3 DEF Visible, Rows
  <2>4. QED BY <1>1, <1>2, <1>3, <2>1, <2>2, <2>3 DEF Visible
<1>4. CASE op = "create"
  <2>1. rows[new].state = "none" /\ rows' = Put(new, key, "live")
    BY <1>1, <1>4 DEF Done
  <2>2. Goal
    BY <1>3, <2>1
  <2>3. QED BY <1>1, <1>4, <2>2
<1>5. CASE op = "edit" /\ kind # "mentorships"
  <2>1. rows[id].state = "live" /\ new = id /\ rows' = Put(new, key, "live")
    BY <1>1, <1>5 DEF Done
  <2>2. Goal
    BY <1>3, <2>1
  <2>3. QED BY <1>1, <1>5, <2>1, <2>2
<1>6. CASE op = "edit" /\ kind = "mentorships"
  <2>1. /\ rows[id].state = "live" /\ rows[new].state = "none"
        /\ rows' = [Put(new, key, "live") EXCEPT ![id].state = "gone"]
    BY <1>1, <1>6 DEF Done
  <2>2. \A x \in RowIds : rows'[x] =
          IF x = id THEN [rows[x] EXCEPT !.state = "gone"]
          ELSE IF x = new THEN [key |-> key, at |-> changes + 1, state |-> "live"] ELSE rows[x]
    BY <1>1, <2>1 DEF Put, Rows
  <2>3. rows' \in Rows
    <3>1. DOMAIN rows' = RowIds /\ rows' = [x \in RowIds |-> rows'[x]]
      BY <1>1, <2>1 DEF Put, Rows
    <3>2. ASSUME NEW x \in RowIds
          PROVE  rows'[x] \in [key : Keys, at : Nat, state : {"none", "live", "removed", "gone"}]
      <4>1. rows[x] \in [key : Keys, at : Nat, state : {"none", "live", "removed", "gone"}]
        BY <1>1 DEF Rows
      <4>2. [rows[x] EXCEPT !.state = "gone"] \in [key : Keys, at : Nat, state : {"none", "live", "removed", "gone"}]
        BY <4>1
      <4>3. [key |-> key, at |-> changes + 1, state |-> "live"]
              \in [key : Keys, at : Nat, state : {"none", "live", "removed", "gone"}]
        BY <1>1
      <4>4. QED BY <2>2, <4>1, <4>2, <4>3
    <3>3. QED BY <3>1, <3>2 DEF Rows
  <2>4. rows'[id].state = "gone" /\ rows'[id].at = rows[id].at
    BY <1>1, <2>2 DEF Rows
  <2>5. Goal
    <3>1. rows'[new] = [key |-> key, at |-> changes + 1, state |-> "live"]
      BY <2>1, <2>2
    <3>2. ASSUME NEW x \in RowIds
          PROVE  /\ rows[x].at <= rows'[x].at /\ rows'[x].at <= changes'
                 /\ rows'[x].state = "none" => rows'[x].at = 0
                 /\ rows[x].state = "gone" => rows'[x] = rows[x]
                 /\ rows'[x].state \in {"live", "removed"} => Visible(x) \/ rows[x].at = 0
      <4>1. CASE x = id
        BY <4>1, <1>1, <1>2, <2>1, <2>4
      <4>2. CASE x = new
        BY <4>2, <1>1, <1>2, <2>1, <3>1
      <4>3. CASE x # id /\ x # new
        <5>1. rows'[x] = rows[x] /\ rows[x].at \in Nat
          BY <4>3, <1>2, <2>2
        <5>2. rows[x].at <= changes /\ (rows[x].state = "none" => rows[x].at = 0)
          BY <1>2
        <5>3. rows[x].at <= rows[x].at /\ rows[x].at <= changes + 1
          BY <1>1, <5>1, <5>2
        <5>4. QED BY <1>1, <5>1, <5>2, <5>3 DEF Visible
      <4>4. QED BY <4>1, <4>2, <4>3
    <3>3. rows'[new].at = changes + 1
      BY <3>1
    <3>4. QED BY <2>3, <3>2, <3>3
  <2>6. QED BY <1>1, <1>6, <2>4, <2>5
<1>7. CASE op = "end"
  <2>1. rows[id].state = "live" /\ new = id /\ rows' = Put(new, rows[new].key, EndState)
    BY <1>1, <1>7 DEF Done
  <2>2. Goal
    <3>1. rows[new].key \in Keys /\ EndState \in {"live", "removed", "gone"}
      BY <1>1 DEF Rows, EndState
    <3>2. QED BY <1>3, <2>1, <3>1
  <2>3. rows'[id] = [key |-> rows[id].key, at |-> changes + 1, state |-> EndState]
    BY <1>1, <2>1 DEF Put, Rows
  <2>4. kind # "enrollments" => rows'[id].state = "gone"
    BY <2>3 DEF EndState
  <2>5. QED BY <1>1, <1>7, <2>1, <2>2, <2>4
<1>8. CASE op = "move"
  <2>1. /\ Visible(id) /\ new = id
        /\ rows' = Put(new, rows[new].key, "gone") \/ rows' = Put(new, key, rows[new].state)
    BY <1>1, <1>8 DEF Done
  <2>2. rows[new].key \in Keys /\ rows[new].state \in {"live", "removed"}
    BY <1>1, <2>1 DEF Rows, Visible
  <2>3. Goal
    BY <1>3, <2>1, <2>2
  <2>4. QED BY <1>1, <1>8, <2>1, <2>3
<1>9. QED BY <1>4, <1>5, <1>6, <1>7, <1>8 DEF Ops

(* A change leaves the numbers, the loads and the cached list in order.    *)
LEMMA ChangesKeepLists ==
  ASSUME ListInv, NEW op \in Ops, NEW id \in RowIds, NEW new \in RowIds,
         NEW key \in Keys, op = "create" => id = new, Change(op, id, key, new),
         UNCHANGED <<kind, cached, requests, confirmed, raced>>, sent' \subseteq Requests
  PROVE  ListShapes' /\ RowsAreNumbered' /\ LoadsAreTrue' /\ CacheIsTrue'
<1>1. ListShapes /\ RowsAreNumbered /\ LoadsAreTrue /\ CacheIsTrue
  BY DEF ListInv
<1>2. /\ changes' = changes + 1 /\ rows' \in Rows
      /\ \A x \in RowIds :
           /\ rows[x].at <= rows'[x].at /\ rows'[x].at <= changes'
           /\ rows'[x].state = "none" => rows'[x].at = 0
           /\ rows'[x].state \in {"live", "removed"} => Visible(x) \/ rows[x].at = 0
  BY <1>1, ChangesOfRows
<1>3. fetch' = [fetch EXCEPT !.clean = @ /\ ~Disturbed]
  BY DEF Change
<1>4. /\ fetch'.at = fetch.at /\ fetch'.after = fetch.after /\ fetch'.items = fetch.items
      /\ fetch'.seen = fetch.seen /\ (fetch'.clean => fetch.clean /\ ~Disturbed)
      /\ fetch' \in [at : {"idle", "asked", "read"}, after : RowIds \cup {0}, seen : SUBSET RowIds,
                     items : SUBSET Items, first : SUBSET Items, clean : BOOLEAN]
  BY <1>1, <1>3 DEF ListShapes
<1>5. ListShapes'
  BY <1>1, <1>2, <1>4 DEF ListShapes, Rows, Items
<1>6. RowsAreNumbered'
  <2>1. ASSUME NEW x \in RowIds PROVE confirmed'[x] <= rows'[x].at
    <3>1. confirmed[x] \in Nat /\ rows[x].at \in Nat /\ rows'[x].at \in Nat /\ confirmed[x] <= rows[x].at
      BY <1>1, <1>2 DEF ListShapes, RowsAreNumbered, Rows
    <3>2. QED BY <1>2, <3>1
  <2>2. QED BY <1>2, <2>1 DEF RowsAreNumbered
<1>7. ASSUME NEW items, NEW x \in RowIds, Shows(items, x)
      PROVE  confirmed[x] > 0 => /\ \A i \in items : i.id = x => i.at >= confirmed[x]
                                 /\ Visible(x)' => \E i \in items : i.id = x
  <2>1. confirmed[x] > 0 => rows[x].at # 0
    BY <1>1 DEF RowsAreNumbered, ListShapes
  <2>2. QED BY <1>2, <1>7, <2>1 DEF Shows, Visible
<1>8. CacheIsTrue'
  <2>1. ASSUME fetch'.at = "idle", ~raced', NEW x \in RowIds PROVE Shows(cached.items, x)'
    <3>1. Shows(cached.items, x)
      BY <1>1, <1>4, <2>1 DEF CacheIsTrue
    <3>2. QED BY <1>7, <3>1 DEF Shows, Visible
  <2>2. QED BY <2>1 DEF CacheIsTrue
<1>9. LoadsAreTrue'
  <2>1. ASSUME fetch'.clean, fetch'.at = "read", NEW x \in RowIds PROVE Shows(fetch.items, x)'
    <3>1. Shows(fetch.items, x)
      BY <1>1, <1>4, <2>1 DEF LoadsAreTrue
    <3>2. QED BY <1>4, <1>7, <3>1 DEF Shows, Visible
  <2>2. ASSUME fetch'.clean, fetch'.at = "asked"
        PROVE  fetch'.after = 0 /\ fetch'.items = {} /\ fetch'.seen = {}
    BY <1>1, <1>4, <2>2 DEF LoadsAreTrue, Disturbed
  <2>3. QED BY <2>1, <2>2 DEF LoadsAreTrue
<1>10. QED BY <1>5, <1>6, <1>8, <1>9

(* What was served stays in the table while the table changes.             *)
LEMMA ServedStays ==
  ASSUME ListShapes, ServedIsStored, kind' = kind,
         \A x \in RowIds : /\ rows[x].at <= rows'[x].at /\ rows[x].at \in Nat /\ rows'[x].at \in Nat
                           /\ rows[x].state = "gone" => rows'[x] = rows[x],
         NEW q \in sent, q.at = "done"
  PROVE  /\ 0 < q.row.at /\ q.row.at <= rows'[q.row.id].at
         /\ (q.op = "edit" /\ kind' = "mentorships") => rows'[q.id].state = "gone"
         /\ ~(q.op = "edit" /\ kind' = "mentorships") => q.row.id = q.id
         /\ q.op = "end" /\ kind' # "enrollments" =>
              rows'[q.id].state = "gone" /\ q.row.at = rows'[q.id].at
<1>1. q \in Requests /\ q.id \in RowIds /\ q.row.id \in RowIds /\ q.row.at \in Nat
  BY DEF ListShapes, Requests, Items
<1>2. /\ 0 < q.row.at /\ q.row.at <= rows[q.row.id].at
      /\ (q.op = "edit" /\ kind = "mentorships") => rows[q.id].state = "gone"
      /\ ~(q.op = "edit" /\ kind = "mentorships") => q.row.id = q.id
      /\ q.op = "end" /\ kind # "enrollments" =>
           rows[q.id].state = "gone" /\ q.row.at = rows[q.id].at
  BY DEF ServedIsStored
<1>3. q.row.at <= rows'[q.row.id].at
  BY <1>1, <1>2
<1>4. rows[q.id].state = "gone" => rows'[q.id].state = "gone" /\ rows'[q.id].at = rows[q.id].at
  BY <1>1
<1>5. QED BY <1>2, <1>3, <1>4

LEMMA ChangedElsewhereKeepsInv ==
  ASSUME ListInv, NEW op \in Ops, NEW id \in RowIds, NEW new \in RowIds, NEW key \in Keys,
         op = "create" => id = new, ChangedElsewhere(op, id, key, new)
  PROVE  ListInv'
<1>1. /\ ListShapes /\ RowsAreNumbered /\ ServedIsStored /\ AnswersAreNews
      /\ Change(op, id, key, new)
      /\ UNCHANGED <<kind, cached, fetches, requests, sent, confirmed, raced>>
  BY DEF ListInv, ChangedElsewhere
<1>2. ListShapes' /\ RowsAreNumbered' /\ LoadsAreTrue' /\ CacheIsTrue'
  BY <1>1, ChangesKeepLists DEF ListShapes
<1>3. \A x \in RowIds : /\ rows[x].at <= rows'[x].at /\ rows[x].at \in Nat /\ rows'[x].at \in Nat
                        /\ rows[x].state = "gone" => rows'[x] = rows[x]
  BY <1>1, <1>2, ChangesOfRows DEF ListShapes
<1>4. ServedIsStored'
  BY <1>1, <1>3, ServedStays DEF ServedIsStored
<1>5. AnswersAreNews'
  BY <1>1 DEF AnswersAreNews
<1>6. QED BY <1>2, <1>4, <1>5 DEF ListInv

LEMMA ServeKeepsInv ==
  ASSUME ListInv, NEW q \in sent, NEW new \in RowIds, q.op = "create" => new = q.id, Serve(q, new)
  PROVE  ListInv'
<1>1. /\ ListShapes /\ RowsAreNumbered /\ ServedIsStored /\ AnswersAreNews
      /\ Change(q.op, q.id, q.key, new) /\ q.at = "asked"
      /\ UNCHANGED <<kind, cached, fetches, requests, confirmed, raced>>
  BY DEF ListInv, Serve
<1>2. q \in Requests /\ q.op \in Ops /\ q.id \in RowIds /\ q.key \in Keys
  BY <1>1 DEF ListShapes, Requests
<1>3. /\ changes' = changes + 1 /\ rows' \in Rows
      /\ \A x \in RowIds :
           /\ rows[x].at <= rows'[x].at /\ rows'[x].at <= changes'
           /\ rows[x].state = "gone" => rows'[x] = rows[x]
      /\ rows'[new].at = changes + 1
      /\ q.op = "edit" /\ kind = "mentorships" => rows'[q.id].state = "gone"
      /\ ~(q.op = "edit" /\ kind = "mentorships") => new = q.id
      /\ q.op = "end" /\ kind # "enrollments" => rows'[q.id].state = "gone"
  BY <1>1, <1>2, ChangesOfRows
<1>4. PICK row : row = AsItem(new)'
  OBVIOUS
<1>5. row.id = new /\ row.at = changes + 1 /\ row \in Items
  BY <1>3, <1>4 DEF AsItem, Items, Rows
<1> DEFINE p == [q EXCEPT !.at = "done", !.row = row]
<1>6. sent' = (sent \ {q}) \cup {p}
  BY <1>4 DEF Serve, Answers
<1>7. /\ p \in Requests /\ p.at = "done" /\ p.row = row
      /\ p.id = q.id /\ p.op = q.op /\ p.overlap = q.overlap
  BY <1>2, <1>5 DEF Requests
<1> HIDE DEF p
<1>8. sent' \subseteq Requests
  BY <1>1, <1>6, <1>7 DEF ListShapes
<1>9. ListShapes' /\ RowsAreNumbered' /\ LoadsAreTrue' /\ CacheIsTrue'
  BY <1>1, <1>2, <1>8, ChangesKeepLists
<1>10. \A x \in RowIds : /\ rows[x].at <= rows'[x].at /\ rows[x].at \in Nat /\ rows'[x].at \in Nat
                         /\ rows[x].state = "gone" => rows'[x] = rows[x]
  BY <1>1, <1>3, <1>9 DEF ListShapes
<1>11. ServedIsStored'
  <2>1. ASSUME NEW s \in sent', s.at = "done"
        PROVE  /\ 0 < s.row.at /\ s.row.at <= rows'[s.row.id].at
               /\ (s.op = "edit" /\ kind' = "mentorships") => rows'[s.id].state = "gone"
               /\ ~(s.op = "edit" /\ kind' = "mentorships") => s.row.id = s.id
               /\ s.op = "end" /\ kind' # "enrollments" =>
                    rows'[s.id].state = "gone" /\ s.row.at = rows'[s.id].at
    <3>1. CASE s = p
      <4>1. changes \in Nat
        BY <1>1 DEF ListShapes
      <4>2. QED BY <3>1, <4>1, <1>1, <1>3, <1>5, <1>7 DEF Ops
    <3>2. CASE s \in sent
      BY <3>2, <2>1, <1>1, <1>10, ServedStays
    <3>3. QED BY <1>6, <2>1, <3>1, <3>2
  <2>2. QED BY <2>1 DEF ServedIsStored
<1>12. AnswersAreNews'
  <2>1. \A s, t \in sent' : s # t /\ s.id = t.id => s.overlap /\ t.overlap
    BY <1>1, <1>6, <1>7 DEF AnswersAreNews
  <2>2. confirmed[row.id] <= row.at
    <3>1. confirmed[new] \in Nat /\ rows[new].at \in Nat /\ changes \in Nat
          /\ confirmed[new] <= rows[new].at /\ rows[new].at <= changes
      BY <1>1 DEF RowsAreNumbered, ListShapes
    <3>2. QED BY <1>5, <3>1
  <2>3. QED BY <1>1, <1>6, <1>7, <2>1, <2>2 DEF AnswersAreNews
<1>13. QED BY <1>9, <1>11, <1>12 DEF ListInv

(* Where the table, what was confirmed and the requests stay, or only grow *)
(* fewer, only the load and the cached list are at stake.                  *)
LEMMA OnlyListsChange ==
  ASSUME ListInv, sent' \subseteq sent,
         UNCHANGED <<kind, rows, changes, requests, confirmed>>,
         ListShapes', LoadsAreTrue', CacheIsTrue'
  PROVE  ListInv'
<1>1. RowsAreNumbered'
  BY DEF ListInv, RowsAreNumbered
<1>2. ServedIsStored'
  BY DEF ListInv, ServedIsStored
<1>3. AnswersAreNews'
  BY DEF ListInv, AnswersAreNews
<1>4. QED BY <1>1, <1>2, <1>3 DEF ListInv

(* A load that begins has read nothing.                                    *)
LEMMA NewLoadsAreTrue ==
  ASSUME ListShapes
  PROVE  /\ NewFetch \in [at : {"idle", "asked", "read"}, after : RowIds \cup {0}, seen : SUBSET RowIds,
                          items : SUBSET Items, first : SUBSET Items, clean : BOOLEAN]
         /\ fetch' = NewFetch => LoadsAreTrue' /\ fetch'.at = "asked"
<1>1. Table \subseteq Items
  BY TableIsKeyed
<1>2. NewFetch = [at |-> "asked", after |-> 0, seen |-> {}, items |-> {}, first |-> Table, clean |-> TRUE]
  <2>1. PICK table : table = Table
    OBVIOUS
  <2>2. NewFetch = [NoFetch EXCEPT !.at = "asked", !.first = table]
    BY <2>1 DEF NewFetch
  <2>3. QED BY <2>1, <2>2 DEF NoFetch
<1>3. fetch' = NewFetch => LoadsAreTrue' /\ fetch'.at = "asked"
  BY <1>2 DEF LoadsAreTrue
<1>4. QED BY <1>1, <1>2, <1>3

LEMMA LoadStepsKeepInv ==
  ASSUME ListInv, FetchPage \/ ShowFetch \/ FetchFails \/ Refetch
  PROVE  ListInv'
<1>1. ListShapes /\ LoadsAreTrue /\ CacheIsTrue
  BY DEF ListInv
<1>2. CASE FetchPage
  <2>1. /\ fetch'.clean = fetch.clean /\ fetch.at = "asked" /\ fetch'.at \in {"asked", "read"}
        /\ UNCHANGED <<kind, rows, changes, cached, requests, sent, confirmed, raced>>
    BY <1>1, <1>2 DEF FetchPage, ListShapes
  <2>2. ListShapes'
    <3>1. Rest \in SUBSET Table /\ Table \subseteq Items
      BY <1>1, TableIsKeyed DEF Rest
    <3>2. PageOf(Rest) \subseteq Rest
          /\ (PageOf(Rest) # Rest => LastOf(PageOf(Rest)) \in PageOf(Rest))
      BY <1>1, <3>1, PagesAreBeginnings
    <3>3. PageOf(Rest) # Rest => LastOf(PageOf(Rest)).id \in RowIds
      BY <3>1, <3>2 DEF Items
    <3> DEFINE Fetches == [at : {"idle", "asked", "read"}, after : RowIds \cup {0}, seen : SUBSET RowIds,
                           items : SUBSET Items, first : SUBSET Items, clean : BOOLEAN]
    <3>4. fetch \in Fetches /\ fetch.items \cup PageOf(Rest) \in SUBSET Items
      BY <1>1, <3>1, <3>2 DEF ListShapes
    <3>5. \/ /\ PageOf(Rest) # Rest
             /\ fetch' = [fetch EXCEPT !.items = @ \cup PageOf(Rest), !.after = LastOf(PageOf(Rest)).id,
                                       !.seen = @ \cup {LastOf(PageOf(Rest)).id}]
          \/ fetch' = [fetch EXCEPT !.items = @ \cup PageOf(Rest), !.at = "read"]
      BY <1>2 DEF FetchPage
    <3>6. fetch' \in Fetches
      <4>1. PICK items \in SUBSET Items : items = fetch.items \cup PageOf(Rest)
        BY <3>4
      <4>2. CASE fetch' = [fetch EXCEPT !.items = @ \cup PageOf(Rest), !.at = "read"]
        <5>1. fetch' = [fetch EXCEPT !.items = items, !.at = "read"]
          BY <4>1, <4>2
        <5>2. QED BY <3>4, <5>1
      <4>3. ASSUME NEW id \in RowIds,
                   fetch' = [fetch EXCEPT !.items = @ \cup PageOf(Rest), !.after = id, !.seen = @ \cup {id}]
            PROVE  fetch' \in Fetches
        <5>1. fetch' = [fetch EXCEPT !.items = items, !.after = id, !.seen = fetch.seen \cup {id}]
          BY <4>1, <4>3
        <5>2. fetch.seen \cup {id} \in SUBSET RowIds
          BY <3>4
        <5>3. QED BY <3>4, <5>1, <5>2
      <4>4. QED BY <3>3, <3>5, <4>2, <4>3
    <3>7. QED BY <1>1, <2>1, <3>6 DEF ListShapes, Items
  <2>3. LoadsAreTrue'
    <3>1. CASE fetch.clean
      BY <1>2, <3>1, LoadsGoOn
    <3>2. CASE ~fetch.clean
      BY <2>1, <3>2 DEF LoadsAreTrue
    <3>3. QED BY <3>1, <3>2
  <2>4. CacheIsTrue'
    BY <2>1 DEF CacheIsTrue
  <2>5. QED BY <2>1, <2>2, <2>3, <2>4, OnlyListsChange
<1>3. CASE ShowFetch
  <2>1. /\ fetch.at = "read" /\ cached' = [ok |-> TRUE, items |-> fetch.items] /\ raced' = ~fetch.clean
        /\ fetch' = NoFetch
        /\ UNCHANGED <<kind, rows, changes, requests, sent, confirmed>>
    BY <1>3 DEF ShowFetch
  <2>2. ListShapes'
    BY <1>1, <2>1 DEF ListShapes, NoFetch, Items
  <2>3. LoadsAreTrue'
    BY <2>1 DEF LoadsAreTrue, NoFetch
  <2>4. CacheIsTrue'
    <3>1. ASSUME ~raced', NEW x \in RowIds PROVE Shows(cached.items, x)'
      <4>1. Shows(fetch.items, x)
        BY <1>1, <2>1, <3>1 DEF LoadsAreTrue, ListShapes
      <4>2. QED BY <2>1, <4>1 DEF Shows, Visible
    <3>2. QED BY <3>1 DEF CacheIsTrue
  <2>5. QED BY <2>1, <2>2, <2>3, <2>4, OnlyListsChange
<1>4. CASE FetchFails
  <2>1. /\ cached' = [cached EXCEPT !.ok = FALSE] /\ raced' = TRUE /\ fetch' = NoFetch
        /\ UNCHANGED <<kind, rows, changes, requests, sent, confirmed>>
    BY <1>4 DEF FetchFails
  <2>2. ListShapes'
    BY <1>1, <2>1 DEF ListShapes, NoFetch, Items
  <2>3. LoadsAreTrue' /\ CacheIsTrue'
    BY <2>1 DEF LoadsAreTrue, CacheIsTrue, NoFetch
  <2>4. QED BY <2>1, <2>2, <2>3, OnlyListsChange
<1>5. CASE Refetch
  <2>1. /\ fetch' = NewFetch
        /\ UNCHANGED <<kind, rows, changes, cached, requests, sent, confirmed, raced>>
    BY <1>5 DEF Refetch
  <2>2. ListShapes'
    BY <1>1, <2>1, NewLoadsAreTrue DEF ListShapes, Items
  <2>3. LoadsAreTrue' /\ CacheIsTrue'
    BY <1>1, <2>1, NewLoadsAreTrue DEF CacheIsTrue
  <2>4. QED BY <2>1, <2>2, <2>3, OnlyListsChange
<1>6. QED BY <1>2, <1>3, <1>4, <1>5

(* A request that is sent learns of those about its row, and they of it.   *)
LEMMA SendKeepsInv ==
  ASSUME ListInv, NEW op \in Ops, NEW item \in Items, NEW key \in Keys, Send(op, item, key)
  PROVE  ListInv'
<1>1. ListShapes /\ RowsAreNumbered /\ ServedIsStored /\ AnswersAreNews /\ LoadsAreTrue /\ CacheIsTrue
  BY DEF ListInv
<1> DEFINE Told(q) == [q EXCEPT !.overlap = @ \/ q.id = item.id]
           new == [n |-> requests, op |-> op, id |-> item.id, key |-> key, at |-> "asked", row |-> item,
                   overlap |-> \E q \in sent : q.id = item.id]
<1>2. /\ sent' = {Told(q) : q \in sent} \cup {new} /\ requests' = requests + 1
      /\ UNCHANGED <<kind, rows, changes, cached, fetch, fetches, confirmed, raced>>
  BY DEF Send
<1>3. ASSUME NEW q \in sent
      PROVE  /\ Told(q) \in Requests
             /\ Told(q).op = q.op /\ Told(q).id = q.id /\ Told(q).at = q.at /\ Told(q).row = q.row
             /\ Told(q).overlap => q.overlap \/ q.id = item.id
             /\ q.overlap \/ q.id = item.id => Told(q).overlap
  <2>1. q \in Requests
    BY <1>1 DEF ListShapes
  <2>2. QED BY <2>1 DEF Requests
<1>4. /\ new \in Requests /\ new.id = item.id /\ new.at = "asked"
      /\ (\E q \in sent : q.id = item.id) => new.overlap
  BY <1>1 DEF ListShapes, Requests, Items
<1> HIDE DEF Told, new
<1>5. ListShapes'
  <2>1. sent' \subseteq Requests
    BY <1>2, <1>3, <1>4
  <2>2. QED BY <1>1, <1>2, <2>1 DEF ListShapes, Items, Requests
<1>6. RowsAreNumbered'
  BY <1>1, <1>2 DEF RowsAreNumbered
<1>7. ServedIsStored'
  <2>1. ASSUME NEW s \in sent', s.at = "done"
        PROVE  \E q \in sent : /\ q.at = "done" /\ s.op = q.op /\ s.id = q.id /\ s.row = q.row
                               /\ (~s.overlap => ~q.overlap)
    <3>1. s # new
      BY <1>4, <2>1
    <3>2. PICK q \in sent : s = Told(q)
      BY <1>2, <3>1
    <3>3. QED BY <1>3, <2>1, <3>2
  <2>2. QED BY <1>1, <1>2, <2>1 DEF ServedIsStored
<1>8. AnswersAreNews'
  <2>1. ASSUME NEW s \in sent', NEW t \in sent', s # t, s.id = t.id PROVE s.overlap
    <3>1. CASE s = new
      BY <3>1, <2>1, <1>2, <1>3, <1>4
    <3>2. CASE s # new
      <4>1. PICK q \in sent : s = Told(q)
        BY <3>2, <1>2
      <4>2. CASE t = new
        BY <4>1, <4>2, <2>1, <1>3, <1>4
      <4>3. CASE t # new
        <5>1. PICK r \in sent : t = Told(r)
          BY <4>3, <1>2
        <5>2. q # r /\ q.id = r.id
          BY <2>1, <4>1, <5>1, <1>3
        <5>3. QED BY <1>1, <1>3, <4>1, <5>2 DEF AnswersAreNews
      <4>4. QED BY <4>2, <4>3
    <3>3. QED BY <3>1, <3>2
  <2>2. ASSUME NEW s \in sent', s.at = "done", ~s.overlap, s.op \in {"create", "edit"}, kind # "mentorships"
        PROVE  confirmed[s.row.id] <= s.row.at
    <3>1. PICK q \in sent : /\ q.at = "done" /\ s.op = q.op /\ s.row = q.row /\ ~q.overlap
      <4>1. s # new
        BY <1>4, <2>2
      <4>2. PICK q \in sent : s = Told(q)
        BY <1>2, <4>1
      <4>3. QED BY <1>3, <2>2, <4>2
    <3>2. QED BY <1>1, <2>2, <3>1 DEF AnswersAreNews
  <2>3. QED BY <1>2, <2>1, <2>2 DEF AnswersAreNews
<1>9. LoadsAreTrue'
  BY <1>1, <1>2 DEF LoadsAreTrue, Shows, Visible, Table, AsItem, Before
<1>10. CacheIsTrue'
  BY <1>1, <1>2 DEF CacheIsTrue, Shows, Visible
<1>11. QED BY <1>5, <1>6, <1>7, <1>8, <1>9, <1>10 DEF ListInv

LEMMA RefusesKeepsInv ==
  ASSUME ListInv, NEW q \in sent, Refuses(q)
  PROVE  ListInv'
<1>1. ListShapes /\ RowsAreNumbered /\ ServedIsStored /\ AnswersAreNews /\ LoadsAreTrue /\ CacheIsTrue
  BY DEF ListInv
<1>2. UNCHANGED <<kind, rows, changes, cached, fetch, fetches, requests, confirmed, raced>>
  BY DEF Refuses
<1>3. PICK at \in {"missing", "conflict"} : Answers(q, at, q.row)
  BY DEF Refuses
<1> DEFINE p == [q EXCEPT !.at = at, !.row = q.row]
<1>4. sent' = (sent \ {q}) \cup {p}
  BY <1>3 DEF Answers
<1>5. p \in Requests /\ p.at # "done" /\ p.id = q.id /\ p.overlap = q.overlap
  <2>1. q \in Requests
    BY <1>1 DEF ListShapes
  <2>2. QED BY <2>1 DEF Requests
<1> HIDE DEF p
<1>6. ListShapes'
  BY <1>1, <1>2, <1>4, <1>5 DEF ListShapes, Items, Requests
<1>7. RowsAreNumbered'
  BY <1>1, <1>2 DEF RowsAreNumbered
<1>8. ServedIsStored'
  BY <1>1, <1>2, <1>4, <1>5 DEF ServedIsStored
<1>9. AnswersAreNews'
  BY <1>1, <1>2, <1>4, <1>5 DEF AnswersAreNews
<1>10. LoadsAreTrue'
  BY <1>1, <1>2 DEF LoadsAreTrue, Shows, Visible, Table, AsItem, Before
<1>11. CacheIsTrue'
  BY <1>1, <1>2 DEF CacheIsTrue, Shows, Visible
<1>12. QED BY <1>6, <1>7, <1>8, <1>9, <1>10, <1>11 DEF ListInv

(* An answer puts its row into the cached list, takes it out, or has the   *)
(* list loaded again.                                                      *)
LEMMA AnsweredKeepsInv ==
  ASSUME ListInv, NEW q \in sent, Answered(q)
  PROVE  ListInv'
<1>1. ListShapes /\ RowsAreNumbered /\ ServedIsStored /\ AnswersAreNews /\ LoadsAreTrue /\ CacheIsTrue
  BY DEF ListInv
<1>2. /\ q.at = "done" /\ sent' = sent \ {q}
      /\ cached' = [ok |-> LoadedBy(q), items |-> Patched(q)]
      /\ confirmed' = [confirmed EXCEPT ![q.row.id] = IF @ < q.row.at THEN q.row.at ELSE @]
      /\ fetch' = IF Invalidates(q) THEN NewFetch ELSE [fetch EXCEPT !.clean = fetch.at = "idle"]
      /\ raced' = (raced \/ q.overlap)
      /\ UNCHANGED <<kind, rows, changes, fetches, requests>>
  BY DEF Answered
<1>3. /\ q \in Requests /\ q.op \in Ops /\ q.id \in RowIds
      /\ q.row \in Items /\ q.row.id \in RowIds /\ q.row.at \in Nat
  BY <1>1 DEF ListShapes, Requests, Items
<1>4. /\ 0 < q.row.at /\ q.row.at <= rows[q.row.id].at
      /\ (q.op = "edit" /\ kind = "mentorships") => rows[q.id].state = "gone"
      /\ ~(q.op = "edit" /\ kind = "mentorships") => q.row.id = q.id
      /\ q.op = "end" /\ kind # "enrollments" =>
           rows[q.id].state = "gone" /\ q.row.at = rows[q.id].at
  BY <1>1, <1>2 DEF ServedIsStored
<1>5. \A x \in RowIds :
        /\ confirmed[x] \in Nat /\ rows[x].at \in Nat /\ confirmed'[x] \in Nat
        /\ x # q.row.id => confirmed'[x] = confirmed[x]
        /\ x = q.row.id => confirmed'[x] \in {confirmed[x], q.row.at} /\ confirmed'[x] >= q.row.at
                           /\ (confirmed[x] <= q.row.at => confirmed'[x] = q.row.at)
  <2>1. \A x \in RowIds : confirmed[x] \in Nat /\ rows[x].at \in Nat
    BY <1>1 DEF ListShapes
  <2>2. \A x \in RowIds : x # q.row.id => confirmed'[x] = confirmed[x]
    BY <1>1, <1>2 DEF ListShapes
  <2>3. confirmed'[q.row.id] = IF confirmed[q.row.id] < q.row.at THEN q.row.at ELSE confirmed[q.row.id]
    BY <1>1, <1>2, <1>3 DEF ListShapes
  <2>4. /\ confirmed'[q.row.id] \in {confirmed[q.row.id], q.row.at} /\ confirmed'[q.row.id] >= q.row.at
        /\ (confirmed[q.row.id] <= q.row.at => confirmed'[q.row.id] = q.row.at)
    BY <1>3, <2>1, <2>3
  <2>5. QED BY <1>3, <2>1, <2>2, <2>4
<1>6. RowsAreNumbered'
  BY <1>1, <1>2, <1>4, <1>5 DEF RowsAreNumbered
<1>7. ServedIsStored'
  BY <1>1, <1>2 DEF ServedIsStored
<1>8. AnswersAreNews'
  <2>1. \A s, t \in sent' : s # t /\ s.id = t.id => s.overlap /\ t.overlap
    BY <1>1, <1>2 DEF AnswersAreNews
  <2>2. ASSUME NEW s \in sent', s.at = "done", ~s.overlap, s.op \in {"create", "edit"}, kind # "mentorships"
        PROVE  confirmed'[s.row.id] <= s.row.at
    <3>1. s \in sent /\ s # q
      BY <1>2
    <3>2. s.id # q.id
      BY <1>1, <2>2, <3>1 DEF AnswersAreNews
    <3>3. s.row.id = s.id /\ q.row.id = q.id
      BY <1>1, <1>4, <2>2, <3>1 DEF ServedIsStored
    <3>4. s.row.id \in RowIds
      BY <1>1, <3>1 DEF ListShapes, Requests, Items
    <3>5. confirmed[s.row.id] <= s.row.at
      BY <1>1, <2>2, <3>1 DEF AnswersAreNews
    <3>6. QED BY <1>5, <3>2, <3>3, <3>4, <3>5
  <2>3. QED BY <1>2, <2>1, <2>2 DEF AnswersAreNews
<1>9. ListShapes'
  <2>1. Patched(q) \in SUBSET Items
    BY <1>1, <1>3 DEF Patched, Upserted, Without, ListShapes
  <2>2. LoadedBy(q) \in BOOLEAN
    BY <1>1 DEF LoadedBy, ListShapes
  <2>3. confirmed' \in [RowIds -> Nat]
    BY <1>1, <1>2, <1>3 DEF ListShapes
  <2>4. fetch' \in [at : {"idle", "asked", "read"}, after : RowIds \cup {0}, seen : SUBSET RowIds,
                    items : SUBSET Items, first : SUBSET Items, clean : BOOLEAN]
    BY <1>1, <1>2, NewLoadsAreTrue DEF ListShapes
  <2>5. sent' \subseteq Requests /\ cached' \in [ok : BOOLEAN, items : SUBSET Items] /\ raced' \in BOOLEAN
    BY <1>1, <1>2, <2>1, <2>2 DEF ListShapes
  <2>6. QED BY <1>1, <1>2, <2>3, <2>4, <2>5 DEF ListShapes, Items, Requests
<1>10. LoadsAreTrue'
  <2>1. CASE Invalidates(q)
    BY <1>1, <1>2, <2>1, NewLoadsAreTrue
  <2>2. CASE ~Invalidates(q)
    <3>1. fetch'.clean => fetch'.at = "idle"
      BY <1>1, <1>2, <2>2 DEF ListShapes
    <3>2. QED BY <3>1 DEF LoadsAreTrue
  <2>3. QED BY <2>1, <2>2
<1>11. CacheIsTrue'
  <2>1. ASSUME fetch'.at = "idle", ~raced' PROVE \A x \in RowIds : Shows(cached.items, x)'
    <3>1. ~Invalidates(q)
      BY <1>1, <1>2, <2>1, NewLoadsAreTrue
    <3>2. ~raced /\ ~q.overlap /\ fetch.at = "idle"
      BY <1>1, <1>2, <2>1, <3>1 DEF ListShapes
    <3>3. \A x \in RowIds : Shows(cached.items, x)
      BY <1>1, <3>2 DEF CacheIsTrue
    <3>4. cached'.items = Patched(q)
      BY <1>2
    <3>5. CASE q.op = "end" /\ kind # "enrollments"
      <4>1. Patched(q) = {i \in cached.items : i.id # q.id} /\ q.row.id = q.id /\ rows[q.id].state = "gone"
        BY <1>4, <3>5 DEF Patched, Without
      <4>2. ASSUME NEW x \in RowIds, x # q.id PROVE Shows(cached.items, x)'
        <5>1. Shows(cached.items, x) /\ confirmed'[x] = confirmed[x]
          BY <1>5, <3>3, <4>1, <4>2
        <5>2. QED BY <1>2, <3>4, <4>1, <4>2, <5>1 DEF Shows, Visible
      <4>3. Shows(cached.items, q.id)'
        BY <1>2, <3>4, <4>1 DEF Shows, Visible
      <4>4. QED BY <4>2, <4>3
    <3>6. CASE q.op \in {"create", "edit"} /\ kind # "mentorships"
      <4>1. Patched(q) = {i \in cached.items : i.id # q.row.id} \cup {q.row}
        BY <3>6 DEF Patched, Upserted
      <4>2. confirmed'[q.row.id] = q.row.at
        BY <1>1, <1>2, <1>3, <1>5, <3>2, <3>6 DEF AnswersAreNews
      <4>3. ASSUME NEW x \in RowIds, x # q.row.id PROVE Shows(cached.items, x)'
        <5>1. Shows(cached.items, x) /\ confirmed'[x] = confirmed[x]
          BY <1>5, <3>3, <4>3
        <5>2. \A i : i.id = x => (i \in cached'.items <=> i \in cached.items)
          BY <3>4, <4>1, <4>3
        <5>3. QED BY <1>2, <5>1, <5>2 DEF Shows, Visible
      <4>4. Shows(cached.items, q.row.id)'
        <5>1. \A i \in cached'.items : i.id = q.row.id => i = q.row
          BY <3>4, <4>1
        <5>2. q.row \in cached'.items /\ q.row.at >= confirmed'[q.row.id]
          BY <1>3, <3>4, <4>1, <4>2
        <5>3. QED BY <5>1, <5>2 DEF Shows
      <4>5. QED BY <4>3, <4>4
    <3>7. QED BY <1>3, <3>1, <3>5, <3>6 DEF Invalidates, Ops
  <2>2. QED BY <2>1 DEF CacheIsTrue
<1>12. QED BY <1>6, <1>7, <1>8, <1>9, <1>10, <1>11 DEF ListInv

LEMMA ErrorsKeepInv ==
  ASSUME ListInv, NEW q \in sent, ConflictAnswered(q) \/ FailureAnswered(q)
  PROVE  ListInv'
<1>1. ListShapes /\ LoadsAreTrue /\ CacheIsTrue
  BY DEF ListInv
<1>2. /\ sent' = sent \ {q} /\ fetch' \in {fetch, NewFetch}
      /\ UNCHANGED <<kind, rows, changes, cached, fetches, requests, confirmed, raced>>
  BY DEF ConflictAnswered, FailureAnswered
<1>3. CASE fetch' = NewFetch
  <2>1. ListShapes'
    BY <1>1, <1>2, <1>3, NewLoadsAreTrue DEF ListShapes, Items, Requests
  <2>2. LoadsAreTrue' /\ CacheIsTrue'
    BY <1>1, <1>3, NewLoadsAreTrue DEF CacheIsTrue
  <2>3. QED BY <1>2, <2>1, <2>2, OnlyListsChange
<1>4. CASE fetch' = fetch
  <2>1. ListShapes'
    BY <1>1, <1>2, <1>4 DEF ListShapes, Items, Requests
  <2>2. LoadsAreTrue'
    BY <1>1, <1>2, <1>4 DEF LoadsAreTrue, Shows, Visible, Table, AsItem, Before
  <2>3. CacheIsTrue'
    BY <1>1, <1>2, <1>4 DEF CacheIsTrue, Shows, Visible
  <2>4. QED BY <1>2, <2>1, <2>2, <2>3, OnlyListsChange
<1>5. QED BY <1>2, <1>3, <1>4

LEMMA ListInitHasInv == ListInit => ListInv
<1> SUFFICES ASSUME ListInit PROVE ListInv
  OBVIOUS
<1>1. NoRow \in [key : Keys, at : Nat, state : {"none", "live", "removed", "gone"}]
  BY ListBoundsAssumption DEF NoRow
<1>2. /\ \A id \in RowIds : rows[id].at = 0 /\ rows[id].state = "none" /\ confirmed[id] = 0
      /\ fetch = NewFetch /\ sent = {} /\ changes = 0
  BY DEF ListInit, NoRow
<1>3. Table = {}
  BY <1>2 DEF Table, Visible
<1>4. NewFetch = [at |-> "asked", after |-> 0, seen |-> {}, items |-> {}, first |-> {}, clean |-> TRUE]
  <2>1. NewFetch = [NoFetch EXCEPT !.at = "asked", !.first = {}]
    BY <1>3 DEF NewFetch
  <2>2. QED BY <2>1 DEF NoFetch
<1>5. ListShapes
  BY <1>1, <1>4 DEF ListInit, ListShapes
<1>6. RowsAreNumbered /\ ServedIsStored /\ AnswersAreNews
  BY <1>2 DEF RowsAreNumbered, ServedIsStored, AnswersAreNews
<1>7. LoadsAreTrue /\ CacheIsTrue
  BY <1>2, <1>4 DEF LoadsAreTrue, CacheIsTrue
<1>8. QED BY <1>5, <1>6, <1>7 DEF ListInv

LEMMA ListStepKeepsInv ==
  ASSUME ListInv, [ListNext]_listVars
  PROVE  ListInv'
<1>1. ListShapes
  BY DEF ListInv
<1>2. CASE UNCHANGED listVars
  <2> USE <1>2 DEF listVars
  <2>1. ListShapes'
    BY <1>1 DEF ListShapes, Items, Requests
  <2>2. LoadsAreTrue'
    BY DEF ListInv, LoadsAreTrue, Shows, Visible, Table, AsItem, Before
  <2>3. CacheIsTrue'
    BY DEF ListInv, CacheIsTrue, Shows, Visible
  <2>4. QED BY <2>1, <2>2, <2>3, OnlyListsChange
<1>3. ASSUME NEW op \in Ops, NEW id \in RowIds, NEW new \in RowIds, NEW key \in Keys,
             op = "create" => id = new, ChangedElsewhere(op, id, key, new)
      PROVE  ListInv'
  BY <1>3, ChangedElsewhereKeepsInv
<1>4. ASSUME NEW item \in cached.items, NEW op \in Ops \ {"create"}, NEW key \in Keys, Send(op, item, key)
      PROVE  ListInv'
  BY <1>1, <1>4, SendKeepsInv DEF ListShapes
<1>5. ASSUME NEW key \in Keys, NEW id \in RowIds,
             Send("create", [id |-> id, key |-> key, at |-> 0, live |-> FALSE], key)
      PROVE  ListInv'
  <2>1. [id |-> id, key |-> key, at |-> 0, live |-> FALSE] \in Items /\ "create" \in Ops
    BY DEF Items, Ops
  <2>2. QED BY <1>5, <2>1, SendKeepsInv
<1>6. ASSUME NEW q \in sent, NEW new \in RowIds, q.op = "create" => new = q.id, Serve(q, new)
      PROVE  ListInv'
  BY <1>6, ServeKeepsInv
<1>7. ASSUME NEW q \in sent, Refuses(q) \/ Answered(q) \/ ConflictAnswered(q) \/ FailureAnswered(q)
      PROVE  ListInv'
  BY <1>7, RefusesKeepsInv, AnsweredKeepsInv, ErrorsKeepInv
<1>8. QED BY <1>2, <1>3, <1>4, <1>5, <1>6, <1>7, LoadStepsKeepInv DEF ListNext

(* However many rows a list has, wherever a page of it ends, whatever is   *)
(* changed elsewhere meanwhile and in whatever order requests are served   *)
(* and answered, the list shows what was confirmed (pages/AdminPage.tsx,   *)
(* api/queries.ts).                                                        *)
THEOREM ConfirmedRowsAreListed == ListSpec => []ConfirmedIsInList
<1>1. ListInv => ConfirmedIsInList
  BY DEF ListInv, CacheIsTrue, Shows, ConfirmedIsInList
<1>2. ListInv /\ [ListNext]_listVars => ListInv'
  BY ListStepKeepsInv
<1>3. QED BY <1>1, <1>2, ListInitHasInv, PTL DEF ListSpec

(* Every row the page has been given was written by a change there was.    *)
Given == cached.items \cup fetch.items \cup fetch.first \cup {q.row : q \in sent}

TimesInv == changes <= MaxChanges /\ \A i \in Given : i.at <= changes

(* What a step brings in is a row of the table, of before or after it, or  *)
(* one that a dialog has made up.                                          *)
LEMMA NothingFromTheFuture ==
  ASSUME ListInv, ListInv', TimesInv, changes <= changes', changes' <= MaxChanges,
         \A i \in Given' : \/ i \in Given \cup Table \/ i.at = 0
                           \/ \E id \in RowIds : i = AsItem(id)'
  PROVE  TimesInv'
<1>1. changes \in Nat /\ changes' \in Nat /\ MaxChanges \in Nat
  BY ListBoundsAssumption DEF ListInv, ListShapes
<1>2. Given \subseteq Items /\ Table \subseteq Items
  BY TableIsKeyed DEF ListInv, ListShapes, Given, Requests
<1>3. \A i \in Items : i.at \in Nat
  BY DEF Items
<1>4. \A i \in Table : i.at <= changes
  BY TableIsKeyed DEF AsItem, ListInv, RowsAreNumbered
<1>5. \A id \in RowIds : AsItem(id)'.at <= changes'
  BY DEF AsItem, ListInv, RowsAreNumbered
<1>6. \A i \in Given' : i.at <= changes'
  BY <1>1, <1>2, <1>3, <1>4, <1>5 DEF TimesInv
<1>7. QED BY <1>6 DEF TimesInv

(* A load that begins, or none.                                            *)
LEMMA FreshFetches ==
  /\ NewFetch.items = {} /\ NewFetch.first = Table
  /\ NoFetch.items = {} /\ NoFetch.first = {}
<1>1. PICK table : table = Table
  OBVIOUS
<1>2. NewFetch = [NoFetch EXCEPT !.at = "asked", !.first = table]
  BY <1>1 DEF NewFetch
<1>3. QED BY <1>1, <1>2 DEF NoFetch

LEMMA TimesStep ==
  ASSUME ListInv, ListInv', TimesInv, [ListNext]_listVars
  PROVE  TimesInv'
<1> DEFINE New(i) == \/ i \in Given \cup Table \/ i.at = 0
                     \/ \E id \in RowIds : i = AsItem(id)'
<1> USE FreshFetches
<1>1. changes \in Nat /\ changes <= changes /\ changes <= MaxChanges /\ MaxChanges \in Nat
  BY ListBoundsAssumption DEF ListInv, ListShapes, TimesInv
<1>2. fetch \in [at : {"idle", "asked", "read"}, after : RowIds \cup {0}, seen : SUBSET RowIds,
                 items : SUBSET Items, first : SUBSET Items, clean : BOOLEAN]
  BY DEF ListInv, ListShapes
<1>3. \A q \in sent : q \in Requests /\ q.row \in Given
  BY DEF ListInv, ListShapes, Given
<1>4. ASSUME UNCHANGED changes, \A i \in Given' : New(i) PROVE TimesInv'
  BY <1>1, <1>4, NothingFromTheFuture
<1>5. ASSUME NEW op, NEW id, NEW key, NEW new, Change(op, id, key, new)
      PROVE  /\ changes <= changes' /\ changes' <= MaxChanges
             /\ fetch'.items = fetch.items /\ fetch'.first = fetch.first
  BY <1>1, <1>2, <1>5 DEF Change
<1>6. CASE UNCHANGED listVars
  BY <1>4, <1>6 DEF listVars, Given
<1>7. ASSUME NEW op \in Ops, NEW id \in RowIds, NEW new \in RowIds, NEW key \in Keys,
             ChangedElsewhere(op, id, key, new)
      PROVE  TimesInv'
  <2>1. \A i \in Given' : New(i)
    BY <1>5, <1>7 DEF ChangedElsewhere, Given
  <2>2. QED BY <1>5, <1>7, <2>1, NothingFromTheFuture DEF ChangedElsewhere
<1>8. CASE FetchPage
  <2>1. PageOf(Rest) \subseteq Table
    BY DEF PageOf, Rest
  <2>2. PICK page : page = PageOf(Rest)
    OBVIOUS
  <2>3. fetch'.items = fetch.items \cup page /\ fetch'.first = fetch.first
    <3>1. \/ fetch' = [fetch EXCEPT !.items = @ \cup page, !.at = "read"]
          \/ \E id, seen : fetch' = [fetch EXCEPT !.items = @ \cup page, !.after = id, !.seen = seen]
      BY <1>8, <2>2 DEF FetchPage
    <3>2. QED BY <1>2, <3>1
  <2>4. \A i \in Given' : New(i)
    BY <1>8, <2>1, <2>2, <2>3 DEF FetchPage, Given
  <2>5. QED BY <1>4, <1>8, <2>4 DEF FetchPage
<1>9. CASE ShowFetch \/ FetchFails
  <2>1. cached'.items \in {fetch.items, cached.items} /\ fetch' = NoFetch /\ UNCHANGED <<sent, changes>>
    BY <1>9 DEF ShowFetch, FetchFails, ListInv, ListShapes
  <2>2. \A i \in Given' : New(i)
    BY <2>1 DEF Given
  <2>3. QED BY <1>4, <2>1, <2>2
<1>10. CASE Refetch
  <2>1. \A i \in Given' : New(i)
    BY <1>10 DEF Refetch, Given
  <2>2. QED BY <1>4, <1>10, <2>1 DEF Refetch
<1>11. ASSUME NEW op, NEW item, NEW key, Send(op, item, key), item \in cached.items \/ item.at = 0
       PROVE  TimesInv'
  <2>1. \A p \in sent' : p.row = item \/ \E q \in sent : p.row = q.row
    <3> DEFINE Told(q) == [q EXCEPT !.overlap = @ \/ q.id = item.id]
               made == [n |-> requests, op |-> op, id |-> item.id, key |-> key, at |-> "asked", row |-> item,
                        overlap |-> \E q \in sent : q.id = item.id]
    <3>1. \A q \in sent : Told(q).row = q.row
      BY <1>3 DEF Requests
    <3>2. sent' = {Told(q) : q \in sent} \cup {made} /\ made.row = item
      BY <1>11 DEF Send
    <3> HIDE DEF Told, made
    <3>3. QED BY <3>1, <3>2
  <2>2. \A i \in Given' : New(i)
    BY <1>3, <1>11, <2>1 DEF Send, Given
  <2>3. QED BY <1>4, <1>11, <2>2 DEF Send
<1>12. ASSUME NEW q \in sent, NEW at, NEW row, Answers(q, at, row)
       PROVE  \A p \in sent' : p.row = row \/ p.row \in Given
  <2>1. [q EXCEPT !.at = at, !.row = row].row = row
    BY <1>3 DEF Requests
  <2>2. QED BY <1>3, <1>12, <2>1 DEF Answers
<1>13. ASSUME NEW q \in sent, NEW new \in RowIds, Serve(q, new) PROVE TimesInv'
  <2>1. PICK row : row = AsItem(new)'
    OBVIOUS
  <2>2. Answers(q, "done", row)
    BY <1>13, <2>1 DEF Serve, Answers
  <2>3. \A i \in Given' : New(i)
    BY <1>5, <1>12, <1>13, <2>1, <2>2 DEF Serve, Given
  <2>4. QED BY <1>5, <1>13, <2>3, NothingFromTheFuture DEF Serve
<1>14. ASSUME NEW q \in sent, Refuses(q) PROVE TimesInv'
  <2>1. \A i \in Given' : New(i)
    BY <1>3, <1>12, <1>14 DEF Refuses, Given
  <2>2. QED BY <1>4, <1>14, <2>1 DEF Refuses
<1>15. ASSUME NEW q \in sent, Answered(q) PROVE TimesInv'
  <2>1. Patched(q) \subseteq Given
    BY <1>3 DEF Patched, Upserted, Without, Given
  <2>2. cached'.items = Patched(q) /\ sent' = sent \ {q} /\ UNCHANGED changes
    BY <1>15 DEF Answered
  <2>3. fetch' = NewFetch \/ (fetch'.items = fetch.items /\ fetch'.first = fetch.first)
    BY <1>2, <1>15 DEF Answered
  <2>4. \A i \in Given' : New(i)
    BY <2>1, <2>2, <2>3 DEF Given
  <2>5. QED BY <1>4, <2>2, <2>4
<1>16. ASSUME NEW q \in sent, ConflictAnswered(q) \/ FailureAnswered(q) PROVE TimesInv'
  <2>1. fetch' \in {fetch, NewFetch} /\ sent' = sent \ {q} /\ UNCHANGED <<changes, cached>>
    BY <1>16 DEF ConflictAnswered, FailureAnswered
  <2>2. \A i \in Given' : New(i)
    BY <2>1 DEF Given
  <2>3. QED BY <1>4, <2>1, <2>2
<1>17. ASSUME NEW key, NEW id, Send("create", [id |-> id, key |-> key, at |-> 0, live |-> FALSE], key)
       PROVE  TimesInv'
  BY <1>11, <1>17
<1>18. QED
  BY <1>6, <1>7, <1>8, <1>9, <1>10, <1>11, <1>13, <1>14, <1>15, <1>16, <1>17 DEF ListNext

(* The variables of the list keep to their types: whatever the page has    *)
(* loaded, put in or sent was written by a change there has been           *)
(* (pages/AdminPage.tsx, api/queries.ts).                                  *)
THEOREM ListTypeCorrect == ListSpec => []ListTypeOK
<1>1. ListInit => TimesInv
  <2> SUFFICES ASSUME ListInit PROVE TimesInv
    OBVIOUS
  <2>1. Table = {}
    BY DEF ListInit, NoRow, Table, Visible
  <2>2. QED BY <2>1, FreshFetches, ListBoundsAssumption DEF ListInit, TimesInv, Given
<1>2. ListInv /\ ListInv' /\ TimesInv /\ [ListNext]_listVars => TimesInv'
  BY TimesStep
<1>3. ListInv /\ [ListNext]_listVars => ListInv'
  BY ListStepKeepsInv
<1>4. ListInv /\ TimesInv => ListTypeOK
  <2> SUFFICES ASSUME ListInv, TimesInv PROVE ListTypeOK
    OBVIOUS
  <2>1. changes \in 0..MaxChanges /\ changes \in Nat /\ MaxChanges \in Nat
    BY ListBoundsAssumption DEF ListInv, ListShapes, TimesInv
  <2>2. \A i \in Items : i.at <= changes => i \in Item
    BY <2>1 DEF Item, Items
  <2>3. Given \subseteq Items
    BY DEF Given, ListInv, ListShapes, Requests
  <2>4. Given \subseteq Item
    BY <2>2, <2>3 DEF TimesInv
  <2>5. rows \in [RowIds -> Row] /\ confirmed \in [RowIds -> 0..MaxChanges]
    <3>1. ASSUME NEW id \in RowIds
          PROVE  rows[id] \in Row /\ confirmed[id] \in 0..MaxChanges
      <4>1. /\ rows[id] \in [key : Keys, at : Nat, state : {"none", "live", "removed", "gone"}]
            /\ confirmed[id] \in Nat /\ rows[id].at <= changes /\ confirmed[id] <= rows[id].at
        BY DEF ListInv, ListShapes, RowsAreNumbered
      <4>2. QED BY <2>1, <4>1 DEF Row
    <3>2. QED BY <3>1 DEF ListInv, ListShapes
  <2>6. \A q \in sent : q.op \in Ops /\ q.at \in {"asked", "done", "conflict", "missing"} /\ q.row \in Item
    BY <2>4 DEF ListInv, ListShapes, Requests, Given
  <2>7. QED BY <2>1, <2>4, <2>5, <2>6 DEF ListTypeOK, ListInv, ListShapes, Given
<1>5. QED BY <1>1, <1>2, <1>3, <1>4, ListInitHasInv, PTL DEF ListSpec
=============================================================================
