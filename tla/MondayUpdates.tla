----------------------------- MODULE MondayUpdates -----------------------------
(***************************************************************************)
(* The Monday updates of one student in one season: the rows as the API    *)
(* writes them (api/monday_updates.go, dal/monday_updates.go), and the     *)
(* student's page that lists and posts them                                *)
(* (pages/MondayUpdatesPage.tsx).                                          *)
(*                                                                         *)
(* A post is authorised by the memberships that were read with the access  *)
(* token.  Its transaction then locks the season, which must be open, and  *)
(* the student's enrollment, which must be active, looks for the week among*)
(* those posted, and inserts.  A closing or reopening season and a removal *)
(* of the student wait for those locks; a deletion, which is the author's  *)
(* alone, takes none.                                                      *)
(*                                                                         *)
(* The page shows the list as it was last loaded.  A post or a deletion    *)
(* that succeeds makes the list load again, in place of a load that is     *)
(* under way.  The student has a second tab.  Texts, hours and the dates of*)
(* a week are left out: a week is configured, and over.                    *)
(***************************************************************************)
EXTENDS Integers, FiniteSets

CONSTANTS
  WeekIds,      \* weeks of the season that are over
  Mentors,
  MaxUpdates,   \* bound: updates ever posted
  MaxPosts,     \* bound: posts under way
  MaxListLoads, \* bound: loads of the list after the first, for their own sake
  MaxAside      \* bound: marks and such loads together

ASSUME MondayBoundsAssumption == {MaxUpdates, MaxPosts, MaxListLoads, MaxAside} \subseteq Nat

VARIABLES
  open,       \* the season is open
  member,     \* the student's enrollment: "active", "completed" or "removed"
  assigned,   \* mentors with a live mentorship with the student
  updates,    \* rows of updates, deleted ones too
  marks,      \* rows of marks
  posts,      \* posts under way
  deletions,  \* deletions under way, of at most one update from each tab
  markings,   \* marks under way: update and mentor
  list,       \* what the page has loaded: a set of ids and weeks, or a failure
  load,       \* the load under way
  loads,      \* how many loads there were
  postedIds,  \* history: ids of the posts the API confirmed to the page
  deletedIds  \* history: ids of the deletions it confirmed to the page

apiVars == <<open, member, assigned, updates, marks, posts, deletions, markings>>
pageState == <<list, load, loads, postedIds, deletedIds>>
mondayVars == <<apiVars, pageState>>

NoLoad == [at |-> "idle", items |-> {}]
NewLoad == [at |-> "asked", items |-> {}]
Live == {u \in updates : ~u.deleted}
Listed == {[id |-> u.id, week |-> u.week] : u \in Live}

MondayInit ==
  /\ open = TRUE /\ member = "active" /\ assigned \in SUBSET Mentors
  /\ updates = {} /\ marks = {} /\ posts = {} /\ deletions = {} /\ markings = {}
  /\ list = [ok |-> FALSE, items |-> {}]
  /\ load = NewLoad /\ loads = 0 /\ postedIds = {} /\ deletedIds = {}

-----------------------------------------------------------------------------
(* Locks                                                                   *)

HoldsSeason(p) == p.at \in {"season", "enrollment", "checked"}
HoldsEnrollment(p) == p.at \in {"enrollment", "checked"}

SeasonFree == \A p \in posts : ~HoldsSeason(p)

(* Faulty variant: the enrollment is read, and not locked. *)
EnrollmentFreeAlways == member # "none"

EnrollmentFree == \A p \in posts : ~HoldsEnrollment(p)

-----------------------------------------------------------------------------
(* Posting                                                                 *)

Moved(p, at) == posts' = (posts \ {p}) \cup {[p EXCEPT !.at = at]}

(* createMondayUpdate: only an active student may post.                    *)
BeginPost(id, week, tab) ==
  /\ member = "active"
  /\ Cardinality(posts) < MaxPosts
  /\ id \notin {u.id : u \in updates} \cup {p.id : p \in posts}
  /\ posts' = posts \cup {[id |-> id, week |-> week, tab |-> tab, at |-> "asked"]}
  /\ UNCHANGED <<open, member, assigned, updates, marks, deletions, markings>>

(* lockOpenSeason *)
LockSeason(p) ==
  /\ p.at = "asked" /\ SeasonFree /\ open
  /\ Moved(p, "season")
  /\ UNCHANGED <<open, member, assigned, updates, marks, deletions, markings, pageState>>

LockEnrollment(p) ==
  /\ p.at = "season" /\ member = "active"
  /\ Moved(p, "enrollment")
  /\ UNCHANGED <<open, member, assigned, updates, marks, deletions, markings, pageState>>

(* Faulty variant: updates of the week are not looked for. *)
SubmittedNever(week) == week \notin WeekIds

Submitted(week) == \E u \in Live : u.week = week

Check(p) ==
  /\ p.at = "enrollment" /\ ~Submitted(p.week)
  /\ Moved(p, "checked")
  /\ UNCHANGED <<open, member, assigned, updates, marks, deletions, markings, pageState>>

(* The transaction commits.                                                *)
Commit(p) ==
  /\ p.at = "checked"
  /\ updates' = updates \cup {[id |-> p.id, week |-> p.week, deleted |-> FALSE]}
  /\ Moved(p, "committed")
  /\ UNCHANGED <<open, member, assigned, marks, deletions, markings, pageState>>

(* The season is closed, the enrollment not active or the week submitted:  *)
(* the transaction is rolled back and its locks released.                  *)
Refuse(p) ==
  /\ \/ p.at = "asked" /\ SeasonFree /\ ~open
     \/ p.at = "season" /\ member # "active"
     \/ p.at = "enrollment" /\ Submitted(p.week)
  /\ Moved(p, "refused")
  /\ UNCHANGED <<open, member, assigned, updates, marks, deletions, markings, pageState>>

-----------------------------------------------------------------------------
(* Deleting and marking                                                    *)

(* deleteMondayUpdate reads the update and its author first.               *)
BeginDelete(u, tab) ==
  /\ u \in Live /\ \A d \in deletions : d.tab # tab
  /\ deletions' = deletions \cup {[id |-> u.id, tab |-> tab, at |-> "asked"]}
  /\ UNCHANGED <<open, member, assigned, updates, marks, posts, markings, pageState>>

(* DeleteMondayUpdate, or 404 when another deletion was first.             *)
DeleteUpdate(d) ==
  /\ d.at = "asked"
  /\ updates' = {IF u.id = d.id THEN [u EXCEPT !.deleted = TRUE] ELSE u : u \in updates}
  /\ deletions' = (deletions \ {d}) \cup
       {[d EXCEPT !.at = IF \E u \in Live : u.id = d.id THEN "done" ELSE "missing"]}
  /\ UNCHANGED <<open, member, assigned, marks, posts, markings, pageState>>

(* Marks and loads of the list for their own sake, for their bound.        *)
Aside == loads + Cardinality(marks \cup markings)

(* putMondayUpdateMark reads the update and the mentorship first.  The     *)
(* dialog of a mentor's mark stays open until it is saved.                 *)
BeginMark(u, m) ==
  /\ u \in Live /\ m \in assigned /\ \A k \in markings : k.mentor # m
  /\ Aside < MaxAside
  /\ markings' = markings \cup {[update |-> u.id, mentor |-> m]}
  /\ UNCHANGED <<open, member, assigned, updates, marks, posts, deletions, pageState>>

(* UpsertMondayUpdateMark: one row for an update and a mentor.             *)
PutMark(k) ==
  /\ marks' = marks \cup {k}
  /\ markings' = markings \ {k}
  /\ UNCHANGED <<open, member, assigned, updates, posts, deletions, pageState>>

-----------------------------------------------------------------------------
(* The season and its members                                              *)

SeasonCloses ==
  /\ open /\ SeasonFree /\ EnrollmentFree
  /\ open' = FALSE
  /\ member' = IF member = "active" THEN "completed" ELSE member
  /\ assigned' = {}
  /\ UNCHANGED <<updates, marks, posts, deletions, markings, pageState>>

SeasonReopens ==
  /\ ~open /\ SeasonFree
  /\ open' = TRUE
  /\ member' = IF member = "completed" THEN "active" ELSE member
  /\ UNCHANGED <<assigned, updates, marks, posts, deletions, markings, pageState>>

RemoveStudent ==
  /\ member = "active" /\ EnrollmentFree
  /\ member' = "removed" /\ assigned' = {}
  /\ UNCHANGED <<open, updates, marks, posts, deletions, markings, pageState>>

-----------------------------------------------------------------------------
(* The student's page                                                      *)

PageDeleting == \E d \in deletions : d.tab = "page"

(* The form is shown for a week that is not in the list, and only once the *)
(* list has been loaded.                                                   *)
FormShown(week) == list.ok /\ week \notin {u.week : u \in list.items}

(* submit: not from behind the dialog of a deletion.  A form is disabled   *)
(* while its post is under way, but each choice of a week shows a new one. *)
Submit(id, week) ==
  /\ FormShown(week) /\ ~PageDeleting
  /\ BeginPost(id, week, "page")
  /\ UNCHANGED pageState

PostElsewhere(id, week) ==
  /\ BeginPost(id, week, "other")
  /\ UNCHANGED pageState

(* deleteUpdate: the dialog of an update in the list.  One that is deleted *)
(* already is refused, which changes nothing.                              *)
RemoveUpdate(u, tab) ==
  /\ tab = "page" => list.ok /\ [id |-> u.id, week |-> u.week] \in list.items
  /\ BeginDelete(u, tab)

StartLoad ==
  /\ load = NoLoad /\ loads < MaxListLoads /\ Aside < MaxAside
  /\ load' = NewLoad /\ loads' = loads + 1
  /\ UNCHANGED <<apiVars, list, postedIds, deletedIds>>

(* listMondayUpdates: a student lists their own while the enrollment is    *)
(* active.                                                                 *)
ReadList ==
  /\ load.at = "asked" /\ member = "active"
  /\ load' = [at |-> "read", items |-> Listed]
  /\ UNCHANGED <<apiVars, list, loads, postedIds, deletedIds>>

(* It is forbidden otherwise, and fails when the API is not reached.       *)
ReadFails ==
  /\ load.at = "asked"
  /\ load' = [at |-> "failed", items |-> {}]
  /\ UNCHANGED <<apiVars, list, loads, postedIds, deletedIds>>

(* The answer arrives, or the failure; what was loaded before stays.       *)
ShowList ==
  /\ load.at \in {"read", "failed"}
  /\ list' = IF load.at = "read" THEN [ok |-> TRUE, items |-> load.items]
             ELSE [list EXCEPT !.ok = FALSE]
  /\ load' = NoLoad
  /\ UNCHANGED <<apiVars, loads, postedIds, deletedIds>>

(* Faulty variant: a load that is under way is waited for instead. *)
LoadAfterPostJoined == IF load = NoLoad THEN NewLoad ELSE load

(* invalidateMondayUpdates: a load under way is cancelled.                 *)
LoadAfterPost == NewLoad

(* The answer to a post reaches its tab.                                   *)
PostAnswered(p) ==
  /\ p.at \in {"committed", "refused"}
  /\ posts' = posts \ {p}
  /\ IF p.tab = "page" /\ p.at = "committed"
     THEN load' = LoadAfterPost /\ postedIds' = postedIds \cup {p.id}
     ELSE UNCHANGED <<load, postedIds>>
  /\ UNCHANGED <<open, member, assigned, updates, marks, deletions, markings, list, loads,
                 deletedIds>>

(* The update is not found again to be answered with, or the answer is     *)
(* lost: the tab takes the post for failed.                                *)
PostAnswerLost(p) ==
  /\ p.at = "committed"
  /\ posts' = posts \ {p}
  /\ UNCHANGED <<open, member, assigned, updates, marks, deletions, markings, pageState>>

(* The answer to a deletion reaches its tab.                               *)
DeleteAnswered(d) ==
  /\ d.at \in {"done", "missing"}
  /\ deletions' = deletions \ {d}
  /\ IF d.tab = "page" /\ d.at = "done"
     THEN load' = LoadAfterPost /\ deletedIds' = deletedIds \cup {d.id}
     ELSE UNCHANGED <<load, deletedIds>>
  /\ UNCHANGED <<open, member, assigned, updates, marks, posts, markings, list, loads, postedIds>>

DeleteAnswerLost(d) ==
  /\ d.at = "done"
  /\ deletions' = deletions \ {d}
  /\ UNCHANGED <<open, member, assigned, updates, marks, posts, markings, pageState>>

MondayNext ==
  \/ \E id \in 1..MaxUpdates, week \in WeekIds : Submit(id, week) \/ PostElsewhere(id, week)
  \/ \E p \in posts :
       LockSeason(p) \/ LockEnrollment(p) \/ Check(p) \/ Commit(p) \/ Refuse(p)
         \/ PostAnswered(p) \/ PostAnswerLost(p)
  \/ \E u \in Live :
       RemoveUpdate(u, "page") \/ RemoveUpdate(u, "other") \/ \E m \in assigned : BeginMark(u, m)
  \/ \E d \in deletions : DeleteUpdate(d) \/ DeleteAnswered(d) \/ DeleteAnswerLost(d)
  \/ \E k \in markings : PutMark(k)
  \/ SeasonCloses \/ SeasonReopens \/ RemoveStudent
  \/ StartLoad \/ ReadList \/ ReadFails \/ ShowList

MondaySpec == MondayInit /\ [][MondayNext]_mondayVars

-----------------------------------------------------------------------------
(* Properties                                                              *)

(* The variables keep to their types.                                      *)
MondayTypeOK ==
  /\ open \in BOOLEAN /\ member \in {"active", "completed", "removed"}
  /\ assigned \subseteq Mentors
  /\ updates \subseteq [id : 1..MaxUpdates, week : WeekIds, deleted : BOOLEAN]
  /\ posts \subseteq [id : 1..MaxUpdates, week : WeekIds, tab : {"page", "other"},
                      at : {"asked", "season", "enrollment", "checked", "committed", "refused"}]
  /\ deletions \subseteq [id : {u.id : u \in updates}, tab : {"page", "other"},
                          at : {"asked", "done", "missing"}]
  /\ marks \cup markings \subseteq [update : {u.id : u \in updates}, mentor : Mentors]
  /\ load \in [at : {"idle", "asked", "read", "failed"},
               items : SUBSET [id : 1..MaxUpdates, week : WeekIds]]
  /\ list \in [ok : BOOLEAN, items : SUBSET [id : 1..MaxUpdates, week : WeekIds]]
  /\ loads \in 0..MaxListLoads /\ postedIds \cup deletedIds \subseteq {u.id : u \in updates}

(* "One update per student per week is allowed", whichever tabs post, with *)
(* deletions and removals between any two steps.                           *)
OneUpdatePerWeek ==
  \A u, v \in Live : u.week = v.week => u.id = v.id

(* "Only an active student enrollment can post an update", and only in an  *)
(* open season: that was so when the request was authorised, and it is so  *)
(* when the update appears.                                                *)
PostedByActiveStudent ==
  [][\A u \in updates' :
       u.id \notin {v.id : v \in updates} => open /\ member = "active"]_mondayVars

(* The page never asks for an update it has already posted, nor shows one  *)
(* it has deleted: once the API has confirmed either and the list is       *)
(* loaded, the list says so, whatever load was under way before.           *)
ConfirmedIsListed ==
  load = NoLoad /\ list.ok =>
    /\ \A u \in Live : u.id \in postedIds => [id |-> u.id, week |-> u.week] \in list.items
    /\ \A i \in list.items : i.id \notin deletedIds
=============================================================================
