------------------------------ MODULE SeasonLists ------------------------------
(***************************************************************************)
(* One list of a season on the administration pages: its weeks, its        *)
(* enrollments or its mentorships (pages/AdminPage.tsx and the dialogs it  *)
(* uses), with the cached query behind it (api/queries.ts).                *)
(*                                                                         *)
(* The query reads the list page by page; each page begins after the row   *)
(* the page before it ended with, wherever that row is by then.  A dialog  *)
(* sends one request; when it is answered, it puts the row into the cached *)
(* list, or takes it out, and after some operations has the list loaded    *)
(* again in place of a load that is under way.  Somebody else administers  *)
(* the same season.                                                        *)
(*                                                                         *)
(* A row has a key that is unique in its season: the number of a week, the *)
(* person of an enrollment, the student of a mentorship.  What else it has *)
(* is the number of the change that wrote it.  The count beside the list,  *)
(* the drafts of the dialogs and the list of candidates are left out; who  *)
(* may do what, and the locks of the season, are in SeasonRoster.          *)
(***************************************************************************)
EXTENDS Integers, FiniteSets

CONSTANTS
  RowIds,      \* natural numbers: the order of ids
  Keys,        \* natural numbers: the order of week numbers
  PageLimit,   \* rows of a page
  MaxChanges,  \* bound: changes of the list on the server
  MaxRequests, \* bound: requests of the page
  MaxLoads     \* bound: loads the page starts by itself

ASSUME ListBoundsAssumption ==
  /\ RowIds \subseteq Nat \ {0} /\ IsFiniteSet(RowIds)
  /\ Keys \subseteq Nat /\ Keys # {}
  /\ PageLimit \in Nat \ {0} /\ {MaxChanges, MaxRequests, MaxLoads} \subseteq Nat

VARIABLES
  kind,      \* "weeks", "enrollments" or "mentorships"
  rows,      \* the table: what each id has
  changes,   \* how many changes there were
  cached,    \* the cached list
  fetch,     \* the load under way
  fetches, requests,  \* how many loads and requests there were
  sent,      \* requests that are not answered
  confirmed, \* history: the newest change of each row the page has had confirmed
  raced      \* history: the cached list may be behind what the page did

listVars == <<kind, rows, changes, cached, fetch, fetches, requests, sent, confirmed, raced>>
tableVars == <<rows, changes>>
cacheVars == <<cached, fetch, fetches, raced>>

Row == [key : Keys, at : 0..MaxChanges, state : {"none", "live", "removed", "gone"}]
NoRow == [key |-> CHOOSE key \in Keys : TRUE, at |-> 0, state |-> "none"]
Item == [id : RowIds, key : Keys, at : 0..MaxChanges, live : BOOLEAN]
Ops == {"create", "edit", "end", "move"}

(* A removed member stays in the list an administrator sees.               *)
Visible(id) == rows[id].state \in {"live", "removed"}
AsItem(id) == [id |-> id, key |-> rows[id].key, at |-> rows[id].at, live |-> rows[id].state = "live"]
Table == {AsItem(id) : id \in {i \in RowIds : Visible(i)}}

NoFetch == [at |-> "idle", after |-> 0, seen |-> {}, items |-> {}, first |-> {}, clean |-> TRUE]
NewFetch == [NoFetch EXCEPT !.at = "asked", !.first = Table]

ListInit ==
  /\ kind \in {"weeks", "enrollments", "mentorships"}
  /\ rows = [id \in RowIds |-> NoRow]
  /\ changes = 0 /\ cached = [ok |-> FALSE, items |-> {}]
  /\ fetch = NewFetch /\ fetches = 0 /\ requests = 0 /\ sent = {}
  /\ confirmed = [id \in RowIds |-> 0] /\ raced = FALSE

-----------------------------------------------------------------------------
(* The table                                                               *)

(* A week keeps its number when it is deleted, an enrollment its person    *)
(* when it ends; the student of a mentorship that has ended is free.       *)
Taken(key, id) ==
  \E other \in RowIds \ {id} :
    rows[other].key = key /\
    CASE kind = "weeks" -> rows[other].state # "none"
      [] kind = "enrollments" -> Visible(other)
      [] kind = "mentorships" -> rows[other].state = "live"

EndState == IF kind = "enrollments" THEN "removed" ELSE "gone"

Put(id, key, state) == [rows EXCEPT ![id] = [key |-> key, at |-> changes + 1, state |-> state]]

(* How the API answers an operation on a row, and the table afterwards:    *)
(* new is the id of the row that comes of it.                              *)
Done(op, id, key, new) ==
  CASE op = "create" ->
         rows[new].state = "none" /\ ~Taken(key, new) /\ rows' = Put(new, key, "live")
    [] op = "edit" /\ kind # "mentorships" ->
         /\ rows[id].state = "live" /\ new = id /\ ~Taken(key, id)
         /\ kind = "enrollments" => key = rows[id].key
         /\ rows' = Put(id, key, "live")
    [] op = "edit" /\ kind = "mentorships" ->
         /\ rows[id].state = "live" /\ rows[new].state = "none" /\ ~Taken(key, id)
         /\ rows' = [Put(new, key, "live") EXCEPT ![id].state = "gone"]
    [] op = "end" -> rows[id].state = "live" /\ new = id /\ rows' = Put(id, rows[id].key, EndState)
    [] op = "move" ->
         /\ kind = "enrollments" /\ Visible(id) /\ new = id
         /\ \/ rows' = Put(id, rows[id].key, "gone")
            \/ ~Taken(key, id) /\ rows' = Put(id, key, rows[id].state)

(* 409: another row has the key, or the member is no longer active.        *)
Conflict(op, id, key) ==
  \/ op \in {"create", "edit"} /\ (op = "edit" => rows[id].state = "live") /\ Taken(key, id)
  \/ op = "end" /\ kind = "enrollments" /\ rows[id].state = "removed"
  \/ op = "move" /\ Taken(key, id)

Missing(op, id) ==
  op # "create" /\ (~Visible(id) \/ (op = "edit" /\ rows[id].state # "live"))

(* A load that is under way meets a change half way.                       *)
Disturbed == fetch.at = "asked" /\ fetch.after # 0

Change(op, id, key, new) ==
  /\ changes < MaxChanges
  /\ Done(op, id, key, new)
  /\ changes' = changes + 1
  /\ fetch' = [fetch EXCEPT !.clean = @ /\ ~Disturbed]

ChangedElsewhere(op, id, key, new) ==
  /\ Change(op, id, key, new)
  /\ UNCHANGED <<kind, cached, fetches, requests, sent, confirmed, raced>>

-----------------------------------------------------------------------------
(* Loading the list                                                        *)

Before(a, b) ==
  IF kind = "weeks" THEN a.key < b.key \/ (a.key = b.key /\ a.id < b.id) ELSE a.id < b.id

(* The rows after the boundary.  If that is no longer in the list, there   *)
(* are none.                                                               *)
Rest ==
  IF fetch.after = 0 THEN Table
  ELSE {t \in Table : Visible(fetch.after) /\ Before(AsItem(fetch.after), t)}

PageOf(rest) == {t \in rest : Cardinality({u \in rest : Before(u, t)}) < PageLimit}
LastOf(page) == CHOOSE t \in page : \A u \in page : u = t \/ Before(u, t)

(* fetchAllPages asks for the page after the last until there are no more  *)
(* or a cursor returns.                                                    *)
FetchPage ==
  /\ fetch.at = "asked"
  /\ LET page == PageOf(Rest)
         more == page # Rest
         all == [fetch EXCEPT !.items = @ \cup page]
     IN fetch' = IF more /\ LastOf(page).id \notin fetch.seen
                 THEN [all EXCEPT !.after = LastOf(page).id, !.seen = @ \cup {LastOf(page).id}]
                 ELSE [all EXCEPT !.at = "read"]
  /\ UNCHANGED <<kind, rows, changes, cached, fetches, requests, sent, confirmed, raced>>

ShowFetch ==
  /\ fetch.at = "read"
  /\ cached' = [ok |-> TRUE, items |-> fetch.items]
  /\ raced' = ~fetch.clean
  /\ fetch' = NoFetch
  /\ UNCHANGED <<kind, rows, changes, fetches, requests, sent, confirmed>>

(* A request of the load fails, and its retry; what was loaded stays.      *)
FetchFails ==
  /\ fetch.at = "asked"
  /\ cached' = [cached EXCEPT !.ok = FALSE]
  /\ fetch' = NoFetch /\ raced' = TRUE
  /\ UNCHANGED <<kind, rows, changes, fetches, requests, sent, confirmed>>

(* The page is opened again, the network returns, or Retry.                *)
Refetch ==
  /\ fetch.at = "idle" /\ fetches < MaxLoads
  /\ fetches' = fetches + 1
  /\ fetch' = NewFetch
  /\ UNCHANGED <<kind, rows, changes, cached, requests, sent, confirmed, raced>>

-----------------------------------------------------------------------------
(* The dialogs                                                             *)

(* These stay open, over the page, while they are working.                 *)
Modal(q) == q.op = "move" \/ (q.op = "end" /\ kind # "enrollments")

(* A row's dialogs offer what the row allows; the button of a dialog whose *)
(* request is not answered is disabled.                                    *)
Send(op, item, key) ==
  /\ requests < MaxRequests
  /\ \A q \in sent : ~Modal(q) /\ ~(q.op = op /\ q.id = item.id)
  /\ op \in {"edit", "end"} => item.live
  /\ op = "move" => kind = "enrollments"
  /\ op = "edit" /\ kind = "enrollments" => key = item.key
  /\ requests' = requests + 1
  /\ sent' = {[q EXCEPT !.overlap = @ \/ q.id = item.id] : q \in sent} \cup
       {[n |-> requests, op |-> op, id |-> item.id, key |-> key, at |-> "asked", row |-> item,
         overlap |-> \E q \in sent : q.id = item.id]}
  /\ UNCHANGED <<kind, rows, changes, cached, fetch, fetches, confirmed, raced>>

Answers(q, at, row) == sent' = (sent \ {q}) \cup {[q EXCEPT !.at = at, !.row = row]}

Serve(q, new) ==
  /\ q.at = "asked"
  /\ Change(q.op, q.id, q.key, new)
  /\ Answers(q, "done", AsItem(new)')
  /\ UNCHANGED <<kind, cached, fetches, requests, confirmed, raced>>

Refuses(q) ==
  /\ q.at = "asked"
  /\ \/ Missing(q.op, q.id) /\ Answers(q, "missing", q.row)
     \/ ~Missing(q.op, q.id) /\ Conflict(q.op, q.id, q.key) /\ Answers(q, "conflict", q.row)
  /\ UNCHANGED <<kind, rows, changes, cached, fetch, fetches, requests, confirmed, raced>>

(* Faulty variant: a row that is there already is not looked for. *)
UpsertedFirst(items, item) == items \cup {item}

(* upsertPageItem *)
Upserted(items, item) == {i \in items : i.id # item.id} \cup {item}

Without(items, id) == {i \in items : i.id # id}

(* What the dialog makes of the cached list.                               *)
Patched(q) ==
  CASE q.op = "end" /\ kind # "enrollments" -> Without(cached.items, q.id)
    [] q.op = "edit" /\ kind = "mentorships" -> Upserted(Without(cached.items, q.id), q.row)
    [] q.op = "move" -> cached.items
    [] OTHER -> Upserted(cached.items, q.row)

(* Operations after which the list is loaded again.                        *)
Invalidates(q) ==
  \/ q.op = "move" \/ (q.op = "end" /\ kind = "enrollments")
  \/ q.op \in {"create", "edit"} /\ kind = "mentorships"

(* A list that has never been loaded becomes the row alone; a deletion     *)
(* leaves it alone.                                                        *)
LoadedBy(q) == cached.ok \/ (q.op \in {"create", "edit"})

Answered(q) ==
  /\ q.at = "done"
  /\ sent' = sent \ {q}
  /\ cached' = [ok |-> LoadedBy(q), items |-> Patched(q)]
  /\ confirmed' = [confirmed EXCEPT ![q.row.id] = IF @ < q.row.at THEN q.row.at ELSE @]
  /\ fetch' = IF Invalidates(q) THEN NewFetch ELSE [fetch EXCEPT !.clean = fetch.at = "idle"]
  /\ raced' = (raced \/ q.overlap)
  /\ UNCHANGED <<kind, rows, changes, fetches, requests>>

(* 409: the dialog stays open, and the list is loaded again.               *)
ConflictAnswered(q) ==
  /\ q.at = "conflict"
  /\ sent' = sent \ {q}
  /\ fetch' = IF q.op \in {"create", "edit"} THEN NewFetch ELSE fetch
  /\ UNCHANGED <<kind, rows, changes, cached, fetches, requests, confirmed, raced>>

(* Another error, or no answer.                                            *)
FailureAnswered(q) ==
  /\ sent' = sent \ {q}
  /\ UNCHANGED <<kind, rows, changes, cached, fetch, fetches, requests, confirmed, raced>>

ListNext ==
  \/ \E op \in Ops, id, new \in RowIds, key \in Keys :
       (op = "create" => id = new) /\ ChangedElsewhere(op, id, key, new)
  \/ FetchPage \/ ShowFetch \/ FetchFails \/ Refetch
  \/ \E item \in cached.items, op \in Ops \ {"create"}, key \in Keys : Send(op, item, key)
  \/ \E key \in Keys, id \in RowIds :
       rows[id].state = "none" /\
       Send("create", [id |-> id, key |-> key, at |-> 0, live |-> FALSE], key)
  \/ \E q \in sent, new \in RowIds : (q.op = "create" => new = q.id) /\ Serve(q, new)
  \/ \E q \in sent : Refuses(q) \/ Answered(q) \/ ConflictAnswered(q) \/ FailureAnswered(q)

ListSpec == ListInit /\ [][ListNext]_listVars

-----------------------------------------------------------------------------
(* Properties                                                              *)

(* The variables keep to their types.                                      *)
ListTypeOK ==
  /\ rows \in [RowIds -> Row] /\ changes \in 0..MaxChanges
  /\ cached.ok \in BOOLEAN /\ cached.items \cup fetch.items \cup fetch.first \subseteq Item
  /\ fetch.at \in {"idle", "asked", "read"} /\ fetch.after \in RowIds \cup {0}
  /\ confirmed \in [RowIds -> 0..MaxChanges]
  /\ \A q \in sent : q.op \in Ops /\ q.at \in {"asked", "done", "conflict", "missing"} /\ q.row \in Item

(* What the page has had confirmed it shows, or something newer, whenever  *)
(* no load is under way: unless a list read before, or page by page while  *)
(* rows came and went, has replaced it, a load failed, or two requests     *)
(* about one row were answered in whatever order.  Any later load that is  *)
(* left alone puts that right.                                             *)
ConfirmedIsInList ==
  fetch.at = "idle" /\ ~raced =>
    \A id \in RowIds : confirmed[id] > 0 =>
      /\ \A i \in cached.items : i.id = id => i.at >= confirmed[id]
      /\ Visible(id) => \E i \in cached.items : i.id = id

(* fetchAllPages exists for "a complete relationship graph": a row that was*)
(* in the list throughout the load is in what was loaded.  It need not be: *)
(* README.                                                                 *)
ListIsComplete ==
  [][fetch.at = "read" /\ fetch'.at = "idle" => fetch.first \cap Table \subseteq cached'.items]_listVars

(* "The week is permanently removed": a number is refused only for a week  *)
(* that is in the list.  It is not so: README.                             *)
RemovedWeekIsGone ==
  [][\A q \in sent :
       kind = "weeks" /\ q.op = "create" /\ (\E p \in sent' : p.n = q.n /\ p.at = "conflict") =>
         \E id \in RowIds : Visible(id) /\ rows[id].key = q.key]_listVars
=============================================================================
