------------------------------- MODULE MockPage -------------------------------
(***************************************************************************)
(* The mock interviews page of the web application with one interview on   *)
(* it (pages/MockInterviewsPage.tsx, components/DataTable.tsx).            *)
(*                                                                         *)
(* The page shows what the list query has loaded, and in its place, from   *)
(* the first change made on the page on, what the page itself makes of it. *)
(* Reviews are saved round by round, each with a request of its own.  The  *)
(* interviewee starts a save from the row's checkbox, from the overall or  *)
(* a round's checkbox in the details, or from the dialog of their notes;   *)
(* the interviewer saves contents in one request from a dialog.            *)
(*                                                                         *)
(* In the table (wide) a row's cells are components made anew whenever the *)
(* page renders, so their state ends with it: the dialog, its draft, and   *)
(* whether the row's checkbox is saving.  In the cards (not wide) and in   *)
(* the details it stays.  When a query of the page fails, an error stands  *)
(* in place of every row, and the state of all of them ends.               *)
(*                                                                         *)
(* The interviewee's notes on the whole interview are saved like one more  *)
(* round, the correction of identities like an edit; both are left out,    *)
(* like the answers 409, which load the list anew.                         *)
(***************************************************************************)
EXTENDS Integers, FiniteSets, FiniteSetsExt

CONSTANTS
  RoundCount,  \* rounds are numbered in their order
  Comments,    \* what the interviewee may write on a round
  Contents,    \* what the interviewer may write
  Written,     \* what an interview has before anybody writes: a comment and a content
  Nothing,
  MaxPageRequests, \* bound: saves started on the page and loads of the list, together
  MaxElsewhere     \* bound: reviews the interviewee saves elsewhere

ASSUME PageBoundsAssumption == {RoundCount, MaxPageRequests, MaxElsewhere} \subseteq Nat
ASSUME PageTextsAssumption == Written \in Comments /\ Written \in Contents

VARIABLES
  viewer,      \* "interviewee" or "interviewer"
  wide,        \* a table, not cards
  server,      \* the interview as the API stores it
  listed,      \* as the list query loaded it
  failed,      \* the list was loaded again and failed: an error is shown, and no row
  overlay,     \* what the page shows in place of it (updated[mock.id]), or Nothing
  saves,       \* saves under way
  pending,     \* which checkboxes are disabled
  dialog,      \* the dialog that is open with its draft, or Nothing
  started, loaded, elsewhere,  \* how many saves, loads and reviews elsewhere there were
  acked,       \* history: the last review of each round the API confirmed to the page
  overlapped   \* history: two saves were under way at once

pageVars == <<viewer, wide, server, listed, failed, overlay, saves, pending, dialog,
              started, loaded, elsewhere, acked, overlapped>>

PageRounds == 1..RoundCount
PageReview == [reviewed : BOOLEAN, comment : Comments]
PageMock == [review : [PageRounds -> PageReview], content : Contents]

(* The draft of a dialog: of the interviewee's reviews, or of a content.   *)
PageDialog == [draft : [PageRounds -> PageReview] \cup Contents, saving : BOOLEAN]

ASSUME NothingAssumption ==
  Nothing \notin Comments \cup Contents \cup PageReview \cup PageMock \cup PageDialog

Places == {"row", "overall", "details"}

ShownInterview == IF overlay = Nothing THEN listed ELSE overlay

PageInit ==
  /\ viewer \in {"interviewee", "interviewer"} /\ wide \in BOOLEAN
  /\ server = [review |-> [r \in PageRounds |-> [reviewed |-> FALSE, comment |-> Written]],
               content |-> Written]
  /\ listed = server /\ failed = FALSE /\ overlay = Nothing
  /\ saves = {} /\ pending = [p \in Places |-> FALSE] /\ dialog = Nothing
  /\ started = 0 /\ loaded = 0 /\ elsewhere = 0
  /\ acked = [r \in PageRounds |-> Nothing]
  /\ overlapped = FALSE

-----------------------------------------------------------------------------
(* Rendering                                                               *)

(* Faulty variant: the cards are components of the columns too. *)
RemountsCards == TRUE

(* Does a render of the page end the state of the row's cells?             *)
Remounts == wide

(* The page renders with its data changed, after p and d were set. *)
Rendered(p, d, others) ==
  IF Remounts
  THEN /\ pending' = [p EXCEPT !["row"] = FALSE]
       /\ dialog' = Nothing
       /\ saves' = {[s EXCEPT !.orphan = s.orphan \/ s.at \in {"row", "dialog", "edit"}] :
                    s \in others}
  ELSE pending' = p /\ dialog' = d /\ saves' = others

(* No row is shown any longer: the state of their cells and details ends.  *)
Unmounted(others) ==
  /\ pending' = [p \in Places |-> FALSE]
  /\ dialog' = Nothing
  /\ saves' = {[s EXCEPT !.orphan = TRUE] : s \in others}

(* Nothing the page shows changed. *)
Kept(p, d, others) == pending' = p /\ dialog' = d /\ saves' = others

-----------------------------------------------------------------------------
(* Saving reviews                                                          *)

Start(s) ==
  /\ started + loaded < MaxPageRequests
  /\ started' = started + 1
  /\ saves' = saves \cup {s}
  /\ overlapped' = (overlapped \/ saves # {})
  /\ UNCHANGED <<viewer, wide, server, listed, failed, overlay, loaded, elsewhere, acked>>

(* Faulty variant: a save takes the page's own version, if there is one.   *)
NewSaveOfOverlay(at, reviews) ==
  [n |-> started, at |-> at, base |-> ShownInterview, next |-> overlay, reviews |-> reviews,
   todo |-> DOMAIN reviews, orphan |-> FALSE]

NewSave(at, reviews) ==
  [n |-> started, at |-> at, base |-> ShownInterview, next |-> ShownInterview, reviews |-> reviews,
   todo |-> DOMAIN reviews, orphan |-> FALSE]

(* setReviewed: the comments are those the page shows.                     *)
Toggle(at, rounds, reviewed) ==
  /\ viewer = "interviewee" /\ ~pending[at]
  /\ dialog = Nothing /\ ~failed
  /\ Start(NewSave(at, [r \in rounds |->
                          [reviewed |-> reviewed, comment |-> ShownInterview.review[r].comment]]))
  /\ pending' = [pending EXCEPT ![at] = TRUE]
  /\ UNCHANGED dialog

(* ReviewProgress ticks every round, or unticks them all.                  *)
ToggleAll(at) ==
  LET complete == \A r \in PageRounds : ShownInterview.review[r].reviewed
  IN Toggle(at, {r \in PageRounds : ShownInterview.review[r].reviewed = complete}, ~complete)

ToggleOne(r) == Toggle("details", {r}, ~ShownInterview.review[r].reviewed)

(* The part of the interview the viewer writes.                            *)
Own(m) == IF viewer = "interviewee" THEN m.review ELSE m.content

Open ==
  /\ dialog = Nothing /\ ~failed
  /\ dialog' = [draft |-> Own(ShownInterview), saving |-> FALSE]
  /\ UNCHANGED <<viewer, wide, server, listed, failed, overlay, saves, pending, started, loaded, elsewhere,
                 acked, overlapped>>

Dirty == dialog # Nothing /\ dialog.draft # Own(ShownInterview)

(* One field of a round's review, or the content.                          *)
TypeReview(r, review) ==
  /\ viewer = "interviewee" /\ dialog # Nothing
  /\ Cardinality({f \in DOMAIN review : review[f] # dialog.draft[r][f]}) = 1
  /\ dialog' = [dialog EXCEPT !.draft[r] = review]
  /\ UNCHANGED <<viewer, wide, server, listed, failed, overlay, saves, pending, started, loaded, elsewhere,
                 acked, overlapped>>

TypeContent(content) ==
  /\ viewer = "interviewer" /\ dialog # Nothing
  /\ dialog.draft # content
  /\ dialog' = [dialog EXCEPT !.draft = content]
  /\ UNCHANGED <<viewer, wide, server, listed, failed, overlay, saves, pending, started, loaded, elsewhere,
                 acked, overlapped>>

(* Closing asks before it throws a draft away; a save under way goes on.   *)
Discard ==
  /\ dialog # Nothing
  /\ dialog' = Nothing
  /\ UNCHANGED <<viewer, wide, server, listed, failed, overlay, saves, pending, started, loaded, elsewhere,
                 acked, overlapped>>

Changed == {r \in PageRounds : dialog.draft[r] # ShownInterview.review[r]}

SaveNotes ==
  /\ viewer = "interviewee" /\ Dirty /\ ~dialog.saving
  /\ Start(NewSave("dialog", [r \in Changed |-> dialog.draft[r]]))
  /\ dialog' = [dialog EXCEPT !.saving = TRUE]
  /\ UNCHANGED pending

(* Faulty variant: each round is put into the interview the save began with. *)
WithRoundReviewOfBase(s, r) == [s.base EXCEPT !.review[r] = s.reviews[r]]

(* What the page makes of the interview when the API has confirmed review  *)
(* r of a save.                                                            *)
WithRoundReview(s, r) == [s.next EXCEPT !.review[r] = s.reviews[r]]

(* The next round's request of a save succeeds.                            *)
RoundSaved(s) ==
  /\ s.at # "edit" /\ s.todo # {}
  /\ LET r == Min(s.todo) IN
     /\ server' = [server EXCEPT !.review[r] = s.reviews[r]]
     /\ acked' = [acked EXCEPT ![r] = s.reviews[r]]
     /\ saves' = (saves \ {s}) \cup
          {[s EXCEPT !.next = WithRoundReview(s, r), !.todo = @ \ {r}]}
  /\ UNCHANGED <<viewer, wide, listed, failed, overlay, pending, dialog, started, loaded, elsewhere, overlapped>>

(* The page shows the rounds that were saved, whether or not all were.     *)
Reported(s) == s.next # s.base

(* A save ends: with its rounds saved, closing the dialog that the state of*)
(* the row's menu then has open, or with a request that failed.            *)
Ended(s) ==
  LET p == IF s.at \in Places /\ ~s.orphan THEN [pending EXCEPT ![s.at] = FALSE] ELSE pending
      d == IF s.at = "dialog" /\ ~s.orphan /\ dialog # Nothing
           THEN IF s.todo = {} THEN Nothing ELSE [dialog EXCEPT !.saving = FALSE]
           ELSE dialog
  IN IF Reported(s)
     THEN overlay' = s.next /\ Rendered(p, d, saves \ {s})
     ELSE UNCHANGED overlay /\ Kept(p, d, saves \ {s})

SaveEnds(s) ==
  /\ s.at # "edit" /\ s.todo = {}
  /\ Ended(s)
  /\ UNCHANGED <<viewer, wide, server, listed, failed, started, loaded, elsewhere, acked, overlapped>>

(* The request was refused or never arrived, or only its answer was lost.  *)
SaveFails(s, arrived) ==
  /\ s.at # "edit" /\ s.todo # {}
  /\ Ended(s)
  /\ IF arrived
     THEN server' = [server EXCEPT !.review[Min(s.todo)] = s.reviews[Min(s.todo)]]
     ELSE UNCHANGED server
  /\ UNCHANGED <<viewer, wide, listed, failed, started, loaded, elsewhere, acked, overlapped>>

-----------------------------------------------------------------------------
(* The interviewer's edit                                                  *)

SaveEdit ==
  /\ viewer = "interviewer" /\ Dirty /\ ~dialog.saving
  /\ Start([n |-> started, at |-> "edit", base |-> ShownInterview, content |-> dialog.draft,
            orphan |-> FALSE])
  /\ dialog' = [dialog EXCEPT !.saving = TRUE]
  /\ UNCHANGED pending

(* The answer is the interview as stored, with reviews saved meanwhile.    *)
EditSaved(s) ==
  /\ s.at = "edit"
  /\ server' = [server EXCEPT !.content = s.content]
  /\ overlay' = server'
  /\ Rendered(pending, IF s.orphan THEN dialog ELSE Nothing, saves \ {s})
  /\ UNCHANGED <<viewer, wide, listed, failed, started, loaded, elsewhere, acked, overlapped>>

EditFails(s) ==
  /\ s.at = "edit"
  /\ Kept(pending, IF s.orphan \/ dialog = Nothing THEN dialog
                   ELSE [dialog EXCEPT !.saving = FALSE], saves \ {s})
  /\ UNCHANGED <<viewer, wide, server, listed, failed, overlay, started, loaded, elsewhere, acked, overlapped>>

-----------------------------------------------------------------------------
(* The interviewee, elsewhere, and the list                                *)

ReviewedElsewhere(r, review) ==
  /\ viewer = "interviewer" /\ elsewhere < MaxElsewhere /\ server.review[r] # review
  /\ elsewhere' = elsewhere + 1
  /\ server' = [server EXCEPT !.review[r] = review]
  /\ UNCHANGED <<viewer, wide, listed, failed, overlay, saves, pending, dialog, started, loaded,
                 acked, overlapped>>

(* The list is loaded again: after a 409, when the network is back, or with*)
(* a further page.                                                         *)
Reloaded ==
  /\ started + loaded < MaxPageRequests
  /\ loaded' = loaded + 1
  /\ listed' = server
  /\ failed' = FALSE
  /\ Rendered(pending, dialog, saves)
  /\ UNCHANGED <<viewer, wide, server, overlay, started, elsewhere, acked, overlapped>>

(* The query keeps what it had loaded, but the page does not show it, nor  *)
(* when the people, the seasons or the account fail to load: until a load  *)
(* succeeds, of itself or because the person tries again.                  *)
ReloadFails ==
  /\ ~failed
  /\ failed' = TRUE
  /\ Unmounted(saves)
  /\ UNCHANGED <<viewer, wide, server, listed, overlay, started, loaded, elsewhere, acked,
                 overlapped>>

PageNext ==
  \/ \E at \in {"row", "overall"} : ToggleAll(at)
  \/ \E r \in PageRounds : ToggleOne(r)
  \/ Open \/ Discard \/ SaveNotes \/ SaveEdit \/ Reloaded \/ ReloadFails
  \/ \E r \in PageRounds, v \in PageReview : TypeReview(r, v)
  \/ \E c \in Contents : TypeContent(c)
  \/ \E s \in saves : RoundSaved(s) \/ SaveEnds(s) \/ EditSaved(s) \/ EditFails(s)
  \/ \E s \in saves, arrived \in BOOLEAN : SaveFails(s, arrived)
  \/ \E r \in PageRounds, v \in PageReview : ReviewedElsewhere(r, v)

PageSpec == PageInit /\ [][PageNext]_pageVars

-----------------------------------------------------------------------------
(* Properties                                                              *)

(* The variables keep to their types. *)
PageTypeOK ==
  /\ {server, listed} \subseteq PageMock /\ overlay \in PageMock \cup {Nothing}
  /\ pending \in [Places -> BOOLEAN] /\ failed \in BOOLEAN
  /\ dialog \in PageDialog \cup {Nothing}
  /\ {started, loaded} \subseteq 0..MaxPageRequests /\ elsewhere \in 0..MaxElsewhere
  /\ \A s \in saves : s.base \in PageMock /\ (s.at # "edit" => s.next \in PageMock)
  /\ \A s, t \in saves : s.n = t.n => s = t

(* "Rounds saved before any failure still count": unless two saves were    *)
(* under way at once, the page shows of every round the review that the API*)
(* last confirmed to it, or a save under way has it in the version that the*)
(* page shows when the save ends, also when a later round of it fails.     *)
ConfirmedIsShown ==
  ~overlapped =>
    \A r \in PageRounds : acked[r] # Nothing =>
      \/ ShownInterview.review[r] = acked[r]
      \/ \E s \in saves : s.next.review[r] = acked[r] /\ Reported(s)

(* The same comment goes on "and reports the interview after each saved    *)
(* round so progress shows at once": while a save has rounds to do, what it*)
(* has saved is shown.  It is not, before the save ends: README.           *)
ProgressShowsAtOnce ==
  viewer = "interviewee" /\ ~overlapped /\ (\A s \in saves : s.todo # {}) =>
    \A r \in PageRounds : acked[r] # Nothing => ShownInterview.review[r] = acked[r]

(* In the cards a draft goes only when the person throws it away, when the *)
(* save of a dialog ends, or when the page fails to load again: neither a  *)
(* load that succeeds nor a checkbox that finishes saving takes it.        *)
CardDraftsAreKept ==
  [][~wide /\ Dirty /\ dialog' = Nothing =>
       \/ UNCHANGED <<overlay, listed, failed, saves>>
       \/ \E s \in saves : s.at \in {"dialog", "edit"} /\ \A t \in saves' : t.n # s.n
       \/ ~failed /\ failed']_pageVars

(* "Saves the reviewed state of some rounds, keeping each round's comment":*)
(* a checkbox changes no comment that is stored.  It does: README.         *)
TogglesKeepComments ==
  [][\A s \in saves :
       s.at \in Places /\ (\A t \in saves' : t.n = s.n => t.todo # s.todo) =>
         \A r \in PageRounds : server'.review[r].comment = server.review[r].comment]_pageVars
=============================================================================
