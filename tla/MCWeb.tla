---------------------------------- MODULE MCWeb ----------------------------------
(***************************************************************************)
(* One instance for the records of a season as the API keeps them (mock    *)
(* interviews, Monday updates) and for the parts of the web application:   *)
(* the page of the mock interviews, the lists of a season, the session of a*)
(* tab, the guards of the pages, and the account as its owner edits it.    *)
(* Each module has for itself what it needs of the others, so a behaviour  *)
(* is one of one of them: "part" says of which, and the others stay in one *)
(* initial state.                                                          *)
(***************************************************************************)
EXTENDS MockInterviews, MondayUpdates, MockPage, SeasonLists, WebSession, Access, AccountEdits

VARIABLE part  \* the component whose behaviour this is

webVars == <<part, mockVars, mondayVars, pageVars, listVars, sessionVars, accessVars, editVars>>

Newcomer == [name |-> CHOOSE n \in Names : TRUE, zone |-> Detected, configured |-> FALSE]
Nonmember == [roles |-> {}, in |-> [s \in Seasons |-> NotEnrolled], mfa |-> FALSE]

WebInit ==
  /\ part \in {"interview", "updates", "page", "lists", "session", "access", "account"}
  /\ MockInit
  /\ MondayInit /\ (part = "updates" \/ assigned = {})
  /\ PageInit /\ (part = "page" \/ (viewer = "interviewee" /\ wide))
  /\ ListInit /\ (part = "lists" \/ kind = "weeks")
  /\ SessionInit
  /\ EditsInit /\ (part = "account" \/ account = Newcomer)
  /\ AccessInit /\ (part = "access" \/ person = Nonmember)

(* The parts other than p stay as they are.                                *)
OthersStay(p) ==
  /\ p # "interview" => UNCHANGED mockVars
  /\ p # "updates" => UNCHANGED mondayVars
  /\ p # "page" => UNCHANGED pageVars
  /\ p # "lists" => UNCHANGED listVars
  /\ p # "session" => UNCHANGED sessionVars
  /\ p # "access" => UNCHANGED accessVars
  /\ p # "account" => UNCHANGED editVars

WebNext ==
  /\ UNCHANGED part
  /\ \/ part = "interview" /\ OthersStay("interview") /\ MockNext
     \/ part = "updates" /\ OthersStay("updates") /\ MondayNext
     \/ part = "page" /\ OthersStay("page") /\ PageNext
     \/ part = "lists" /\ OthersStay("lists") /\ ListNext
     \/ part = "session" /\ OthersStay("session") /\ SessionNext
     \/ part = "access" /\ OthersStay("access") /\ AccessNext
     \/ part = "account" /\ OthersStay("account") /\ EditsNext

WebSpec == WebInit /\ [][WebNext]_webVars

(* The variables of the part that moves keep to their types; the others    *)
(* are as they began.                                                      *)
WebTypeOK ==
  /\ part = "interview" => MockTypeOK
  /\ part = "updates" => MondayTypeOK
  /\ part = "page" => PageTypeOK
  /\ part = "lists" => ListTypeOK
  /\ part = "session" => SessionTypeOK
  /\ part = "access" => AccessTypeOK
  /\ part = "account" => EditsTypeOK
=============================================================================
