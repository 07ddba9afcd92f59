------------------------------ MODULE AccountEdits ------------------------------
(***************************************************************************)
(* The name and the timezone of an account, as one tab changes them: the   *)
(* first timezone the application stores by itself (WorkspaceContext.tsx), *)
(* the dialog of the profile (ProfilePage.tsx) and the settings            *)
(* (SettingsPage.tsx).  Each sends the whole profile with PATCH /me, filled*)
(* up from what the tab had cached; the API stores it without asking what  *)
(* it was changed from (current_user.go, UpdateUserProfile).               *)
(*                                                                         *)
(* The slug and the picture go the way of the name.  The goals of the      *)
(* settings are the whole program's: what matters of them here is that they*)
(* are sent first.  Another tab or device may change the account at any    *)
(* time.                                                                   *)
(***************************************************************************)
EXTENDS Integers, FiniteSets

CONSTANTS
  Names,
  Zones,
  Detected,        \* the timezone of the browser
  Goals,
  MaxAccountEdits  \* bound: requests of this tab and changes from elsewhere, together

ASSUME EditsAssumption ==
  Detected \in Zones /\ MaxAccountEdits \in Nat

VARIABLES
  account,   \* the row: name, timezone, timezone_configured
  goals,     \* the row of the practice settings
  cachedMe,  \* the query ['me']
  reading,   \* a fetch of it under way, and what the API read for it
  patches,   \* PATCH /me under way
  patched,   \* how many there were
  tried,     \* timezoneInitialisation
  form,      \* the dialog of the profile: open, its values, what they started from
  settings,  \* the page of the settings: what is chosen and typed, and its save
  others,    \* history: since that save was stored, another change was stored or answered
  foreign    \* how often another tab changed the account

editVars == <<account, goals, cachedMe, reading, patches, patched, tried, form, settings, others,
              foreign>>
restVars == <<goals, tried, form, foreign>>

Profiles == [name : Names, zone : Zones, configured : BOOLEAN]
Values(p) == [name |-> p.name, zone |-> p.zone]
ChosenZone(p) == IF p.configured THEN p.zone ELSE Detected
NotRead == "not read"
NoMeFetch == [at |-> "idle", answer |-> NotRead]
NothingTyped == "nothing"

EditsInit ==
  /\ account \in Profiles /\ goals \in Goals
  /\ cachedMe = account /\ reading = NoMeFetch
  /\ patches = {} /\ patched = 0 /\ tried = FALSE /\ foreign = 0 /\ others = FALSE
  /\ form = [open |-> FALSE, values |-> Values(account), start |-> Values(account)]
  /\ settings = [zone |-> ChosenZone(account), typed |-> NothingTyped, save |-> "none",
                 body |-> Values(account), zoneToo |-> FALSE, goals |-> goals]

-----------------------------------------------------------------------------
(* The cached account.  The timezone chosen in the settings follows it when*)
(* it changes: an effect.                                                  *)

Follows(st, p) == IF p = cachedMe THEN st ELSE [st EXCEPT !.zone = ChosenZone(p)]

StartFetch ==
  /\ reading = NoMeFetch
  /\ reading' = [at |-> "sent", answer |-> NotRead]
  /\ UNCHANGED <<restVars, account, cachedMe, patches, patched, settings, others>>

FetchRead ==
  /\ reading.at = "sent"
  /\ reading' = [at |-> "read", answer |-> account]
  /\ UNCHANGED <<restVars, account, cachedMe, patches, patched, settings, others>>

(* The save of the settings waits for its fetch, whatever comes of it.     *)
Settled(st) ==
  CASE st.save = "reading" -> [st EXCEPT !.save = "saved"]
    [] st.save = "failing" -> [st EXCEPT !.save = "failed"]
    [] OTHER -> st

FetchArrives ==
  /\ reading.at = "read"
  /\ reading' = NoMeFetch
  /\ cachedMe' = reading.answer /\ settings' = Settled(Follows(settings, reading.answer))
  /\ UNCHANGED <<restVars, account, patches, patched, others>>

MeFetchFails ==
  /\ reading # NoMeFetch
  /\ reading' = NoMeFetch /\ settings' = Settled(settings)
  /\ UNCHANGED <<restVars, account, cachedMe, patches, patched, others>>

(* Faulty variant: a fetch under way is waited for. *)
InvalidateMeJoined == IF reading = NoMeFetch THEN [at |-> "sent", answer |-> NotRead] ELSE reading

(* invalidateQueries: a fetch under way is cancelled.                      *)
InvalidateMe == [at |-> "sent", answer |-> NotRead]

-----------------------------------------------------------------------------
(* PATCH /me                                                               *)

Patch(from, values) ==
  /\ patched + foreign < MaxAccountEdits /\ patched' = patched + 1
  /\ patches' = patches \cup {[n |-> patched', from |-> from, body |-> values, at |-> "sent"]}

(* updateCurrentUser and UpdateUserProfile: every field is overwritten.    *)
PatchStored(r) ==
  /\ r.at = "sent"
  /\ account' = [name |-> r.body.name, zone |-> r.body.zone, configured |-> TRUE]
  /\ patches' = (patches \ {r}) \cup {[r EXCEPT !.at = "stored"]}
  /\ others' = (r.from # "settings")
  /\ UNCHANGED <<restVars, cachedMe, reading, patched, settings>>

PatchAnswer(r) == [name |-> r.body.name, zone |-> r.body.zone, configured |-> TRUE]

(* The automatic one: the answer goes to the cache, a failure nowhere.     *)
AutoAnswered(r) ==
  /\ r.from = "auto"
  /\ patches' = patches \ {r}
  /\ \/ r.at = "stored" /\ cachedMe' = PatchAnswer(r) /\ settings' = Follows(settings, PatchAnswer(r))
     \/ UNCHANGED <<cachedMe, settings>>
  /\ others' = TRUE
  /\ UNCHANGED <<restVars, account, reading, patched>>

(* The first effect after the account is known, once per tab.              *)
StoreTimezone ==
  /\ ~cachedMe.configured /\ ~tried
  /\ tried' = TRUE
  /\ Patch("auto", [name |-> cachedMe.name, zone |-> Detected])
  /\ UNCHANGED <<account, goals, cachedMe, reading, form, settings, others, foreign>>

-----------------------------------------------------------------------------
(* EditProfileDialog                                                       *)

Submitting == \E r \in patches : r.from = "profile"
Touched == form.values # form.start

OpenProfile ==
  /\ ~form.open
  /\ form' = [form EXCEPT !.open = TRUE]
  /\ UNCHANGED <<account, goals, cachedMe, reading, patches, patched, tried, settings, others,
                 foreign>>

TypeProfile(v) ==
  /\ form.open /\ form.values # v
  /\ form' = [form EXCEPT !.values = v]
  /\ UNCHANGED <<account, goals, cachedMe, reading, patches, patched, tried, settings, others,
                 foreign>>

(* Cancel, or the cross; what was typed is discarded after a question, and *)
(* stays in the form.                                                      *)
CloseProfile ==
  /\ form.open
  /\ form' = [form EXCEPT !.open = FALSE]
  /\ UNCHANGED <<account, goals, cachedMe, reading, patches, patched, tried, settings, others,
                 foreign>>

(* Another page, and back: the form starts from what is cached.            *)
RemountProfile ==
  /\ form.values # Values(cachedMe) \/ form.start # Values(cachedMe)
  /\ ~Submitting
  /\ form' = [open |-> FALSE, values |-> Values(cachedMe), start |-> Values(cachedMe)]
  /\ UNCHANGED <<account, goals, cachedMe, reading, patches, patched, tried, settings, others,
                 foreign>>

SubmitProfile ==
  /\ form.open /\ ~Submitting
  /\ Patch("profile", form.values)
  /\ UNCHANGED <<account, goals, cachedMe, reading, tried, form, settings, others, foreign>>

ProfileAnswered(r) ==
  /\ r.from = "profile"
  /\ patches' = patches \ {r}
  /\ \/ /\ r.at = "stored"
        /\ cachedMe' = PatchAnswer(r) /\ settings' = Follows(settings, PatchAnswer(r))
        /\ form' = [open |-> FALSE, values |-> r.body, start |-> r.body]
     \/ UNCHANGED <<cachedMe, settings, form>>
  /\ others' = TRUE
  /\ UNCHANGED <<account, goals, reading, patched, tried, foreign>>

-----------------------------------------------------------------------------
(* SettingsPage                                                            *)

Saving == settings.save \in {"goals", "zone", "reading", "failing"}

ChooseZone(z) ==
  /\ settings.zone # z
  /\ settings' = [settings EXCEPT !.zone = z, !.save = IF Saving THEN @ ELSE "none"]
  /\ UNCHANGED <<restVars, account, cachedMe, reading, patches, patched, others>>

TypeGoals(g) ==
  /\ settings.typed # g
  /\ settings' = [settings EXCEPT !.typed = g, !.save = IF Saving THEN @ ELSE "none"]
  /\ UNCHANGED <<restVars, account, cachedMe, reading, patches, patched, others>>

(* saveSettings: what it will send is decided now.                         *)
SaveSettings ==
  /\ ~Saving
  /\ settings.zone # cachedMe.zone \/ settings.typed # NothingTyped
  /\ LET zoneToo == settings.zone # cachedMe.zone
         body == [name |-> cachedMe.name, zone |-> settings.zone]
         started == [settings EXCEPT !.body = body, !.zoneToo = zoneToo]
     IN IF settings.typed # NothingTyped
        THEN /\ settings' = [started EXCEPT !.save = "goals", !.goals = settings.typed]
             /\ UNCHANGED <<patches, patched>>
        ELSE settings' = [started EXCEPT !.save = "zone"] /\ Patch("settings", body)
  /\ UNCHANGED <<restVars, account, cachedMe, reading, others>>

(* The goals are stored: whatever was typed since is dropped.              *)
GoalsStored ==
  /\ settings.save = "goals"
  /\ goals' = settings.goals
  /\ IF settings.zoneToo
     THEN /\ settings' = [settings EXCEPT !.typed = NothingTyped, !.save = "zone"]
          /\ Patch("settings", settings.body)
     ELSE /\ settings' = [settings EXCEPT !.typed = NothingTyped, !.save = "saved"]
          /\ UNCHANGED <<patches, patched>>
  /\ UNCHANGED <<account, cachedMe, reading, tried, form, others, foreign>>

GoalsFail ==
  /\ settings.save = "goals"
  /\ settings' = [settings EXCEPT !.save = "failing"] /\ reading' = InvalidateMe
  /\ UNCHANGED <<restVars, account, cachedMe, patches, patched, others>>

SettingsAnswered(r) ==
  /\ r.from = "settings"
  /\ patches' = patches \ {r}
  /\ \/ /\ r.at = "stored"
        /\ cachedMe' = PatchAnswer(r)
        /\ settings' = [Follows(settings, PatchAnswer(r)) EXCEPT !.save = "reading"]
     \/ /\ settings' = [settings EXCEPT !.save = "failing"]
        /\ UNCHANGED cachedMe
  /\ reading' = InvalidateMe
  /\ UNCHANGED <<restVars, account, patched, others>>

-----------------------------------------------------------------------------
(* Another tab, another device, or an administrator.                       *)
AccountChangedElsewhere ==
  /\ patched + foreign < MaxAccountEdits /\ foreign' = foreign + 1
  /\ \E n \in Names, z \in Zones : account' = [name |-> n, zone |-> z, configured |-> TRUE]
  /\ others' = TRUE
  /\ UNCHANGED <<goals, cachedMe, reading, patches, patched, tried, form, settings>>

EditsNext ==
  \/ StartFetch \/ FetchRead \/ FetchArrives \/ MeFetchFails \/ StoreTimezone
  \/ \E r \in patches : PatchStored(r) \/ AutoAnswered(r) \/ ProfileAnswered(r) \/ SettingsAnswered(r)
  \/ OpenProfile \/ CloseProfile \/ RemountProfile \/ SubmitProfile
  \/ \E v \in [name : Names, zone : Zones] : TypeProfile(v)
  \/ \E z \in Zones : ChooseZone(z)
  \/ \E g \in Goals : TypeGoals(g)
  \/ SaveSettings \/ GoalsStored \/ GoalsFail \/ AccountChangedElsewhere

EditsSpec == EditsInit /\ [][EditsNext]_editVars

-----------------------------------------------------------------------------
(* Properties                                                              *)

(* The variables keep to their types. *)
EditsTypeOK ==
  /\ account \in Profiles /\ cachedMe \in Profiles /\ goals \in Goals
  /\ {form.values, form.start, settings.body} \subseteq [name : Names, zone : Zones]
  /\ settings.typed \in Goals \cup {NothingTyped} /\ settings.goals \in Goals /\ settings.zone \in Zones
  /\ {patched, foreign} \subseteq Nat /\ patched + foreign <= MaxAccountEdits
  /\ \A r \in patches : r.n \in 1..patched /\ r.body \in [name : Names, zone : Zones]

(* When the settings say that they are saved, the tab shows the account as *)
(* they were stored, unless another change of it was stored or answered    *)
(* since: a fetch that began before does not undo them.                    *)
SavedIsShown ==
  [][settings.save = "reading" /\ settings'.save = "saved" /\ ~others
     => cachedMe' = [name |-> settings.body.name, zone |-> settings.body.zone, configured |-> TRUE]]_editVars
=============================================================================
