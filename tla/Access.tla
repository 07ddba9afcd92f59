--------------------------------- MODULE Access ---------------------------------
(***************************************************************************)
(* What one signed-in person is shown.  The web application decides it from*)
(* the person's roles: the guards of the routes (App.tsx), the workspaces  *)
(* (WorkspaceContext.tsx), the navigation and the palette of each of them  *)
(* (AppShell.tsx, CommandPalette.tsx) and a guard of their own in two      *)
(* pages.  The API decides again, by the policies of authz.go.  The two    *)
(* were written apart: here they are put side by side.                     *)
(*                                                                         *)
(* The person is verified and active, and what the tab knows of the roles  *)
(* is current.  Redirects are steps of their own.  Seasons are numbered in *)
(* the order of their slugs.                                               *)
(***************************************************************************)
EXTENDS Integers, FiniteSets

CONSTANT Seasons

ASSUME SeasonsAssumption == Seasons \subseteq Nat \ {0} /\ IsFiniteSet(Seasons)

VARIABLES
  person,    \* global roles, enrollments, recent second factor
  path,      \* the address
  selected,  \* the workspace chosen in the shell
  trail      \* history: the addresses left by redirects since the person went somewhere

accessVars == <<person, path, selected, trail>>

GlobalRoles == {"director", "system_admin"}
SeasonRoles == {"student", "mentor", "coordinator"}
EnrollmentStates == {"active", "completed", "ended"}  \* ended: kicked or withdrawn, alike here
NotEnrolled == [role |-> "none", state |-> "none"]
Memberships == [role : SeasonRoles, state : EnrollmentStates] \cup {NotEnrolled}
People == [roles : SUBSET GlobalRoles, in : [Seasons -> Memberships], mfa : BOOLEAN]

Enrolled(p) == {s \in Seasons : p.in[s] # NotEnrolled}
IsActive(p, s) == p.in[s].state = "active"
Alumni(p) == \E s \in Seasons : p.in[s] = [role |-> "student", state |-> "completed"]

-----------------------------------------------------------------------------
(* Addresses                                                               *)

(* Pages that every rule below treats alike are one: "activity" stands for *)
(* /leetcode and /mock-interviews, "season-section" for the people, the    *)
(* mentees, the LeetCode problems and the mock interviews of a season.     *)
SharedPages ==
  {"root", "dashboard", "seasons", "activity", "graduates", "profile", "settings", "forbidden",
   "admin", "admin-users", "admin-enrollments", "two-factor", "users"}
SeasonPages ==
  {"season", "season-section", "season-teams", "season-updates", "person-in-season",
   "season-overview"}
At(name) == [page |-> name, season |-> 0]
In(name, s) == [page |-> name, season |-> s]

routeObjects == {At(n) : n \in SharedPages} \cup {In(n, s) : n \in SeasonPages, s \in Seasons}
IsSeasonRoute(a) == a.page \in SeasonPages \ {"person-in-season"}

-----------------------------------------------------------------------------
(* The guards of the routes                                                *)

IsMember(p) == p.roles # {} \/ Enrolled(p) # {}

HasDirectoryAccess(p) == p.roles # {} \/ Alumni(p) \/ \E s \in Seasons : IsActive(p, s)

(* Faulty variant: a mentor or coordinator who left keeps the review. *)
HistoricalReviewAfterLeaving(p, a) ==
  \E s \in Seasons : /\ p.in[s].role \in {"mentor", "coordinator"}
                     /\ p.in[s].state # "active"
                     /\ a = At("seasons") \/ a.season = s

HistoricalReview(p, a) ==
  \E s \in Seasons : /\ p.in[s].role \in {"mentor", "coordinator"}
                     /\ p.in[s].state = "completed"
                     /\ a = At("seasons") \/ a.season = s

(* Faulty variant: the profile, where nonmembers are sent, is not theirs. *)
NonmemberRoutesWithoutProfile == {At("settings")}

NonmemberRoutes == {At("profile"), At("settings")}
FormerMemberRoutes ==
  {At(n) : n \in {"root", "dashboard", "activity", "profile", "settings"}}

(* Where ProtectedShell, around every page but that of the second factor,  *)
(* sends the person: nowhere, when it lets them pass.                      *)
ProtectedShell(p, a) ==
  IF a = At("two-factor") THEN {}
  ELSE IF ~IsMember(p) THEN IF a \in NonmemberRoutes THEN {} ELSE {At("profile")}
  ELSE IF ~HasDirectoryAccess(p) /\ ~HistoricalReview(p, a) /\ a \notin FormerMemberRoutes
       THEN {At("forbidden")} ELSE {}

RequireAdmin(p) ==
  IF p.roles = {} THEN {At("forbidden")} ELSE IF ~p.mfa THEN {At("two-factor")} ELSE {}

RequireSystemAdmin(p) ==
  IF "system_admin" \notin p.roles THEN {At("forbidden")}
  ELSE IF ~p.mfa THEN {At("two-factor")} ELSE {}

RequireSeasonOperations(p) ==
  IF p.roles = {} /\ \A s \in Seasons : p.in[s] # [role |-> "coordinator", state |-> "active"]
  THEN {At("forbidden")} ELSE IF ~p.mfa THEN {At("two-factor")} ELSE {}

(* The guard of SeasonWorkspacePage *)
SeasonWorkspaceGuard(p, s) ==
  IF p.roles # {} \/ Alumni(p) \/ p.in[s].state = "completed" \/ \E t \in Seasons : IsActive(p, t)
  THEN {} ELSE {At("forbidden")}

(* As whom MondayUpdatesPage receives the person *)
Experience(p, s) ==
  LET m == p.in[s] IN
  IF p.roles # {} \/ m = [role |-> "coordinator", state |-> "active"] THEN "reviewer"
  ELSE IF m.role = "mentor" /\ m.state \in {"active", "completed"} THEN "mentor"
  ELSE IF m.role = "student" THEN "student" ELSE "none"

(* The redirects of the table of routes, and of the pages.  The pages of   *)
(* weeks, enrollments and mentorships are one here.                        *)
RouteTarget(p, a) ==
  CASE a.page = "root" -> {At("dashboard")}
    [] a.page = "users" -> {At("graduates")}
    [] a.page = "season-overview" -> {In("season", a.season)}
    [] a.page = "admin" -> RequireAdmin(p)
    [] a.page = "admin-users" -> RequireSystemAdmin(p)
    [] a.page = "admin-enrollments" -> RequireSeasonOperations(p)
    [] a.page = "season" -> SeasonWorkspaceGuard(p, a.season)
    [] a.page = "season-updates" ->
         IF Experience(p, a.season) = "none" THEN {At("forbidden")} ELSE {}
    [] OTHER -> {}

Target(p, a) == IF ProtectedShell(p, a) # {} THEN ProtectedShell(p, a) ELSE RouteTarget(p, a)
Shown(p, a) == Target(p, a) = {}
Blank(p, a) == a \in Target(p, a)
AtRest == Shown(person, path) \/ Blank(person, path)

-----------------------------------------------------------------------------
(* Workspaces and what they offer                                          *)

MaxSeason == CHOOSE s \in Seasons : \A t \in Seasons : t <= s

(* A workspace is its place in the list, and the role it is for.           *)
workspaces(p) ==
  {w \in {[place |-> -1, role |-> "system_admin"], [place |-> 0, role |-> "director"]} :
     w.role \in p.roles}
  \cup {[place |-> s, role |-> p.in[s].role] :
          s \in {t \in Seasons : p.in[t].state \in {"active", "completed"}}}
  \cup (IF Alumni(p) THEN {[place |-> MaxSeason + 1, role |-> "graduate"]}
        ELSE IF Enrolled(p) # {} /\ ~\E s \in Seasons : IsActive(p, s)
             THEN {[place |-> MaxSeason + 1, role |-> "former_member"]} ELSE {})

NoWorkspace == [place |-> -2, role |-> "none"]

(* The season of the address first, then what was chosen, then the first.  *)
activeWorkspace(p, a, chosen) ==
  LET ws == workspaces(p)
      ofRoute == {w \in ws : IsSeasonRoute(a) /\ w.place = a.season}
      ofChoice == {w \in ws : w.place = chosen}
  IN IF ofRoute # {} THEN CHOOSE w \in ofRoute : TRUE
     ELSE IF ofChoice # {} THEN CHOOSE w \in ofChoice : TRUE
     ELSE IF ws # {} THEN CHOOSE w \in ws : \A v \in ws : w.place <= v.place
     ELSE NoWorkspace

(* itemsFor: the navigation                                                *)
itemsFor(w) ==
  LET Of(names) == {In(n, w.place) : n \in names} IN
  CASE w.role = "student" ->
         {At("dashboard")} \cup Of({"season", "season-section", "season-updates"})
    [] w.role = "mentor" ->
         {At("dashboard")} \cup Of({"season-section", "season-updates"})
    [] w.role = "coordinator" ->
         {At("dashboard"), At("admin-enrollments")}
         \cup Of({"season", "season-section", "season-teams", "season-updates"})
    [] w.role \in GlobalRoles -> {At(n) : n \in {"dashboard", "seasons", "graduates", "activity", "admin"}}
    [] w.role = "graduate" -> {At(n) : n \in {"dashboard", "activity", "graduates"}}
    [] w.role = "former_member" -> {At(n) : n \in {"dashboard", "activity"}}
    [] OTHER -> {At("profile")}

(* The palette offers no more than the navigation, the profile and the     *)
(* settings.                                                               *)
commands(w) == itemsFor(w) \cup {At("profile"), At("settings")}

-----------------------------------------------------------------------------
(* What the API permits (authz.go)                                         *)

IsSeasonAdmin(p, s) == p.roles # {} \/ p.in[s] = [role |-> "coordinator", state |-> "active"]
CanReadSharedActivity(p) == p.roles # {} \/ Alumni(p) \/ \E s \in Seasons : IsActive(p, s)
CanReviewSeason(p, s) ==
  \/ p.roles # {}
  \/ p.in[s].state \in {"active", "completed"} /\ p.in[s].role \in {"mentor", "coordinator"}
CanViewSeason(p, s) == CanReadSharedActivity(p) \/ CanReviewSeason(p, s)
CanRecordActivity(p) == p.roles # {} \/ Enrolled(p) # {}

(* listMondayUpdates and listMondayUpdateReview *)
CanReadUpdates(p, s) ==
  CASE Experience(p, s) = "reviewer" -> IsSeasonAdmin(p, s)
    [] Experience(p, s) = "mentor" -> CanViewSeason(p, s)
    [] OTHER -> p.in[s] = [role |-> "student", state |-> "active"]

(* The reads a page cannot do without, as their handlers decide them.      *)
Permitted(p, a, chosen) ==
  CASE a.page = "dashboard" ->
         /\ CanRecordActivity(p)
         /\ LET s == activeWorkspace(p, a, chosen).place IN s \in Seasons => CanViewSeason(p, s)
    [] a.page \in {"seasons", "activity"} -> CanRecordActivity(p)
    [] a.page = "graduates" -> CanReadSharedActivity(p)
    [] a.page = "season-updates" -> CanReadUpdates(p, a.season)
    [] a.page = "person-in-season" -> CanReadSharedActivity(p) \/ CanReviewSeason(p, a.season)
    [] a.page \in SeasonPages \ {"season-updates", "person-in-season"} -> CanViewSeason(p, a.season)
    [] a.page = "admin" -> p.roles # {} /\ p.mfa
    [] a.page = "admin-users" -> "system_admin" \in p.roles /\ p.mfa
    [] a.page = "admin-enrollments" -> p.mfa /\ (p.roles # {} \/ \E s \in Seasons : IsSeasonAdmin(p, s))
    [] OTHER -> TRUE

-----------------------------------------------------------------------------
AccessInit ==
  /\ person \in People
  /\ path = At("root") /\ selected = NoWorkspace.place /\ trail = {}

(* An address is typed, or a link taken, once the redirects are over: what *)
(* the navigation and the palette offer are addresses like the others.     *)
Visit(a) ==
  /\ path' = a /\ trail' = {}
  /\ UNCHANGED <<person, selected>>

Offered == commands(activeWorkspace(person, path, selected))

(* Navigate, with replace.                                                 *)
Redirect ==
  /\ ~AtRest
  /\ \E a \in Target(person, path) : path' = a
  /\ trail' = trail \cup {path}
  /\ UNCHANGED <<person, selected>>

setActiveWorkspaceId(w) ==
  /\ Shown(person, path) /\ path # At("two-factor")
  /\ w \in workspaces(person)
  /\ selected' = w.place
  /\ path' = IF w.place \notin Seasons THEN At("dashboard")
             ELSE IF path.page = "season-section"
                  THEN In(path.page, w.place) ELSE In("season", w.place)
  /\ trail' = {}
  /\ UNCHANGED person

(* TwoFactorPage                                                           *)
SecondFactor ==
  /\ path = At("two-factor")
  /\ person' = [person EXCEPT !.mfa = TRUE]
  /\ path' = At("dashboard") /\ trail' = {}
  /\ UNCHANGED selected

(* The season closes, the person is taken out of it, or the second factor  *)
(* is no longer recent, and the tab has learnt of it.                      *)
Elsewhere ==
  /\ Shown(person, path)
  /\ \/ \E s \in Seasons, to \in {"completed", "ended"} :
          IsActive(person, s) /\ person' = [person EXCEPT !.in[s].state = to]
     \/ person.mfa /\ person' = [person EXCEPT !.mfa = FALSE]
  /\ trail' = {}
  /\ UNCHANGED <<path, selected>>

AccessNext ==
  \/ AtRest /\ \E a \in routeObjects : Visit(a)
  \/ Redirect \/ SecondFactor \/ Elsewhere
  \/ \E w \in workspaces(person) : setActiveWorkspaceId(w)

AccessSpec == AccessInit /\ [][AccessNext]_accessVars

-----------------------------------------------------------------------------
(* Properties                                                              *)

(* The variables keep to their types. *)
AccessTypeOK ==
  /\ person \in People /\ path \in routeObjects /\ trail \subseteq routeObjects
  /\ selected \in {NoWorkspace.place, -1, 0, MaxSeason + 1} \cup Seasons

(* A page that the guards of the application show is one whose reads the   *)
(* API permits the person, but for the updates of a student who is not     *)
(* active.                                                                 *)
ShownPagesCanBeRead ==
  Shown(person, path) =>
    \/ Permitted(person, path, selected)
    \/ path.page = "season-updates" /\ Experience(person, path.season) = "student"

(* The guards of the shell, of the table of routes and of the pages do not *)
(* send a person round in circles, and leave nobody with an empty window   *)
(* but a former member who is told that they have no access.               *)
RedirectsSettle ==
  /\ path \notin trail
  /\ Blank(person, path) => path = At("forbidden") /\ IsMember(person) /\ ~HasDirectoryAccess(person)

(* "Navigation and views follow the member's role and season context": what*)
(* the navigation and the palette offer is shown, or asks for the second   *)
(* factor.  It is not so: README.                                          *)
NavigationIsShown ==
  Shown(person, path) /\ path # At("two-factor") =>
    \A a \in Offered : Target(person, a) \subseteq {At("two-factor")}
=============================================================================
