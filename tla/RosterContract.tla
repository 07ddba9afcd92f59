----------------------------- MODULE RosterContract -----------------------------
(***************************************************************************)
(* What the API promises about the members of a season, without locks,     *)
(* transactions or clocks: every call takes effect at one moment, on the   *)
(* members as they are then.  Members come and are corrected only while the*)
(* season is open, and only an active one changes the role or is removed.  *)
(* A closing completes all active members at once, and a reopening gives   *)
(* back exactly those.  Nobody is a member twice, and a season is deleted  *)
(* only when nobody is.                                                    *)
(***************************************************************************)
CONSTANTS Enrollments, Users, NoUser

VARIABLES
  season,  \* "open", "closed" or "deleted"
  seat     \* who each enrollment is of, the role and the state

contractVars == <<season, seat>>

Roles == {"student", "mentor", "coordinator"}
Empty == [user |-> NoUser, role |-> "none", state |-> "none"]

NotSeated(u) == \A e \in Enrollments : seat[e].user # u
Sits(e, person) == seat' = [seat EXCEPT ![e] = person]

Init == season = "open" /\ seat = [e \in Enrollments |-> Empty]

Enter(e) ==
  /\ season = "open" /\ seat[e] = Empty
  /\ \E u \in Users, role \in Roles, state \in {"active", "kicked", "withdrawn"} :
       NotSeated(u) /\ Sits(e, [user |-> u, role |-> role, state |-> state])
  /\ UNCHANGED season

ChangeRole(e) ==
  /\ seat[e].state = "active"
  /\ \E role \in Roles : Sits(e, [seat[e] EXCEPT !.role = role])
  /\ UNCHANGED season

Remove(e) ==
  /\ seat[e].state = "active"
  /\ Sits(e, [seat[e] EXCEPT !.state = IF seat[e].role = "student" THEN "kicked" ELSE "withdrawn"])
  /\ UNCHANGED season

Correct(e) ==
  /\ season = "open" /\ seat[e] # Empty
  /\ Sits(e, Empty) \/ \E u \in Users : NotSeated(u) /\ Sits(e, [seat[e] EXCEPT !.user = u])
  /\ UNCHANGED season

(* All who are in the one state go to the other.                           *)
AllGo(from, to) ==
  seat' = [e \in Enrollments |-> IF seat[e].state = from THEN [seat[e] EXCEPT !.state = to] ELSE seat[e]]

Close == season = "open" /\ season' = "closed" /\ AllGo("active", "completed")
Reopen == season = "closed" /\ season' = "open" /\ AllGo("completed", "active")

Delete ==
  /\ season # "deleted" /\ \A e \in Enrollments : seat[e] = Empty
  /\ season' = "deleted" /\ UNCHANGED seat

Next ==
  \/ \E e \in Enrollments : Enter(e) \/ ChangeRole(e) \/ Remove(e) \/ Correct(e)
  \/ Close \/ Reopen \/ Delete

Spec == Init /\ [][Next]_contractVars
=============================================================================
