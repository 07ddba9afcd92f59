------------------------- MODULE RevocationContract -------------------------
(***************************************************************************)
(* What the two services promise together about the security version of an *)
(* account, without outbox, posts, transactions, retries or restarts: every*)
(* change issues the next version, the API's mirror only moves forward and *)
(* never past what was issued, and a version is promised, that is recorded *)
(* as delivered, only when the mirror has reached it.  Erasing the account *)
(* forgets the promises.                                                   *)
(***************************************************************************)
EXTENDS Integers

VARIABLES
  issued,    \* the newest version of the account
  mirrored,  \* the version the API accepts tokens of
  promised   \* the versions whose revocation has been promised

contractVars == <<issued, mirrored, promised>>

Init == issued = 0 /\ mirrored = 0 /\ promised = {}

Issue ==
  /\ issued' = issued + 1
  /\ promised' \in {promised, {}}
  /\ UNCHANGED mirrored

Mirror ==
  /\ mirrored' \in (mirrored + 1)..issued
  /\ UNCHANGED <<issued, promised>>

Promise ==
  /\ \E v \in 1..mirrored : promised' = promised \cup {v}
  /\ UNCHANGED <<issued, mirrored>>

Next == Issue \/ Mirror \/ Promise

Spec == Init /\ [][Next]_contractVars
=============================================================================
