------------------------------- MODULE MCBackend -------------------------------
(***************************************************************************)
(* An instance of Backend.  Rows, users, addresses and requests are        *)
(* interchangeable.                                                        *)
(***************************************************************************)
EXTENDS Backend, TLC

(* The parts share the values of their sets, so that there are few         *)
(* permutations: the same two stand for the rows of invitations and of     *)
(* enrollments, two for the users and two for what runs at a time.         *)
ASSUME SharedAssumption == EnrollmentIds = Invites /\ Subjects = Users /\ Calls = Tasks

BackendSymmetry ==
  Permutations(Invites) \cup Permutations(Users) \cup Permutations(Emails)
    \cup Permutations(Tasks)
=============================================================================
