---------------------------- MODULE MCSeasonRoster ----------------------------
(* Instances of SeasonRoster for TLC.  Enrollments, users and transactions *)
(* are interchangeable.                                                    *)
EXTENDS SeasonRoster, TLC

Symmetry == Permutations(Enrollments) \cup Permutations(Users) \cup Permutations(Tasks)
=============================================================================
