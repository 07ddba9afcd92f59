---------------------------- MODULE MCLeetCodeSync -----------------------------
(* Instances of LeetCodeSync for TLC: the configurations name the workers. *)
(* There is no symmetry, since liveness is checked.                        *)
EXTENDS LeetCodeSync
=============================================================================
