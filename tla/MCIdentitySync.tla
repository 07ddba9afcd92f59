--------------------------- MODULE MCIdentitySync ---------------------------
(* Instances of IdentitySync for TLC.  The transactions of the API are     *)
(* interchangeable, and so are the addresses: no action and no property    *)
(* names one, so the safety runs use the symmetry of both.                 *)
EXTENDS IdentitySync, TLC

Symmetry == Permutations(Handlers) \cup Permutations(Emails)
=============================================================================
