-------------------------------- MODULE Backend --------------------------------
(***************************************************************************)
(* Four parts of the API that share no state: Invitations, Participation,  *)
(* SigningKeys and RateLimits.  A behaviour is one of the part that "part" *)
(* names, and the others rest in one initial state.                        *)
(***************************************************************************)
EXTENDS Invitations, Participation, SigningKeys, RateLimits

VARIABLE part

backendVars == <<part, vars, participationVars, keyVars, rateVars>>

Always == [from |-> 1, to |-> MaxTime]

BackendInit ==
  /\ part \in {"invitations", "participation", "keys", "rates"}
  /\ Init
  /\ ParticipationInit /\ (part # "participation" => dates = [s \in SeasonNumbers |-> Always])
  /\ KeysInit /\ (part # "keys" => published = {})
  /\ RatesInit /\ (part # "rates" => limiter = "api")

BackendNext ==
  /\ UNCHANGED part
  /\ \/ part = "invitations" /\ UNCHANGED <<participationVars, keyVars, rateVars>> /\ Next
     \/ part = "participation" /\ UNCHANGED <<vars, keyVars, rateVars>> /\ ParticipationNext
     \/ part = "keys" /\ UNCHANGED <<vars, participationVars, rateVars>> /\ KeysNext
     \/ part = "rates" /\ UNCHANGED <<vars, participationVars, keyVars>> /\ RatesNext

BackendSpec == BackendInit /\ [][BackendNext]_backendVars

(* The state of the part that moves has its types, as the trigger and the  *)
(* structures of the code declare them; those of Invitations are a theorem *)
(* (InvitationsProofs).                                                    *)
BackendTypeOK ==
  /\ part = "participation" => ParticipationTypeOK
  /\ part = "keys" => KeysTypeOK
  /\ part = "rates" => RatesTypeOK
=============================================================================
