------------------------------ MODULE SigningKeys ------------------------------
(***************************************************************************)
(* The keys the API checks the signatures of access tokens with            *)
(* (authn/validator.go): fetched from the authentication service, kept for *)
(* TTL, and fetched at once when a token names a key that is not among     *)
(* them.  One call at a time fetches, behind the writer's side of a lock;  *)
(* a key is looked up behind the readers'.                                 *)
(*                                                                         *)
(* A fetch ends within the timeout of the client, and a call that waits for*)
(* nothing goes on before the clock does.  A call whose look-up waited for *)
(* a fetch comes before the next: so does Go's lock.  Signatures and claims*)
(* are left out; a token stands for the key it names.                      *)
(***************************************************************************)
EXTENDS Integers

CONSTANTS
  Kids,
  Calls,        \* validations under way
  TTL, Timeout,
  LastMoment,   \* bound: the clock
  MaxRotations  \* bound: keys published and withdrawn

ASSUME KeysAssumption ==
  Kids # {} /\ {TTL, Timeout, LastMoment} \subseteq Nat \ {0} /\ MaxRotations \in Nat

VARIABLES
  now,
  published,  \* keys the authentication service answers with
  withdrawn,  \* history: when each key was last withdrawn, 0 if it never was published
  rotations,
  keys,       \* the cache
  loadedAt,
  call        \* what each call is doing

keyVars == <<now, published, withdrawn, rotations, keys, loadedAt, call>>
serverVars == <<published, withdrawn, rotations>>

NoCall == [at |-> "idle", kid |-> CHOOSE k \in Kids : TRUE, force |-> FALSE, began |-> 0,
           answer |-> {}, waited |-> FALSE, absent |-> FALSE]

KeysInit ==
  /\ now = 1 /\ published \in SUBSET Kids
  /\ withdrawn = [k \in Kids |-> 0] /\ rotations = 0
  /\ keys = {} /\ loadedAt = 0
  /\ call = [c \in Calls |-> NoCall]

Validations(t) ==
  [at : {"idle", "refresh", "fetching", "answered", "lookup", "accepted", "unknown", "failed"},
   kid : Kids, force : BOOLEAN, began : 0..t, answer : SUBSET Kids,
   waited : BOOLEAN, absent : BOOLEAN]

KeysTypeOK ==
  /\ now \in 1..LastMoment /\ rotations \in 0..MaxRotations /\ loadedAt \in 0..now
  /\ published \subseteq Kids /\ keys \subseteq Kids /\ withdrawn \in [Kids -> 0..now]
  /\ call \in [Calls -> Validations(now)]

-----------------------------------------------------------------------------
(* The authentication service.  "absent" remembers of a call that its key  *)
(* was not published at some moment of it.                                 *)

Running(c) == call[c].at \in {"refresh", "fetching", "answered", "lookup"}

Publish(k) ==
  /\ rotations < MaxRotations /\ rotations' = rotations + 1
  /\ k \notin published /\ published' = published \cup {k}
  /\ UNCHANGED <<now, withdrawn, keys, loadedAt, call>>

Withdraw(k) ==
  /\ rotations < MaxRotations /\ rotations' = rotations + 1
  /\ k \in published /\ published' = published \ {k}
  /\ withdrawn' = [withdrawn EXCEPT ![k] = now]
  /\ call' = [c \in Calls |-> [call[c] EXCEPT !.absent = @ \/ (Running(c) /\ call[c].kid = k)]]
  /\ UNCHANGED <<now, keys, loadedAt>>

-----------------------------------------------------------------------------
(* The lock                                                                *)

Fetching(c) == call[c].at \in {"fetching", "answered"}
Free == \A c \in Calls : ~Fetching(c)
Overtaken(c) == call[c].at = "lookup" /\ call[c].waited

(* The call c releases the lock and becomes "next"; who waited to look up  *)
(* a key is next.                                                          *)
Released(c, next) ==
  [d \in Calls |-> IF d = c THEN next
                   ELSE [call[d] EXCEPT !.waited = @ \/ call[d].at = "lookup"]]

-----------------------------------------------------------------------------
(* A validation                                                            *)

Validate(c, k) ==
  /\ ~Running(c)
  /\ call' = [call EXCEPT ![c] = [NoCall EXCEPT !.at = "refresh", !.kid = k, !.absent = k \notin published]]
  /\ UNCHANGED <<now, serverVars, keys, loadedAt>>

(* Faulty variants, none of them part of the specification: a cache that   *)
(* was loaded once is fresh; a forced refresh is content with a fresh one. *)
IsFreshOnce(force) == ~force /\ keys # {}
IsFreshForced(force) == keys # {} /\ now - loadedAt < TTL

IsFresh(force) == ~force /\ keys # {} /\ now - loadedAt < TTL

(* refreshSigningKeys, up to the request                                   *)
Refresh(c) ==
  /\ call[c].at = "refresh" /\ Free /\ \A d \in Calls : ~Overtaken(d)
  /\ call' = IF IsFresh(call[c].force)
             THEN [call EXCEPT ![c].at = "lookup"]
             ELSE [call EXCEPT ![c].at = "fetching", ![c].began = now]
  /\ UNCHANGED <<now, serverVars, keys, loadedAt>>

Answer(c) ==
  /\ call[c].at = "fetching"
  /\ call' = [call EXCEPT ![c].at = "answered", ![c].answer = published]
  /\ UNCHANGED <<now, serverVars, keys, loadedAt>>

Load(c) ==
  /\ call[c].at = "answered" /\ call[c].answer # {}
  /\ keys' = call[c].answer /\ loadedAt' = now
  /\ call' = Released(c, [call[c] EXCEPT !.at = "lookup", !.answer = {}, !.began = 0])
  /\ UNCHANGED <<now, serverVars>>

(* A timeout, another status, a broken or an empty answer: the keys stay,  *)
(* the call ends.                                                          *)
RefreshFails(c) ==
  /\ Fetching(c)
  /\ call' = Released(c, [NoCall EXCEPT !.at = "failed"])
  /\ UNCHANGED <<now, serverVars, keys, loadedAt>>

(* signingKeyForToken                                                      *)
LookUp(c) ==
  /\ call[c].at = "lookup" /\ Free
  /\ call' = [call EXCEPT ![c] =
       IF call[c].kid \in keys THEN [NoCall EXCEPT !.at = "accepted", !.kid = call[c].kid]
       ELSE IF call[c].force THEN [NoCall EXCEPT !.at = "unknown", !.absent = call[c].absent]
       ELSE [@ EXCEPT !.at = "refresh", !.force = TRUE, !.waited = FALSE]]
  /\ UNCHANGED <<now, serverVars, keys, loadedAt>>

(* What has happened at this moment is over.                               *)
KeysTick ==
  /\ now < LastMoment /\ now' = now + 1
  /\ \A c \in Calls : Fetching(c) => now - call[c].began < Timeout
  /\ \A c \in Calls : call[c].at = "lookup" => ~Free
  /\ call' = [c \in Calls |-> IF Running(c) THEN call[c] ELSE NoCall]
  /\ UNCHANGED <<serverVars, keys, loadedAt>>

KeysNext ==
  \/ \E k \in Kids : Publish(k) \/ Withdraw(k)
  \/ \E c \in Calls : Refresh(c) \/ Answer(c) \/ Load(c) \/ RefreshFails(c) \/ LookUp(c)
  \/ \E c \in Calls, k \in Kids : Validate(c, k)
  \/ KeysTick

KeysSpec == KeysInit /\ [][KeysNext]_keyVars

-----------------------------------------------------------------------------
(* A key is accepted only while it is published, and for the time a cache  *)
(* is kept and two fetches may take after: the one that brought it, and    *)
(* one that the look-up waited for.  A key server that fails does not keep *)
(* an old key alive.                                                       *)
WithdrawnKeysStop ==
  \A c \in Calls : call[c].at = "accepted" =>
    \/ call[c].kid \in published
    \/ withdrawn[call[c].kid] > 0 /\ now - withdrawn[call[c].kid] < TTL + 2 * Timeout

(* A key is called unknown only if it was not published all the time of the*)
(* call: however old the cache, and whoever else fetches, the first token  *)
(* of a new key is accepted, unless a fetch fails.                         *)
PublishedKeysWork ==
  \A c \in Calls : call[c].at = "unknown" => call[c].absent
=============================================================================
