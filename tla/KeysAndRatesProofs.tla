-------------------------- MODULE KeysAndRatesProofs --------------------------
(***************************************************************************)
(* Proofs about the cache of signing keys, for any number of validations,  *)
(* any keys, any time the cache is kept and any timeout; and about the     *)
(* rate limiters, for any window, any quota and any requests.              *)
(*                                                                         *)
(* A key in the cache was published when its fetch began or later, so its  *)
(* withdrawal is at most a timeout older than the cache.  A look-up finds a*)
(* cache of less than TTL, or waited for one fetch that began while it was.*)
(***************************************************************************)
EXTENDS SigningKeys, RateLimits, FiniteSetTheorems, TLAPS

OneFetches == \A c, d \in Calls : Fetching(c) /\ Fetching(d) => c = d

FetchesEnd == \A c \in Calls : Fetching(c) => now - call[c].began <= Timeout

(* The key is published, or was until "since" at the earliest. *)
KnownSince(k, since) == k \in published \/ (withdrawn[k] > 0 /\ since <= withdrawn[k])

AnswersAreRecent ==
  \A c \in Calls : call[c].at = "answered" =>
    \A k \in call[c].answer : KnownSince(k, call[c].began)

CacheIsRecent == \A k \in keys : KnownSince(k, loadedAt - Timeout)

LookUpsAreRecent ==
  \A c \in Calls : call[c].at = "lookup" =>
    /\ call[c].waited => Free /\ now - loadedAt < TTL + Timeout
    /\ ~call[c].waited =>
         /\ Free => now - loadedAt < TTL
         /\ \A d \in Calls : Fetching(d) => call[d].began - loadedAt < TTL

(* What a call knows of a key that is published all the time. *)
AbsencesAreSeen ==
  \A c \in Calls : ~call[c].absent =>
    /\ Running(c) => call[c].kid \in published
    /\ call[c].at = "answered" => call[c].kid \in call[c].answer
    /\ call[c].at = "lookup" /\ call[c].force =>
         /\ call[c].kid \in keys
         /\ \A d \in Calls : call[d].at = "answered" => call[c].kid \in call[d].answer

KeysInv ==
  /\ KeysTypeOK /\ OneFetches /\ FetchesEnd /\ AnswersAreRecent /\ CacheIsRecent
  /\ LookUpsAreRecent /\ AbsencesAreSeen
  /\ WithdrawnKeysStop /\ PublishedKeysWork

-----------------------------------------------------------------------------
LEMMA TimesAreNumbers == TTL \in Nat /\ TTL > 0 /\ Timeout \in Nat /\ Timeout > 0
                         /\ LastMoment \in Nat /\ LastMoment > 0 /\ MaxRotations \in Nat
  BY KeysAssumption

LEMMA NoCallIsValidation ==
  ASSUME NEW t \in Nat
  PROVE  /\ NoCall \in Validations(t) /\ NoCall.at = "idle" /\ ~NoCall.absent
         /\ ~NoCall.force /\ ~NoCall.waited
  <1>1. (CHOOSE k \in Kids : TRUE) \in Kids
    BY KeysAssumption
  <1>2. QED
    BY <1>1 DEF NoCall, Validations
(* The fields of a validation. *)
LEMMA Fields ==
  ASSUME KeysTypeOK, NEW c \in Calls
  PROVE  /\ call[c].at \in {"idle", "refresh", "fetching", "answered", "lookup", "accepted",
                            "unknown", "failed"}
         /\ call[c].kid \in Kids /\ call[c].force \in BOOLEAN
         /\ call[c].began \in Nat /\ call[c].began <= now
         /\ call[c].answer \subseteq Kids
         /\ call[c].waited \in BOOLEAN /\ call[c].absent \in BOOLEAN
         /\ now \in Nat /\ now > 0 /\ loadedAt \in Nat /\ loadedAt <= now
         /\ \A k \in Kids : withdrawn[k] \in Nat /\ withdrawn[k] <= now
  BY DEF KeysTypeOK, Validations

(* A free lock: the cache a look-up reads. *)
LEMMA FreeLookUp ==
  ASSUME KeysInv, NEW c \in Calls, call[c].at = "lookup", Free
  PROVE  now - loadedAt < TTL + Timeout
  BY Fields, TimesAreNumbers DEF KeysInv, LookUpsAreRecent

(* What the cache knows outlives a fetch. *)
LEMMA AcceptedKey ==
  ASSUME KeysInv, NEW k \in keys, now - loadedAt < TTL + Timeout
  PROVE  k \in published \/ (withdrawn[k] > 0 /\ now - withdrawn[k] < TTL + 2 * Timeout)
<1>1. k \in Kids /\ withdrawn[k] \in Nat /\ now \in Nat /\ loadedAt \in Nat
  BY DEF KeysInv, KeysTypeOK
<1>2. CASE k \notin published
  <2>1. withdrawn[k] > 0 /\ loadedAt - Timeout <= withdrawn[k]
    BY <1>2 DEF KeysInv, CacheIsRecent, KnownSince
  <2>2. QED
    BY <1>1, <2>1, TimesAreNumbers
<1>3. QED
  BY <1>2

-----------------------------------------------------------------------------
(* The authentication service                                              *)

LEMMA KeysBegin == KeysInit => KeysInv
<1> SUFFICES ASSUME KeysInit PROVE KeysInv
  OBVIOUS
<1>1. \A c \in Calls :
        call[c] = NoCall /\ call[c].at = "idle" /\ ~call[c].absent /\ call[c] \in Validations(1)
  BY NoCallIsValidation DEF KeysInit
<1>2. KeysTypeOK
  <2>1. call \in [Calls -> Validations(now)]
    BY <1>1 DEF KeysInit
  <2>2. QED
    BY <2>1, TimesAreNumbers DEF KeysInit, KeysTypeOK
<1>3. QED
  BY <1>1, <1>2, TimesAreNumbers
  DEF KeysInit, KeysInv, OneFetches, FetchesEnd, AnswersAreRecent, CacheIsRecent,
      LookUpsAreRecent, AbsencesAreSeen, Running, Fetching, WithdrawnKeysStop, PublishedKeysWork

LEMMA PublishKeeps ==
  ASSUME KeysInv, NEW k \in Kids, Publish(k)
  PROVE  KeysInv'
<1>1. published \subseteq published' /\ published' \subseteq Kids
  BY DEF Publish, KeysInv, KeysTypeOK
<1>2. KeysTypeOK'
  BY <1>1, TimesAreNumbers DEF Publish, KeysInv, KeysTypeOK, Validations
<1>3. OneFetches' /\ FetchesEnd' /\ LookUpsAreRecent'
  BY DEF Publish, KeysInv, OneFetches, FetchesEnd, LookUpsAreRecent, Fetching, Free
<1>4. AnswersAreRecent' /\ CacheIsRecent'
  BY <1>1 DEF Publish, KeysInv, AnswersAreRecent, CacheIsRecent, KnownSince
<1>5. AbsencesAreSeen'
  BY <1>1 DEF Publish, KeysInv, AbsencesAreSeen, Running
<1>6. WithdrawnKeysStop' /\ PublishedKeysWork'
  BY <1>1 DEF Publish, KeysInv, WithdrawnKeysStop, PublishedKeysWork
<1>7. QED
  BY <1>2, <1>3, <1>4, <1>5, <1>6 DEF KeysInv

LEMMA WithdrawKeeps ==
  ASSUME KeysInv, NEW k \in Kids, Withdraw(k)
  PROVE  KeysInv'
<1> USE DEF Withdraw
<1>1. \A c \in Calls :
        /\ call'[c] = [call[c] EXCEPT !.absent = @ \/ (Running(c) /\ call[c].kid = k)]
        /\ call'[c].at = call[c].at /\ call'[c].kid = call[c].kid
        /\ call'[c].force = call[c].force /\ call'[c].began = call[c].began
        /\ call'[c].answer = call[c].answer /\ call'[c].waited = call[c].waited
        /\ call[c].absent => call'[c].absent
        /\ Running(c) /\ call[c].kid = k => call'[c].absent
  BY DEF KeysInv, KeysTypeOK, Validations
<1>2. withdrawn' = [withdrawn EXCEPT ![k] = now] /\ published' = published \ {k}
  OBVIOUS
<1>3. \A i \in Kids : \A since \in Int :
        since <= now /\ KnownSince(i, since) => KnownSince(i, since)'
  BY <1>2, Fields DEF KnownSince, KeysInv, KeysTypeOK
<1>4. KeysTypeOK'
  <2>1. ASSUME NEW c \in Calls PROVE call'[c] \in Validations(now')
    <3>1. call[c] \in Validations(now) /\ Running(c) \in BOOLEAN
      BY DEF KeysInv, KeysTypeOK, Running
    <3>2. call[c].absent \/ (Running(c) /\ call[c].kid = k) \in BOOLEAN
      OBVIOUS
    <3>3. [call[c] EXCEPT !.absent = @ \/ (Running(c) /\ call[c].kid = k)] \in Validations(now)
      BY <3>1, <3>2 DEF Validations
    <3>4. QED
      BY <1>1, <3>3
  <2>2. call' \in [Calls -> Validations(now')]
    BY <2>1
  <2>3. withdrawn' \in [Kids -> 0..now'] /\ rotations' \in 0..MaxRotations
    BY TimesAreNumbers, Fields DEF KeysInv, KeysTypeOK
  <2>4. QED
    BY <2>2, <2>3 DEF KeysInv, KeysTypeOK
<1>5. /\ \A c \in Calls : Fetching(c)' <=> Fetching(c)
      /\ Free' <=> Free
  BY <1>1 DEF Fetching, Free
<1>12. OneFetches' /\ FetchesEnd'
  <2>1. UNCHANGED now /\ OneFetches /\ FetchesEnd
    BY DEF KeysInv
  <2>2. \A c \in Calls : UNCHANGED <<call[c].at, call[c].began>>
    BY <1>1
  <2> HIDE DEF Withdraw
  <2>3. QED
    BY ONLY <1>5, <2>1, <2>2 DEF OneFetches, FetchesEnd
<1>13. LookUpsAreRecent'
  <2>1. UNCHANGED <<now, loadedAt>> /\ LookUpsAreRecent
    BY DEF KeysInv
  <2>2. \A c \in Calls :
          call'[c].at = call[c].at /\ call'[c].waited = call[c].waited /\ call'[c].began = call[c].began
    BY <1>1
  <2> HIDE DEF Withdraw
  <2>3. ASSUME NEW c \in Calls, call'[c].at = "lookup"
        PROVE  /\ call'[c].waited => Free' /\ now' - loadedAt' < TTL + Timeout
               /\ ~call'[c].waited =>
                    /\ Free' => now' - loadedAt' < TTL
                    /\ \A d \in Calls : Fetching(d)' => call'[d].began - loadedAt' < TTL
    <3>1. call[c].at = "lookup"
      BY <2>2, <2>3
    <3>2. CASE call'[c].waited
      <4>1. Free /\ now - loadedAt < TTL + Timeout
        BY <2>1, <2>2, <3>1, <3>2 DEF LookUpsAreRecent
      <4>2. QED
        BY <1>5, <2>1, <3>2, <4>1
    <3>3. CASE ~call'[c].waited
      <4>1. /\ Free => now - loadedAt < TTL
            /\ \A d \in Calls : Fetching(d) => call[d].began - loadedAt < TTL
        BY <2>1, <2>2, <3>1, <3>3 DEF LookUpsAreRecent
      <4>2. QED
        BY <1>5, <2>1, <2>2, <3>3, <4>1
    <3>4. QED
      BY <3>2, <3>3
  <2>4. QED
    BY <2>3 DEF LookUpsAreRecent
<1>6. AnswersAreRecent'
  <2> SUFFICES ASSUME NEW c \in Calls, call'[c].at = "answered", NEW i \in call'[c].answer
               PROVE  i \in published' \/ (withdrawn'[i] > 0 /\ call'[c].began <= withdrawn'[i])
    BY DEF AnswersAreRecent, KnownSince
  <2>1. /\ call[c].at = "answered" /\ i \in call[c].answer /\ i \in Kids
        /\ call'[c].began = call[c].began /\ call[c].began \in Int /\ call[c].began <= now
    BY <1>1, Fields DEF KeysInv
  <2>2. KnownSince(i, call[c].began)
    BY <2>1 DEF KeysInv, AnswersAreRecent
  <2>3. KnownSince(i, call[c].began) => KnownSince(i, call[c].began)'
    <3>1. PICK b \in Int : b = call[c].began /\ call'[c].began = b
      BY <2>1
    <3>2. KnownSince(i, b) => KnownSince(i, b)'
      BY <1>3, <2>1, <3>1
    <3>3. QED
      BY <3>1, <3>2 DEF KnownSince
  <2>4. QED
    BY <2>1, <2>2, <2>3 DEF KnownSince
<1>7. CacheIsRecent'
  BY <1>3, TimesAreNumbers DEF KeysInv, CacheIsRecent, KeysTypeOK
<1>8. AbsencesAreSeen'
  <2> SUFFICES ASSUME NEW c \in Calls, ~call'[c].absent
               PROVE  /\ Running(c)' => call'[c].kid \in published'
                      /\ call'[c].at = "answered" => call'[c].kid \in call'[c].answer
                      /\ call'[c].at = "lookup" /\ call'[c].force =>
                           /\ call'[c].kid \in keys'
                           /\ \A d \in Calls :
                                call'[d].at = "answered" => call'[c].kid \in call'[d].answer
    BY DEF AbsencesAreSeen
  <2>1. ~call[c].absent /\ (Running(c) => call[c].kid # k) /\ (Running(c)' <=> Running(c))
    BY <1>1 DEF Running
  <2>2. QED
    BY <1>1, <1>2, <2>1 DEF KeysInv, AbsencesAreSeen
<1>9. WithdrawnKeysStop'
  <2> SUFFICES ASSUME NEW c \in Calls, call'[c].at = "accepted"
               PROVE  \/ call[c].kid \in published'
                      \/ withdrawn'[call[c].kid] > 0
                         /\ now - withdrawn'[call[c].kid] < TTL + 2 * Timeout
    BY <1>1 DEF WithdrawnKeysStop
  <2>1. CASE call[c].kid = k
    BY <2>1, <1>2, Fields, TimesAreNumbers DEF KeysInv, KeysTypeOK
  <2>2. CASE call[c].kid # k
    BY <2>2, <1>1, <1>2, Fields DEF KeysInv, KeysTypeOK, WithdrawnKeysStop
  <2>3. QED
    BY <2>1, <2>2
<1>10. PublishedKeysWork'
  BY <1>1 DEF KeysInv, PublishedKeysWork
<1>11. QED
  BY <1>4, <1>6, <1>7, <1>8, <1>9, <1>10, <1>12, <1>13 DEF KeysInv

-----------------------------------------------------------------------------
(* Validations                                                             *)

(* A step that changes only the validation c. *)
LEMMA CallsAreValidations ==
  ASSUME KeysTypeOK, NEW c \in Calls, NEW v \in Validations(now),
         call' = [call EXCEPT ![c] = v], UNCHANGED now
  PROVE  /\ call' \in [Calls -> Validations(now')]
         /\ call'[c] = v /\ \A d \in Calls \ {c} : call'[d] = call[d]
  BY DEF KeysTypeOK

LEMMA ValidateKeeps ==
  ASSUME KeysInv, NEW c \in Calls, NEW k \in Kids, Validate(c, k)
  PROVE  KeysInv'
<1> DEFINE v == [NoCall EXCEPT !.at = "refresh", !.kid = k, !.absent = k \notin published]
<1>1. UNCHANGED <<now, published, withdrawn, rotations, keys, loadedAt>>
  BY DEF Validate, serverVars
<1>2. v \in Validations(now) /\ v.at = "refresh" /\ v.kid = k /\ v.absent = (k \notin published)
  <2>1. now \in Nat
    BY DEF KeysInv, KeysTypeOK
  <2>2. QED
    BY <2>1, NoCallIsValidation DEF Validations
<1> HIDE DEF v
<1>3. /\ call' \in [Calls -> Validations(now')]
      /\ call'[c] = v /\ \A d \in Calls \ {c} : call'[d] = call[d]
  BY <1>1, <1>2, CallsAreValidations DEF Validate, KeysInv, v
<1>4. ~Running(c)
  BY DEF Validate
<1>5. KeysTypeOK'
  BY <1>1, <1>3 DEF KeysInv, KeysTypeOK
<1>6. OneFetches' /\ FetchesEnd' /\ LookUpsAreRecent'
  BY <1>1, <1>2, <1>3, <1>4
  DEF KeysInv, OneFetches, FetchesEnd, LookUpsAreRecent, Fetching, Free, Running
<1>7. AnswersAreRecent' /\ CacheIsRecent'
  BY <1>1, <1>2, <1>3 DEF KeysInv, AnswersAreRecent, CacheIsRecent, KnownSince
<1>8. AbsencesAreSeen'
  BY <1>1, <1>2, <1>3, <1>4 DEF KeysInv, AbsencesAreSeen, Running
<1>9. WithdrawnKeysStop' /\ PublishedKeysWork'
  BY <1>1, <1>2, <1>3 DEF KeysInv, WithdrawnKeysStop, PublishedKeysWork
<1>10. QED
  BY <1>5, <1>6, <1>7, <1>8, <1>9 DEF KeysInv

LEMMA RefreshKeeps ==
  ASSUME KeysInv, NEW c \in Calls, Refresh(c)
  PROVE  KeysInv'
<1>1. UNCHANGED <<now, published, withdrawn, rotations, keys, loadedAt>>
  BY DEF Refresh, serverVars
<1>2. /\ call[c] \in Validations(now) /\ call[c].at = "refresh" /\ Free /\ now \in Nat
      /\ \A d \in Calls : call[d].at = "lookup" => ~call[d].waited
  BY DEF Refresh, Overtaken, KeysInv, KeysTypeOK
<1>3. CASE IsFresh(call[c].force)
  <2> DEFINE v == [call[c] EXCEPT !.at = "lookup"]
  <2>1. /\ v \in Validations(now) /\ v.at = "lookup" /\ v.kid = call[c].kid
        /\ v.force = call[c].force /\ v.absent = call[c].absent
    BY <1>2 DEF Validations
  <2>2. call' = [call EXCEPT ![c] = v]
    BY <1>3 DEF Refresh
  <2> HIDE DEF v
  <2>3. /\ call' \in [Calls -> Validations(now')]
        /\ call'[c] = v /\ \A d \in Calls \ {c} : call'[d] = call[d]
    BY <1>1, <2>1, <2>2, CallsAreValidations DEF KeysInv
  <2>4. ~call[c].force /\ now - loadedAt < TTL
    BY <1>3 DEF IsFresh
  <2>5. KeysTypeOK'
    BY <1>1, <2>3 DEF KeysInv, KeysTypeOK
  <2>6. (\A d \in Calls : ~Fetching(d)) /\ (\A d \in Calls : ~Fetching(d)') /\ Free'
    BY <1>2, <2>1, <2>3 DEF Fetching, Free
  <2>7. OneFetches' /\ FetchesEnd'
    BY <2>6 DEF OneFetches, FetchesEnd
  <2>8. LookUpsAreRecent'
    BY <1>1, <1>2, <2>1, <2>3, <2>4, <2>6, Fields, TimesAreNumbers DEF KeysInv, LookUpsAreRecent
  <2>9. AnswersAreRecent' /\ CacheIsRecent'
    BY <1>1, <2>1, <2>3 DEF KeysInv, AnswersAreRecent, CacheIsRecent, KnownSince
  <2>10. AbsencesAreSeen'
    BY <1>1, <1>2, <2>1, <2>3, <2>4 DEF KeysInv, AbsencesAreSeen, Running
  <2>11. WithdrawnKeysStop' /\ PublishedKeysWork'
    BY <1>1, <2>1, <2>3 DEF KeysInv, WithdrawnKeysStop, PublishedKeysWork
  <2>12. QED
    BY <2>5, <2>7, <2>8, <2>9, <2>10, <2>11 DEF KeysInv
<1>4. CASE ~IsFresh(call[c].force)
  <2> DEFINE v == [call[c] EXCEPT !.at = "fetching", !.began = now]
  <2>1. /\ v \in Validations(now) /\ v.at = "fetching" /\ v.kid = call[c].kid
        /\ v.absent = call[c].absent /\ v.began = now
    <3>1. now \in 0..now
      BY <1>2
    <3>2. QED
      BY <1>2, <3>1, Zenon DEF Validations
  <2>2. call' = [call EXCEPT ![c] = v]
    BY <1>4 DEF Refresh
  <2> HIDE DEF v
  <2>3. /\ call' \in [Calls -> Validations(now')]
        /\ call'[c] = v /\ \A d \in Calls \ {c} : call'[d] = call[d]
    BY <1>1, <2>1, <2>2, CallsAreValidations DEF KeysInv
  <2>4. KeysTypeOK'
    BY <1>1, <2>3 DEF KeysInv, KeysTypeOK
  <2>5. (\A d \in Calls : ~Fetching(d)) /\ (\A d \in Calls : Fetching(d)' => d = c)
    BY <1>2, <2>1, <2>3 DEF Fetching, Free
  <2>6. OneFetches' /\ FetchesEnd'
    BY <1>1, <1>2, <2>1, <2>3, <2>5, TimesAreNumbers DEF OneFetches, FetchesEnd
  <2>7. LookUpsAreRecent'
    <3>1. ~Free'
      BY <2>1, <2>3 DEF Free, Fetching
    <3>2. QED
      BY <1>1, <1>2, <2>1, <2>3, <2>5, <3>1 DEF KeysInv, LookUpsAreRecent
  <2>8. AnswersAreRecent' /\ CacheIsRecent'
    BY <1>1, <2>1, <2>3 DEF KeysInv, AnswersAreRecent, CacheIsRecent, KnownSince
  <2>9. AbsencesAreSeen'
    BY <1>1, <1>2, <2>1, <2>3 DEF KeysInv, AbsencesAreSeen, Running
  <2>10. WithdrawnKeysStop' /\ PublishedKeysWork'
    BY <1>1, <2>1, <2>3 DEF KeysInv, WithdrawnKeysStop, PublishedKeysWork
  <2>11. QED
    BY <2>4, <2>6, <2>7, <2>8, <2>9, <2>10 DEF KeysInv
<1>5. QED
  BY <1>3, <1>4

LEMMA AnswerKeeps ==
  ASSUME KeysInv, NEW c \in Calls, Answer(c)
  PROVE  KeysInv'
<1> DEFINE v == [call[c] EXCEPT !.at = "answered", !.answer = published]
<1>1. /\ UNCHANGED <<now, published, withdrawn, rotations, keys, loadedAt>>
      /\ call[c].at = "fetching" /\ call' = [call EXCEPT ![c] = v]
  BY DEF Answer, serverVars
<1>2. /\ v \in Validations(now) /\ v.at = "answered" /\ v.kid = call[c].kid
      /\ v.absent = call[c].absent /\ v.began = call[c].began /\ v.answer = published
  BY DEF Validations, KeysInv, KeysTypeOK
<1> HIDE DEF v
<1>3. /\ call' \in [Calls -> Validations(now')]
      /\ call'[c] = v /\ \A d \in Calls \ {c} : call'[d] = call[d]
  BY <1>1, <1>2, CallsAreValidations DEF KeysInv
<1>4. KeysTypeOK'
  BY <1>1, <1>3 DEF KeysInv, KeysTypeOK
<1>5. /\ \A d \in Calls : Fetching(d)' <=> Fetching(d)
      /\ \A d \in Calls : call'[d].began = call[d].began
      /\ Free' <=> Free
  BY <1>1, <1>2, <1>3 DEF Fetching, Free
<1>6. OneFetches' /\ FetchesEnd'
  BY <1>1, <1>5 DEF KeysInv, OneFetches, FetchesEnd
<1>7. LookUpsAreRecent'
  BY <1>1, <1>2, <1>3, <1>5 DEF KeysInv, LookUpsAreRecent
<1>8. AnswersAreRecent' /\ CacheIsRecent'
  BY <1>1, <1>2, <1>3 DEF KeysInv, AnswersAreRecent, CacheIsRecent, KnownSince
<1>9. AbsencesAreSeen'
  BY <1>1, <1>2, <1>3 DEF KeysInv, AbsencesAreSeen, Running
<1>10. WithdrawnKeysStop' /\ PublishedKeysWork'
  BY <1>1, <1>2, <1>3 DEF KeysInv, WithdrawnKeysStop, PublishedKeysWork
<1>11. QED
  BY <1>4, <1>6, <1>7, <1>8, <1>9, <1>10 DEF KeysInv

(* The validation c ends its fetch; of the others, who look up have waited. *)
LEMMA ReleasedCalls ==
  ASSUME KeysInv, NEW c \in Calls, Fetching(c), NEW v \in Validations(now),
         call' = Released(c, v), UNCHANGED now, v.at \in {"lookup", "failed"}
  PROVE  /\ call' \in [Calls -> Validations(now')] /\ call'[c] = v
         /\ \A d \in Calls \ {c} :
              /\ call'[d].at = call[d].at /\ call'[d].kid = call[d].kid
              /\ call'[d].force = call[d].force /\ call'[d].began = call[d].began
              /\ call'[d].answer = call[d].answer /\ call'[d].absent = call[d].absent
         /\ \A d \in Calls : ~Fetching(d)'
         /\ \A d \in Calls \ {c} : ~Fetching(d)
<1> DEFINE w(d) == [call[d] EXCEPT !.waited = @ \/ call[d].at = "lookup"]
<1>1. ASSUME NEW d \in Calls
      PROVE  /\ w(d) \in Validations(now)
             /\ w(d).at = call[d].at /\ w(d).kid = call[d].kid
             /\ w(d).force = call[d].force /\ w(d).began = call[d].began
             /\ w(d).answer = call[d].answer /\ w(d).absent = call[d].absent
  <2>1. call[d] \in Validations(now)
    BY DEF KeysInv, KeysTypeOK
  <2>2. (call[d].waited \/ call[d].at = "lookup") \in BOOLEAN
    OBVIOUS
  <2>3. QED
    BY <2>1, <2>2 DEF Validations
<1>2. call' = [d \in Calls |-> IF d = c THEN v ELSE w(d)]
  BY DEF Released
<1> HIDE DEF w
<1>3. \A d \in Calls \ {c} : ~Fetching(d)
  BY DEF KeysInv, OneFetches
<1>4. \A d \in Calls \ {c} : call'[d] = w(d)
  BY <1>2
<1>5. call' \in [Calls -> Validations(now')] /\ call'[c] = v
  BY <1>1, <1>2
<1>6. \A d \in Calls : ~Fetching(d)'
  BY <1>1, <1>3, <1>4, <1>5 DEF Fetching
<1>7. QED
  BY <1>1, <1>3, <1>4, <1>5, <1>6

LEMMA LoadKeeps ==
  ASSUME KeysInv, NEW c \in Calls, Load(c)
  PROVE  KeysInv'
<1> DEFINE v == [call[c] EXCEPT !.at = "lookup", !.answer = {}, !.began = 0]
<1>1. /\ UNCHANGED <<now, published, withdrawn, rotations>>
      /\ call[c].at = "answered" /\ Fetching(c) /\ call' = Released(c, v)
      /\ keys' = call[c].answer /\ loadedAt' = now
  BY DEF Load, serverVars, Fetching
<1>2. /\ v \in Validations(now) /\ v.at = "lookup" /\ v.kid = call[c].kid
      /\ v.absent = call[c].absent /\ v.force = call[c].force
  <2>1. call[c] \in Validations(now) /\ 0 \in 0..now /\ {} \in SUBSET Kids
    BY DEF KeysInv, KeysTypeOK
  <2>2. QED
    BY <2>1, Zenon DEF Validations
<1> HIDE DEF v
<1>3. /\ call' \in [Calls -> Validations(now')] /\ call'[c] = v
      /\ \A d \in Calls \ {c} :
           /\ call'[d].at = call[d].at /\ call'[d].kid = call[d].kid
           /\ call'[d].force = call[d].force /\ call'[d].began = call[d].began
           /\ call'[d].answer = call[d].answer /\ call'[d].absent = call[d].absent
      /\ \A d \in Calls : ~Fetching(d)'
      /\ \A d \in Calls \ {c} : ~Fetching(d)
  BY <1>1, <1>2, ReleasedCalls
<1>4. now \in Nat /\ call[c].answer \subseteq Kids /\ call[c].began \in Nat
  BY Fields DEF KeysInv
<1>5. KeysTypeOK'
  BY <1>1, <1>3, <1>4 DEF KeysInv, KeysTypeOK
<1>6. OneFetches' /\ FetchesEnd'
  BY <1>3 DEF OneFetches, FetchesEnd
<1>7. LookUpsAreRecent'
  <2>1. Free' /\ now' - loadedAt' < TTL /\ now' - loadedAt' < TTL + Timeout
    BY <1>1, <1>3, <1>4, TimesAreNumbers DEF Free
  <2>2. QED
    BY <1>3, <2>1 DEF LookUpsAreRecent
<1>8. AnswersAreRecent'
  BY <1>3 DEF AnswersAreRecent, Fetching
<1>9. CacheIsRecent'
  <2> SUFFICES ASSUME NEW k \in keys'
               PROVE  KnownSince(k, now - Timeout)'
    BY <1>1 DEF CacheIsRecent, KnownSince
  <2>1. KnownSince(k, call[c].began)
    BY <1>1 DEF KeysInv, AnswersAreRecent
  <2>2. now - call[c].began <= Timeout /\ withdrawn[k] \in Nat
    BY <1>1, <1>4 DEF KeysInv, FetchesEnd, KeysTypeOK
  <2>3. QED
    BY <1>1, <1>4, <2>1, <2>2, TimesAreNumbers DEF KnownSince
<1>10. AbsencesAreSeen'
  BY <1>1, <1>2, <1>3 DEF KeysInv, AbsencesAreSeen, Running, Fetching
<1>11. WithdrawnKeysStop' /\ PublishedKeysWork'
  BY <1>1, <1>2, <1>3 DEF KeysInv, WithdrawnKeysStop, PublishedKeysWork
<1>12. QED
  BY <1>5, <1>6, <1>7, <1>8, <1>9, <1>10, <1>11 DEF KeysInv

LEMMA RefreshFailsKeeps ==
  ASSUME KeysInv, NEW c \in Calls, RefreshFails(c)
  PROVE  KeysInv'
<1> DEFINE v == [NoCall EXCEPT !.at = "failed"]
<1>1. /\ UNCHANGED <<now, published, withdrawn, rotations, keys, loadedAt>>
      /\ Fetching(c) /\ call' = Released(c, v)
  BY DEF RefreshFails, serverVars
<1>2. v \in Validations(now) /\ v.at = "failed"
  <2>1. now \in Nat
    BY DEF KeysInv, KeysTypeOK
  <2>2. QED
    BY <2>1, NoCallIsValidation DEF Validations
<1> HIDE DEF v
<1>3. /\ call' \in [Calls -> Validations(now')] /\ call'[c] = v
      /\ \A d \in Calls \ {c} :
           /\ call'[d].at = call[d].at /\ call'[d].kid = call[d].kid
           /\ call'[d].force = call[d].force /\ call'[d].began = call[d].began
           /\ call'[d].answer = call[d].answer /\ call'[d].absent = call[d].absent
      /\ \A d \in Calls : ~Fetching(d)'
      /\ \A d \in Calls \ {c} : ~Fetching(d)
  BY <1>1, <1>2, ReleasedCalls
<1>4. KeysTypeOK'
  BY <1>1, <1>3 DEF KeysInv, KeysTypeOK
<1>5. OneFetches' /\ FetchesEnd'
  BY <1>3 DEF OneFetches, FetchesEnd
<1>6. LookUpsAreRecent'
  <2> SUFFICES ASSUME NEW d \in Calls, call'[d].at = "lookup"
               PROVE  Free' /\ call'[d].waited /\ now - loadedAt < TTL + Timeout
    BY <1>1 DEF LookUpsAreRecent
  <2>1. d # c /\ call[d].at = "lookup"
    BY <1>2, <1>3
  <2>2. call'[d].waited
    BY <1>1, <2>1 DEF Released, KeysInv, KeysTypeOK, Validations
  <2>3. ~Free /\ call[c].began - loadedAt < TTL
    BY <1>1, <2>1 DEF KeysInv, LookUpsAreRecent, Free
  <2>4. now - call[c].began <= Timeout
    BY <1>1 DEF KeysInv, FetchesEnd
  <2>5. now - loadedAt < TTL + Timeout
    BY <2>3, <2>4, Fields, TimesAreNumbers DEF KeysInv
  <2>6. QED
    BY <1>3, <2>2, <2>5 DEF Free
<1>7. AnswersAreRecent'
  BY <1>3 DEF AnswersAreRecent, Fetching
<1>8. CacheIsRecent'
  BY <1>1 DEF KeysInv, CacheIsRecent, KnownSince
<1>9. AbsencesAreSeen'
  BY <1>1, <1>2, <1>3 DEF KeysInv, AbsencesAreSeen, Running, Fetching
<1>10. WithdrawnKeysStop' /\ PublishedKeysWork'
  BY <1>1, <1>2, <1>3 DEF KeysInv, WithdrawnKeysStop, PublishedKeysWork
<1>11. QED
  BY <1>4, <1>5, <1>6, <1>7, <1>8, <1>9, <1>10 DEF KeysInv

(* A step that makes of the look-up of c something that is neither a look- *)
(* up nor a fetch.                                                         *)
LEMMA LookedUp ==
  ASSUME KeysInv, NEW c \in Calls, call[c].at = "lookup",
         NEW v \in Validations(now), v.at \in {"accepted", "unknown", "refresh"},
         call' = [call EXCEPT ![c] = v],
         UNCHANGED <<now, published, withdrawn, rotations, keys, loadedAt>>,
         v.at = "accepted" =>
           v.kid \in published
             \/ (withdrawn[v.kid] > 0 /\ now - withdrawn[v.kid] < TTL + 2 * Timeout),
         v.at = "unknown" => v.absent,
         v.at = "refresh" => v.kid = call[c].kid /\ v.absent = call[c].absent
  PROVE  KeysInv'
<1>1. /\ call' \in [Calls -> Validations(now')]
      /\ call'[c] = v /\ \A d \in Calls \ {c} : call'[d] = call[d]
  BY CallsAreValidations DEF KeysInv
<1>2. KeysTypeOK'
  BY <1>1 DEF KeysInv, KeysTypeOK
<1>3. (\A d \in Calls : Fetching(d)' <=> Fetching(d)) /\ (Free' <=> Free) /\ ~Fetching(c)
  BY <1>1 DEF Fetching, Free
<1>4. OneFetches' /\ FetchesEnd'
  BY <1>1, <1>3 DEF KeysInv, OneFetches, FetchesEnd
<1>5. LookUpsAreRecent'
  BY <1>1, <1>3 DEF KeysInv, LookUpsAreRecent
<1>6. AnswersAreRecent' /\ CacheIsRecent'
  BY <1>1 DEF KeysInv, AnswersAreRecent, CacheIsRecent, KnownSince
<1>7. AbsencesAreSeen'
  BY <1>1 DEF KeysInv, AbsencesAreSeen, Running
<1>8. WithdrawnKeysStop' /\ PublishedKeysWork'
  BY <1>1 DEF KeysInv, WithdrawnKeysStop, PublishedKeysWork
<1>9. QED
  BY <1>2, <1>4, <1>5, <1>6, <1>7, <1>8 DEF KeysInv

LEMMA LookUpKeeps ==
  ASSUME KeysInv, NEW c \in Calls, LookUp(c)
  PROVE  KeysInv'
<1>1. /\ UNCHANGED <<now, published, withdrawn, rotations, keys, loadedAt>>
      /\ call[c].at = "lookup" /\ Free
  BY DEF LookUp, serverVars
<1>2. /\ call[c] \in Validations(now) /\ call[c].kid \in Kids /\ now \in Nat
      /\ call[c].absent \in BOOLEAN
  BY Fields DEF KeysInv, KeysTypeOK
<1>3. CASE call[c].kid \in keys
  <2> DEFINE v == [NoCall EXCEPT !.at = "accepted", !.kid = call[c].kid]
  <2>1. v \in Validations(now) /\ v.at = "accepted" /\ v.kid = call[c].kid
    BY <1>2, NoCallIsValidation DEF Validations
  <2>2. call' = [call EXCEPT ![c] = v]
    BY <1>3 DEF LookUp
  <2> HIDE DEF v
  <2>3. now - loadedAt < TTL + Timeout
    BY <1>1, FreeLookUp
  <2>4. call[c].kid \in published
          \/ (withdrawn[call[c].kid] > 0 /\ now - withdrawn[call[c].kid] < TTL + 2 * Timeout)
    BY <1>3, <2>3, AcceptedKey
  <2>5. QED
    BY <1>1, <2>1, <2>2, <2>4, LookedUp
<1>4. CASE call[c].kid \notin keys /\ call[c].force
  <2> DEFINE v == [NoCall EXCEPT !.at = "unknown", !.absent = call[c].absent]
  <2>1. v \in Validations(now) /\ v.at = "unknown" /\ v.absent = call[c].absent
    BY <1>2, NoCallIsValidation DEF Validations
  <2>2. call' = [call EXCEPT ![c] = v]
    BY <1>4 DEF LookUp
  <2> HIDE DEF v
  <2>3. call[c].absent
    BY <1>1, <1>4 DEF KeysInv, AbsencesAreSeen
  <2>4. QED
    BY <1>1, <2>1, <2>2, <2>3, LookedUp
<1>5. CASE call[c].kid \notin keys /\ ~call[c].force
  <2> DEFINE v == [call[c] EXCEPT !.at = "refresh", !.force = TRUE, !.waited = FALSE]
  <2>1. /\ v \in Validations(now) /\ v.at = "refresh" /\ v.kid = call[c].kid
        /\ v.absent = call[c].absent
    BY <1>2 DEF Validations
  <2>2. call' = [call EXCEPT ![c] = v]
    BY <1>5 DEF LookUp
  <2> HIDE DEF v
  <2>3. QED
    BY <1>1, <2>1, <2>2, LookedUp
<1>6. QED
  BY <1>3, <1>4, <1>5

LEMMA KeysTickKeeps ==
  ASSUME KeysInv, KeysTick
  PROVE  KeysInv'
<1>1. /\ UNCHANGED <<published, withdrawn, rotations, keys, loadedAt>>
      /\ now' = now + 1 /\ now \in Nat /\ now < LastMoment
      /\ \A c \in Calls : Fetching(c) => now - call[c].began < Timeout
      /\ \A c \in Calls : call[c].at = "lookup" => ~Free
  BY DEF KeysTick, serverVars, KeysInv, KeysTypeOK
<1>2. \A c \in Calls : call'[c] = IF Running(c) THEN call[c] ELSE NoCall
  BY DEF KeysTick
<1>3. NoCall.at = "idle" /\ NoCall \in Validations(now')
  BY <1>1, NoCallIsValidation
<1>4. \A c \in Calls :
        /\ Running(c) => call'[c] = call[c]
        /\ ~Running(c) => call'[c].at = "idle"
        /\ call'[c].at \in {"refresh", "fetching", "answered", "lookup"} => Running(c)
  BY <1>2, <1>3 DEF Running
<1>5. KeysTypeOK'
  <2>1. ASSUME NEW c \in Calls PROVE call'[c] \in Validations(now')
    <3>1. call[c] \in Validations(now) /\ 0..now \subseteq 0..now'
      BY <1>1 DEF KeysInv, KeysTypeOK
    <3>2. call[c] \in Validations(now')
      BY <3>1, Zenon DEF Validations
    <3>3. QED
      BY <1>2, <1>3, <3>2
  <2>2. call' \in [Calls -> Validations(now')]
    BY <2>1 DEF KeysTick
  <2>3. now' \in 1..LastMoment /\ loadedAt' \in 0..now' /\ withdrawn' \in [Kids -> 0..now']
    BY <1>1, TimesAreNumbers DEF KeysInv, KeysTypeOK
  <2>4. QED
    BY <1>1, <2>2, <2>3 DEF KeysInv, KeysTypeOK
<1>6. (\A c \in Calls : Fetching(c)' <=> Fetching(c)) /\ (Free' <=> Free)
  BY <1>4 DEF Fetching, Free, Running
<1>7. OneFetches'
  BY <1>6 DEF KeysInv, OneFetches
<1>8. FetchesEnd'
  <2> SUFFICES ASSUME NEW c \in Calls, Fetching(c)
               PROVE  now' - call'[c].began <= Timeout
    BY <1>6 DEF FetchesEnd
  <2>1. call'[c] = call[c]
    BY <1>4 DEF Fetching, Running
  <2>2. QED
    BY <1>1, <2>1, Fields, TimesAreNumbers DEF KeysInv
<1>9. LookUpsAreRecent'
  <2> SUFFICES ASSUME NEW c \in Calls, call'[c].at = "lookup"
               PROVE  /\ ~Free' /\ ~call'[c].waited
                      /\ \A d \in Calls : Fetching(d)' => call'[d].began - loadedAt < TTL
    BY <1>1 DEF LookUpsAreRecent
  <2>1. call'[c] = call[c] /\ ~Free
    BY <1>1, <1>4
  <2>2. ~call[c].waited /\ \A d \in Calls : Fetching(d) => call[d].began - loadedAt < TTL
    BY <2>1 DEF KeysInv, LookUpsAreRecent
  <2>3. \A d \in Calls : Fetching(d) => call'[d] = call[d]
    BY <1>4 DEF Fetching, Running
  <2>4. QED
    BY <1>6, <2>1, <2>2, <2>3
<1>10. AnswersAreRecent' /\ CacheIsRecent'
  BY <1>1, <1>4 DEF KeysInv, AnswersAreRecent, CacheIsRecent, KnownSince
<1>11. AbsencesAreSeen'
  BY <1>1, <1>4 DEF KeysInv, AbsencesAreSeen, Running
<1>12. WithdrawnKeysStop' /\ PublishedKeysWork'
  BY <1>4 DEF KeysInv, WithdrawnKeysStop, PublishedKeysWork, Running
<1>13. QED
  BY <1>5, <1>7, <1>8, <1>9, <1>10, <1>11, <1>12 DEF KeysInv

-----------------------------------------------------------------------------
(* The invariant of refreshSigningKeys and signingKeyForToken.             *)
THEOREM KeysInductive == KeysSpec => []KeysInv
<1>1. KeysInit => KeysInv
  BY KeysBegin
<1>2. KeysInv /\ [KeysNext]_keyVars => KeysInv'
  <2> SUFFICES ASSUME KeysInv, [KeysNext]_keyVars PROVE KeysInv'
    OBVIOUS
  <2>1. ASSUME NEW k \in Kids, Publish(k) \/ Withdraw(k) PROVE KeysInv'
    BY <2>1, PublishKeeps, WithdrawKeeps
  <2>2. ASSUME NEW c \in Calls,
               Refresh(c) \/ Answer(c) \/ Load(c) \/ RefreshFails(c) \/ LookUp(c)
        PROVE  KeysInv'
    BY <2>2, RefreshKeeps, AnswerKeeps, LoadKeeps, RefreshFailsKeeps, LookUpKeeps
  <2>3. ASSUME NEW c \in Calls, NEW k \in Kids, Validate(c, k) PROVE KeysInv'
    BY <2>3, ValidateKeeps
  <2>4. CASE KeysTick
    BY <2>4, KeysTickKeeps
  <2>5. CASE UNCHANGED keyVars
    BY <2>5
    DEF keyVars, KeysInv, KeysTypeOK, OneFetches, FetchesEnd, AnswersAreRecent, CacheIsRecent,
        KnownSince, LookUpsAreRecent, AbsencesAreSeen, Running, Fetching, Free,
        WithdrawnKeysStop, PublishedKeysWork
  <2>6. QED
    BY <2>1, <2>2, <2>3, <2>4, <2>5 DEF KeysNext
<1>3. QED
  BY <1>1, <1>2, PTL DEF KeysSpec

(* The cache, the lock and the validations have their types, as the fields *)
(* of Validator declare them.                                              *)
THEOREM KeysTypeCorrect == KeysSpec => []KeysTypeOK
<1>1. KeysInv => KeysTypeOK
  BY DEF KeysInv
<1>2. QED
  BY <1>1, KeysInductive, PTL

(* However many requests are validated and however often the keys change,  *)
(* a withdrawn key is accepted for less than TTL and two timeouts (Validate*)
(* with refreshSigningKeys).                                               *)
THEOREM WithdrawnKeysAreRefused == KeysSpec => []WithdrawnKeysStop
<1>1. KeysInv => WithdrawnKeysStop
  BY DEF KeysInv
<1>2. QED
  BY <1>1, KeysInductive, PTL

(* "unknown key id" is never said of a key that was published all the time *)
(* (signingKeyForToken with its forced refresh).                           *)
THEOREM PublishedKeysAreKnown == KeysSpec => []PublishedKeysWork
<1>1. KeysInv => PublishedKeysWork
  BY DEF KeysInv
<1>2. QED
  BY <1>1, KeysInductive, PTL

-----------------------------------------------------------------------------
(* RateLimits: what a caller is allowed                                    *)
(*                                                                         *)
(* In the window that lasts a caller was allowed what the counter says, or *)
(* the quota; and in the time of a window before it less than a quota, for *)
(* the window before was over by then, and the request that began it older *)
(* still.                                                                  *)

Since(s) == {g \in grants : g.at >= s}
Before(s) == {g \in grants : g.at < s /\ s - g.at < Window}

Least(i, j) == IF i < j THEN i ELSE j

WindowInv ==
  IF counter.started = 0
  THEN /\ \A g \in grants : g.at < instant
       /\ Cardinality(Recent) < Quota
       /\ reply # "refused"
  ELSE /\ counter.used >= 1
       /\ Cardinality(Since(counter.started)) = Least(counter.used, Quota)
       /\ \E g \in grants : g.at = counter.started
       /\ \A g \in grants : g.at < counter.started + Window
       /\ Cardinality(Before(counter.started)) < Quota
       /\ reply = "refused" => ~Expired(counter) /\ counter.used >= Quota

RatesInv ==
  /\ RatesTypeOK
  /\ IsFiniteSet(grants) /\ \A g \in grants : g.n <= Cardinality(grants)
  /\ counter.used <= asked
  /\ WindowInv

LEMMA RatesAreNumbers ==
  /\ Window \in Nat \ {0} /\ Quota \in Nat \ {0} /\ LastInstant \in Nat \ {0} /\ MaxAsked \in Nat
  /\ RatesInv => /\ instant \in Nat \ {0} /\ asked \in Nat /\ Cardinality(grants) \in Nat
                 /\ counter.started \in Nat /\ counter.used \in Nat /\ counter.started <= instant
                 /\ \A g \in grants : g.at \in Nat \ {0} /\ g.at <= instant /\ g.n \in Nat
<1>1. /\ Window \in Nat \ {0} /\ Quota \in Nat \ {0} /\ LastInstant \in Nat \ {0} /\ MaxAsked \in Nat
  BY RatesAssumption
<1>2. ASSUME RatesInv
      PROVE  /\ instant \in Nat \ {0} /\ asked \in Nat /\ Cardinality(grants) \in Nat
             /\ counter.started \in Nat /\ counter.used \in Nat /\ counter.started <= instant
             /\ \A g \in grants : g.at \in Nat \ {0} /\ g.at <= instant /\ g.n \in Nat
  <2>1. instant \in Nat \ {0} /\ asked \in Nat
    BY <1>1, <1>2 DEF RatesInv, RatesTypeOK
  <2>2. Cardinality(grants) \in Nat
    BY <1>2, FS_CardinalityType DEF RatesInv
  <2>3. counter.started \in Nat /\ counter.used \in Nat /\ counter.started <= instant
    BY <1>1, <1>2, <2>1 DEF RatesInv, RatesTypeOK
  <2>4. \A g \in grants : g.at \in Nat \ {0} /\ g.at <= instant /\ g.n \in Nat
    BY <1>1, <1>2, <2>1 DEF RatesInv, RatesTypeOK
  <2>5. QED BY <2>1, <2>2, <2>3, <2>4
<1>3. QED BY <1>1, <1>2

LEMMA GrantsAreFinite ==
  ASSUME RatesInv, NEW A \in SUBSET grants
  PROVE  /\ IsFiniteSet(A) /\ Cardinality(A) \in Nat
         /\ \A B \in SUBSET A : Cardinality(B) <= Cardinality(A)
         /\ \A B \in SUBSET A, g \in A : g \notin B => Cardinality(B) <= Cardinality(A) - 1
<1>1. IsFiniteSet(A) /\ Cardinality(A) \in Nat
  BY FS_Subset, FS_CardinalityType DEF RatesInv
<1>2. \A B \in SUBSET A : Cardinality(B) <= Cardinality(A)
  BY <1>1, FS_Subset
<1>3. ASSUME NEW B \in SUBSET A, NEW g \in A, g \notin B
      PROVE  Cardinality(B) <= Cardinality(A) - 1
  <2>1. IsFiniteSet(A \ {g}) /\ Cardinality(A \ {g}) = Cardinality(A) - 1
    BY <1>1, FS_RemoveElement
  <2>2. B \subseteq A \ {g}
    BY <1>3
  <2>3. QED BY <2>1, <2>2, FS_Subset
<1>4. QED BY <1>1, <1>2, <1>3

LEMMA RatesInitHasInv == RatesInit => RatesInv
<1> SUFFICES ASSUME RatesInit PROVE RatesInv
  OBVIOUS
<1>1. grants = {} /\ IsFiniteSet(grants) /\ Cardinality(grants) = 0 /\ Recent = {}
  BY FS_EmptySet DEF RatesInit, Recent
<1>2. RatesTypeOK
  BY <1>1, RatesAreNumbers DEF RatesInit, RatesTypeOK, NoCounter
<1>3. WindowInv
  BY <1>1, RatesAreNumbers DEF RatesInit, WindowInv, NoCounter
<1>4. QED BY <1>1, <1>2, <1>3 DEF RatesInit, RatesInv, NoCounter

(* When the window is over, less than a quota was allowed in the time of a *)
(* window that ends now, and nothing at this instant.                      *)
LEMMA ExpiredIsOld ==
  ASSUME RatesInv, Expired(counter)
  PROVE  (\A g \in grants : g.at < instant) /\ Cardinality(Recent) < Quota
<1>1. CASE counter.started = 0
  BY <1>1 DEF RatesInv, WindowInv
<1>2. CASE counter.started # 0
  <2> DEFINE s == counter.started
  <2>1. instant - s >= Window
    BY <1>2 DEF Expired
  <2>2. PICK g0 \in grants : g0.at = s
    BY <1>2 DEF RatesInv, WindowInv
  <2>3. Recent \in SUBSET Since(s) /\ g0 \notin Recent /\ g0 \in Since(s)
    BY <2>1, <2>2, RatesAreNumbers DEF Recent, Since
  <2>4. Since(s) \in SUBSET grants
    BY DEF Since
  <2>5. Cardinality(Since(s)) <= Quota
    BY <1>2, RatesAreNumbers DEF RatesInv, WindowInv, Least
  <2>6. Cardinality(Recent) <= Cardinality(Since(s)) - 1 /\ Cardinality(Recent) \in Nat
        /\ Cardinality(Since(s)) \in Nat
    BY <2>3, <2>4, GrantsAreFinite DEF Recent
  <2>7. \A g \in grants : g.at < instant
    BY <1>2, <2>1, RatesAreNumbers DEF RatesInv, WindowInv
  <2> HIDE DEF s
  <2>8. QED BY <2>5, <2>6, <2>7, RatesAreNumbers
<1>3. QED BY <1>1, <1>2

(* What the bucket of a request stands for. *)
LEMMA BucketCounts ==
  ASSUME RatesInv
  PROVE  /\ Bucket.started \in 1..instant /\ instant - Bucket.started < Window
         /\ Bucket.used \in 0..asked
         /\ Bucket \in [started : 0..instant, used : 0..MaxAsked]
         /\ Cardinality(Since(Bucket.started)) = Least(Bucket.used, Quota)
         /\ Cardinality(Before(Bucket.started)) < Quota
         /\ IF Bucket.used = 0 THEN Bucket.started = instant
            ELSE (\E g \in grants : g.at = Bucket.started) /\ Bucket = counter /\ ~Expired(counter)
<1>1. CASE Expired(counter)
  <2>1. Bucket = [started |-> instant, used |-> 0]
    BY <1>1 DEF Bucket
  <2>2. Bucket.started = instant /\ Bucket.used = 0
    BY <2>1
  <2>3. Since(instant) = {} /\ Before(instant) = Recent
    BY <1>1, ExpiredIsOld, RatesAreNumbers DEF Since, Before, Recent
  <2>4. Cardinality(Since(instant)) = 0 /\ Cardinality(Before(instant)) < Quota
    BY <1>1, <2>3, FS_EmptySet, ExpiredIsOld
  <2>5. instant - instant < Window /\ instant \in 1..instant /\ 0 \in 0..asked /\ Least(0, Quota) = 0
    BY RatesAreNumbers DEF Least
  <2>6. Bucket \in [started : 0..instant, used : 0..MaxAsked]
    BY <2>1, RatesAreNumbers
  <2>7. QED BY <2>2, <2>4, <2>5, <2>6
<1>2. CASE ~Expired(counter)
  <2>1. Bucket = counter /\ counter.started # 0 /\ instant - counter.started < Window
    BY <1>2, RatesAreNumbers DEF Bucket, Expired
  <2>2. counter.started \in 1..instant /\ counter.used \in 0..asked
    BY <2>1, RatesAreNumbers DEF RatesInv
  <2>3. counter.used # 0
    BY <2>1 DEF RatesInv, WindowInv
  <2>4. QED BY <1>2, <2>1, <2>2, <2>3 DEF RatesInv, RatesTypeOK, WindowInv
<1>3. QED BY <1>1, <1>2

LEMMA GrantKeepsInv ==
  ASSUME RatesInv, Replied(TRUE), Bucket.used < Quota,
         counter' = [Bucket EXCEPT !.used = @ + 1]
  PROVE  RatesInv'
<1> DEFINE g0 == [n |-> Cardinality(grants) + 1, at |-> instant]
<1>1. PICK s, k : s = Bucket.started /\ k = Bucket.used
  OBVIOUS
<1>2. /\ s \in 1..instant /\ instant - s < Window /\ k \in 0..asked /\ k < Quota
      /\ Cardinality(Since(s)) = k /\ Cardinality(Before(s)) < Quota
      /\ k = 0 => s = instant
      /\ k # 0 => \E g \in grants : g.at = s
  BY <1>1, BucketCounts, RatesAreNumbers DEF Least
<1>3. /\ counter' \in [started : 0..instant, used : 0..MaxAsked]
      /\ counter'.started = s /\ counter'.used = k + 1
  <2>1. Bucket \in [started : 0..instant, used : 0..MaxAsked] /\ k + 1 \in 0..MaxAsked
    BY <1>2, BucketCounts, RatesAreNumbers DEF Replied, RatesInv, RatesTypeOK
  <2> HIDE DEF Bucket
  <2>2. QED BY <1>1, <2>1
<1>4. /\ asked < MaxAsked /\ asked' = asked + 1 /\ instant' = instant /\ reply' = "allowed"
      /\ grants' = grants \cup {g0}
  BY DEF Replied
<1>5. g0.at = instant /\ g0.n = Cardinality(grants) + 1 /\ g0 \notin grants
  <2>1. g0.at = instant /\ g0.n = Cardinality(grants) + 1
    OBVIOUS
  <2>2. Cardinality(grants) + 1 > Cardinality(grants)
    BY RatesAreNumbers
  <2> HIDE DEF g0
  <2>3. QED BY <2>1, <2>2, RatesAreNumbers DEF RatesInv
<1>6. g0 \in [n : 1..MaxAsked, at : 1..instant]
  BY <1>4, RatesAreNumbers DEF RatesInv, RatesTypeOK
<1> HIDE DEF g0
<1>7. IsFiniteSet(grants') /\ Cardinality(grants') = Cardinality(grants) + 1
  BY <1>4, <1>5, FS_AddElement DEF RatesInv
<1>8. RatesTypeOK'
  <2>1. Cardinality(grants') <= asked'
    BY <1>4, <1>7, RatesAreNumbers DEF RatesInv, RatesTypeOK
  <2>2. grants' \subseteq [n : 1..MaxAsked, at : 1..instant]
    BY <1>4, <1>6 DEF RatesInv, RatesTypeOK
  <2>3. asked' \in 0..MaxAsked
    BY <1>4, RatesAreNumbers
  <2>4. QED BY <1>3, <1>4, <2>1, <2>2, <2>3 DEF RatesInv, RatesTypeOK
<1>9. \A g \in grants' : g.n <= Cardinality(grants')
  BY <1>4, <1>5, <1>7, RatesAreNumbers DEF RatesInv
<1>10. Since(s)' = Since(s) \cup {g0} /\ Before(s)' = Before(s)
  BY <1>2, <1>4, <1>5, RatesAreNumbers DEF Since, Before
<1>11. Cardinality(Since(s)') = k + 1
  <2>1. IsFiniteSet(Since(s)) /\ g0 \notin Since(s)
    BY <1>5, GrantsAreFinite DEF Since
  <2>2. QED BY <1>2, <1>10, <2>1, FS_AddElement
<1>12. \E g \in grants' : g.at = s
  BY <1>2, <1>4, <1>5
<1>13. \A g \in grants' : g.at < s + Window
  BY <1>2, <1>4, <1>5, RatesAreNumbers
<1>14. WindowInv'
  <2>1. k + 1 >= 1 /\ k + 1 = Least(k + 1, Quota) /\ s # 0
    BY <1>2, RatesAreNumbers DEF Least
  <2>2. QED BY <1>2, <1>3, <1>4, <1>10, <1>11, <1>12, <1>13, <2>1 DEF WindowInv, Since, Before
<1>15. counter'.used <= asked'
  BY <1>2, <1>3, <1>4, RatesAreNumbers
<1>16. QED BY <1>7, <1>8, <1>9, <1>14, <1>15 DEF RatesInv

LEMMA RefusalKeepsInv ==
  ASSUME RatesInv, Replied(FALSE), Bucket.used >= Quota,
         counter' \in {counter, [Bucket EXCEPT !.used = @ + 1]}
  PROVE  RatesInv'
<1>1. Bucket = counter /\ ~Expired(counter) /\ counter.used >= Quota /\ counter.started # 0
  <2>1. Bucket.used # 0
    BY RatesAreNumbers, BucketCounts
  <2>2. QED BY <2>1, BucketCounts DEF Expired
<1>2. PICK k \in {counter.used, counter.used + 1} :
         /\ counter' = [counter EXCEPT !.used = k]
         /\ counter' \in [started : 0..instant, used : Nat]
         /\ counter'.started = counter.started /\ counter'.used = k
  <2>1. counter \in [started : 0..instant, used : Nat]
    BY RatesAreNumbers DEF RatesInv, RatesTypeOK
  <2>2. counter = [counter EXCEPT !.used = counter.used]
    BY <2>1
  <2>3. PICK k \in {counter.used, counter.used + 1} : counter' = [counter EXCEPT !.used = k]
    BY <1>1, <2>2
  <2>4. k \in Nat
    BY RatesAreNumbers
  <2>5. QED BY <2>1, <2>3, <2>4
<1>3. /\ asked < MaxAsked /\ asked' = asked + 1 /\ instant' = instant /\ reply' = "refused"
      /\ grants' = grants
  BY DEF Replied
<1>4. k \in Nat /\ k >= Quota /\ k <= asked + 1 /\ k >= counter.used
  BY <1>1, <1>2, RatesAreNumbers DEF RatesInv
<1>5. RatesTypeOK'
  <2>1. k \in 0..MaxAsked /\ asked' \in 0..MaxAsked /\ Cardinality(grants) <= asked'
    BY <1>3, <1>4, RatesAreNumbers DEF RatesInv, RatesTypeOK
  <2>2. counter' \in [started : 0..instant, used : 0..MaxAsked]
    BY <1>2, <2>1
  <2>3. QED BY <1>3, <2>1, <2>2 DEF RatesInv, RatesTypeOK
<1>6. Least(k, Quota) = Quota /\ Least(counter.used, Quota) = Quota
  BY <1>1, <1>4, RatesAreNumbers DEF Least
<1>7. ~Expired(counter)'
  BY <1>1, <1>2, <1>3 DEF Expired
<1>8. WindowInv'
  <2>1. k >= 1
    BY <1>4, RatesAreNumbers
  <2>2. QED BY <1>1, <1>2, <1>3, <1>4, <1>6, <1>7, <2>1
        DEF RatesInv, WindowInv, Since, Before
<1>9. QED BY <1>2, <1>3, <1>4, <1>5, <1>8 DEF RatesInv

LEMMA PruneKeepsInv ==
  ASSUME RatesInv, prune
  PROVE  RatesInv'
<1>1. /\ counter' = NoCounter /\ Expired(counter)
      /\ UNCHANGED <<limiter, instant, asked, grants, reply>>
  BY DEF prune
<1>2. NoCounter.started = 0 /\ NoCounter.used = 0
      /\ NoCounter \in [started : 0..instant, used : 0..MaxAsked]
  BY RatesAreNumbers DEF NoCounter
<1>3. (\A g \in grants : g.at < instant) /\ Cardinality(Recent) < Quota
  BY <1>1, ExpiredIsOld
<1>4. reply # "refused"
  BY <1>1 DEF RatesInv, WindowInv
<1>5. WindowInv'
  BY <1>1, <1>2, <1>3, <1>4 DEF WindowInv, Recent
<1>6. RatesTypeOK'
  BY <1>1, <1>2 DEF RatesInv, RatesTypeOK
<1>7. QED BY <1>1, <1>2, <1>5, <1>6, RatesAreNumbers DEF RatesInv

LEMMA TickKeepsInv ==
  ASSUME RatesInv, RatesTick
  PROVE  RatesInv'
<1>1. /\ instant < LastInstant /\ instant' = instant + 1 /\ reply' = "none"
      /\ UNCHANGED <<limiter, counter, asked, grants>>
  BY DEF RatesTick
<1>2. RatesTypeOK'
  <2>1. instant' \in 1..LastInstant /\ 1..instant \subseteq 1..instant' /\ 0..instant \subseteq 0..instant'
    BY <1>1, RatesAreNumbers
  <2>2. grants \subseteq [n : 1..MaxAsked, at : 1..instant']
    BY <2>1 DEF RatesInv, RatesTypeOK
  <2>3. counter \in [started : 0..instant', used : 0..MaxAsked]
    BY <2>1 DEF RatesInv, RatesTypeOK
  <2>4. QED BY <1>1, <2>1, <2>2, <2>3 DEF RatesInv, RatesTypeOK
<1>3. Recent' \in SUBSET Recent /\ Recent \in SUBSET grants
  BY <1>1, RatesAreNumbers DEF Recent
<1>4. Cardinality(Recent') <= Cardinality(Recent) /\ Cardinality(Recent) \in Nat
      /\ Cardinality(Recent') \in Nat
  BY <1>3, GrantsAreFinite
<1>5. WindowInv'
  <2>1. CASE counter.started = 0
    <3>1. \A g \in grants' : g.at < instant'
      BY <1>1, RatesAreNumbers
    <3>2. Cardinality(Recent') < Quota
      BY <1>4, <2>1, RatesAreNumbers DEF RatesInv, WindowInv
    <3>3. QED BY <1>1, <2>1, <3>1, <3>2 DEF WindowInv
  <2>2. CASE counter.started # 0
    BY <1>1, <2>2 DEF RatesInv, WindowInv, Since, Before
  <2>3. QED BY <2>1, <2>2
<1>6. QED BY <1>1, <1>2, <1>5 DEF RatesInv

LEMMA RatesStepKeepsInv ==
  ASSUME RatesInv, [RatesNext]_rateVars
  PROVE  RatesInv'
<1>1. Bucket.used \in Int /\ Quota \in Int
  BY BucketCounts, RatesAreNumbers
<1>2. CASE Allow
  <2>1. CASE Bucket.used < Quota
    <3>1. (Bucket.used < Quota) = TRUE
      BY <2>1
    <3>2. Replied(TRUE) /\ counter' = [Bucket EXCEPT !.used = @ + 1]
      BY <1>2, <2>1, <3>1 DEF Allow, Replied
    <3>3. QED BY <2>1, <3>2, GrantKeepsInv
  <2>2. CASE ~(Bucket.used < Quota)
    <3>1. Replied(FALSE) /\ counter' = counter /\ Bucket.used >= Quota
      BY <1>1, <1>2, <2>2 DEF Allow, Replied
    <3>2. QED BY <3>1, RefusalKeepsInv
  <2>3. QED BY <2>1, <2>2
<1>3. CASE consume
  <2>1. counter' = [Bucket EXCEPT !.used = @ + 1]
    BY <1>3 DEF consume
  <2>2. CASE Bucket.used + 1 <= Quota
    <3>1. Replied(TRUE) /\ Bucket.used < Quota
      BY <1>1, <1>3, <2>2 DEF consume, Replied
    <3>2. QED BY <2>1, <3>1, GrantKeepsInv
  <2>3. CASE ~(Bucket.used + 1 <= Quota)
    <3>1. Replied(FALSE) /\ Bucket.used >= Quota
      BY <1>1, <1>3, <2>3 DEF consume, Replied
    <3>2. QED BY <2>1, <3>1, RefusalKeepsInv
  <2>4. QED BY <2>2, <2>3
<1>4. CASE UNCHANGED rateVars
  BY <1>4 DEF rateVars, RatesInv, RatesTypeOK, WindowInv, Since, Before, Recent, Expired
<1>5. QED BY <1>2, <1>3, <1>4, PruneKeepsInv, TickKeepsInv DEF RatesNext

LEMMA RatesInvariant == RatesSpec => []RatesInv
<1>1. RatesInv /\ [RatesNext]_rateVars => RatesInv'
  BY RatesStepKeepsInv
<1>2. QED BY <1>1, RatesInitHasInv, PTL DEF RatesSpec

(* The counter, the clock and what has been allowed keep to their types    *)
(* (ratelimit/limiter.go, security/rate-limit.ts).                         *)
THEOREM RatesTypeCorrect == RatesSpec => []RatesTypeOK
<1>1. RatesInv => RatesTypeOK
  BY DEF RatesInv
<1>2. QED BY <1>1, RatesInvariant, PTL

(* Whatever the window and the quota, in the API and in the authentication *)
(* service: less than two quotas are allowed within the time of a window,  *)
(* and only who has been allowed a quota within it is refused              *)
(* (ratelimit/limiter.go, security/rate-limit.ts).                         *)
THEOREM QuotasAreKept == RatesSpec => []QuotaIsKept
<1>1. ASSUME RatesInv PROVE QuotaIsKept
  <2>1. CASE Expired(counter)
    <3>1. Cardinality(Recent) < Quota /\ Cardinality(Recent) \in Nat /\ reply # "refused"
      BY <1>1, <2>1, ExpiredIsOld, GrantsAreFinite DEF Recent, RatesInv, WindowInv
    <3>2. QED BY <3>1, RatesAreNumbers DEF QuotaIsKept
  <2>2. CASE ~Expired(counter)
    <3> DEFINE s == counter.started
               A == Since(s)
               B == Before(s)
    <3>1. s # 0 /\ instant - s < Window
      BY <1>1, <2>2, RatesAreNumbers DEF Expired
    <3>2. Recent \subseteq A \cup B /\ A \subseteq Recent
      BY <1>1, <3>1, RatesAreNumbers DEF Recent, Since, Before
    <3>3. Cardinality(A) <= Quota /\ Cardinality(B) < Quota
          /\ (reply = "refused" => Cardinality(A) = Quota)
      BY <1>1, <3>1, RatesAreNumbers DEF RatesInv, WindowInv, Least
    <3>4. A \subseteq grants /\ B \subseteq grants /\ Recent \subseteq grants /\ A \cap B = {}
      BY <1>1, RatesAreNumbers DEF Since, Before, Recent
    <3> HIDE DEF A, B
    <3>5. /\ IsFiniteSet(A) /\ IsFiniteSet(B) /\ Cardinality(A) \in Nat /\ Cardinality(B) \in Nat
          /\ IsFiniteSet(Recent) /\ Cardinality(Recent) \in Nat
      BY <1>1, <3>4, GrantsAreFinite
    <3>6. IsFiniteSet(A \cup B) /\ Cardinality(A \cup B) = Cardinality(A) + Cardinality(B)
      <4>1. Cardinality(A \cap B) = 0
        BY <3>4, FS_EmptySet
      <4>2. /\ IsFiniteSet(A \cup B)
            /\ Cardinality(A \cup B) = Cardinality(A) + Cardinality(B) - Cardinality(A \cap B)
        BY <3>5, FS_Union
      <4>3. Cardinality(A) + Cardinality(B) - 0 = Cardinality(A) + Cardinality(B)
        BY <3>5
      <4>4. QED BY <4>1, <4>2, <4>3
    <3>7. Cardinality(Recent) <= Cardinality(A) + Cardinality(B)
      BY <3>2, <3>6, FS_Subset
    <3>8. Cardinality(A) <= Cardinality(Recent)
      BY <3>2, <3>5, FS_Subset
    <3>9. Cardinality(Recent) < 2 * Quota
      <4>1. PICK a, b, c \in Nat : a = Cardinality(A) /\ b = Cardinality(B) /\ c = Cardinality(Recent)
        BY <3>5
      <4>2. a <= Quota /\ b < Quota /\ c <= a + b
        BY <3>3, <3>7, <4>1
      <4>3. c < 2 * Quota
        BY <4>2, RatesAreNumbers
      <4>4. QED BY <4>1, <4>3
    <3>10. QED BY <3>3, <3>8, <3>9 DEF QuotaIsKept
  <2>3. QED BY <2>1, <2>2
<1>2. QED BY <1>1, RatesInvariant, PTL
=============================================================================
