------------------------------- MODULE RateLimits -------------------------------
(***************************************************************************)
(* The counter of one caller in a fixed window, as the API keeps it        *)
(* (platform/ratelimit/limiter.go) and as the authentication service does  *)
(* (security/rate-limit.ts).  The API counts what it allows, the other what*)
(* it is asked; a window begins with the first request after the last one  *)
(* is over.  The counters are in the memory of one process, and lost with  *)
(* it.                                                                     *)
(***************************************************************************)
EXTENDS Integers, FiniteSets

CONSTANTS
  Window, Quota,
  LastInstant, MaxAsked  \* bounds: the clock, requests

ASSUME RatesAssumption == {Window, Quota, LastInstant} \subseteq Nat \ {0} /\ MaxAsked \in Nat

VARIABLES
  limiter,    \* whose counter this is: "api" or "auth"
  instant,    \* the clock
  counter,    \* the bucket of the caller
  asked,      \* how many requests there were
  grants,     \* history: what was allowed, and at which instant
  reply       \* to the last request, while its instant lasts

rateVars == <<limiter, instant, counter, asked, grants, reply>>

NoCounter == [started |-> 0, used |-> 0]

RatesInit ==
  /\ limiter \in {"api", "auth"}
  /\ instant = 1 /\ counter = NoCounter /\ asked = 0
  /\ grants = {} /\ reply = "none"

RatesTypeOK ==
  /\ instant \in 1..LastInstant /\ asked \in 0..MaxAsked
  /\ counter \in [started : 0..instant, used : 0..MaxAsked]
  /\ grants \subseteq [n : 1..MaxAsked, at : 1..instant] /\ Cardinality(grants) <= asked
  /\ reply \in {"none", "allowed", "refused"}

Expired(b) == b.started = 0 \/ instant - b.started >= Window

(* Faulty variant: every request begins the window anew. *)
BucketOfLast == IF Expired(counter) THEN [started |-> instant, used |-> 0]
                ELSE [counter EXCEPT !.started = instant]

Bucket == IF Expired(counter) THEN [started |-> instant, used |-> 0] ELSE counter

Replied(allowed) ==
  /\ asked < MaxAsked /\ asked' = asked + 1
  /\ grants' = IF allowed THEN grants \cup {[n |-> Cardinality(grants) + 1, at |-> instant]}
               ELSE grants
  /\ reply' = IF allowed THEN "allowed" ELSE "refused"
  /\ UNCHANGED <<limiter, instant>>

(* A refusal by the API stores nothing. *)
Allow ==
  /\ limiter = "api"
  /\ LET b == Bucket IN
     /\ Replied(b.used < Quota)
     /\ counter' = IF b.used < Quota THEN [b EXCEPT !.used = @ + 1] ELSE counter

consume ==
  /\ limiter = "auth"
  /\ LET b == Bucket IN
     /\ counter' = [b EXCEPT !.used = @ + 1]
     /\ Replied(b.used + 1 <= Quota)

(* When ten thousand callers have a counter, those that are over go.       *)
prune ==
  /\ limiter = "auth" /\ counter # NoCounter /\ Expired(counter)
  /\ counter' = NoCounter
  /\ UNCHANGED <<limiter, instant, asked, grants, reply>>

RatesTick ==
  /\ instant < LastInstant /\ instant' = instant + 1 /\ reply' = "none"
  /\ UNCHANGED <<limiter, counter, asked, grants>>

RatesNext == Allow \/ consume \/ prune \/ RatesTick

RatesSpec == RatesInit /\ [][RatesNext]_rateVars

-----------------------------------------------------------------------------
(* Allowed in the time of a window that ends now. *)
Recent == {g \in grants : instant - g.at < Window}

(* However the requests fall, a caller is allowed less than two quotas     *)
(* within the time of a window (the request that began the last one is too *)
(* old to count); and nobody is refused who has not been allowed a quota   *)
(* within it, though refused requests are counted too.                     *)
QuotaIsKept ==
  /\ Cardinality(Recent) < 2 * Quota
  /\ reply = "refused" => Cardinality(Recent) >= Quota
=============================================================================
