------------------------------- MODULE WebSession -------------------------------
(***************************************************************************)
(* Who the web application believes is signed in, in one tab: the access   *)
(* token it keeps (api/client.ts), the queries that cache the account and  *)
(* the session (api/queries.ts, App.tsx), and the pages that change them.  *)
(*                                                                         *)
(* The session is a cookie of the authentication service.  A call of the   *)
(* API asks that service for a token unless one is kept or being asked for *)
(* already; the token says whose session the cookie was of when the        *)
(* service answered.  Signing out and changes of security throw the token  *)
(* away and clear the cached queries; signing in and the second factor     *)
(* throw only the token away, and two pages lead to a sign-in with less or *)
(* nothing thrown away.  Nothing waits for a request for a token that is   *)
(* under way, and none is called off.                                      *)
(*                                                                         *)
(* The account stands for everything that is cached about it.  Accounts    *)
(* here are verified, as every session's is, and active.                   *)
(***************************************************************************)
EXTENDS Integers, FiniteSets

CONSTANTS
  Accounts,
  Nobody,
  MaxSignIns,  \* bound: sign-ins
  MaxAsks      \* bound: requests for a token

ASSUME SessionAssumption == Nobody \notin Accounts /\ {MaxSignIns, MaxAsks} \subseteq Nat

VARIABLES
  cookie,   \* the session: account and second factor
  token,    \* accessToken, or NoSession
  shared,   \* accessTokenRequest: which request calls wait for, or 0
  asks,     \* requests for a token that are under way
  asked,    \* how many there were
  me,       \* the query ['me']: account, whether the last fetch failed, freshness
  fetching, \* its fetch under way
  known,    \* the query ['auth-session'] has an answer
  page,     \* "app", "sign-in", "two-factor"
  leaving,  \* "sign-out" or "change" (of security, or the deletion) under way, or "no"
  owner,    \* history: who signed in last
  signIns,  \* how many sign-ins there were
  lateAsks, \* history: requests for a token answered before a sign-in, and still under way
  late      \* history: whether token, fetch and account come of a request that outlived
            \* its page, the account also: of a page that left it in the cache

lateVars == <<late, lateAsks>>
sessionVars == <<cookie, token, shared, asks, asked, me, fetching, known, page, leaving,
                 owner, signIns, late, lateAsks>>
serviceVars == <<cookie, owner, signIns>>
tokenVars == <<token, shared, asks, asked>>
queryVars == <<me, fetching, known>>

Sessions == [user : Accounts, mfa : BOOLEAN]
NoSession == [user |-> Nobody, mfa |-> FALSE]
Timely == [token |-> FALSE, fetch |-> FALSE, me |-> FALSE]
NoMe == [who |-> NoSession, error |-> FALSE, fresh |-> FALSE]
Resting == [at |-> "idle", who |-> NoSession, n |-> 0]

SessionInit ==
  /\ cookie = NoSession /\ owner = Nobody /\ signIns = 0
  /\ token = NoSession /\ shared = 0 /\ asks = {} /\ asked = 0
  /\ me = NoMe /\ fetching = Resting /\ known = FALSE
  /\ page = "sign-in" /\ leaving = "no" /\ late = Timely /\ lateAsks = {}

-----------------------------------------------------------------------------
(* The access token                                                        *)

(* requestAccessToken, by getAccessToken. *)
AskForToken ==
  /\ asked < MaxAsks
  /\ asked' = asked + 1 /\ shared' = asked'
  /\ asks' = asks \cup {[n |-> asked', at |-> "sent", who |-> NoSession]}
  /\ UNCHANGED token

(* The service reads the cookie of the request.                            *)
TokenServed(a) ==
  /\ a.at = "sent"
  /\ asks' = (asks \ {a}) \cup {[a EXCEPT !.at = "answered", !.who = cookie]}
  /\ UNCHANGED <<serviceVars, token, shared, asked, queryVars, page, leaving, lateVars>>

(* getAccessToken goes on: whatever was cleared meanwhile, the token is    *)
(* kept, and no other request is shared any more.  The calls that waited   *)
(* for it go on with it.                                                   *)
TokenArrives(a) ==
  /\ a.at = "answered"
  /\ asks' = asks \ {a}
  /\ token' = IF a.who = NoSession THEN token ELSE a.who
  /\ shared' = 0
  /\ LET waits == fetching.at = "token" /\ fetching.n = a.n
     IN  /\ \/ ~waits /\ UNCHANGED <<me, fetching>>
            \/ /\ waits /\ a.who = NoSession
               /\ me' = [me EXCEPT !.error = TRUE, !.fresh = FALSE] /\ fetching' = Resting
            \/ /\ waits /\ a.who # NoSession
               /\ fetching' = [at |-> "api", who |-> a.who, n |-> 0] /\ UNCHANGED me
         /\ late' = [late EXCEPT !.token = IF a.who = NoSession THEN @ ELSE a.n \in lateAsks,
                                 !.fetch = IF waits THEN a.n \in lateAsks ELSE @]
  /\ UNCHANGED <<serviceVars, asked, known, page, leaving, lateAsks>>

TokenExpires ==
  /\ token # NoSession
  /\ token' = NoSession /\ late' = [late EXCEPT !.token = FALSE]
  /\ UNCHANGED <<serviceVars, shared, asks, asked, queryVars, page, leaving, lateAsks>>

ClearAccessToken == token' = NoSession /\ shared' = 0 /\ UNCHANGED <<asks, asked>>

(* A list, say, is fetched: it needs a token like the account does.        *)
OtherCall ==
  /\ page = "app" /\ token = NoSession /\ shared = 0
  /\ AskForToken
  /\ UNCHANGED <<serviceVars, queryVars, page, leaving, lateVars>>

-----------------------------------------------------------------------------
(* The account                                                             *)

(* A page that uses the account fetches it when it is not fresh.           *)
FetchMe ==
  /\ page = "app" /\ fetching = Resting /\ ~me.fresh
  /\ IF token # NoSession
     THEN fetching' = [at |-> "api", who |-> token, n |-> 0] /\ UNCHANGED tokenVars
     ELSE IF shared # 0
          THEN fetching' = [at |-> "token", who |-> NoSession, n |-> shared] /\ UNCHANGED tokenVars
          ELSE AskForToken /\ fetching' = [at |-> "token", who |-> NoSession, n |-> asked']
  /\ late' = [late EXCEPT !.fetch = late.token]
  /\ UNCHANGED <<serviceVars, me, known, page, leaving, lateAsks>>

MeArrives ==
  /\ fetching.at = "api"
  /\ me' = [who |-> fetching.who, error |-> FALSE, fresh |-> TRUE]
  /\ fetching' = Resting
  /\ late' = [late EXCEPT !.me = late.fetch \/ page = "sign-in", !.fetch = FALSE]
  /\ UNCHANGED <<serviceVars, tokenVars, known, page, leaving, lateAsks>>

(* The API refuses the token, or is not reached.  What was cached stays.   *)
MeFails ==
  /\ fetching.at = "api"
  /\ me' = [me EXCEPT !.error = TRUE, !.fresh = FALSE]
  /\ fetching' = Resting
  /\ late' = [late EXCEPT !.fetch = FALSE]
  /\ UNCHANGED <<serviceVars, tokenVars, known, page, leaving, lateAsks>>

(* A minute passes. *)
MeGoesStale ==
  /\ me.fresh
  /\ me' = [me EXCEPT !.fresh = FALSE]
  /\ UNCHANGED <<serviceVars, tokenVars, fetching, known, page, leaving, lateVars>>

(* Faulty variant: the cache is not cleared. *)
ClearQueriesNot == UNCHANGED queryVars

(* queryClient.clear: a fetch under way is forgotten. *)
ClearQueries == me' = NoMe /\ fetching' = Resting /\ known' = FALSE

-----------------------------------------------------------------------------
(* ProtectedShell, when the account cannot be fetched.  A fetch that has   *)
(* just started again goes on on the page of sign-in.                      *)

ShellAsksSession ==
  /\ page = "app" /\ me.error /\ ~known
  /\ known' = TRUE
  /\ UNCHANGED <<serviceVars, tokenVars, me, fetching, page, leaving, lateVars>>

ShellLeaves ==
  /\ page = "app" /\ me.error /\ known
  /\ page' = "sign-in"
  /\ UNCHANGED <<serviceVars, tokenVars, queryVars, leaving, lateVars>>

(* RequireAdmin and its kin, as long as the cached account has no second   *)
(* factor.                                                                 *)
GuardAsksSecondFactor ==
  /\ page = "app" /\ me.who # NoSession /\ ~me.error /\ ~me.who.mfa
  /\ page' = "two-factor"
  /\ UNCHANGED <<serviceVars, tokenVars, queryVars, leaving, lateVars>>

-----------------------------------------------------------------------------
(* Pages that change the session                                           *)

(* SignInPage                                                              *)
SignIn(u, mfa) ==
  /\ page = "sign-in" /\ signIns < MaxSignIns
  /\ signIns' = signIns + 1 /\ owner' = u
  /\ cookie' = [user |-> u, mfa |-> mfa]
  /\ lateAsks' = {a.n : a \in {x \in asks : x.at = "answered"}}
  /\ late' = [late EXCEPT !.token = FALSE, !.fetch = fetching.at = "api"]
  /\ ClearAccessToken
  /\ page' = "app"
  /\ UNCHANGED <<queryVars, leaving>>

(* TwoFactorPage: the account that is cached keeps the old answer until it *)
(* is stale.                                                               *)
StepUp ==
  /\ page = "two-factor" /\ cookie # NoSession
  /\ cookie' = [cookie EXCEPT !.mfa = TRUE]
  /\ ClearAccessToken
  /\ late' = [late EXCEPT !.token = FALSE]
  /\ page' = "app"
  /\ UNCHANGED <<owner, signIns, queryVars, leaving, lateAsks>>

(* The buttons of the shell and of the settings: the request may fail      *)
(* without ending the session.                                             *)
BeginLeaving ==
  /\ page = "app" /\ leaving = "no" /\ me.who # NoSession
  /\ leaving' \in {"sign-out", "change"}
  /\ cookie' \in {cookie, NoSession}
  /\ UNCHANGED <<owner, signIns, tokenVars, queryVars, page, lateVars>>

(* handleSignOut and endSession, whatever was answered; deleteAccount and  *)
(* finishSecurityChange, when the request succeeded.                       *)
Leave ==
  /\ leaving # "no"
  /\ leaving' = "no"
  /\ ClearAccessToken /\ ClearQueries /\ late' = Timely
  /\ page' = "sign-in"
  /\ UNCHANGED <<serviceVars, lateAsks>>

(* The request for a change or for the deletion fails, or its answer is    *)
(* lost: a message is shown, and nothing is cleared.                       *)
ChangeFails ==
  /\ leaving = "change"
  /\ leaving' = "no"
  /\ UNCHANGED <<serviceVars, tokenVars, queryVars, page, lateVars>>

(* The session ends elsewhere, or at its time. *)
SessionEnds ==
  /\ cookie # NoSession
  /\ cookie' = NoSession
  /\ UNCHANGED <<owner, signIns, tokenVars, queryVars, page, leaving, lateVars>>

(* The link of InvitationAcceptPage, shown when there is no session: it    *)
(* clears nothing.                                                         *)
InvitationLink ==
  /\ page = "app" /\ cookie = NoSession
  /\ page' = "sign-in" /\ known' = TRUE
  /\ late' = [late EXCEPT !.me = @ \/ me.who # NoSession]
  /\ UNCHANGED <<serviceVars, tokenVars, me, fetching, leaving, lateAsks>>

(* "Use another account" of VerifyEmailPage, which a sign-in to an account *)
(* that is not verified leads to, and InvitationAcceptPage when the account*)
(* could not be fetched: the queries are not cleared.  The request for the *)
(* sign-out may fail.                                                      *)
UseAnotherAccount ==
  /\ page = "sign-in" \/ (page = "app" /\ me.error /\ me.who = NoSession)
  /\ \/ cookie' = NoSession /\ page' = "sign-in"
     \/ UNCHANGED <<cookie, page>>
  /\ ClearAccessToken
  /\ late' = [late EXCEPT !.token = FALSE]
  /\ UNCHANGED <<owner, signIns, queryVars, leaving, lateAsks>>

SessionNext ==
  \/ \E a \in asks : TokenServed(a) \/ TokenArrives(a)
  \/ TokenExpires \/ OtherCall \/ FetchMe \/ MeArrives \/ MeFails \/ MeGoesStale
  \/ ShellAsksSession \/ ShellLeaves \/ GuardAsksSecondFactor
  \/ \E u \in Accounts, mfa \in BOOLEAN : SignIn(u, mfa)
  \/ StepUp \/ BeginLeaving \/ Leave \/ ChangeFails
  \/ SessionEnds \/ InvitationLink \/ UseAnotherAccount

SessionSpec == SessionInit /\ [][SessionNext]_sessionVars

-----------------------------------------------------------------------------
(* Properties                                                              *)

(* The variables keep to their types. *)
SessionTypeOK ==
  /\ {cookie, token, me.who, fetching.who} \subseteq Sessions \cup {NoSession}
  /\ shared \in 0..asked /\ asked \in 0..MaxAsks /\ signIns \in 0..MaxSignIns
  /\ asks \subseteq [n : 1..asked, at : {"sent", "answered"}, who : Sessions \cup {NoSession}]
  /\ late \in [token : BOOLEAN, fetch : BOOLEAN, me : BOOLEAN] /\ lateAsks \subseteq 1..asked
  /\ leaving \in {"no", "sign-out", "change"}
  /\ fetching.at \in {"idle", "token", "api"} /\ page \in {"app", "sign-in", "two-factor"}

(* After a sign-out, a change of security or an expired session, the next  *)
(* person on this tab sees nothing of the one before and calls the API only*)
(* as themselves.  What may be another's comes of a request that was under *)
(* way when its page was left (answered, and not yet arrived, at the       *)
(* sign-in), or is the account that InvitationAcceptPage leaves in the     *)
(* cache, until that token is thrown away and that account fetched again.  *)
OnlyTheOwnerIsShown ==
  page = "app" =>
    /\ token.user \in {Nobody, owner} \/ late.token
    /\ me.error \/ me.who.user \in {Nobody, owner} \/ late.me

(* Without these exceptions.  It does not hold: README, "What the code does*)
(* otherwise".                                                             *)
NothingOfTheOneBefore ==
  page = "app" =>
    /\ token.user \in {Nobody, owner}
    /\ me.error \/ me.who.user \in {Nobody, owner}
=============================================================================
