------------------------------ MODULE SyncContract ------------------------------
(***************************************************************************)
(* What the table of synchronisation runs promises, without polls, locks,  *)
(* sessions, attempts or deaths: one run at a time, of a request that was  *)
(* made or of the schedule; it is recorded at most once, with the week it  *)
(* began in and one it lasted into, or not at all; and a request is        *)
(* finished, and a week attempted, by nothing but such a run.              *)
(***************************************************************************)
EXTENDS Integers

CONSTANTS Workers, Requests

VARIABLES
  week,
  result,       \* of each request: "none", "pending", "succeeded" or "failed"
  lastSuccess,  \* the last week a successful run ended in
  lastAttempt,  \* the last week a scheduled run began in
  running       \* the run under way, if there is one

contractVars == <<week, result, lastSuccess, lastAttempt, running>>

Later(a, b) == IF a < b THEN b ELSE a

Init ==
  /\ week = 1 /\ lastSuccess = 0 /\ lastAttempt = 0 /\ running = {}
  /\ result = [r \in Requests |-> "none"]

Ask(r) ==
  /\ result[r] = "none" /\ result' = [result EXCEPT ![r] = "pending"]
  /\ UNCHANGED <<week, lastSuccess, lastAttempt, running>>

NextWeek == week' = week + 1 /\ UNCHANGED <<result, lastSuccess, lastAttempt, running>>

(* Request 0 is the schedule.  A request may have been finished already.   *)
Begin(w, r) ==
  /\ running = {}
  /\ r # 0 => result[r] # "none"
  /\ running' = {[worker |-> w, request |-> r, since |-> week]}
  /\ UNCHANGED <<week, result, lastSuccess, lastAttempt>>

Record(run, ok, end) ==
  /\ \/ run.request = 0 /\ lastAttempt' = Later(lastAttempt, run.since) /\ UNCHANGED result
     \/ /\ run.request # 0 /\ UNCHANGED lastAttempt
        /\ result' = [result EXCEPT ![run.request] = IF ok THEN "succeeded" ELSE "failed"]
  /\ lastSuccess' = IF ok THEN Later(lastSuccess, end) ELSE lastSuccess
  /\ running' = {} /\ UNCHANGED week

Abandon == running # {} /\ running' = {} /\ UNCHANGED <<week, result, lastSuccess, lastAttempt>>

Next ==
  \/ \E r \in Requests : Ask(r)
  \/ \E w \in Workers, r \in {0} \cup Requests : Begin(w, r)
  \/ \E run \in running, ok \in BOOLEAN : \E end \in run.since..week : Record(run, ok, end)
  \/ NextWeek \/ Abandon

Spec == Init /\ [][Next]_contractVars
=============================================================================
