----------------------------- MODULE LeetCodeSync ------------------------------
(***************************************************************************)
(* The worker that synchronises the LeetCode catalogue: once a week, and   *)
(* whenever an administrator has asked the API for it.  The workers share  *)
(* the table leetcode_sync_runs and an advisory lock.                      *)
(*                                                                         *)
(* A worker holds one database session for as long as its process lives:   *)
(* for the lock, for what it reads and writes between the polls of a       *)
(* minute, and for the catalogue.  The session may end before the process  *)
(* does (the database restarts; the driver closes it because the time for  *)
(* a synchronisation runs out during a statement), and a process may die   *)
(* at any point, its session being noticed as gone only later.             *)
(*                                                                         *)
(* Time is the number of the week: weeks begin on Sundays at 03:00 UTC, and*)
(* a run belongs to the week of its start or of its end.  What is written  *)
(* to the catalogue is left out; so are the counts of a run, and whether a *)
(* run that is due is called "schedule" or "catch_up".                     *)
(***************************************************************************)
EXTENDS Integers, FiniteSets

CONSTANTS
  Workers,      \* processes of cmd/worker
  NoWorker, Gone,
  MaxAttempts,  \* of the scheduler: 3 in main.go
  MaxRequests,  \* bound: requests of administrators
  MaxWeeks,     \* bound
  MaxFaults     \* bound: workers that die, and sessions that end before them

ASSUME BoundsAssumption ==
  /\ MaxAttempts \in Nat \ {0}
  /\ MaxRequests \in Nat /\ MaxWeeks \in Nat \ {0}
  /\ MaxFaults \in Nat
ASSUME WorkersAssumption == IsFiniteSet(Workers)
ASSUME HolderAssumption == NoWorker \notin Workers /\ Gone \notin Workers

(* A request is named by its place in the order of started_at, which the   *)
(* API takes from its clock before it inserts the row: rows appear in any  *)
(* order.  Request 0 stands for a scheduled run, week 0 for never.         *)
Requests == 1..MaxRequests
Weeks == 1..MaxWeeks

VARIABLES
  week,
  result,       \* of each request: "none", "pending", "succeeded" or "failed"
  lastSuccess,  \* week of the last successful run's end
  lastAttempt,  \* week of the last scheduled run's start
  lock,         \* the worker whose session holds the advisory lock, NoWorker, or
                \* Gone: a session whose client is gone
  session,      \* workers whose session is alive
  job,
  faults,
  begunOf,      \* how often each worker has begun a run of each request, and ...
  begunIn,      \* ... a scheduled run in each week, since its process started (history)
  runsOf,       \* how often each request was recorded as finished (history)
  runsIn        \* how many scheduled runs each week has (history)

table == <<result, lastSuccess, lastAttempt, runsOf, runsIn>>
begun == <<begunOf, begunIn>>
vars == <<week, table, lock, session, job, faults, begun>>

(* What a poll is about to do next, for which request, and what it knows.  *)
Jobs == [pc : {"idle", "success", "attempt", "lock", "sync", "record", "unlock", "off"},
         request : {0} \cup Requests, now : 0..MaxWeeks, success : 0..MaxWeeks,
         start : 0..MaxWeeks, finish : 0..MaxWeeks, ok : BOOLEAN,
         tries : 0..(MaxAttempts - 1)]

Idle == [pc |-> "idle", request |-> 0, now |-> 0, success |-> 0, start |-> 0,
         finish |-> 0, ok |-> FALSE, tries |-> 0]
Off == [Idle EXCEPT !.pc = "off"]

TypeOK ==
  /\ week \in Weeks
  /\ result \in [Requests -> {"none", "pending", "succeeded", "failed"}]
  /\ lastSuccess \in 0..week /\ lastAttempt \in 0..week
  /\ lock \in Workers \cup {NoWorker, Gone}
  /\ session \subseteq Workers
  /\ job \in [Workers -> Jobs]
  /\ faults \in 0..MaxFaults
  /\ begunOf \in [Workers -> [Requests -> 0..2]] /\ begunIn \in [Workers -> [Weeks -> 0..2]]
  /\ runsOf \in [Requests -> Nat] /\ runsIn \in [Weeks -> Nat]
  /\ \A w \in Workers : job[w].pc = "off" => w \notin session

NoRequests == [r \in Requests |-> 0]
NoWeeks == [n \in Weeks |-> 0]

Init ==
  /\ week = 1
  /\ result = [r \in Requests |-> "none"]
  /\ lastSuccess = 0 /\ lastAttempt = 0
  /\ lock = NoWorker
  /\ session = Workers
  /\ job = [w \in Workers |-> Idle]
  /\ faults = 0
  /\ begunOf = [w \in Workers |-> NoRequests] /\ begunIn = [w \in Workers |-> NoWeeks]
  /\ runsOf = NoRequests /\ runsIn = NoWeeks

-----------------------------------------------------------------------------
(* The API and the calendar                                                *)

QueueLeetCodeSync(r) ==
  /\ result[r] = "none"
  /\ result' = [result EXCEPT ![r] = "pending"]
  /\ UNCHANGED <<week, lastSuccess, lastAttempt, lock, session, job, faults, begun,
                 runsOf, runsIn>>

NextWeek ==
  /\ week < MaxWeeks
  /\ week' = week + 1
  /\ UNCHANGED <<table, lock, session, job, faults, begun>>

-----------------------------------------------------------------------------
(* A poll                                                                  *)

At(w, pc) == job[w].pc = pc /\ w \in session

Goto(w, record) == job' = [job EXCEPT ![w] = record]

Pending == {r \in Requests : result[r] = "pending"}

(* PendingManualRunID, oldest first, and RunManual; or the beginning of     *)
(* RunDue, which takes the time first.                                     *)
Poll(w) ==
  /\ At(w, "idle")
  /\ \/ \E r \in Pending :
          /\ \A s \in Pending : r <= s
          /\ Goto(w, [Idle EXCEPT !.pc = "lock", !.request = r])
     \/ Pending = {} /\ Goto(w, [Idle EXCEPT !.pc = "success", !.now = week])
  /\ UNCHANGED <<week, table, lock, session, faults, begun>>

LastSuccessfulSyncAt(w) ==
  /\ At(w, "success")
  /\ Goto(w, [job[w] EXCEPT !.pc = "attempt", !.success = lastSuccess])
  /\ UNCHANGED <<week, table, lock, session, faults, begun>>

(* Faulty variants: an attempt that failed does not count; the weeks are   *)
(* compared one too late.                                                  *)
DueUntilSuccess(now, success, attempt) == success < now
DueAWeekLate(now, success, attempt) == success < now - 1 /\ attempt < now - 1

DecideDue(now, success, attempt) == success < now /\ attempt < now

(* LastScheduledAttemptAt, and what RunDue decides. *)
LastScheduledAttemptAt(w) ==
  /\ At(w, "attempt")
  /\ Goto(w, IF DecideDue(job[w].now, job[w].success, lastAttempt)
               THEN [Idle EXCEPT !.pc = "lock"] ELSE Idle)
  /\ UNCHANGED <<week, table, lock, session, faults, begun>>

(* The count of what is begun; more than twice is not told from twice.     *)
OneMore(n) == IF n < 2 THEN n + 1 ELSE n

(* The run w has the lock for begins: it may write to the catalogue.       *)
Begin(w) ==
  /\ Goto(w, [job[w] EXCEPT !.pc = "sync", !.start = week])
  /\ IF job[w].request # 0
       THEN /\ begunOf' = [begunOf EXCEPT ![w][job[w].request] = OneMore(@)]
            /\ UNCHANGED begunIn
       ELSE /\ begunIn' = [begunIn EXCEPT ![w][week] = OneMore(@)]
            /\ UNCHANGED begunOf

(* Faulty variant: a request does not need the lock. *)
TryLockUnlessManual(w) ==
  /\ At(w, "lock")
  /\ IF job[w].request # 0 \/ lock \in {NoWorker, w}
       THEN lock' = w /\ Begin(w)
       ELSE Goto(w, Idle) /\ UNCHANGED <<lock, begun>>
  /\ UNCHANGED <<week, table, session, faults>>

(* It does not wait: a poll that does not get the lock is over.  What made *)
(* the run due is not looked at again under the lock.                      *)
TryLock(w) ==
  /\ At(w, "lock")
  /\ IF lock \in {NoWorker, w}
       THEN lock' = w /\ Begin(w)
       ELSE Goto(w, Idle) /\ UNCHANGED <<lock, begun>>
  /\ UNCHANGED <<week, table, session, faults>>

Finished(w, ok) ==
  Goto(w, [job[w] EXCEPT !.pc = "record", !.tries = 0, !.finish = week, !.ok = ok])

SyncSucceeds(w) ==
  /\ At(w, "sync")
  /\ Finished(w, TRUE)
  /\ UNCHANGED <<week, table, lock, session, faults, begun>>

(* No catalogue, a part of it rejected, or no time left. *)
SyncFails(w) ==
  /\ At(w, "sync")
  /\ IF job[w].tries + 1 < MaxAttempts
       THEN Goto(w, [job[w] EXCEPT !.tries = @ + 1])
       ELSE Finished(w, FALSE)
  /\ UNCHANGED <<week, table, lock, session, faults, begun>>

Later(a, b) == IF a < b THEN b ELSE a

(* The row of run, of a request or of a scheduled run. *)
Write(run) ==
  /\ IF run.request # 0
       THEN /\ result' = [result EXCEPT ![run.request] =
                            IF run.ok THEN "succeeded" ELSE "failed"]
            /\ runsOf' = [runsOf EXCEPT ![run.request] = @ + 1]
            /\ UNCHANGED <<lastAttempt, runsIn>>
       ELSE /\ lastAttempt' = Later(lastAttempt, run.start)
            /\ runsIn' = [runsIn EXCEPT ![run.start] = @ + 1]
            /\ UNCHANGED <<result, runsOf>>
  /\ lastSuccess' = IF run.ok THEN Later(lastSuccess, run.finish) ELSE lastSuccess

(* Faulty variant: a run that failed is not recorded. *)
RecordSuccess(w) ==
  /\ At(w, "record")
  /\ IF job[w].ok THEN Write(job[w]) ELSE UNCHANGED table
  /\ Goto(w, [Idle EXCEPT !.pc = "unlock"])
  /\ UNCHANGED <<week, lock, session, faults, begun>>

RecordSyncRun(w) ==
  /\ At(w, "record")
  /\ Write(job[w])
  /\ Goto(w, [Idle EXCEPT !.pc = "unlock"])
  /\ UNCHANGED <<week, lock, session, faults, begun>>

Unlock(w) ==
  /\ At(w, "unlock")
  /\ lock' = IF lock = w THEN NoWorker ELSE lock
  /\ Goto(w, Idle)
  /\ UNCHANGED <<week, table, session, faults, begun>>

(* Without its session every statement fails, to the end of the poll; the  *)
(* process goes on and polls again.                                        *)
StatementFails(w) ==
  /\ w \notin session
  /\ job[w].pc \notin {"idle", "off"}
  /\ Goto(w, Idle)
  /\ UNCHANGED <<week, table, lock, session, faults, begun>>

-----------------------------------------------------------------------------
(* Processes and sessions                                                  *)

LosesSession(w) ==
  /\ session' = session \ {w}
  /\ lock' = IF lock = w THEN Gone ELSE lock

Disconnect(w) ==
  /\ faults < MaxFaults
  /\ w \in session
  /\ LosesSession(w)
  /\ faults' = faults + 1
  /\ UNCHANGED <<week, table, job, begun>>

(* What is counted of a process ends with it. *)
Crash(w) ==
  /\ faults < MaxFaults
  /\ job[w].pc # "off"
  /\ LosesSession(w)
  /\ Goto(w, Off)
  /\ begunOf' = [begunOf EXCEPT ![w] = NoRequests]
  /\ begunIn' = [begunIn EXCEPT ![w] = NoWeeks]
  /\ faults' = faults + 1
  /\ UNCHANGED <<week, table>>

(* restart: unless-stopped, and OpenWorkerSession at the start of main. *)
Restart(w) ==
  /\ job[w].pc = "off"
  /\ session' = session \cup {w}
  /\ Goto(w, Idle)
  /\ UNCHANGED <<week, table, lock, faults, begun>>

(* PostgreSQL ends a session whose client is gone. *)
ServerNotices ==
  /\ lock = Gone
  /\ lock' = NoWorker
  /\ UNCHANGED <<week, table, session, job, faults, begun>>

-----------------------------------------------------------------------------
Run(w) ==
  \/ Poll(w) \/ LastSuccessfulSyncAt(w) \/ LastScheduledAttemptAt(w) \/ TryLock(w)
  \/ SyncSucceeds(w) \/ SyncFails(w) \/ RecordSyncRun(w) \/ Unlock(w)
  \/ StatementFails(w) \/ Restart(w)

Next ==
  \/ \E w \in Workers : Run(w) \/ Disconnect(w) \/ Crash(w)
  \/ \E r \in Requests : QueueLeetCodeSync(r)
  \/ NextWeek \/ ServerNotices

(* The ticker polls every minute, a synchronisation has two minutes for an *)
(* attempt, a process that exits is started again, and the database ends   *)
(* the sessions of clients that are gone.                                  *)
Fairness == WF_vars(ServerNotices) /\ \A w \in Workers : WF_vars(Run(w))

Spec == Init /\ [][Next]_vars /\ Fairness

-----------------------------------------------------------------------------
(* Properties                                                              *)

(* "PostgreSQL advisory locks already prevent overlapping worker           *)
(* synchronization": of the workers that could write to the catalogue or   *)
(* record a run at a moment there is at most one, also while the database  *)
(* still has the session of a worker that died.                            *)
OneWriter ==
  \A v, w \in session :
    job[v].pc \in {"sync", "record"} /\ job[w].pc \in {"sync", "record"} => v = w

(* The runs of all workers are one after the other (SyncContract): nobody  *)
(* begins one while another could still write, and what is recorded is of  *)
(* the run under way, whichever sessions have ended and whoever has died.  *)
OneByOne == INSTANCE SyncContract WITH
  running <- {[worker |-> w, request |-> job[w].request, since |-> job[w].start] :
                w \in {v \in session : job[v].pc \in {"sync", "record"}}}
RunsAreOneByOne == OneByOne!Spec

(* A worker begins a run of a request, and a scheduled run in a week, at   *)
(* most once in the life of its process, whether the run fails, its session*)
(* ends in the middle of it, others ask and run meanwhile, or the week     *)
(* turns: what the worker has not recorded it does not try again before it *)
(* is started anew.  All workers together record a request, and a week, at *)
(* most once each, also those that die in a run and do it again: a second  *)
(* worker may, because it decides before it has the lock, but nobody       *)
(* decides for what is recorded.                                           *)
RunsOnce ==
  /\ \A w \in Workers, r \in Requests : begunOf[w][r] <= 1
  /\ \A w \in Workers, n \in Weeks : begunIn[w][n] <= 1
  /\ \A r \in Requests : runsOf[r] <= Cardinality(Workers)
  /\ \A n \in Weeks : runsIn[n] <= Cardinality(Workers)

(* The scheduler "runs weekly, catch-up, and explicitly queued syncs":     *)
(* every request is eventually finished, although scheduled runs, other    *)
(* requests and dead workers hold the lock, and attempts fail.  A request  *)
(* is made once, so this is to say that again and again none is pending.   *)
QueuedSyncsRun == []<>(Pending = {})

(* No week passes in which nothing was attempted, unless the next one has  *)
(* begun before (a request that succeeds in the week counts): the week that*)
(* lasts is attempted.                                                     *)
WeekIsAttempted == []<>(lastSuccess >= week \/ lastAttempt >= week)
=============================================================================
