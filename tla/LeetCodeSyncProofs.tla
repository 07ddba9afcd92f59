-------------------------- MODULE LeetCodeSyncProofs ---------------------------
(***************************************************************************)
(* Any number of workers, requests, weeks, attempts and faults: the types  *)
(* of LeetCodeSync are kept, the advisory lock is enough for one worker at *)
(* a time to write, no worker begins a run twice in the life of its        *)
(* process, no run is recorded more often than there are workers, and they *)
(* do together what SyncContract does with one at a time.                  *)
(***************************************************************************)
EXTENDS LeetCodeSync, FiniteSetTheorems, TLAPS

(* What a worker remembers of a moment is not in the future. *)
PastInv ==
  \A w \in Workers : job[w].start <= week /\ job[w].finish <= week

(* A worker that is past TryLock, and has not unlocked, has the lock for as*)
(* long as its session lives.                                              *)
LockInv ==
  \A w \in session : job[w].pc \in {"sync", "record", "unlock"} => lock = w

IInv == TypeOK /\ PastInv /\ LockInv

USE BoundsAssumption, HolderAssumption

LEMMA Bounds ==
  /\ 0 \in 0..MaxWeeks /\ 0 \in 0..(MaxAttempts - 1)
  /\ 0 \in {0} \cup Requests /\ Requests \subseteq {0} \cup Requests
  /\ Weeks \subseteq 0..MaxWeeks
  BY DEF BoundsAssumption, Weeks

LEMMA IdleIsJob == Idle \in Jobs /\ Off \in Jobs
<1>1. Idle \in Jobs
  BY Bounds DEF Idle, Jobs
<1>2. Off \in Jobs
  BY Bounds DEF Idle, Off, Jobs
<1> QED  BY <1>1, <1>2

LEMMA InitIInv == Init => IInv
  BY IdleIsJob DEF Init, IInv, TypeOK, PastInv, LockInv, Idle, Weeks, NoRequests, NoWeeks

(* A step that leaves the table, the week and the lock alone and moves one *)
(* worker to a job that does not need the lock, or did need it before.     *)
LEMMA GotoKeeps ==
  ASSUME IInv, NEW w \in Workers, NEW record \in Jobs,
         Goto(w, record), UNCHANGED <<week, table, lock, session, faults, begun>>,
         record.start <= week, record.finish <= week,
         w \in session, record.pc # "off",
         record.pc \in {"sync", "record", "unlock"} => lock = w
  PROVE  IInv'
<1>1. TypeOK'
  BY DEF IInv, TypeOK, Goto, table, begun
<1>2. PastInv'
  BY DEF IInv, TypeOK, PastInv, Goto, Jobs
<1>3. LockInv'
  BY DEF IInv, TypeOK, LockInv, Goto
<1> QED  BY <1>1, <1>2, <1>3 DEF IInv

LEMMA QueueKeeps ==
  ASSUME IInv, NEW r \in Requests, QueueLeetCodeSync(r)
  PROVE  IInv'
  BY DEF QueueLeetCodeSync, IInv, TypeOK, PastInv, LockInv, begun

LEMMA NextWeekKeeps ==
  ASSUME IInv, NextWeek
  PROVE  IInv'
<1>1. TypeOK'
  <2>1. /\ week \in Weeks /\ lastSuccess \in 0..week /\ lastAttempt \in 0..week
        /\ week < MaxWeeks /\ week' = week + 1 /\ UNCHANGED <<lastSuccess, lastAttempt>>
    BY DEF NextWeek, IInv, TypeOK, table
  <2>2. /\ week' \in Weeks /\ lastSuccess' \in 0..week' /\ lastAttempt' \in 0..week'
    BY <2>1 DEF Weeks
  <2> QED  BY <2>2 DEF NextWeek, IInv, TypeOK, table, begun
<1>2. PastInv'
  <2>1. week \in Int /\ week' = week + 1 /\ job' = job
    BY DEF NextWeek, IInv, TypeOK, Weeks
  <2>2. \A w \in Workers : job[w].start \in Int /\ job[w].finish \in Int
    BY DEF IInv, TypeOK, Jobs
  <2> QED  BY <2>1, <2>2 DEF IInv, PastInv
<1>3. LockInv'
  BY DEF NextWeek, IInv, LockInv
<1> QED  BY <1>1, <1>2, <1>3 DEF IInv

LEMMA PollKeeps ==
  ASSUME IInv, NEW w \in Workers, Poll(w)
  PROVE  IInv'
<1>1. w \in session /\ week \in Weeks
  BY DEF Poll, At, IInv, TypeOK
<1>2. UNCHANGED <<week, table, lock, session, faults, begun>>
  BY DEF Poll
<1>3. CASE \E r \in Pending : Goto(w, [Idle EXCEPT !.pc = "lock", !.request = r])
  <2>1. PICK r \in Requests : Goto(w, [Idle EXCEPT !.pc = "lock", !.request = r])
    BY <1>3 DEF Pending
  <2> DEFINE record == [Idle EXCEPT !.pc = "lock", !.request = r]
  <2>2. record \in Jobs /\ record.start = 0 /\ record.finish = 0 /\ record.pc = "lock"
    BY Bounds DEF Idle, Jobs
  <2>3. Goto(w, record)  BY <2>1
  <2> HIDE DEF record
  <2> QED  BY <1>1, <1>2, <2>2, <2>3, GotoKeeps DEF Weeks
<1>4. CASE Goto(w, [Idle EXCEPT !.pc = "success", !.now = week])
  <2> DEFINE record == [Idle EXCEPT !.pc = "success", !.now = week]
  <2>2. record \in Jobs /\ record.start = 0 /\ record.finish = 0 /\ record.pc = "success"
    BY <1>1, Bounds DEF Idle, Jobs
  <2>3. Goto(w, record)  BY <1>4
  <2> HIDE DEF record
  <2> QED  BY <1>1, <1>2, <2>2, <2>3, GotoKeeps DEF Weeks
<1> QED  BY <1>3, <1>4 DEF Poll

LEMMA ReadsKeep ==
  ASSUME IInv, NEW w \in Workers,
         LastSuccessfulSyncAt(w) \/ LastScheduledAttemptAt(w)
  PROVE  IInv'
<1>1. /\ w \in session /\ week \in Weeks /\ job[w] \in Jobs
      /\ lastSuccess \in 0..MaxWeeks
      /\ job[w].start <= week /\ job[w].finish <= week
  BY DEF LastSuccessfulSyncAt, LastScheduledAttemptAt, At, IInv, TypeOK, PastInv, Weeks
<1>2. CASE LastSuccessfulSyncAt(w)
  <2> DEFINE record == [job[w] EXCEPT !.pc = "attempt", !.success = lastSuccess]
  <2>1. /\ record \in Jobs /\ record.start <= week /\ record.finish <= week
        /\ record.pc = "attempt"
    BY <1>1 DEF Jobs
  <2>2. Goto(w, record) /\ UNCHANGED <<week, table, lock, session, faults, begun>>
    BY <1>2 DEF LastSuccessfulSyncAt
  <2> HIDE DEF record
  <2> QED  BY <1>1, <2>1, <2>2, GotoKeeps
<1>3. CASE LastScheduledAttemptAt(w)
  <2> DEFINE record == [Idle EXCEPT !.pc = "lock"]
  <2>1. /\ record \in Jobs /\ record.start = 0 /\ record.finish = 0 /\ record.pc = "lock"
        /\ Idle.start = 0 /\ Idle.finish = 0 /\ Idle.pc = "idle"
    BY Bounds DEF Idle, Jobs
  <2>2. /\ Goto(w, record) \/ Goto(w, Idle)
        /\ UNCHANGED <<week, table, lock, session, faults, begun>>
    BY <1>3 DEF LastScheduledAttemptAt
  <2> HIDE DEF record
  <2> QED  BY <1>1, <2>1, <2>2, IdleIsJob, GotoKeeps DEF Weeks
<1> QED  BY <1>2, <1>3

(* What a worker has begun is counted for it alone, once.                  *)
LEMMA BeginCounts ==
  ASSUME IInv, NEW w \in Workers, Begin(w)
  PROVE  /\ begunOf' \in [Workers -> [Requests -> 0..2]]
         /\ begunIn' \in [Workers -> [Weeks -> 0..2]]
         /\ \A v \in Workers, r \in Requests :
              begunOf'[v][r] = IF v = w /\ job[w].request = r THEN OneMore(begunOf[v][r])
                                                              ELSE begunOf[v][r]
         /\ \A v \in Workers, n \in Weeks :
              begunIn'[v][n] = IF v = w /\ job[w].request = 0 /\ n = week THEN OneMore(begunIn[v][n])
                                                                          ELSE begunIn[v][n]
<1>1. /\ begunOf \in [Workers -> [Requests -> 0..2]] /\ begunIn \in [Workers -> [Weeks -> 0..2]]
      /\ week \in Weeks /\ job[w].request \in {0} \cup Requests /\ 0 \notin Requests
  <2>1. 0 \notin Requests
    BY DEF Requests
  <2> QED  BY <2>1 DEF IInv, TypeOK, Jobs
<1>2. CASE job[w].request # 0
  <2>1. PICK q \in Requests : q = job[w].request
    BY <1>1, <1>2
  <2>2. begunOf' = [begunOf EXCEPT ![w] = [begunOf[w] EXCEPT ![q] = OneMore(@)]] /\ begunIn' = begunIn
    BY <1>2, <2>1 DEF Begin
  <2>3. begunOf[w] \in [Requests -> 0..2]
    BY <1>1
  <2>4. \A k \in 0..2 : OneMore(k) \in 0..2
    BY DEF OneMore
  <2> QED  BY <1>1, <1>2, <2>1, <2>2, <2>3, <2>4
<1>3. CASE job[w].request = 0
  <2>1. begunIn' = [begunIn EXCEPT ![w] = [begunIn[w] EXCEPT ![week] = OneMore(@)]] /\ begunOf' = begunOf
    BY <1>3 DEF Begin
  <2>2. begunIn[w] \in [Weeks -> 0..2]
    BY <1>1
  <2>3. \A k \in 0..2 : OneMore(k) \in 0..2
    BY DEF OneMore
  <2> QED  BY <1>1, <1>3, <2>1, <2>2, <2>3
<1> QED  BY <1>2, <1>3

LEMMA TryLockKeeps ==
  ASSUME IInv, NEW w \in Workers, TryLock(w)
  PROVE  IInv'
<1>1. /\ w \in session /\ session \subseteq Workers /\ week \in Weeks
      /\ job \in [Workers -> Jobs] /\ UNCHANGED <<week, table, session, faults>>
  BY DEF TryLock, At, IInv, TypeOK
<1>2. CASE lock \in {NoWorker, w}
  <2> DEFINE record == [job[w] EXCEPT !.pc = "sync", !.start = week]
  <2>1. /\ record \in Jobs /\ record.start = week /\ record.finish = job[w].finish
        /\ record.pc = "sync"
    BY <1>1, Bounds DEF Jobs
  <2>2. lock' = w /\ job' = [job EXCEPT ![w] = record]
    BY <1>2 DEF TryLock, Begin, Goto
  <2> HIDE DEF record
  <2>3. TypeOK'
    <3>1. begunOf' \in [Workers -> [Requests -> 0..2]] /\ begunIn' \in [Workers -> [Weeks -> 0..2]]
      BY BeginCounts, <1>2 DEF TryLock
    <3> QED  BY <1>1, <2>1, <2>2, <3>1 DEF IInv, TypeOK, table
  <2>4. PastInv'
    BY <1>1, <2>1, <2>2 DEF IInv, PastInv, Weeks
  <2>5. LockInv'
    BY <1>1, <1>2, <2>1, <2>2 DEF IInv, LockInv
  <2> QED  BY <2>3, <2>4, <2>5 DEF IInv
<1>3. CASE lock \notin {NoWorker, w}
  <2>1. Goto(w, Idle) /\ UNCHANGED <<lock, begun>>
    BY <1>3 DEF TryLock
  <2>2. Idle.start = 0 /\ Idle.finish = 0 /\ Idle.pc = "idle"
    BY DEF Idle
  <2> QED  BY <1>1, <2>1, <2>2, IdleIsJob, GotoKeeps DEF Weeks
<1> QED  BY <1>2, <1>3

LEMMA SyncKeeps ==
  ASSUME IInv, NEW w \in Workers, SyncSucceeds(w) \/ SyncFails(w)
  PROVE  IInv'
<1>1. /\ w \in session /\ week \in Weeks /\ job[w] \in Jobs /\ lock = w
      /\ job[w].start <= week /\ job[w].finish <= week
      /\ job[w].pc = "sync"
  BY DEF SyncSucceeds, SyncFails, At, IInv, TypeOK, PastInv, LockInv
<1>2. UNCHANGED <<week, table, lock, session, faults, begun>>
  BY DEF SyncSucceeds, SyncFails
<1>3. ASSUME NEW ok \in BOOLEAN, Finished(w, ok)
      PROVE  IInv'
  <2> DEFINE record == [job[w] EXCEPT !.pc = "record", !.tries = 0, !.finish = week,
                                     !.ok = ok]
  <2>1. /\ record \in Jobs /\ record.start <= week /\ record.finish = week
        /\ record.pc = "record"
    BY <1>1, Bounds DEF Jobs
  <2>2. Goto(w, record)  BY <1>3 DEF Finished
  <2> HIDE DEF record
  <2> QED  BY <1>1, <1>2, <2>1, <2>2, GotoKeeps DEF Weeks
<1>4. CASE /\ job[w].tries + 1 < MaxAttempts
           /\ Goto(w, [job[w] EXCEPT !.tries = @ + 1])
  <2> DEFINE record == [job[w] EXCEPT !.tries = @ + 1]
  <2>1. /\ record \in Jobs /\ record.start <= week /\ record.finish <= week
        /\ record.pc = "sync"
    BY <1>1, <1>4 DEF Jobs
  <2>2. Goto(w, record)  BY <1>4
  <2> HIDE DEF record
  <2> QED  BY <1>1, <1>2, <2>1, <2>2, GotoKeeps
<1> QED  BY <1>3, <1>4 DEF SyncSucceeds, SyncFails

(* What is written keeps the types, and no week in it is in the future. *)
LEMMA WriteKeeps ==
  ASSUME IInv, NEW w \in Workers, Write(job[w])
  PROVE  /\ result' \in [Requests -> {"none", "pending", "succeeded", "failed"}]
         /\ lastSuccess' \in 0..week /\ lastAttempt' \in 0..week
         /\ runsOf' \in [Requests -> Nat] /\ runsIn' \in [Weeks -> Nat]
<1>1. /\ job[w].start \in 0..week /\ job[w].finish \in 0..week
      /\ week \in Nat /\ lastSuccess \in 0..week /\ lastAttempt \in 0..week
  <2>1. job[w] \in Jobs /\ job[w].start <= week /\ job[w].finish <= week
    BY DEF IInv, TypeOK, PastInv
  <2>2. week \in Nat /\ lastSuccess \in 0..week /\ lastAttempt \in 0..week
    <3>1. week \in Weeks /\ lastSuccess \in 0..week /\ lastAttempt \in 0..week
      BY DEF IInv, TypeOK
    <3> QED  BY <3>1 DEF Weeks
  <2> QED  BY <2>1, <2>2 DEF Jobs
<1>2. lastSuccess' \in {lastSuccess, job[w].finish}
  BY DEF Write, Later
<1>3. lastAttempt' \in {lastAttempt, job[w].start}
  BY DEF Write, Later
<1>4. result' \in [Requests -> {"none", "pending", "succeeded", "failed"}]
  BY DEF IInv, TypeOK, Write
<1>5. runsOf' \in [Requests -> Nat] /\ runsIn' \in [Weeks -> Nat]
  <2>1. runsOf \in [Requests -> Nat] /\ runsIn \in [Weeks -> Nat]
    BY DEF IInv, TypeOK
  <2>2. CASE job[w].request # 0
    BY <2>1, <2>2 DEF Write
  <2>3. CASE job[w].request = 0
    BY <2>1, <2>3 DEF Write
  <2> QED  BY <2>2, <2>3
<1> QED  BY <1>1, <1>2, <1>3, <1>4, <1>5

LEMMA RecordKeeps ==
  ASSUME IInv, NEW w \in Workers, RecordSyncRun(w)
  PROVE  IInv'
<1> DEFINE record == [Idle EXCEPT !.pc = "unlock"]
<1>1. record \in Jobs /\ record.start = 0 /\ record.finish = 0 /\ record.pc = "unlock"
  BY Bounds DEF Idle, Jobs
<1>2. /\ w \in session /\ lock = w /\ job' = [job EXCEPT ![w] = record]
      /\ UNCHANGED <<week, lock, session, faults, begun>> /\ Write(job[w])
  BY DEF RecordSyncRun, At, Goto, IInv, LockInv
<1> HIDE DEF record
<1>3. TypeOK'
  BY <1>1, <1>2, WriteKeeps DEF IInv, TypeOK, begun
<1>4. PastInv'
  BY <1>1, <1>2 DEF IInv, TypeOK, PastInv, Weeks
<1>5. LockInv'
  BY <1>1, <1>2 DEF IInv, TypeOK, LockInv
<1> QED  BY <1>3, <1>4, <1>5 DEF IInv

(* When w lets go of the lock, or loses it, nobody else relies on it. *)
LEMMA UnlockKeeps ==
  ASSUME IInv, NEW w \in Workers, Unlock(w)
  PROVE  IInv'
<1>1. /\ w \in session /\ lock = w /\ lock' = NoWorker
      /\ job' = [job EXCEPT ![w] = Idle] /\ UNCHANGED <<week, table, session, faults, begun>>
  BY DEF Unlock, At, Goto, IInv, LockInv
<1>2. Idle.start = 0 /\ Idle.finish = 0 /\ Idle.pc = "idle"
  BY DEF Idle
<1>3. TypeOK'
  BY <1>1, <1>2, IdleIsJob DEF IInv, TypeOK, table, begun
<1>4. PastInv'
  BY <1>1, <1>2 DEF IInv, TypeOK, PastInv, Weeks
<1>5. LockInv'
  BY <1>1, <1>2 DEF IInv, TypeOK, LockInv
<1> QED  BY <1>3, <1>4, <1>5 DEF IInv

LEMMA FaultsKeep ==
  ASSUME IInv, NEW w \in Workers,
         StatementFails(w) \/ Disconnect(w) \/ Crash(w) \/ Restart(w)
  PROVE  IInv'
<1>1. /\ Idle \in Jobs /\ Idle.start = 0 /\ Idle.finish = 0 /\ Idle.pc = "idle"
      /\ Off \in Jobs /\ Off.start = 0 /\ Off.finish = 0 /\ Off.pc = "off"
  BY IdleIsJob DEF Idle, Off
<1>2. CASE StatementFails(w)
  <2>1. TypeOK'
    BY <1>1, <1>2 DEF StatementFails, Goto, IInv, TypeOK, table, begun
  <2>2. PastInv'
    BY <1>1, <1>2 DEF StatementFails, Goto, IInv, TypeOK, PastInv, Weeks
  <2>3. LockInv'
    BY <1>1, <1>2 DEF StatementFails, Goto, IInv, TypeOK, LockInv
  <2> QED  BY <2>1, <2>2, <2>3 DEF IInv
<1>3. CASE Disconnect(w)
  <2>1. TypeOK'
    BY <1>3 DEF Disconnect, LosesSession, IInv, TypeOK, table, begun
  <2>2. PastInv'
    BY <1>3 DEF Disconnect, IInv, PastInv
  <2>3. LockInv'
    BY <1>3 DEF Disconnect, LosesSession, IInv, LockInv
  <2> QED  BY <2>1, <2>2, <2>3 DEF IInv
<1>4. CASE Crash(w)
  <2>1. TypeOK'
    BY <1>1, <1>4 DEF Crash, LosesSession, Goto, IInv, TypeOK, table, NoRequests, NoWeeks
  <2>2. PastInv'
    BY <1>1, <1>4 DEF Crash, Goto, IInv, TypeOK, PastInv, Weeks
  <2>3. LockInv'
    BY <1>1, <1>4 DEF Crash, LosesSession, Goto, IInv, TypeOK, LockInv
  <2> QED  BY <2>1, <2>2, <2>3 DEF IInv
<1>5. CASE Restart(w)
  <2>1. TypeOK'
    BY <1>1, <1>5 DEF Restart, Goto, IInv, TypeOK, table, begun
  <2>2. PastInv'
    BY <1>1, <1>5 DEF Restart, Goto, IInv, TypeOK, PastInv, Weeks
  <2>3. LockInv'
    BY <1>1, <1>5 DEF Restart, Goto, IInv, TypeOK, LockInv
  <2> QED  BY <2>1, <2>2, <2>3 DEF IInv
<1> QED  BY <1>2, <1>3, <1>4, <1>5

LEMMA ServerNoticesKeeps ==
  ASSUME IInv, ServerNotices
  PROVE  IInv'
<1>1. TypeOK' /\ PastInv'
  BY DEF ServerNotices, IInv, TypeOK, PastInv, table, begun
<1>2. LockInv'
  BY DEF ServerNotices, IInv, TypeOK, LockInv
<1> QED  BY <1>1, <1>2 DEF IInv

(* The inductive invariant holds in every reachable state. *)
THEOREM Inductive == Spec => []IInv
<1>1. IInv /\ [Next]_vars => IInv'
  <2> SUFFICES ASSUME IInv, [Next]_vars PROVE IInv'
    OBVIOUS
  <2>1. CASE UNCHANGED vars
    BY <2>1 DEF vars, table, begun, IInv, TypeOK, PastInv, LockInv
  <2>2. ASSUME NEW w \in Workers, Run(w) PROVE IInv'
    BY <2>2, PollKeeps, ReadsKeep, TryLockKeeps, SyncKeeps, RecordKeeps, UnlockKeeps,
       FaultsKeep DEF Run
  <2>3. ASSUME NEW w \in Workers, Disconnect(w) \/ Crash(w) PROVE IInv'
    BY <2>3, FaultsKeep
  <2> QED  BY <2>1, <2>2, <2>3, QueueKeeps, NextWeekKeeps, ServerNoticesKeeps DEF Next
<1> QED  BY <1>1, InitIInv, PTL DEF Spec

(* Every variable keeps its type: in particular the weeks in the table are *)
(* never in the future, and no attempt is made beyond the last.            *)
THEOREM TypeCorrect == Spec => []TypeOK
<1>1. IInv => TypeOK  BY DEF IInv
<1> QED  BY <1>1, Inductive, PTL

(* The advisory lock is enough: however many workers run, die, lose their  *)
(* sessions and come back, one at a time writes.                           *)
THEOREM OneWriterAtATime == Spec => []OneWriter
<1>1. IInv => OneWriter  BY DEF IInv, LockInv, OneWriter
<1> QED  BY <1>1, Inductive, PTL
-----------------------------------------------------------------------------
(* How often a week and a request are run.  A worker that has decided for a*)
(* run may record it once, and whoever decides later finds it recorded: so *)
(* the runs recorded and the workers yet to record one are never more than *)
(* the workers there are.                                                  *)

Deciding == {"lock", "sync", "record"}

(* The workers that have decided to run request r, and those whose         *)
(* scheduled run would belong to week n.                                   *)
ToRun(r) == {w \in Workers : job[w].request = r /\ job[w].pc \in Deciding}
InWeek(n) ==
  {w \in Workers :
     /\ job[w].request = 0
     /\ \/ job[w].pc = "lock" /\ week <= n
        \/ job[w].pc \in {"sync", "record"} /\ job[w].start = n}

JobsInv ==
  \A w \in Workers :
    /\ job[w].pc \in {"sync", "record"} => job[w].start \in Weeks
    /\ job[w].pc \in {"success", "attempt"} => job[w].now <= week
CountInv ==
  /\ \A r \in Requests :
       /\ runsOf[r] + Cardinality(ToRun(r)) <= Cardinality(Workers)
       /\ result[r] \in {"none", "pending"} => runsOf[r] = 0
  /\ \A n \in Weeks :
       /\ runsIn[n] + Cardinality(InWeek(n)) <= Cardinality(Workers)
       /\ lastAttempt < n => runsIn[n] = 0

RunsInv == JobsInv /\ CountInv

LEMMA FewerWorkers ==
  ASSUME NEW A \in SUBSET Workers, NEW B \in SUBSET Workers, NEW k \in Nat,
         k + Cardinality(A) <= Cardinality(Workers)
  PROVE  /\ B \subseteq A \/ k = 0 => k + Cardinality(B) <= Cardinality(Workers)
         /\ \A w \in A : B \subseteq A \ {w} => k + 1 + Cardinality(B) <= Cardinality(Workers)
<1>1. IsFiniteSet(Workers) /\ Cardinality(Workers) \in Nat
  BY WorkersAssumption, FS_CardinalityType
<1>2. IsFiniteSet(A) /\ Cardinality(A) \in Nat
  BY <1>1, FS_Subset, FS_CardinalityType
<1>3. Cardinality(B) \in Nat /\ Cardinality(B) <= Cardinality(Workers)
  BY <1>1, FS_Subset, FS_CardinalityType
<1>4. ASSUME B \subseteq A PROVE Cardinality(B) <= Cardinality(A)
  BY <1>2, <1>4, FS_Subset
<1>5. ASSUME NEW w \in A, B \subseteq A \ {w} PROVE Cardinality(B) <= Cardinality(A) - 1
  <2>1. IsFiniteSet(A \ {w}) /\ Cardinality(A \ {w}) = Cardinality(A) - 1
    BY <1>2, FS_RemoveElement
  <2>2. QED BY <1>5, <2>1, FS_Subset
<1>6. B \subseteq A \/ k = 0 => k + Cardinality(B) <= Cardinality(Workers)
  BY <1>1, <1>2, <1>3, <1>4
<1>7. ASSUME NEW w \in A, B \subseteq A \ {w}
      PROVE  k + 1 + Cardinality(B) <= Cardinality(Workers)
  BY <1>1, <1>2, <1>3, <1>5, <1>7
<1> QED  BY <1>6, <1>7

LEMMA InitRunsInv == Init => RunsInv
<1> SUFFICES ASSUME Init PROVE RunsInv
  OBVIOUS
<1>1. \A w \in Workers : job[w].pc = "idle"
  BY DEF Init, Idle
<1>2. \A r : ToRun(r) = {} /\ InWeek(r) = {}
  BY <1>1 DEF ToRun, InWeek, Deciding
<1>3. Cardinality({}) = 0 /\ Cardinality(Workers) \in Nat
  BY FS_EmptySet, WorkersAssumption, FS_CardinalityType
<1>4. \A r : Cardinality(ToRun(r)) = 0 /\ Cardinality(InWeek(r)) = 0
  BY <1>2, <1>3
<1>5. /\ \A r \in Requests : runsOf[r] = 0
      /\ \A n \in Weeks : runsIn[n] = 0
  BY DEF Init, NoRequests, NoWeeks
<1>6. /\ \A r \in Requests : runsOf[r] + Cardinality(ToRun(r)) <= Cardinality(Workers)
      /\ \A n \in Weeks : runsIn[n] + Cardinality(InWeek(n)) <= Cardinality(Workers)
  BY <1>3, <1>4, <1>5
<1>7. CountInv
  BY <1>5, <1>6 DEF CountInv
<1> QED  BY <1>1, <1>7 DEF RunsInv, JobsInv

(* A step that records nothing, after which those that have decided had    *)
(* done so before, unless the run is not recorded yet.                     *)
LEMMA NothingRecorded ==
  ASSUME IInv, CountInv, UNCHANGED <<runsOf, runsIn, lastAttempt>>,
         \A r \in Requests : result'[r] \in {"none", "pending"} => result[r] \in {"none", "pending"},
         \A r \in Requests : ToRun(r)' \subseteq ToRun(r) \/ runsOf[r] = 0,
         \A n \in Weeks : InWeek(n)' \subseteq InWeek(n) \/ runsIn[n] = 0
  PROVE  CountInv'
<1>1. \A r : ToRun(r) \subseteq Workers /\ ToRun(r)' \subseteq Workers
             /\ InWeek(r) \subseteq Workers /\ InWeek(r)' \subseteq Workers
  BY DEF ToRun, InWeek
<1>2. \A r \in Requests : runsOf[r] \in Nat
  BY DEF IInv, TypeOK
<1>3. \A n \in Weeks : runsIn[n] \in Nat
  BY DEF IInv, TypeOK
<1>4. \A r \in Requests : runsOf[r] + Cardinality(ToRun(r)') <= Cardinality(Workers)
  BY <1>1, <1>2, FewerWorkers DEF CountInv
<1>5. \A n \in Weeks : runsIn[n] + Cardinality(InWeek(n)') <= Cardinality(Workers)
  BY <1>1, <1>3, FewerWorkers DEF CountInv
<1> QED  BY <1>4, <1>5 DEF CountInv

(* A worker goes on to another job.                                        *)
LEMMA GotoCounts ==
  ASSUME IInv, RunsInv, NEW w \in Workers, NEW record \in Jobs, Goto(w, record),
         UNCHANGED <<week, result, runsOf, runsIn, lastAttempt>>,
         record.pc \in {"sync", "record"} => record.start \in Weeks,
         record.pc \in {"success", "attempt"} => record.now <= week,
         \A r \in Requests : record.request = r /\ record.pc \in Deciding =>
                               w \in ToRun(r) \/ runsOf[r] = 0,
         \A n \in Weeks : /\ record.request = 0
                          /\ \/ record.pc = "lock" /\ week <= n
                             \/ record.pc \in {"sync", "record"} /\ record.start = n
                          => w \in InWeek(n) \/ runsIn[n] = 0
  PROVE  RunsInv'
<1>1. \A v \in Workers : job'[v] = IF v = w THEN record ELSE job[v]
  BY DEF Goto, IInv, TypeOK
<1>2. \A r \in Requests : ToRun(r)' \subseteq ToRun(r) \/ runsOf[r] = 0
  BY <1>1 DEF ToRun
<1>3. \A n \in Weeks : InWeek(n)' \subseteq InWeek(n) \/ runsIn[n] = 0
  BY <1>1 DEF InWeek
<1>4. CountInv'
  BY <1>2, <1>3, NothingRecorded DEF RunsInv
<1>5. JobsInv'
  BY <1>1 DEF RunsInv, JobsInv
<1> QED  BY <1>4, <1>5 DEF RunsInv

LEMMA PollCounts ==
  ASSUME IInv, RunsInv, NEW w \in Workers, Poll(w)
  PROVE  RunsInv'
<1>1. UNCHANGED <<week, result, runsOf, runsIn, lastAttempt>> /\ week \in Weeks
  BY DEF Poll, table, IInv, TypeOK
<1>2. CASE \E r \in Pending : Goto(w, [Idle EXCEPT !.pc = "lock", !.request = r])
  <2>1. PICK r \in Pending : Goto(w, [Idle EXCEPT !.pc = "lock", !.request = r])
    BY <1>2
  <2> DEFINE record == [Idle EXCEPT !.pc = "lock", !.request = r]
  <2>2. r \in Requests /\ r # 0 /\ runsOf[r] = 0
    BY DEF Pending, RunsInv, CountInv, Requests
  <2>3. record \in Jobs /\ record.pc = "lock" /\ record.request = r
    BY <2>2, Bounds DEF Idle, Jobs
  <2>4. Goto(w, record)  BY <2>1
  <2> HIDE DEF record
  <2> QED  BY <1>1, <2>2, <2>3, <2>4, GotoCounts
<1>3. CASE Goto(w, [Idle EXCEPT !.pc = "success", !.now = week])
  <2> DEFINE record == [Idle EXCEPT !.pc = "success", !.now = week]
  <2>1. record \in Jobs /\ record.pc = "success" /\ record.now = week
    BY <1>1, Bounds DEF Idle, Jobs
  <2>2. Goto(w, record)  BY <1>3
  <2>3. week <= week
    BY <1>1 DEF Weeks
  <2> HIDE DEF record
  <2> QED  BY <1>1, <2>1, <2>2, <2>3, GotoCounts DEF Deciding
<1> QED  BY <1>2, <1>3 DEF Poll

(* A worker that finds the week due has found no attempt of it, or of a    *)
(* later one, when it goes for the lock.                                   *)
LEMMA DueIsUnrecorded ==
  ASSUME IInv, RunsInv, NEW w \in Workers, At(w, "attempt"),
         DecideDue(job[w].now, job[w].success, lastAttempt), NEW n \in Weeks, week <= n
  PROVE  runsIn[n] = 0
<1>1. job[w].now \in 0..MaxWeeks /\ job[w].now <= week /\ lastAttempt < job[w].now
  BY DEF IInv, TypeOK, Jobs, RunsInv, JobsInv, At, DecideDue
<1>2. lastAttempt \in Int /\ week \in Int /\ n \in Int
  BY DEF IInv, TypeOK, Weeks
<1>3. lastAttempt < n
  BY <1>1, <1>2
<1> QED  BY <1>3 DEF RunsInv, CountInv

LEMMA ReadsCount ==
  ASSUME IInv, RunsInv, NEW w \in Workers,
         LastSuccessfulSyncAt(w) \/ LastScheduledAttemptAt(w)
  PROVE  RunsInv'
<1>1. /\ job[w] \in Jobs /\ lastSuccess \in 0..MaxWeeks
      /\ UNCHANGED <<week, result, runsOf, runsIn, lastAttempt>>
  BY DEF LastSuccessfulSyncAt, LastScheduledAttemptAt, IInv, TypeOK, Weeks, table
<1>2. CASE LastSuccessfulSyncAt(w)
  <2> DEFINE record == [job[w] EXCEPT !.pc = "attempt", !.success = lastSuccess]
  <2>1. record \in Jobs /\ record.pc = "attempt" /\ record.now = job[w].now
    BY <1>1 DEF Jobs
  <2>2. Goto(w, record) /\ job[w].now <= week
    BY <1>2 DEF LastSuccessfulSyncAt, At, RunsInv, JobsInv
  <2> HIDE DEF record
  <2> QED  BY <1>1, <2>1, <2>2, GotoCounts DEF Deciding
<1>3. CASE LastScheduledAttemptAt(w)
  <2> DEFINE record == [Idle EXCEPT !.pc = "lock"]
  <2>1. record \in Jobs /\ record.pc = "lock" /\ record.request = 0 /\ Idle.pc = "idle"
    BY Bounds DEF Idle, Jobs
  <2>2. 0 \notin Requests
    BY DEF Requests
  <2>3. CASE DecideDue(job[w].now, job[w].success, lastAttempt)
    <3>1. Goto(w, record)
      BY <1>3, <2>3 DEF LastScheduledAttemptAt
    <3>2. \A n \in Weeks : week <= n => runsIn[n] = 0
      BY <1>3, <2>3, DueIsUnrecorded DEF LastScheduledAttemptAt
    <3> HIDE DEF record
    <3> QED  BY <1>1, <2>1, <2>2, <3>1, <3>2, GotoCounts
  <2>4. CASE Goto(w, Idle)
    BY <1>1, <2>1, <2>4, IdleIsJob, GotoCounts DEF Deciding
  <2> QED  BY <1>3, <2>3, <2>4 DEF LastScheduledAttemptAt
<1> QED  BY <1>2, <1>3

LEMMA LockCounts ==
  ASSUME IInv, RunsInv, NEW w \in Workers, TryLock(w)
  PROVE  RunsInv'
<1>1. /\ job[w] \in Jobs /\ week \in Weeks /\ job[w].pc = "lock"
      /\ UNCHANGED <<week, result, runsOf, runsIn, lastAttempt>>
  BY DEF TryLock, At, IInv, TypeOK, table
<1>2. CASE Goto(w, [job[w] EXCEPT !.pc = "sync", !.start = week])
  <2> DEFINE record == [job[w] EXCEPT !.pc = "sync", !.start = week]
  <2>1. record \in Jobs /\ record.pc = "sync" /\ record.start = week /\ record.request = job[w].request
    BY <1>1, Bounds DEF Jobs
  <2>2. Goto(w, record) /\ week <= week
    BY <1>1, <1>2 DEF Weeks
  <2> HIDE DEF record
  <2>3. \A r \in Requests : record.request = r => w \in ToRun(r)
    BY <1>1, <2>1 DEF ToRun, Deciding
  <2>4. record.request = 0 => w \in InWeek(week)
    BY <1>1, <2>1, <2>2 DEF InWeek
  <2> QED  BY <1>1, <2>1, <2>2, <2>3, <2>4, GotoCounts
<1>3. CASE Goto(w, Idle)
  <2>1. Idle.pc = "idle"
    BY DEF Idle
  <2> QED  BY <1>1, <1>3, <2>1, IdleIsJob, GotoCounts DEF Deciding
<1> QED  BY <1>2, <1>3 DEF TryLock, Begin

LEMMA SyncCounts ==
  ASSUME IInv, RunsInv, NEW w \in Workers, SyncSucceeds(w) \/ SyncFails(w)
  PROVE  RunsInv'
<1>1. /\ job[w] \in Jobs /\ week \in Weeks /\ job[w].pc = "sync" /\ job[w].start \in Weeks
      /\ UNCHANGED <<week, result, runsOf, runsIn, lastAttempt>>
  BY DEF SyncSucceeds, SyncFails, At, IInv, TypeOK, RunsInv, JobsInv, table
<1>2. PICK record \in Jobs : /\ Goto(w, record) /\ record.pc \in {"sync", "record"}
                             /\ record.start = job[w].start /\ record.request = job[w].request
  <2>1. ASSUME NEW ok \in BOOLEAN, Finished(w, ok)
        PROVE  \E record \in Jobs : /\ Goto(w, record) /\ record.pc \in {"sync", "record"}
                                    /\ record.start = job[w].start /\ record.request = job[w].request
    <3> DEFINE record == [job[w] EXCEPT !.pc = "record", !.tries = 0, !.finish = week, !.ok = ok]
    <3>1. record \in Jobs /\ record.pc = "record" /\ record.start = job[w].start
          /\ record.request = job[w].request
      BY <1>1, Bounds DEF Jobs
    <3>2. Goto(w, record)  BY <2>1 DEF Finished
    <3> HIDE DEF record
    <3> QED  BY <3>1, <3>2
  <2>2. CASE /\ job[w].tries + 1 < MaxAttempts
             /\ Goto(w, [job[w] EXCEPT !.tries = @ + 1])
    <3> DEFINE record == [job[w] EXCEPT !.tries = @ + 1]
    <3>1. record \in Jobs /\ record.pc = "sync" /\ record.start = job[w].start
          /\ record.request = job[w].request
      BY <1>1, <2>2 DEF Jobs
    <3>2. Goto(w, record)  BY <2>2
    <3> HIDE DEF record
    <3> QED  BY <3>1, <3>2
  <2> QED  BY <2>1, <2>2 DEF SyncSucceeds, SyncFails
<1>3. \A r \in Requests : record.request = r => w \in ToRun(r)
  BY <1>1, <1>2 DEF ToRun, Deciding
<1>4. \A n \in Weeks : record.request = 0 /\ record.start = n => w \in InWeek(n)
  BY <1>1, <1>2 DEF InWeek
<1> QED  BY <1>1, <1>2, <1>3, <1>4, GotoCounts

(* The worker that records a run is one less that is yet to do so.         *)
LEMMA RecordCounts ==
  ASSUME IInv, RunsInv, NEW w \in Workers, RecordSyncRun(w)
  PROVE  RunsInv'
<1> DEFINE record == [Idle EXCEPT !.pc = "unlock"]
<1>1. record \in Jobs /\ record.pc = "unlock"
  BY Bounds DEF Idle, Jobs
<1>2. /\ job' = [job EXCEPT ![w] = record] /\ week' = week /\ Write(job[w])
      /\ job[w] \in Jobs /\ job[w].pc = "record" /\ job[w].start \in Weeks
  BY DEF RecordSyncRun, At, Goto, IInv, TypeOK, RunsInv, JobsInv
<1> HIDE DEF record
<1>3. \A v \in Workers : job'[v] = IF v = w THEN record ELSE job[v]
  BY <1>2 DEF IInv, TypeOK
<1>4. \A r : ToRun(r)' \subseteq ToRun(r) \ {w} /\ InWeek(r)' \subseteq InWeek(r) \ {w}
  BY <1>1, <1>2, <1>3 DEF ToRun, InWeek, Deciding
<1>5. JobsInv'
  BY <1>1, <1>2, <1>3 DEF RunsInv, JobsInv
<1>6. \A r : ToRun(r) \subseteq Workers /\ ToRun(r)' \subseteq Workers
             /\ InWeek(r) \subseteq Workers /\ InWeek(r)' \subseteq Workers
  BY DEF ToRun, InWeek
<1>7. /\ \A r \in Requests : runsOf[r] \in Nat
      /\ \A n \in Weeks : runsIn[n] \in Nat
      /\ runsOf \in [Requests -> Nat] /\ runsIn \in [Weeks -> Nat]
  BY DEF IInv, TypeOK
<1>8. \A r \in Requests : runsOf[r] + Cardinality(ToRun(r)') <= Cardinality(Workers)
  BY <1>4, <1>6, <1>7, FewerWorkers DEF RunsInv, CountInv
<1>9. \A n \in Weeks : runsIn[n] + Cardinality(InWeek(n)') <= Cardinality(Workers)
  BY <1>4, <1>6, <1>7, FewerWorkers DEF RunsInv, CountInv
<1>10. CASE job[w].request # 0
  <2>0. PICK r : r = job[w].request
    OBVIOUS
  <2>1. r \in Requests /\ w \in ToRun(r)
    BY <1>2, <1>10, <2>0 DEF Jobs, ToRun, Deciding
  <2>2. /\ runsOf' = [runsOf EXCEPT ![r] = @ + 1] /\ runsIn' = runsIn /\ lastAttempt' = lastAttempt
        /\ result' = [result EXCEPT ![r] = IF job[w].ok THEN "succeeded" ELSE "failed"]
    BY <1>2, <1>10, <2>0 DEF Write
  <2>3. runsOf[r] + 1 + Cardinality(ToRun(r)') <= Cardinality(Workers)
    <3>1. runsOf[r] \in Nat /\ runsOf[r] + Cardinality(ToRun(r)) <= Cardinality(Workers)
      BY <1>7, <2>1 DEF RunsInv, CountInv
    <3>2. ToRun(r) \in SUBSET Workers /\ ToRun(r)' \in SUBSET Workers /\ ToRun(r)' \subseteq ToRun(r) \ {w}
      BY <1>4, <1>6
    <3> QED  BY <2>1, <3>1, <3>2, FewerWorkers
  <2>4. ASSUME NEW q \in Requests
        PROVE  /\ runsOf'[q] + Cardinality(ToRun(q)') <= Cardinality(Workers)
               /\ result'[q] \in {"none", "pending"} => runsOf'[q] = 0
    <3>1. CASE q = r
      <4>1. runsOf'[q] = runsOf[r] + 1
        BY <1>7, <2>1, <2>2, <3>1
      <4>2. result'[q] \in {"succeeded", "failed"}
        BY <2>1, <2>2, <3>1 DEF IInv, TypeOK
      <4> QED  BY <2>3, <3>1, <4>1, <4>2
    <3>2. CASE q # r
      BY <1>7, <1>8, <2>1, <2>2, <3>2 DEF IInv, TypeOK, RunsInv, CountInv
    <3> QED  BY <3>1, <3>2
  <2>5. \A n \in Weeks : /\ runsIn'[n] + Cardinality(InWeek(n)') <= Cardinality(Workers)
                         /\ lastAttempt' < n => runsIn'[n] = 0
    BY <1>9, <2>2 DEF RunsInv, CountInv
  <2>6. CountInv'
    BY <2>4, <2>5 DEF CountInv
  <2> QED  BY <1>5, <2>6 DEF RunsInv
<1>11. CASE job[w].request = 0
  <2>0. PICK s : s = job[w].start
    OBVIOUS
  <2>1. s \in Weeks /\ s \in Int /\ w \in InWeek(s) /\ lastAttempt \in Int
    BY <1>2, <1>11, <2>0 DEF InWeek, Weeks, IInv, TypeOK
  <2>2. /\ runsIn' = [runsIn EXCEPT ![s] = @ + 1] /\ lastAttempt' = Later(lastAttempt, s)
        /\ runsOf' = runsOf /\ result' = result
    BY <1>2, <1>11, <2>0 DEF Write
  <2>3. runsIn[s] + 1 + Cardinality(InWeek(s)') <= Cardinality(Workers)
    <3>1. runsIn[s] \in Nat /\ runsIn[s] + Cardinality(InWeek(s)) <= Cardinality(Workers)
      BY <1>7, <2>1 DEF RunsInv, CountInv
    <3>2. InWeek(s) \in SUBSET Workers /\ InWeek(s)' \in SUBSET Workers /\ InWeek(s)' \subseteq InWeek(s) \ {w}
      BY <1>4, <1>6
    <3> QED  BY <2>1, <3>1, <3>2, FewerWorkers
  <2>4. ASSUME NEW n \in Weeks
        PROVE  /\ runsIn'[n] + Cardinality(InWeek(n)') <= Cardinality(Workers)
               /\ lastAttempt' < n => runsIn'[n] = 0
    <3>1. n \in Int /\ (lastAttempt' < n => lastAttempt < n /\ n # s)
      BY <2>1, <2>2 DEF Weeks, Later
    <3>2. CASE n = s
      <4>1. runsIn'[n] = runsIn[s] + 1
        BY <1>7, <2>1, <2>2, <3>2
      <4> QED  BY <2>3, <3>1, <3>2, <4>1
    <3>3. CASE n # s
      BY <1>7, <1>9, <2>1, <2>2, <3>1, <3>3 DEF RunsInv, CountInv
    <3> QED  BY <3>2, <3>3
  <2>5. \A r \in Requests : /\ runsOf'[r] + Cardinality(ToRun(r)') <= Cardinality(Workers)
                            /\ result'[r] \in {"none", "pending"} => runsOf'[r] = 0
    BY <1>8, <2>2 DEF RunsInv, CountInv
  <2>6. CountInv'
    BY <2>4, <2>5 DEF CountInv
  <2> QED  BY <1>5, <2>6 DEF RunsInv
<1> QED  BY <1>10, <1>11

LEMMA OthersCount ==
  ASSUME IInv, RunsInv, NEW w \in Workers,
         Unlock(w) \/ StatementFails(w) \/ Crash(w) \/ Restart(w)
  PROVE  RunsInv'
<1>1. /\ Goto(w, Idle) \/ Goto(w, Off)
      /\ UNCHANGED <<week, result, runsOf, runsIn, lastAttempt>>
  BY DEF Unlock, StatementFails, Crash, Restart, table
<1>2. Idle.pc = "idle" /\ Off.pc = "off"
  BY DEF Idle, Off
<1> QED  BY <1>1, <1>2, IdleIsJob, GotoCounts DEF Deciding

(* The table and the jobs stay, but for a request that is made, or a week  *)
(* that begins: nobody who has no lock yet will run for the last one.      *)
LEMMA CalendarCounts ==
  ASSUME IInv, RunsInv, job' = job, UNCHANGED <<runsOf, runsIn, lastAttempt>>, week <= week',
         \A r \in Requests : result'[r] \in {"none", "pending"} => result[r] \in {"none", "pending"},
         week' \in Weeks
  PROVE  RunsInv'
<1>1. week \in Int /\ week' \in Int /\ Weeks \subseteq Int
  BY DEF IInv, TypeOK, Weeks
<1>2. \A r : ToRun(r)' = ToRun(r)
  BY DEF ToRun
<1>3. \A n \in Weeks : InWeek(n)' \subseteq InWeek(n)
  BY <1>1 DEF InWeek
<1>4. CountInv'
  BY <1>2, <1>3, NothingRecorded DEF RunsInv
<1>5. \A w \in Workers : job[w].now \in Int
  BY DEF IInv, TypeOK, Jobs
<1>6. JobsInv'
  BY <1>1, <1>5 DEF RunsInv, JobsInv
<1> QED  BY <1>4, <1>6 DEF RunsInv

(* The workers that have run a request, or attempted a week, and those that*)
(* may yet record one are together no more than there are workers.         *)
THEOREM RunsInductive == Spec => []RunsInv
<1>1. IInv /\ RunsInv /\ [Next]_vars => RunsInv'
  <2> SUFFICES ASSUME IInv, RunsInv, [Next]_vars PROVE RunsInv'
    OBVIOUS
  <2>1. week \in Weeks /\ week <= week
    BY DEF IInv, TypeOK, Weeks
  <2>2. CASE UNCHANGED vars
    BY <2>1, <2>2, CalendarCounts DEF vars, table
  <2>3. ASSUME NEW w \in Workers, Run(w) PROVE RunsInv'
    BY <2>3, PollCounts, ReadsCount, LockCounts, SyncCounts, RecordCounts, OthersCount DEF Run
  <2>4. ASSUME NEW w \in Workers, Crash(w) PROVE RunsInv'
    BY <2>4, OthersCount
  <2>5. ASSUME NEW w \in Workers, Disconnect(w) PROVE RunsInv'
    BY <2>1, <2>5, CalendarCounts DEF Disconnect, table
  <2>6. ASSUME NEW r \in Requests, QueueLeetCodeSync(r) PROVE RunsInv'
    <3>1. \A q \in Requests : result'[q] \in {"none", "pending"} => result[q] \in {"none", "pending"}
      BY <2>6 DEF QueueLeetCodeSync, IInv, TypeOK
    <3> QED  BY <2>1, <2>6, <3>1, CalendarCounts DEF QueueLeetCodeSync
  <2>7. CASE NextWeek
    <3>1. week' \in Weeks /\ week <= week'
      BY <2>7 DEF NextWeek, IInv, TypeOK, Weeks
    <3> QED  BY <2>7, <3>1, CalendarCounts DEF NextWeek, table
  <2>8. CASE ServerNotices
    BY <2>1, <2>8, CalendarCounts DEF ServerNotices, table
  <2> QED  BY <2>2, <2>3, <2>4, <2>5, <2>6, <2>7, <2>8 DEF Next
<1> QED  BY <1>1, Inductive, InitRunsInv, PTL DEF Spec

-----------------------------------------------------------------------------
(* How often one worker begins a run while its process lives.  It decides  *)
(* for a request, or a week, that it has not begun, because what it has    *)
(* begun it has recorded, unless it is still at it or has lost its session:*)
(* and without that it does not begin anything until it is started anew.   *)

AtRun(w) == job[w].pc \in {"sync", "record"}

BegunOfInv ==
  \A w \in Workers, r \in Requests :
    /\ begunOf[w][r] \in {0, 1}
    /\ begunOf[w][r] = 1 => \/ w \notin session
                            \/ AtRun(w) /\ job[w].request = r
                            \/ result[r] \in {"succeeded", "failed"}
    /\ w \in session /\ job[w].pc = "lock" /\ job[w].request = r => begunOf[w][r] = 0
    /\ job[w].pc = "off" => begunOf[w][r] = 0
BegunInInv ==
  \A w \in Workers, n \in Weeks :
    /\ begunIn[w][n] \in {0, 1}
    /\ begunIn[w][n] = 1 => \/ w \notin session
                            \/ AtRun(w) /\ job[w].request = 0 /\ job[w].start = n
                            \/ lastAttempt >= n
    /\ w \in session /\ job[w].pc = "lock" /\ job[w].request = 0 /\ week <= n =>
         begunIn[w][n] = 0
    /\ job[w].pc = "off" => begunIn[w][n] = 0
BegunInv == BegunOfInv /\ BegunInInv

(* What is in the table stays: a finished request is finished, and the last*)
(* attempt does not go back.                                               *)
LEMMA RecordedStays ==
  ASSUME IInv, RunsInv, [Next]_vars
  PROVE  /\ \A r \in Requests : result[r] \in {"succeeded", "failed"} =>
                                  result'[r] \in {"succeeded", "failed"}
         /\ lastAttempt <= lastAttempt' /\ lastAttempt' \in Int
         /\ week <= week' /\ week \in Int /\ week' \in Int
<1>0. lastAttempt \in Int /\ week \in Int
  BY DEF IInv, TypeOK, Weeks
<1>1. CASE UNCHANGED table
  <2>1. week' = week \/ week' = week + 1
    BY <1>1 DEF vars, Next, Run, Poll, LastSuccessfulSyncAt, LastScheduledAttemptAt, TryLock,
      SyncSucceeds, SyncFails, RecordSyncRun, Unlock, StatementFails, Restart, Disconnect, Crash,
      NextWeek, ServerNotices, QueueLeetCodeSync
  <2> QED  BY <1>0, <1>1, <2>1 DEF table
<1>2. ASSUME NEW q \in Requests, QueueLeetCodeSync(q)
      PROVE  /\ \A r \in Requests : result[r] \in {"succeeded", "failed"} =>
                                      result'[r] \in {"succeeded", "failed"}
             /\ lastAttempt' = lastAttempt /\ week' = week
  BY <1>2 DEF QueueLeetCodeSync, IInv, TypeOK
<1>3. ASSUME NEW w \in Workers, RecordSyncRun(w)
      PROVE  /\ \A r \in Requests : result[r] \in {"succeeded", "failed"} =>
                                      result'[r] \in {"succeeded", "failed"}
             /\ lastAttempt <= lastAttempt' /\ lastAttempt' \in Int /\ week' = week
  <2>1. Write(job[w]) /\ week' = week /\ job[w].start \in Int
    BY <1>3 DEF RecordSyncRun, At, IInv, TypeOK, Jobs
  <2>2. lastAttempt' = lastAttempt \/ lastAttempt' = Later(lastAttempt, job[w].start)
    BY <2>1 DEF Write
  <2>3. \A r \in Requests : result[r] \in {"succeeded", "failed"} =>
                             result'[r] \in {"succeeded", "failed"}
    BY <2>1 DEF Write, IInv, TypeOK
  <2> QED  BY <1>0, <2>1, <2>2, <2>3 DEF Later
<1>4. CASE UNCHANGED vars \/ NextWeek \/ ServerNotices
  BY <1>1, <1>4 DEF vars, NextWeek, ServerNotices
<1>5. ASSUME NEW w \in Workers, Run(w) \/ Disconnect(w) \/ Crash(w), ~RecordSyncRun(w)
      PROVE  UNCHANGED table
  BY <1>5 DEF Run, Poll, LastSuccessfulSyncAt, LastScheduledAttemptAt, TryLock,
    SyncSucceeds, SyncFails, Unlock, StatementFails, Restart, Disconnect, Crash
<1> QED  BY <1>0, <1>1, <1>2, <1>3, <1>4, <1>5 DEF Next

(* A step in which w goes on to another job, or loses its session, and     *)
(* nobody begins anything.                                                 *)
LEMMA BegunStays ==
  ASSUME IInv, RunsInv, BegunInv, [Next]_vars, UNCHANGED begun, NEW w \in Workers,
         \A v \in Workers \ {w} : job'[v] = job[v] /\ (v \in session' => v \in session),
         w \in session' => w \in session \/ job[w].pc = "off",
         w \in session' => \A r \in Requests :
           /\ AtRun(w) /\ job[w].request = r => \/ AtRun(w)' /\ job'[w].request = r
                                                \/ result'[r] \in {"succeeded", "failed"}
           /\ job'[w].pc = "lock" /\ job'[w].request = r => begunOf[w][r] = 0,
         w \in session' => \A n \in Weeks :
           /\ AtRun(w) /\ job[w].request = 0 /\ job[w].start = n =>
                \/ AtRun(w)' /\ job'[w].request = 0 /\ job'[w].start = n
                \/ lastAttempt' >= n
           /\ job'[w].pc = "lock" /\ job'[w].request = 0 /\ week' <= n => begunIn[w][n] = 0,
         job'[w].pc = "off" => job[w].pc = "off"
  PROVE  BegunInv'
<1>1. begunOf' = begunOf /\ begunIn' = begunIn
  BY DEF begun
<1>2. /\ \A r \in Requests : result[r] \in {"succeeded", "failed"} =>
                               result'[r] \in {"succeeded", "failed"}
      /\ lastAttempt <= lastAttempt' /\ lastAttempt' \in Int
      /\ week <= week' /\ week \in Int /\ week' \in Int
  BY RecordedStays
<1>3. lastAttempt \in Int /\ \A n \in Weeks : n \in Int
  BY DEF IInv, TypeOK, Weeks
<1>4. BegunOfInv'
  <2> SUFFICES ASSUME NEW v \in Workers, NEW r \in Requests
               PROVE  /\ begunOf[v][r] \in {0, 1}
                      /\ begunOf[v][r] = 1 => \/ v \notin session'
                                              \/ AtRun(v)' /\ job'[v].request = r
                                              \/ result'[r] \in {"succeeded", "failed"}
                      /\ v \in session' /\ job'[v].pc = "lock" /\ job'[v].request = r =>
                           begunOf[v][r] = 0
                      /\ job'[v].pc = "off" => begunOf[v][r] = 0
    BY <1>1 DEF BegunOfInv
  <2>1. CASE v = w
    BY <1>2, <2>1 DEF BegunInv, BegunOfInv
  <2>2. CASE v # w
    BY <1>2, <2>2 DEF BegunInv, BegunOfInv, AtRun
  <2> QED  BY <2>1, <2>2
<1>5. BegunInInv'
  <2> SUFFICES ASSUME NEW v \in Workers, NEW n \in Weeks
               PROVE  /\ begunIn[v][n] \in {0, 1}
                      /\ begunIn[v][n] = 1 => \/ v \notin session'
                                              \/ AtRun(v)' /\ job'[v].request = 0
                                                           /\ job'[v].start = n
                                              \/ lastAttempt' >= n
                      /\ v \in session' /\ job'[v].pc = "lock" /\ job'[v].request = 0
                           /\ week' <= n => begunIn[v][n] = 0
                      /\ job'[v].pc = "off" => begunIn[v][n] = 0
    BY <1>1 DEF BegunInInv
  <2>0. lastAttempt >= n => lastAttempt' >= n
    BY <1>2, <1>3
  <2>1. CASE v = w
    BY <1>2, <2>0, <2>1 DEF BegunInv, BegunInInv
  <2>2. CASE v # w
    <3>1. week' <= n => week <= n
      BY <1>2, <1>3
    <3> QED  BY <2>0, <2>2, <3>1 DEF BegunInv, BegunInInv, AtRun
  <2> QED  BY <2>1, <2>2
<1> QED  BY <1>4, <1>5 DEF BegunInv

(* Jobs that neither begin nor end a run, and are not of one.              *)
LEMMA IdleBegins ==
  ASSUME IInv, RunsInv, BegunInv, [Next]_vars, UNCHANGED <<begun, session>>,
         NEW w \in Workers, NEW record, Goto(w, record), record.pc # "off",
         w \in session => ~AtRun(w),
         w \in session /\ record.pc = "lock" =>
           /\ \A r \in Requests : record.request = r => begunOf[w][r] = 0
           /\ \A n \in Weeks : record.request = 0 /\ week' <= n => begunIn[w][n] = 0
  PROVE  BegunInv'
<1>1. \A v \in Workers : job'[v] = IF v = w THEN record ELSE job[v]
  BY DEF Goto, IInv, TypeOK
<1> QED  BY <1>1, BegunStays

LEMMA PollBegins ==
  ASSUME IInv, RunsInv, BegunInv, [Next]_vars, NEW w \in Workers, Poll(w)
  PROVE  BegunInv'
<1>1. /\ w \in session /\ ~AtRun(w) /\ UNCHANGED <<begun, session>>
  BY DEF Poll, At, AtRun
<1>2. CASE \E r \in Pending : Goto(w, [Idle EXCEPT !.pc = "lock", !.request = r])
  <2>1. PICK r \in Pending : Goto(w, [Idle EXCEPT !.pc = "lock", !.request = r])
    BY <1>2
  <2> DEFINE record == [Idle EXCEPT !.pc = "lock", !.request = r]
  <2>2. r \in Requests /\ r # 0 /\ result[r] = "pending"
    BY DEF Pending, Requests
  <2>3. begunOf[w][r] = 0
    BY <1>1, <2>2 DEF BegunInv, BegunOfInv
  <2>4. record.pc = "lock" /\ record.request = r
    BY DEF Idle
  <2>5. Goto(w, record)  BY <2>1
  <2> HIDE DEF record
  <2> QED  BY <1>1, <2>2, <2>3, <2>4, <2>5, IdleBegins
<1>3. CASE Goto(w, [Idle EXCEPT !.pc = "success", !.now = week])
  <2> DEFINE record == [Idle EXCEPT !.pc = "success", !.now = week]
  <2>1. record.pc = "success"
    BY DEF Idle
  <2>2. Goto(w, record)  BY <1>3
  <2> HIDE DEF record
  <2> QED  BY <1>1, <2>1, <2>2, IdleBegins
<1> QED  BY <1>2, <1>3 DEF Poll

(* A worker that finds the week due has not begun a run in it.             *)
LEMMA ReadsBegin ==
  ASSUME IInv, RunsInv, BegunInv, [Next]_vars, NEW w \in Workers,
         LastSuccessfulSyncAt(w) \/ LastScheduledAttemptAt(w)
  PROVE  BegunInv'
<1>1. /\ w \in session /\ ~AtRun(w) /\ UNCHANGED <<begun, session, week>>
  BY DEF LastSuccessfulSyncAt, LastScheduledAttemptAt, At, AtRun
<1>2. CASE LastSuccessfulSyncAt(w)
  <2> DEFINE record == [job[w] EXCEPT !.pc = "attempt", !.success = lastSuccess]
  <2>1. record.pc = "attempt"
    BY DEF IInv, TypeOK, Jobs
  <2>2. Goto(w, record)  BY <1>2 DEF LastSuccessfulSyncAt
  <2> HIDE DEF record
  <2> QED  BY <1>1, <2>1, <2>2, IdleBegins
<1>3. CASE LastScheduledAttemptAt(w)
  <2> DEFINE record == [Idle EXCEPT !.pc = "lock"]
  <2>1. record.pc = "lock" /\ record.request = 0 /\ Idle.pc = "idle" /\ 0 \notin Requests
    BY DEF Idle, Requests
  <2>2. CASE DecideDue(job[w].now, job[w].success, lastAttempt)
    <3>1. Goto(w, record)
      BY <1>3, <2>2 DEF LastScheduledAttemptAt
    <3>2. job[w].now \in 0..MaxWeeks /\ job[w].now <= week /\ lastAttempt < job[w].now
      BY <1>3, <2>2 DEF LastScheduledAttemptAt, At, IInv, TypeOK, Jobs, RunsInv, JobsInv, DecideDue
    <3>3. lastAttempt \in Int /\ week \in Int /\ \A n \in Weeks : n \in Int
      BY DEF IInv, TypeOK, Weeks
    <3>4. \A n \in Weeks : week <= n => ~(lastAttempt >= n)
      BY <3>2, <3>3
    <3>5. \A n \in Weeks : week <= n => begunIn[w][n] = 0
      BY <1>1, <3>4 DEF BegunInv, BegunInInv
    <3> HIDE DEF record
    <3> QED  BY <1>1, <2>1, <3>1, <3>5, IdleBegins
  <2>3. CASE Goto(w, Idle)
    BY <1>1, <2>1, <2>3, IdleBegins
  <2> QED  BY <1>3, <2>2, <2>3 DEF LastScheduledAttemptAt
<1> QED  BY <1>2, <1>3

LEMMA LockBegun ==
  ASSUME IInv, RunsInv, BegunInv, [Next]_vars, NEW w \in Workers, TryLock(w)
  PROVE  BegunInv'
<1>1. /\ w \in session /\ job[w].pc = "lock" /\ ~AtRun(w) /\ UNCHANGED <<session, week>>
      /\ UNCHANGED <<result, lastAttempt>> /\ week \in Weeks /\ week \in Int
  BY DEF TryLock, At, AtRun, table, IInv, TypeOK, Weeks
<1>2. CASE Goto(w, Idle) /\ UNCHANGED begun
  <2>1. Idle.pc = "idle"
    BY DEF Idle
  <2> QED  BY <1>1, <1>2, <2>1, IdleBegins
<1>3. CASE Begin(w)
  <2> DEFINE record == [job[w] EXCEPT !.pc = "sync", !.start = week]
  <2>1. /\ record.pc = "sync" /\ record.start = week /\ record.request = job[w].request
        /\ \A v \in Workers : job'[v] = IF v = w THEN record ELSE job[v]
    BY <1>3 DEF Begin, Goto, IInv, TypeOK, Jobs
  <2> HIDE DEF record
  <2>2. AtRun(w)' /\ job'[w].request = job[w].request /\ job'[w].start = week
    BY <2>1 DEF AtRun
  <2>3. \A v \in Workers \ {w} : job'[v] = job[v]
    BY <2>1
  <2>4. ASSUME NEW v \in Workers, NEW r \in Requests
        PROVE  /\ begunOf'[v][r] \in {0, 1}
               /\ begunOf'[v][r] = 1 => \/ v \notin session
                                        \/ AtRun(v)' /\ job'[v].request = r
                                        \/ result[r] \in {"succeeded", "failed"}
               /\ v \in session /\ job'[v].pc = "lock" /\ job'[v].request = r => begunOf'[v][r] = 0
               /\ job'[v].pc = "off" => begunOf'[v][r] = 0
    <3>0. begunOf'[v][r] = IF v = w /\ job[w].request = r THEN OneMore(begunOf[v][r])
                                                          ELSE begunOf[v][r]
      BY <1>3, BeginCounts
    <3>1. CASE v = w /\ job[w].request = r
      <4>1. begunOf[v][r] = 0
        BY <1>1, <3>1 DEF BegunInv, BegunOfInv
      <4>2. begunOf'[v][r] = 1
        BY <3>0, <3>1, <4>1 DEF OneMore
      <4> QED  BY <2>1, <2>2, <3>1, <4>2
    <3>2. CASE v = w /\ job[w].request # r
      BY <1>1, <2>1, <3>0, <3>2 DEF BegunInv, BegunOfInv
    <3>3. CASE v # w
      BY <2>3, <3>0, <3>3 DEF BegunInv, BegunOfInv, AtRun
    <3> QED  BY <3>1, <3>2, <3>3
  <2>5. ASSUME NEW v \in Workers, NEW n \in Weeks
        PROVE  /\ begunIn'[v][n] \in {0, 1}
               /\ begunIn'[v][n] = 1 => \/ v \notin session
                                        \/ AtRun(v)' /\ job'[v].request = 0 /\ job'[v].start = n
                                        \/ lastAttempt >= n
               /\ v \in session /\ job'[v].pc = "lock" /\ job'[v].request = 0 /\ week <= n =>
                    begunIn'[v][n] = 0
               /\ job'[v].pc = "off" => begunIn'[v][n] = 0
    <3>0. begunIn'[v][n] = IF v = w /\ job[w].request = 0 /\ n = week THEN OneMore(begunIn[v][n])
                                                                      ELSE begunIn[v][n]
      BY <1>3, BeginCounts
    <3>1. CASE v = w /\ job[w].request = 0 /\ n = week
      <4>1. begunIn[v][n] = 0
        BY <1>1, <3>1 DEF BegunInv, BegunInInv
      <4>2. begunIn'[v][n] = 1
        BY <3>0, <3>1, <4>1 DEF OneMore
      <4> QED  BY <2>1, <2>2, <3>1, <4>2
    <3>2. CASE v = w /\ ~(job[w].request = 0 /\ n = week)
      BY <1>1, <2>1, <3>0, <3>2 DEF BegunInv, BegunInInv
    <3>3. CASE v # w
      BY <2>3, <3>0, <3>3 DEF BegunInv, BegunInInv, AtRun
    <3> QED  BY <3>1, <3>2, <3>3
  <2>6. BegunOfInv'
    BY <1>1, <2>4 DEF BegunOfInv
  <2>7. BegunInInv'
    BY <1>1, <2>5 DEF BegunInInv
  <2> QED  BY <2>6, <2>7 DEF BegunInv
<1> QED  BY <1>2, <1>3 DEF TryLock

LEMMA SyncBegun ==
  ASSUME IInv, RunsInv, BegunInv, [Next]_vars, NEW w \in Workers, SyncSucceeds(w) \/ SyncFails(w)
  PROVE  BegunInv'
<1>1. /\ job[w] \in Jobs /\ UNCHANGED <<begun, session>> /\ AtRun(w)
  BY DEF SyncSucceeds, SyncFails, At, AtRun, IInv, TypeOK
<1>2. PICK record : /\ Goto(w, record) /\ record.pc \in {"sync", "record"}
                    /\ record.start = job[w].start /\ record.request = job[w].request
  <2>1. /\ \A ok : LET record == [job[w] EXCEPT !.pc = "record", !.tries = 0, !.finish = week, !.ok = ok]
                    IN  /\ record.pc = "record" /\ record.start = job[w].start
                        /\ record.request = job[w].request
        /\ LET record == [job[w] EXCEPT !.tries = @ + 1]
           IN  /\ record.pc = job[w].pc /\ record.start = job[w].start
               /\ record.request = job[w].request
    BY <1>1 DEF Jobs
  <2>2. \/ \E ok : Goto(w, [job[w] EXCEPT !.pc = "record", !.tries = 0, !.finish = week, !.ok = ok])
        \/ Goto(w, [job[w] EXCEPT !.tries = @ + 1])
    BY DEF SyncSucceeds, SyncFails, Finished
  <2> QED  BY <1>1, <2>1, <2>2 DEF AtRun
<1>3. \A v \in Workers : job'[v] = IF v = w THEN record ELSE job[v]
  BY <1>2 DEF Goto, IInv, TypeOK
<1>4. AtRun(w)'
  BY <1>2, <1>3 DEF AtRun
<1> QED  BY <1>1, <1>2, <1>3, <1>4, BegunStays

(* What ends a run has recorded it.                                        *)
LEMMA RecordBegun ==
  ASSUME IInv, RunsInv, BegunInv, [Next]_vars, NEW w \in Workers, RecordSyncRun(w)
  PROVE  BegunInv'
<1> DEFINE record == [Idle EXCEPT !.pc = "unlock"]
<1>1. record.pc = "unlock"
  BY DEF Idle
<1>2. /\ Goto(w, record) /\ Write(job[w]) /\ UNCHANGED <<begun, session>> /\ w \in session
  BY DEF RecordSyncRun, At
<1> HIDE DEF record
<1>3. \A v \in Workers : job'[v] = IF v = w THEN record ELSE job[v]
  BY <1>2 DEF Goto, IInv, TypeOK
<1>4. ASSUME NEW r \in Requests, job[w].request = r PROVE result'[r] \in {"succeeded", "failed"}
  <2>1. r # 0
    BY DEF Requests
  <2> QED  BY <1>2, <1>4, <2>1 DEF Write, IInv, TypeOK
<1>5. ASSUME NEW n \in Weeks, job[w].request = 0, job[w].start = n PROVE lastAttempt' >= n
  <2>1. lastAttempt' = Later(lastAttempt, n)
    BY <1>2, <1>5 DEF Write
  <2>2. lastAttempt \in Int /\ n \in Int
    BY DEF IInv, TypeOK, Weeks
  <2> QED  BY <2>1, <2>2 DEF Later
<1> QED  BY <1>1, <1>2, <1>3, <1>4, <1>5, BegunStays

LEMMA OthersBegin ==
  ASSUME IInv, RunsInv, BegunInv, [Next]_vars, NEW w \in Workers,
         Unlock(w) \/ StatementFails(w) \/ Disconnect(w) \/ Restart(w)
  PROVE  BegunInv'
<1>1. UNCHANGED begun /\ Idle.pc = "idle"
  BY DEF Unlock, StatementFails, Disconnect, Restart, Idle
<1>2. CASE Unlock(w) \/ StatementFails(w)
  <2>1. Goto(w, Idle) /\ UNCHANGED session /\ (w \in session => ~AtRun(w))
    BY <1>2 DEF Unlock, StatementFails, At, AtRun
  <2> QED  BY <1>1, <2>1, IdleBegins
<1>3. CASE Disconnect(w)
  BY <1>1, <1>3, BegunStays DEF Disconnect, LosesSession
<1>4. CASE Restart(w)
  <2>1. /\ \A v \in Workers : job'[v] = IF v = w THEN Idle ELSE job[v]
        /\ job[w].pc = "off" /\ ~AtRun(w) /\ session' = session \cup {w}
    BY <1>4 DEF Restart, Goto, AtRun, IInv, TypeOK
  <2> QED  BY <1>1, <2>1, BegunStays
<1> QED  BY <1>2, <1>3, <1>4

(* With the process ends what it has begun.                                *)
LEMMA CrashBegun ==
  ASSUME IInv, RunsInv, BegunInv, [Next]_vars, NEW w \in Workers, Crash(w)
  PROVE  BegunInv'
<1>1. /\ session' = session \ {w} /\ UNCHANGED <<week, result, lastAttempt>>
      /\ \A v \in Workers \ {w} : job'[v] = job[v] /\ begunOf'[v] = begunOf[v]
                                                 /\ begunIn'[v] = begunIn[v]
      /\ begunOf'[w] = NoRequests /\ begunIn'[w] = NoWeeks
  BY DEF Crash, LosesSession, Goto, table, IInv, TypeOK
<1>2. /\ \A r \in Requests : begunOf'[w][r] = 0
      /\ \A n \in Weeks : begunIn'[w][n] = 0
  BY <1>1 DEF NoRequests, NoWeeks
<1>3. BegunOfInv'
  <2> SUFFICES ASSUME NEW v \in Workers, NEW r \in Requests
               PROVE  /\ begunOf'[v][r] \in {0, 1}
                      /\ begunOf'[v][r] = 1 => \/ v \notin session'
                                               \/ AtRun(v)' /\ job'[v].request = r
                                               \/ result[r] \in {"succeeded", "failed"}
                      /\ v \in session' /\ job'[v].pc = "lock" /\ job'[v].request = r =>
                           begunOf'[v][r] = 0
                      /\ job'[v].pc = "off" => begunOf'[v][r] = 0
    BY <1>1 DEF BegunOfInv
  <2>1. CASE v = w
    BY <1>2, <2>1
  <2>2. CASE v # w
    BY <1>1, <2>2 DEF BegunInv, BegunOfInv, AtRun
  <2> QED  BY <2>1, <2>2
<1>4. BegunInInv'
  <2> SUFFICES ASSUME NEW v \in Workers, NEW n \in Weeks
               PROVE  /\ begunIn'[v][n] \in {0, 1}
                      /\ begunIn'[v][n] = 1 => \/ v \notin session'
                                               \/ AtRun(v)' /\ job'[v].request = 0
                                                            /\ job'[v].start = n
                                               \/ lastAttempt >= n
                      /\ v \in session' /\ job'[v].pc = "lock" /\ job'[v].request = 0
                           /\ week <= n => begunIn'[v][n] = 0
                      /\ job'[v].pc = "off" => begunIn'[v][n] = 0
    BY <1>1 DEF BegunInInv
  <2>1. CASE v = w
    BY <1>2, <2>1
  <2>2. CASE v # w
    BY <1>1, <2>2 DEF BegunInv, BegunInInv, AtRun
  <2> QED  BY <2>1, <2>2
<1> QED  BY <1>3, <1>4 DEF BegunInv

(* The table gets a request, the week turns, a session is noticed as gone. *)
LEMMA CalendarBegun ==
  ASSUME IInv, RunsInv, BegunInv, [Next]_vars, UNCHANGED <<begun, session, job>>
  PROVE  BegunInv'
<1>1. begunOf' = begunOf /\ begunIn' = begunIn
  BY DEF begun
<1>2. /\ \A r \in Requests : result[r] \in {"succeeded", "failed"} =>
                               result'[r] \in {"succeeded", "failed"}
      /\ lastAttempt <= lastAttempt' /\ lastAttempt' \in Int
      /\ week <= week' /\ week \in Int /\ week' \in Int
  BY RecordedStays
<1>3. lastAttempt \in Int /\ \A n \in Weeks : n \in Int
  BY DEF IInv, TypeOK, Weeks
<1>4. BegunOfInv'
  BY <1>1, <1>2 DEF BegunInv, BegunOfInv, AtRun
<1>5. \A n \in Weeks : /\ lastAttempt >= n => lastAttempt' >= n
                       /\ week' <= n => week <= n
  BY <1>2, <1>3
<1>6. BegunInInv'
  <2> SUFFICES ASSUME NEW v \in Workers, NEW n \in Weeks
               PROVE  /\ begunIn[v][n] \in {0, 1}
                      /\ begunIn[v][n] = 1 => \/ v \notin session
                                              \/ AtRun(v) /\ job[v].request = 0 /\ job[v].start = n
                                              \/ lastAttempt' >= n
                      /\ v \in session /\ job[v].pc = "lock" /\ job[v].request = 0
                           /\ week' <= n => begunIn[v][n] = 0
                      /\ job[v].pc = "off" => begunIn[v][n] = 0
    BY <1>1 DEF BegunInInv, AtRun
  <2>1. BegunInInv /\ (lastAttempt >= n => lastAttempt' >= n) /\ (week' <= n => week <= n)
    BY <1>5 DEF BegunInv
  <2> QED  BY <2>1 DEF BegunInInv
<1> QED  BY <1>4, <1>6 DEF BegunInv

(* What a worker has begun since its process started it has recorded, is at*)
(* now, or can record no more.                                             *)
THEOREM BegunInductive == Spec => []BegunInv
<1>1. Init => BegunInv
  BY DEF Init, BegunInv, BegunOfInv, BegunInInv, NoRequests, NoWeeks
<1>2. IInv /\ RunsInv /\ BegunInv /\ [Next]_vars => BegunInv'
  <2> SUFFICES ASSUME IInv, RunsInv, BegunInv, [Next]_vars PROVE BegunInv'
    OBVIOUS
  <2>1. CASE UNCHANGED vars
    BY <2>1, CalendarBegun DEF vars
  <2>2. ASSUME NEW w \in Workers, Run(w) PROVE BegunInv'
    BY <2>2, PollBegins, ReadsBegin, LockBegun, SyncBegun, RecordBegun, OthersBegin DEF Run
  <2>3. ASSUME NEW w \in Workers, Disconnect(w) \/ Crash(w) PROVE BegunInv'
    BY <2>3, OthersBegin, CrashBegun
  <2>4. ASSUME NEW r \in Requests, QueueLeetCodeSync(r) PROVE BegunInv'
    BY <2>4, CalendarBegun DEF QueueLeetCodeSync
  <2>5. CASE NextWeek \/ ServerNotices
    BY <2>5, CalendarBegun DEF NextWeek, ServerNotices
  <2> QED  BY <2>1, <2>2, <2>3, <2>4, <2>5 DEF Next
<1> QED  BY <1>1, <1>2, Inductive, RunsInductive, PTL DEF Spec

(* However many workers poll, lose their sessions, die and come back, and  *)
(* whichever of their reads of the table lie before another's record: none *)
(* begins a run of a request, or a scheduled run in a week, twice before   *)
(* its process ends (RunManual and RunDue of scheduler.go), and no request *)
(* and no week is recorded more often than there are workers.              *)
THEOREM EachRunsOnce == Spec => []RunsOnce
<1>1. ASSUME IInv, RunsInv, BegunInv PROVE RunsOnce
  <2>1. \A r : ToRun(r) \subseteq Workers /\ InWeek(r) \subseteq Workers
    BY DEF ToRun, InWeek
  <2>2. \A r : Cardinality(ToRun(r)) \in Nat /\ Cardinality(InWeek(r)) \in Nat
    BY <2>1, WorkersAssumption, FS_Subset, FS_CardinalityType
  <2>3. Cardinality(Workers) \in Nat
    BY WorkersAssumption, FS_CardinalityType
  <2>4. /\ \A r \in Requests : runsOf[r] \in Nat
        /\ \A n \in Weeks : runsIn[n] \in Nat
    BY <1>1 DEF IInv, TypeOK
  <2>5. \A r \in Requests : runsOf[r] <= Cardinality(Workers)
    BY <1>1, <2>2, <2>3, <2>4 DEF RunsInv, CountInv
  <2>6. \A n \in Weeks : runsIn[n] <= Cardinality(Workers)
    BY <1>1, <2>2, <2>3, <2>4 DEF RunsInv, CountInv
  <2>7. /\ \A w \in Workers, r \in Requests : begunOf[w][r] <= 1
        /\ \A w \in Workers, n \in Weeks : begunIn[w][n] <= 1
    BY <1>1 DEF BegunInv, BegunOfInv, BegunInInv
  <2> QED  BY <2>5, <2>6, <2>7 DEF RunsOnce
<1> QED  BY <1>1, Inductive, RunsInductive, BegunInductive, PTL
-----------------------------------------------------------------------------
(* One run after the other: the lock and the polls implement SyncContract. *)

(* A run for a request is for one that was made, and ends no sooner than it*)
(* begins.                                                                 *)
AskedInv ==
  \A w \in Workers :
    /\ job[w].pc \in Deciding /\ job[w].request # 0 => result[job[w].request] # "none"
    /\ job[w].pc = "record" => job[w].start <= job[w].finish

(* The run w has under way, and what SyncContract calls running.           *)
RunOf(w) == [worker |-> w, request |-> job[w].request, since |-> job[w].start]
Writing(w) == w \in session /\ job[w].pc \in {"sync", "record"}
running == {RunOf(w) : w \in {v \in session : job[v].pc \in {"sync", "record"}}}

(* No request that was made is forgotten.                                  *)
LEMMA AskedStaysAsked ==
  ASSUME IInv, RunsInv, [Next]_vars, NEW r \in Requests, result[r] # "none"
  PROVE  result'[r] # "none"
<1>1. CASE UNCHANGED <<table>>
  BY <1>1 DEF table
<1>2. ASSUME NEW q \in Requests, QueueLeetCodeSync(q) PROVE result'[r] # "none"
  BY <1>2 DEF QueueLeetCodeSync, IInv, TypeOK
<1>3. ASSUME NEW w \in Workers, RecordSyncRun(w) PROVE result'[r] # "none"
  BY <1>3 DEF RecordSyncRun, Write, IInv, TypeOK
<1> QED
  BY <1>1, <1>2, <1>3
  DEF vars, Next, Run, Poll, LastSuccessfulSyncAt, LastScheduledAttemptAt, TryLock, SyncSucceeds,
      SyncFails, Unlock, StatementFails, Restart, Disconnect, Crash, NextWeek, ServerNotices

(* A worker moves to a job that keeps its request, or has none to be kept. *)
LEMMA GotoAsks ==
  ASSUME IInv, RunsInv, AskedInv, [Next]_vars, NEW w \in Workers, NEW record, Goto(w, record),
         record.pc \in Deciding /\ record.request # 0 =>
           record.request \in Requests /\ result[record.request] # "none",
         record.pc = "record" => record.start <= record.finish
  PROVE  AskedInv'
<1>1. \A v \in Workers : job'[v] = IF v = w THEN record ELSE job[v]
  BY DEF Goto, IInv, TypeOK
<1>2. \A v \in Workers : job[v].request \in {0} \cup Requests
  BY DEF IInv, TypeOK, Jobs
<1>3. \A r \in Requests : result[r] # "none" => result'[r] # "none"
  BY AskedStaysAsked
<1> QED  BY <1>1, <1>2, <1>3 DEF AskedInv

LEMMA AskedStep ==
  ASSUME IInv, RunsInv, AskedInv, [Next]_vars
  PROVE  AskedInv'
<1>1. CASE job' = job
  <2>1. \A w \in Workers : job[w].request \in {0} \cup Requests
    BY DEF IInv, TypeOK, Jobs
  <2>2. \A r \in Requests : result[r] # "none" => result'[r] # "none"
    BY AskedStaysAsked
  <2> QED  BY <1>1, <2>1, <2>2 DEF AskedInv
<1>2. ASSUME NEW w \in Workers, Run(w) \/ Crash(w) PROVE AskedInv'
  <2> DEFINE Asked(record) ==
        /\ record.pc \in Deciding /\ record.request # 0 =>
             record.request \in Requests /\ result[record.request] # "none"
        /\ record.pc = "record" => record.start <= record.finish
  <2>1. /\ job[w] \in Jobs /\ Asked(job[w])
        /\ job[w].start <= week
    BY DEF IInv, TypeOK, PastInv, AskedInv, Jobs
  <2>2. \A pc \in {"idle", "success", "attempt", "lock", "unlock", "off"}, n \in 0..MaxWeeks :
          Asked([Idle EXCEPT !.pc = pc, !.now = n])
    BY DEF Idle, Deciding
  <2>3. Asked(Idle) /\ Asked(Off)
    BY DEF Idle, Off, Deciding
  <2>4. \E record : Goto(w, record) /\ Asked(record)
    <3>1. CASE Poll(w)
      <4>1. CASE \E r \in Pending : Goto(w, [Idle EXCEPT !.pc = "lock", !.request = r])
        <5>1. PICK r \in Pending : Goto(w, [Idle EXCEPT !.pc = "lock", !.request = r])
          BY <4>1
        <5>2. Asked([Idle EXCEPT !.pc = "lock", !.request = r])
          BY DEF Idle, Deciding, Pending
        <5> QED  BY <5>1, <5>2
      <4>2. CASE Goto(w, [Idle EXCEPT !.pc = "success", !.now = week])
        <5>1. Asked([Idle EXCEPT !.pc = "success", !.now = week])
          BY DEF Idle, Deciding
        <5> QED  BY <4>2, <5>1
      <4> QED  BY <3>1, <4>1, <4>2 DEF Poll
    <3>2. CASE LastSuccessfulSyncAt(w)
      <4>1. Asked([job[w] EXCEPT !.pc = "attempt", !.success = lastSuccess])
        BY <2>1 DEF Jobs, Deciding
      <4> QED  BY <3>2, <4>1 DEF LastSuccessfulSyncAt
    <3>3. CASE LastScheduledAttemptAt(w)
      <4>1. Asked([Idle EXCEPT !.pc = "lock"])
        BY DEF Idle, Deciding
      <4>2. Goto(w, [Idle EXCEPT !.pc = "lock"]) \/ Goto(w, Idle)
        BY <3>3 DEF LastScheduledAttemptAt
      <4> QED  BY <2>3, <4>1, <4>2
    <3>4. CASE TryLock(w)
      <4>1. Asked([job[w] EXCEPT !.pc = "sync", !.start = week])
        BY <2>1, <3>4 DEF Jobs, Deciding, TryLock, At
      <4>2. Goto(w, [job[w] EXCEPT !.pc = "sync", !.start = week]) \/ Goto(w, Idle)
        BY <3>4 DEF TryLock, Begin
      <4> QED  BY <2>3, <4>1, <4>2
    <3>5. CASE SyncSucceeds(w) \/ SyncFails(w)
      <4>1. \A ok : Asked([job[w] EXCEPT !.pc = "record", !.tries = 0, !.finish = week, !.ok = ok])
        BY <2>1, <3>5 DEF Jobs, Deciding, SyncSucceeds, SyncFails, At
      <4>2. Asked([job[w] EXCEPT !.tries = @ + 1])
        BY <2>1, <3>5 DEF Jobs, Deciding, SyncSucceeds, SyncFails, At
      <4>3. \/ Goto(w, [job[w] EXCEPT !.tries = @ + 1])
            \/ \E ok : Goto(w, [job[w] EXCEPT !.pc = "record", !.tries = 0, !.finish = week,
                                              !.ok = ok])
        BY <3>5 DEF SyncSucceeds, SyncFails, Finished
      <4> QED  BY <4>1, <4>2, <4>3
    <3>6. CASE RecordSyncRun(w)
      <4>1. Asked([Idle EXCEPT !.pc = "unlock"])
        BY DEF Idle, Deciding
      <4> QED  BY <3>6, <4>1 DEF RecordSyncRun
    <3>7. CASE Unlock(w) \/ StatementFails(w) \/ Restart(w) \/ Crash(w)
      BY <2>3, <3>7 DEF Unlock, StatementFails, Restart, Crash
    <3> QED  BY <1>2, <3>1, <3>2, <3>3, <3>4, <3>5, <3>6, <3>7 DEF Run
  <2> QED  BY <2>4, GotoAsks
<1> QED
  BY <1>1, <1>2 DEF vars, Next, QueueLeetCodeSync, NextWeek, ServerNotices, Disconnect

THEOREM AskedInductive == Spec => []AskedInv
<1>1. Init => AskedInv
  BY DEF Init, AskedInv, Deciding, Idle
<1>2. IInv /\ RunsInv /\ AskedInv /\ [Next]_vars => AskedInv'
  BY AskedStep
<1> QED  BY <1>1, <1>2, Inductive, RunsInductive, PTL DEF Spec

(* The runs under way after a step of w that leaves the sessions.          *)
LEMMA RunningAfter ==
  ASSUME IInv, NEW w \in Workers, NEW record \in Jobs, Goto(w, record), session' = session
  PROVE  /\ ~Writing(w) /\ record.pc \notin {"sync", "record"} => running' = running
         /\ /\ Writing(w) /\ record.pc \in {"sync", "record"}
            /\ record.request = job[w].request /\ record.start = job[w].start
            => running' = running
<1>1. \A v \in Workers : job'[v] = IF v = w THEN record ELSE job[v]
  BY DEF Goto, IInv, TypeOK
<1>2. session \subseteq Workers
  BY DEF IInv, TypeOK
<1>3. CASE ~Writing(w) /\ record.pc \notin {"sync", "record"}
  <2>1. \A v \in session : /\ job'[v].pc \in {"sync", "record"} <=> job[v].pc \in {"sync", "record"}
                           /\ job[v].pc \in {"sync", "record"} => job'[v] = job[v]
    BY <1>1, <1>2, <1>3 DEF Writing
  <2>2. {v \in session' : job'[v].pc \in {"sync", "record"}}
          = {v \in session : job[v].pc \in {"sync", "record"}}
    BY <2>1
  <2>3. \A v \in {u \in session : job[u].pc \in {"sync", "record"}} : RunOf(v)' = RunOf(v)
    BY <2>1 DEF RunOf
  <2> QED  BY <2>2, <2>3 DEF running
<1>4. CASE /\ Writing(w) /\ record.pc \in {"sync", "record"}
           /\ record.request = job[w].request /\ record.start = job[w].start
  <2>1. \A v \in session : /\ job'[v].pc \in {"sync", "record"} <=> job[v].pc \in {"sync", "record"}
                           /\ job'[v].request = job[v].request /\ job'[v].start = job[v].start
    BY <1>1, <1>2, <1>4 DEF Writing
  <2>2. {v \in session' : job'[v].pc \in {"sync", "record"}}
          = {v \in session : job[v].pc \in {"sync", "record"}}
    BY <2>1
  <2>3. \A v \in session : RunOf(v)' = RunOf(v)
    BY <2>1 DEF RunOf
  <2> QED  BY <2>2, <2>3 DEF running
<1> QED  BY <1>3, <1>4

(* The one that writes is the only one.                                    *)
LEMMA OnlyRun ==
  ASSUME IInv, NEW w \in Workers, Writing(w)
  PROVE  running = {RunOf(w)}
  BY DEF running, Writing, IInv, LockInv

(* Nobody writes who does not have the lock.                               *)
LEMMA NoneRuns ==
  ASSUME IInv, NEW w \in Workers, lock \in {NoWorker, w}, ~Writing(w)
  PROVE  running = {}
  BY DEF running, Writing, IInv, LockInv, TypeOK

(* What else SyncContract sees.                                            *)
contract == <<week, result, lastSuccess, lastAttempt>>

(* A worker that gets the lock begins a run.                               *)
LEMMA LockBegins ==
  ASSUME IInv, AskedInv, NEW w \in Workers, TryLock(w), lock \in {NoWorker, w},
         NEW r, r = job[w].request
  PROVE  OneByOne!Begin(w, r)
<1>1. /\ job' = [job EXCEPT ![w] = [job[w] EXCEPT !.pc = "sync", !.start = week]]
      /\ UNCHANGED <<session, contract>> /\ w \in session /\ job[w].pc = "lock"
      /\ job[w] \in Jobs
  BY DEF TryLock, Begin, At, Goto, table, contract, IInv, TypeOK
<1>2. running = {}
  BY <1>1, NoneRuns DEF Writing
<1>3. running' = {[worker |-> w, request |-> job[w].request, since |-> week]}
  <2> DEFINE record == [job[w] EXCEPT !.pc = "sync", !.start = week]
  <2>1. record.pc = "sync" /\ record.start = week /\ record.request = job[w].request
    BY <1>1 DEF Jobs
  <2>2. \A v \in Workers : job'[v] = IF v = w THEN record ELSE job[v]
    BY <1>1 DEF IInv, TypeOK
  <2> HIDE DEF record
  <2>3. session \subseteq Workers
    BY DEF IInv, TypeOK
  <2>4. {v \in session' : job'[v].pc \in {"sync", "record"}} = {w}
    BY <1>1, <1>2, <2>1, <2>2, <2>3 DEF running
  <2>5. running' = {RunOf(w)'}
    BY <2>4 DEF running, RunOf
  <2> QED  BY <2>1, <2>2, <2>5 DEF RunOf
<1>4. job[w].request # 0 => result[job[w].request] # "none"
  BY <1>1 DEF AskedInv, Deciding
<1> QED  BY <1>1, <1>2, <1>3, <1>4 DEF OneByOne!Begin, running, RunOf, contract

(* A row is of the run under way, and ends it.                             *)
LEMMA RowRecords ==
  ASSUME IInv, AskedInv, NEW w \in Workers, RecordSyncRun(w),
         NEW run, run = RunOf(w), NEW ok, ok = job[w].ok, NEW end, end = job[w].finish
  PROVE  OneByOne!Record(run, ok, end) /\ run \in running
<1>1. /\ job' = [job EXCEPT ![w] = [Idle EXCEPT !.pc = "unlock"]] /\ Write(job[w])
      /\ UNCHANGED <<week, session>> /\ Writing(w)
  BY DEF RecordSyncRun, At, Goto, Writing
<1>2. running = {RunOf(w)}
  BY <1>1, OnlyRun
<1>3. running' = {}
  <2>1. [Idle EXCEPT !.pc = "unlock"].pc = "unlock"
    BY DEF Idle
  <2>2. \A v \in session : job'[v].pc \notin {"sync", "record"}
    BY <1>1, <2>1 DEF IInv, TypeOK, LockInv, Writing
  <2> QED  BY <1>1, <2>2 DEF running
<1> QED
  BY <1>1, <1>2, <1>3 DEF OneByOne!Record, running, RunOf, Write, Later, OneByOne!Later

(* Whoever loses its session, or dies, leaves its run unrecorded.          *)
LEMMA LossAbandons ==
  ASSUME IInv, NEW w \in Workers, Disconnect(w) \/ Crash(w)
  PROVE  OneByOne!Abandon \/ UNCHANGED <<contract, running>>
<1>1. /\ session' = session \ {w} /\ UNCHANGED contract
      /\ \A v \in session' : job'[v] = job[v]
  BY DEF Disconnect, Crash, LosesSession, Goto, table, contract, IInv, TypeOK
<1>2. CASE Writing(w)
  <2>1. running # {}
    BY <1>2, OnlyRun
  <2>2. running' = {}
    BY <1>1, <1>2 DEF running, Writing, IInv, LockInv
  <2> QED  BY <1>1, <2>1, <2>2 DEF OneByOne!Abandon, running, RunOf, contract
<1>3. CASE ~Writing(w)
  <2>1. {v \in session' : job'[v].pc \in {"sync", "record"}}
          = {v \in session : job[v].pc \in {"sync", "record"}}
    BY <1>1, <1>3 DEF Writing
  <2>2. running' = running
    BY <1>1, <2>1 DEF running, RunOf
  <2> QED  BY <1>1, <2>2
<1> QED  BY <1>2, <1>3

(* Every other step of a worker leaves the table and the runs alone.       *)
LEMMA PollsStutter ==
  ASSUME IInv, NEW w \in Workers, Run(w), ~RecordSyncRun(w),
         ~(TryLock(w) /\ lock \in {NoWorker, w})
  PROVE  UNCHANGED <<contract, running>>
<1> UNCHANGED contract
  BY DEF Run, Poll, LastSuccessfulSyncAt, LastScheduledAttemptAt, TryLock, SyncSucceeds, SyncFails,
         Unlock, StatementFails, Restart, table, contract
<1>1. CASE SyncSucceeds(w) \/ SyncFails(w)
  <2>1. Writing(w) /\ session' = session /\ job[w] \in Jobs
    BY <1>1 DEF SyncSucceeds, SyncFails, At, Writing, IInv, TypeOK
  <2>2. \E record \in Jobs : /\ Goto(w, record) /\ record.pc \in {"sync", "record"}
                            /\ record.request = job[w].request /\ record.start = job[w].start
    <3>1. ASSUME NEW ok \in BOOLEAN, Goto(w, [job[w] EXCEPT !.pc = "record", !.tries = 0, !.finish = week,
                                                 !.ok = ok])
          PROVE  \E record \in Jobs : /\ Goto(w, record) /\ record.pc \in {"sync", "record"}
                                     /\ record.request = job[w].request /\ record.start = job[w].start
      <4> DEFINE record == [job[w] EXCEPT !.pc = "record", !.tries = 0, !.finish = week, !.ok = ok]
      <4>1. /\ record.pc = "record" /\ record.request = job[w].request /\ record.start = job[w].start
            /\ record \in Jobs
        BY <2>1, Bounds DEF Jobs, IInv, TypeOK
      <4>2. Goto(w, record)  BY <3>1
      <4> HIDE DEF record
      <4> QED  BY <4>1, <4>2
    <3>2. CASE /\ job[w].tries + 1 < MaxAttempts
               /\ Goto(w, [job[w] EXCEPT !.tries = @ + 1])
      <4> DEFINE record == [job[w] EXCEPT !.tries = @ + 1]
      <4>1. /\ record.pc = job[w].pc /\ record.request = job[w].request
            /\ record.start = job[w].start /\ record \in Jobs
        BY <2>1, <3>2 DEF Jobs
      <4>2. Goto(w, record)  BY <3>2
      <4> HIDE DEF record
      <4> QED  BY <2>1, <4>1, <4>2 DEF Writing
    <3> QED  BY <1>1, <3>1, <3>2 DEF SyncSucceeds, SyncFails, Finished
  <2> QED  BY <2>1, <2>2, RunningAfter
<1>2. CASE Restart(w)
  <2>1. /\ session' = session \cup {w} /\ job' = [job EXCEPT ![w] = Idle]
        /\ Idle.pc = "idle" /\ job[w].pc = "off"
    BY <1>2 DEF Restart, Goto, Idle
  <2>2. \A v \in Workers : job'[v] = IF v = w THEN Idle ELSE job[v]
    BY <2>1 DEF IInv, TypeOK
  <2>3. /\ session \subseteq Workers /\ w \notin session
    BY <2>1 DEF IInv, TypeOK
  <2>4. {v \in session' : job'[v].pc \in {"sync", "record"}}
          = {v \in session : job[v].pc \in {"sync", "record"}}
    BY <2>1, <2>2, <2>3
  <2>5. \A v \in session : job'[v] = job[v]
    BY <2>2, <2>3
  <2> QED  BY <2>4, <2>5 DEF running, RunOf
<1>3. CASE /\ ~Restart(w) /\ ~SyncSucceeds(w) /\ ~SyncFails(w)
  <2>1. ~Writing(w) /\ session' = session
    BY <1>3 DEF Run, Poll, LastSuccessfulSyncAt, LastScheduledAttemptAt, TryLock, Unlock,
                StatementFails, At, Writing
  <2>2. \E record \in Jobs : Goto(w, record) /\ record.pc \notin {"sync", "record"}
    <3>1. Idle \in Jobs /\ Idle.pc = "idle"
      BY IdleIsJob DEF Idle
    <3>2. CASE Poll(w)
      <4>1. CASE \E r \in Pending : Goto(w, [Idle EXCEPT !.pc = "lock", !.request = r])
        <5>1. PICK r \in Requests : Goto(w, [Idle EXCEPT !.pc = "lock", !.request = r])
          BY <4>1 DEF Pending
        <5> DEFINE record == [Idle EXCEPT !.pc = "lock", !.request = r]
        <5>2. record \in Jobs /\ record.pc = "lock"
          BY Bounds DEF Idle, Jobs
        <5>3. Goto(w, record)  BY <5>1
        <5> HIDE DEF record
        <5> QED  BY <5>2, <5>3
      <4>2. CASE Goto(w, [Idle EXCEPT !.pc = "success", !.now = week])
        <5> DEFINE record == [Idle EXCEPT !.pc = "success", !.now = week]
        <5>1. week \in Weeks
          BY DEF IInv, TypeOK
        <5>2. record \in Jobs /\ record.pc = "success"
          BY <5>1, Bounds DEF Idle, Jobs
        <5>3. Goto(w, record)  BY <4>2
        <5> HIDE DEF record
        <5> QED  BY <5>2, <5>3
      <4> QED  BY <3>2, <4>1, <4>2 DEF Poll
    <3>3. CASE LastSuccessfulSyncAt(w)
      <4> DEFINE record == [job[w] EXCEPT !.pc = "attempt", !.success = lastSuccess]
      <4>1. job[w] \in Jobs /\ lastSuccess \in 0..MaxWeeks
        BY DEF IInv, TypeOK, Weeks
      <4>2. record \in Jobs /\ record.pc = "attempt"
        BY <4>1 DEF Jobs
      <4>3. Goto(w, record)  BY <3>3 DEF LastSuccessfulSyncAt
      <4> HIDE DEF record
      <4> QED  BY <4>2, <4>3
    <3>4. CASE LastScheduledAttemptAt(w)
      <4> DEFINE record == [Idle EXCEPT !.pc = "lock"]
      <4>1. record \in Jobs /\ record.pc = "lock"
        BY Bounds DEF Idle, Jobs
      <4>2. Goto(w, record) \/ Goto(w, Idle)
        BY <3>4 DEF LastScheduledAttemptAt
      <4> HIDE DEF record
      <4> QED  BY <3>1, <4>1, <4>2
    <3>5. CASE TryLock(w) \/ Unlock(w) \/ StatementFails(w)
      BY <1>3, <3>1, <3>5 DEF TryLock, Unlock, StatementFails
    <3> QED  BY <1>3, <3>2, <3>3, <3>4, <3>5 DEF Run
  <2> QED  BY <2>1, <2>2, RunningAfter
<1> QED  BY <1>1, <1>2, <1>3

(* A step is one of SyncContract, or leaves its variables alone.           *)
LEMMA StepIsOneByOne ==
  ASSUME IInv, AskedInv, [Next]_vars
  PROVE  [OneByOne!Next]_(OneByOne!contractVars)
<1>1. ASSUME UNCHANGED <<contract, running>> PROVE UNCHANGED OneByOne!contractVars
  BY <1>1 DEF contract, running, RunOf, OneByOne!contractVars
<1>2. ASSUME UNCHANGED <<job, session>> PROVE running' = running
  BY <1>2 DEF running, RunOf
<1>3. CASE UNCHANGED vars \/ ServerNotices
  BY <1>1, <1>2, <1>3 DEF vars, ServerNotices, table, contract
<1>4. ASSUME NEW r \in Requests, QueueLeetCodeSync(r) PROVE OneByOne!Next
  <2>1. OneByOne!Ask(r)
    BY <1>2, <1>4 DEF QueueLeetCodeSync, OneByOne!Ask, running, RunOf
  <2> QED  BY <2>1 DEF OneByOne!Next
<1>5. CASE NextWeek
  <2>1. OneByOne!NextWeek
    BY <1>2, <1>5 DEF NextWeek, OneByOne!NextWeek, table, running, RunOf
  <2> QED  BY <2>1 DEF OneByOne!Next
<1>6. ASSUME NEW w \in Workers, Disconnect(w) \/ Crash(w)
      PROVE  [OneByOne!Next]_(OneByOne!contractVars)
  BY <1>1, <1>6, LossAbandons DEF OneByOne!Next
<1>7. ASSUME NEW w \in Workers, TryLock(w), lock \in {NoWorker, w} PROVE OneByOne!Next
  <2>1. PICK r : r = job[w].request
    OBVIOUS
  <2>2. r \in {0} \cup Requests
    BY <2>1 DEF IInv, TypeOK, Jobs
  <2>3. OneByOne!Begin(w, r)
    BY <1>7, <2>1, LockBegins
  <2> QED  BY <2>2, <2>3 DEF OneByOne!Next
<1>8. ASSUME NEW w \in Workers, RecordSyncRun(w) PROVE OneByOne!Next
  <2>1. PICK run, ok, end : run = RunOf(w) /\ ok = job[w].ok /\ end = job[w].finish
    OBVIOUS
  <2>2. run \in running /\ OneByOne!Record(run, ok, end)
    BY <1>8, <2>1, RowRecords
  <2>3. ok \in BOOLEAN /\ end \in run.since..week
    <3>1. /\ job[w] \in Jobs /\ job[w].start <= job[w].finish /\ job[w].finish <= week
      BY <1>8 DEF IInv, TypeOK, PastInv, AskedInv, RecordSyncRun, At
    <3>2. run.since = job[w].start
      BY <2>1 DEF RunOf
    <3> QED  BY <2>1, <3>1, <3>2 DEF IInv, TypeOK, Weeks, Jobs
  <2>4. \E some \in running, good \in BOOLEAN : \E last \in some.since..week :
          OneByOne!Record(some, good, last)
    BY <2>2, <2>3
  <2> QED  BY <2>4 DEF OneByOne!Next, running, RunOf
<1>9. ASSUME NEW w \in Workers, Run(w) PROVE [OneByOne!Next]_(OneByOne!contractVars)
  BY <1>1, <1>7, <1>8, <1>9, PollsStutter
<1> QED  BY <1>3, <1>4, <1>5, <1>6, <1>9 DEF Next

(* Polls, reads before the lock, attempts, sessions that end, workers that *)
(* die and come back: to whoever reads the table of runs it is as if there *)
(* were one run at a time, begun, and recorded once or abandoned.          *)
THEOREM RunsFollowEachOther == Spec => RunsAreOneByOne
<1>1. Init => OneByOne!Init
  BY DEF Init, OneByOne!Init, Idle
<1>2. IInv /\ AskedInv /\ [Next]_vars => [OneByOne!Next]_(OneByOne!contractVars)
  BY StepIsOneByOne
<1> QED  BY <1>1, <1>2, Inductive, AskedInductive, PTL DEF Spec, RunsAreOneByOne, OneByOne!Spec
=============================================================================
