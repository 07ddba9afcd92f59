# A verification of RSP-website

TLA+ models of the Ravis Study Program website, checked with TLC and, where a
theorem says so, proved with TLAPS. The reference is the source; every mapped
definition names its lines in `PROJECT.json`.

## The system

Two services, each with its own PostgreSQL database, and a web application.

| Component | State | Operations | Hard behaviour |
|---|---|---|---|
| Account lifecycle (`apps/auth`) | users, sessions, recovery tokens, `lifecycle_outbox` | sign-up, verification, change of address, second factor, revocation, suspension, deletion, recovery, erasure, the outbox sweep | Better Auth commits before the hook runs; the hook is several transactions; posts time out, repeat, overtake each other; crashes in between |
| Identity mirror (`dal/identity.go`) | `auth_subjects`, `users`, `user_security`, `identity_event_receipts` | apply one identity event | READ COMMITTED, a snapshot older than the lock, events older than the mirror |
| Access token check | none of its own | sign, accept | the mirror is late |
| Seasons, members, mentorships (`backend`) | `seasons`, close events, `enrollments`, `mentorships` | close, reopen, delete, enrol, change role, promote, remove, correct, assign, reassign, end | row locks taken late or not at all, triggers that read without a lock, API checks made before the transaction |
| Invitations | `season_invitations`, the mail outbox | create, resend, cancel, accept, mark sent | late answers of the mail service, a first look without a lock, addresses that change hands, a season deleted meanwhile |
| LeetCode worker | `leetcode_sync_runs`, an advisory lock, one session per process | weekly run, requested run, record | decisions before the lock, a crash inside a run, a session that ends before its process |
| Monday updates | updates, marks; the student's cached list | submit, delete, mark; load the list | two tabs at once, a season that closes, loads that began before |
| Mock interviews | interviews, rounds, versions; the page's overlay of them | create, edit, review rounds, notes, correct, delete | decided on an unlocked read; several requests for one save; reloads in between |
| Authorisation | none | guards of routes, workspaces, navigation; predicates of the API | written twice, in two languages |
| Lists of a season | the tables, the cached lists | pages behind a cursor; dialogs that patch the cache | the table changes between two pages; answers and loads cross |
| Web session | access token, cached account and session | ask for a token, sign in, step up, sign out, expire | one tab, two people; requests that outlive the page |
| Profiles and settings | the user's row, the cached account, drafts | edit the profile, save settings, store the first timezone | every save sends the whole profile |
| Participation | `enrollment_participation`, kept by a trigger | every change of an enrollment; the season an activity counts for, derived when it is read | changes dated by the handler and applied in another order |
| Signing keys (`authn/validator.go`) | keys in memory and when they were fetched | look up, refresh | a fetch that holds the lock, a key server that fails or changes its keys |
| Rate limiters | counters in memory | allow | the boundary of two windows |
| Problems, attempts, global roles, seeds | rows | single row writes, reads | little |

The services interact at two places: the authentication service posts identity
events to `/internal/identity-events` of the API, which compares the claims of a
token with what these events have left in its mirror; and the API hands the
messages of invitations to the authentication service's outbox. Inside the API
the components share the database only; transactions are the actors. The web
application calls the API with an access token it gets from the authentication
service, keeps what it has read in cached queries, and patches these by hand after
many of its writes; the actors there are requests under way and their answers.

## Modules

### IdentitySync

One account in both databases. `aState`, `aVer`, `session`, `recovery`,
`outbox`, `delivered` are the authentication service's rows; `mLink`, `mState`,
`mVer`, `mEmail`, `receipts` the API's. Every transaction that changes the
account and queues its event (`service.ts`) is one action. A request whose write
and whose event are *different* transactions goes through `hook`: Better Auth's
commit is one action (`SignUp`, `VerifyEmail`, `ChangeEmail`, `ToggleMfa`), each
query or transaction of the hook another (`HookRevoke`, `HookAwait`, `HookRead`,
`HookQueue`, `HookRecordMfa`), and a `Crash` may come between any two. One such
request runs at a time; the transactions of `service.ts` interleave with it
freely. A sign-in is two actions for the same reason.

A post takes a handler of the API. The handler inserts the receipt (waiting for a
transaction with the same id), reads link and version in one snapshot
(`SelectLink`), and after that holds its locks up to the commit, so the decision
and the write are one action: `NotFound`, `CreateIdentityUser`, `SkipStale` or
`Apply`. The snapshot may be older than the locks because the statement waits
after taking it and locks only two of the three tables it reads. `Lose` drops a
post, an answer or a transaction at any point; a committed one stays committed.

Not modelled: e-mail entries of the outbox, `next_attempt_at` (an entry may be
posted at any moment), the expiry of tokens (a token never expires, which is
harder for `RevocationHolds`), provider links, slugs.

`RevocationContract` is what the two services promise together about the security
version, in three variables and three actions: versions are issued, the mirror
moves forward to an issued one, and a version is promised only when the mirror
has reached it. `IdentitySync` instantiates it (`Contract`) with `aVer`, `mVer`
and the versions of the acknowledged events (`Promised`); `KeepsContract` is the
refinement, checked and proved. Most steps of `IdentitySync` are stutters of it.

### SeasonRoster

The members of one season. A task is one transaction of the API: `Begin` is its
reads, locks and uncommitted writes, `Commit` makes them visible; the record says
which rows it has written (`rows`, `new`), which of them it also locked FOR
UPDATE (`keys`), which mentorships it ends and adds. Waiting for a lock is a
guard: of `Begin` where the code re-reads the row after the wait, of `Commit`
(`Waits`) where it has read before. Checks the API makes before the transaction
without a lock can be out of date by any amount and are left out; so the guards
are those the transactions evaluate. The MFA event of the mirror
(`ApplyMfa`, `CommitMfa`) is a transaction of the same kind.

`RosterContract` is what the calls promise without locks, transactions or clocks:
each takes effect at one moment on the members as they are then. A closing completes
all active members at once and a reopening gives exactly those back; who was removed
does not return. `SeasonRoster` instantiates it (`Atomic`) with what is visible of the
members (`Seat`); `CallsAreAtomic` is the refinement, where a call is the step of its
`Commit`. Mentorships and the coordinators' access are not in it, because the code reads
what they depend on without a lock.

### Invitations

Every transaction on an invitation takes the season's row FOR UPDATE first
(`lockOpenSeason`) and reads what it decides on afterwards: it is one action.
A request spans several of them: `CreateInvitation` or `ResendInvitation`, then
the hand-over `SendInvitation` (queued, answer lost, or neither: `Fail`), then
`MarkInvitationSent`; an acceptance is `InvitationForUser`, which looks without a
lock, and `AcceptInvitation`. A link stands for the token and the delivery id,
which are drawn together. A queued message may be read at any later time, so
delivery is no action. Around it, members are enrolled by hand, identity events
change addresses and account states, and the season is closed, reopened, deleted.
A removal keeps the row of the enrollment, and with it the uniqueness that an
acceptance runs into, so it is only in `SeasonRoster`; `CorrectEnrollment` moves the row to
another user or season, after which the first may be invited and accept again. `taken`
and `moved` are history: what was accepted, and what a correction has taken away since.
Roles, audit rows, who may invite, and the weeks of the season are left out.

### LeetCodeSync

`Poll` to `Unlock` are the statements of one poll of a worker, in the order of
`main.go` and `scheduler.go`; the two reads, the lock, each attempt and the record
are steps of their own, because another worker may act in between. Time is the
number of the week. `Disconnect` ends a session while its process goes on, which
from then on fails every statement (`StatementFails`); `Crash` ends the process,
and `Restart` is what `compose.prod.yaml` does. `begunOf` and `begunIn` count what each
worker has begun (`Begin`) since its process started, up to two (`OneMore`), `runsOf` and `runsIn` what all have
recorded; a process that dies in a run leaves no row, so the two are not the same. The advisory lock of a session that
is gone stays taken (`Gone`) until the server notices. The catalogue is left out.

`SyncContract` is the table of runs as if there were no workers to coordinate: one run
at a time, of a request that was made or of the schedule, which is recorded once or not
at all. `LeetCodeSync` instantiates it (`OneByOne`) with the runs of the workers whose
session lives and that may still write; `RunsAreOneByOne` is the refinement. A run begins
with `TryLock`, ends with the row it writes (`Write`), or is abandoned where a statement
fails, the process dies or the session ends.

### MockInterviews

One interview in the API. A request is two actions: the handler reads the interview
without a lock, authorises and computes (`BeginUpdate`, `BeginReview`, ...), and
`Update`, `Review`, `SetNotes`, `Correct`, `Delete` are `writeMockInterview` with
the statements it runs under the row's lock: each writes the columns and rounds that
belong to its kind of request. `Reconciled` is `reconcileMockRounds` as it leaves the
rounds, `Clash` whether its renumbering meets the unique index on the way (`Shift`,
`PositionsAfter`). `last` is the snapshot of the newest version.

### MockPage

The page of that interview. `server` is the interview as the API has it, one value;
`listed` what the list query loaded; `overlay` what the page shows in its place since
it was changed here. A save of reviews sends one request per round (`RoundSaved`),
ends or fails, and reports what was saved (`Reported`); an edit is one request.
`Remounts` is the difference between the table, whose cells are components defined
while the page renders, and the cards: in the table every render takes the state of
the cells with it. A load that fails (`ReloadFails`) puts an error in place of table or
cards, and the state of either ends (`Unmounted`), open dialogs included.

### MondayUpdates

The updates of one student. A post is the statements of `CreateMondayUpdate`, each an
action: the lock of the season, the lock of the enrollment, the look for the week, the
insert with the commit. The page has a load, a form and the dialog of a deletion; a
second tab posts and deletes too. The form is a new one for each week that is chosen, so
the page may post again before it has its answer. Loads fail, and answers of posts and
deletions that were done are lost (`PostAnswerLost`, `DeleteAnswerLost`). What the page had
confirmed is history.

### SeasonLists

One of three lists (`kind`): weeks, enrollments, mentorships, which differ in what is
unique, in what an end leaves behind, and in what a dialog does to the cached list:
`Taken`, `EndState`, `Patched`, `Invalidates`. `FetchPage` is one page of
`fetchAllPages`. Dialogs are sent, served and answered in three steps. `confirmed` is
history: of each row the newest change that an answer has told the page of.

### WebSession

One tab. A token is asked for (`AskForToken`), minted for whatever session the cookie
has then (`TokenServed`) and kept (`TokenArrives`); `shared` is the request that all
calls wait for. The account query needs a token and then the API. Leaving clears the
token, or the queries, or both, in the order of each handler: a sign-out clears both
whatever is answered, a change of security or a deletion only when it succeeds
(`ChangeFails`), `UseAnotherAccount` only the token, `InvitationLink` nothing. Every session
is of a verified account (`requireEmailVerification`, `auth.ts:302`), so `VerifyEmailPage`
has no session and no account of its own to leave behind. `late` and `lateAsks` are
history: which of token, fetch and account come of a request that outlived its page, or
of the page that left its account in the cache.

### Access

The guards, workspaces, navigation and palette of the application as operators over a
person (global roles, membership per season, second factor) and an address, and next
to them the API's policies for what a page reads (`Permitted`). A redirect is a step,
so that circles show.

### AccountEdits

Name and timezone, the two fields whose writers overlap: the automatic timezone, the
profile dialog and the settings. A patch carries the values the form or the cache had
when it was sent.

### Participation

The rows of enrollments over several seasons (`enrollment`), the periods the trigger of
`00004_activity_seasons.sql` keeps of them (`periods`), and the dates of the seasons.
A request is one action, because the locks are in `SeasonRoster`; what matters here is
its date. `at` is the moment the handler read the clock, `begun` the beginning of its
transaction, and either may be earlier than dates already applied. `Tracked` is the
trigger for one row, `Restated` for the rows of a closing or a reopening. `Correct`
moves an enrollment with its periods. `activity_scope` is the SQL function of that
name, without the week; `activitySeasons` what the page offers (`activityPeriod.ts`).

### SigningKeys

`keys` and `loadedAt` are the fields of `Validator`; `call` is what each validation is
doing: waiting to refresh, fetching with the lock held, holding an answer, looking a
key up. A fetch that the clock cannot overtake by more than `Timeout` is the client's
timeout. `waited` says that a look-up waited for a fetch, and so comes before the next
one (`Released`, `Overtaken`): Go's `RWMutex` lets the readers that waited go first.
`published` is the key server; `absent` and `withdrawn` are history.

### RateLimits

The counter of one caller, of either limiter (`limiter`): the API's `Allow` counts what
it allows, `consume` of the authentication service what it is asked. `grants` is
history: what was allowed, and when.

### MC modules and proofs

`MCIdentitySync` and `MCSeasonRoster` add symmetry sets;
`MCLeetCodeSync` none. `MCWeb` puts the seven modules from `MockInterviews` on into
one instance. They share no state, so `part` says which of them moves and the others
keep still: the states of the run are the sum of those of the seven, not their
product, and each property speaks of one module. `Backend` does the same with
`Invitations`, `Participation`, `SigningKeys` and `RateLimits`; `MCBackend` adds one
symmetry, for which the sets of the parts have their values in common.

The theorems are in eight modules. `IdentitySyncProofs`, `SeasonRosterProofs`,
`InvitationsProofs`, `LeetCodeSyncProofs` and `ParticipationProofs` are about the modules
they are named for; `KeysAndRatesProofs` is about `SigningKeys` and `RateLimits`,
`ListsProofs` about `MondayUpdates` and `SeasonLists`, `WebProofs` about
`MockInterviews`, `MockPage`, `WebSession`, `Access` and `AccountEdits`.
`ParticipationProofs` and `WebProofs` also hold the theorems about `Backend` and `MCWeb`.
Every module has a theorem, and so has every invariant, action property and refinement
that a passing run checks.

## Runs

| Run | Shows | Bounds |
|---|---|---|
| `IdentitySync` | `RevocationHolds`, `NoUnavailableAccess`, `AppliedAtMostOnce`, `OnlyStaleReadersUndoErasure`, `KeepsContract` | 2 handlers, 1 address, 3 events; second factor, suspension, deletion, sign-in |
| `IdentitySequential` | `NewestIsMirrored` with one handler | 2 addresses, 4 events; verification, change of address, revocation, suspension, deletion |
| `IdentityLiveness` | `VersionCatchesUp` under fairness | 1 handler, 2 addresses, 3 events, 1 crash |
| `IdentityStaleApply` | violated: an older event applied by the second of two transactions | 2 handlers, 3 events |
| `SeasonRoster` | `SeasonAgreesWithMembers`, `CallsAreAtomic` | 2 transactions, 3 members, 2 closings; no mentorships, no MFA events |
| `RosterSequential` | `LiveMentorshipsAreValid`, `CoordinatorsHaveMfa` with one transaction | 3 members, 2 closings, all requests |
| `RosterMentorships` | violated with two transactions | 2 members |
| `RosterMfa` | violated with two transactions | 1 member |
| `Backend`: invitations | `AcceptedOnce`, `SentIsCurrent`, `DeletedIsEmpty`, `AddresseeAccepts` | 2 requests, 2 invitations to one address, 2 users, 2 links |
| `Backend`: participation | `OpenPeriodIsCurrent`, `PastIsSettled`, `CountedIsOffered` | 2 people, 2 enrollments, 2 seasons, 3 moments, 3 changes |
| `Backend`: keys | `WithdrawnKeysStop`, `PublishedKeysWork` | 2 keys, 2 validations, 2 rotations, 5 moments; TTL 2, timeout 1 |
| `Backend`: limiters | `QuotaIsKept` | window 3, quota 2, 8 moments, 8 requests |
| `LeetCodeSync` | `RunsAreOneByOne`, `RunsOnce`, `QueuedSyncsRun`, `WeekIsAttempted` | 2 workers, 2 attempts, 2 requests, 2 weeks, 1 fault |
| `Web`: interview | `NewestVersionIsStored`, `RoundsFit`, `PartsChangeAlone` | 2 people, 3 rounds, 2 requests, 3 versions |
| `Web`: updates | `OneUpdatePerWeek`, `PostedByActiveStudent`, `ConfirmedIsListed` | 1 week, 1 mentor, 2 posts at a time, 2 updates; 1 load, and 1 mark or load more |
| `Web`: page | `ConfirmedIsShown`, `CardDraftsAreKept` | 2 rounds, 1 comment, 2 contents; 2 saves, or a save and a load; 1 review elsewhere |
| `Web`: lists | `ConfirmedIsInList` | 2 rows, 2 keys, pages of one row, 2 changes, 2 requests, 2 loads |
| `Web`: session | `OnlyTheOwnerIsShown` | 2 accounts, 2 sign-ins, 3 requests for a token |
| `Web`: access | `ShownPagesCanBeRead`, `RedirectsSettle` | 2 seasons, every person, every address |
| `Web`: account | `SavedIsShown` | 1 name, 2 timezones, 2 saves and changes from elsewhere together |
| `LeetCodeDisconnect` | violated: the only worker polls with a dead session | 1 worker, 1 request, 1 lost session |

Three events are enough for a race at the mirror: one creates it, and the other two
are the newer and the older; with two handlers they are also the request for the deletion
and the erasure, so an older event is posted, waits and is half handled beside the
erasure. Four reach past the erasure: create, request, erase, and one more. The races are of two transactions, so two handlers
and two tasks; three members give two mentors to one student. Two closings let a
reopening meet members completed by another. Two users share an address one after
the other, and two links are two invitations, or one that is sent again. One of two workers
fails in every possible place, and either may finish what the other began.
`IdentitySync` and `SeasonRoster` are not checked for deadlock: after `MaxEvents`
events nothing may be queued any more and everything is delivered, and `MaxCloses`
stops the roster. The models of `Backend` stop at their bounds, the invitations when every
link is drawn and the season is deleted, and the disconnected worker of
`LeetCodeDisconnect` does nothing any more.

Three changes of an enrollment are the least in which two dated ones are applied in the
wrong order, and two seasons the least in which a moment has a choice; four changes
were checked once, with the same result. Five moments are two more than the time a key
is kept, so that the bound of `WithdrawnKeysStop` is met exactly; with one timeout less
it is violated. Eight moments are two windows and more.

In `Web` two overlapping requests are every race of a read and a write, and three
rounds let a submission drop one, add one and swap; an interview with three versions
has been created and written twice. One week is enough for two posts to meet. A page
of one row makes every list longer than a page. Two seasons tell the one a page is
about from another in which the person has the role. Two people sign in one after the
other, and three requests for a token are one for each and one that is late. The
models of `Web` stop when their requests are used up, so deadlock is not checked.

The bounds are small where a theorem says the same of every value of the constants;
there a run shows that the case occurs, and its faulty variants that the property would
notice. `IdentitySync` and `IdentitySequential` divide the requests of an account between
them: the races of the first need a state that is not active and a sign-in, the
second asks after the address and the way through an erasure.

Symmetry is used in safety runs only, over handlers, addresses, members, users
and tasks, none of which is named by an action or a property.

### Fairness

The sweep runs every five seconds for as long as the process lives
(`server.ts`), takes the due entries oldest first and posts each; an entry that
fails becomes due again, without a limit on attempts. So an entry that is again
and again undelivered is again and again posted (strong fairness of `Post` per
event). A post may be lost any number of times, but not always at the same stage
(strong fairness of each stage of the handler per event); that is an assumption
about the network and the database, not about the code. Requests of users, losses
and crashes have no fairness.

A worker of `LeetCodeSync` takes its next step (weak fairness of `Run`): the ticker
polls every minute, an attempt has two minutes, a process that exits is started
again. The server ends the session of a client that is gone (`ServerNotices`).
Requests, the passing of weeks and faults have none, and attempts may always fail.

The modules of `Web` have no fairness: a browser tab may be closed at any moment, and
nothing they say is about what must happen.

## Proofs

Every theorem holds for any values of the constants that the assumptions below allow:
any number of handlers, tasks, members, rounds, rows, requests and crashes. Each module
proves that an invariant holds at the start and that every action keeps it, one lemma
per action or per group of actions that change the same part, and reads the properties
off the invariant.

### The mirror (`IdentitySyncProofs`)

* `Inductive`: `Spec => []IInv`;
* `TypeCorrect`, `RevocationIsKept`, `AccessIsAvailable`, `AppliedOnce`;
* `ContractIsKept`: the refinement of `RevocationContract`, step by step from the
  same invariant. A delivered event has a receipt, so its version has been
  mirrored: that is where `Acknowledge` becomes `Promise`;
* `ErasureOutlastsEvents`, with any number of handlers;
* `SerialInductive`, and from it, with one handler, `NewestIsReflected`.

The properties are not inductive. `RevocationHolds` needs to know that a delivered
event of version `v` has pushed the mirror to `v` or beyond, which needs that it
has a receipt, which needs that a receipt is only kept with the mirror at least at
the event's version (`ReceiptInv`), even for a transaction that read a stale
version: what it skips is older than what it read, and what it read is not newer
than the mirror (`MirrorInv`). Tokens carry versions that were issued (`TokenInv`,
`AccountInv`), events too (`EventInv`), and only the creation event makes the
mirror (`CreatedInv`).

`OnlyStaleReadersUndoErasure` is about the one thing that can go wrong around an erasure,
and says that nothing else does: events overtake each other, are posted twice, wait or are
half handled, and still the mirrored state changes after the erasure only by a transaction
whose snapshot is older than the mirror. `GoneInv` says that all other events about the
account's life that may still be posted are older than the mirror, so a transaction that
reads the mirror after the erasure skips them.

What the mirror shows, beside its version, holds only while one event is handled at a
time. The theorems say so as a hypothesis (`\A g, h \in Handlers : g = h`), and
`IdentityStaleApply` shows that they need it. `SerialInv` adds `VersionInv`, that the
events that raise the version have one each, so that the newest one decides
(`Announced`), and none about the account's life is newer than its erasure; that once the
mirror is erased all others of them are older than it (`ErasedInv`); that the snapshot of
the only transaction is the mirror it changes; and that an event with a receipt and the
newest version is reflected.

### The roster (`SeasonRosterProofs`)

`RosterInv` is about transactions that have begun: what a row will be when they commit
is sound for the season as it is now (`Sound`), because a transaction that depends on
the season holds its row, and no two hold the same row (`LocksAreExclusive`). From it
`SeasonsAgreeWithMembers` and `RemovedStaysRemoved` follow for any number of overlapping
calls.

`CallsTakeEffectAtOnce` is the refinement of `RosterContract`, for any number of them.
`AtomicInv` adds to `RosterInv` that what a transaction is going to write is what its call
does to the members as they are, although it decided before others committed
(`UpToDate`): a later writer of its rows waits, and so does one that needs the season it
holds. So a closing that commits has all active members, and an enrolment meets no seat
of the same user. Steps that write nothing visible are stutters.

`AloneInv` adds that the transaction under way would leave valid mentorships and
the coordinators' access right (`LeavesValid`); `MentorshipsStayValid` and
`CoordinatorsKeepMfa` have the hypothesis that all `Tasks` are the same, and
`RosterMentorships` and `RosterMfa` show that two transactions break them.

### Invitations (`InvitationsProofs`)

All properties of `Invitations` (`TypeCorrect`, `AcceptanceIsOnce`, `ReceiptIsCurrent`,
`DeletedStaysEmpty`, `OnlyTheAddressee`). What they need besides themselves is
`TaskInv`, that a receipt about to be written is of a message that has been handed
over, and `TakenInv`, that whoever accepted and was not corrected away is enrolled, so that
the uniqueness of an enrolment makes the acceptance of a user unique until then.

### The worker (`LeetCodeSyncProofs`)

`OneWriterAtATime` from `LockInv`: a worker past `TryLock` whose session lives has the
lock. `PastInv` keeps the weeks in the table out of the future. `RunsFollowEachOther` is
the refinement of `SyncContract`: with one writer the set of runs under way has at most
one member, so `TryLock` finds it empty and a row is written by the run that is in it,
and the request of a run has been made before (`AskedInductive`).

`EachRunsOnce` is of two parts. All workers together: the runs of a request that are
recorded and the workers that may yet record one (`ToRun`) are no more than the workers
there are (`CountInv`), because a worker leaves the set with the run it records and nobody
enters it once the request has an answer; and the same for each week (`InWeek`). One
worker in the life of its process (`BegunInv`): what it has begun it is still at, or it is
recorded, or the session is gone; so the worker finds it done, or no statement of it
succeeds before it is started anew.

### Lists (`ListsProofs`)

`OnceAWeek`, `OnlyActiveStudentsPost` and `ListKeepsUp` of the Monday updates from
`MondayInv`. `LocksProtect` is why there is one update a week: one post at a time is
past the lock of the season, so the week it has looked for and not found stays free
until it commits, and neither a closing nor a removal comes in between.
`LoadsAreCurrent` is why the list keeps up: an answer that has been read says
everything that was confirmed before, because a confirmation replaces a load that may
have read too early; `IdsAreUnique` and `DeletedAreDead` say that a confirmed id is
that of one update and a deleted one stays deleted.

`ConfirmedRowsAreListed` of the lists of a season, for any finite set of rows, from
`ListInv`. A load that nothing has disturbed has exactly the rows of the table up to the
one its next page begins after, or all of them (`LoadsAreTrue`); an answer that waits is
of a change that was stored, and no change is newer than its row
(`ServedIsStored`, `RowsAreNumbered`); when no other request about the row was under
way, it is at least as new as what the page has had confirmed (`AnswersAreNews`); so the
cache stays true (`CacheIsTrue`). That a page has a last row uses that a nonempty set of
numbers has a least one (`LeastExists`). `ListTypeCorrect` adds that nothing the page, a
load or an answer has of a row is newer than the last change (`TimesInv`).

### Participation (`ParticipationProofs`)

`OnePeriodIsOpen` and `PastStays` from `ParticipationInv`. A change either leaves the
periods alone or ends the open one, at its date or where it began if that is later, and
starts another at the date (`TrackedChange`); so at a moment before the date every
period holds that held. `PeriodsHaveRows` keeps periods away from enrollments that do
not exist yet, which a new one would otherwise inherit. `CountedSeasonsAreOffered`
compares the two readers of the periods, the SQL function and the page: of the seasons
a moment may count for one precedes the others (`OnePrecedes`), because moments and
seasons are bounded numbers, and the page finds the period it has.

`PartsOfBackend`: a behaviour of `Backend` is one of each of its four parts, because a
step of one leaves the variables of the others alone. So the theorems about the parts hold
of the specification that the run checks, and `BackendTypeCorrect` follows from theirs
about types.

### Signing keys and limiters (`KeysAndRatesProofs`)

`WithdrawnKeysAreRefused` and `PublishedKeysAreKnown` from `KeysInv`: a key in the cache
was published when its fetch began (`AnswersAreRecent`, `CacheIsRecent`), a fetch ends
in time and is alone (`FetchesEnd`, `OneFetches`), and a look-up finds a cache that is
fresh, or has waited for one fetch that began while it was (`LookUpsAreRecent`).
`AbsencesAreSeen` is what a call knows of a key that is published all along: after its
own forced refresh the key is in the cache, and in every answer under way.

`QuotasAreKept` from `RatesInv`: what was allowed since the window began is what the
counter says, up to the quota, and less than a quota of what was allowed before is
still within the time of a window, since the request that began the last window is not
(`WindowInv`).

### The web application (`WebProofs`)

* `NewestVersionStays`, `PositionsFit`, `PartsAreOwned` of `MockInterviews`. The rounds of an
  interview are numbered from 1 without a gap (`Numbered`, in `MockInv`); what is left of
  them after a submission is too, whatever rounds the submission was computed from. The
  two other theorems need no invariant: they hold of every step.
* `ConfirmedReviewsAreShown`, `DraftsOfCardsAreKept` of `MockPage`. While saves do not
  overlap, what has been confirmed of a round is in the version the save under way has
  made and will show, or in the page's own (`ConfirmedIsKept`, in `PageInv`). The drafts need only the
  shapes of what the page holds for either viewer (`CardsInv`).
* `TheOwnerIsShown` of `WebSession`: token, fetch and cached account are each the owner's
  of the cookie or marked in `late`, an answered request for a token too or in
  `lateAsks`; one that is not answered has nobody's, and the sign-in page shows no account
  but a marked one. A mark goes with the thing it marks: when the token is cleared or
  replaced, the fetch ends, or the account is fetched again.
* `ShownIsReadable`, `RedirectsEnd` of `Access`, for every person and place and any
  number of seasons. A place a guard sends to is one where no guard sends on
  (`PagesSentToAreAtRest`, `SeasonsPassedAreAtRest`), so one redirect is enough
  (`OneRedirectSettles`, `AccessInv`).
* `SavedSettingsAreShown` of `AccountEdits`, from `EditsInv`: at most one save of the
  settings is under way, what it stored is the account unless another change was made
  since, and the fetch that follows it reads that.
* `MockTypeCorrect` and `PageTypeCorrect`: what a request has read keeps its type however
  old it is by now, and there are as many versions as requests that wrote
  (`MockCounts`, `MockKept`); the saves of a page have numbers of their own, whatever
  renders do to them meanwhile (`SavesNumbered`). The other parts have a type theorem too.
* `PartsOfWeb`, `WebTypeCorrect` of `MCWeb`, as of `Backend`.

### Assumptions

`BoundsAssumption`, `EmailsAssumption`, `RequestsAssumption` of `IdentitySync`;
`UsersAssumption`, `ClosesAssumption`, `RosterRequestsAssumption`; `LinksAssumption`,
`AddressAssumption` of `Invitations`; `BoundsAssumption`, `WorkersAssumption`,
`HolderAssumption` of `LeetCodeSync`; `MondayBoundsAssumption`; `ListBoundsAssumption`;
`ParticipationBounds`; `KeysAssumption`, `RatesAssumption`; `MockUsersAssumption`,
`MockTextsAssumption`, `MockBoundsAssumption`, `MockRoundsAssumption`;
`PageBoundsAssumption`, `PageTextsAssumption`, `NothingAssumption`; `SessionAssumption`;
`SeasonsAssumption`; `EditsAssumption`. They say that bounds are natural numbers, that
the names for "nobody" and "nothing" are not those of somebody or something, that
there are finitely many seasons, rounds, rows and workers, that ids of rows begin after
the value that stands for "no row yet", and that there is at least one key, address and
text. TLC evaluates each of them.

What the proofs asked for that the runs had not: `Workers` must be finite for its
members to be counted, the rows of a list may not have the id 0 by which a load says
that it is at the beginning, `Nothing` must be none of the values it stands beside,
what a limiter has allowed is a set of numbered grants, and `Access` is also
meant for a site without a season.

### Only model-checked

Liveness (`VersionCatchesUp`, `QueuedSyncsRun`, `WeekIsAttempted`) and anything about
`ENABLED` is out of the prover's reach; every other property of a passing run has a
theorem. Induction over data needs an operator as a parameter and cannot be used; where
an argument needs it, a least element (`WFMin`, `NatLessThanWellFounded`) or a
cardinality takes its place.

## What the code does otherwise than it says

Four runs end in a violation, each quoted in `PROJECT.json` under `findings`: an
event applied although stale, a live mentorship of a removed member, a coordinator's
access that disagrees with the second factor, and a worker that polls for ever with a
session that has ended. The first three need two overlapping transactions, the last a
database restart.

The modules also state properties that do not hold and that no run checks; naming one
in the cfg, with the bounds given, shows the behaviour.

* `IdentitySync!MirroredBeforeSuccess` (in `IdentityStaleApply.cfg`, with one handler
  and the requests `verify`, `revoke` and `delete`): "The security-sensitive request only
  succeeds after the API has mirrored the new account/security state". A deletion
  request overtaken by a newer change of the same user is acknowledged as stale.
* `MockPage!TogglesKeepComments` (`Web.cfg` with `Comments = {w, c}`): "keeping each round's
  comment". A checkbox saves the comment the row was rendered with, so it takes back one that was
  saved meanwhile elsewhere.
* `SeasonLists!RemovedWeekIsGone` (`Web.cfg`): "The week is permanently removed"
  (`AdminPage.tsx:1334`), but `UNIQUE (season_id, week_number)` also counts deleted
  rows: its number can never be used again.
* `SeasonLists!ListIsComplete` (`Web.cfg` with `MaxChanges = 3`): `fetchAllPages` reads
  page by page; when the row at the boundary is removed, or a week is renumbered
  behind it, rows that were there all the time are missing.
* `MockPage!ProgressShowsAtOnce` (`Web.cfg`): "reports the interview after each saved round
  so progress shows at once" (`MockInterviewsPage.tsx:1178-1179`). The report is in the
  `finally` (`:1217-1220`), after the last round; while a save of several rounds runs, those
  that are saved are not shown.
* `WebSession!NothingOfTheOneBefore` (`Web.cfg`): `clearAccessToken` (`client.ts:95-98`)
  forgets the request under way but does not call it off, and whoever signs in next may
  have the token or the account of the one before, by two ways. A token that
  was answered before the sign-in and arrives after it is kept, and a fetch of the
  account that was under way is shown; and the link of `InvitationAcceptPage.tsx:109-114` to
  the sign-in is plain and clears nothing, so the account in the cache is shown to the
  next person while it is fresh. `OnlyTheOwnerIsShown` has exactly these exceptions.
* `Access!NavigationIsShown` (`Web.cfg`): "Navigation and views follow the member's role and
  season context" (`PRODUCT.md:75`). A coordinator of a completed season is offered
  pages that end on `/forbidden`, which for a former member without a directory is an
  empty window.
* `Access!ShownPagesCanBeRead` leaves one case out, because there it does not hold: the
  page has a place for the history of a student who is not active, the role matrix lets a student
  read "Own" Monday updates (`role-matrix.md:17`) and a test shows it (`MondayUpdatesPage.test.tsx:794`), but
  the API answers 403 (`Permitted`).

Smaller things met on the way, for which we have found no written promise:

* Mock interviews: in the table, a render ends dialogs' drafts and the disabled state
  of a checkbox, so two saves of one interview can run at once, and the later report
  hides what the earlier saved; a save that ends closes the dialog even if it has been
  opened again; a background load that fails puts an error in place of the rows and takes
  the draft of an open dialog with it, cards or table.
  The version a deletion leaves is the interview as the request had read it.
* Monday updates: a post that is stored and whose answer is lost is reported as failed;
  posting again then ends in a conflict, and the list shows the update only when it is
  loaded again.
* Lists: a late answer to an edit puts a row back that has been deleted since; a create
  after a failed load leaves a list of that one row; a change of role ends mentorships
  but does not refresh their list; an edit sends every field and no version.
* Session: after an expired session the first sign-in is sent back to `/sign-in` by the
  cached error; the second factor shows up to a minute late; the `finally` of a token asked
  for before `clearAccessToken` drops a newer request; "use another account" on the
  verification page leaves the cached queries, the error of the last fetch among them.
* Account: "Discard your profile changes?" closes the dialog and keeps the changes; the
  form keeps the timezone it was mounted with and undoes the automatic one when saved;
  a 409 is explained as "changed elsewhere", which the API does not detect; goals typed
  while a save is under way are dropped.
* Invitations: a correction that moves an enrollment away leaves its invitation accepted,
  and its user may be invited to the season, and accept, again.
* Participation: when a change is applied after one with a later date, the ended period
  and the new one overlap, and between the two dates somebody is both student and mentor;
  the derived season is then still one season. A correction moves the past with the
  enrollment, as its comment says.
* Limiters: the API never forgets a caller (`limiter.go` has no pruning), and either
  service forgets all of them when it starts again. Nearly two quotas fit around the
  boundary of two windows.

## Not modelled

Recording an interview on the page, with rows created and removed there, and the
dialogs of identity correction and the interviewee's overall notes, which are of the
shape of what is modelled; the mentor's and the reviewer's page of Monday updates; the
invitation page and the set-up of two factors as further places that clear the token
(`InvitationAcceptPage.tsx:62`, `SettingsPage.tsx:600`); the pages of practice,
people, graduates and charts, which only read; demo mode; texts, dates and formats.
Global roles are in the plan; the week of an activity, the keys a request is counted
under, and signatures are left out of the modules above. The scripts under `.agents`
(nearly a third of the repository's JavaScript and TypeScript) are tools of the
developers and no part of the system; most of the rest of the web application is
markup, tables and charts without state of its own. Seeds, canary and migrations run
once on a quiet database; deployment and metrics keep no state the other parts depend on.

## Plan

1. Done: all modules above and their runs.
2. Done: a theorem for every invariant, action property and refinement of the passing
   runs, and for the compositions `Backend` and `MCWeb`.
3. Done: abstract specifications of the roster and of the table of runs, with their
   refinements proved.
4. `Participation` with the weeks of a season.
5. Global roles and their trigger, of the shape of the coordinators' rule. Nobody may
   revoke their own `system_admin` (`admin_users.go:268`), so one request after the
   other leaves an administrator; two administrators who revoke one another at the
   same time were both authenticated before, and `bootstrap.go:33` counts revoked rows.
