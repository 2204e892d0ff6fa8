# Verification of the email service

TLA+ models of the Go program in `src/`, model-checked with TLC, and theorems
about each of them checked with TLAPS: every safety property that holds is
checked on a small instance and proved for all. References such as
`queue.go:95` are to files under `src/`; `PROJECT.json` maps every definition
to the lines it stands for.

## 1. The system

Three processes share one MySQL database and one Redis server, and use AWS SES
to send and AWS SNS to learn what became of a message.

```
 API (cmd/api)  --\                                /--> SES --> SNS --\
                   >-- Redis list --> worker pool <                    |
 SMTP (cmd/smtp) --/      ^ retry /\      |        \--> email_logs     |
   |                      +--------/ dead |                 ^          |
   +--> limiter, auth cache (Redis)   letters               |          v
   +--> email_logs, blacklist (MySQL) <---------- webhook, tracking (cmd/api)
```

| Component | Source | State | Operations | What makes it correct |
|---|---|---|---|---|
| worker pool | `cmd/worker/main.go` | goroutines, the job each holds | pop, filter, send, record, retry | one worker per payload; bounded sends; no job forgotten; refusals are final |
| job queue | `internal/queue` | two Redis lists | Push, Pop, Retry | a payload is in one place; dead letters are exhausted; a push sent twice adds one payload |
| SES client | `internal/delivery` | none here; configuration sets in SES | Send, EnsureConfigurationSet, classifyError | one Send sends once; Ensure leaves both objects |
| email log | `internal/repository/email_log_repo.go` | rows | Create, UpdateStatus, SetAWSMessageID | first engagement is kept; a bounce stays one |
| webhook | `internal/webhook/handler.go` | the SNS subscription | one handler per SES event, confirmation | an event answered 200 is applied; what is lost has a named cause |
| signature check | `internal/webhook/middleware.go` | the certificate cache of a process | check, download | a certificate once cached serves every later request |
| tracking | `internal/tracking` | goroutines | HandleOpen, HandleClick | a visit is recorded (none is, see section 4) |
| rate limiter | `internal/ratelimit` | a sorted set and a counter per client | CheckAll, GetCurrentUsage | neither limit exceeded; both counters or none |
| authentication | `internal/auth`, `internal/middleware` | cache entries, `clients.is_active` | two validations, eviction | bounded staleness; refusal and acceptance have a cause |
| SMTP server | `cmd/smtp/main.go` | connection counter, sessions | NewSession ... Logout | exact limit; envelopes apart; accepted means queued |
| send endpoint | `cmd/api/main.go:109-181` | none of its own | POST /v1/email/send | accepted means queued; a job has its row |
| statistics, blacklist | `internal/repository` | counters, entries | IncrementStat, Add, IsBlacklisted | counts exact up to faults; per tenant |
| start-up | `cmd/*/main.go`, `repository/db.go`, `pkg/database` | `schema_migrations`, its lock | NewDB, RunMigrations | the recorded version is true; nobody serves on an old schema; all serve in the end |
| configuration, admin endpoints, text of messages | several | -- | -- | not modelled, see section 7 |

What is hard: the processes run concurrently and share only Redis and MySQL,
without transactions across the two; every call may fail, with or without
effect; a job is popped before it is processed and pushed back after it failed;
SNS repeats and reorders events, and an event may overtake the row it belongs
to; caches are filled and evicted by different processes; clocks differ; and
processes are killed. The full list, line by line, is `hazards` in
`PROJECT.json`.

## 2. The plan

Order of work, most important behaviour first:

1. done -- `JobQueue`, `SesErrors`, `EmailLog`, `Worker`, `DeliveryContract`:
   the delivery pool and the contract it implements;
2. done -- `Lifecycle`: a row from the accepted send on, against events and visits;
3. done -- `RateLimiter`, `AuthCache`, `Intake`, `ConfigSet`;
4. done -- `WorkerProofs`: types, dead letters, one copy, bounded copies;
5. done -- pushes that go-redis repeats, in `Worker` and its proofs;
6. done -- `EventPath`: `ConfigSet` composed with the subscription, the
   signature check and its certificate cache;
7. done -- `Startup`: the three programs' start and the migrations;
8. done -- the proofs of every invariant and step property of every run, and of
   the refinement of `DeliveryContract` (section 6).

Left, in order:

1. `Intake` and `Worker` composed, so that `Submit` is the push itself and the
   orphaned row is seen by both sides;
2. an abstract specification of the limiter (grants with their times and
   months, no keys and no expiry) that `RateLimiter` implements: `HourInv` and
   `MonthInv` hold the facts its refinement needs.

## 3. The modules

| Module | Models | Extends |
|---|---|---|
| `JobQueue` | the two lists of `queue.go` as sequences: LPUSH at position 1, RPUSH and BRPOP at the last | |
| `SesErrors` | the error classes of `types.go` and `classifyError` | |
| `EmailLog` | a row, `UpdateStatus`, `SetAWSMessageID` | |
| `Worker` | `cmd/worker/main.go` | the three above |
| `DeliveryContract` | no code: what the pool promises about a job | |
| `Lifecycle` | the worker from `ses.Send` on, the webhook, tracking | `EmailLog` |
| `RateLimiter` | `CheckAll` and its Lua script for one client | |
| `AuthCache` | both validations, the cache, the status endpoint | |
| `Intake` | SMTP sessions and the send endpoint | |
| `ConfigSet` | `SESDelivery.Send` with `EnsureConfigurationSet` | `SesErrors` |
| `EventPath` | an event's way to the webhook: the set-up, the subscription, `middleware.go` | `ConfigSet` |
| `Startup` | `NewDB`, `RunMigrations` and the mains around them | |
| `WorkerProofs` | theorems about `Worker`: types, attempts, places, copies | `Worker` |
| `WorkerOutcomeProofs` | theorems about `Worker`: recipients, refusals, statistics, final states, the refinement | `WorkerProofs` |
| `LifecycleProofs`, `RateLimiterProofs`, `AuthCacheProofs`, `IntakeProofs`, `EventPathProofs`, `StartupProofs` | theorems about the module of that name | that module |
| `MC...` | constants and symmetry for TLC | the module of that name |

**Worker.** `queue`, `dead`, `status`, `msgId`, `blacklist` and `sentStat` are
Redis and MySQL; `pc[w]` is where goroutine `w` is in `run` or `processJob`,
`held[w]` its variable `job`, `todo[w]` and `valid[w]` the filter loop.
`ctxDone` is the cancelled context, `begun[w]` a call that was under way when
it was cancelled. Actions are the calls, in the order of the code: `Pop`
(`PopLost` when the answer is lost), `Lookup` per recipient (`LookupFails`),
`SendOk` or `SendFails`, `SetMessageId`, `MarkSent`, `Count`; and `Requeue`,
which is Retry together with `run`'s test of the counter. `MarkFailed` is the
three places that write "failed". `Call(w, done, ok)` relates a call's effect
to its answer. Within an attempt the loop over recipients is unordered: the
result is a set. `tries`, `accepted`, `refused`, `listed`, `faulted` and
`resent` are history variables; no action's effect on the program's state
depends on them but for the bound on `resent`.

go-redis sends a push again when its answer is lost, so one push may leave two
payloads of one job: `PushAgain` is a handler's push repeated at any later
moment, `PushTwice` the worker's own. The payloads of a job are equal byte for
byte; the models number them (`copy`, history) so that a property can speak of
one. Per payload everything holds that holds without a repetition; per job,
`resent[j] + 1` payloads are delivered, each with its own attempts. The answer
to a repeated push is `Requeue`'s business like any other.

A pop that fails or times out without effect leads `run` round its loop
(`main.go:133-139`) and changes nothing: it is a stuttering step, and no action.

**Lifecycle.** One action per database call of a handler; `ev[h]` is the event
handler `h` has, `todo[h]` the recipients still to be added to the blacklist.
`due` is what SNS still has to deliver. SNS has one request for an event that it
waits for; after a `TimeOut` it posts the event again while the first handler
runs on beside the new one (`late`): its calls may fail at any point, as its
context is cancelled, and its answer is read by nobody. A Bounce or Complaint
without its object is answered 200 with no effect (kind "Bare"), a message that
does not decode is answered 400 ("Garbled"), which SNS takes as final. A time
stamp is the time of the write,
a message id is which of the accepted messages of the row it names, so that
the id of a first, superseded send is told from that of the second.
`dropped`, `unlisted`, `uncounted` and `recounted` are history: events that met
no row or had no effect, addresses and counts that a failed call left out, and
how often SNS posts again what was counted already or still may be, because it
repeats an answered event, because it stopped waiting for a handler that runs
on, or because a kill cut the answer off (`InHand`: a complaint between its
IncrementStat and its 200).

**RateLimiter.** `Grant` and `Deny` are the whole script, which Redis runs
atomically. `Send` takes the stamp from a clock that may be `Ahead`, and the
script may run up to `MaxDelay` later; an `Answer` that is lost leads back to
"sent", which is the resend with the same member.

**AuthCache.** One client, its two cache keys and its row. `Get`, `Table`,
`Fill`, `Check` are the calls of a validation, `Put`, `Update`, `Evict` those
of the status endpoint, several of both at once.

**Intake.** `pc`, `client`, `from`, `to` are a session or a request; `asked` is
the envelope as the sender knows it, so that `EnvelopeKept` compares two
independent records. The limiter is a counter here; its own behaviour is
`RateLimiter`. `jobs` is the bag of all payloads ever pushed: go-redis repeats
an LPUSH whose answer is lost (`PushAgain`), so one row may have its payload
several times, which `JobHasRow` admits up to `MaxPushes`, while two different
payloads never name one row. `Worker` takes it from there. Both processes are
killed as often as one likes.

**ConfigSet.** `set` and `dest` are what exists in SES. `OneSendsWorth` is what
entitles `Worker` to model one Send as one SendRawEmail call. The module has
no specification of its own; its steps are `EventPath`'s `Deliveries`.

**EventPath.** `fate[m]` is what SNS knows of a message, an event or a
SubscriptionConfirmation; `hpc[<<m, t>>]` is the request of its delivery `t`,
which goes on when SNS has stopped waiting, so that requests for one message
and for several run side by side. `cert` is `certCache`, of one process life.
`Look` and `Download` are two steps, between which another request may have
stored the certificate. `sub` is the subscription at SNS; `Confirm` is the GET
of the SubscribeURL. `hasty`, `early`, `cold`, `failed`, `deaf`, `ended` and
`torn` are history and name the causes `LostForCause` admits. A message can be
lost in five ways, each with causes of its own: an event is published nowhere
(`torn`, `hasty`); it finds no subscription (`early`, or what follows); a
confirmation was answered 200 and there is no subscription (`deaf`, `ended`);
SNS takes a 403 as final (`cold`); SNS gives up after `MaxTries` deliveries
(each of them in `failed`).

**Startup.** `version`, `dirty` are the row of `schema_migrations`, `applied`
the migrations really in effect, `seen[p]` the version a program has reached.
golang-migrate's Up is `Lock`, `ReadVersion`, then `MarkDirty`, `Apply` and
`ClearDirty` for each migration, and `Unlock`; `CheckVersion` is what
`RunMigrations` does after it, without the lock. `End` is every way a program
ends. `newest[p]` is the newest migration embedded in the binary, raised by
`Upgrade`.

**Faulty variants.** Operators that no other definition uses (`PeekOnly`,
`ToDeadEarly`, `CommitHourFirst`, ...) are plausible mistakes in the operator
that follows them. Put in its place, each makes one property fail; the pairs
are `mutants` in `PROJECT.json`. They document that the property depends on
that line of the code.

## 4. The runs

Run one with `tlc -workers 2 -config <run>.cfg <module>`.

| Run | Instance | States | What it shows |
|---|---|---|---|
| `WorkerPair` | 2 workers, 2 jobs of 2 tenants, one to 2 addresses and one to one of them, MaxRetries 2, 1 stop or kill | 3.5 M | jobs and workers do not mix; nothing is forgotten but what `faulted` names |
| `WorkerSolo` | 2 workers, 1 job, MaxRetries 2, SdkAttempts 2, 1 repeated push, 1 stop or kill | 0.50 M | copies bounded over whole retry chains, also of a payload pushed twice; refinement of `DeliveryContract`; no job is worked on for ever and a shutdown ends |
| `Lifecycle` | 1 row with 2 recipients, 2 handlers, 2 events of 6 kinds, 1 fault, time-out or repetition, 2 times | 1.1 M | events against the worker's last writes; exact statistics |
| `RateLimiter` | 3 checks, limits 2 and 2, window 4, month 5, 7 ticks | 0.97 M | late, reordered and resent scripts over a month's end |
| `AuthCache` | 2 requests, 1 administrator, TTL 2, 5 ticks, failing calls | 3.8 M | bounded staleness |
| `Intake` | 2 connections with room for 1, 1 API request, 1 client, 2 addresses of which 1 is listed, 2 grants, 2 LPUSHes of a push, kills without bound | 3.0 M | counting, envelopes, rows and jobs |
| `EventPath` | 2 workers, 1 event, 1 confirmation, 2 deliveries each | 0.76 M | concurrent, half-failed and killed set-ups; why an event does not arrive |
| `Startup` | 3 programs of which 1 pings Redis, migrations 1 and 2, 2 pings, 2 faults | 0.54 M | truth of the recorded version; rolling upgrades; all serve in the end |

The properties of a run, besides its type invariant; each is stated in words
where it is defined:

| Run | Properties |
|---|---|
| `WorkerPair` | `OneCopy`, `BlacklistRespected`, `RefusedIsFinal`, `DeadIsExhausted`, `Settled` |
| `WorkerSolo` | `SendsBounded`, `StatsHonest`; `ImplementsContract` (refinement), `EveryJobEnds`, `ShutdownEnds` (liveness) |
| `Lifecycle` | `AnsweredIsApplied`, `StatsAccounted`; the step property `FirstEngagementKept`; `EventsSettle` (liveness) |
| `RateLimiter` | `HourlyLimitKept`, `MonthlyLimitKept`, `NothingDangles`, `UsageTruthful` |
| `AuthCache` | `StalenessBounded`, `RejectedForCause`, `CleanOffHolds` |
| `Intake` | `SessionsBounded`, `CountExact`, `AckedIsQueued`, `JobHasRow`, `OrphansExcused`, `EnvelopeKept`, `ListedStopped` |
| `EventPath` | `OneSendsWorth`, `EnsureMeansReady`, `LostForCause`; `SetCompleted` (liveness) |
| `Startup` | `SchemaTruthful`, `ServingMeansMigrated`; `EveryoneServes` (liveness) |

Why the bounds are enough. Two workers and two jobs are the smallest instance in
which a job can be popped while another is retried, and tenants can be mixed up;
with two attempts a job is retried, exhausted and buried, and with the doubled
payload of `WorkerSolo` four attempts of one job run in every order, a kill or
a shutdown between any two calls; the theorems cover every `MaxRetries`. One
event that times out has two handlers run for it at the same time. Two events
and two handlers give every pair of kinds in both orders and at the same time;
the faults are bounded
by one because each property is about what a single fault leaves behind, and
every fault position is explored. Three checks against a limit of two reach and
exceed either limit, and with a month of 5 ticks in 7 the end of a month falls
at every point of the window. One room for two connections reaches the limit;
a second message on a connection reaches the reuse of a session. One event and
one confirmation are two messages that share the certificate, each with two
requests at a time; two workers are enough for one to find what the other has
made. Three programs and two migrations have one program migrate, one wait and
one of the other age. One repeated push makes a second payload, which differs
from a third in nothing. The bounds are
constants (`MaxStops`, `MaxResends`, `MaxEvents`, `MaxFaults`, `MaxTime`, `MaxSends`,
`MaxRcpts`), each marked `bound:` where it is declared.

Deadlock is checked except where the cfg says why not: a bounded instance ends
when its jobs, faults or time are used up.

Symmetry is used over workers, requests or connections in runs without
liveness properties only; none of the symmetric values is named by a constant.

### What the code does otherwise than it says

Four runs check a sentence of the sources and end in a counterexample:

| Run | The sentence | What happens |
|---|---|---|
| `LifecycleBounce` | "Bounces and complaints auto-blacklist the address" (`README.md:475`) | an event that arrives before the worker stored the message id is answered 200 and dropped |
| `LifecycleOpen` | "Don't downgrade from a terminal state" (`email_log_repo.go:84`) | the list of kept states names `bounced`, which nothing writes any more, and neither `hard_bounced` nor `soft_bounced` |
| `WorkerRetry` | "puts job at the tail so retries are processed after newer jobs" (`queue.go:95-96`) | the tail is where BRPOP pops (`queue.go:70`, `102`): a retry is processed next, without delay, ahead of all that wait |
| `AuthCacheOff` | "so the new status takes effect immediately" (`cmd/api/main.go:377`) | a cache fill that read the row before the update lands after the eviction |

What the code does instead of the sentence `WorkerRetry` refutes is proved:
retried jobs come before all that were not tried yet (`RetriesFirst`, section 6).

Three more were met without a run. No visit of the pixel or of a tracked link is
ever recorded, although `HandleOpen` "records the open event"
(`handlers.go:42`): the routes declare `:logId` (`cmd/api/main.go:102-103`) and
the handlers ask for `logID` (`handlers.go:50`, `62`), so that every recording
runs with an empty id; `Record` in `Lifecycle` models it. The README says that
the confirmation is automatic (`README.md:133`) and that the log shows it (553), while a
confirmation SNS refuses is logged as done and never repeated (`deaf` in
`EventPath`); and `make migrate-down` is said to roll back one migration
(`README.md:529`), while `Makefile:55` rolls back all.

Behaviour that contradicts no sentence but that the models show too: a late
`UpdateStatus(sent)` overwrites `delivered` or a bounce that arrived between
it and `SetAWSMessageID`; a repeated event is counted again,
as is one whose first handler outlasts SNS's patience, and one kill makes every complaint that a handler has counted and not yet answered count again, so
that the error of a column is not bounded by the number of faults
(`StatsAccounted` counts the repetitions one by one); a half-created
configuration set stays half created (`SetCompleted` excepts it), and events
that happen while one is being created are published nowhere (`hasty`); an event
is lost when it comes before the certificate and the download fails (`cold`); a
torn migration stops every later start, an old binary does not start on a newer
schema, and a program that meets a newer one's migration ends with "manual
intervention required" although none is; a job that is in a
worker's hand when the process is killed is lost (`Settled` excepts it); a
shutdown fails the calls after the one under way, so the message may be sent
and its row stay `queued`.

## 5. Fairness

Safety needs none. Four runs use `FairSpec`, a run of a module each:

* `Worker`: weak fairness of each goroutine's `Step` while it is `Busy`, that is
  holds a job or has its context cancelled. The Go scheduler runs
  every goroutine, and every call returns (BRPOP after 5 s, the others by the
  timeouts of their clients or by the context). No fairness of success is
  assumed: every call may fail every time, and nothing at all is assumed of a
  worker that waits for a job, since its pops may fail for ever. Only the second
  half of `EveryJobEnds`, that a waiting job comes to rest, names as its
  hypothesis that pops are answered (`PopsAnswered`), next to the conclusion
  that needs it; the first, that no worker holds a job for ever, and
  `ShutdownEnds` do without.
* `Lifecycle`: weak fairness of each handler, which net/http runs in its own
  goroutine, and of SNS delivering to a free one. A 500 or a time-out is
  repeated by SNS; faults are finitely many (`MaxFaults`), as SNS gives up after
  its own policy, which is not modelled here (`EventPath` has it).
* `EventPath`: weak fairness of the creation of the destination, a call that
  returns because the SDK's requests do. Nothing is assumed of the download of a
  certificate, which has no deadline (`middleware.go:123`).
* `Startup`: weak fairness of each program's `Step` (the container runtime
  starts what has ended, calls return) and of MySQL's recovery; strong fairness
  of `Lock`, since an old program takes the lock again and again at its futile
  starts and MySQL hands it to those who wait. That a wait times out only
  while a migration runs (`LockTimesOut`) is about the ten seconds it lasts.

`EveryJobEnds` lets a job wait before a pool that has stopped: nobody promises
that the process is started again.

## 6. The proofs

Each `...Proofs` module proves, for every value of the constants that the
assumptions admit, what the runs check on one. The assumptions are those that the
modules declare about their constants (`WorkerAssumption`,
`MaxRetriesAssumption`, `LifecycleAssumption`, ...; TLC evaluates each of them
in a run) and nothing else: no set of workers, jobs, rows, connections or
programs is bounded, and only the requests of `RateLimiter` are said to be
finite in number, since the limits are cardinalities over them.

Every proof has the same form. The property is not inductive as it stands; an
invariant that is stronger holds initially (a `...Start` or `...Init` lemma),
is preserved by every step (a `...Step` lemma, one step of the proof per action)
and implies the property. TLC checked each invariant, on the instance of its
run, before it was proved.

| Property | Theorem | Invariant |
|---|---|---|
| `Worker`: `TypeOK`, `DeadIsExhausted` | `TypeCorrect`, `DeadLettersExhausted` | `AttemptsInv` |
| `OneCopy`, `SendsBounded` | `OneCopyOnly`, `CopiesBounded` | `BudgetInv` |
| `BlacklistRespected` | `OnlyUnlistedAreSentTo` | `FilterInv` |
| `ImplementsContract` | `PoolImplementsContract` | `PlacesInv` |
| `StatsHonest` | `StatsAreHonest` | `StatsInv` |
| `RetriesFirst` (of the proofs only, the contrary of what `WorkerRetry` refutes) | `RetriesComeFirst` | itself, with `AttemptsInv` |
| `RefusedIsFinal` | `RefusalIsFinal` | `RefusedInv` |
| `Settled` | `JobsAreSettled` | `SettledInv` |
| `Lifecycle`: `TypeOK`, `AnsweredIsApplied`, `StatsAccounted`, `FirstEngagementKept` | `LifecycleTypes`, `AnsweredAreApplied`, `StatsAreAccounted`, `FirstEngagementStays` | `LifecycleInv` |
| `RateLimiter`: `TypeOK`, `HourlyLimitKept`, `MonthlyLimitKept`, `NothingDangles`, `UsageTruthful` | `LimiterTypes`, `HourlyLimitHolds`, `MonthlyLimitHolds`, `IncrementsArePaired`, `UsageIsTruthful` | `LimiterInv` |
| `AuthCache`: `TypeOK`, `StalenessBounded`, `RejectedForCause`, `CleanOffHolds` | `AuthTypes`, `StalenessIsBounded`, `RejectionsHaveCause`, `CleanOffLasts` | `AuthInv` |
| `Intake`: `TypeOK`, `SessionsBounded`, `CountExact`, `AckedIsQueued`, `JobHasRow`, `OrphansExcused`, `EnvelopeKept`, `ListedStopped` | `IntakeTypes`, `SessionsAreBounded`, `CounterIsExact`, `AckedAreQueued`, `JobsHaveRows`, `OrphansAreExcused`, `EnvelopesAreKept`, `ListedAreStopped` | `IntakeInv` |
| `EventPath`: `OneSendsWorth`, `EnsureMeansReady`, `LostForCause` | `SendsOnce`, `EnsureIsReady`, `LossesHaveCauses` | `EventInv` |
| `Startup`: `SchemaTruthful`, `ServingMeansMigrated` | `RecordIsTrue`, `ServesOnItsSchema` | `SchemaInv` |

### Worker: attempts, places, copies

`TypeOK` is not inductive: that a retried job keeps its counter within
`MaxRetries` depends on the queue holding only jobs with an attempt left.
`AttemptsInv` says so (`ListsOK`), and ties it to the workers (`HandOK`): a
worker between pop and retry holds a job with an attempt left, a worker at
"exhaust" one without. `AttemptsStep` has one step per action.

`SendsBounded` needs far more. An attempt may add `SdkAttempts` copies, so the
copies must be tied to the attempts counted; two workers with the same payload
would both add to the same attempt, so a payload must be in one place; and a
second `Submit`, or a repeated push, would put it in two places, so whatever is
anywhere must have been issued (`Issued`: a row exists and the copy's number is
at most `resent`), and a repetition issues a number not yet in use.
`Places` (`QueueApart`, `DeadApart`, `ListsApart`, `HandsApart`, `Known`) states
the second and third, `Counts` the first: a waiting job's counter is the number
of times it was popped, a carried one's is one less, and before the send the
copies fit in the attempts before. Actions that touch neither lists nor counts
are `Quiet` and share one lemma; `Submit`, `Pop`, `PopLost`, `SendOk`,
`SendFails`, `PushAgain`, `PushTwice` and `Requeue` each have their own step in
`BudgetStep`. `OneCopy` follows from `Places` by counting (`AtMostOne`).

### Worker: outcomes

* The refinement. Under `PlacesInv` the phase of a payload is the one of four
  disjoint sets of keys it is in (`Waiting`, `Buried`, `InHands`, or none, see
  `PhaseIsPlace`). `Moves` classifies the steps of the pool by what they do to
  these sets: a payload arrives, is taken, returned, returned and doubled, or the
  sets only lose members. Each class is a step of the contract or a sequence of
  none (`ContractStep`). `RowFirst` is needed because a repeated push must come
  after the first one.
* `FilterInv`: what the loop over the recipients has left out is listed, and
  what it has kept was not listed at the pop; entries are only ever added.
* `RefusedInv`: that a refused payload is nowhere else again follows from
  `Places`; the worker that buries an exhausted payload holds it outside of
  `Places`, so `ExhaustApart` says that no such payload was refused.
* `StatsInv`: a worker that records a send holds a payload that SES accepted,
  and a client's count is at most the number of its accepted payloads that are
  neither waiting nor in a worker's hand (`Delivered`): these stay so, and each
  increment adds one.
* `SettledInv`: an unfaulted job whose row is still "queued" is kept somewhere
  (`Kept`: in the queue, or with a worker whose next calls will decide), a row
  is written before its worker counts (`MarkedFirst`), and a dead letter's row is
  "failed" or about to be (`DeadIsFailed`).

### Lifecycle

SNS waits for one answer to an event at a time, and the event is `due` while it
does; requests that timed out may have the same event (`OneHandler`). `Stages`
ties a handler's place to the kind of its event. `Progress` says what a handler
that SNS waits for has already written when it gets to its next call; an event
is answered from the last of these places, which gives `AnsweredIsApplied`, and stamps and
blacklist entries are never taken away (`StampsStay`, `ListsStay`). For
`StatsAccounted` each event is counted, still to be counted (`ToCount`: due and
not in the hands of a handler that has counted it), or excepted; a column is at
least the counted, and leaves room for those to come and for the requests that
timed out and may still count (`Loose`): `stats + ToCount + Loose <= emitted +
recounted`. A repetition moves an event back into `ToCount` and adds one to
`recounted`; so does a time-out, whose handler joins `Loose` or has counted
already; a kill moves all of `InHand` and adds as many.

An earlier version bounded the excess of a column by the number of faults. Its
proof failed at the kill, and TLC then found the counterexample on a larger
instance than the run's: two handlers that have each counted a complaint, one
kill, both complaints counted again. The property now counts what is repeated.

### RateLimiter

`ClockInv` bounds the distance of a script's stamp from the time it ran.
`HourInv`: what the sorted set has lost, to ZREMRANGEBYSCORE or to its expiry,
was outdated when it went, so the members still contain all grants of the
window, and a script grants only with room among them. `MonthInv`: a monthly
key that counted anything outlives every script that may still count in its
month (`Buffer` covers `MaxDelay + Ahead`, the assumption the code's five
minutes justify), so it has counted all of them. `MonthFacts` is the calendar:
which month a stamp is in and when it ends.

### AuthCache

`FreshInv` follows the staleness through the cache: a fill is at most `MaxLag`
after the read of an active row, an entry at most `TTL` after the fill, a check
at most `MaxLag` after the read of the entry; the three add up to
`StalenessBounded`. `SawInv`: a request that runs while the client is inactive
is known to. `CleanInv`: after a clean switching off no fill is under way.

### Intake

`SendersInv` compares each sender's fields with what it asked for, in the order
of the protocol, and says that what it holds was looked up or is `blind`.
`CountInv` is `CountExact` with the sessions and the refused ones finite in
number at every step, so that the connections may be infinitely many. `PushInv` says that
the row a sender is about to push for is its own, and that its jobs are copies
of the payload the sender has, fewer than `MaxPushes` of them; with it a
push, first or repeated, gives a job its own row (`JobHasRow`), and a kill leaves
exactly the excused rows behind (`OrphansExcused`). `BagFacts` is what one more
copy does to a bag. Actions that leave the two stores alone are `Quiet`.

### EventPath and Startup

`SendInv`: an Ensure never returns well without both objects, because a set
without destination is being completed by a worker or was left by one that
ended (`Halfway`); SES took nothing of a Send that is not over (`NothingYet`).
`WarmIsSafe`: a request that found the certificate needs no download, so a
refusal is for a `cold` one. `TriesLeft` says that only the latest delivery of a
message is waited for, `TriesFailed` that SNS delivers again, or gives up, only
after every delivery so far has failed, so that a message given up has failed
`MaxTries` times. That an event without a subscription was `early`, or the
subscription `ended` or the confirmation `deaf`, follows from what holds of the
confirmations.

`SchemaInv` ties the record to the schema through the program that holds the
lock (`Exclusive`): what it has read is what is there (`Aware`), and a mark is
its own or that of one that ended (`Marked`, `Torn`). A program past its
migrations has them all (`Migrated`), which later migrations only add to.

## 7. What is only model-checked, and what is not modelled

Only model-checked: the five liveness properties, `EveryJobEnds`, `ShutdownEnds`,
`EventsSettle`, `SetCompleted` and `EveryoneServes`. They rest on fairness, that
is on ENABLED, which the prover cannot reason about. The four runs that end in a
counterexample have nothing to prove. That an instance is not stuck (deadlock)
is TLC's as well.

Assumptions about what is not under `src/`:

* A1. Redis runs a command or a script atomically and keeps its data. With
  the append-only file and its default policy a crash of Redis may lose the last
  second; that is not modelled.
* A2. SES takes no copy of a call that it refuses for a missing configuration
  set, and an error that SES itself answers means the last request was not taken.
* A3. A BRPOP whose answer is lost has lost its job (`PopLost`); go-redis sends
  it again, which is the next `Pop`.
* A4. go-smtp calls NewSession, AuthPlain, Mail, Rcpt, Data, Reset and Logout as
  the header of `Intake` says. Whether the release that go.mod names still
  calls `AuthPlain` depends on its session interface; BDAT and the null sender
  are not modelled.
* A5. `SMTP_MAX_CONNECTIONS > 0`. With 0 NewSession counts nothing while Logout
  still subtracts.
* A6. UUIDs are unique, and so are SES message ids.
* A7. In `RateLimiter`, a stamp is at most `Ahead + MaxDelay` off, which is at
  most the five minutes of buffer (`ratelimit.go:324`).

* A8. golang-migrate locks, marks and refuses as the header of `Startup` says,
  and Migrator.Close, which `RunMigrations` defers (`migrate.go:111-115`), leaves
  the `*sql.DB` open, as `migrate.go:94` and `105` say. That is up to the MySQL
  driver of the release in go.mod (v4.18.1), which is not in this repository; a
  driver that closes the handle `WithInstance` was given makes both comments
  false and has every program reach "up" with a closed database, and
  `ServingMeansMigrated` and `EveryoneServes` then speak of programs that cannot
  serve. An error of Close ends the program and is one of the ends `Kill` covers.
* A9. SNS takes a 4xx as final, repeats after a 5xx or no answer up to a limit,
  and signs what it sends with one certificate.

Not modelled:

* configuration: it is read once, and its values are constants of the modules;
* client creation, lists, statistics and quota endpoints: single reads or a
  single insert; the limits in a session are those of its authentication;
* the RSA check, the check of the certificate's URL and the text the signature
  is computed over: what SNS sends passes them;
  an UnsubscribeConfirmation, which is only logged;
* Migrator.Down and Steps, which no program calls, and `make migrate-down`;
* tracking injection and the unescaping of the click target: text rewriting.
  `Record` is one step, since with the routes as they are it never finds a row;
* the message text and its parsing, MIME building, logging, response formats;
* code no program calls: `CheckHourlyLimit`, `CheckMonthlyLimit`, `limiter.go`,
  `Remove`, `RemoveAll`, `UpdateAPIKey`, `UpdatePassword`, `UpdateLimits`,
  `Deactivate`, `Delete`, `Len`, `DeadLen`, `Tracker`.
