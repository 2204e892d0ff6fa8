------------------------------- MODULE Worker -------------------------------
(***************************************************************************)
(* The delivery pool of cmd/worker/main.go: Workers goroutines that pop    *)
(* jobs from the Redis queue, filter blacklisted recipients, send through  *)
(* SES and write the outcome to the job's row.                             *)
(*                                                                         *)
(* One action per call that reaches Redis, MySQL or SES.  Every such call  *)
(* may fail without effect, and may fail although its effect took place    *)
(* (the answer is lost, or the context is cancelled while it is awaited).  *)
(* go-redis repeats a command whose answer is lost, so one push may leave  *)
(* two payloads of a job in a list; resent counts them.                    *)
(* The process may be killed at any moment; SIGTERM cancels the context    *)
(* the workers use for every one of these calls.                           *)
(*                                                                         *)
(* An operator that nothing uses is a faulty variant of the operator       *)
(* after it, kept to show which property would notice (README.md).         *)
(***************************************************************************)
EXTENDS Integers, FiniteSets, JobQueue, EmailLog, SesErrors

CONSTANTS Workers,      \* goroutines of the pool (WORKER_CONCURRENCY)
          Clients,      \* tenants
          Addrs,        \* recipient addresses
          Owner,        \* job -> the client that submitted it
          Rcpts,        \* job -> its To addresses
          SdkAttempts,  \* requests the AWS SDK makes for one SendRawEmail call
          Listable,     \* bound: <<client, address>> pairs the webhook may list
          MaxStops,     \* bound: kills and shutdowns explored
          NoJob         \* a worker that holds no job

ASSUME WorkerAssumption ==
  /\ Owner \in [JobIds -> Clients]
  /\ Rcpts \in [JobIds -> SUBSET Addrs]
  /\ \A j \in JobIds : Rcpts[j] # {}
  /\ SdkAttempts \in Nat \ {0}
  /\ Listable \subseteq Clients \X Addrs
  /\ MaxStops \in Nat
  /\ NoJob \notin Job

VARIABLES
  queue, dead,     \* the Redis lists
  status, msgId,   \* email_logs, two columns of it; "none" = no such row
  blacklist,       \* blacklisted_emails: <<client, address>>
  sentStat,        \* email_daily_stats.sent per client
  pc, held,        \* where each goroutine is, and its local variable job
  todo, valid,     \* processJob: addresses not looked up yet, and validTo
  ctxDone, begun,  \* the context is cancelled; calls begun before that
  stops,           \* kills and shutdowns so far
  resent,          \* history: pushes of a job that were repeated
  tries, accepted, \* history: attempts of a payload, copies SES accepted
  refused,         \* history: payloads SES refused for good
  listed,          \* history: recipients listed when the job was popped
  faulted          \* history: jobs that met a fault nothing makes up for

redis == <<queue, dead>>
db == <<status, msgId, blacklist, sentStat>>
local == <<pc, held, todo, valid, begun>>
history == <<resent, tries, accepted, refused, listed, faulted>>
vars == <<redis, db, local, ctxDone, stops, history>>

PC == {"pop", "filter", "unsendable", "send", "setid", "marksent", "count",
       "refused", "retry", "again", "exhaust", "stopped"}

-----------------------------------------------------------------------------
(* Calls.                                                                  *)

(* A call that starts after the cancellation fails before it leaves the    *)
(* process; one that was under way may still take effect.                  *)
Reaches(w) == ~ctxDone \/ begun[w]

(* A call's effect (done) and its answer (ok): no ok without the effect.   *)
Call(w, done, ok) == (ok => done) /\ (done => Reaches(w))

Goto(w, label) == /\ pc' = [pc EXCEPT ![w] = label]
                  /\ begun' = [begun EXCEPT ![w] = FALSE]

(* The worker is through with its job: back to the head of run's loop.     *)
Drop(w) == /\ Goto(w, "pop")
           /\ held' = [held EXCEPT ![w] = NoJob]
           /\ valid' = [valid EXCEPT ![w] = {}]
           /\ listed' = [listed EXCEPT ![w] = {}]

Fault(w, happened) ==
  faulted' = IF happened THEN faulted \cup {held[w].id} ELSE faulted

IsListedAnyClient(j, a) == \E c \in Clients : <<c, a>> \in blacklist

(* BlacklistRepository.IsBlacklisted(job.ClientID, addr)                   *)
IsListed(j, a) == <<Owner[j], a>> \in blacklist

-----------------------------------------------------------------------------
Init ==
  /\ queue = <<>> /\ dead = <<>>
  /\ status = [j \in JobIds |-> "none"] /\ msgId = {}
  /\ blacklist = {} /\ sentStat = [c \in Clients |-> 0]
  /\ pc = [w \in Workers |-> "pop"] /\ held = [w \in Workers |-> NoJob]
  /\ todo = [w \in Workers |-> {}] /\ valid = [w \in Workers |-> {}]
  /\ ctxDone = FALSE /\ begun = [w \in Workers |-> FALSE] /\ stops = 0
  /\ resent = [j \in JobIds |-> 0]
  /\ tries = [k \in Keys |-> 0] /\ accepted = [k \in Keys |-> 0]
  /\ refused = {} /\ faulted = {} /\ listed = [w \in Workers |-> {}]

(* External: an API or SMTP handler that created the row and pushed the    *)
(* job.  The handlers and their failures are in Intake.                    *)
Submit(j) ==
  /\ status[j] = "none"
  /\ status' = [status EXCEPT ![j] = "queued"]
  /\ queue' = LPush(queue, NewJob(j))
  /\ UNCHANGED <<dead, msgId, blacklist, sentStat, local, ctxDone, stops, history>>

(* External: that handler's LPUSH took effect, its answer was lost, and    *)
(* go-redis sends it again: by now the job may be anywhere.                *)
PushAgain(j) ==
  /\ status[j] # "none" /\ resent[j] < MaxResends
  /\ resent' = [resent EXCEPT ![j] = @ + 1]
  /\ queue' = LPush(queue, Resent(NewJob(j), resent[j] + 1))
  /\ UNCHANGED <<dead, db, local, ctxDone, stops, tries, accepted, refused, listed, faulted>>

(* External: the webhook adds an address to a client's blacklist.  Nothing *)
(* in the program calls Remove or RemoveAll.                               *)
List(c, a) ==
  /\ <<c, a>> \in Listable \ blacklist
  /\ blacklist' = blacklist \cup {<<c, a>>}
  /\ UNCHANGED <<redis, status, msgId, sentStat, local, ctxDone, stops, history>>

-----------------------------------------------------------------------------
(* run: BRPOP returns the job at the tail.  A pop that times out or fails  *)
(* without effect changes nothing: run goes round its loop, for ever if it *)
(* must, which is a stuttering step and no action here.                    *)
Pop(w) ==
  /\ pc[w] = "pop" /\ Reaches(w) /\ queue # <<>>
  /\ LET job == Popped(queue) IN
       /\ queue' = AfterPop(queue)
       /\ held' = [held EXCEPT ![w] = job]
       /\ todo' = [todo EXCEPT ![w] = Rcpts[job.id]]
       /\ tries' = [tries EXCEPT ![Key(job)] = @ + 1]
       /\ listed' = [listed EXCEPT ![w] = {a \in Rcpts[job.id] : <<Owner[job.id], a>> \in blacklist}]
  /\ Goto(w, "filter")
  /\ UNCHANGED <<dead, db, valid, ctxDone, stops, resent, accepted, refused, faulted>>

(* The server popped a job whose answer is lost or does not unmarshal: run *)
(* logs the error and continues.                                           *)
PopLost(w) ==
  /\ pc[w] = "pop" /\ Reaches(w) /\ queue # <<>>
  /\ queue' = AfterPop(queue)
  /\ faulted' = faulted \cup {Popped(queue).id}
  /\ Goto(w, "pop")
  /\ UNCHANGED <<dead, db, held, todo, valid, ctxDone, stops,
                 resent, tries, accepted, refused, listed>>

(* Pop fails or times out and run sees ctx.Done.                           *)
Stop(w) ==
  /\ pc[w] = "pop" /\ ctxDone
  /\ Goto(w, "stopped")
  /\ UNCHANGED <<redis, db, held, todo, valid, ctxDone, stops, history>>

(* processJob, step 1: one recipient is looked up.                         *)
Lookup(w) ==
  /\ pc[w] = "filter" /\ Reaches(w)
  /\ \E a \in todo[w] :
       LET to == IF IsListed(held[w].id, a) THEN valid[w] ELSE valid[w] \cup {a} IN
         /\ todo' = [todo EXCEPT ![w] = @ \ {a}]
         /\ valid' = [valid EXCEPT ![w] = to]
         /\ Goto(w, IF todo[w] # {a} THEN "filter"
                    ELSE IF to = {} THEN "unsendable" ELSE "send")
  /\ UNCHANGED <<redis, db, held, ctxDone, stops, history>>

(* The lookup fails: processJob returns a plain error, which is retried.   *)
LookupFails(w) ==
  /\ pc[w] = "filter"
  /\ todo' = [todo EXCEPT ![w] = {}]
  /\ Goto(w, "retry")
  /\ UNCHANGED <<redis, db, held, valid, ctxDone, stops, history>>

(* The three places that set "failed" and ignore the error of the write:   *)
(* no valid recipient, a permanent SES error, retries exhausted.           *)
MarkFailed(w) ==
  /\ pc[w] \in {"unsendable", "refused", "exhaust"}
  /\ \E done \in BOOLEAN :
       /\ Call(w, done, FALSE)
       /\ status' = IF done
                    THEN [status EXCEPT ![held[w].id] = StatusAfter(@, "failed")]
                    ELSE status
       /\ Fault(w, ~done)
  /\ Drop(w)
  /\ UNCHANGED <<redis, msgId, blacklist, sentStat, todo, ctxDone, stops,
                 resent, tries, accepted, refused>>

(* Step 3: ses.Send succeeds.  The SDK repeats a request whose answer was  *)
(* lost, so up to SdkAttempts copies are accepted.                         *)
SendOk(w) ==
  /\ pc[w] = "send" /\ Reaches(w)
  /\ \E n \in 1..SdkAttempts :
       accepted' = [accepted EXCEPT ![Key(held[w])] = @ + n]
  /\ Goto(w, "setid")
  /\ UNCHANGED <<redis, db, held, todo, valid, ctxDone, stops,
                 resent, tries, refused, listed, faulted>>

(* ses.Send fails with error class e.  A permanent class other than        *)
(* BuildError is SES's own answer to the last request; any other error may *)
(* hide an accepted copy.                                                  *)
SendFails(w) ==
  /\ pc[w] = "send"
  /\ \E e \in SesErrors, n \in 0..SdkAttempts :
       /\ e = "BuildError" => n = 0
       /\ IsPermanent(e) => n < SdkAttempts
       /\ n > 0 \/ e \notin {"BuildError", "DeliveryError", "Setup"} => Reaches(w)
       /\ accepted' = [accepted EXCEPT ![Key(held[w])] = @ + n]
       /\ refused' = IF e \in {"MessageRejectedError", "DomainNotVerifiedError",
                               "AccountSuspendedError", "BuildError"}
                     THEN refused \cup {Key(held[w])} ELSE refused
       /\ Goto(w, IF IsPermanent(e) THEN "refused" ELSE "retry")
  /\ UNCHANGED <<redis, db, held, todo, valid, ctxDone, stops, resent, tries, listed, faulted>>

(* Step 4: the message id is stored; an error is only logged.              *)
SetMessageId(w) ==
  /\ pc[w] = "setid"
  /\ \E done \in BOOLEAN :
       /\ Call(w, done, FALSE)
       /\ msgId' = IF done THEN msgId \cup {held[w].id} ELSE msgId
  /\ Goto(w, "marksent")
  /\ UNCHANGED <<redis, status, blacklist, sentStat, held, todo, valid, ctxDone,
                 stops, history>>

MarkUntilDone(ok) == IF ok THEN "count" ELSE "setid"

(* The row is set to "sent"; an error is returned, and so retried.         *)
AfterMark(ok) == IF ok THEN "count" ELSE "retry"

MarkSent(w) ==
  /\ pc[w] = "marksent"
  /\ \E done, ok \in BOOLEAN :
       /\ Call(w, done, ok)
       /\ status' = IF done
                    THEN [status EXCEPT ![held[w].id] = StatusAfter(@, "sent")]
                    ELSE status
       /\ Goto(w, AfterMark(ok))
  /\ UNCHANGED <<redis, msgId, blacklist, sentStat, held, todo, valid, ctxDone,
                 stops, history>>

CountOrRetry(w) ==
  /\ pc[w] = "count"
  /\ \E done, ok \in BOOLEAN :
       /\ Call(w, done, ok)
       /\ sentStat' = IF done
                      THEN [sentStat EXCEPT ![Owner[held[w].id]] = @ + 1]
                      ELSE sentStat
       /\ IF ok THEN Drop(w)
          ELSE Goto(w, "retry") /\ UNCHANGED <<held, valid, listed>>
  /\ UNCHANGED <<redis, status, msgId, blacklist, todo, ctxDone, stops,
                 resent, tries, accepted, refused, faulted>>

(* Step 5: IncrementStat, its error ignored; processJob returns nil.       *)
Count(w) ==
  /\ pc[w] = "count"
  /\ \E done \in BOOLEAN :
       /\ Call(w, done, FALSE)
       /\ sentStat' = IF done
                      THEN [sentStat EXCEPT ![Owner[held[w].id]] = @ + 1]
                      ELSE sentStat
  /\ Drop(w)
  /\ UNCHANGED <<redis, status, msgId, blacklist, todo, ctxDone, stops,
                 resent, tries, accepted, refused, faulted>>

ExhaustedLate(job) == job.attempts > MaxRetries

(* Queue.Retry's push took effect, its answer was lost, and go-redis sends *)
(* it again: from here on the worker is pushing the next copy.             *)
PushTwice(w) ==
  /\ pc[w] \in {"retry", "again"} /\ Reaches(w)
  /\ resent[held[w].id] < MaxResends
  /\ LET job  == Retried(held[w])
         next == Resent(held[w], resent[job.id] + 1) IN
       /\ queue' = IF ToDead(job) THEN queue ELSE RPush(queue, job)
       /\ dead' = IF ToDead(job) THEN RPush(dead, job) ELSE dead
       /\ held' = [held EXCEPT ![w] = next]
       /\ resent' = [resent EXCEPT ![job.id] = @ + 1]
       /\ tries' = [tries EXCEPT ![Key(next)] = tries[Key(job)]]
  /\ Goto(w, "again")
  /\ UNCHANGED <<db, todo, valid, ctxDone, stops, accepted, refused, listed, faulted>>

(* run's own test of the counter that Retry incremented (main.go 170).     *)
Exhausted(job) == job.attempts >= MaxRetries

(* Queue.Retry: the job is counted, then pushed to one of the two lists.   *)
(* The error of the push is only logged.                                   *)
Requeue(w) ==
  /\ pc[w] \in {"retry", "again"}
  /\ LET job == Retried(held[w]) IN
       /\ \E done \in BOOLEAN :
            /\ Call(w, done, FALSE)
            /\ queue' = IF done /\ ~ToDead(job) THEN RPush(queue, job) ELSE queue
            /\ dead' = IF done /\ ToDead(job) THEN RPush(dead, job) ELSE dead
            /\ Fault(w, ~done /\ pc[w] = "retry")
       /\ IF Exhausted(job)
          THEN /\ Goto(w, "exhaust")
               /\ held' = [held EXCEPT ![w] = job]
               /\ UNCHANGED <<valid, listed>>
          ELSE Drop(w)
  /\ UNCHANGED <<db, todo, ctxDone, stops, resent, tries, accepted, refused>>

-----------------------------------------------------------------------------
(* main: SIGTERM cancels the context.  Some of the calls are under way.    *)
Shutdown ==
  /\ ~ctxDone /\ stops < MaxStops /\ stops' = stops + 1
  /\ ctxDone' = TRUE
  /\ begun' \in [Workers -> BOOLEAN]
  /\ UNCHANGED <<redis, db, pc, held, todo, valid, history>>

FreshPool ==
  /\ pc' = [w \in Workers |-> "pop"] /\ held' = [w \in Workers |-> NoJob]
  /\ todo' = [w \in Workers |-> {}] /\ valid' = [w \in Workers |-> {}]
  /\ listed' = [w \in Workers |-> {}]
  /\ ctxDone' = FALSE /\ begun' = [w \in Workers |-> FALSE]

(* Wait returned, the process exited, and it is started again.             *)
Restart ==
  /\ \A w \in Workers : pc[w] = "stopped"
  /\ FreshPool
  /\ UNCHANGED <<redis, db, stops, resent, tries, accepted, refused, faulted>>

(* The process is killed and started again (restart: unless-stopped).      *)
Kill ==
  /\ stops < MaxStops /\ stops' = stops + 1
  /\ FreshPool
  /\ faulted' = faulted \cup {held[w].id : w \in {v \in Workers : held[v] # NoJob}}
  /\ UNCHANGED <<redis, db, resent, tries, accepted, refused>>

Step(w) ==
  \/ Pop(w) \/ PopLost(w) \/ Stop(w) \/ Lookup(w) \/ LookupFails(w)
  \/ MarkFailed(w) \/ SendOk(w) \/ SendFails(w) \/ SetMessageId(w)
  \/ MarkSent(w) \/ Count(w) \/ PushTwice(w) \/ Requeue(w)

Next ==
  \/ \E j \in JobIds : Submit(j) \/ PushAgain(j)
  \/ \E c \in Clients, a \in Addrs : List(c, a)
  \/ \E w \in Workers : Step(w)
  \/ Shutdown \/ Restart \/ Kill

Spec == Init /\ [][Next]_vars

(* A worker that holds a job, or whose context is cancelled, has something *)
(* to do whatever its calls answer.                                        *)
Busy(w) == pc[w] # "pop" \/ ctxDone

(* Every goroutine is scheduled and every call returns.  Nothing is said   *)
(* of a worker that pops: Redis may fail or keep its jobs for ever.        *)
Fairness == \A w \in Workers : WF_vars(Busy(w) /\ Step(w))

FairSpec == Spec /\ Fairness

-----------------------------------------------------------------------------
TypeOK ==
  /\ queue \in Seq(Job) /\ dead \in Seq(Job)
  /\ status \in [JobIds -> Statuses \cup {"none"}] /\ msgId \subseteq JobIds
  /\ blacklist \subseteq Clients \X Addrs /\ sentStat \in [Clients -> Nat]
  /\ pc \in [Workers -> PC] /\ held \in [Workers -> Job \cup {NoJob}]
  /\ todo \in [Workers -> SUBSET Addrs] /\ valid \in [Workers -> SUBSET Addrs]
  /\ ctxDone \in BOOLEAN /\ begun \in [Workers -> BOOLEAN] /\ stops \in 0..MaxStops
  /\ resent \in [JobIds -> 0..MaxResends]
  /\ tries \in [Keys -> Nat] /\ accepted \in [Keys -> Nat]
  /\ refused \subseteq Keys /\ faulted \subseteq JobIds
  /\ listed \in [Workers -> SUBSET Addrs]

Holds(w, j) == held[w] # NoJob /\ held[w].id = j

(* Where the payload k is: at a worker that may still process or push it.  *)
(* A worker at "exhaust" has pushed it already.                            *)
Carries(w, k) == held[w] # NoJob /\ Key(held[w]) = k /\ pc[w] # "exhaust"

AtRest(j) == j \notin Ids(queue) /\ \A w \in Workers : ~Holds(w, j)

(* Of every payload, SES accepts at most MaxRetries times the copies one   *)
(* Send may cause, across failed writes, lost answers, kills and restarts: *)
(* a retry never adds attempts beyond the counter the payload carries, and *)
(* a repeated push adds one payload, no more (queue.go 86-106).            *)
SendsBounded ==
  \A j \in JobIds, c \in 0..MaxResends :
    accepted[<<j, c>>] <= IF c <= resent[j] THEN MaxRetries * SdkAttempts ELSE 0

(* Every payload is in one place: once in the queue, or in the dead        *)
(* letters, or with one worker; and a job has one payload more for each    *)
(* push that was repeated.  So a job whose pushes were answered is never   *)
(* processed by two workers, nor waiting while a worker has it.            *)
OneCopy ==
  \A j \in JobIds, c \in 0..MaxResends :
    LET inQueue == {i \in 1..Len(queue) : Key(queue[i]) = <<j, c>>}
        inDead  == {i \in 1..Len(dead) : Key(dead[i]) = <<j, c>>}
        with    == {w \in Workers : Carries(w, <<j, c>>)}
    IN  Cardinality(inQueue) + Cardinality(inDead) + Cardinality(with)
          <= IF c <= resent[j] THEN 1 ELSE 0

(* A payload SES refused for good is never sent again: it is in neither    *)
(* list, and no worker holds it but the one that is about to mark the job  *)
(* failed (main.go 159-164).                                               *)
RefusedIsFinal ==
  \A k \in refused :
    /\ \A i \in 1..Len(queue) : Key(queue[i]) # k
    /\ \A i \in 1..Len(dead) : Key(dead[i]) # k
    /\ \A w \in Workers : held[w] # NoJob /\ Key(held[w]) = k => pc[w] = "refused"

(* Only addresses that the job's own client had not listed when the job    *)
(* was popped are sent to, and a recipient is left out only if that client *)
(* lists it (main.go 190-199, models.go 75).                               *)
BlacklistRespected ==
  \A w \in Workers : pc[w] \in {"send", "unsendable"} =>
    /\ valid[w] \cap listed[w] = {}
    /\ \A a \in Rcpts[held[w].id] \ valid[w] : <<Owner[held[w].id], a>> \in blacklist

(* The dead letters are the jobs that used up MaxRetries attempts, and a   *)
(* waiting job has an attempt left (queue.go 83-93).                       *)
DeadIsExhausted ==
  /\ \A i \in 1..Len(dead) : dead[i].attempts = MaxRetries
  /\ \A i \in 1..Len(queue) : queue[i].attempts < MaxRetries

(* No job is forgotten: once a submitted job is neither waiting nor with a *)
(* worker, its row says "sent" or "failed", unless a fault hit it that the *)
(* code does not make up for: a kill or a cancelled context while a worker *)
(* held it, a lost pop, a failed push or a failed write of the status.     *)
Settled ==
  \A j \in JobIds \ faulted :
    status[j] # "none" /\ AtRest(j) =>
      /\ status[j] \in {"sent", "failed"}
      /\ status[j] = "sent" => \E c \in 0..resent[j] : accepted[<<j, c>>] > 0
      /\ j \in Ids(dead) /\ resent[j] = 0 => status[j] = "failed"

(* email_daily_stats.sent never counts a payload twice, although it may be *)
(* sent several times, nor one SES never accepted (main.go 228-237).       *)
StatsHonest ==
  \A c \in Clients :
    sentStat[c] <= Cardinality({k \in Keys : Owner[k[1]] = c /\ accepted[k] > 0})

(* What the comment on Retry says: it "puts job at the tail so retries are *)
(* processed after newer jobs" (queue.go 95-96).  A waiting job that was   *)
(* not tried yet is newer than every retried one; BRPOP takes the last     *)
(* position first, so the retried ones would have to come before it.       *)
RetriesAfterNewer ==
  \A i, k \in 1..Len(queue) :
    i < k /\ queue[k].attempts > 0 => queue[i].attempts > 0

(* No job is processed for ever, nor handed round between the queue and    *)
(* the workers for ever, whatever fails and whenever the pool is killed or *)
(* stopped; and if Redis does answer the pops, none waits for ever but     *)
(* before a pool that was shut down.                                       *)
Stopped == \A w \in Workers : pc[w] = "stopped"

PopsAnswered == \A w \in Workers : WF_vars(Pop(w) \/ PopLost(w))

EveryJobEnds ==
  \A j \in JobIds :
    /\ <>[](\A w \in Workers : ~Holds(w, j))
    /\ PopsAnswered => ((status[j] # "none") ~> (AtRest(j) \/ Stopped))

(* A shutdown comes to an end: every worker sees the cancelled context and *)
(* returns, so that the Wait of main does (main.go 113-139), unless the    *)
(* process is killed before.                                               *)
ShutdownEnds ==
  ctxDone ~> (~ctxDone \/ Stopped)

(* The pool implements DeliveryContract: a payload's phase is where it is, *)
(* its attempts are the times a worker took it or the one it stems from.   *)
PhaseOf(k) ==
  IF status[k[1]] = "none" \/ k[2] > resent[k[1]] THEN "new"
  ELSE IF \E i \in 1..Len(queue) : Key(queue[i]) = k THEN "waiting"
  ELSE IF \E i \in 1..Len(dead) : Key(dead[i]) = k THEN "dead"
  ELSE IF \E w \in Workers : Carries(w, k) THEN "working" ELSE "gone"

Contract == INSTANCE DeliveryContract WITH
              Payloads <- Keys, phase <- [k \in Keys |-> PhaseOf(k)], attempts <- tries

ImplementsContract == Contract!Spec
=============================================================================
