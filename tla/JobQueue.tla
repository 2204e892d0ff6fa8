------------------------------ MODULE JobQueue ------------------------------
(***************************************************************************)
(* The two Redis lists of internal/queue/queue.go, "queue:emails" and      *)
(* "queue:emails:dead", as sequences.  Position 1 is the head, where LPUSH *)
(* writes; the last position is the tail, where RPUSH writes and which     *)
(* BRPOP pops.                                                             *)
(*                                                                         *)
(* An operator that nothing uses is a faulty variant of the operator       *)
(* after it, kept to show which property would notice (README.md).         *)
(***************************************************************************)
EXTENDS Naturals, Sequences

CONSTANTS JobIds,      \* email_logs.id, which is also the id of the job
          MaxRetries,  \* const MaxRetries (3 in the code)
          MaxResends    \* bound: pushes of a job that go-redis repeats

ASSUME MaxRetriesAssumption == MaxRetries \in Nat \ {0}
ASSUME MaxResendsAssumption == MaxResends \in Nat

(* EmailJob, reduced to the fields that steer the pipeline: the rest is    *)
(* payload and travels unchanged.  copy is history: it tells the payloads  *)
(* of one job apart when a push was sent twice, and nothing reads it.      *)
Job == [id: JobIds, copy: 0..MaxResends, attempts: 0..MaxRetries]

NewJob(j) == [id |-> j, copy |-> 0, attempts |-> 0]

(* The same payload, pushed once more as copy c.                           *)
Resent(job, c) == [job EXCEPT !.copy = c]

Keys == JobIds \X (0..MaxResends)

Key(job) == <<job.id, job.copy>>

LPush(list, job) == <<job>> \o list

(* A retry goes to the tail, in front of everything that waits.            *)
RPush(list, job) == Append(list, job)

Popped(list) == list[Len(list)]

PeekOnly(list) == list

(* What BRPOP leaves.                                                      *)
AfterPop(list) == SubSeq(list, 1, Len(list) - 1)

RetriedUncounted(job) == job

(* What Retry does to the job before it pushes it, whatever the push does. *)
Retried(job) == [job EXCEPT !.attempts = @ + 1]

ToDeadNever(job) == FALSE
ToDeadEarly(job) == job.attempts + 1 >= MaxRetries

(* Which of the two lists Retry pushes to, given the counted job.          *)
ToDead(job) == job.attempts >= MaxRetries

Ids(list) == {list[i].id : i \in 1..Len(list)}
=============================================================================
