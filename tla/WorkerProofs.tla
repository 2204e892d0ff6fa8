---------------------------- MODULE WorkerProofs ----------------------------
(***************************************************************************)
(* Theorems about the delivery pool (Worker), for every number of workers, *)
(* jobs, clients and recipients, every MaxRetries and every SdkAttempts.   *)
(***************************************************************************)
EXTENDS Worker, SequenceTheorems, FiniteSetTheorems, TLAPS

(* A job with an attempt left, and one without.                            *)
Fresh == {job \in Job : job.attempts < MaxRetries}
Spent == {job \in Job : job.attempts = MaxRetries}

-----------------------------------------------------------------------------
(* What the operations on the Redis lists and on jobs return.              *)

LEMMA PopFacts ==
  ASSUME NEW S, NEW list \in Seq(S), list # <<>>
  PROVE  /\ Len(list) \in 1..Len(list)
         /\ Popped(list) \in S
         /\ AfterPop(list) \in Seq(S)
         /\ Len(AfterPop(list)) = Len(list) - 1
         /\ \A i \in 1..(Len(list) - 1) : AfterPop(list)[i] = list[i]
<1>1. Len(list) \in Nat /\ Len(list) # 0
  BY EmptySeq, LenProperties
<1>2. Len(list) \in 1..Len(list) /\ list[Len(list)] \in S
  BY <1>1, ElementOfSeq
<1>3. \A i \in 1..(Len(list) - 1) : list[i] \in S
  BY <1>1, ElementOfSeq
<1>4. /\ AfterPop(list) \in Seq(S)
      /\ Len(AfterPop(list)) = IF 1 <= Len(list) - 1 THEN Len(list) - 1 - 1 + 1 ELSE 0
      /\ \A i \in 1..(Len(list) - 1 - 1 + 1) : AfterPop(list)[i] = list[1 + i - 1]
  <2>1. 1 \in Int /\ Len(list) - 1 \in Int
    BY <1>1
  <2> QED
    BY <1>3, <2>1, SubSeqProperties DEF AfterPop
<1>5. Len(AfterPop(list)) = Len(list) - 1
  <2>1. Len(AfterPop(list)) = IF 1 <= Len(list) - 1 THEN Len(list) - 1 - 1 + 1 ELSE 0
    BY <1>4
  <2>2. \A n \in Nat \ {0} : (IF 1 <= n - 1 THEN n - 1 - 1 + 1 ELSE 0) = n - 1
    OBVIOUS
  <2> QED
    BY <1>1, <2>1, <2>2
<1>6. \A i \in 1..(Len(list) - 1) : AfterPop(list)[i] = list[i]
  BY <1>1, <1>4
<1> QED
  BY <1>2, <1>4, <1>5, <1>6 DEF Popped

LEMMA PushFacts ==
  ASSUME NEW S, NEW list \in Seq(S), NEW job \in S
  PROVE  /\ RPush(list, job) \in Seq(S)
         /\ Len(RPush(list, job)) = Len(list) + 1
         /\ \A i \in 1..Len(list) : RPush(list, job)[i] = list[i]
         /\ RPush(list, job)[Len(list) + 1] = job
         /\ LPush(list, job) \in Seq(S)
         /\ Len(LPush(list, job)) = Len(list) + 1
         /\ LPush(list, job)[1] = job
         /\ \A i \in 2..(Len(list) + 1) : LPush(list, job)[i] = list[i - 1]
<1>1. <<job>> \in Seq(S) /\ Len(<<job>>) = 1 /\ <<job>>[1] = job
  OBVIOUS
<1>2. Len(list) \in Nat
  BY LenProperties
<1>3. /\ LPush(list, job) \in Seq(S)
      /\ Len(LPush(list, job)) = Len(list) + 1
      /\ LPush(list, job)[1] = job
      /\ \A i \in 2..(Len(list) + 1) : LPush(list, job)[i] = list[i - 1]
  BY <1>1, <1>2, ConcatProperties DEF LPush
<1> QED
  BY <1>2, <1>3, AppendProperties DEF RPush

(* The same, one fact at a time, for the two lists as the pool keeps them. *)
LEMMA LPushHead ==
  ASSUME NEW list \in Seq(Fresh), NEW job \in Fresh
  PROVE  LPush(list, job)[1] = job
  BY PushFacts

LEMMA LPushLen ==
  ASSUME NEW list \in Seq(Fresh), NEW job \in Fresh
  PROVE  LPush(list, job) \in Seq(Fresh) /\ Len(LPush(list, job)) = Len(list) + 1
  BY PushFacts

LEMMA LPushShifts ==
  ASSUME NEW list \in Seq(Fresh), NEW job \in Fresh
  PROVE  \A i \in 2..(Len(list) + 1) : LPush(list, job)[i] = list[i - 1]
  BY PushFacts

LEMMA RPushTail ==
  ASSUME NEW S, NEW list \in Seq(S), NEW job \in S
  PROVE  Len(RPush(list, job)) = Len(list) + 1 /\ RPush(list, job)[Len(list) + 1] = job
  BY PushFacts

LEMMA RPushKeeps ==
  ASSUME NEW S, NEW list \in Seq(S), NEW job \in S
  PROVE  \A i \in 1..Len(list) : RPush(list, job)[i] = list[i]
  BY PushFacts

(* The counter of a job stays within MaxRetries, and Retry and run agree   *)
(* on when it is used up.                                                  *)
LEMMA JobFacts ==
  /\ \A j \in JobIds : /\ NewJob(j) \in Fresh /\ NewJob(j).attempts = 0
                       /\ NewJob(j).id = j /\ Key(NewJob(j)) = <<j, 0>>
  /\ \A job \in Fresh : /\ Retried(job) \in Job
                        /\ Retried(job).id = job.id /\ Key(Retried(job)) = Key(job)
                        /\ Retried(job).attempts = job.attempts + 1
                        /\ ToDead(Retried(job)) => Retried(job) \in Spent
                        /\ ~ToDead(Retried(job)) => Retried(job) \in Fresh
                        /\ Exhausted(Retried(job)) <=> ToDead(Retried(job))
  /\ Fresh \subseteq Job /\ Spent \subseteq Job
  /\ \A job \in Job : job.id \in JobIds /\ Key(job) \in Keys /\ Key(job)[1] = job.id
  /\ NoJob \notin Job
<1>1. /\ \A j \in JobIds : NewJob(j) \in Fresh /\ NewJob(j).attempts = 0 /\ NewJob(j).id = j
      /\ Fresh \subseteq Job /\ Spent \subseteq Job /\ NoJob \notin Job
  BY MaxRetriesAssumption, MaxResendsAssumption, WorkerAssumption
  DEF NewJob, Job, Fresh, Spent
<1>2. /\ \A j \in JobIds : Key(NewJob(j)) = <<j, 0>>
      /\ \A job \in Job : job.id \in JobIds /\ Key(job) \in Keys /\ Key(job)[1] = job.id
  BY DEF NewJob, Key, Keys, Job
<1>3. ASSUME NEW job \in Fresh
      PROVE  /\ Retried(job) \in Job
             /\ Retried(job).id = job.id /\ Key(Retried(job)) = Key(job)
             /\ Retried(job).attempts = job.attempts + 1
             /\ ToDead(Retried(job)) => Retried(job) \in Spent
             /\ ~ToDead(Retried(job)) => Retried(job) \in Fresh
             /\ Exhausted(Retried(job)) <=> ToDead(Retried(job))
  BY MaxRetriesAssumption DEF Job, Key, Retried, Fresh, Spent, ToDead, Exhausted
<1> QED
  BY <1>1, <1>2, <1>3

(* A repeated push carries the same attempts under a number of its own.    *)
LEMMA ResentFacts ==
  ASSUME NEW job \in Fresh, NEW c \in 0..MaxResends
  PROVE  /\ Resent(job, c) \in Fresh
         /\ Resent(job, c).id = job.id /\ Resent(job, c).attempts = job.attempts
         /\ Key(Resent(job, c)) = <<job.id, c>>
  BY DEF Resent, Fresh, Job, Key

LEMMA StatusFacts ==
  /\ \A old \in Statuses \cup {"none"}, new \in {"sent", "failed"} :
       StatusAfter(old, new) \in Statuses
  /\ "queued" \in Statuses
  BY DEF Statuses, StatusAfter, OpenKeeps
-----------------------------------------------------------------------------
(* The type invariant is not inductive: Retry adds one to a counter whose  *)
(* type ends at MaxRetries.  What makes it so is that a waiting job, and a *)
(* job a worker may still retry, has an attempt left.                      *)

ListsOK == queue \in Seq(Fresh) /\ dead \in Seq(Spent)

HandOK(w) ==
  /\ pc[w] \in PC
  /\ pc[w] \in {"pop", "stopped"} => held[w] = NoJob
  /\ pc[w] = "exhaust" => held[w] \in Spent
  /\ pc[w] \in PC \ {"pop", "stopped", "exhaust"} => held[w] \in Fresh

HandsOK ==
  /\ pc \in [Workers -> PC] /\ held \in [Workers -> Job \cup {NoJob}]
  /\ \A w \in Workers : HandOK(w)

RowsOK ==
  /\ status \in [JobIds -> Statuses \cup {"none"}] /\ msgId \subseteq JobIds
  /\ blacklist \subseteq Clients \X Addrs /\ sentStat \in [Clients -> Nat]

SetsOK ==
  /\ todo \in [Workers -> SUBSET Addrs] /\ valid \in [Workers -> SUBSET Addrs]
  /\ listed \in [Workers -> SUBSET Addrs]

FlagsOK == begun \in [Workers -> BOOLEAN] /\ ctxDone \in BOOLEAN

LocalOK == SetsOK /\ FlagsOK /\ stops \in 0..MaxStops

HistoryOK ==
  /\ resent \in [JobIds -> 0..MaxResends]
  /\ tries \in [Keys -> Nat] /\ accepted \in [Keys -> Nat]
  /\ refused \subseteq Keys /\ faulted \subseteq JobIds

AttemptsInv == ListsOK /\ HandsOK /\ RowsOK /\ LocalOK /\ HistoryOK

LEMMA AttemptsInit == Init => AttemptsInv
<1> SUFFICES ASSUME Init PROVE AttemptsInv
  OBVIOUS
<1>1. ListsOK
  BY EmptySeq DEF Init, ListsOK
<1>2. HandsOK
  BY DEF Init, HandsOK, HandOK, PC
<1>3. RowsOK
  BY DEF Init, RowsOK
<1>4. LocalOK
  <2>1. SetsOK
    BY DEF Init, SetsOK
  <2>2. FlagsOK
    BY DEF Init, FlagsOK
  <2>3. stops \in 0..MaxStops
    BY WorkerAssumption DEF Init
  <2> QED
    BY <2>1, <2>2, <2>3 DEF LocalOK
<1>5. HistoryOK
  BY MaxResendsAssumption DEF Init, HistoryOK
<1> QED
  BY <1>1, <1>2, <1>3, <1>4, <1>5 DEF AttemptsInv

(* The job of a worker that is not at the head of run's loop.              *)
LEMMA HeldFacts ==
  ASSUME AttemptsInv, NEW w \in Workers, pc[w] \notin {"pop", "stopped"}
  PROVE  /\ held[w] \in Job /\ held[w] # NoJob /\ held[w].id \in JobIds
         /\ Key(held[w]) \in Keys
         /\ Owner[held[w].id] \in Clients
  BY JobFacts, WorkerAssumption DEF AttemptsInv, HandsOK, HandOK, PC

LEMMA AttemptsStep == AttemptsInv /\ [Next]_vars => AttemptsInv'
<1> SUFFICES ASSUME AttemptsInv, [Next]_vars PROVE AttemptsInv'
  OBVIOUS
<1> USE DEF AttemptsInv
<1>1. ASSUME NEW j \in JobIds, Submit(j) PROVE AttemptsInv'
  <2>1. ListsOK'
    BY <1>1, JobFacts, LPushLen DEF Submit, ListsOK
  <2>2. HandsOK' /\ LocalOK' /\ HistoryOK'
    BY <1>1 DEF Submit, HandsOK, HandOK, LocalOK, SetsOK, FlagsOK, HistoryOK, local, history
  <2>3. RowsOK'
    BY <1>1, StatusFacts DEF Submit, RowsOK
  <2> QED
    BY <2>1, <2>2, <2>3
<1>2. ASSUME NEW c \in Clients, NEW a \in Addrs, List(c, a) PROVE AttemptsInv'
  <2>1. ListsOK' /\ HandsOK' /\ LocalOK' /\ HistoryOK'
    BY <1>2
    DEF List, ListsOK, HandsOK, HandOK, LocalOK, SetsOK, FlagsOK, HistoryOK, redis, local, history
  <2>2. RowsOK'
    BY <1>2 DEF List, RowsOK
  <2> QED
    BY <2>1, <2>2
<1>3. ASSUME NEW w \in Workers, Pop(w) PROVE AttemptsInv'
  <2>1. /\ Popped(queue) \in Fresh /\ Popped(queue).id \in JobIds
        /\ Key(Popped(queue)) \in Keys
    BY <1>3, PopFacts, JobFacts DEF Pop, ListsOK
  <2>2. ListsOK'
    BY <1>3, PopFacts DEF Pop, ListsOK
  <2>3. HandsOK'
    BY <1>3, <2>1, JobFacts DEF Pop, Goto, HandsOK, HandOK, PC
  <2>4. RowsOK'
    BY <1>3 DEF Pop, RowsOK, db
  <2>5. LocalOK'
    <3>1. SetsOK'
      BY <1>3, <2>1, WorkerAssumption DEF Pop, LocalOK, SetsOK
    <3>2. FlagsOK' /\ UNCHANGED stops
      BY <1>3 DEF Pop, Goto, LocalOK, FlagsOK
    <3> QED
      BY <3>1, <3>2 DEF LocalOK
  <2>6. HistoryOK'
    BY <1>3, <2>1 DEF Pop, HistoryOK
  <2> QED
    BY <2>2, <2>3, <2>4, <2>5, <2>6
<1>4. ASSUME NEW w \in Workers, PopLost(w) PROVE AttemptsInv'
  <2>1. Popped(queue) \in Fresh /\ Popped(queue).id \in JobIds
    BY <1>4, PopFacts, JobFacts DEF PopLost, ListsOK
  <2>2. ListsOK'
    BY <1>4, PopFacts DEF PopLost, ListsOK
  <2>3. HandsOK'
    BY <1>4 DEF PopLost, Goto, HandsOK, HandOK, PC
  <2>4. RowsOK' /\ LocalOK' /\ HistoryOK'
    BY <1>4, <2>1 DEF PopLost, Goto, RowsOK, LocalOK, SetsOK, FlagsOK, HistoryOK, db
  <2> QED
    BY <2>2, <2>3, <2>4
<1>5. ASSUME NEW w \in Workers, Stop(w) PROVE AttemptsInv'
  <2>1. HandsOK'
    BY <1>5 DEF Stop, Goto, HandsOK, HandOK, PC
  <2>2. ListsOK' /\ RowsOK' /\ LocalOK' /\ HistoryOK'
    BY <1>5
    DEF Stop, Goto, ListsOK, RowsOK, LocalOK, SetsOK, FlagsOK, HistoryOK, redis, db, history
  <2> QED
    BY <2>1, <2>2
<1>6. ASSUME NEW w \in Workers, Lookup(w) PROVE AttemptsInv'
  <2>1. HandsOK'
    BY <1>6 DEF Lookup, Goto, HandsOK, HandOK, PC
  <2>2. LocalOK'
    <3>1. PICK a \in todo[w] :
            /\ todo' = [todo EXCEPT ![w] = @ \ {a}]
            /\ valid' = [valid EXCEPT ![w] = IF IsListed(held[w].id, a)
                                            THEN valid[w] ELSE valid[w] \cup {a}]
            /\ begun' = [begun EXCEPT ![w] = FALSE]
      BY <1>6 DEF Lookup, Goto
    <3>2. SetsOK'
      BY <1>6, <3>1 DEF Lookup, LocalOK, SetsOK, history
    <3>3. FlagsOK' /\ UNCHANGED stops
      BY <1>6, <3>1 DEF Lookup, LocalOK, FlagsOK
    <3> QED
      BY <3>2, <3>3 DEF LocalOK
  <2>3. ListsOK' /\ RowsOK' /\ HistoryOK'
    BY <1>6 DEF Lookup, ListsOK, RowsOK, HistoryOK, redis, db, history
  <2> QED
    BY <2>1, <2>2, <2>3
<1>7. ASSUME NEW w \in Workers, LookupFails(w) PROVE AttemptsInv'
  <2>1. HandsOK'
    BY <1>7 DEF LookupFails, Goto, HandsOK, HandOK, PC
  <2>2. ListsOK' /\ RowsOK' /\ LocalOK' /\ HistoryOK'
    BY <1>7
    DEF LookupFails, Goto, ListsOK, RowsOK, LocalOK, SetsOK, FlagsOK, HistoryOK, redis, db, history
  <2> QED
    BY <2>1, <2>2
<1>8. ASSUME NEW w \in Workers, MarkFailed(w) PROVE AttemptsInv'
  <2>1. held[w].id \in JobIds
    BY <1>8, HeldFacts DEF MarkFailed
  <2>2. HandsOK'
    BY <1>8 DEF MarkFailed, Drop, Goto, HandsOK, HandOK, PC
  <2>3. RowsOK'
    BY <1>8, <2>1, StatusFacts DEF MarkFailed, RowsOK
  <2>4. ListsOK' /\ LocalOK' /\ HistoryOK'
    BY <1>8, <2>1
    DEF MarkFailed, Drop, Goto, Fault, ListsOK, LocalOK, SetsOK, FlagsOK, HistoryOK, redis
  <2> QED
    BY <2>2, <2>3, <2>4
<1>9. ASSUME NEW w \in Workers, SendOk(w) PROVE AttemptsInv'
  <2>1. HandsOK'
    BY <1>9 DEF SendOk, Goto, HandsOK, HandOK, PC
  <2>2. HistoryOK'
    BY <1>9, HeldFacts, WorkerAssumption DEF SendOk, HistoryOK
  <2>3. ListsOK' /\ RowsOK' /\ LocalOK'
    BY <1>9 DEF SendOk, Goto, ListsOK, RowsOK, LocalOK, SetsOK, FlagsOK, redis, db
  <2> QED
    BY <2>1, <2>2, <2>3
<1>10. ASSUME NEW w \in Workers, SendFails(w) PROVE AttemptsInv'
  <2>1. Key(held[w]) \in Keys
    BY <1>10, HeldFacts DEF SendFails
  <2>2. HandsOK'
    BY <1>10 DEF SendFails, Goto, HandsOK, HandOK, PC
  <2>3. HistoryOK'
    BY <1>10, <2>1, WorkerAssumption DEF SendFails, HistoryOK
  <2>4. ListsOK' /\ RowsOK' /\ LocalOK'
    BY <1>10 DEF SendFails, Goto, ListsOK, RowsOK, LocalOK, SetsOK, FlagsOK, redis, db
  <2> QED
    BY <2>2, <2>3, <2>4
<1>11. ASSUME NEW w \in Workers, SetMessageId(w) PROVE AttemptsInv'
  <2>1. HandsOK'
    BY <1>11 DEF SetMessageId, Goto, HandsOK, HandOK, PC
  <2>2. held[w].id \in JobIds
    BY <1>11, HeldFacts DEF SetMessageId
  <2>3. RowsOK'
    BY <1>11, <2>2 DEF SetMessageId, RowsOK
  <2>4. ListsOK' /\ LocalOK' /\ HistoryOK'
    BY <1>11 DEF SetMessageId, Goto, ListsOK, LocalOK, SetsOK, FlagsOK, HistoryOK, redis, history
  <2> QED
    BY <2>1, <2>3, <2>4
<1>12. ASSUME NEW w \in Workers, MarkSent(w) PROVE AttemptsInv'
  <2>1. HandsOK'
    BY <1>12 DEF MarkSent, AfterMark, Goto, HandsOK, HandOK, PC
  <2>2. RowsOK'
    BY <1>12, HeldFacts, StatusFacts DEF MarkSent, RowsOK
  <2>3. ListsOK' /\ LocalOK' /\ HistoryOK'
    BY <1>12 DEF MarkSent, AfterMark, Goto, ListsOK, LocalOK, SetsOK, FlagsOK, HistoryOK, redis, history
  <2> QED
    BY <2>1, <2>2, <2>3
<1>13. ASSUME NEW w \in Workers, Count(w) PROVE AttemptsInv'
  <2>1. HandsOK'
    BY <1>13 DEF Count, Drop, Goto, HandsOK, HandOK, PC
  <2>2. RowsOK'
    BY <1>13, HeldFacts DEF Count, RowsOK
  <2>3. ListsOK' /\ LocalOK' /\ HistoryOK'
    BY <1>13 DEF Count, Drop, Goto, ListsOK, LocalOK, SetsOK, FlagsOK, HistoryOK, redis
  <2> QED
    BY <2>1, <2>2, <2>3
<1>14. ASSUME NEW w \in Workers, Requeue(w) PROVE AttemptsInv'
  <2> DEFINE job == Retried(held[w])
  <2>1. held[w] \in Fresh /\ held[w].id \in JobIds
    BY <1>14, HeldFacts DEF Requeue, HandsOK, HandOK, PC
  <2>2. /\ job \in Job
        /\ ToDead(job) => job \in Spent
        /\ ~ToDead(job) => job \in Fresh
        /\ Exhausted(job) <=> ToDead(job)
    BY <2>1, JobFacts
  <2>3. ListsOK'
    <3>1. CASE ToDead(job)
      BY <1>14, <2>2, <3>1, PushFacts DEF Requeue, ListsOK
    <3>2. CASE ~ToDead(job)
      BY <1>14, <2>2, <3>2, PushFacts DEF Requeue, ListsOK
    <3> QED
      BY <3>1, <3>2
  <2>4. HandsOK'
    <3>1. CASE Exhausted(job)
      BY <1>14, <2>2, <3>1 DEF Requeue, Goto, HandsOK, HandOK, PC
    <3>2. CASE ~Exhausted(job)
      BY <1>14, <3>2 DEF Requeue, Drop, Goto, HandsOK, HandOK, PC
    <3> QED
      BY <3>1, <3>2
  <2>5. LocalOK'
    BY <1>14 DEF Requeue, Drop, Goto, LocalOK, SetsOK, FlagsOK
  <2>6. RowsOK' /\ HistoryOK'
    BY <1>14, <2>1 DEF Requeue, Fault, RowsOK, HistoryOK, db
  <2> QED
    BY <2>3, <2>4, <2>5, <2>6
<1>15. CASE Shutdown
  <2>1. ListsOK' /\ HandsOK' /\ RowsOK' /\ HistoryOK' /\ SetsOK'
    BY <1>15 DEF Shutdown, ListsOK, HandsOK, HandOK, RowsOK, LocalOK, SetsOK,
                 HistoryOK, redis, db, history
  <2>2. FlagsOK'
    BY <1>15 DEF Shutdown, FlagsOK
  <2>3. (stops \in 0..MaxStops)'
    BY <1>15, WorkerAssumption DEF Shutdown, LocalOK
  <2> QED
    BY <2>1, <2>2, <2>3 DEF LocalOK
<1>16. CASE Restart
  <2>1. HandsOK'
    BY <1>16 DEF Restart, FreshPool, HandsOK, HandOK, PC
  <2>2. ListsOK' /\ RowsOK' /\ LocalOK' /\ HistoryOK'
    BY <1>16
    DEF Restart, FreshPool, ListsOK, RowsOK, LocalOK, SetsOK, FlagsOK, HistoryOK, redis, db
  <2> QED
    BY <2>1, <2>2
<1>17. CASE Kill
  <2>1. HandsOK'
    BY <1>17 DEF Kill, FreshPool, HandsOK, HandOK, PC
  <2>2. ListsOK' /\ RowsOK' /\ LocalOK'
    <3>1. ListsOK' /\ RowsOK' /\ SetsOK' /\ FlagsOK'
      BY <1>17 DEF Kill, FreshPool, ListsOK, RowsOK, SetsOK, FlagsOK, redis, db
    <3>2. (stops \in 0..MaxStops)'
      BY <1>17, WorkerAssumption DEF Kill, LocalOK
    <3> QED
      BY <3>1, <3>2 DEF LocalOK
  <2>3. HistoryOK'
    BY <1>17, JobFacts DEF Kill, HistoryOK, HandsOK
  <2> QED
    BY <2>1, <2>2, <2>3
<1>19. ASSUME NEW j \in JobIds, PushAgain(j) PROVE AttemptsInv'
  <2>1. resent[j] + 1 \in 0..MaxResends
    BY <1>19, MaxResendsAssumption DEF PushAgain, HistoryOK
  <2>2. Resent(NewJob(j), resent[j] + 1) \in Fresh
    BY <2>1, JobFacts, ResentFacts
  <2>3. ListsOK'
    BY <1>19, <2>2, LPushLen DEF PushAgain, ListsOK
  <2>4. HandsOK' /\ RowsOK' /\ LocalOK'
    BY <1>19 DEF PushAgain, HandsOK, HandOK, RowsOK, LocalOK, SetsOK, FlagsOK, db, local
  <2>5. HistoryOK'
    BY <1>19, <2>1 DEF PushAgain, HistoryOK, local
  <2> QED
    BY <2>3, <2>4, <2>5
<1>20. ASSUME NEW w \in Workers, PushTwice(w) PROVE AttemptsInv'
  <2> DEFINE job == Retried(held[w])
             next == Resent(held[w], resent[job.id] + 1)
  <2>1. held[w] \in Fresh /\ held[w].id \in JobIds /\ Key(held[w]) \in Keys
    BY <1>20, HeldFacts DEF PushTwice, HandsOK, HandOK, PC
  <2>2. /\ ToDead(job) => job \in Spent
        /\ ~ToDead(job) => job \in Fresh
        /\ job.id = held[w].id /\ Key(job) \in Keys
    BY <2>1, JobFacts
  <2>3. resent[job.id] + 1 \in 0..MaxResends
    BY <1>20, <2>1, <2>2, MaxResendsAssumption DEF PushTwice, HistoryOK
  <2>4. next \in Fresh /\ Key(next) \in Keys
    BY <2>1, <2>3, JobFacts, ResentFacts
  <2>5. ListsOK'
    <3>1. CASE ToDead(job)
      BY <1>20, <2>2, <3>1, PushFacts DEF PushTwice, ListsOK
    <3>2. CASE ~ToDead(job)
      BY <1>20, <2>2, <3>2, PushFacts DEF PushTwice, ListsOK
    <3> QED
      BY <3>1, <3>2
  <2>6. HandsOK'
    BY <1>20, <2>4, JobFacts DEF PushTwice, Goto, HandsOK, HandOK, PC
  <2>7. RowsOK' /\ LocalOK'
    BY <1>20 DEF PushTwice, Goto, RowsOK, LocalOK, SetsOK, FlagsOK, db
  <2>8. HistoryOK'
    BY <1>20, <2>1, <2>2, <2>3, <2>4 DEF PushTwice, HistoryOK
  <2> QED
    BY <2>5, <2>6, <2>7, <2>8
<1>18. CASE UNCHANGED vars
  BY <1>18 DEF vars, redis, db, local, history, ListsOK, HandsOK, HandOK, RowsOK,
               LocalOK, SetsOK, FlagsOK, HistoryOK
<1> QED
  BY <1>1, <1>2, <1>3, <1>4, <1>5, <1>6, <1>7, <1>8, <1>9, <1>10, <1>11, <1>12,
     <1>13, <1>14, <1>15, <1>16, <1>17, <1>18, <1>19, <1>20
  DEF Next, Step

LEMMA AttemptsTypes == AttemptsInv => TypeOK
  BY JobFacts, SeqMonotonic
  DEF AttemptsInv, ListsOK, HandsOK, RowsOK, LocalOK, SetsOK, FlagsOK, HistoryOK, TypeOK

LEMMA AttemptsDead == AttemptsInv => DeadIsExhausted
  BY ElementOfSeq DEF AttemptsInv, ListsOK, Fresh, Spent, DeadIsExhausted

(* The invariant of the attempt counters holds in every reachable state.   *)
THEOREM AttemptsAlways == Spec => []AttemptsInv
  BY AttemptsInit, AttemptsStep, PTL DEF Spec

(* The types of all of the pool's state, in particular that no job, in a   *)
(* list or in a worker's hand, was counted beyond MaxRetries.              *)
THEOREM TypeCorrect == Spec => []TypeOK
  BY AttemptsAlways, AttemptsTypes, PTL

(* Retry and run agree on when a job is exhausted (queue.go 83-93, main.go *)
(* 166-178): the dead letters used up exactly MaxRetries attempts, and no  *)
(* waiting job has.                                                        *)
THEOREM DeadLettersExhausted == Spec => []DeadIsExhausted
  BY AttemptsAlways, AttemptsDead, PTL

-----------------------------------------------------------------------------
(* Every payload is in one place, and the copies SES accepted of it fit in *)
(* the attempts it was counted for.  The second needs the first: two       *)
(* workers with the same payload would each add copies to one attempt.     *)

(* The worker may still send the job in its hand or push it to a list.     *)
Carrying(w) == pc[w] \notin {"pop", "stopped", "exhaust"}
BeforeSend(w) == pc[w] \in {"filter", "send"}

(* The payloads that were pushed: the job has a row, the number was used.  *)
Issued == {k \in Keys : status[k[1]] # "none" /\ k[2] <= resent[k[1]]}

QueueApart == \A i, k \in 1..Len(queue) : Key(queue[i]) = Key(queue[k]) => i = k
DeadApart == \A i, k \in 1..Len(dead) : Key(dead[i]) = Key(dead[k]) => i = k
ListsApart ==
  \A i \in 1..Len(queue), k \in 1..Len(dead) : Key(queue[i]) # Key(dead[k])
HandsApart ==
  \A w \in Workers : Carrying(w) =>
    /\ \A i \in 1..Len(queue) : Key(queue[i]) # Key(held[w])
    /\ \A i \in 1..Len(dead) : Key(dead[i]) # Key(held[w])
    /\ \A v \in Workers : Carrying(v) /\ Key(held[v]) = Key(held[w]) => v = w

(* Only issued payloads are anywhere, so a new one is in no other place.   *)
Known ==
  /\ \A i \in 1..Len(queue) : Key(queue[i]) \in Issued
  /\ \A i \in 1..Len(dead) : Key(dead[i]) \in Issued
  /\ \A w \in Workers : held[w] # NoJob => Key(held[w]) \in Issued

Places == QueueApart /\ DeadApart /\ ListsApart /\ HandsApart /\ Known

(* The copies that n attempts may cause.                                   *)
Budget(n) == n * SdkAttempts

Counts ==
  /\ \A k \in Keys : /\ k \notin Issued => tries[k] = 0
                     /\ tries[k] <= MaxRetries
                     /\ accepted[k] <= Budget(tries[k])
  /\ \A i \in 1..Len(queue) : queue[i].attempts = tries[Key(queue[i])]
  /\ \A w \in Workers : Carrying(w) =>
       /\ tries[Key(held[w])] = held[w].attempts + 1
       /\ BeforeSend(w) => accepted[Key(held[w])] <= Budget(held[w].attempts)

BudgetInv == AttemptsInv /\ Places /\ Counts

LEMMA BudgetFacts ==
  /\ Budget(0) = 0
  /\ \A n \in Nat : Budget(n) \in Nat /\ Budget(n + 1) = Budget(n) + SdkAttempts
  /\ \A m, n \in Nat : m <= n => Budget(m) <= Budget(n)
<1>1. SdkAttempts \in Nat
  BY WorkerAssumption
<1>2. \A m, n \in Nat : m <= n => m * SdkAttempts <= n * SdkAttempts
  BY <1>1
<1> QED
  BY <1>1, <1>2 DEF Budget

LEMMA BudgetInit == Init => BudgetInv
<1> SUFFICES ASSUME Init PROVE BudgetInv
  OBVIOUS
<1>1. Len(queue) = 0 /\ Len(dead) = 0
  BY EmptySeq DEF Init
<1>2. Places
  BY <1>1 DEF Init, Places, QueueApart, DeadApart, ListsApart, HandsApart, Known, Carrying
<1>3. Counts
  BY <1>1, BudgetFacts, MaxRetriesAssumption DEF Init, Counts, Carrying
<1> QED
  BY <1>2, <1>3, AttemptsInit DEF BudgetInv

(* The payloads that are anywhere have keys, and a row and a number once   *)
(* used stay used.                                                         *)
LEMMA KeyTypes ==
  ASSUME AttemptsInv
  PROVE  /\ \A i \in 1..Len(queue) : queue[i] \in Fresh /\ Key(queue[i]) \in Keys
         /\ \A i \in 1..Len(dead) : dead[i] \in Spent /\ Key(dead[i]) \in Keys
         /\ \A w \in Workers : held[w] # NoJob => Key(held[w]) \in Keys
         /\ \A w \in Workers : Carrying(w) => held[w] \in Fresh /\ held[w] # NoJob
         /\ Len(queue) \in Nat /\ Len(dead) \in Nat
  BY JobFacts, ElementOfSeq, LenProperties
  DEF AttemptsInv, ListsOK, HandsOK, HandOK, Carrying, PC

LEMMA StaysIssued ==
  ASSUME AttemptsInv, AttemptsInv',
         \A j \in JobIds : status'[j] = "none" => status[j] = "none",
         \A j \in JobIds : resent[j] <= resent'[j]
  PROVE  Issued \subseteq Issued'
<1> SUFFICES ASSUME NEW k \in Issued PROVE k \in Issued'
  OBVIOUS
<1>1. k \in Keys /\ k[1] \in JobIds /\ k[2] \in Nat
  BY MaxResendsAssumption DEF Issued, Keys
<1>2. resent[k[1]] \in Nat /\ resent'[k[1]] \in Nat
  BY <1>1, MaxResendsAssumption DEF AttemptsInv, HistoryOK
<1> QED
  BY <1>1, <1>2 DEF Issued

(* A step that changes neither the lists nor the counts, in which a worker *)
(* keeps its job or lets go of it, and no row goes.                        *)
Quiet ==
  /\ UNCHANGED <<queue, dead, resent, tries, accepted>>
  /\ \A j \in JobIds : status'[j] = "none" => status[j] = "none"
  /\ \A w \in Workers :
       \/ held'[w] = NoJob /\ ~Carrying(w)'
       \/ /\ held'[w] = held[w] /\ held[w] # NoJob
          /\ Carrying(w)' => Carrying(w)
          /\ BeforeSend(w)' => BeforeSend(w)

LEMMA QuietStep ==
  ASSUME AttemptsInv, AttemptsInv', Places, Counts, Quiet
  PROVE  Places' /\ Counts'
<1>1. /\ \A i \in 1..Len(queue) : Key(queue[i]) \in Keys
      /\ \A i \in 1..Len(dead) : Key(dead[i]) \in Keys
      /\ \A w \in Workers : held[w] # NoJob => Key(held[w]) \in Keys
  BY KeyTypes
<1>2. Issued \subseteq Issued'
  <2>1. \A j \in JobIds : resent[j] <= resent'[j]
    BY MaxResendsAssumption DEF Quiet, AttemptsInv, HistoryOK
  <2>2. \A j \in JobIds : status'[j] = "none" => status[j] = "none"
    BY DEF Quiet
  <2> QED
    BY <2>1, <2>2, StaysIssued
<1>3. QueueApart' /\ DeadApart' /\ ListsApart'
  BY DEF Places, QueueApart, DeadApart, ListsApart, Quiet
<1>4. HandsApart'
  BY DEF Places, HandsApart, Quiet
<1>5. Known'
  BY <1>1, <1>2 DEF Places, Known, Quiet
<1>6. Counts'
  BY <1>1, <1>2 DEF Counts, Quiet
<1> QED
  BY <1>3, <1>4, <1>5, <1>6 DEF Places

(* The actions that leave lists and counts alone are quiet.                *)
LEMMA QuietActions ==
  ASSUME AttemptsInv, Places
  PROVE  /\ \A c \in Clients, a \in Addrs : List(c, a) => Quiet
         /\ \A w \in Workers :
              Stop(w) \/ Lookup(w) \/ LookupFails(w) \/ MarkFailed(w)
                \/ SetMessageId(w) \/ MarkSent(w) \/ Count(w) => Quiet
         /\ Shutdown \/ Restart \/ Kill \/ UNCHANGED vars => Quiet
<1>1. \A w \in Workers :
        /\ held[w] = NoJob => ~Carrying(w)
        /\ pc[w] \notin {"pop", "stopped"} => held[w] # NoJob
        /\ pc[w] \in {"pop", "stopped"} => held[w] = NoJob
  BY JobFacts DEF AttemptsInv, HandsOK, HandOK, Carrying, PC
<1>2. pc \in [Workers -> PC] /\ held \in [Workers -> Job \cup {NoJob}]
  BY DEF AttemptsInv, HandsOK
<1>3. status \in [JobIds -> Statuses \cup {"none"}] /\ "none" \notin Statuses
  BY DEF AttemptsInv, RowsOK, Statuses
<1>4. \A c \in Clients, a \in Addrs : List(c, a) => Quiet
  BY <1>1 DEF List, Quiet, redis, local, history, Carrying, BeforeSend
<1>5. ASSUME NEW w \in Workers, Stop(w) \/ Lookup(w) \/ LookupFails(w) \/ SetMessageId(w)
      PROVE  Quiet
  BY <1>1, <1>2, <1>5
  DEF Stop, Lookup, LookupFails, SetMessageId, Goto, Quiet, redis, db, history,
      Carrying, BeforeSend
<1>6. ASSUME NEW w \in Workers, MarkFailed(w) PROVE Quiet
  BY <1>1, <1>2, <1>3, <1>6, StatusFacts
  DEF MarkFailed, Drop, Goto, Quiet, redis, Carrying, BeforeSend
<1>7. ASSUME NEW w \in Workers, MarkSent(w) PROVE Quiet
  BY <1>1, <1>2, <1>3, <1>7, StatusFacts
  DEF MarkSent, AfterMark, Goto, Quiet, redis, history, Carrying, BeforeSend
<1>8. ASSUME NEW w \in Workers, Count(w) PROVE Quiet
  BY <1>1, <1>2, <1>8
  DEF Count, Drop, Goto, Quiet, redis, Carrying, BeforeSend
<1>9. ASSUME Shutdown \/ Restart \/ Kill \/ UNCHANGED vars PROVE Quiet
  BY <1>1, <1>9
  DEF Shutdown, Restart, Kill, FreshPool, vars, Quiet, redis, db, local, history,
      Carrying, BeforeSend
<1> QED
  BY <1>4, <1>5, <1>6, <1>7, <1>8, <1>9

(* A push to the head of a payload that is in no other place.              *)
LEMMA HeadPush ==
  ASSUME AttemptsInv, Places, Counts, NEW job \in Fresh, job.attempts = 0,
         Key(job) \notin Issued, Key(job) \in Issued',
         Issued \subseteq Issued',
         queue' = LPush(queue, job),
         UNCHANGED <<dead, pc, held, tries, accepted>>
  PROVE  Places' /\ Counts'
<1>1. /\ queue \in Seq(Fresh) /\ Len(queue) \in Nat /\ Key(job) \in Keys
      /\ \A i \in 1..Len(queue) : Key(queue[i]) \in Keys
      /\ \A i \in 1..Len(dead) : Key(dead[i]) \in Keys
      /\ \A w \in Workers : held[w] # NoJob => Key(held[w]) \in Keys
      /\ \A w \in Workers : Carrying(w) => held[w] # NoJob
  BY KeyTypes, JobFacts DEF AttemptsInv, ListsOK
<1>2. /\ Len(queue') = Len(queue) + 1 /\ queue'[1] = job
      /\ \A i \in 2..(Len(queue) + 1) : queue'[i] = queue[i - 1]
  <2>1. \A i \in 2..(Len(queue) + 1) : LPush(queue, job)[i] = queue[i - 1]
    BY <1>1, LPushShifts
  <2> QED
    BY <1>1, <2>1, LPushLen, LPushHead
<1>3. \A i \in 1..Len(queue') :
        \/ i = 1 /\ queue'[i] = job
        \/ i # 1 /\ i - 1 \in 1..Len(queue) /\ queue'[i] = queue[i - 1]
  BY <1>1, <1>2
<1>4. /\ \A i \in 1..Len(queue) : Key(queue[i]) # Key(job)
      /\ \A i \in 1..Len(dead) : Key(dead[i]) # Key(job)
      /\ \A w \in Workers : held[w] # NoJob => Key(held[w]) # Key(job)
  BY DEF Places, Known
<1>5. QueueApart'
  <2> SUFFICES ASSUME NEW i \in 1..Len(queue'), NEW k \in 1..Len(queue'),
                      Key(queue'[i]) = Key(queue'[k])
               PROVE  i = k
    BY DEF QueueApart
  <2>1. CASE i = 1 \/ k = 1
    BY <1>3, <1>4, <2>1
  <2>2. CASE i # 1 /\ k # 1
    <3>1. /\ i - 1 \in 1..Len(queue) /\ queue'[i] = queue[i - 1]
          /\ k - 1 \in 1..Len(queue) /\ queue'[k] = queue[k - 1]
      BY <1>3, <2>2
    <3>2. i - 1 = k - 1
      BY <3>1 DEF Places, QueueApart
    <3>3. i \in Int /\ k \in Int
      BY <1>1, <1>2
    <3> QED
      BY <3>2, <3>3
  <2> QED
    BY <2>1, <2>2
<1>6. DeadApart' /\ ListsApart'
  <2>1. ASSUME NEW i \in 1..Len(queue'), NEW k \in 1..Len(dead)
        PROVE  Key(queue'[i]) # Key(dead[k])
    <3>1. CASE i = 1
      BY <1>3, <1>4, <3>1
    <3>2. CASE i # 1
      BY <1>3, <3>2 DEF Places, ListsApart
    <3> QED
      BY <3>1, <3>2
  <2> QED
    BY <2>1 DEF Places, DeadApart, ListsApart
<1>7. HandsApart'
  <2> SUFFICES ASSUME NEW w \in Workers, Carrying(w)'
               PROVE  /\ \A i \in 1..Len(queue') : Key(queue'[i]) # Key(held[w])
                      /\ \A i \in 1..Len(dead) : Key(dead[i]) # Key(held[w])
                      /\ \A v \in Workers :
                           Carrying(v)' /\ Key(held[v]) = Key(held[w]) => v = w
    BY DEF HandsApart
  <2>1. \A v \in Workers : Carrying(v)' => Carrying(v)
    BY DEF Carrying
  <2>2. Key(held[w]) # Key(job)
    BY <1>1, <1>4, <2>1
  <2>3. \A i \in 1..Len(queue') : Key(queue'[i]) # Key(held[w])
    BY <1>3, <2>1, <2>2 DEF Places, HandsApart
  <2> QED
    BY <2>1, <2>3 DEF Places, HandsApart
<1>8. Known'
  <2>1. \A i \in 1..Len(queue') : Key(queue'[i]) \in Issued'
    BY <1>1, <1>3 DEF Places, Known
  <2> QED
    BY <1>1, <2>1 DEF Places, Known
<1>9. Counts'
  <2>1. \A k \in Keys : /\ k \notin Issued' => tries[k] = 0
                        /\ tries[k] <= MaxRetries
                        /\ accepted[k] <= Budget(tries[k])
    BY DEF Counts
  <2>2. \A i \in 1..Len(queue') : queue'[i].attempts = tries[Key(queue'[i])]
    BY <1>1, <1>3 DEF Counts
  <2>3. ASSUME NEW w \in Workers, Carrying(w)'
        PROVE  /\ tries[Key(held[w])] = held[w].attempts + 1
               /\ BeforeSend(w)' => accepted[Key(held[w])] <= Budget(held[w].attempts)
    <3>1. Carrying(w) /\ (BeforeSend(w)' => BeforeSend(w))
      BY <2>3 DEF Carrying, BeforeSend
    <3> QED
      BY <3>1 DEF Counts
  <2> QED
    BY <2>1, <2>2, <2>3 DEF Counts
<1> QED
  BY <1>5, <1>6, <1>7, <1>8, <1>9 DEF Places

LEMMA BudgetStep == BudgetInv /\ [Next]_vars => BudgetInv'
<1> SUFFICES ASSUME BudgetInv, [Next]_vars PROVE Places' /\ Counts'
  BY AttemptsStep DEF BudgetInv
<1>1. AttemptsInv /\ Places /\ Counts /\ AttemptsInv'
  BY AttemptsStep DEF BudgetInv
<1>2. /\ \A i \in 1..Len(queue) : queue[i] \in Fresh /\ Key(queue[i]) \in Keys
      /\ \A i \in 1..Len(dead) : Key(dead[i]) \in Keys
      /\ \A w \in Workers : held[w] # NoJob => Key(held[w]) \in Keys
      /\ queue \in Seq(Fresh) /\ dead \in Seq(Spent)
      /\ Len(queue) \in Nat /\ Len(dead) \in Nat
  BY <1>1, KeyTypes DEF AttemptsInv, ListsOK
<1>3. /\ pc \in [Workers -> PC] /\ held \in [Workers -> Job \cup {NoJob}]
      /\ \A w \in Workers : Carrying(w) => held[w] \in Fresh /\ held[w] # NoJob
      /\ status \in [JobIds -> Statuses \cup {"none"}]
      /\ resent \in [JobIds -> 0..MaxResends]
      /\ tries \in [Keys -> Nat] /\ accepted \in [Keys -> Nat]
  BY <1>1, KeyTypes DEF AttemptsInv, HandsOK, RowsOK, HistoryOK
<1>4. ASSUME NEW j \in JobIds, Submit(j) \/ PushAgain(j) PROVE Places' /\ Counts'
  <2>1. /\ \A i \in JobIds : status'[i] = "none" => status[i] = "none"
        /\ \A i \in JobIds : resent[i] <= resent'[i]
    BY <1>3, <1>4, MaxResendsAssumption DEF Submit, PushAgain, db, history
  <2>2. Issued \subseteq Issued'
    BY <1>1, <2>1, StaysIssued
  <2>3. UNCHANGED <<dead, pc, held, tries, accepted>>
    BY <1>4 DEF Submit, PushAgain, local, history
  <2>4. CASE Submit(j)
    <3>1. /\ NewJob(j) \in Fresh /\ NewJob(j).attempts = 0 /\ Key(NewJob(j)) = <<j, 0>>
          /\ queue' = LPush(queue, NewJob(j))
      BY <2>4, JobFacts DEF Submit
    <3>2. <<j, 0>> \notin Issued /\ <<j, 0>> \in Issued'
      BY <1>3, <2>4, MaxResendsAssumption DEF Submit, Issued, Keys, history
    <3> QED
      BY <1>1, <2>2, <2>3, <3>1, <3>2, HeadPush
  <2>5. CASE PushAgain(j)
    <3> DEFINE job == Resent(NewJob(j), resent[j] + 1)
    <3>1. resent[j] + 1 \in 0..MaxResends /\ resent[j] \in Nat
      BY <1>3, <2>5, MaxResendsAssumption DEF PushAgain
    <3>2. /\ job \in Fresh /\ job.attempts = 0 /\ Key(job) = <<j, resent[j] + 1>>
          /\ queue' = LPush(queue, job)
      BY <2>5, <3>1, JobFacts, ResentFacts DEF PushAgain
    <3>3. <<j, resent[j] + 1>> \notin Issued /\ <<j, resent[j] + 1>> \in Issued'
      BY <1>3, <2>5, <3>1 DEF PushAgain, Issued, Keys, db
    <3>4. Key(job) \notin Issued /\ Key(job) \in Issued'
      BY <3>2, <3>3
    <3> HIDE DEF job
    <3> QED
      BY <1>1, <2>2, <2>3, <3>2, <3>4, HeadPush
  <2> QED
    BY <1>4, <2>4, <2>5
<1>5. ASSUME NEW w \in Workers, Pop(w) \/ PopLost(w)
      PROVE  /\ queue # <<>> /\ queue' = AfterPop(queue)
             /\ Len(queue') = Len(queue) - 1
             /\ \A i \in 1..(Len(queue) - 1) : queue'[i] = queue[i]
             /\ Len(queue) \in 1..Len(queue)
             /\ Popped(queue) = queue[Len(queue)] /\ Popped(queue) \in Fresh
             /\ Key(Popped(queue)) \in Keys
             /\ UNCHANGED <<dead, status, resent, accepted>>
  BY <1>2, <1>5, PopFacts, JobFacts DEF Pop, PopLost, Popped, db
<1>6. ASSUME NEW w \in Workers, Pop(w) PROVE Places' /\ Counts'
  <2> DEFINE job == Popped(queue)
  <2>1. /\ \A i \in 1..Len(queue') : i \in 1..Len(queue) /\ i # Len(queue)
                                      /\ queue'[i] = queue[i]
        /\ job = queue[Len(queue)] /\ Key(job) \in Keys /\ job \in Fresh
        /\ Len(queue) \in 1..Len(queue)
        /\ UNCHANGED <<dead, status, resent, accepted>>
    BY <1>2, <1>5, <1>6
  <2>2. /\ pc[w] = "pop" /\ pc' = [pc EXCEPT ![w] = "filter"]
        /\ held' = [held EXCEPT ![w] = job]
        /\ tries' = [tries EXCEPT ![Key(job)] = @ + 1]
    BY <1>6 DEF Pop, Goto
  <2>3. /\ \A i \in 1..Len(queue') : Key(queue'[i]) # Key(job)
        /\ \A i \in 1..Len(dead) : Key(dead[i]) # Key(job)
        /\ \A v \in Workers : Carrying(v) => Key(held[v]) # Key(job)
        /\ Key(job) \in Issued
        /\ tries[Key(job)] = job.attempts
    BY <1>1, <2>1 DEF Places, QueueApart, ListsApart, HandsApart, Known, Counts
  <2>4. QueueApart' /\ DeadApart' /\ ListsApart'
    <3>1. /\ \A i \in 1..Len(queue') : i \in 1..Len(queue) /\ queue'[i] = queue[i]
          /\ UNCHANGED dead
      BY <2>1
    <3> QED
      BY <1>1, <3>1 DEF Places, QueueApart, DeadApart, ListsApart
  <2>5. HandsApart'
    <3>1. /\ \A i \in 1..Len(queue') : i \in 1..Len(queue) /\ queue'[i] = queue[i]
          /\ UNCHANGED dead
      BY <2>1
    <3>2. /\ held'[w] = job
          /\ \A v \in Workers \ {w} : held'[v] = held[v] /\ (Carrying(v)' => Carrying(v))
      BY <1>3, <2>2 DEF Carrying
    <3>3. ASSUME NEW v \in Workers, Carrying(v)'
          PROVE  /\ \A i \in 1..Len(queue') : Key(queue'[i]) # Key(held'[v])
                 /\ \A i \in 1..Len(dead') : Key(dead'[i]) # Key(held'[v])
                 /\ \A u \in Workers :
                      Carrying(u)' /\ Key(held'[u]) = Key(held'[v]) => u = v
      <4>1. CASE v = w
        BY <2>3, <3>1, <3>2, <4>1
      <4>2. CASE v # w
        BY <1>1, <2>3, <3>1, <3>2, <3>3, <4>2 DEF Places, HandsApart
      <4> QED
        BY <4>1, <4>2
    <3> QED
      BY <3>3 DEF HandsApart
  <2>6. Known'
    <3>1. Issued' = Issued
      BY <2>1 DEF Issued
    <3>2. \A v \in Workers : held'[v] # NoJob => held'[v] = job \/ held'[v] = held[v]
      BY <1>3, <2>2
    <3> QED
      BY <1>1, <2>1, <2>3, <3>1, <3>2 DEF Places, Known
  <2>7. tries'[Key(job)] = job.attempts + 1 /\ job.attempts \in Nat
        /\ job.attempts + 1 <= MaxRetries
    BY <1>3, <2>1, <2>2, <2>3, MaxRetriesAssumption DEF Fresh, Job
  <2>8. accepted[Key(job)] <= Budget(job.attempts)
        /\ Budget(job.attempts) <= Budget(job.attempts + 1)
        /\ Budget(job.attempts) \in Nat /\ Budget(job.attempts + 1) \in Nat
    <3>1. accepted[Key(job)] <= Budget(tries[Key(job)])
      BY <1>1, <2>1 DEF Counts
    <3>2. /\ job.attempts + 1 \in Nat /\ job.attempts <= job.attempts + 1
      BY <2>7
    <3> QED
      BY <2>3, <2>7, <3>1, <3>2, BudgetFacts
  <2>9. \A k \in Keys : k # Key(job) => tries'[k] = tries[k]
    BY <1>3, <2>2
  <2>10. ASSUME NEW k \in Keys
         PROVE  /\ k \notin Issued' => tries'[k] = 0
                /\ tries'[k] <= MaxRetries
                /\ accepted'[k] <= Budget(tries'[k])
    <3>1. Issued' = Issued
      BY <2>1 DEF Issued
    <3>2. CASE k = Key(job)
      BY <1>3, <2>1, <2>3, <2>7, <2>8, <3>1, <3>2
    <3>3. CASE k # Key(job)
      BY <1>1, <2>1, <2>9, <3>1, <3>3 DEF Counts
    <3> QED
      BY <3>2, <3>3
  <2>11. \A i \in 1..Len(queue') : queue'[i].attempts = tries'[Key(queue'[i])]
    BY <1>1, <1>2, <2>1, <2>3, <2>9 DEF Counts
  <2>12. ASSUME NEW v \in Workers, Carrying(v)'
         PROVE  /\ tries'[Key(held'[v])] = held'[v].attempts + 1
                /\ BeforeSend(v)' => accepted'[Key(held'[v])] <= Budget(held'[v].attempts)
    <3>1. CASE v = w
      BY <1>3, <2>1, <2>2, <2>7, <2>8, <3>1
    <3>2. CASE v # w
      BY <1>1, <1>2, <1>3, <2>1, <2>2, <2>3, <2>9, <2>12, <3>2
      DEF Counts, Carrying, BeforeSend
    <3> QED
      BY <3>1, <3>2
  <2> QED
    BY <2>4, <2>5, <2>6, <2>10, <2>11, <2>12 DEF Places, Counts
<1>7. ASSUME NEW w \in Workers, PopLost(w) PROVE Places' /\ Counts'
  <2>1. /\ \A i \in 1..Len(queue') : i \in 1..Len(queue) /\ queue'[i] = queue[i]
        /\ UNCHANGED <<dead, status, resent, accepted>>
    BY <1>2, <1>5, <1>7
  <2>2. /\ UNCHANGED <<held, tries>>
        /\ \A v \in Workers : /\ Carrying(v)' => Carrying(v)
                              /\ BeforeSend(v)' => BeforeSend(v)
    BY <1>3, <1>7 DEF PopLost, Goto, Carrying, BeforeSend
  <2>3. Issued' = Issued
    BY <2>1 DEF Issued
  <2>4. Places'
    BY <1>1, <2>1, <2>2, <2>3
    DEF Places, QueueApart, DeadApart, ListsApart, HandsApart, Known
  <2>5. Counts'
    BY <1>1, <2>1, <2>2, <2>3 DEF Counts
  <2> QED
    BY <2>4, <2>5
<1>8. ASSUME NEW w \in Workers, SendOk(w) \/ SendFails(w) PROVE Places' /\ Counts'
  <2> DEFINE j == Key(held[w])
  <2>1. /\ pc[w] = "send" /\ Carrying(w) /\ BeforeSend(w) /\ j \in Keys
        /\ held[w].attempts \in Nat
    BY <1>2, <1>3, <1>8, MaxRetriesAssumption
    DEF SendOk, SendFails, Carrying, BeforeSend, Fresh, Job
  <2>2. PICK n \in 0..SdkAttempts : accepted' = [accepted EXCEPT ![j] = @ + n]
    BY <1>8, WorkerAssumption DEF SendOk, SendFails
  <2>3. /\ UNCHANGED <<queue, dead, status, resent, held, tries>>
        /\ \A v \in Workers \ {w} : pc'[v] = pc[v]
        /\ ~BeforeSend(w)'
    BY <1>3, <1>8 DEF SendOk, SendFails, Goto, BeforeSend, redis, db
  <2>4. accepted'[j] <= Budget(tries[j])
    <3>1. accepted[j] <= Budget(held[w].attempts) /\ tries[j] = held[w].attempts + 1
      BY <1>1, <2>1 DEF Counts
    <3>2. accepted'[j] = accepted[j] + n /\ accepted[j] \in Nat
      BY <1>3, <2>1, <2>2
    <3>3. /\ Budget(held[w].attempts + 1) = Budget(held[w].attempts) + SdkAttempts
          /\ Budget(held[w].attempts) \in Nat /\ SdkAttempts \in Nat
      BY <2>1, BudgetFacts, WorkerAssumption
    <3>4. accepted[j] + n <= Budget(held[w].attempts) + SdkAttempts
      BY <3>1, <3>2, <3>3
    <3> QED
      BY <3>1, <3>2, <3>3, <3>4
  <2>5. \A k \in Keys : k # j => accepted'[k] = accepted[k]
    BY <1>3, <2>2
  <2>6. \A v \in Workers : Carrying(v)' => Carrying(v)
    BY <2>1, <2>3 DEF Carrying
  <2>7. Issued' = Issued
    BY <2>3 DEF Issued
  <2>8. Places'
    BY <1>1, <2>3, <2>6, <2>7
    DEF Places, QueueApart, DeadApart, ListsApart, HandsApart, Known
  <2>9. \A v \in Workers : Carrying(v)' /\ BeforeSend(v)' =>
          v # w /\ BeforeSend(v) /\ Key(held[v]) # j
    BY <1>1, <2>1, <2>3, <2>6 DEF Places, HandsApart, BeforeSend
  <2>10. Counts'
    BY <1>1, <1>2, <1>3, <2>3, <2>4, <2>5, <2>6, <2>7, <2>9 DEF Counts
  <2> QED
    BY <2>8, <2>10
<1>9. ASSUME NEW w \in Workers, Requeue(w) \/ PushTwice(w) PROVE Places' /\ Counts'
  <2> DEFINE job == Retried(held[w])
             k0  == Key(job)
             k1  == Key(held'[w])
  <2>1. /\ Carrying(w) /\ held[w] \in Fresh /\ held[w] # NoJob
        /\ held[w].id \in JobIds /\ job.id = held[w].id
        /\ k0 = Key(held[w]) /\ k0 \in Keys /\ k0[1] = held[w].id
        /\ job.attempts = held[w].attempts + 1 /\ held[w].attempts \in Nat
    <3>1. Carrying(w)
      BY <1>9 DEF Requeue, PushTwice, Carrying
    <3>2. held[w] \in Fresh /\ held[w] # NoJob
      BY <1>3, <3>1
    <3>3. held[w].id \in JobIds /\ held[w].attempts \in Nat
      BY <3>2, MaxRetriesAssumption DEF Fresh, Job
    <3>4. Key(held[w]) \in Keys /\ Key(held[w])[1] = held[w].id
      BY <3>2, JobFacts
    <3>5. job.id = held[w].id /\ k0 = Key(held[w]) /\ job.attempts = held[w].attempts + 1
      BY <3>2, JobFacts
    <3> QED
      BY <3>1, <3>2, <3>3, <3>4, <3>5
  <2>2. /\ UNCHANGED <<status, accepted>>
        /\ \A v \in Workers \ {w} : pc'[v] = pc[v] /\ held'[v] = held[v]
        /\ ~BeforeSend(w)'
    BY <1>3, <1>9 DEF Requeue, PushTwice, Drop, Goto, BeforeSend, db
  <2>3. /\ \A i \in 1..Len(queue) : Key(queue[i]) # k0
        /\ \A i \in 1..Len(dead) : Key(dead[i]) # k0
        /\ \A v \in Workers \ {w} : Carrying(v) => Key(held[v]) # k0
        /\ k0 \in Issued /\ tries[k0] = job.attempts
    BY <1>1, <2>1 DEF Places, HandsApart, Known, Counts
  <2>4. \A i \in JobIds : resent[i] <= resent'[i]
    <3>1. UNCHANGED resent \/ resent' = [resent EXCEPT ![held[w].id] = @ + 1]
      BY <1>9, <2>1 DEF Requeue, PushTwice
    <3>2. \A i \in JobIds : resent[i] \in Nat
      BY <1>3, MaxResendsAssumption
    <3> QED
      BY <1>3, <2>1, <3>1, <3>2
  <2>5. Issued \subseteq Issued'
    BY <1>1, <2>2, <2>4, StaysIssued
  <2>6. /\ held'[w] # NoJob => k1 \in Issued' /\ k1 \in Keys
        /\ Carrying(w)' =>
             /\ held'[w] # NoJob /\ k1 \notin Issued
             /\ tries'[k1] = tries[k0] /\ held'[w].attempts = held[w].attempts
        /\ \A k \in Keys : tries'[k] = tries[k] \/ (Carrying(w)' /\ k = k1)
    <3>1. CASE Requeue(w)
      <4>1. /\ UNCHANGED <<resent, tries>> /\ ~Carrying(w)'
            /\ held'[w] = NoJob \/ held'[w] = job
        BY <1>3, <3>1 DEF Requeue, Drop, Goto, Carrying
      <4>2. held'[w] # NoJob => k1 = k0
        BY <4>1
      <4>3. k0 \in Issued' /\ k0 \in Keys
        BY <2>1, <2>3, <2>5
      <4>4. \A k \in Keys : tries'[k] = tries[k]
        BY <4>1
      <4> QED
        BY <4>1, <4>2, <4>3, <4>4
    <3>2. CASE PushTwice(w)
      <4> DEFINE n == resent[held[w].id] + 1
      <4>1. n \in 0..MaxResends /\ n = resent[held[w].id] + 1 /\ n \in Nat
        BY <1>3, <2>1, <3>2, MaxResendsAssumption DEF PushTwice
      <4>2. /\ held' = [held EXCEPT ![w] = Resent(held[w], resent[job.id] + 1)]
            /\ resent' = [resent EXCEPT ![job.id] = @ + 1]
            /\ tries' = [tries EXCEPT ![Key(Resent(held[w], resent[job.id] + 1))] = tries[k0]]
            /\ pc' = [pc EXCEPT ![w] = "again"]
        BY <3>2 DEF PushTwice, Goto
      <4>3. /\ held'[w] = Resent(held[w], n) /\ Resent(held[w], n) \in Fresh
            /\ Key(Resent(held[w], n)) = <<held[w].id, n>>
            /\ Resent(held[w], n).attempts = held[w].attempts
            /\ <<held[w].id, n>> \in Keys
        BY <1>3, <2>1, <4>1, <4>2, ResentFacts DEF Keys
      <4>4. <<held[w].id, n>> \notin Issued /\ <<held[w].id, n>> \in Issued'
        <5>1. resent'[held[w].id] = n /\ resent[held[w].id] \in Nat
          BY <1>3, <2>1, <4>2
        <5>2. status'[held[w].id] # "none"
          BY <2>1, <2>2, <2>3 DEF Issued
        <5> QED
          BY <4>1, <4>3, <5>1, <5>2 DEF Issued
      <4>5. /\ Carrying(w)' /\ held'[w] # NoJob
        BY <1>3, <4>2, <4>3, JobFacts DEF Carrying
      <4>6. /\ k1 = <<held[w].id, n>> /\ held'[w].attempts = held[w].attempts
        BY <4>3
      <4>7. tries' = [tries EXCEPT ![k1] = tries[k0]]
        BY <2>1, <4>2, <4>3
      <4>8. tries'[k1] = tries[k0] /\ \A k \in Keys : k # k1 => tries'[k] = tries[k]
        BY <1>3, <4>3, <4>6, <4>7
      <4> QED
        BY <4>3, <4>4, <4>5, <4>6, <4>8
    <3> QED
      BY <1>9, <3>1, <3>2
  <2> HIDE DEF k1
  <2>7. /\ \A i \in 1..Len(queue) : Key(queue[i]) \in Issued
        /\ \A i \in 1..Len(dead) : Key(dead[i]) \in Issued
        /\ \A v \in Workers : Carrying(v) => Key(held[v]) \in Issued
    BY <1>1, <1>3 DEF Places, Known
  <2>8. \A v \in Workers \ {w} : Carrying(v)' =>
          Carrying(v) /\ held'[v] = held[v] /\ Key(held[v]) # k0 /\ Key(held[v]) \in Issued
    BY <2>2, <2>3, <2>7 DEF Carrying
  <2>9. /\ \A i \in 1..Len(queue') :
             \/ i \in 1..Len(queue) /\ queue'[i] = queue[i]
             \/ /\ i = Len(queue) + 1 /\ queue'[i] = job
                /\ UNCHANGED dead
        /\ \A i \in 1..Len(dead') :
             \/ i \in 1..Len(dead) /\ dead'[i] = dead[i]
             \/ /\ i = Len(dead) + 1 /\ dead'[i] = job
                /\ UNCHANGED queue
    <3>1. CASE UNCHANGED <<queue, dead>>
      BY <3>1
    <3>2. CASE queue' = RPush(queue, job) /\ ~ToDead(job) /\ UNCHANGED dead
      <4>1. job \in Fresh /\ queue \in Seq(Fresh)
        BY <1>2, <2>1, <3>2, JobFacts
      <4>2. /\ Len(queue') = Len(queue) + 1 /\ queue'[Len(queue) + 1] = job
        BY <3>2, <4>1, RPushTail
      <4>3. \A i \in 1..Len(queue) : RPush(queue, job)[i] = queue[i]
        BY <4>1, RPushKeeps
      <4> QED
        BY <1>2, <3>2, <4>2, <4>3
    <3>3. CASE dead' = RPush(dead, job) /\ ToDead(job) /\ UNCHANGED queue
      <4>1. job \in Spent /\ dead \in Seq(Spent)
        BY <1>2, <2>1, <3>3, JobFacts
      <4>2. /\ Len(dead') = Len(dead) + 1 /\ dead'[Len(dead) + 1] = job
        BY <3>3, <4>1, RPushTail
      <4>3. \A i \in 1..Len(dead) : RPush(dead, job)[i] = dead[i]
        BY <4>1, RPushKeeps
      <4> QED
        BY <1>2, <3>3, <4>2, <4>3
    <3> QED
      BY <1>9, <3>1, <3>2, <3>3 DEF Requeue, PushTwice
  <2> HIDE DEF job, k0
  <2>10. QueueApart' /\ DeadApart' /\ ListsApart'
    <3>1. QueueApart'
      BY <1>1, <2>3, <2>9 DEF Places, QueueApart, k0
    <3>2. DeadApart'
      BY <1>1, <2>3, <2>9 DEF Places, DeadApart, k0
    <3>3. ListsApart'
      BY <1>1, <2>3, <2>9 DEF Places, ListsApart, k0
    <3> QED
      BY <3>1, <3>2, <3>3
  <2>11. HandsApart'
    <3>1. ASSUME NEW v \in Workers \ {w}, Carrying(v)'
          PROVE  /\ \A i \in 1..Len(queue') : Key(queue'[i]) # Key(held'[v])
                 /\ \A i \in 1..Len(dead') : Key(dead'[i]) # Key(held'[v])
                 /\ \A u \in Workers \ {w} :
                      Carrying(u)' /\ Key(held'[u]) = Key(held'[v]) => u = v
                 /\ Carrying(w)' => Key(held'[v]) # Key(held'[w])
      BY <1>1, <2>6, <2>8, <2>9, <3>1 DEF Places, HandsApart, k0, k1
    <3>2. ASSUME Carrying(w)'
          PROVE  /\ \A i \in 1..Len(queue') : Key(queue'[i]) # k1
                 /\ \A i \in 1..Len(dead') : Key(dead'[i]) # k1
      BY <2>3, <2>6, <2>7, <2>9, <3>2 DEF k0
    <3> QED
      BY <3>1, <3>2 DEF HandsApart, k1
  <2>12. Known'
    <3>1. \A i \in 1..Len(queue') : Key(queue'[i]) \in Issued'
      BY <1>2, <2>1, <2>3, <2>5, <2>7, <2>9 DEF k0
    <3>2. \A i \in 1..Len(dead') : Key(dead'[i]) \in Issued'
      BY <1>2, <2>1, <2>3, <2>5, <2>7, <2>9 DEF k0
    <3>3. \A v \in Workers : held'[v] # NoJob => Key(held'[v]) \in Issued'
      BY <1>1, <1>2, <2>2, <2>5, <2>6 DEF Places, Known, k1
    <3> QED
      BY <3>1, <3>2, <3>3 DEF Known
  <2>13. Counts'
    <3>1. ASSUME NEW k \in Keys
          PROVE  /\ k \notin Issued' => tries'[k] = 0
                 /\ tries'[k] <= MaxRetries
                 /\ accepted'[k] <= Budget(tries'[k])
      <4>1. CASE tries'[k] = tries[k]
        BY <1>1, <2>2, <2>5, <4>1 DEF Counts
      <4>2. CASE Carrying(w)' /\ k = k1
        <5>1. tries'[k] = tries[k0] /\ tries[k] = 0 /\ k \in Issued'
          BY <1>1, <2>6, <4>2 DEF Counts
        <5>2. accepted[k] <= Budget(0) /\ tries[k0] \in Nat /\ tries[k0] <= MaxRetries
          BY <1>1, <1>3, <2>1, <5>1 DEF Counts
        <5>3. Budget(0) <= Budget(tries[k0]) /\ Budget(0) \in Nat /\ Budget(tries[k0]) \in Nat
          BY <5>2, BudgetFacts
        <5> QED
          BY <1>3, <2>2, <5>1, <5>2, <5>3
      <4> QED
        BY <2>6, <4>1, <4>2
    <3>2. \A k \in Keys : k \in Issued => tries'[k] = tries[k]
      BY <2>6
    <3>3. \A i \in 1..Len(queue') : queue'[i].attempts = tries'[Key(queue'[i])]
      BY <1>1, <1>2, <2>1, <2>3, <2>7, <2>9, <3>2 DEF Counts, k0
    <3>4. ASSUME NEW v \in Workers, Carrying(v)'
          PROVE  /\ tries'[Key(held'[v])] = held'[v].attempts + 1
                 /\ BeforeSend(v)' => accepted'[Key(held'[v])] <= Budget(held'[v].attempts)
      <4>1. CASE v = w
        BY <2>1, <2>2, <2>3, <2>6, <3>4, <4>1 DEF k1
      <4>2. CASE v # w
        <5>1. /\ Carrying(v) /\ held'[v] = held[v] /\ Key(held[v]) \in Issued
              /\ Key(held[v]) \in Keys /\ (BeforeSend(v)' => BeforeSend(v))
          BY <1>2, <1>3, <2>2, <2>8, <3>4, <4>2 DEF BeforeSend
        <5> QED
          BY <1>1, <2>2, <3>2, <5>1 DEF Counts
      <4> QED
        BY <4>1, <4>2
    <3> QED
      BY <3>1, <3>3, <3>4 DEF Counts
  <2> QED
    BY <2>10, <2>11, <2>12, <2>13 DEF Places
<1>10. CASE Quiet
  BY <1>1, <1>10, QuietStep
<1> QED
  BY <1>1, <1>4, <1>6, <1>7, <1>8, <1>9, <1>10, QuietActions DEF Next, Step

LEMMA BudgetBounds == BudgetInv => SendsBounded
<1> SUFFICES ASSUME BudgetInv, NEW j \in JobIds, NEW c \in 0..MaxResends
             PROVE  accepted[<<j, c>>] <= IF c <= resent[j] THEN Budget(MaxRetries) ELSE 0
  BY DEF SendsBounded, Budget
<1> DEFINE k == <<j, c>>
<1>1. k \in Keys /\ MaxRetries \in Nat
  BY MaxRetriesAssumption DEF Keys
<1>2. /\ accepted[k] \in Nat /\ tries[k] \in Nat
      /\ tries[k] <= MaxRetries /\ accepted[k] <= Budget(tries[k])
      /\ k \notin Issued => tries[k] = 0
  BY <1>1 DEF BudgetInv, AttemptsInv, HistoryOK, Counts
<1>3. Budget(tries[k]) <= Budget(MaxRetries) /\ Budget(tries[k]) \in Nat /\ Budget(MaxRetries) \in Nat
  BY <1>1, <1>2, BudgetFacts
<1>4. ~(c <= resent[j]) => accepted[k] <= 0
  BY <1>1, <1>2, BudgetFacts DEF Issued
<1> QED
  BY <1>2, <1>3, <1>4

(* Every payload stays in one place, with its counter equal to the pops it *)
(* went through and SES's copies within what those pops allow.             *)
THEOREM BudgetAlways == Spec => []BudgetInv
  BY BudgetInit, BudgetStep, PTL DEF Spec

(* However often workers fail, are killed or lose an answer, and however   *)
(* many of them there are, SES accepts of a payload at most MaxRetries     *)
(* times the copies of one Send call, and a job has no payload beyond its  *)
(* first and those of repeated pushes.                                     *)
THEOREM CopiesBounded == Spec => []SendsBounded
  BY BudgetAlways, BudgetBounds, PTL

-----------------------------------------------------------------------------
(* OneCopy counts what Places states without numbers.                      *)

(* Of three sets of which no two have elements and each has at most one,   *)
(* there is at most one element in all.                                    *)
LEMMA AtMostOne ==
  ASSUME NEW A, NEW B, NEW C,
         \A x, y \in A : x = y, \A x, y \in B : x = y, \A x, y \in C : x = y,
         A = {} \/ B = {}, A = {} \/ C = {}, B = {} \/ C = {}
  PROVE  Cardinality(A) + Cardinality(B) + Cardinality(C) <= 1
<1>1. ASSUME NEW S, \A x, y \in S : x = y
      PROVE  Cardinality(S) \in {0, 1} /\ (S = {} => Cardinality(S) = 0)
  <2>1. CASE S = {}
    BY <2>1, FS_EmptySet
  <2>2. ASSUME NEW x \in S PROVE Cardinality(S) = 1
    <3>1. S = {x}
      BY <1>1, <2>2
    <3> QED
      BY <3>1, FS_Singleton
  <2> QED
    BY <2>1, <2>2
<1>2. /\ Cardinality(A) \in {0, 1} /\ (A = {} => Cardinality(A) = 0)
      /\ Cardinality(B) \in {0, 1} /\ (B = {} => Cardinality(B) = 0)
      /\ Cardinality(C) \in {0, 1} /\ (C = {} => Cardinality(C) = 0)
  BY <1>1
<1> QED
  BY <1>2

LEMMA PlacesOneCopy == BudgetInv => OneCopy
<1> SUFFICES ASSUME BudgetInv, NEW j \in JobIds, NEW c \in 0..MaxResends
             PROVE  LET inQueue == {i \in 1..Len(queue) : Key(queue[i]) = <<j, c>>}
                        inDead  == {i \in 1..Len(dead) : Key(dead[i]) = <<j, c>>}
                        with    == {w \in Workers : Carries(w, <<j, c>>)}
                    IN  Cardinality(inQueue) + Cardinality(inDead) + Cardinality(with)
                          <= IF c <= resent[j] THEN 1 ELSE 0
  BY DEF OneCopy
<1> DEFINE inQueue == {i \in 1..Len(queue) : Key(queue[i]) = <<j, c>>}
           inDead  == {i \in 1..Len(dead) : Key(dead[i]) = <<j, c>>}
           with    == {w \in Workers : Carries(w, <<j, c>>)}
<1>1. \A w \in with : w \in Workers /\ Carrying(w) /\ Key(held[w]) = <<j, c>> /\ held[w] # NoJob
  BY JobFacts DEF BudgetInv, AttemptsInv, HandsOK, HandOK, Carries, Carrying, PC
<1>2. \A x, y \in inQueue : x = y
  BY DEF BudgetInv, Places, QueueApart
<1>3. \A x, y \in inDead : x = y
  BY DEF BudgetInv, Places, DeadApart
<1>4. \A x, y \in with : x = y
  BY <1>1 DEF BudgetInv, Places, HandsApart
<1>5. inQueue = {} \/ inDead = {}
  BY DEF BudgetInv, Places, ListsApart
<1>6. inQueue = {} \/ with = {}
  BY <1>1 DEF BudgetInv, Places, HandsApart
<1>7. inDead = {} \/ with = {}
  BY <1>1 DEF BudgetInv, Places, HandsApart
<1>8. ~(c <= resent[j]) => inQueue = {} /\ inDead = {} /\ with = {}
  BY <1>1 DEF BudgetInv, Places, Known, Issued
<1> HIDE DEF inQueue, inDead, with
<1>9. Cardinality(inQueue) + Cardinality(inDead) + Cardinality(with) <= 1
  BY <1>2, <1>3, <1>4, <1>5, <1>6, <1>7, AtMostOne
<1>10. ~(c <= resent[j]) =>
         Cardinality(inQueue) + Cardinality(inDead) + Cardinality(with) <= 0
  BY <1>8, FS_EmptySet
<1>11. Cardinality(inQueue) + Cardinality(inDead) + Cardinality(with)
         <= IF c <= resent[j] THEN 1 ELSE 0
  BY <1>9, <1>10
<1> QED
  BY <1>11 DEF inQueue, inDead, with

(* No payload is ever in two places: not twice in a list, not in both      *)
(* lists, not waiting while a worker has it, not with two workers; and a   *)
(* job has no more payloads than pushes.                                   *)
THEOREM OneCopyOnly == Spec => []OneCopy
  BY BudgetAlways, PlacesOneCopy, PTL
=============================================================================
