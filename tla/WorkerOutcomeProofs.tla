------------------------- MODULE WorkerOutcomeProofs -------------------------
(***************************************************************************)
(* Theorems about what becomes of a job in the delivery pool (Worker): the *)
(* recipients it is sent to, the order of retries, permanent refusals, the *)
(* daily count and the status its row ends with.  They build on the places *)
(* and counts of WorkerProofs.                                             *)
(***************************************************************************)
EXTENDS WorkerProofs

(* An action of one goroutine leaves the local state of the others alone.  *)
LEMMA OnlyMine ==
  ASSUME AttemptsInv, NEW w \in Workers, Step(w)
  PROVE  /\ \A v \in Workers \ {w} :
              /\ pc'[v] = pc[v] /\ held'[v] = held[v] /\ todo'[v] = todo[v]
              /\ valid'[v] = valid[v] /\ listed'[v] = listed[v]
         /\ UNCHANGED blacklist
<1>1. /\ pc \in [Workers -> PC] /\ held \in [Workers -> Job \cup {NoJob}]
      /\ todo \in [Workers -> SUBSET Addrs] /\ valid \in [Workers -> SUBSET Addrs]
      /\ listed \in [Workers -> SUBSET Addrs]
  BY DEF AttemptsInv, HandsOK, LocalOK, SetsOK
<1>2. CASE Pop(w)
  BY <1>1, <1>2 DEF Pop, Goto, db
<1>3. CASE PopLost(w) \/ Stop(w) \/ LookupFails(w) \/ SetMessageId(w)
  BY <1>1, <1>3 DEF PopLost, Stop, LookupFails, SetMessageId, Goto, db, history
<1>4. CASE Lookup(w)
  BY <1>1, <1>4 DEF Lookup, Goto, db, history
<1>5. CASE MarkFailed(w)
  BY <1>1, <1>5 DEF MarkFailed, Drop, Goto
<1>6. CASE SendOk(w)
  BY <1>1, <1>6 DEF SendOk, Goto, db
<1>7. CASE SendFails(w)
  BY <1>1, <1>7 DEF SendFails, Goto, db
<1>8. CASE MarkSent(w)
  BY <1>1, <1>8 DEF MarkSent, Goto, history
<1>9. CASE Count(w)
  BY <1>1, <1>9 DEF Count, Drop, Goto
<1>10. CASE PushTwice(w)
  BY <1>1, <1>10 DEF PushTwice, Goto, db
<1>11. CASE Requeue(w)
  BY <1>1, <1>11 DEF Requeue, Drop, Goto, db
<1> QED
  BY <1>2, <1>3, <1>4, <1>5, <1>6, <1>7, <1>8, <1>9, <1>10, <1>11 DEF Step

-----------------------------------------------------------------------------
(* The recipients.  While a job is filtered, every address is still to be  *)
(* looked up, or was kept, or is on its client's list; lists only grow, so *)
(* an address listed when the job was popped is never kept.                *)

Listed(w, a) == <<Owner[held[w].id], a>> \in blacklist

FilterOK(w) ==
  /\ pc[w] = "pop" => valid[w] = {}
  /\ pc[w] \in {"filter", "send", "unsendable"} =>
       /\ valid[w] \cap listed[w] = {}
       /\ \A a \in listed[w] : Listed(w, a)
       /\ \A a \in Rcpts[held[w].id] \ (valid[w] \cup todo[w]) : Listed(w, a)
       /\ pc[w] # "filter" => todo[w] = {}

FilterInv == \A w \in Workers : FilterOK(w)

LEMMA FilterInit == Init => FilterInv
  BY DEF Init, FilterInv, FilterOK

LEMMA FilterStep == AttemptsInv /\ FilterInv /\ [Next]_vars => FilterInv'
<1> SUFFICES ASSUME AttemptsInv, FilterInv, [Next]_vars PROVE FilterInv'
  OBVIOUS
<1>1. /\ pc \in [Workers -> PC] /\ held \in [Workers -> Job \cup {NoJob}]
      /\ todo \in [Workers -> SUBSET Addrs] /\ valid \in [Workers -> SUBSET Addrs]
      /\ listed \in [Workers -> SUBSET Addrs]
  BY DEF AttemptsInv, HandsOK, LocalOK, SetsOK
<1>2. ASSUME NEW j \in JobIds, Submit(j) \/ PushAgain(j) PROVE FilterInv'
  BY <1>2 DEF Submit, PushAgain, FilterInv, FilterOK, Listed, local, history, db
<1>3. ASSUME NEW c \in Clients, NEW a \in Addrs, List(c, a) PROVE FilterInv'
  BY <1>3 DEF List, FilterInv, FilterOK, Listed, local, history
<1>4. ASSUME NEW w \in Workers, Step(w) PROVE FilterInv'
  <2>1. \A v \in Workers \ {w} : FilterOK(v)'
    BY <1>4, OnlyMine DEF FilterInv, FilterOK, Listed
  <2>2. FilterOK(w) /\ UNCHANGED blacklist
    BY <1>4, OnlyMine DEF FilterInv
  <2>3. CASE Pop(w)
    <3> DEFINE job == Popped(queue)
    <3>1. /\ held'[w] = job /\ todo'[w] = Rcpts[job.id] /\ pc'[w] = "filter"
          /\ listed'[w] = {a \in Rcpts[job.id] : <<Owner[job.id], a>> \in blacklist}
          /\ valid'[w] = {}
      BY <1>1, <2>2, <2>3 DEF Pop, Goto, FilterOK
    <3> HIDE DEF job
    <3>2. FilterOK(w)'
      BY <2>2, <3>1 DEF FilterOK, Listed
    <3> QED
      BY <2>1, <3>2 DEF FilterInv
  <2>4. CASE Lookup(w)
    <3>1. PICK a \in todo[w] :
            /\ todo'[w] = todo[w] \ {a}
            /\ valid'[w] = IF IsListed(held[w].id, a) THEN valid[w] ELSE valid[w] \cup {a}
            /\ pc'[w] = "filter" \/ (pc'[w] \in {"send", "unsendable"} /\ todo[w] = {a})
      BY <1>1, <2>4 DEF Lookup, Goto
    <3>2. held'[w] = held[w] /\ listed'[w] = listed[w] /\ pc[w] = "filter"
      BY <2>4 DEF Lookup, history
    <3>3. FilterOK(w)'
      BY <2>2, <3>1, <3>2 DEF FilterOK, Listed, IsListed
    <3> QED
      BY <2>1, <3>3 DEF FilterInv
  <2>5. CASE PopLost(w) \/ Stop(w) \/ LookupFails(w) \/ SendOk(w) \/ SetMessageId(w)
    <3>1. pc'[w] \notin {"filter", "send", "unsendable"} /\ (pc'[w] = "pop" => valid'[w] = {})
      BY <1>1, <2>2, <2>5
      DEF PopLost, Stop, LookupFails, SendOk, SetMessageId, Goto, FilterOK
    <3> QED
      BY <2>1, <3>1 DEF FilterInv, FilterOK
  <2>6. CASE SendFails(w) \/ MarkSent(w) \/ PushTwice(w)
    <3>1. pc'[w] \notin {"pop", "filter", "send", "unsendable"}
      BY <1>1, <2>6 DEF SendFails, MarkSent, PushTwice, AfterMark, Goto
    <3> QED
      BY <2>1, <3>1 DEF FilterInv, FilterOK
  <2>7. CASE MarkFailed(w) \/ Count(w) \/ Requeue(w)
    <3>1. pc'[w] = "exhaust" \/ (pc'[w] = "pop" /\ valid'[w] = {})
      BY <1>1, <2>7 DEF MarkFailed, Count, Requeue, Drop, Goto
    <3> QED
      BY <2>1, <3>1 DEF FilterInv, FilterOK
  <2> QED
    BY <1>4, <2>3, <2>4, <2>5, <2>6, <2>7 DEF Step
<1>5. CASE Shutdown
  BY <1>5 DEF Shutdown, FilterInv, FilterOK, Listed, db, history
<1>6. CASE Restart \/ Kill
  BY <1>6 DEF Restart, Kill, FreshPool, FilterInv, FilterOK
<1>7. CASE UNCHANGED vars
  BY <1>7 DEF vars, db, local, history, FilterInv, FilterOK, Listed
<1> QED
  BY <1>2, <1>3, <1>4, <1>5, <1>6, <1>7 DEF Next

(* Whatever the webhook adds while a job is filtered, the job is sent to   *)
(* no address its client had listed when the job was popped, and no        *)
(* address is left out that the client does not list (main.go 190-199).    *)
THEOREM OnlyUnlistedAreSentTo == Spec => []BlacklistRespected
<1>1. Spec => []FilterInv
  BY AttemptsAlways, FilterInit, FilterStep, PTL DEF Spec
<1>2. FilterInv => BlacklistRespected
  BY DEF FilterInv, FilterOK, Listed, BlacklistRespected
<1> QED
  BY <1>1, <1>2, PTL

-----------------------------------------------------------------------------
(* The order of the queue.                                                 *)

(* What a step may do to the queue: nothing, a push of a job of no attempt *)
(* to the head, a pop from the tail, a push of a retried job to the tail.  *)
LEMMA QueueSteps ==
  ASSUME AttemptsInv, [Next]_vars
  PROVE  \/ UNCHANGED queue
         \/ \E job \in Fresh : job.attempts = 0 /\ queue' = LPush(queue, job)
         \/ /\ \E w \in Workers : Pop(w) \/ PopLost(w)
            /\ queue # <<>> /\ queue' = AfterPop(queue)
         \/ \E job \in Fresh : job.attempts > 0 /\ queue' = RPush(queue, job)
<1>1. ASSUME NEW j \in JobIds, Submit(j)
      PROVE  \E job \in Fresh : job.attempts = 0 /\ queue' = LPush(queue, job)
  BY <1>1, JobFacts DEF Submit
<1>2. ASSUME NEW j \in JobIds, PushAgain(j)
      PROVE  \E job \in Fresh : job.attempts = 0 /\ queue' = LPush(queue, job)
  <2> DEFINE job == Resent(NewJob(j), resent[j] + 1)
  <2>1. resent[j] + 1 \in 0..MaxResends
    BY <1>2, MaxResendsAssumption DEF PushAgain, AttemptsInv, HistoryOK
  <2>2. job \in Fresh /\ job.attempts = 0
    BY <2>1, JobFacts, ResentFacts
  <2>3. queue' = LPush(queue, job)
    BY <1>2 DEF PushAgain
  <2> QED
    BY <2>2, <2>3
<1>3. ASSUME NEW w \in Workers, Pop(w) \/ PopLost(w)
      PROVE  queue # <<>> /\ queue' = AfterPop(queue)
  BY <1>3 DEF Pop, PopLost
<1>4. ASSUME NEW w \in Workers, PushTwice(w) \/ Requeue(w)
      PROVE  \/ UNCHANGED queue
             \/ \E job \in Fresh : job.attempts > 0 /\ queue' = RPush(queue, job)
  <2> DEFINE job == Retried(held[w])
  <2>1. held[w] \in Fresh
    BY <1>4 DEF PushTwice, Requeue, AttemptsInv, HandsOK, HandOK, PC
  <2>2. job.attempts > 0 /\ (~ToDead(job) => job \in Fresh)
    BY <2>1, JobFacts, MaxRetriesAssumption DEF Fresh, Job
  <2>3. UNCHANGED queue \/ (~ToDead(job) /\ queue' = RPush(queue, job))
    BY <1>4 DEF PushTwice, Requeue
  <2> QED
    BY <2>2, <2>3
<1>5. ASSUME NEW w \in Workers,
             \/ Stop(w) \/ Lookup(w) \/ LookupFails(w) \/ MarkFailed(w) \/ SendOk(w)
             \/ SendFails(w) \/ SetMessageId(w) \/ MarkSent(w) \/ Count(w)
      PROVE  UNCHANGED queue
  BY <1>5
  DEF Stop, Lookup, LookupFails, MarkFailed, SendOk, SendFails, SetMessageId, MarkSent,
      Count, redis
<1>6. ASSUME \/ \E c \in Clients, a \in Addrs : List(c, a)
             \/ Shutdown \/ Restart \/ Kill \/ UNCHANGED vars
      PROVE  UNCHANGED queue
  BY <1>6 DEF List, Shutdown, Restart, Kill, vars, redis
<1> QED
  BY <1>1, <1>2, <1>3, <1>4, <1>5, <1>6 DEF Next, Step

(* A job that was retried comes before every job that was never tried:     *)
(* BRPOP takes the last position first.                                    *)
RetriesFirst ==
  \A i, k \in 1..Len(queue) :
    i < k /\ queue[i].attempts > 0 => queue[k].attempts > 0

LEMMA RetriesStep == AttemptsInv /\ RetriesFirst /\ [Next]_vars => RetriesFirst'
<1> SUFFICES ASSUME AttemptsInv, RetriesFirst, [Next]_vars PROVE RetriesFirst'
  OBVIOUS
<1>1. queue \in Seq(Fresh) /\ Len(queue) \in Nat
  BY LenProperties DEF AttemptsInv, ListsOK
<1>2. CASE UNCHANGED queue
  BY <1>2 DEF RetriesFirst
<1>3. ASSUME NEW job \in Fresh, job.attempts = 0, queue' = LPush(queue, job)
      PROVE  RetriesFirst'
  <2>1. Len(queue') = Len(queue) + 1 /\ queue'[1] = job
    BY <1>1, <1>3, LPushLen, LPushHead
  <2>2. \A i \in 2..(Len(queue) + 1) : queue'[i] = queue[i - 1]
    BY <1>1, <1>3, LPushShifts
  <2>3. ASSUME NEW i \in 1..Len(queue'), NEW k \in 1..Len(queue'), i < k,
               queue'[i].attempts > 0
        PROVE  queue'[k].attempts > 0
    <3>1. i # 1
      BY <1>3, <2>1, <2>3
    <3>2. /\ i - 1 \in 1..Len(queue) /\ k - 1 \in 1..Len(queue) /\ i - 1 < k - 1
          /\ queue'[i] = queue[i - 1] /\ queue'[k] = queue[k - 1]
      BY <1>1, <2>1, <2>2, <2>3, <3>1
    <3> QED
      BY <2>3, <3>2 DEF RetriesFirst
  <2> QED
    BY <2>3 DEF RetriesFirst
<1>4. CASE queue # <<>> /\ queue' = AfterPop(queue)
  <2>1. /\ Len(queue') = Len(queue) - 1
        /\ \A i \in 1..(Len(queue) - 1) : queue'[i] = queue[i]
    BY <1>1, <1>4, PopFacts
  <2>2. \A i \in 1..Len(queue') : i \in 1..Len(queue) /\ queue'[i] = queue[i]
    BY <1>1, <2>1
  <2> QED
    BY <2>2 DEF RetriesFirst
<1>5. ASSUME NEW job \in Fresh, job.attempts > 0, queue' = RPush(queue, job)
      PROVE  RetriesFirst'
  <2>1. Len(queue') = Len(queue) + 1 /\ queue'[Len(queue) + 1] = job
    BY <1>1, <1>5, RPushTail
  <2>2. \A i \in 1..Len(queue) : queue'[i] = queue[i]
    BY <1>1, <1>5, RPushKeeps
  <2>3. ASSUME NEW i \in 1..Len(queue'), NEW k \in 1..Len(queue'), i < k,
               queue'[i].attempts > 0
        PROVE  queue'[k].attempts > 0
    <3>1. CASE k = Len(queue) + 1
      BY <1>5, <2>1, <3>1
    <3>2. CASE k # Len(queue) + 1
      <4>1. i \in 1..Len(queue) /\ k \in 1..Len(queue)
        BY <1>1, <2>1, <2>3, <3>2
      <4> QED
        BY <2>2, <2>3, <4>1 DEF RetriesFirst
    <3> QED
      BY <3>1, <3>2
  <2> QED
    BY <2>3 DEF RetriesFirst
<1> QED
  BY <1>2, <1>3, <1>4, <1>5, QueueSteps

(* A retried job is popped before every job that was never tried, however  *)
(* long that one has waited (queue.go 70, 102): always the opposite of the *)
(* order that the comment on push states, RetriesAfterNewer in Worker.     *)
THEOREM RetriesComeFirst == Spec => []RetriesFirst
<1>1. Init => RetriesFirst
  <2>1. Init => Len(queue) = 0
    BY EmptySeq DEF Init
  <2> QED
    BY <2>1 DEF RetriesFirst
<1> QED
  BY <1>1, AttemptsAlways, RetriesStep, PTL DEF Spec

-----------------------------------------------------------------------------
(* Where payloads go.  The lists and the hands of the workers as sets of   *)
(* payloads, and what a step may do to these sets.                         *)

KeysIn(list) == {Key(list[i]) : i \in 1..Len(list)}

Waiting == KeysIn(queue)
Buried == KeysIn(dead)
InHands == {Key(held[w]) : w \in {v \in Workers : Carrying(v)}}

LEMMA PushKeys ==
  ASSUME NEW S, NEW list \in Seq(S), NEW job \in S
  PROVE  /\ KeysIn(RPush(list, job)) = KeysIn(list) \cup {Key(job)}
         /\ KeysIn(LPush(list, job)) = KeysIn(list) \cup {Key(job)}
<1>1. Len(list) \in Nat
  BY LenProperties
<1>2. KeysIn(RPush(list, job)) = KeysIn(list) \cup {Key(job)}
  <2> DEFINE new == RPush(list, job)
  <2>1. /\ Len(new) = Len(list) + 1 /\ new[Len(list) + 1] = job
        /\ \A i \in 1..Len(list) : new[i] = list[i]
    BY PushFacts
  <2> HIDE DEF new
  <2>2. \A i \in 1..Len(new) : i \in 1..Len(list) \/ i = Len(list) + 1
    BY <1>1, <2>1
  <2>3. \A i \in 1..Len(list) : i \in 1..Len(new)
    BY <1>1, <2>1
  <2>4. Len(list) + 1 \in 1..Len(new)
    BY <1>1, <2>1
  <2>5. KeysIn(new) = KeysIn(list) \cup {Key(job)}
    BY <2>1, <2>2, <2>3, <2>4 DEF KeysIn
  <2> QED
    BY <2>5 DEF new
<1>3. KeysIn(LPush(list, job)) = KeysIn(list) \cup {Key(job)}
  <2> DEFINE new == LPush(list, job)
  <2>1. /\ Len(new) = Len(list) + 1 /\ new[1] = job
        /\ \A i \in 2..(Len(list) + 1) : new[i] = list[i - 1]
    BY PushFacts
  <2> HIDE DEF new
  <2>2. \A i \in 1..Len(new) :
          i = 1 \/ (i - 1 \in 1..Len(list) /\ new[i] = list[i - 1])
    BY <1>1, <2>1
  <2>3. \A i \in 1..Len(list) : i + 1 \in 1..Len(new) /\ new[i + 1] = list[i]
    BY <1>1, <2>1
  <2>4. 1 \in 1..Len(new)
    BY <1>1, <2>1
  <2>5. KeysIn(new) \subseteq KeysIn(list) \cup {Key(job)}
    BY <2>1, <2>2 DEF KeysIn
  <2>6. KeysIn(list) \cup {Key(job)} \subseteq KeysIn(new)
    BY <2>1, <2>3, <2>4 DEF KeysIn
  <2> QED
    BY <2>5, <2>6 DEF new
<1> QED
  BY <1>2, <1>3

LEMMA PopKeys ==
  ASSUME NEW S, NEW list \in Seq(S), list # <<>>,
         \A i, k \in 1..Len(list) : Key(list[i]) = Key(list[k]) => i = k
  PROVE  /\ Key(Popped(list)) \in KeysIn(list)
         /\ KeysIn(AfterPop(list)) = KeysIn(list) \ {Key(Popped(list))}
<1> DEFINE rest == AfterPop(list)
<1>1. /\ Len(list) \in 1..Len(list) /\ Len(rest) = Len(list) - 1
      /\ \A i \in 1..(Len(list) - 1) : rest[i] = list[i]
      /\ Popped(list) = list[Len(list)]
  BY PopFacts DEF Popped
<1>2. Len(list) \in Nat
  BY LenProperties
<1> HIDE DEF rest
<1>3. \A i \in 1..Len(rest) : i \in 1..Len(list) /\ i # Len(list) /\ rest[i] = list[i]
  BY <1>1, <1>2
<1>4. \A i \in 1..Len(list) : i # Len(list) => i \in 1..Len(rest)
  BY <1>1, <1>2
<1>5. KeysIn(rest) \subseteq KeysIn(list) \ {Key(Popped(list))}
  BY <1>1, <1>3 DEF KeysIn
<1>6. KeysIn(list) \ {Key(Popped(list))} \subseteq KeysIn(rest)
  BY <1>1, <1>3, <1>4 DEF KeysIn
<1> QED
  BY <1>1, <1>5, <1>6 DEF KeysIn, rest

(* The three sets are apart, and hold only payloads that were pushed.      *)
LEMMA SetsApart ==
  ASSUME BudgetInv
  PROVE  /\ Waiting \cap Buried = {} /\ Waiting \cap InHands = {} /\ Buried \cap InHands = {}
         /\ Waiting \subseteq Issued /\ Buried \subseteq Issued /\ InHands \subseteq Issued
         /\ Issued \subseteq Keys
<1>1. \A w \in Workers : Carrying(w) => held[w] # NoJob
  BY KeyTypes DEF BudgetInv
<1> QED
  BY <1>1
  DEF BudgetInv, Places, ListsApart, HandsApart, Known, Waiting, Buried, InHands, KeysIn, Issued

(* A payload is lost, given up or delivered, or nothing moves.             *)
Shrinks ==
  /\ Waiting' \subseteq Waiting /\ InHands' \subseteq InHands
  /\ UNCHANGED <<Buried, Issued, tries>>

(* A new payload is pushed.                                                *)
Arrives(k) ==
  /\ k \in Keys \ Issued /\ Issued' = Issued \cup {k}
  /\ Waiting' = Waiting \cup {k}
  /\ UNCHANGED <<Buried, InHands, tries>>

(* A worker takes one.                                                     *)
Taken(k) ==
  /\ k \in Waiting /\ tries[k] < MaxRetries
  /\ Waiting' = Waiting \ {k} /\ InHands' = InHands \cup {k}
  /\ tries' = [tries EXCEPT ![k] = @ + 1]
  /\ UNCHANGED <<Buried, Issued>>

PushedBack(k) ==
  \/ tries[k] < MaxRetries /\ Waiting' = Waiting \cup {k} /\ UNCHANGED Buried
  \/ tries[k] = MaxRetries /\ Buried' = Buried \cup {k} /\ UNCHANGED Waiting

(* Retry gives it back or buries it.                                       *)
Returned(k) ==
  /\ k \in InHands /\ InHands' = InHands \ {k}
  /\ PushedBack(k)
  /\ UNCHANGED <<Issued, tries>>

(* The same, and the worker goes on with a second payload n.               *)
Doubled(k, n) ==
  /\ k \in InHands /\ n \in Keys \ Issued
  /\ Issued' = Issued \cup {n} /\ InHands' = (InHands \ {k}) \cup {n}
  /\ PushedBack(k)
  /\ tries' = [tries EXCEPT ![n] = tries[k]]

(* Rows and numbers in use: what may change Issued.                        *)
LEMMA SameIssued ==
  ASSUME AttemptsInv,
         UNCHANGED resent,
         \A j \in JobIds : status'[j] = "none" <=> status[j] = "none"
  PROVE  Issued' = Issued
<1>1. \A k \in Keys : k[1] \in JobIds
  BY DEF Keys
<1> QED
  BY <1>1 DEF Issued

(* A job has a row before its push is ever repeated, and only Submit makes *)
(* a row.                                                                  *)
RowFirst == \A j \in JobIds : status[j] = "none" => resent[j] = 0

PlacesInv == BudgetInv /\ RowFirst

LEMMA RowsMade ==
  ASSUME BudgetInv, [Next]_vars, \A j \in JobIds : ~Submit(j)
  PROVE  \A j \in JobIds : status'[j] = "none" <=> status[j] = "none"
<1>1. /\ status \in [JobIds -> Statuses \cup {"none"}] /\ "none" \notin Statuses
      /\ AttemptsInv
  BY DEF BudgetInv, AttemptsInv, RowsOK, Statuses
<1>2. \A w \in Workers : pc[w] \notin {"pop", "stopped"} =>
        held[w].id \in JobIds /\ status[held[w].id] # "none"
  <2> SUFFICES ASSUME NEW w \in Workers, pc[w] \notin {"pop", "stopped"}
               PROVE  held[w].id \in JobIds /\ status[held[w].id] # "none"
    OBVIOUS
  <2>1. held[w] \in Job /\ held[w] # NoJob /\ held[w].id \in JobIds
    BY <1>1, HeldFacts
  <2>2. Key(held[w]) \in Issued /\ Key(held[w])[1] = held[w].id
    BY <2>1, JobFacts DEF BudgetInv, Places, Known
  <2> QED
    BY <2>1, <2>2 DEF Issued
<1>3. ASSUME NEW w \in Workers, MarkFailed(w)
      PROVE  \A j \in JobIds : status'[j] = "none" <=> status[j] = "none"
  BY <1>1, <1>2, <1>3, StatusFacts DEF MarkFailed
<1>4. ASSUME NEW w \in Workers, MarkSent(w)
      PROVE  \A j \in JobIds : status'[j] = "none" <=> status[j] = "none"
  BY <1>1, <1>2, <1>4, StatusFacts DEF MarkSent
<1>5. ASSUME NEW w \in Workers,
             \/ Pop(w) \/ PopLost(w) \/ Stop(w) \/ Lookup(w) \/ LookupFails(w) \/ SendOk(w)
             \/ SendFails(w) \/ SetMessageId(w) \/ Count(w) \/ PushTwice(w) \/ Requeue(w)
      PROVE  UNCHANGED status
  BY <1>5
  DEF Pop, PopLost, Stop, Lookup, LookupFails, SendOk, SendFails, SetMessageId, Count,
      PushTwice, Requeue, db
<1>6. ASSUME \/ \E j \in JobIds : PushAgain(j)
             \/ \E c \in Clients, a \in Addrs : List(c, a)
             \/ Shutdown \/ Restart \/ Kill \/ UNCHANGED vars
      PROVE  UNCHANGED status
  BY <1>6 DEF PushAgain, List, Shutdown, Restart, Kill, vars, db
<1> QED
  BY <1>3, <1>4, <1>5, <1>6 DEF Next, Step

LEMMA RowFirstStep == PlacesInv /\ [Next]_vars => RowFirst'
<1> SUFFICES ASSUME PlacesInv, [Next]_vars PROVE RowFirst'
  OBVIOUS
<1>1. /\ status \in [JobIds -> Statuses \cup {"none"}]
      /\ resent \in [JobIds -> 0..MaxResends] /\ BudgetInv /\ AttemptsInv /\ RowFirst
  BY DEF PlacesInv, BudgetInv, AttemptsInv, RowsOK, HistoryOK
<1>2. ASSUME NEW j \in JobIds, Submit(j) PROVE RowFirst'
  BY <1>1, <1>2 DEF Submit, RowFirst, history
<1>3. CASE \A j \in JobIds : ~Submit(j)
  <2>1. \A j \in JobIds : status'[j] = "none" <=> status[j] = "none"
    BY <1>1, <1>3, RowsMade
  <2>2. ASSUME NEW j \in JobIds, PushAgain(j) PROVE RowFirst'
    BY <1>1, <2>1, <2>2 DEF PushAgain, RowFirst
  <2>3. ASSUME NEW w \in Workers, PushTwice(w) PROVE RowFirst'
    <3>1. held[w] \in Fresh /\ held[w] # NoJob /\ held[w].id \in JobIds
      BY <1>1, <2>3, HeldFacts DEF PushTwice, AttemptsInv, HandsOK, HandOK, PC
    <3>2. Key(held[w]) \in Issued /\ Key(held[w])[1] = held[w].id
      BY <1>1, <3>1, JobFacts DEF BudgetInv, Places, Known
    <3>3. status[held[w].id] # "none" /\ Retried(held[w]).id = held[w].id
      BY <3>1, <3>2, JobFacts DEF Issued
    <3>4. resent' = [resent EXCEPT ![held[w].id] = @ + 1]
      BY <2>3, <3>3 DEF PushTwice
    <3> QED
      BY <1>1, <2>1, <3>1, <3>3, <3>4 DEF RowFirst
  <2>4. ASSUME NEW w \in Workers,
               \/ Pop(w) \/ PopLost(w) \/ Stop(w) \/ Lookup(w) \/ LookupFails(w)
               \/ MarkFailed(w) \/ SendOk(w) \/ SendFails(w) \/ SetMessageId(w)
               \/ MarkSent(w) \/ Count(w) \/ Requeue(w)
        PROVE  UNCHANGED resent
    BY <2>4
    DEF Pop, PopLost, Stop, Lookup, LookupFails, MarkFailed, SendOk, SendFails, SetMessageId,
        MarkSent, Count, Requeue, history
  <2>5. ASSUME \/ \E c \in Clients, a \in Addrs : List(c, a)
               \/ Shutdown \/ Restart \/ Kill \/ UNCHANGED vars
        PROVE  UNCHANGED resent
    BY <2>5 DEF List, Shutdown, Restart, Kill, vars, history
  <2>6. UNCHANGED resent => RowFirst'
    BY <1>1, <2>1 DEF RowFirst
  <2> QED
    BY <1>3, <2>2, <2>3, <2>4, <2>5, <2>6 DEF Next, Step
<1> QED
  BY <1>2, <1>3

LEMMA PlacesAlways == Spec => []PlacesInv
<1>1. Init => RowFirst
  BY DEF Init, RowFirst
<1> QED
  BY <1>1, BudgetInit, BudgetStep, RowFirstStep, PTL DEF Spec, PlacesInv

LEMMA SubmitMoves ==
  ASSUME PlacesInv, NEW j \in JobIds, Submit(j)
  PROVE  Arrives(<<j, 0>>)
<1>1. /\ status \in [JobIds -> Statuses \cup {"none"}] /\ resent \in [JobIds -> 0..MaxResends]
      /\ queue \in Seq(Fresh)
  BY DEF PlacesInv, BudgetInv, AttemptsInv, RowsOK, HistoryOK, ListsOK
<1>2. /\ NewJob(j) \in Fresh /\ Key(NewJob(j)) = <<j, 0>>
      /\ queue' = LPush(queue, NewJob(j))
  BY JobFacts DEF Submit
<1>3. Waiting' = Waiting \cup {<<j, 0>>}
  BY <1>1, <1>2, PushKeys DEF Waiting
<1>4. status'[j] = "queued" /\ status[j] = "none"
      /\ \A i \in JobIds \ {j} : status'[i] = status[i]
  BY <1>1 DEF Submit
<1>5. <<j, 0>> \in Keys \ Issued /\ UNCHANGED resent /\ resent[j] = 0
  BY <1>4, MaxResendsAssumption DEF Issued, Keys, Submit, history, PlacesInv, RowFirst
<1>6. Issued' = Issued \cup {<<j, 0>>}
  <2>1. ASSUME NEW k \in Keys PROVE k \in Issued' <=> k \in Issued \cup {<<j, 0>>}
    <3>1. k = <<k[1], k[2]>> /\ k[1] \in JobIds /\ k[2] \in 0..MaxResends
      BY DEF Keys
    <3>2. CASE k[1] = j
      <4>1. k \in Issued' <=> k[2] <= 0
        BY <1>4, <1>5, <3>2 DEF Issued
      <4>2. k \notin Issued
        BY <1>4, <3>2 DEF Issued
      <4>3. k[2] <= 0 <=> k = <<j, 0>>
        BY <3>1, <3>2
      <4> QED
        BY <4>1, <4>2, <4>3
    <3>3. CASE k[1] # j
      BY <1>4, <1>5, <3>1, <3>3 DEF Issued
    <3> QED
      BY <3>2, <3>3
  <2> QED
    BY <1>5, <2>1 DEF Issued
<1>7. UNCHANGED <<Buried, InHands, tries>>
  BY DEF Submit, local, history, Buried, InHands, Carrying
<1> QED
  BY <1>3, <1>5, <1>6, <1>7 DEF Arrives

(* A repeated push, by a handler or by a worker, uses the job's next       *)
(* number.                                                                 *)
LEMMA NextNumber ==
  ASSUME AttemptsInv, NEW j \in JobIds, status[j] # "none", resent[j] < MaxResends,
         resent' = [resent EXCEPT ![j] = @ + 1], UNCHANGED status
  PROVE  /\ <<j, resent[j] + 1>> \in Keys \ Issued
         /\ Issued' = Issued \cup {<<j, resent[j] + 1>>}
<1>1. resent \in [JobIds -> 0..MaxResends] /\ MaxResends \in Nat
  BY MaxResendsAssumption DEF AttemptsInv, HistoryOK
<1>2. /\ resent[j] + 1 \in 0..MaxResends /\ resent'[j] = resent[j] + 1
      /\ \A i \in JobIds \ {j} : resent'[i] = resent[i]
  BY <1>1
<1>3. <<j, resent[j] + 1>> \in Keys \ Issued
  BY <1>1, <1>2 DEF Keys, Issued
<1>4. ASSUME NEW k \in Keys
      PROVE  k \in Issued' <=> k \in Issued \cup {<<j, resent[j] + 1>>}
  <2>1. k = <<k[1], k[2]>> /\ k[1] \in JobIds /\ k[2] \in 0..MaxResends
    BY DEF Keys
  <2>2. CASE k[1] = j
    <3>1. k[2] <= resent[j] + 1 <=> (k[2] <= resent[j] \/ k[2] = resent[j] + 1)
      BY <1>1, <2>1
    <3>2. k[2] = resent[j] + 1 <=> k = <<j, resent[j] + 1>>
      BY <2>1, <2>2
    <3> QED
      BY <1>2, <2>2, <3>1, <3>2 DEF Issued
  <2>3. CASE k[1] # j
    BY <1>2, <2>1, <2>3 DEF Issued
  <2> QED
    BY <2>2, <2>3
<1> QED
  BY <1>3, <1>4 DEF Issued

LEMMA PushAgainMoves ==
  ASSUME PlacesInv, NEW j \in JobIds, PushAgain(j)
  PROVE  Arrives(<<j, resent[j] + 1>>)
<1>1. AttemptsInv /\ queue \in Seq(Fresh) /\ resent \in [JobIds -> 0..MaxResends]
  BY DEF PlacesInv, BudgetInv, AttemptsInv, ListsOK, HistoryOK
<1>2. /\ <<j, resent[j] + 1>> \in Keys \ Issued
      /\ Issued' = Issued \cup {<<j, resent[j] + 1>>}
  BY <1>1, NextNumber DEF PushAgain, db
<1>3. resent[j] + 1 \in 0..MaxResends
  BY <1>1, MaxResendsAssumption DEF PushAgain
<1>4. Waiting' = Waiting \cup {<<j, resent[j] + 1>>}
  <2> DEFINE job == Resent(NewJob(j), resent[j] + 1)
  <2>1. job \in Fresh /\ Key(job) = <<j, resent[j] + 1>>
    BY <1>3, JobFacts, ResentFacts
  <2>2. queue' = LPush(queue, job)
    BY DEF PushAgain
  <2> HIDE DEF job
  <2>3. KeysIn(queue') = KeysIn(queue) \cup {Key(job)}
    BY <1>1, <2>1, <2>2, PushKeys
  <2> QED
    BY <2>1, <2>3 DEF Waiting
<1>5. UNCHANGED <<Buried, InHands, tries>>
  BY DEF PushAgain, local, Buried, InHands, Carrying
<1> QED
  BY <1>2, <1>4, <1>5 DEF Arrives

LEMMA PopMoves ==
  ASSUME PlacesInv, NEW w \in Workers, Pop(w)
  PROVE  Taken(Key(Popped(queue)))
<1> DEFINE job == Popped(queue)
<1>1. /\ AttemptsInv /\ queue \in Seq(Fresh) /\ queue # <<>> /\ queue' = AfterPop(queue)
      /\ pc \in [Workers -> PC] /\ held \in [Workers -> Job \cup {NoJob}]
  BY DEF PlacesInv, BudgetInv, AttemptsInv, ListsOK, HandsOK, Pop
<1>2. /\ job \in Fresh /\ Key(job) \in Keys
      /\ Len(queue) \in 1..Len(queue) /\ job = queue[Len(queue)]
  BY <1>1, PopFacts, JobFacts DEF Popped
<1>3. Key(job) \in Waiting /\ Waiting' = Waiting \ {Key(job)}
  BY <1>1, PopKeys DEF Waiting, PlacesInv, BudgetInv, Places, QueueApart
<1>4. tries[Key(job)] < MaxRetries
  BY <1>2, MaxRetriesAssumption DEF PlacesInv, BudgetInv, Counts, Fresh, Job
<1>5. InHands' = InHands \cup {Key(job)}
  <2>1. /\ pc[w] = "pop" /\ pc'[w] = "filter" /\ held'[w] = job
        /\ \A v \in Workers \ {w} : pc'[v] = pc[v] /\ held'[v] = held[v]
    BY <1>1 DEF Pop, Goto
  <2> HIDE DEF job
  <2>2. /\ Carrying(w)' /\ ~Carrying(w)
        /\ \A v \in Workers \ {w} : Carrying(v)' <=> Carrying(v)
    BY <2>1 DEF Carrying
  <2> QED
    BY <2>1, <2>2 DEF InHands
<1>6. UNCHANGED <<Buried, Issued>> /\ tries' = [tries EXCEPT ![Key(job)] = @ + 1]
  BY DEF Pop, db, Buried, Issued
<1> QED
  BY <1>3, <1>4, <1>5, <1>6 DEF Taken

(* A worker that lets go of a payload, alone or for the next one.          *)
LEMMA HandOpens ==
  ASSUME BudgetInv, NEW w \in Workers, Carrying(w),
         \A v \in Workers \ {w} : pc'[v] = pc[v] /\ held'[v] = held[v]
  PROVE  /\ Key(held[w]) \in InHands
         /\ ~Carrying(w)' => InHands' = InHands \ {Key(held[w])}
         /\ Carrying(w)' => InHands' = (InHands \ {Key(held[w])}) \cup {Key(held'[w])}
<1>1. \A v \in Workers \ {w} : Carrying(v) => Key(held[v]) # Key(held[w])
  BY DEF BudgetInv, Places, HandsApart
<1>2. \A v \in Workers \ {w} : Carrying(v)' <=> Carrying(v)
  BY DEF Carrying
<1> QED
  BY <1>1, <1>2 DEF InHands

(* The push of Retry, when it takes effect.                                *)
LEMMA RetryPushes ==
  ASSUME BudgetInv, NEW w \in Workers, pc[w] \in {"retry", "again"}
  PROVE  LET job == Retried(held[w]) IN
         /\ Carrying(w) /\ held[w] \in Fresh /\ held[w].id \in JobIds
         /\ Key(job) = Key(held[w]) /\ job.id = held[w].id
         /\ /\ queue' = IF ToDead(job) THEN queue ELSE RPush(queue, job)
            /\ dead' = IF ToDead(job) THEN RPush(dead, job) ELSE dead
            => PushedBack(Key(held[w]))
<1> DEFINE job == Retried(held[w])
<1>1. /\ AttemptsInv /\ queue \in Seq(Fresh) /\ dead \in Seq(Spent)
      /\ tries \in [Keys -> Nat]
  BY DEF BudgetInv, AttemptsInv, ListsOK, HistoryOK
<1>2. Carrying(w) /\ held[w] \in Fresh /\ held[w] \in Job
  BY <1>1, KeyTypes, JobFacts DEF Carrying
<1>3. /\ Key(held[w]) \in Keys /\ held[w].id \in JobIds
      /\ Key(job) = Key(held[w]) /\ job.id = held[w].id
      /\ job.attempts = held[w].attempts + 1
      /\ ToDead(job) => job \in Spent
      /\ ~ToDead(job) => job \in Fresh
  BY <1>2, JobFacts
<1>4. tries[Key(held[w])] = job.attempts
  BY <1>2, <1>3 DEF BudgetInv, Counts
<1>5. /\ ToDead(job) => tries[Key(held[w])] = MaxRetries
      /\ ~ToDead(job) => tries[Key(held[w])] < MaxRetries
  BY <1>3, <1>4 DEF Spent, Fresh
<1> HIDE DEF job
<1>6. ASSUME queue' = IF ToDead(job) THEN queue ELSE RPush(queue, job),
             dead' = IF ToDead(job) THEN RPush(dead, job) ELSE dead
      PROVE  PushedBack(Key(held[w]))
  <2>1. CASE ToDead(job)
    <3>1. KeysIn(dead') = KeysIn(dead) \cup {Key(job)} /\ UNCHANGED queue
      BY <1>1, <1>3, <1>6, <2>1, PushKeys
    <3> QED
      BY <1>3, <1>5, <2>1, <3>1 DEF PushedBack, Waiting, Buried
  <2>2. CASE ~ToDead(job)
    <3>1. KeysIn(queue') = KeysIn(queue) \cup {Key(job)} /\ UNCHANGED dead
      BY <1>1, <1>3, <1>6, <2>2, PushKeys
    <3> QED
      BY <1>3, <1>5, <2>2, <3>1 DEF PushedBack, Waiting, Buried
  <2> QED
    BY <2>1, <2>2
<1> QED
  BY <1>2, <1>3, <1>6 DEF job

LEMMA RequeueMoves ==
  ASSUME PlacesInv, NEW w \in Workers, Requeue(w)
  PROVE  Shrinks \/ Returned(Key(held[w]))
<1>1. /\ AttemptsInv /\ BudgetInv /\ pc[w] \in {"retry", "again"}
      /\ pc \in [Workers -> PC] /\ held \in [Workers -> Job \cup {NoJob}]
  BY DEF PlacesInv, BudgetInv, AttemptsInv, HandsOK, Requeue
<1>2. Carrying(w)
  BY <1>1, RetryPushes
<1>3. /\ ~Carrying(w)'
      /\ \A v \in Workers \ {w} : pc'[v] = pc[v] /\ held'[v] = held[v]
  BY <1>1 DEF Requeue, Drop, Goto, Carrying
<1>4. /\ InHands' = InHands \ {Key(held[w])} /\ Key(held[w]) \in InHands
  BY <1>1, <1>2, <1>3, HandOpens
<1>5. UNCHANGED <<Issued, tries>>
  BY DEF Requeue, db, Issued
<1>6. CASE UNCHANGED <<queue, dead>>
  BY <1>4, <1>5, <1>6 DEF Shrinks, Waiting, Buried
<1>7. CASE ~ UNCHANGED <<queue, dead>>
  <2> DEFINE job == Retried(held[w])
  <2>1. /\ queue' = IF ToDead(job) THEN queue ELSE RPush(queue, job)
        /\ dead' = IF ToDead(job) THEN RPush(dead, job) ELSE dead
    BY <1>7 DEF Requeue
  <2> HIDE DEF job
  <2>2. PushedBack(Key(held[w]))
    BY <1>1, <2>1, RetryPushes DEF job
  <2> QED
    BY <1>4, <1>5, <2>2 DEF Returned
<1> QED
  BY <1>6, <1>7

LEMMA PushTwiceMoves ==
  ASSUME PlacesInv, NEW w \in Workers, PushTwice(w)
  PROVE  Doubled(Key(held[w]), <<held[w].id, resent[held[w].id] + 1>>)
<1> DEFINE j == held[w].id
           n == <<j, resent[j] + 1>>
<1>1. /\ AttemptsInv /\ BudgetInv /\ pc[w] \in {"retry", "again"}
      /\ pc \in [Workers -> PC] /\ held \in [Workers -> Job \cup {NoJob}]
      /\ resent \in [JobIds -> 0..MaxResends]
  BY DEF PlacesInv, BudgetInv, AttemptsInv, HandsOK, HistoryOK, PushTwice
<1>2. /\ Carrying(w) /\ held[w] \in Fresh /\ j \in JobIds
      /\ Key(Retried(held[w])) = Key(held[w]) /\ Retried(held[w]).id = j
  BY <1>1, RetryPushes
<1>3. status[j] # "none" /\ Key(held[w])[1] = j
  <2>1. held[w] # NoJob
    BY <1>1, <1>2, KeyTypes
  <2>2. Key(held[w]) \in Issued
    BY <1>1, <2>1 DEF BudgetInv, Places, Known
  <2> QED
    BY <1>2, <2>2, JobFacts DEF Issued
<1>4. /\ resent' = [resent EXCEPT ![j] = @ + 1] /\ resent[j] < MaxResends
      /\ UNCHANGED status
  BY <1>2 DEF PushTwice, db
<1>5. n \in Keys \ Issued /\ Issued' = Issued \cup {n}
  BY <1>1, <1>2, <1>3, <1>4, NextNumber
<1>6. resent[j] + 1 \in 0..MaxResends
  BY <1>1, <1>2, <1>4, MaxResendsAssumption
<1>7. /\ held' = [held EXCEPT ![w] = Resent(held[w], resent[j] + 1)]
      /\ pc' = [pc EXCEPT ![w] = "again"]
      /\ tries' = [tries EXCEPT ![Key(Resent(held[w], resent[j] + 1))] = tries[Key(held[w])]]
  BY <1>2 DEF PushTwice, Goto
<1>8. Key(Resent(held[w], resent[j] + 1)) = n
  BY <1>2, <1>6, ResentFacts
<1>9. /\ Carrying(w)' /\ Key(held'[w]) = n
      /\ \A v \in Workers \ {w} : pc'[v] = pc[v] /\ held'[v] = held[v]
  BY <1>1, <1>7, <1>8 DEF Carrying
<1>10. InHands' = (InHands \ {Key(held[w])}) \cup {n} /\ Key(held[w]) \in InHands
  BY <1>1, <1>2, <1>9, HandOpens
<1>11. PushedBack(Key(held[w]))
  <2> DEFINE job == Retried(held[w])
  <2>1. /\ queue' = IF ToDead(job) THEN queue ELSE RPush(queue, job)
        /\ dead' = IF ToDead(job) THEN RPush(dead, job) ELSE dead
    BY DEF PushTwice
  <2> QED
    BY <1>1, <2>1, RetryPushes
<1>12. tries' = [tries EXCEPT ![n] = tries[Key(held[w])]]
  BY <1>7, <1>8
<1> QED
  BY <1>5, <1>10, <1>11, <1>12 DEF Doubled

LEMMA OtherMoves ==
  ASSUME PlacesInv, [Next]_vars,
         \A j \in JobIds : ~Submit(j) /\ ~PushAgain(j),
         \A w \in Workers : ~Pop(w) /\ ~PushTwice(w) /\ ~Requeue(w)
  PROVE  Shrinks
<1>1. /\ AttemptsInv /\ BudgetInv /\ Places
      /\ pc \in [Workers -> PC] /\ held \in [Workers -> Job \cup {NoJob}]
      /\ queue \in Seq(Fresh)
  BY DEF PlacesInv, BudgetInv, AttemptsInv, HandsOK, ListsOK
<1>2. \A j \in JobIds : status'[j] = "none" <=> status[j] = "none"
  BY <1>1, RowsMade
<1>3. ASSUME UNCHANGED <<queue, dead, resent, tries>>,
             \A v \in Workers : Carrying(v)' => Carrying(v) /\ held'[v] = held[v]
      PROVE  Shrinks
  <2>1. InHands' \subseteq InHands
    BY <1>3 DEF InHands
  <2>2. Issued' = Issued
    BY <1>1, <1>2, <1>3, SameIssued
  <2> QED
    BY <1>3, <2>1, <2>2 DEF Shrinks, Waiting, Buried
<1>4. CASE Quiet
  BY <1>1, <1>3, <1>4, JobFacts DEF Quiet, AttemptsInv, HandsOK, HandOK, Carrying
<1>5. ASSUME NEW w \in Workers, SendOk(w) \/ SendFails(w) PROVE Shrinks
  <2>1. UNCHANGED <<queue, dead, resent, tries, held>>
    BY <1>5 DEF SendOk, SendFails, redis
  <2>2. \A v \in Workers : Carrying(v)' => Carrying(v)
    BY <1>1, <1>5 DEF SendOk, SendFails, Goto, Carrying
  <2> QED
    BY <1>3, <2>1, <2>2
<1>6. ASSUME NEW w \in Workers, PopLost(w) PROVE Shrinks
  <2>1. /\ queue # <<>> /\ queue' = AfterPop(queue)
        /\ UNCHANGED <<dead, resent, tries, held>>
    BY <1>6 DEF PopLost
  <2>2. KeysIn(queue') \subseteq KeysIn(queue)
    BY <1>1, <2>1, PopKeys DEF Places, QueueApart
  <2>3. \A v \in Workers : Carrying(v)' => Carrying(v)
    BY <1>1, <1>6 DEF PopLost, Goto, Carrying
  <2>4. InHands' \subseteq InHands
    BY <2>1, <2>3 DEF InHands
  <2>5. Issued' = Issued
    BY <1>1, <1>2, <2>1, SameIssued
  <2> QED
    BY <2>1, <2>2, <2>4, <2>5 DEF Shrinks, Waiting, Buried
<1> QED
  BY <1>1, <1>4, <1>5, <1>6, QuietActions DEF Next, Step

(* What any step may do to the places of the payloads.                     *)
LEMMA Moves ==
  ASSUME PlacesInv, [Next]_vars
  PROVE  \/ Shrinks
         \/ \E k \in Keys : Arrives(k) \/ Taken(k) \/ Returned(k)
         \/ \E k, n \in Keys : Doubled(k, n)
<1>1. Waiting \subseteq Keys /\ InHands \subseteq Keys
  BY SetsApart DEF PlacesInv
<1>2. ASSUME NEW j \in JobIds, Submit(j) PROVE \E k \in Keys : Arrives(k)
  BY <1>2, SubmitMoves DEF Arrives
<1>3. ASSUME NEW j \in JobIds, PushAgain(j) PROVE \E k \in Keys : Arrives(k)
  BY <1>3, PushAgainMoves DEF Arrives
<1>4. ASSUME NEW w \in Workers, Pop(w) PROVE \E k \in Keys : Taken(k)
  BY <1>1, <1>4, PopMoves DEF Taken
<1>5. ASSUME NEW w \in Workers, Requeue(w) PROVE Shrinks \/ \E k \in Keys : Returned(k)
  BY <1>1, <1>5, RequeueMoves DEF Returned
<1>6. ASSUME NEW w \in Workers, PushTwice(w) PROVE \E k, n \in Keys : Doubled(k, n)
  BY <1>1, <1>6, PushTwiceMoves DEF Doubled
<1> QED
  BY <1>2, <1>3, <1>4, <1>5, <1>6, OtherMoves

-----------------------------------------------------------------------------
(* The pool implements DeliveryContract: each of these moves is an action  *)
(* of the contract or leaves it alone.                                     *)

(* The phase of a payload, by the sets.                                    *)
PlaceOf(k) ==
  IF k \notin Issued THEN "new"
  ELSE IF k \in Waiting THEN "waiting"
  ELSE IF k \in Buried THEN "dead"
  ELSE IF k \in InHands THEN "working" ELSE "gone"

LEMMA PhaseIsPlace == PlacesInv => \A k \in Keys : PhaseOf(k) = PlaceOf(k)
<1> SUFFICES ASSUME PlacesInv, NEW k \in Keys PROVE PhaseOf(k) = PlaceOf(k)
  OBVIOUS
<1>1. AttemptsInv /\ resent \in [JobIds -> 0..MaxResends]
  BY DEF PlacesInv, BudgetInv, AttemptsInv, HistoryOK
<1>2. k[1] \in JobIds /\ k[2] \in Nat /\ resent[k[1]] \in Nat
  BY <1>1, MaxResendsAssumption DEF Keys
<1>3. (status[k[1]] = "none" \/ k[2] > resent[k[1]]) <=> k \notin Issued
  BY <1>2 DEF Issued
<1>4. (\E i \in 1..Len(queue) : Key(queue[i]) = k) <=> k \in Waiting
  BY DEF Waiting, KeysIn
<1>5. (\E i \in 1..Len(dead) : Key(dead[i]) = k) <=> k \in Buried
  BY DEF Buried, KeysIn
<1>6. (\E w \in Workers : Carries(w, k)) <=> k \in InHands
  <2>1. \A w \in Workers : Carries(w, k) <=> Carrying(w) /\ Key(held[w]) = k
    BY <1>1, JobFacts DEF AttemptsInv, HandsOK, HandOK, Carries, Carrying, PC
  <2> QED
    BY <2>1 DEF InHands
<1> QED
  BY <1>3, <1>4, <1>5, <1>6 DEF PhaseOf, PlaceOf

(* What each move does to the phases.                                      *)
LEMMA PlacesMove ==
  ASSUME PlacesInv, PlacesInv', NEW k \in Keys
  PROVE  /\ Shrinks =>
              \/ PlaceOf(k)' = PlaceOf(k)
              \/ PlaceOf(k) \in {"waiting", "working"} /\ PlaceOf(k)' = "gone"
         /\ \A a \in Keys : Arrives(a) =>
              /\ PlaceOf(a) = "new"
              /\ PlaceOf(k)' = IF k = a THEN "waiting" ELSE PlaceOf(k)
         /\ \A a \in Keys : Taken(a) =>
              /\ PlaceOf(a) = "waiting"
              /\ PlaceOf(k)' = IF k = a THEN "working" ELSE PlaceOf(k)
         /\ \A a \in Keys : Returned(a) =>
              /\ PlaceOf(a) = "working"
              /\ PlaceOf(k)' = IF k # a THEN PlaceOf(k)
                               ELSE IF tries[a] < MaxRetries THEN "waiting" ELSE "dead"
         /\ \A a, n \in Keys : Doubled(a, n) =>
              /\ PlaceOf(a) = "working" /\ PlaceOf(n) = "new"
              /\ PlaceOf(k)' = IF k = n THEN "working"
                               ELSE IF k # a THEN PlaceOf(k)
                               ELSE IF tries[a] < MaxRetries THEN "waiting" ELSE "dead"
<1>1. /\ Waiting \cap Buried = {} /\ Waiting \cap InHands = {} /\ Buried \cap InHands = {}
      /\ Waiting \subseteq Issued /\ Buried \subseteq Issued /\ InHands \subseteq Issued
  BY SetsApart DEF PlacesInv
<1>2. MaxRetries \in Nat
  BY MaxRetriesAssumption
<1>3. ASSUME Shrinks
      PROVE  \/ PlaceOf(k)' = PlaceOf(k)
             \/ PlaceOf(k) \in {"waiting", "working"} /\ PlaceOf(k)' = "gone"
  BY <1>1, <1>3 DEF Shrinks, PlaceOf
<1>4. ASSUME NEW a \in Keys, Arrives(a)
      PROVE  /\ PlaceOf(a) = "new"
             /\ PlaceOf(k)' = IF k = a THEN "waiting" ELSE PlaceOf(k)
  BY <1>1, <1>4 DEF Arrives, PlaceOf
<1>5. ASSUME NEW a \in Keys, Taken(a)
      PROVE  /\ PlaceOf(a) = "waiting"
             /\ PlaceOf(k)' = IF k = a THEN "working" ELSE PlaceOf(k)
  BY <1>1, <1>5 DEF Taken, PlaceOf
<1>6. ASSUME NEW a \in Keys, Returned(a)
      PROVE  /\ PlaceOf(a) = "working"
             /\ PlaceOf(k)' = IF k # a THEN PlaceOf(k)
                              ELSE IF tries[a] < MaxRetries THEN "waiting" ELSE "dead"
  BY <1>1, <1>2, <1>6 DEF Returned, PushedBack, PlaceOf
<1>7. ASSUME NEW a \in Keys, NEW n \in Keys, Doubled(a, n)
      PROVE  /\ PlaceOf(a) = "working" /\ PlaceOf(n) = "new"
             /\ PlaceOf(k)' = IF k = n THEN "working"
                              ELSE IF k # a THEN PlaceOf(k)
                              ELSE IF tries[a] < MaxRetries THEN "waiting" ELSE "dead"
  BY <1>1, <1>2, <1>7 DEF Doubled, PushedBack, PlaceOf
<1> QED
  BY <1>3, <1>4, <1>5, <1>6, <1>7

LEMMA ContractStep ==
  ASSUME PlacesInv, PlacesInv', [Next]_vars
  PROVE  [Contract!Next]_<<[k \in Keys |-> PhaseOf(k)], tries>>
<1> DEFINE phase == [k \in Keys |-> PhaseOf(k)]
<1>1. \A k \in Keys : phase[k] = PlaceOf(k)
  BY PhaseIsPlace
<1>2. \A k \in Keys : phase'[k] = PlaceOf(k)'
  <2>1. (PlacesInv => \A k \in Keys : PhaseOf(k) = PlaceOf(k))'
    BY PhaseIsPlace, PTL
  <2> QED
    BY <2>1
<1>3. tries \in [Keys -> Nat] /\ MaxRetries \in Nat
  BY MaxRetriesAssumption DEF PlacesInv, BudgetInv, AttemptsInv, HistoryOK
<1>4. \A k \in Keys : tries[k] <= MaxRetries
  BY DEF PlacesInv, BudgetInv, Counts
<1>5. phase = [k \in Keys |-> phase[k]] /\ phase' = [k \in Keys |-> phase'[k]]
  OBVIOUS
<1> HIDE DEF phase
<1>6. CASE Shrinks
  <2> DEFINE S == {k \in Keys : PlaceOf(k)' # PlaceOf(k)}
  <2>1. UNCHANGED tries
    BY <1>6 DEF Shrinks
  <2>2. \A k \in S : phase[k] \in {"waiting", "working"} /\ phase'[k] = "gone"
    BY <1>1, <1>2, <1>6, PlacesMove
  <2>3. \A k \in Keys \ S : phase'[k] = phase[k]
    BY <1>1, <1>2
  <2>4. CASE S = {}
    BY <1>5, <2>1, <2>3, <2>4 DEF phase
  <2>5. CASE S # {}
    <3> HIDE DEF S
    <3>1. S \in SUBSET Keys
      BY DEF S
    <3>2. \A k \in Keys : phase'[k] = IF k \in S THEN "gone" ELSE phase[k]
      BY <2>2, <2>3
    <3>3. phase' = [k \in Keys |-> IF k \in S THEN "gone" ELSE phase[k]]
      BY <1>5, <3>2
    <3>4. Contract!Leave(S)
      BY <2>1, <2>2, <2>5, <3>3 DEF Contract!Leave, phase
    <3> QED
      BY <3>1, <3>4 DEF Contract!Next
  <2> QED
    BY <2>4, <2>5
<1>7. ASSUME NEW a \in Keys, Arrives(a) PROVE Contract!Submit(a)
  <2>1. phase[a] = "new" /\ \A k \in Keys : phase'[k] = IF k = a THEN "waiting" ELSE phase[k]
    BY <1>1, <1>2, <1>7, PlacesMove
  <2>2. phase' = [phase EXCEPT ![a] = "waiting"]
    BY <1>5, <2>1
  <2> QED
    BY <1>7, <2>1, <2>2 DEF Contract!Submit, Contract!Move, Arrives, phase
<1>8. ASSUME NEW a \in Keys, Taken(a) PROVE Contract!Take(a)
  <2>1. phase[a] = "waiting" /\ \A k \in Keys : phase'[k] = IF k = a THEN "working" ELSE phase[k]
    BY <1>1, <1>2, <1>8, PlacesMove
  <2>2. phase' = [phase EXCEPT ![a] = "working"]
    BY <1>5, <2>1
  <2> QED
    BY <1>8, <2>1, <2>2 DEF Contract!Take, Contract!Move, Taken, phase
<1>9. ASSUME NEW a \in Keys, Returned(a) PROVE Contract!GiveBack(a) \/ Contract!Bury(a)
  <2> DEFINE to == IF tries[a] < MaxRetries THEN "waiting" ELSE "dead"
  <2>1. phase[a] = "working" /\ \A k \in Keys : phase'[k] = IF k # a THEN phase[k] ELSE to
    BY <1>1, <1>2, <1>9, PlacesMove
  <2>2. phase' = [phase EXCEPT ![a] = to]
    BY <1>5, <2>1
  <2>3. tries[a] < MaxRetries \/ tries[a] = MaxRetries
    BY <1>3, <1>4
  <2>4. UNCHANGED tries
    BY <1>9 DEF Returned
  <2> QED
    BY <1>3, <2>1, <2>2, <2>3, <2>4
    DEF Contract!GiveBack, Contract!Bury, Contract!Move, phase
<1>10. ASSUME NEW a \in Keys, NEW n \in Keys, Doubled(a, n) PROVE Contract!Split(a, n)
  <2> DEFINE to == IF tries[a] < MaxRetries THEN "waiting" ELSE "dead"
  <2>1. /\ phase[a] = "working" /\ phase[n] = "new"
        /\ \A k \in Keys : phase'[k] = IF k = n THEN "working"
                                       ELSE IF k # a THEN phase[k] ELSE to
    BY <1>1, <1>2, <1>10, PlacesMove
  <2>2. phase' = [phase EXCEPT ![a] = to, ![n] = "working"]
    BY <1>5, <2>1
  <2>3. tries' = [tries EXCEPT ![n] = tries[a]]
    BY <1>10 DEF Doubled
  <2> QED
    BY <2>1, <2>2, <2>3 DEF Contract!Split, phase
<1> QED
  BY <1>6, <1>7, <1>8, <1>9, <1>10, Moves DEF Contract!Next

(* The lists, the workers, their failures and restarts implement what the  *)
(* contract promises of one payload: it is in one phase, is taken at most  *)
(* MaxRetries times, is buried after the last attempt and no earlier, and  *)
(* never returns once it is buried or gone (queue.go 63-106, main.go       *)
(* 131-240).                                                               *)
THEOREM PoolImplementsContract == Spec => ImplementsContract
<1>1. Init => Contract!Init
  <2> SUFFICES ASSUME Init PROVE Contract!Init
    OBVIOUS
  <2>1. \A k \in Keys : k[1] \in JobIds
    BY DEF Keys
  <2> QED
    BY <2>1 DEF Init, Contract!Init, PhaseOf
<1>2. PlacesInv /\ PlacesInv' /\ [Next]_vars
        => [Contract!Next]_<<[k \in Keys |-> PhaseOf(k)], tries>>
  BY ContractStep
<1> QED
  BY <1>1, <1>2, PlacesAlways, PTL DEF Spec, ImplementsContract, Contract!Spec

-----------------------------------------------------------------------------
(* The daily count.  A payload that was accepted and is neither waiting    *)
(* nor in a worker's hand stays so, and each step of sentStat adds one.    *)

SentMeansAccepted ==
  \A w \in Workers : pc[w] \in {"setid", "marksent", "count"} => accepted[Key(held[w])] > 0

Accepted == {k \in Keys : accepted[k] > 0}

(* The payloads of client c that may have been counted.                    *)
Delivered(c) ==
  {k \in Issued : Owner[k[1]] = c /\ accepted[k] > 0 /\ k \notin Waiting /\ k \notin InHands}

CountedOnce == \A c \in Clients : sentStat[c] <= Cardinality(Delivered(c))

StatsInv == SentMeansAccepted /\ IsFiniteSet(Accepted) /\ CountedOnce

LEMMA StatsInit == Init => StatsInv
<1> SUFFICES ASSUME Init PROVE StatsInv
  OBVIOUS
<1>1. SentMeansAccepted
  BY DEF Init, SentMeansAccepted
<1>2. Accepted = {} /\ \A c \in Clients : Delivered(c) = {}
  BY DEF Init, Accepted, Delivered, Issued
<1>3. IsFiniteSet(Accepted)
  BY <1>2, FS_EmptySet
<1>4. CountedOnce
  <2>1. \A c \in Clients : sentStat[c] = 0
    BY DEF Init
  <2>2. \A c \in Clients : Cardinality(Delivered(c)) = 0
    BY <1>2, FS_EmptySet
  <2> QED
    BY <2>1, <2>2 DEF CountedOnce
<1> QED
  BY <1>1, <1>3, <1>4 DEF StatsInv

(* Copies are only added, by a worker that sends, to its own payload.      *)
LEMMA AcceptedSteps ==
  ASSUME AttemptsInv, [Next]_vars
  PROVE  \/ UNCHANGED accepted
         \/ \E w \in Workers, n \in Nat :
              /\ pc[w] = "send" /\ Key(held[w]) \in Keys
              /\ accepted' = [accepted EXCEPT ![Key(held[w])] = @ + n]
<1>1. ASSUME NEW w \in Workers, SendOk(w) \/ SendFails(w)
      PROVE  \E n \in Nat : /\ pc[w] = "send" /\ Key(held[w]) \in Keys
                            /\ accepted' = [accepted EXCEPT ![Key(held[w])] = @ + n]
  <2>1. pc[w] = "send" /\ Key(held[w]) \in Keys
    BY <1>1, HeldFacts DEF SendOk, SendFails
  <2>2. PICK n \in 0..SdkAttempts : accepted' = [accepted EXCEPT ![Key(held[w])] = @ + n]
    BY <1>1, WorkerAssumption DEF SendOk, SendFails
  <2>3. n \in Nat
    BY WorkerAssumption
  <2> WITNESS n \in Nat
  <2> QED
    BY <2>1, <2>2
<1>2. ASSUME NEW w \in Workers,
             \/ Pop(w) \/ PopLost(w) \/ Stop(w) \/ Lookup(w) \/ LookupFails(w)
             \/ MarkFailed(w) \/ SetMessageId(w) \/ MarkSent(w) \/ Count(w)
             \/ PushTwice(w) \/ Requeue(w)
      PROVE  UNCHANGED accepted
  BY <1>2
  DEF Pop, PopLost, Stop, Lookup, LookupFails, MarkFailed, SetMessageId, MarkSent, Count,
      PushTwice, Requeue, history
<1>3. ASSUME \/ \E j \in JobIds : Submit(j) \/ PushAgain(j)
             \/ \E c \in Clients, a \in Addrs : List(c, a)
             \/ Shutdown \/ Restart \/ Kill \/ UNCHANGED vars
      PROVE  UNCHANGED accepted
  BY <1>3 DEF Submit, PushAgain, List, Shutdown, Restart, Kill, vars, history
<1> QED
  BY <1>1, <1>2, <1>3 DEF Next, Step

LEMMA AcceptedGrows ==
  ASSUME AttemptsInv, [Next]_vars
  PROVE  /\ \A k \in Keys : accepted[k] > 0 => accepted'[k] > 0
         /\ IsFiniteSet(Accepted) => IsFiniteSet(Accepted')
<1>1. accepted \in [Keys -> Nat]
  BY DEF AttemptsInv, HistoryOK
<1>2. CASE UNCHANGED accepted
  BY <1>2 DEF Accepted
<1>3. ASSUME NEW w \in Workers, NEW n \in Nat, Key(held[w]) \in Keys,
             accepted' = [accepted EXCEPT ![Key(held[w])] = @ + n]
      PROVE  /\ \A k \in Keys : accepted[k] > 0 => accepted'[k] > 0
             /\ IsFiniteSet(Accepted) => IsFiniteSet(Accepted')
  <2>1. \A k \in Keys : accepted[k] > 0 => accepted'[k] > 0
    BY <1>1, <1>3
  <2>2. Accepted' \subseteq Accepted \cup {Key(held[w])}
    BY <1>1, <1>3 DEF Accepted
  <2>3. IsFiniteSet(Accepted) => IsFiniteSet(Accepted \cup {Key(held[w])})
    BY FS_AddElement
  <2> QED
    BY <2>1, <2>2, <2>3, FS_Subset
<1> QED
  BY <1>2, <1>3, AcceptedSteps

LEMMA SentMeansAcceptedStep ==
  AttemptsInv /\ SentMeansAccepted /\ [Next]_vars => SentMeansAccepted'
<1> SUFFICES ASSUME AttemptsInv, SentMeansAccepted, [Next]_vars,
                    NEW v \in Workers, pc'[v] \in {"setid", "marksent", "count"}
             PROVE  accepted'[Key(held'[v])] > 0
  BY DEF SentMeansAccepted
<1>1. /\ pc \in [Workers -> PC] /\ held \in [Workers -> Job \cup {NoJob}]
      /\ accepted \in [Keys -> Nat]
  BY DEF AttemptsInv, HandsOK, HistoryOK
<1>2. ASSUME held'[v] = held[v], pc[v] \in {"setid", "marksent", "count"}
      PROVE  accepted'[Key(held'[v])] > 0
  <2>1. Key(held[v]) \in Keys
    BY <1>2, HeldFacts
  <2> QED
    BY <1>2, <2>1, AcceptedGrows DEF SentMeansAccepted
<1>3. ASSUME NEW w \in Workers, w # v, Step(w) PROVE accepted'[Key(held'[v])] > 0
  BY <1>2, <1>3, OnlyMine
<1>4. CASE SendOk(v)
  <2>1. Key(held[v]) \in Keys /\ held'[v] = held[v]
    BY <1>4, HeldFacts DEF SendOk
  <2>2. PICK n \in 1..SdkAttempts : accepted' = [accepted EXCEPT ![Key(held[v])] = @ + n]
    BY <1>4 DEF SendOk
  <2> QED
    BY <1>1, <2>1, <2>2, WorkerAssumption
<1>5. CASE SetMessageId(v) \/ MarkSent(v)
  BY <1>1, <1>2, <1>5 DEF SetMessageId, MarkSent
<1>6. CASE \/ Pop(v) \/ PopLost(v) \/ Stop(v) \/ Lookup(v) \/ LookupFails(v)
           \/ MarkFailed(v) \/ SendFails(v) \/ Count(v) \/ PushTwice(v) \/ Requeue(v)
  BY <1>1, <1>6
  DEF Pop, PopLost, Stop, Lookup, LookupFails, MarkFailed, SendFails, Count, PushTwice,
      Requeue, Drop, Goto
<1>7. CASE \/ \E j \in JobIds : Submit(j) \/ PushAgain(j)
           \/ \E c \in Clients, a \in Addrs : List(c, a)
           \/ Shutdown \/ UNCHANGED vars
  BY <1>2, <1>7 DEF Submit, PushAgain, List, Shutdown, vars, local
<1>8. CASE Restart \/ Kill
  BY <1>8 DEF Restart, Kill, FreshPool
<1> QED
  BY <1>3, <1>4, <1>5, <1>6, <1>7, <1>8 DEF Next, Step

(* A payload that is done stays done.                                      *)
LEMMA DeliveredStays ==
  ASSUME PlacesInv, [Next]_vars, NEW c \in Clients
  PROVE  Delivered(c) \subseteq Delivered(c)'
<1>1. /\ Waiting \subseteq Issued /\ InHands \subseteq Issued /\ Issued \subseteq Keys
      /\ AttemptsInv
  BY SetsApart DEF PlacesInv, BudgetInv
<1>2. \A k \in Issued : k \notin Waiting /\ k \notin InHands =>
        k \in Issued' /\ k \notin Waiting' /\ k \notin InHands'
  BY <1>1, Moves DEF Shrinks, Arrives, Taken, Returned, Doubled, PushedBack
<1> QED
  BY <1>1, <1>2, AcceptedGrows DEF Delivered

LEMMA CountedStep ==
  ASSUME PlacesInv, StatsInv, [Next]_vars, IsFiniteSet(Accepted')
  PROVE  CountedOnce'
<1> SUFFICES ASSUME NEW c \in Clients PROVE sentStat'[c] <= Cardinality(Delivered(c)')
  BY DEF CountedOnce
<1>1. /\ AttemptsInv /\ BudgetInv /\ sentStat \in [Clients -> Nat]
      /\ pc \in [Workers -> PC] /\ held \in [Workers -> Job \cup {NoJob}]
  BY DEF PlacesInv, BudgetInv, AttemptsInv, RowsOK, HandsOK
<1>2. Delivered(c) \subseteq Accepted /\ Delivered(c)' \subseteq Accepted'
  BY DEF Delivered, Accepted, Issued
<1>3. IsFiniteSet(Delivered(c)) /\ IsFiniteSet(Delivered(c)')
  BY <1>2, FS_Subset DEF StatsInv
<1>4. /\ Delivered(c) \subseteq Delivered(c)'
      /\ Cardinality(Delivered(c)) <= Cardinality(Delivered(c)')
      /\ Cardinality(Delivered(c)) \in Nat /\ Cardinality(Delivered(c)') \in Nat
  BY <1>3, DeliveredStays, FS_Subset, FS_CardinalityType
<1>5. sentStat[c] <= Cardinality(Delivered(c)) /\ sentStat[c] \in Nat
  BY <1>1 DEF StatsInv, CountedOnce
<1>6. CASE UNCHANGED sentStat
  BY <1>4, <1>5, <1>6
<1>7. ASSUME NEW w \in Workers, Count(w) PROVE sentStat'[c] <= Cardinality(Delivered(c)')
  <2> DEFINE k == Key(held[w])
  <2>1. held[w] \in Job /\ held[w] # NoJob /\ k \in Keys /\ Carrying(w)
        /\ k[1] = held[w].id /\ held[w].id \in JobIds
    BY <1>1, <1>7, HeldFacts, JobFacts DEF Count, Carrying
  <2>2. sentStat'[c] = sentStat[c]
          \/ (Owner[held[w].id] = c /\ sentStat'[c] = sentStat[c] + 1)
    BY <1>1, <1>7 DEF Count
  <2>3. CASE Owner[held[w].id] = c
    <3>1. k \in Issued /\ accepted[k] > 0 /\ k \in InHands
      BY <1>1, <1>7, <2>1
      DEF BudgetInv, Places, Known, StatsInv, SentMeansAccepted, Count, InHands
    <3>2. k \notin Waiting
      BY <1>1, <3>1, SetsApart
    <3>3. ~Carrying(w)' /\ \A v \in Workers \ {w} : pc'[v] = pc[v] /\ held'[v] = held[v]
      BY <1>1, <1>7 DEF Count, Drop, Goto, Carrying
    <3>4. k \notin InHands'
      BY <1>1, <2>1, <3>3, HandOpens
    <3>5. UNCHANGED <<queue, status, resent, accepted>>
      BY <1>7 DEF Count, redis
    <3>6. k \in Delivered(c)' /\ k \notin Delivered(c)
      BY <2>1, <2>3, <3>1, <3>2, <3>4, <3>5 DEF Delivered, Issued, Waiting
    <3>7. Delivered(c) \cup {k} \subseteq Delivered(c)'
      BY <1>4, <3>6
    <3>8. IsFiniteSet(Delivered(c) \cup {k})
          /\ Cardinality(Delivered(c) \cup {k}) = Cardinality(Delivered(c)) + 1
      BY <1>3, <3>6, FS_AddElement
    <3>9. Cardinality(Delivered(c)) + 1 <= Cardinality(Delivered(c)')
      BY <1>3, <3>7, <3>8, FS_Subset
    <3> QED
      BY <1>4, <1>5, <2>2, <3>9
  <2>4. CASE Owner[held[w].id] # c
    BY <1>4, <1>5, <2>2, <2>4
  <2> QED
    BY <2>3, <2>4
<1>8. ASSUME NEW w \in Workers,
             \/ Pop(w) \/ PopLost(w) \/ Stop(w) \/ Lookup(w) \/ LookupFails(w)
             \/ MarkFailed(w) \/ SendOk(w) \/ SendFails(w) \/ SetMessageId(w)
             \/ MarkSent(w) \/ PushTwice(w) \/ Requeue(w)
      PROVE  UNCHANGED sentStat
  BY <1>8
  DEF Pop, PopLost, Stop, Lookup, LookupFails, MarkFailed, SendOk, SendFails, SetMessageId,
      MarkSent, PushTwice, Requeue, db
<1>9. ASSUME \/ \E j \in JobIds : Submit(j) \/ PushAgain(j)
             \/ \E d \in Clients, a \in Addrs : List(d, a)
             \/ Shutdown \/ Restart \/ Kill \/ UNCHANGED vars
      PROVE  UNCHANGED sentStat
  BY <1>9 DEF Submit, PushAgain, List, Shutdown, Restart, Kill, vars, db
<1> QED
  BY <1>6, <1>7, <1>8, <1>9 DEF Next, Step

LEMMA StatsAlways == Spec => []StatsInv
<1>1. PlacesInv /\ StatsInv /\ [Next]_vars => StatsInv'
  <2> SUFFICES ASSUME PlacesInv, StatsInv, [Next]_vars PROVE StatsInv'
    OBVIOUS
  <2>1. AttemptsInv /\ SentMeansAccepted
    BY DEF PlacesInv, BudgetInv, StatsInv
  <2>2. SentMeansAccepted'
    BY <2>1, SentMeansAcceptedStep
  <2>3. IsFiniteSet(Accepted')
    BY <2>1, AcceptedGrows DEF StatsInv
  <2>4. CountedOnce'
    BY <2>3, CountedStep
  <2> QED
    BY <2>2, <2>3, <2>4 DEF StatsInv
<1> QED
  BY <1>1, StatsInit, PlacesAlways, PTL DEF Spec

(* A client's daily count of sent messages never exceeds its payloads that *)
(* SES accepted: no retry, restart or lost answer counts one twice, and    *)
(* none is counted that SES never took (main.go 228-237).                  *)
THEOREM StatsAreHonest == Spec => []StatsHonest
<1>1. AttemptsInv /\ StatsInv => StatsHonest
  <2> SUFFICES ASSUME AttemptsInv, StatsInv, NEW c \in Clients
               PROVE  sentStat[c]
                        <= Cardinality({k \in Keys : Owner[k[1]] = c /\ accepted[k] > 0})
    BY DEF StatsHonest
  <2> DEFINE mine == {k \in Keys : Owner[k[1]] = c /\ accepted[k] > 0}
  <2>1. mine \subseteq Accepted /\ Delivered(c) \subseteq mine
    BY DEF Accepted, Delivered, Issued
  <2>2. IsFiniteSet(mine)
    BY <2>1, FS_Subset DEF StatsInv
  <2> HIDE DEF mine
  <2>3. /\ Cardinality(Delivered(c)) <= Cardinality(mine)
        /\ Cardinality(Delivered(c)) \in Nat /\ Cardinality(mine) \in Nat
    BY <2>1, <2>2, FS_Subset, FS_CardinalityType
  <2>4. sentStat[c] <= Cardinality(Delivered(c)) /\ sentStat[c] \in Nat
    BY DEF StatsInv, CountedOnce, AttemptsInv, RowsOK
  <2>5. sentStat[c] <= Cardinality(mine)
    BY <2>3, <2>4
  <2> QED
    BY <2>5 DEF mine
<1> QED
  BY <1>1, AttemptsAlways, StatsAlways, PTL

-----------------------------------------------------------------------------
(* A permanent refusal ends a payload: no other worker and no list has it, *)
(* not even a worker that has pushed it and is about to mark its job.      *)

(* A payload with a worker at "exhaust" left for the dead letters.         *)
ExhaustApart ==
  \A v \in Workers : pc[v] = "exhaust" =>
    /\ Key(held[v]) \notin Waiting
    /\ \A w \in Workers : Carrying(w) => Key(held[w]) # Key(held[v])

RefusedInv == ExhaustApart /\ refused \subseteq Issued /\ RefusedIsFinal

LEMMA RefusedInit == Init => RefusedInv
<1> SUFFICES ASSUME Init PROVE RefusedInv
  OBVIOUS
<1>1. ExhaustApart
  BY DEF Init, ExhaustApart
<1>2. refused = {}
  BY DEF Init
<1> QED
  BY <1>1, <1>2 DEF RefusedInv, RefusedIsFinal

(* A payload enters a list from the hand of a worker that retries it.      *)
LEMMA PushedFrom ==
  ASSUME PlacesInv, [Next]_vars, NEW k \in Issued,
         k \in Waiting' \cup Buried', k \notin Waiting \cup Buried
  PROVE  \E w \in Workers : pc[w] \in {"retry", "again"} /\ Key(held[w]) = k
<1>1. ASSUME NEW j \in JobIds, Submit(j) \/ PushAgain(j) PROVE FALSE
  BY <1>1, SubmitMoves, PushAgainMoves DEF Arrives
<1>2. ASSUME NEW w \in Workers, Pop(w) PROVE FALSE
  BY <1>2, PopMoves DEF Taken
<1>3. ASSUME NEW w \in Workers, Requeue(w)
      PROVE  pc[w] \in {"retry", "again"} /\ Key(held[w]) = k
  <2>1. Shrinks \/ Returned(Key(held[w]))
    BY <1>3, RequeueMoves
  <2>2. ~Shrinks
    BY DEF Shrinks
  <2>3. Returned(Key(held[w])) => Key(held[w]) = k
    BY DEF Returned, PushedBack
  <2> QED
    BY <1>3, <2>1, <2>2, <2>3 DEF Requeue
<1>4. ASSUME NEW w \in Workers, PushTwice(w)
      PROVE  pc[w] \in {"retry", "again"} /\ Key(held[w]) = k
  BY <1>4, PushTwiceMoves DEF PushTwice, Doubled, PushedBack
<1> QED
  BY <1>1, <1>2, <1>3, <1>4, OtherMoves DEF Shrinks

(* How a worker comes by its payload: it had it, or pops it, or it repeats *)
(* a push.                                                                 *)
KeepsIt(v) ==
  /\ held[v] # NoJob /\ Key(held'[v]) = Key(held[v])
  /\ pc[v] = "refused" => pc'[v] = "refused"
  /\ pc'[v] = "refused" => pc[v] \in {"send", "refused"}
  /\ pc'[v] = "exhaust" => pc[v] = "exhaust" \/ Requeue(v)
  /\ Carrying(v)' => Carrying(v)

LEMMA HandSteps ==
  ASSUME PlacesInv, [Next]_vars, NEW v \in Workers, held'[v] # NoJob
  PROVE  \/ KeepsIt(v)
         \/ Key(held'[v]) \in Waiting /\ pc'[v] = "filter"
         \/ Key(held'[v]) \notin Issued /\ pc'[v] = "again"
<1>1. /\ pc \in [Workers -> PC] /\ held \in [Workers -> Job \cup {NoJob}]
      /\ AttemptsInv
  BY DEF PlacesInv, BudgetInv, AttemptsInv, HandsOK
<1>2. pc'[v] = pc[v] /\ held'[v] = held[v] => KeepsIt(v)
  BY DEF KeepsIt, Carrying
<1>3. ASSUME NEW w \in Workers, w # v, Step(w) PROVE KeepsIt(v)
  BY <1>1, <1>2, <1>3, OnlyMine
<1>4. CASE \/ \E j \in JobIds : Submit(j) \/ PushAgain(j)
           \/ \E c \in Clients, a \in Addrs : List(c, a)
           \/ Shutdown \/ UNCHANGED vars
  BY <1>2, <1>4 DEF Submit, PushAgain, List, Shutdown, vars, local
<1>5. CASE Restart \/ Kill
  BY <1>5 DEF Restart, Kill, FreshPool
<1>6. CASE Pop(v)
  <2>1. held'[v] = Popped(queue) /\ pc'[v] = "filter"
    BY <1>1, <1>6 DEF Pop, Goto
  <2> QED
    BY <1>6, <2>1, PopMoves DEF Taken
<1>7. CASE PushTwice(v)
  <2> DEFINE n == <<held[v].id, resent[held[v].id] + 1>>
  <2>1. n \in Keys \ Issued /\ pc'[v] = "again"
    BY <1>1, <1>7, PushTwiceMoves DEF Doubled, PushTwice, Goto
  <2>2. Carrying(v) /\ held[v] \in Fresh /\ held[v].id \in JobIds
        /\ Retried(held[v]).id = held[v].id
    BY <1>7, RetryPushes DEF PushTwice, PlacesInv
  <2>3. held'[v] = Resent(held[v], resent[held[v].id] + 1)
    BY <1>1, <1>7, <2>2 DEF PushTwice
  <2>4. resent[held[v].id] + 1 \in 0..MaxResends
    BY <2>1 DEF Keys
  <2> QED
    BY <2>1, <2>2, <2>3, <2>4, ResentFacts
<1>8. CASE Requeue(v)
  <2>1. held[v] # NoJob /\ Key(Retried(held[v])) = Key(held[v])
    BY <1>1, <1>8, RetryPushes, HeldFacts DEF Requeue, PlacesInv
  <2>2. pc'[v] = "exhaust" /\ held'[v] = Retried(held[v]) /\ pc[v] \in {"retry", "again"}
    BY <1>1, <1>8 DEF Requeue, Drop, Goto
  <2> QED
    BY <1>8, <2>1, <2>2 DEF KeepsIt, Carrying
<1>9. CASE \/ PopLost(v) \/ Stop(v)
  BY <1>1, <1>9 DEF PopLost, Stop, AttemptsInv, HandsOK, HandOK
<1>10. CASE MarkFailed(v) \/ Count(v)
  BY <1>1, <1>10 DEF MarkFailed, Count, Drop
<1>11. CASE \/ Lookup(v) \/ LookupFails(v) \/ SendOk(v) \/ SendFails(v)
            \/ SetMessageId(v) \/ MarkSent(v)
  BY <1>1, <1>11
  DEF Lookup, LookupFails, SendOk, SendFails, SetMessageId, MarkSent, AfterMark, Goto,
      KeepsIt, Carrying
<1> QED
  BY <1>3, <1>4, <1>5, <1>6, <1>7, <1>8, <1>9, <1>10, <1>11 DEF Next, Step

LEMMA ExhaustStep ==
  ASSUME PlacesInv, PlacesInv', ExhaustApart, [Next]_vars
  PROVE  ExhaustApart'
<1> SUFFICES ASSUME NEW v \in Workers, pc'[v] = "exhaust"
             PROVE  /\ Key(held'[v]) \notin Waiting'
                    /\ \A w \in Workers : Carrying(w)' => Key(held'[w]) # Key(held'[v])
  BY DEF ExhaustApart
<1> DEFINE k == Key(held'[v])
<1>1. /\ AttemptsInv /\ AttemptsInv' /\ BudgetInv /\ Places
      /\ pc \in [Workers -> PC] /\ held \in [Workers -> Job \cup {NoJob}]
  BY DEF PlacesInv, BudgetInv, AttemptsInv, HandsOK
<1>2. /\ held'[v] # NoJob
      /\ \A w \in Workers : Carrying(w)' => held'[w] # NoJob
  BY <1>1, JobFacts DEF AttemptsInv, HandsOK, HandOK, Carrying, PC
<1>3. held[v] # NoJob /\ Key(held[v]) = k /\ (pc[v] = "exhaust" \/ Requeue(v))
  BY <1>2, HandSteps DEF KeepsIt
<1>4. k \in Issued
  BY <1>1, <1>3 DEF Places, Known
<1> HIDE DEF k
<1>5. ASSUME \A w \in Workers : Carrying(w) => Key(held[w]) # k, k \notin Waiting
      PROVE  /\ k \notin Waiting'
             /\ \A w \in Workers : Carrying(w)' => Key(held'[w]) # k
  <2>1. ASSUME k \in Waiting' PROVE FALSE
    <3>2. CASE k \in Buried
      <4>1. k \in Buried /\ k \notin InHands
        BY <1>5, <3>2 DEF InHands
      <4> QED
        BY <1>4, <1>5, <2>1, <4>1, Moves
        DEF Shrinks, Arrives, Taken, Returned, Doubled, PushedBack
    <3>3. CASE k \notin Buried
      BY <1>4, <1>5, <2>1, <3>3, PushedFrom DEF Carrying
    <3> QED
      BY <3>2, <3>3
  <2>2. ASSUME NEW w \in Workers, Carrying(w)', Key(held'[w]) = k PROVE FALSE
    BY <1>2, <1>4, <1>5, <2>2, HandSteps DEF KeepsIt
  <2> QED
    BY <2>1, <2>2
<1>6. CASE pc[v] = "exhaust"
  BY <1>3, <1>5, <1>6 DEF ExhaustApart, k
<1>7. CASE Requeue(v)
  <2>1. /\ Carrying(v) /\ held[v] \in Fresh /\ pc[v] \in {"retry", "again"}
    BY <1>1, <1>7, RetryPushes DEF Requeue
  <2>2. k \notin Waiting /\ \A w \in Workers \ {v} : Carrying(w) => Key(held[w]) # k
    BY <1>1, <1>3, <2>1 DEF Places, HandsApart, Waiting, KeysIn
  <2>3. Exhausted(Retried(held[v]))
    BY <1>1, <1>7 DEF Requeue, Drop, Goto
  <2>4. ToDead(Retried(held[v]))
    BY <2>1, <2>3, JobFacts
  <2>5. UNCHANGED queue
    BY <1>7, <2>4 DEF Requeue
  <2>6. \A w \in Workers : Carrying(w)' => w # v /\ Carrying(w) /\ held'[w] = held[w]
    BY <1>1, <1>7, OnlyMine DEF Step, Carrying
  <2> QED
    BY <2>2, <2>5, <2>6 DEF Waiting, k
<1> QED
  BY <1>3, <1>6, <1>7

LEMMA RefusedStep ==
  ASSUME PlacesInv, PlacesInv', RefusedInv, [Next]_vars
  PROVE  RefusedInv'
<1>1. /\ AttemptsInv /\ AttemptsInv' /\ BudgetInv /\ Places /\ ExhaustApart
      /\ pc \in [Workers -> PC] /\ held \in [Workers -> Job \cup {NoJob}]
  BY DEF PlacesInv, BudgetInv, AttemptsInv, HandsOK, RefusedInv
<1>2. Issued \subseteq Issued'
  BY Moves DEF Shrinks, Arrives, Taken, Returned, Doubled
<1>3. ASSUME NEW k \in refused' \ refused
      PROVE  \E w \in Workers : SendFails(w) /\ Key(held[w]) = k /\ pc'[w] = "refused"
  <2>1. ASSUME NEW w \in Workers, SendFails(w)
        PROVE  Key(held[w]) = k /\ pc'[w] = "refused"
    BY <1>1, <1>3, <2>1 DEF SendFails, Goto, IsPermanent
  <2>2. ASSUME NEW w \in Workers,
               \/ Pop(w) \/ PopLost(w) \/ Stop(w) \/ Lookup(w) \/ LookupFails(w)
               \/ MarkFailed(w) \/ SendOk(w) \/ SetMessageId(w) \/ MarkSent(w)
               \/ Count(w) \/ PushTwice(w) \/ Requeue(w)
        PROVE  UNCHANGED refused
    BY <2>2
    DEF Pop, PopLost, Stop, Lookup, LookupFails, MarkFailed, SendOk, SetMessageId, MarkSent,
        Count, PushTwice, Requeue, history
  <2>3. ASSUME \/ \E j \in JobIds : Submit(j) \/ PushAgain(j)
               \/ \E c \in Clients, a \in Addrs : List(c, a)
               \/ Shutdown \/ Restart \/ Kill \/ UNCHANGED vars
        PROVE  UNCHANGED refused
    BY <2>3 DEF Submit, PushAgain, List, Shutdown, Restart, Kill, vars, history
  <2> QED
    BY <1>3, <2>1, <2>2, <2>3 DEF Next, Step
<1>4. ASSUME NEW k \in refused \cap refused'
      PROVE  /\ k \notin Waiting' /\ k \notin Buried'
             /\ \A w \in Workers : held'[w] # NoJob /\ Key(held'[w]) = k => pc'[w] = "refused"
  <2>1. /\ k \in Issued /\ k \notin Waiting /\ k \notin Buried
        /\ \A w \in Workers : held[w] # NoJob /\ Key(held[w]) = k => pc[w] = "refused"
    BY <1>4 DEF RefusedInv, RefusedIsFinal, Waiting, Buried, KeysIn
  <2>2. ASSUME NEW w \in Workers, pc[w] \in {"retry", "again"} PROVE Key(held[w]) # k
    BY <1>1, <2>1, <2>2, HeldFacts
  <2>3. k \notin Waiting' /\ k \notin Buried'
    BY <2>1, <2>2, PushedFrom
  <2> QED
    BY <2>1, <2>3, HandSteps DEF KeepsIt
<1>5. ASSUME NEW k \in refused' \ refused
      PROVE  /\ k \notin Waiting' /\ k \notin Buried' /\ k \in Issued
             /\ \A w \in Workers : held'[w] # NoJob /\ Key(held'[w]) = k => pc'[w] = "refused"
  <2>1. PICK w \in Workers : SendFails(w) /\ Key(held[w]) = k /\ pc'[w] = "refused"
    BY <1>3, <1>5
  <2>2. Carrying(w) /\ held[w] # NoJob /\ UNCHANGED <<queue, dead, held>>
    BY <1>1, <2>1, HeldFacts DEF SendFails, Carrying, redis
  <2>3. k \notin Waiting /\ k \notin Buried /\ k \in Issued
    BY <1>1, <2>1, <2>2 DEF Places, HandsApart, Known, Waiting, Buried, KeysIn
  <2>4. ASSUME NEW v \in Workers, v # w, held[v] # NoJob PROVE Key(held[v]) # k
    <3>1. Carrying(v) \/ pc[v] = "exhaust"
      BY <1>1, <2>4 DEF AttemptsInv, HandsOK, HandOK, Carrying
    <3>2. CASE Carrying(v)
      BY <1>1, <2>1, <2>2, <2>4, <3>2 DEF Places, HandsApart
    <3>3. CASE pc[v] = "exhaust"
      BY <1>1, <2>1, <2>2, <3>3 DEF ExhaustApart
    <3> QED
      BY <3>1, <3>2, <3>3
  <2> QED
    BY <2>1, <2>2, <2>3, <2>4 DEF Waiting, Buried
<1>6. refused' \subseteq Issued'
  BY <1>2, <1>5 DEF RefusedInv
<1>7. RefusedIsFinal'
  BY <1>4, <1>5 DEF RefusedIsFinal, Waiting, Buried, KeysIn
<1> QED
  BY <1>1, <1>6, <1>7, ExhaustStep DEF RefusedInv

(* A payload that SES refused for good is retried by nobody, whatever else *)
(* fails: the worker that was refused is the last to have it (main.go      *)
(* 159-164).                                                               *)
THEOREM RefusalIsFinal == Spec => []RefusedIsFinal
<1>1. PlacesInv /\ PlacesInv' /\ RefusedInv /\ [Next]_vars => RefusedInv'
  BY RefusedStep
<1>2. RefusedInv => RefusedIsFinal
  BY DEF RefusedInv
<1> QED
  BY <1>1, <1>2, RefusedInit, PlacesAlways, PTL DEF Spec

-----------------------------------------------------------------------------
(* What the row of a job ends with.                                        *)

(* The worker will still mark the job of its hand, push it, or fault.  One *)
(* that repeated a push may drop its copy: the first is in the queue.      *)
Keeper(w, j) == Holds(w, j) /\ (pc[w] = "again" => Exhausted(Retried(held[w])))

Kept(j) == j \in Ids(queue) \/ \E w \in Workers : Keeper(w, j)

RowStatuses == \A j \in JobIds : status[j] \in {"none", "queued", "sent", "failed"}

MarkedFirst == \A w \in Workers : pc[w] = "count" => status[held[w].id] # "queued"

QueuedIsKept == \A j \in JobIds \ faulted : status[j] = "queued" => Kept(j)

SentIsAccepted ==
  \A j \in JobIds : status[j] = "sent" => \E c \in 0..resent[j] : accepted[<<j, c>>] > 0

DeadIsFailed ==
  \A j \in JobIds \ faulted : j \in Ids(dead) /\ resent[j] = 0 =>
    status[j] = "failed" \/ \E w \in Workers : pc[w] = "exhaust" /\ Holds(w, j)

SettledInv == RowStatuses /\ MarkedFirst /\ QueuedIsKept /\ SentIsAccepted /\ DeadIsFailed

LEMMA SettledInit == Init => SettledInv
<1> SUFFICES ASSUME Init PROVE SettledInv
  OBVIOUS
<1>1. \A j \in JobIds : status[j] = "none"
  BY DEF Init
<1>2. MarkedFirst
  BY DEF Init, MarkedFirst
<1>3. DeadIsFailed
  <2>1. Len(dead) = 0
    BY EmptySeq DEF Init
  <2> QED
    BY <2>1 DEF DeadIsFailed, Ids
<1>4. RowStatuses /\ QueuedIsKept /\ SentIsAccepted
  BY <1>1 DEF RowStatuses, QueuedIsKept, SentIsAccepted
<1> QED
  BY <1>2, <1>3, <1>4 DEF SettledInv

LEMMA IdsAreKeys ==
  ASSUME NEW list
  PROVE  \A j : j \in Ids(list) <=> \E k \in KeysIn(list) : k[1] = j
<1>1. \A i \in 1..Len(list) : Key(list[i])[1] = list[i].id
  BY DEF Key
<1> QED
  BY <1>1 DEF Ids, KeysIn

(* Who writes a status.                                                    *)
LEMMA StatusSteps ==
  ASSUME AttemptsInv, [Next]_vars, NEW j \in JobIds
  PROVE  \/ status'[j] = status[j]
         \/ Submit(j) /\ status'[j] = "queued"
         \/ \E w \in Workers : Holds(w, j) /\ MarkFailed(w) /\ status'[j] = "failed"
         \/ \E w \in Workers : Holds(w, j) /\ MarkSent(w) /\ status'[j] = "sent"
<1>1. status \in [JobIds -> Statuses \cup {"none"}]
  BY DEF AttemptsInv, RowsOK
<1>2. ASSUME NEW i \in JobIds, Submit(i)
      PROVE  status'[j] = status[j] \/ (Submit(j) /\ status'[j] = "queued")
  BY <1>1, <1>2 DEF Submit
<1>3. ASSUME NEW w \in Workers, MarkFailed(w)
      PROVE  status'[j] = status[j] \/ (Holds(w, j) /\ status'[j] = "failed")
  BY <1>1, <1>3, HeldFacts DEF MarkFailed, StatusAfter, Holds
<1>4. ASSUME NEW w \in Workers, MarkSent(w)
      PROVE  status'[j] = status[j] \/ (Holds(w, j) /\ status'[j] = "sent")
  BY <1>1, <1>4, HeldFacts DEF MarkSent, StatusAfter, Holds
<1>5. ASSUME NEW w \in Workers,
             \/ Pop(w) \/ PopLost(w) \/ Stop(w) \/ Lookup(w) \/ LookupFails(w) \/ SendOk(w)
             \/ SendFails(w) \/ SetMessageId(w) \/ Count(w) \/ PushTwice(w) \/ Requeue(w)
      PROVE  UNCHANGED status
  BY <1>5
  DEF Pop, PopLost, Stop, Lookup, LookupFails, SendOk, SendFails, SetMessageId, Count,
      PushTwice, Requeue, db
<1>6. ASSUME \/ \E i \in JobIds : PushAgain(i)
             \/ \E c \in Clients, a \in Addrs : List(c, a)
             \/ Shutdown \/ Restart \/ Kill \/ UNCHANGED vars
      PROVE  UNCHANGED status
  BY <1>6 DEF PushAgain, List, Shutdown, Restart, Kill, vars, db
<1> QED
  BY <1>2, <1>3, <1>4, <1>5, <1>6 DEF Next, Step

(* Faults and repeated pushes are remembered.                              *)
LEMMA HistoryGrows ==
  ASSUME AttemptsInv, [Next]_vars
  PROVE  faulted \subseteq faulted' /\ \A j \in JobIds : resent[j] <= resent'[j]
<1>1. resent \in [JobIds -> 0..MaxResends] /\ \A j \in JobIds : resent[j] \in Nat
  BY MaxResendsAssumption DEF AttemptsInv, HistoryOK
<1>2. UNCHANGED resent => \A j \in JobIds : resent[j] <= resent'[j]
  BY <1>1
<1>3. ASSUME NEW j \in JobIds, Submit(j) \/ PushAgain(j)
      PROVE  faulted' = faulted /\ \A i \in JobIds : resent[i] <= resent'[i]
  BY <1>1, <1>2, <1>3 DEF Submit, PushAgain, history
<1>4. ASSUME NEW w \in Workers, PushTwice(w)
      PROVE  faulted' = faulted /\ \A i \in JobIds : resent[i] <= resent'[i]
  <2>1. resent' = [resent EXCEPT ![Retried(held[w]).id] = @ + 1] /\ faulted' = faulted
    BY <1>4 DEF PushTwice
  <2> QED
    BY <1>1, <2>1
<1>5. ASSUME NEW w \in Workers, MarkFailed(w) \/ Requeue(w)
      PROVE  faulted \subseteq faulted' /\ UNCHANGED resent
  BY <1>5 DEF MarkFailed, Requeue, Fault
<1>6. ASSUME NEW w \in Workers,
             \/ Pop(w) \/ PopLost(w) \/ Stop(w) \/ Lookup(w) \/ LookupFails(w) \/ SendOk(w)
             \/ SendFails(w) \/ SetMessageId(w) \/ MarkSent(w) \/ Count(w)
      PROVE  faulted \subseteq faulted' /\ UNCHANGED resent
  BY <1>6
  DEF Pop, PopLost, Stop, Lookup, LookupFails, SendOk, SendFails, SetMessageId, MarkSent,
      Count, history
<1>7. ASSUME \/ \E c \in Clients, a \in Addrs : List(c, a)
             \/ Shutdown \/ Restart \/ Kill \/ UNCHANGED vars
      PROVE  faulted \subseteq faulted' /\ UNCHANGED resent
  BY <1>7 DEF List, Shutdown, Restart, Kill, vars, history
<1> QED
  BY <1>2, <1>3, <1>4, <1>5, <1>6, <1>7 DEF Next, Step

(* A job leaves the queue only when it is popped.                          *)
LEMMA WaitingStays ==
  ASSUME PlacesInv, [Next]_vars, NEW k \in Waiting, k \notin Waiting'
  PROVE  \E w \in Workers : (Pop(w) \/ PopLost(w)) /\ k = Key(Popped(queue))
<1>1. /\ queue \in Seq(Fresh) /\ AttemptsInv
      /\ \A i, n \in 1..Len(queue) : Key(queue[i]) = Key(queue[n]) => i = n
  BY DEF PlacesInv, BudgetInv, AttemptsInv, ListsOK, Places, QueueApart
<1>2. CASE UNCHANGED queue
  BY <1>2 DEF Waiting
<1>3. ASSUME NEW job \in Fresh, queue' = LPush(queue, job) \/ queue' = RPush(queue, job)
      PROVE  FALSE
  <2>1. KeysIn(queue') = KeysIn(queue) \cup {Key(job)}
    BY <1>1, <1>3, PushKeys
  <2> QED
    BY <2>1 DEF Waiting
<1>4. ASSUME NEW w \in Workers, Pop(w) \/ PopLost(w) PROVE k = Key(Popped(queue))
  <2>1. queue # <<>> /\ queue' = AfterPop(queue)
    BY <1>4 DEF Pop, PopLost
  <2>2. KeysIn(queue') = KeysIn(queue) \ {Key(Popped(queue))}
    BY <1>1, <2>1, PopKeys
  <2> QED
    BY <2>2 DEF Waiting
<1> QED
  BY <1>1, <1>2, <1>3, <1>4, QueueSteps

LEMMA RowStatusesStep ==
  ASSUME AttemptsInv, RowStatuses, [Next]_vars
  PROVE  RowStatuses'
  BY StatusSteps DEF RowStatuses

LEMMA MarkedFirstStep ==
  ASSUME PlacesInv, MarkedFirst, [Next]_vars
  PROVE  MarkedFirst'
<1> SUFFICES ASSUME NEW v \in Workers, pc'[v] = "count"
             PROVE  status'[held'[v].id] # "queued"
  BY DEF MarkedFirst
<1>1. /\ AttemptsInv /\ status \in [JobIds -> Statuses \cup {"none"}]
      /\ pc \in [Workers -> PC] /\ held \in [Workers -> Job \cup {NoJob}]
  BY DEF PlacesInv, BudgetInv, AttemptsInv, RowsOK, HandsOK
<1>2. ASSUME pc[v] = "count", held'[v] = held[v] PROVE status'[held'[v].id] # "queued"
  <2> DEFINE j == held[v].id
  <2>1. j \in JobIds /\ held[v] # NoJob /\ held[v] \in Job
    BY <1>1, <1>2, HeldFacts
  <2>2. status[j] # "none"
    <3>1. Key(held[v]) \in Issued
      BY <2>1 DEF PlacesInv, BudgetInv, Places, Known
    <3> QED
      BY <2>1, <3>1, JobFacts DEF Issued
  <2>3. status[j] # "queued"
    BY <1>2 DEF MarkedFirst
  <2>4. ~Submit(j)
    BY <2>2 DEF Submit
  <2> QED
    BY <1>1, <1>2, <2>1, <2>3, <2>4, StatusSteps
<1>3. ASSUME NEW w \in Workers, w # v, Step(w) PROVE status'[held'[v].id] # "queued"
  BY <1>1, <1>2, <1>3, OnlyMine
<1>4. CASE MarkSent(v)
  <2>1. held[v].id \in JobIds /\ held'[v] = held[v]
    BY <1>1, <1>4, HeldFacts DEF MarkSent
  <2>2. status' = [status EXCEPT ![held[v].id] = StatusAfter(@, "sent")]
    BY <1>1, <1>4 DEF MarkSent, Call, AfterMark, Goto
  <2> QED
    BY <1>1, <2>1, <2>2 DEF StatusAfter
<1>5. CASE \/ \E j \in JobIds : Submit(j) \/ PushAgain(j)
           \/ \E c \in Clients, a \in Addrs : List(c, a)
           \/ Shutdown \/ UNCHANGED vars
  BY <1>2, <1>5 DEF Submit, PushAgain, List, Shutdown, vars, local
<1>6. CASE Restart \/ Kill
  BY <1>6 DEF Restart, Kill, FreshPool
<1>7. CASE \/ Pop(v) \/ PopLost(v) \/ Stop(v) \/ Lookup(v) \/ LookupFails(v)
           \/ MarkFailed(v) \/ SendOk(v) \/ SendFails(v) \/ SetMessageId(v)
           \/ Count(v) \/ PushTwice(v) \/ Requeue(v)
  BY <1>1, <1>7
  DEF Pop, PopLost, Stop, Lookup, LookupFails, MarkFailed, SendOk, SendFails, SetMessageId,
      Count, PushTwice, Requeue, Drop, Goto
<1> QED
  BY <1>3, <1>4, <1>5, <1>6, <1>7 DEF Next, Step

LEMMA SentIsAcceptedStep ==
  ASSUME PlacesInv, SentIsAccepted, SentMeansAccepted, [Next]_vars, AttemptsInv'
  PROVE  SentIsAccepted'
<1> SUFFICES ASSUME NEW j \in JobIds, status'[j] = "sent"
             PROVE  \E c \in 0..resent'[j] : accepted'[<<j, c>>] > 0
  BY DEF SentIsAccepted
<1>1. /\ AttemptsInv /\ resent \in [JobIds -> 0..MaxResends]
      /\ resent' \in [JobIds -> 0..MaxResends]
  BY DEF PlacesInv, BudgetInv, AttemptsInv, HistoryOK
<1>2. /\ resent[j] \in Nat /\ resent'[j] \in Nat /\ resent[j] <= resent'[j]
      /\ resent[j] <= MaxResends /\ MaxResends \in Nat
  BY <1>1, HistoryGrows, MaxResendsAssumption
<1>3. \E c \in 0..resent[j] : accepted[<<j, c>>] > 0
  <2>1. CASE status[j] = "sent"
    BY <2>1 DEF SentIsAccepted
  <2>2. ASSUME NEW w \in Workers, Holds(w, j), MarkSent(w)
        PROVE  \E c \in 0..resent[j] : accepted[<<j, c>>] > 0
    <3>1. held[w] # NoJob /\ accepted[Key(held[w])] > 0
      BY <2>2 DEF Holds, MarkSent, SentMeansAccepted
    <3>2. Key(held[w]) \in Issued /\ Key(held[w]) = <<j, held[w].copy>>
      BY <2>2, <3>1 DEF PlacesInv, BudgetInv, Places, Known, Holds, Key
    <3>3. held[w].copy \in 0..resent[j]
      BY <1>2, <3>2 DEF Issued, Keys
    <3> QED
      BY <3>1, <3>2, <3>3
  <2> QED
    BY <1>1, <2>1, <2>2, StatusSteps
<1>4. PICK c \in 0..resent[j] : accepted[<<j, c>>] > 0
  BY <1>3
<1>5. <<j, c>> \in Keys /\ c \in 0..resent'[j]
  BY <1>2 DEF Keys
<1>6. accepted'[<<j, c>>] > 0
  BY <1>1, <1>4, <1>5, AcceptedGrows
<1> QED
  BY <1>5, <1>6

(* A kill faults every job a worker holds.                                 *)
LEMMA KillFaults ==
  ASSUME Kill, NEW w \in Workers, NEW j, Holds(w, j)
  PROVE  j \in faulted'
  BY DEF Kill, Holds

LEMMA QueuedIsKeptStep ==
  ASSUME PlacesInv, PlacesInv', SettledInv, [Next]_vars
  PROVE  QueuedIsKept'
<1> SUFFICES ASSUME NEW j \in JobIds, j \notin faulted', status'[j] = "queued"
             PROVE  Kept(j)'
  BY DEF QueuedIsKept
<1>1. /\ AttemptsInv /\ BudgetInv /\ status \in [JobIds -> Statuses \cup {"none"}]
      /\ pc \in [Workers -> PC] /\ held \in [Workers -> Job \cup {NoJob}]
      /\ queue \in Seq(Fresh)
  BY DEF PlacesInv, BudgetInv, AttemptsInv, RowsOK, HandsOK, ListsOK
<1>2. \A k \in Waiting' : k[1] = j => Kept(j)'
  BY IdsAreKeys DEF Kept, Waiting
<1>3. CASE status[j] # "queued"
  <2>1. Submit(j)
    BY <1>1, <1>3, StatusSteps
  <2>2. <<j, 0>> \in Waiting'
    BY <2>1, SubmitMoves DEF Arrives
  <2> QED
    BY <1>2, <2>2
<1>4. ASSUME status[j] = "queued", j \in Ids(queue) PROVE Kept(j)'
  <2>1. PICK k \in Waiting : k[1] = j
    BY <1>4, IdsAreKeys DEF Waiting
  <2>2. CASE k \in Waiting'
    BY <1>2, <2>1, <2>2
  <2>3. ASSUME NEW w \in Workers, Pop(w) \/ PopLost(w), k = Key(Popped(queue)) PROVE Kept(j)'
    <3>1. Popped(queue).id = j /\ Popped(queue) \in Fresh
      BY <1>1, <2>1, <2>3, PopFacts DEF Pop, PopLost, Key
    <3>2. ~PopLost(w)
      BY <3>1 DEF PopLost
    <3>3. held'[w] = Popped(queue) /\ pc'[w] = "filter"
      BY <1>1, <2>3, <3>2 DEF Pop, Goto
    <3>4. Keeper(w, j)'
      BY <3>1, <3>3, JobFacts DEF Keeper, Holds
    <3> QED
      BY <3>4 DEF Kept
  <2> QED
    BY <2>1, <2>2, <2>3, WaitingStays
<1>5. ASSUME status[j] = "queued", NEW v \in Workers, Keeper(v, j) PROVE Kept(j)'
  <2>1. held[v] # NoJob /\ held[v].id = j /\ Holds(v, j)
    BY <1>5 DEF Keeper, Holds
  <2>2. Keeper(v, j)' => Kept(j)'
    BY DEF Kept
  <2>3. ASSUME held'[v] = held[v], pc'[v] = pc[v] \/ pc'[v] # "again" PROVE Kept(j)'
    BY <1>5, <2>2, <2>3 DEF Keeper, Holds
  <2>4. ASSUME NEW w \in Workers, w # v, Step(w) PROVE Kept(j)'
    BY <1>1, <2>3, <2>4, OnlyMine
  <2>5. CASE \/ \E i \in JobIds : Submit(i) \/ PushAgain(i)
             \/ \E c \in Clients, a \in Addrs : List(c, a)
             \/ Shutdown \/ UNCHANGED vars
    BY <2>3, <2>5 DEF Submit, PushAgain, List, Shutdown, vars, local
  <2>6. CASE Restart
    BY <1>1, <2>1, <2>6 DEF Restart, AttemptsInv, HandsOK, HandOK
  <2>7. CASE Kill
    BY <2>1, <2>7, KillFaults
  <2>8. CASE Pop(v) \/ PopLost(v) \/ Stop(v)
    BY <1>1, <2>1, <2>8 DEF Pop, PopLost, Stop, AttemptsInv, HandsOK, HandOK
  <2>9. CASE \/ Lookup(v) \/ LookupFails(v) \/ SendOk(v) \/ SendFails(v)
             \/ SetMessageId(v) \/ MarkSent(v)
    <3>1. held'[v] = held[v] /\ pc'[v] # "again"
      BY <1>1, <2>9
      DEF Lookup, LookupFails, SendOk, SendFails, SetMessageId, MarkSent, AfterMark, Goto
    <3> QED
      BY <2>3, <3>1
  <2>10. CASE MarkFailed(v)
    <3>1. status'[j] = "failed" \/ j \in faulted'
      BY <1>1, <2>1, <2>10 DEF MarkFailed, Fault, StatusAfter
    <3> QED
      BY <3>1
  <2>11. CASE Count(v)
    BY <1>5, <2>1, <2>11 DEF Count, SettledInv, MarkedFirst
  <2>12. CASE PushTwice(v)
    <3> DEFINE job == Retried(held[v])
    <3>1. Key(held[v]) \in Waiting' \/ ToDead(job)
      <4>1. /\ Key(job) = Key(held[v]) /\ (~ToDead(job) => job \in Fresh)
        BY <1>1, <2>12, RetryPushes, JobFacts DEF PushTwice
      <4>2. ~ToDead(job) => queue' = RPush(queue, job)
        BY <2>12 DEF PushTwice
      <4>3. ~ToDead(job) => KeysIn(queue') = KeysIn(queue) \cup {Key(job)}
        BY <1>1, <4>1, <4>2, PushKeys
      <4> QED
        BY <4>1, <4>3 DEF Waiting
    <3>2. CASE Key(held[v]) \in Waiting'
      BY <1>2, <2>1, <3>2 DEF Key
    <3>3. CASE ToDead(job)
      <4>1. held[v] \in Fresh /\ job.id = held[v].id
        BY <1>1, <2>12, RetryPushes DEF PushTwice
      <4>2. PICK c : held'[v] = Resent(held[v], c)
        BY <1>1, <2>12 DEF PushTwice
      <4>3. held'[v].id = j /\ Retried(held'[v]).attempts = job.attempts
        BY <2>1, <4>1, <4>2 DEF Resent, Retried, Fresh, Job
      <4>4. Exhausted(Retried(held'[v]))
        BY <3>3, <4>3 DEF ToDead, Exhausted
      <4>5. held'[v] # NoJob
        <5>1. pc'[v] = "again"
          BY <1>1, <2>12 DEF PushTwice, Goto
        <5>2. Carrying(v)'
          BY <5>1 DEF Carrying
        <5> QED
          BY <5>2, JobFacts DEF PlacesInv, BudgetInv, AttemptsInv, HandsOK, HandOK, Carrying, PC
      <4> QED
        BY <2>2, <4>3, <4>4, <4>5 DEF Keeper, Holds
    <3> QED
      BY <3>1, <3>2, <3>3
  <2>13. CASE Requeue(v)
    <3> DEFINE job == Retried(held[v])
    <3>1. /\ held[v] \in Fresh /\ job.id = j /\ Key(job) = Key(held[v])
          /\ job \in Job /\ (~ToDead(job) => job \in Fresh)
          /\ Exhausted(job) <=> ToDead(job)
      BY <1>1, <2>1, <2>13, RetryPushes, JobFacts DEF Requeue
    <3>2. CASE Exhausted(job)
      <4>1. held'[v] = job /\ pc'[v] = "exhaust"
        BY <1>1, <2>13, <3>2 DEF Requeue, Goto
      <4> QED
        BY <2>2, <3>1, <4>1, JobFacts DEF Keeper, Holds
    <3>3. CASE ~Exhausted(job)
      <4>1. pc[v] = "retry"
        BY <1>5, <2>13, <3>3 DEF Keeper, Requeue
      <4>2. queue' = RPush(queue, job)
        BY <2>1, <2>13, <3>1, <3>3, <4>1 DEF Requeue, Fault
      <4>3. Key(job) \in Waiting'
        BY <1>1, <3>1, <3>3, <4>2, PushKeys DEF Waiting
      <4> QED
        BY <1>2, <3>1, <4>3 DEF Key
    <3> QED
      BY <3>2, <3>3
  <2> QED
    BY <2>4, <2>5, <2>6, <2>7, <2>8, <2>9, <2>10, <2>11, <2>12, <2>13 DEF Next, Step
<1>6. CASE status[j] = "queued"
  <2>1. j \notin faulted
    BY <1>1, HistoryGrows
  <2>2. Kept(j)
    BY <1>6, <2>1 DEF SettledInv, QueuedIsKept
  <2> QED
    BY <1>4, <1>5, <1>6, <2>2 DEF Kept
<1> QED
  BY <1>3, <1>6

LEMMA DeadIsFailedStep ==
  ASSUME PlacesInv, PlacesInv', SettledInv, [Next]_vars
  PROVE  DeadIsFailed'
<1> SUFFICES ASSUME NEW j \in JobIds, j \notin faulted', j \in Ids(dead'), resent'[j] = 0
             PROVE  \/ status'[j] = "failed"
                    \/ \E w \in Workers : pc'[w] = "exhaust" /\ Holds(w, j)'
  BY DEF DeadIsFailed
<1>1. /\ AttemptsInv /\ BudgetInv /\ Places /\ status \in [JobIds -> Statuses \cup {"none"}]
      /\ pc \in [Workers -> PC] /\ held \in [Workers -> Job \cup {NoJob}]
      /\ resent \in [JobIds -> 0..MaxResends] /\ MaxResends \in Nat
  BY MaxResendsAssumption
  DEF PlacesInv, BudgetInv, AttemptsInv, RowsOK, HandsOK, HistoryOK
<1>2. resent[j] = 0
  BY <1>1, HistoryGrows
<1>3. \A k \in Issued : k[1] = j => k = <<j, 0>>
  BY <1>2 DEF Issued, Keys
<1>4. CASE j \notin Ids(dead)
  <2>1. PICK k \in Buried' : k[1] = j
    BY IdsAreKeys DEF Buried
  <2>2. k \notin Buried
    BY <1>4, <2>1, IdsAreKeys DEF Buried
  <2>3. ASSUME NEW i \in JobIds, Submit(i) \/ PushAgain(i) PROVE FALSE
    BY <2>1, <2>2, <2>3, SubmitMoves, PushAgainMoves DEF Arrives
  <2>4. ASSUME NEW w \in Workers, Pop(w) PROVE FALSE
    BY <2>1, <2>2, <2>4, PopMoves DEF Taken
  <2>5. ASSUME NEW w \in Workers, PushTwice(w) PROVE FALSE
    <3>1. k = Key(held[w])
      BY <2>1, <2>2, <2>5, PushTwiceMoves DEF Doubled, PushedBack
    <3>2. /\ held[w].id = j /\ Retried(held[w]).id = j
      BY <1>1, <2>1, <2>5, <3>1, RetryPushes DEF PushTwice, Key
    <3>3. resent'[j] = resent[j] + 1
      BY <1>1, <2>5, <3>2 DEF PushTwice
    <3> QED
      BY <1>2, <3>3
  <2>6. ASSUME NEW w \in Workers, Requeue(w)
        PROVE  pc'[w] = "exhaust" /\ Holds(w, j)'
    <3>1. ~Shrinks
      BY <2>1, <2>2 DEF Shrinks
    <3>2. Returned(Key(held[w]))
      BY <2>6, <3>1, RequeueMoves
    <3>3. k = Key(held[w]) /\ UNCHANGED Waiting /\ Buried # Buried'
      BY <2>1, <2>2, <3>2, SetsApart DEF PlacesInv, Returned, PushedBack
    <3> DEFINE job == Retried(held[w])
    <3>4. /\ job.id = j /\ job \in Job /\ (Exhausted(job) <=> ToDead(job))
      BY <1>1, <2>1, <2>6, <3>3, RetryPushes, JobFacts DEF Requeue, Key
    <3>5. ToDead(job)
      BY <2>6, <3>3 DEF Requeue, Buried
    <3>6. held'[w] = job /\ pc'[w] = "exhaust"
      BY <1>1, <2>6, <3>4, <3>5 DEF Requeue, Goto
    <3> QED
      BY <3>4, <3>6, JobFacts DEF Holds
  <2>7. ~Shrinks
    BY <2>1, <2>2 DEF Shrinks
  <2> QED
    BY <2>3, <2>4, <2>5, <2>6, <2>7, OtherMoves
<1>5. CASE j \in Ids(dead)
  <2>1. status[j] = "failed" \/ \E w \in Workers : pc[w] = "exhaust" /\ Holds(w, j)
    BY <1>2, <1>5, HistoryGrows, <1>1 DEF SettledInv, DeadIsFailed
  <2>2. <<j, 0>> \in Buried /\ <<j, 0>> \in Issued
    <3>1. PICK k \in Buried : k[1] = j
      BY <1>5, IdsAreKeys DEF Buried
    <3>2. k \in Issued
      BY <1>1, SetsApart
    <3> QED
      BY <1>3, <3>1, <3>2
  <2>3. \A w \in Workers : Carrying(w) => ~Holds(w, j)
    <3> SUFFICES ASSUME NEW w \in Workers, Carrying(w), Holds(w, j) PROVE FALSE
      OBVIOUS
    <3>1. Key(held[w]) \in Issued /\ Key(held[w])[1] = j
      BY <1>1 DEF Places, Known, Holds, Key
    <3>2. Key(held[w]) = <<j, 0>>
      BY <1>3, <3>1
    <3> QED
      BY <1>1, <2>2, <3>2, SetsApart DEF InHands
  <2>4. CASE status[j] = "failed"
    <3>1. ~Submit(j)
      BY <2>4 DEF Submit
    <3>2. ASSUME NEW w \in Workers, MarkSent(w) PROVE ~Holds(w, j)
      BY <2>3, <3>2 DEF MarkSent, Carrying
    <3> QED
      BY <1>1, <2>4, <3>1, <3>2, StatusSteps
  <2>5. ASSUME NEW v \in Workers, pc[v] = "exhaust", Holds(v, j)
        PROVE  \/ status'[j] = "failed"
               \/ pc'[v] = "exhaust" /\ Holds(v, j)'
    <3>1. pc'[v] = pc[v] /\ held'[v] = held[v] => pc'[v] = "exhaust" /\ Holds(v, j)'
      BY <2>5 DEF Holds
    <3>2. ASSUME NEW w \in Workers, w # v, Step(w) PROVE pc'[v] = pc[v] /\ held'[v] = held[v]
      BY <1>1, <3>2, OnlyMine
    <3>3. ASSUME Step(v) PROVE status'[j] = "failed"
      <4>1. MarkFailed(v)
        BY <2>5, <3>3
        DEF Step, Pop, PopLost, Stop, Lookup, LookupFails, SendOk, SendFails, SetMessageId,
            MarkSent, Count, PushTwice, Requeue
      <4>2. status'[j] = "failed" \/ j \in faulted'
        BY <1>1, <2>5, <4>1 DEF MarkFailed, Fault, StatusAfter, Holds
      <4> QED
        BY <4>2
    <3>4. CASE \/ \E i \in JobIds : Submit(i) \/ PushAgain(i)
               \/ \E c \in Clients, a \in Addrs : List(c, a)
               \/ Shutdown \/ UNCHANGED vars
      BY <3>1, <3>4 DEF Submit, PushAgain, List, Shutdown, vars, local
    <3>5. CASE Restart
      BY <2>5, <3>5 DEF Restart
    <3>6. CASE Kill
      BY <2>5, <3>6, KillFaults
    <3> QED
      BY <3>1, <3>2, <3>3, <3>4, <3>5, <3>6 DEF Next
  <2> QED
    BY <2>1, <2>4, <2>5
<1> QED
  BY <1>4, <1>5

LEMMA SettledHolds == AttemptsInv /\ SettledInv => Settled
<1> SUFFICES ASSUME AttemptsInv, SettledInv, NEW j \in JobIds \ faulted,
                    status[j] # "none", AtRest(j)
             PROVE  /\ status[j] \in {"sent", "failed"}
                    /\ status[j] = "sent" => \E c \in 0..resent[j] : accepted[<<j, c>>] > 0
                    /\ j \in Ids(dead) /\ resent[j] = 0 => status[j] = "failed"
  BY DEF Settled
<1>1. ~Kept(j) /\ \A w \in Workers : ~Holds(w, j)
  BY DEF AtRest, Kept, Keeper
<1> QED
  BY <1>1 DEF SettledInv, RowStatuses, QueuedIsKept, SentIsAccepted, DeadIsFailed

(* No job is forgotten, whatever fails: once it is neither waiting nor in  *)
(* a worker's hand its row says "sent", after SES accepted it, or          *)
(* "failed", and "failed" if it is a dead letter; only a fault the code    *)
(* does not make up for excuses a job (main.go 131-240).                   *)
THEOREM JobsAreSettled == Spec => []Settled
<1>1. PlacesInv /\ PlacesInv' /\ SettledInv /\ SentMeansAccepted /\ [Next]_vars
        => SettledInv'
  <2> SUFFICES ASSUME PlacesInv, PlacesInv', SettledInv, SentMeansAccepted, [Next]_vars
               PROVE  SettledInv'
    OBVIOUS
  <2>1. AttemptsInv /\ AttemptsInv' /\ RowStatuses /\ MarkedFirst /\ SentIsAccepted
    BY DEF PlacesInv, BudgetInv, SettledInv
  <2> QED
    BY <2>1, RowStatusesStep, MarkedFirstStep, QueuedIsKeptStep, SentIsAcceptedStep,
       DeadIsFailedStep DEF SettledInv
<1>2. Spec => []SettledInv
  BY <1>1, SettledInit, PlacesAlways, StatsAlways, PTL DEF Spec, StatsInv
<1> QED
  BY <1>2, AttemptsAlways, SettledHolds, PTL
=============================================================================
