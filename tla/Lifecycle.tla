------------------------------ MODULE Lifecycle -----------------------------
(***************************************************************************)
(* What happens to an email_logs row after its job was popped: the         *)
(* worker's writes after an accepted send (cmd/worker/main.go), the SES    *)
(* events that SNS posts to the webhook (internal/webhook/handler.go), and *)
(* the open pixel and click redirect (internal/tracking/handlers.go).      *)
(*                                                                         *)
(* SNS delivers an event at least once and in any order: until a handler   *)
(* answers 200 (or 400) it is due, and it may be delivered again after     *)
(* that.  A handler that SNS stopped waiting for runs on beside the next.  *)
(* Handlers run concurrently and are one action per database call; a call  *)
(* fails without effect, or with its effect but without an answer.         *)
(*                                                                         *)
(* An operator that nothing uses is a faulty variant of the operator       *)
(* after it, kept to show which property would notice (README.md).         *)
(***************************************************************************)
EXTENDS Integers, FiniteSets, EmailLog

CONSTANTS Logs,        \* rows of email_logs, one per job
          Client,      \* log -> its client
          To,          \* log -> its recipients
          Kinds,       \* kinds of events SES reports
          Handlers,    \* webhook requests served at the same time
          MaxSends,    \* copies SES accepts for one job (see Worker)
          MaxEvents,   \* bound: events SES emits
          Visits,      \* bound: visits explored, <<log, "opened" or "clicked">>
          MaxFaults,   \* bound: failed calls, crashes, time-outs, repeated events
          MaxTime      \* bound: distinct times that can be stamped

(* Notifications that change nothing: a Bounce or Complaint without its     *)
(* object or a kind the handler does not know, and one that does not decode *)
(* at all (SES announces itself to a topic in plain text).                 *)
Silent == {"Bare", "Garbled"}

ASSUME LifecycleAssumption ==
  /\ Kinds \subseteq {"Send", "Delivery", "Open", "Click", "HardBounce",
                      "SoftBounce", "Complaint"} \cup Silent
  /\ Visits \subseteq Logs \X {"opened", "clicked"}
  /\ {MaxSends, MaxEvents, MaxFaults} \subseteq Nat /\ MaxTime \in Nat \ {0}
  /\ "" \notin Logs  \* ids are uuids

VARIABLES
  rows,            \* log -> row
  blacklist,       \* <<client, address>>
  stats,           \* <<client, column>> -> count (email_daily_stats)
  wpc, sends,      \* the worker that has the job; copies accepted so far
  emitted, due,    \* events SES has emitted; those SNS still has to deliver
  hpc, ev, todo,   \* each handler: where it is, its event, addresses to list
  late,            \* the handlers whose answer SNS does not wait for any more
  visits,          \* tracking goroutines: <<log, "opened" or "clicked">>
  now, faults,
  dropped,         \* history: events answered without a row or an effect
  unlisted,        \* history: failed Adds
  uncounted,       \* history: events whose IncrementStat failed
  recounted        \* history: how often SNS posts again what is counted, or may be

worker == <<wpc, sends>>
sns == <<emitted, due>>
handler == <<hpc, ev, todo, late>>
bounds == <<now, faults>>
recounts == <<uncounted, recounted>>
history == <<dropped, unlisted, recounts>>
vars == <<rows, blacklist, stats, worker, sns, handler, visits, bounds, history>>

Columns == {"sent", "delivered", "opened", "clicked", "bounced", "complained"}

Events == [log: Logs, msg: 1..MaxSends, kind: Kinds]

NoEvent == [log |-> "none", msg |-> 0, kind |-> "none"]

RawKind(kind) == kind

StatusOfKind(kind) ==
  CASE kind = "Send" -> "sent"            [] kind = "Delivery" -> "delivered"
    [] kind = "Open" -> "opened"          [] kind = "Click" -> "clicked"
    [] kind = "HardBounce" -> "hard_bounced"
    [] kind = "SoftBounce" -> "soft_bounced"
    [] kind = "Complaint" -> "complained"  [] kind \in Silent -> "none"

ComplaintAsBounce(kind) ==
  IF kind \in {"HardBounce", "SoftBounce", "Complaint"} THEN "bounced" ELSE StatusOfKind(kind)

ColumnOfKind(kind) ==
  IF kind \in {"HardBounce", "SoftBounce"} THEN "bounced" ELSE StatusOfKind(kind)

-----------------------------------------------------------------------------
Init ==
  /\ rows = [l \in Logs |-> NewRow]
  /\ blacklist = {} /\ stats = [s \in {Client[l] : l \in Logs} \X Columns |-> 0]
  /\ wpc = [l \in Logs |-> "send"] /\ sends = [l \in Logs |-> 0]
  /\ emitted = {} /\ due = {}
  /\ hpc = [h \in Handlers |-> "idle"] /\ ev = [h \in Handlers |-> NoEvent]
  /\ todo = [h \in Handlers |-> {}] /\ late = {}
  /\ visits = {}
  /\ now = 1 /\ faults = 0
  /\ dropped = {} /\ unlisted = {} /\ uncounted = {} /\ recounted = 0

(* A call: done, its effect took place; ok, it returned no error.          *)
Call(done, ok) == /\ ok => done
                  /\ ~ok => faults < MaxFaults
                  /\ faults' = IF ok THEN faults ELSE faults + 1

Write(l, new) == rows' = [rows EXCEPT ![l] = UpdateStatus(@, new, now)]

Increment(l, column) == stats' = [stats EXCEPT ![<<Client[l], column>>] = @ + 1]

Tick == /\ now < MaxTime /\ now' = now + 1
        /\ UNCHANGED <<rows, blacklist, stats, worker, sns, handler, visits,
                       faults, history>>

-----------------------------------------------------------------------------
(* The worker, from ses.Send on.  How it gets there is in Worker.          *)

WorkerGoto(l, label) == wpc' = [wpc EXCEPT ![l] = label]

(* SES accepts the message, whether or not the worker learns of it.        *)
Accept(l) ==
  /\ wpc[l] = "send" /\ sends[l] < MaxSends
  /\ sends' = [sends EXCEPT ![l] = @ + 1]
  /\ \/ WorkerGoto(l, "setid") /\ UNCHANGED faults
     \/ WorkerGoto(l, "send") /\ Call(TRUE, FALSE)
  /\ UNCHANGED <<rows, blacklist, stats, sns, handler, visits, now, history>>

StoreId(l) ==
  /\ wpc[l] = "setid"
  /\ \E done, ok \in BOOLEAN :
       /\ Call(done, ok)
       /\ rows' = IF done THEN [rows EXCEPT ![l] = SetAWSMessageID(@, sends[l])] ELSE rows
  /\ WorkerGoto(l, "marksent")
  /\ UNCHANGED <<blacklist, stats, sends, sns, handler, visits, now, history>>

MarkSent(l) ==
  /\ wpc[l] = "marksent"
  /\ \E done, ok \in BOOLEAN :
       /\ Call(done, ok)
       /\ IF done THEN Write(l, "sent") ELSE UNCHANGED rows
       /\ WorkerGoto(l, IF ok THEN "count" ELSE "send")
  /\ UNCHANGED <<blacklist, stats, sends, sns, handler, visits, now, history>>

CountSent(l) ==
  /\ wpc[l] = "count"
  /\ \E done, ok \in BOOLEAN :
       /\ Call(done, ok)
       /\ IF done THEN Increment(l, "sent") ELSE UNCHANGED stats
  /\ WorkerGoto(l, "end")
  /\ UNCHANGED <<rows, blacklist, sends, sns, handler, visits, now, history>>

(* A job that will not be sent (again): refused, blacklisted or exhausted. *)
GiveUp(l) ==
  /\ wpc[l] = "send"
  /\ \E done, ok \in BOOLEAN :
       /\ Call(done, ok)
       /\ IF done THEN Write(l, "failed") ELSE UNCHANGED rows
  /\ WorkerGoto(l, "end")
  /\ UNCHANGED <<blacklist, stats, sends, sns, handler, visits, now, history>>

-----------------------------------------------------------------------------
(* External: SES reports on a message it accepted.  A message may have     *)
(* several recipients, so a bounce and an open may follow one another.     *)
Emit(e) ==
  /\ e \notin emitted /\ Cardinality(emitted) < MaxEvents
  /\ e.msg <= sends[e.log]
  /\ emitted' = emitted \cup {e} /\ due' = due \cup {e}
  /\ UNCHANGED <<rows, blacklist, stats, worker, handler, visits, bounds, history>>

(* SNS posts a due event, unless it is waiting for an answer to it; an     *)
(* earlier request for the same event may still be running.                *)
Deliver(h, e) ==
  /\ hpc[h] = "idle" /\ e \in due /\ \A g \in Handlers \ late : ev[g] # e
  /\ ev' = [ev EXCEPT ![h] = e] /\ hpc' = [hpc EXCEPT ![h] = "lookup"]
  /\ UNCHANGED <<rows, blacklist, stats, worker, sns, todo, late, visits, bounds, history>>

(* External: the answer takes too long and SNS closes the connection, to   *)
(* post the event again.  The handler runs on: its context is cancelled,   *)
(* which its calls may notice or not, and nobody reads its answer.         *)
TimeOut(h) ==
  /\ hpc[h] # "idle" /\ h \notin late
  /\ faults < MaxFaults /\ faults' = faults + 1
  /\ late' = late \cup {h} /\ recounted' = recounted + 1
  /\ UNCHANGED <<rows, blacklist, stats, worker, sns, hpc, ev, todo, visits, now,
                 dropped, unlisted, uncounted>>

(* External: SNS repeats an event although it was answered with 200.       *)
Repeat(e) ==
  /\ e \in emitted \ due /\ faults < MaxFaults /\ faults' = faults + 1
  /\ due' = due \cup {e} /\ recounted' = recounted + 1
  /\ UNCHANGED <<rows, blacklist, stats, worker, emitted, handler, visits, now,
                 dropped, unlisted, uncounted>>

HandlerGoto(h, label) == hpc' = [hpc EXCEPT ![h] = label]

(* A handler's call: once SNS has hung up it may fail for that reason.     *)
Returns(h, done, ok) ==
  IF h \in late THEN (ok => done) /\ UNCHANGED faults ELSE Call(done, ok)

(* The handler returns; SNS is done with the event if it still waits and   *)
(* gets a 200 or a 400, which it takes as final.                           *)
Answer(h, code) ==
  /\ HandlerGoto(h, "idle")
  /\ ev' = [ev EXCEPT ![h] = NoEvent]
  /\ due' = IF code \in {200, 400} /\ h \notin late THEN due \ {ev[h]} ELSE due
  /\ late' = late \ {h}

Continue(h, label) == HandlerGoto(h, label) /\ UNCHANGED <<ev, due, late>>

(* A history of what befell an event that h answers SNS for.               *)
Noted(h, set, x) == IF h \in late THEN set ELSE set \cup {x}

(* The handler answers without having written anything.                    *)
Ignore(h, code) == /\ Answer(h, code) /\ UNCHANGED todo
                   /\ dropped' = Noted(h, dropped, ev[h])

(* The row GetByAWSMessageID finds: ids are unique, so only this log's.    *)
Correlated(e) == rows[e.log].msgId = e.msg

UnknownIs500 == 500
(* No row, or an error of the lookup: the event is answered 200.           *)
UnknownCode == 200

(* The kinds that add recipients to the blacklist before the row is        *)
(* written.                                                                *)
ListsFirst == {"HardBounce"}

(* The notification is decoded (400 if it cannot be) and the row looked up. *)
Lookup(h) ==
  /\ hpc[h] = "lookup"
  /\ LET kind == ev[h].kind IN
     \/ kind = "Garbled" /\ Ignore(h, 400) /\ UNCHANGED faults
     \/ /\ kind # "Garbled" /\ Returns(h, FALSE, FALSE)
        /\ Ignore(h, UnknownCode)
     \/ /\ kind # "Garbled" /\ ~Correlated(ev[h])
        /\ Ignore(h, UnknownCode) /\ UNCHANGED faults
     \/ kind = "Bare" /\ Correlated(ev[h]) /\ Ignore(h, 200) /\ UNCHANGED faults
     \/ /\ kind \notin Silent /\ Correlated(ev[h]) /\ UNCHANGED <<faults, dropped>>
        /\ IF kind \in ListsFirst
           THEN \E S \in (SUBSET To[ev[h].log]) \ {{}} :
                  todo' = [todo EXCEPT ![h] = S] /\ Continue(h, "list")
           ELSE Continue(h, "mark") /\ UNCHANGED todo
  /\ UNCHANGED <<rows, blacklist, stats, worker, emitted, visits, now, unlisted,
                 recounts>>

(* blacklist.Add for one recipient the event names; its error is ignored.  *)
AddOne(h) ==
  /\ hpc[h] \in {"list", "listlast"}
  /\ \E a \in todo[h], done, ok \in BOOLEAN :
       /\ Returns(h, done, ok)
       /\ blacklist' = IF done THEN blacklist \cup {<<Client[ev[h].log], a>>} ELSE blacklist
       /\ unlisted' = IF done THEN unlisted ELSE Noted(h, unlisted, <<ev[h], a>>)
       /\ todo' = [todo EXCEPT ![h] = @ \ {a}]
       /\ IF todo[h] # {a} THEN Continue(h, hpc[h])
          ELSE IF hpc[h] = "list" THEN Continue(h, "mark") ELSE Answer(h, 200)
  /\ UNCHANGED <<rows, stats, worker, emitted, visits, now, dropped, recounts>>

MarkErrorIs200 == 200
(* A failed UpdateStatus is returned: 500, and SNS delivers again.         *)
MarkErrorCode == 500

(* UpdateStatus for the event; "Send" returns without a statistic.         *)
Mark(h) ==
  /\ hpc[h] = "mark"
  /\ \E done, ok \in BOOLEAN :
       /\ Returns(h, done, ok)
       /\ IF done THEN Write(ev[h].log, StatusOfKind(ev[h].kind)) ELSE UNCHANGED rows
       /\ IF ~ok THEN Answer(h, MarkErrorCode)
          ELSE IF ev[h].kind = "Send" THEN Answer(h, 200) ELSE Continue(h, "stat")
  /\ UNCHANGED <<blacklist, stats, worker, emitted, todo, visits, now, history>>

(* IncrementStat, its error ignored; a complaint then lists its recipients *)
Stat(h) ==
  /\ hpc[h] = "stat"
  /\ \E done, ok \in BOOLEAN :
       /\ Returns(h, done, ok)
       /\ IF done THEN Increment(ev[h].log, ColumnOfKind(ev[h].kind)) ELSE UNCHANGED stats
       /\ uncounted' = IF done THEN uncounted ELSE Noted(h, uncounted, ev[h])
  /\ IF ev[h].kind = "Complaint"
     THEN \E S \in (SUBSET To[ev[h].log]) \ {{}} :
            todo' = [todo EXCEPT ![h] = S] /\ Continue(h, "listlast")
     ELSE Answer(h, 200) /\ UNCHANGED todo
  /\ UNCHANGED <<rows, blacklist, worker, emitted, visits, now, dropped, unlisted,
                 recounted>>

(* The events that are counted while SNS waits for the answer.             *)
InHand == {ev[h] : h \in {g \in Handlers \ late : hpc[g] = "listlast"}}

(* The API process dies: its handlers answer nothing, its tracking         *)
(* goroutines are lost.                                                    *)
Crash ==
  /\ faults < MaxFaults /\ faults' = faults + 1
  /\ hpc' = [h \in Handlers |-> "idle"] /\ ev' = [h \in Handlers |-> NoEvent]
  /\ todo' = [h \in Handlers |-> {}] /\ late' = {} /\ visits' = {}
  /\ recounted' = recounted + Cardinality(InHand)
  /\ UNCHANGED <<rows, blacklist, stats, worker, sns, now,
                 dropped, unlisted, uncounted>>

-----------------------------------------------------------------------------
(* A recipient loads the pixel or follows a link: the response is written, *)
(* the record is left to a goroutine.                                      *)
Visit(l, new) ==
  /\ <<l, new>> \notin visits /\ sends[l] > 0
  /\ visits' = visits \cup {<<l, new>>}
  /\ UNCHANGED <<rows, blacklist, stats, worker, sns, handler, bounds, history>>

(* The routes declare :logId (cmd/api/main.go 102-103), the handlers read  *)
(* c.Param("logID"), which gin answers with "" (handlers.go 50, 62): no    *)
(* row has this id.                                                        *)
ParamLogID(l) == ""

(* recordOpen, recordClick: an UPDATE that matches no row succeeds, and    *)
(* GetByID then ends the goroutine with ErrNotFound.                       *)
Record(l, new) ==
  /\ <<l, new>> \in visits
  /\ LET id == ParamLogID(l) IN
       IF id \in Logs THEN Write(id, new) /\ Increment(id, new)
                      ELSE UNCHANGED <<rows, stats>>
  /\ visits' = visits \ {<<l, new>>}
  /\ UNCHANGED <<blacklist, worker, sns, handler, bounds, history>>

-----------------------------------------------------------------------------
WorkerStep(l) == Accept(l) \/ StoreId(l) \/ MarkSent(l) \/ CountSent(l) \/ GiveUp(l)

HandlerStep(h) == Lookup(h) \/ AddOne(h) \/ Mark(h) \/ Stat(h)

Next ==
  \/ Tick \/ Crash
  \/ \E l \in Logs : WorkerStep(l)
  \/ \E e \in Events : Emit(e) \/ Repeat(e)
  \/ \E h \in Handlers : HandlerStep(h) \/ TimeOut(h) \/ \E e \in Events : Deliver(h, e)
  \/ \E v \in Visits : Visit(v[1], v[2]) \/ Record(v[1], v[2])

Spec == Init /\ [][Next]_vars

(* net/http runs every handler; SNS keeps delivering what is due.          *)
Fairness == \A h \in Handlers :
  /\ WF_vars(HandlerStep(h))
  /\ WF_vars(\E e \in Events : Deliver(h, e))

FairSpec == Spec /\ Fairness

-----------------------------------------------------------------------------
TypeOK ==
  /\ \A l \in Logs : /\ rows[l].status \in Statuses
                     /\ rows[l].msgId \in 0..MaxSends
                     /\ rows[l].at \in [Stamps -> 0..MaxTime]
  /\ \A p \in blacklist : \E l \in Logs : p[1] = Client[l] /\ p[2] \in To[l]
  /\ \A s \in DOMAIN stats : stats[s] \in Nat
  /\ wpc \in [Logs -> {"send", "setid", "marksent", "count", "end"}]
  /\ sends \in [Logs -> 0..MaxSends]
  /\ due \subseteq emitted /\ emitted \subseteq Events
  /\ hpc \in [Handlers -> {"idle", "lookup", "list", "mark", "stat", "listlast"}]
  /\ \A h \in Handlers : ev[h] \in emitted \cup {NoEvent}
  /\ \A h \in Handlers : todo[h] # {} <=> hpc[h] \in {"list", "listlast"}
  /\ late \subseteq {h \in Handlers : ev[h] # NoEvent}

(* An open or click time, once recorded, is the first one for ever, however *)
(* events are repeated and reordered (email_log_repo.go 66-67).            *)
FirstEngagementKept ==
  [][\A l \in Logs, s \in {"opened", "clicked"} :
       rows[l].at[s] # 0 => rows'[l].at[s] = rows[l].at[s]]_vars

(* SNS gets a 200 for an event that says something and whose row was found *)
(* only when the event is in the database: its time stamp is set, and for  *)
(* a hard bounce or a complaint an address of the message is listed unless *)
(* an Add failed, whatever requests that timed out did beside it           *)
(* (handler.go 162-176, 213-248).                                          *)
AnsweredIsApplied ==
  \A e \in emitted \ (due \cup dropped) :
    /\ \A s \in StampOf(StatusOfKind(e.kind)) : rows[e.log].at[s] # 0
    /\ e.kind \in {"HardBounce", "Complaint"} =>
         \E a \in To[e.log] : \/ <<Client[e.log], a>> \in blacklist
                              \/ <<e, a>> \in unlisted

(* The events of a set that a client's column is about.                    *)
About(e, s) == /\ Client[e.log] = s[1]
               /\ IF s[2] = "bounced" THEN e.kind \in {"HardBounce", "SoftBounce"}
                  ELSE StatusOfKind(e.kind) = s[2]

Belonging(E, s) == {e \in E : About(e, s)}

(* The statistics are exact up to named faults: a client's column counts   *)
(* every event of its kind that met its row, was answered 200 and whose    *)
(* IncrementStat did not fail, and counts nothing else; an event counts    *)
(* more than once only as often as SNS posts it again after it was counted *)
(* or while a request that timed out may still count it (handler.go        *)
(* 195-248, stats_repo.go 33-51).                                          *)
StatsAccounted ==
  \A s \in {c \in DOMAIN stats : c[2] # "sent"} :
    /\ Cardinality(Belonging(emitted \ (due \cup dropped \cup uncounted), s)) <= stats[s]
    /\ stats[s] <= Cardinality(Belonging(emitted, s)) + recounted

(* No event is delivered for ever: the failures are finitely many, and     *)
(* neither an unknown message id nor an order makes the handler fail.      *)
EventsSettle == <>[](due = {})

-----------------------------------------------------------------------------
(* "Bounces and complaints auto-blacklist the address" (README.md 475).    *)
BouncesListed ==
  \A e \in emitted \ due :
    e.kind \in {"HardBounce", "Complaint"} =>
      \E a \in To[e.log] : <<Client[e.log], a>> \in blacklist

(* "Don't downgrade from a terminal state" (email_log_repo.go 84): an open *)
(* does not replace a bounce.                                              *)
OpenKeepsBounce ==
  [][\A l \in Logs :
       rows[l].status \in {"bounced", "hard_bounced", "soft_bounced"}
         => rows'[l].status # "opened"]_vars

=============================================================================
