-------------------------- MODULE LifecycleProofs --------------------------
(***************************************************************************)
(* Proofs about Lifecycle, for any rows, clients, recipients and handlers, *)
(* any number of copies, events, faults and times, and any kinds of events *)
(* that LifecycleAssumption allows.                                        *)
(***************************************************************************)
EXTENDS Lifecycle, FiniteSetTheorems, TLAPS

Row == [status: Statuses, msgId: 0..MaxSends, at: [Stamps -> 0..MaxTime]]

Addresses == UNION {To[l] : l \in Logs}

TableTypes ==
  /\ rows \in [Logs -> Row]
  /\ \A p \in blacklist : \E l \in Logs : p[1] = Client[l] /\ p[2] \in To[l]
  /\ stats \in [{Client[l] : l \in Logs} \X Columns -> Nat]

WorkerTypes ==
  /\ wpc \in [Logs -> {"send", "setid", "marksent", "count", "end"}]
  /\ sends \in [Logs -> 0..MaxSends]
  /\ now \in 1..MaxTime /\ faults \in Nat

EventTypes ==
  /\ due \subseteq emitted /\ emitted \subseteq Events /\ IsFiniteSet(emitted)
  /\ recounted \in Nat

HandlerTypes ==
  /\ hpc \in [Handlers -> {"idle", "lookup", "list", "mark", "stat", "listlast"}]
  /\ ev \in [Handlers -> Events \cup {NoEvent}]
  /\ todo \in [Handlers -> SUBSET Addresses]
  /\ late \subseteq Handlers /\ IsFiniteSet(late)

Types == TableTypes /\ WorkerTypes /\ EventTypes /\ HandlerTypes

(* An event is due while SNS waits for an answer to it, and SNS waits for  *)
(* one answer at a time; requests that timed out may have it, too.         *)
OneHandler ==
  \A h \in Handlers :
    /\ hpc[h] = "idle" <=> ev[h] = NoEvent
    /\ ev[h] # NoEvent => ev[h] \in emitted /\ todo[h] \subseteq To[ev[h].log]
    /\ h \in late => ev[h] # NoEvent
    /\ h \notin late /\ ev[h] # NoEvent =>
         ev[h] \in due /\ \A g \in Handlers \ late : ev[g] = ev[h] => g = h

(* Where a handler is tells what it has to do and for which kind.          *)
Stages ==
  \A h \in Handlers :
    /\ todo[h] # {} <=> hpc[h] \in {"list", "listlast"}
    /\ hpc[h] = "list" => ev[h].kind = "HardBounce"
    /\ hpc[h] = "listlast" => ev[h].kind = "Complaint"
    /\ hpc[h] = "stat" => ev[h].kind # "Send"
    /\ hpc[h] \in {"list", "mark", "stat", "listlast"} => ev[h].kind \notin Silent

Stamped(e) == \A s \in StampOf(StatusOfKind(e.kind)) : rows[e.log].at[s] # 0

Listed(e) == \E a \in To[e.log] : \/ <<Client[e.log], a>> \in blacklist
                                  \/ <<e, a>> \in unlisted

(* What a handler that SNS waits for has done when it gets to its next call. *)
Progress ==
  \A h \in Handlers \ late, e \in Events : ev[h] = e =>
    /\ hpc[h] \in {"stat", "listlast"} => Stamped(e)
    /\ hpc[h] \in {"mark", "stat"} /\ e.kind = "HardBounce" => Listed(e)

HandlerInv == OneHandler /\ Stages

AppliedInv == Progress /\ AnsweredIsApplied

(* The events that are still to be counted, for the first time or again.   *)
ToCount == due \ InHand

(* The requests that timed out and may still count their event in s.       *)
Loose(s) == {h \in late : hpc[h] # "listlast" /\ About(ev[h], s)}

(* A column counts what is not to be counted any more, and has room for    *)
(* what is, and for what requests that timed out may add.                  *)
CountsInv ==
  \A s \in {c \in DOMAIN stats : c[2] # "sent"} :
    /\ Cardinality(Belonging(emitted \ (dropped \cup uncounted \cup ToCount), s)) <= stats[s]
    /\ stats[s] + Cardinality(Belonging(ToCount, s)) + Cardinality(Loose(s))
         <= Cardinality(Belonging(emitted, s)) + recounted

-----------------------------------------------------------------------------
(* Events, rows and columns.                                               *)

LEMMA Numbers ==
  /\ MaxSends \in Nat /\ MaxEvents \in Nat /\ MaxFaults \in Nat
  /\ MaxTime \in Nat /\ MaxTime >= 1
<1>1. {MaxSends, MaxEvents, MaxFaults} \subseteq Nat /\ MaxTime \in Nat \ {0}
  BY LifecycleAssumption
<1> QED BY <1>1

LEMMA KindFacts ==
  ASSUME NEW k \in Kinds
  PROVE  /\ StampOf(StatusOfKind(k)) \subseteq Stamps
         /\ k \notin Silent => StatusOfKind(k) \in Statuses /\ ColumnOfKind(k) \in Columns
         /\ k \notin Silent \cup {"Send"} => ColumnOfKind(k) # "sent"
<1> DEFINE Telling == {"Send", "Delivery", "Open", "Click", "HardBounce", "SoftBounce", "Complaint"}
<1>1. k \in Telling \/ k \in Silent
  BY LifecycleAssumption
<1>2. StampOf(StatusOfKind(k)) \subseteq Stamps
  <2>1. CASE k \in Telling
    BY <2>1 DEF StatusOfKind, StampOf, Stamps
  <2>2. CASE k \in Silent
    <3>1. StatusOfKind(k) = "none"
      BY <2>2 DEF StatusOfKind, Silent
    <3> QED BY <3>1 DEF StampOf
  <2> QED BY <1>1, <2>1, <2>2
<1>3. k \in Telling => StatusOfKind(k) \in Statuses
  BY DEF StatusOfKind, Statuses, Silent
<1>4. k \in Telling => ColumnOfKind(k) \in Columns /\ (k # "Send" => ColumnOfKind(k) # "sent")
  BY DEF ColumnOfKind, StatusOfKind, Columns, Silent
<1> QED BY <1>1, <1>2, <1>3, <1>4

LEMMA EventFacts ==
  ASSUME NEW e \in Events
  PROVE  e.log \in Logs /\ e.msg \in 1..MaxSends /\ e.kind \in Kinds /\ e # NoEvent
<1>1. e.log \in Logs /\ e.msg \in 1..MaxSends /\ e.kind \in Kinds
  BY DEF Events
<1>2. NoEvent.kind = "none" /\ "none" \notin Kinds
  BY LifecycleAssumption DEF NoEvent, Silent
<1> QED BY <1>1, <1>2

(* UpdateStatus: what it stamps, and that it never takes a stamp away.     *)
LEMMA UpdateFacts ==
  ASSUME NEW row \in Row, NEW new \in Statuses, NEW t \in 1..MaxTime
  PROVE  /\ UpdateStatus(row, new, t) \in Row
         /\ \A s \in Stamps : row.at[s] # 0 => UpdateStatus(row, new, t).at[s] # 0
         /\ \A s \in StampOf(new) : UpdateStatus(row, new, t).at[s] # 0
         /\ \A s \in {"opened", "clicked"} :
              row.at[s] # 0 => UpdateStatus(row, new, t).at[s] = row.at[s]
<1> DEFINE after == UpdateStatus(row, new, t)
<1>1. row.status \in Statuses /\ row.msgId \in 0..MaxSends /\ row.at \in [Stamps -> 0..MaxTime]
  BY DEF Row
<1>2. t \in 0..MaxTime /\ t # 0
  BY Numbers
<1>3. after = [row EXCEPT !.status = StatusAfter(row.status, new),
                          !.at = StampsAfter(row.at, new, t)]
  BY DEF UpdateStatus
<1>4. StatusAfter(row.status, new) \in Statuses
  BY <1>1 DEF StatusAfter
<1>5. StampsAfter(row.at, new, t) \in [Stamps -> 0..MaxTime]
  BY <1>1, <1>2 DEF StampsAfter
<1>6. StampOf(new) \subseteq Stamps
  BY DEF StampOf, Stamps
<1>7. \A s \in Stamps : after.at[s] =
         IF s \in StampOf(new) /\ ~(s \in {"opened", "clicked"} /\ row.at[s] # 0)
         THEN t ELSE row.at[s]
  <2>1. after.at = StampsAfter(row.at, new, t)
    BY <1>3 DEF Row
  <2> QED BY <2>1 DEF StampsAfter
<1>8. {"opened", "clicked"} \subseteq Stamps
  BY DEF Stamps
<1>9. after \in Row
  BY <1>1, <1>3, <1>4, <1>5 DEF Row
<1> HIDE DEF after
<1>10. \A s \in Stamps : row.at[s] # 0 => after.at[s] # 0
  BY <1>2, <1>7
<1>11. \A s \in StampOf(new) : after.at[s] # 0
  BY <1>2, <1>6, <1>7
<1>12. \A s \in {"opened", "clicked"} : row.at[s] # 0 => after.at[s] = row.at[s]
  BY <1>7, <1>8
<1> QED BY <1>9, <1>10, <1>11, <1>12 DEF after

-----------------------------------------------------------------------------
(* The calls and the steps of a handler.                                   *)

(* No write loses a stamp, and none changes the first open or click.       *)
StampsKept ==
  \A l \in Logs : /\ \A s \in Stamps : rows[l].at[s] # 0 => rows'[l].at[s] # 0
                  /\ \A s \in {"opened", "clicked"} :
                       rows[l].at[s] # 0 => rows'[l].at[s] = rows[l].at[s]

LEMMA CallFacts ==
  ASSUME faults \in Nat, NEW done, NEW ok, Call(done, ok) \/ \E h \in Handlers : Returns(h, done, ok)
  PROVE  faults' \in Nat /\ (ok => done)
BY DEF Call, Returns

LEMMA WriteFacts ==
  ASSUME Types, NEW l \in Logs, NEW new \in Statuses, Write(l, new)
  PROVE  /\ rows' \in [Logs -> Row] /\ StampsKept
         /\ \A s \in StampOf(new) : rows'[l].at[s] # 0
<1>1. rows \in [Logs -> Row] /\ now \in 1..MaxTime
  BY DEF Types, TableTypes, WorkerTypes
<1>2. rows' = [rows EXCEPT ![l] = UpdateStatus(rows[l], new, now)]
  BY DEF Write
<1>3. rows[l] \in Row
  BY <1>1
<1>4. /\ UpdateStatus(rows[l], new, now) \in Row
      /\ \A s \in Stamps : rows[l].at[s] # 0 => UpdateStatus(rows[l], new, now).at[s] # 0
      /\ \A s \in StampOf(new) : UpdateStatus(rows[l], new, now).at[s] # 0
      /\ \A s \in {"opened", "clicked"} :
           rows[l].at[s] # 0 => UpdateStatus(rows[l], new, now).at[s] = rows[l].at[s]
  BY <1>1, <1>3, UpdateFacts
<1>5. /\ rows' \in [Logs -> Row] /\ rows'[l] = UpdateStatus(rows[l], new, now)
      /\ \A k \in Logs \ {l} : rows'[k] = rows[k]
  BY <1>1, <1>2, <1>4
<1> QED BY <1>4, <1>5 DEF StampsKept

LEMMA IncrementFacts ==
  ASSUME Types, NEW l \in Logs, NEW c \in Columns, Increment(l, c)
  PROVE  /\ stats' \in [{Client[k] : k \in Logs} \X Columns -> Nat]
         /\ <<Client[l], c>> \in DOMAIN stats
         /\ stats'[<<Client[l], c>>] = stats[<<Client[l], c>>] + 1
         /\ \A s \in DOMAIN stats : s # <<Client[l], c>> => stats'[s] = stats[s]
<1> DEFINE cells == {Client[k] : k \in Logs} \X Columns
           cell  == <<Client[l], c>>
<1>1. stats \in [cells -> Nat] /\ cell \in cells
  BY DEF Types, TableTypes
<1>2. stats' = [stats EXCEPT ![cell] = stats[cell] + 1]
  BY DEF Increment
<1> HIDE DEF cells, cell
<1>3. /\ stats' \in [cells -> Nat] /\ cell \in DOMAIN stats /\ stats'[cell] = stats[cell] + 1
      /\ \A s \in DOMAIN stats : s # cell => stats'[s] = stats[s]
  <2>1. stats[cell] + 1 \in Nat
    BY <1>1
  <2> QED BY <1>1, <1>2, <2>1
<1> QED BY <1>3 DEF cells, cell

LEMMA AnswerFacts ==
  ASSUME Types, NEW h \in Handlers, NEW code, Answer(h, code)
  PROVE  /\ hpc'[h] = "idle" /\ ev'[h] = NoEvent
         /\ \A g \in Handlers \ {h} : hpc'[g] = hpc[g] /\ ev'[g] = ev[g]
         /\ due' = (IF code \in {200, 400} /\ h \notin late THEN due \ {ev[h]} ELSE due)
         /\ late' = late \ {h}
         /\ hpc' \in [Handlers -> {"idle", "lookup", "list", "mark", "stat", "listlast"}]
         /\ ev' \in [Handlers -> Events \cup {NoEvent}]
BY DEF Answer, HandlerGoto, Types, HandlerTypes

LEMMA ContinueFacts ==
  ASSUME Types, NEW h \in Handlers, NEW label \in {"list", "mark", "stat", "listlast"},
         Continue(h, label)
  PROVE  /\ hpc'[h] = label /\ \A g \in Handlers \ {h} : hpc'[g] = hpc[g]
         /\ UNCHANGED <<ev, due, late>>
         /\ hpc' \in [Handlers -> {"idle", "lookup", "list", "mark", "stat", "listlast"}]
BY DEF Continue, HandlerGoto, Types, HandlerTypes

(* What the visits leave alone: no row has the id that the handlers read.  *)
LEMMA VisitFacts ==
  ASSUME (\E v \in Visits : Visit(v[1], v[2]) \/ Record(v[1], v[2])) \/ UNCHANGED vars
  PROVE  UNCHANGED <<rows, blacklist, stats, worker, sns, handler, bounds, history>>
<1>1. CASE \E v \in Visits : Visit(v[1], v[2])
  BY <1>1 DEF Visit
<1>2. CASE \E v \in Visits : Record(v[1], v[2])
  BY <1>2, LifecycleAssumption DEF Record, ParamLogID
<1>3. CASE UNCHANGED vars
  BY <1>3 DEF vars
<1> QED BY <1>1, <1>2, <1>3

-----------------------------------------------------------------------------
LEMMA TypesStart == Init => Types
<1> SUFFICES ASSUME Init PROVE Types
  OBVIOUS
<1>1. TableTypes
  <2>1. NewRow.status \in Statuses /\ NewRow.msgId \in 0..MaxSends
        /\ NewRow.at \in [Stamps -> 0..MaxTime]
    BY Numbers DEF NewRow, Statuses
  <2>2. NewRow \in Row
    BY <2>1 DEF NewRow, Row
  <2>3. rows \in [Logs -> Row]
    BY <2>2 DEF Init
  <2>4. blacklist = {} /\ stats \in [{Client[l] : l \in Logs} \X Columns -> Nat]
    BY DEF Init
  <2> QED BY <2>3, <2>4 DEF TableTypes
<1>2. WorkerTypes
  BY Numbers DEF Init, WorkerTypes
<1>3. EventTypes
  BY FS_EmptySet DEF Init, EventTypes
<1>4. HandlerTypes
  BY FS_EmptySet DEF Init, HandlerTypes
<1> QED BY <1>1, <1>2, <1>3, <1>4 DEF Types

LEMMA TypesStep == Types /\ HandlerInv /\ [Next]_vars => Types'
<1> SUFFICES ASSUME Types, HandlerInv, [Next]_vars PROVE Types'
  OBVIOUS
<1>1. TableTypes /\ WorkerTypes /\ EventTypes /\ HandlerTypes /\ faults \in Nat
  BY DEF Types, WorkerTypes
<1>2. TableTypes'
  <2>1. CASE UNCHANGED <<rows, blacklist, stats>>
    BY <1>1, <2>1 DEF TableTypes
  <2>2. ASSUME NEW l \in Logs, NEW new \in Statuses, Write(l, new), UNCHANGED <<blacklist, stats>>
        PROVE  TableTypes'
    <3>1. rows' \in [Logs -> Row]
      BY <2>2, WriteFacts
    <3> QED BY <1>1, <2>2, <3>1 DEF TableTypes
  <2>3. ASSUME NEW l \in Logs, NEW c \in Columns, Increment(l, c), UNCHANGED <<rows, blacklist>>
        PROVE  TableTypes'
    <3>1. stats' \in [{Client[k] : k \in Logs} \X Columns -> Nat]
      BY <2>3, IncrementFacts
    <3> QED BY <1>1, <2>3, <3>1 DEF TableTypes
  <2>4. ASSUME NEW l \in Logs, StoreId(l) PROVE TableTypes'
    <3>1. UNCHANGED <<blacklist, stats>>
      BY <2>4 DEF StoreId
    <3>2. rows' = [rows EXCEPT ![l] = SetAWSMessageID(rows[l], sends[l])] \/ UNCHANGED rows
      BY <2>4 DEF StoreId
    <3>3. SetAWSMessageID(rows[l], sends[l]) \in Row
      <4>1. rows[l] \in Row /\ sends[l] \in 0..MaxSends
        BY <1>1 DEF TableTypes, WorkerTypes
      <4> QED BY <4>1 DEF SetAWSMessageID, Row
    <3>4. rows' \in [Logs -> Row]
      BY <1>1, <3>2, <3>3 DEF TableTypes
    <3> QED BY <1>1, <3>1, <3>4 DEF TableTypes
  <2>5. ASSUME NEW l \in Logs, MarkSent(l) \/ GiveUp(l) PROVE TableTypes'
    <3>1. "sent" \in Statuses /\ "failed" \in Statuses
      BY DEF Statuses
    <3>2. UNCHANGED <<blacklist, stats>> /\ (Write(l, "sent") \/ Write(l, "failed") \/ UNCHANGED rows)
      BY <2>5 DEF MarkSent, GiveUp
    <3> QED BY <2>1, <2>2, <3>1, <3>2
  <2>6. ASSUME NEW l \in Logs, CountSent(l) PROVE TableTypes'
    <3>1. "sent" \in Columns
      BY DEF Columns
    <3>2. UNCHANGED <<rows, blacklist>> /\ (Increment(l, "sent") \/ UNCHANGED stats)
      BY <2>6 DEF CountSent
    <3> QED BY <2>1, <2>3, <3>1, <3>2
  <2>7. ASSUME NEW h \in Handlers, Mark(h) PROVE TableTypes'
    <3>1. ev[h] \in Events
      BY <1>1, <2>7 DEF Mark, HandlerInv, OneHandler, HandlerTypes
    <3>2. ev[h].log \in Logs /\ StatusOfKind(ev[h].kind) \in Statuses
      <4>1. ev[h].log \in Logs /\ ev[h].kind \in Kinds
        BY <3>1, EventFacts
      <4>2. ev[h].kind \notin Silent
        BY <2>7 DEF Mark, HandlerInv, Stages
      <4> QED BY <4>1, <4>2, KindFacts
    <3>3. UNCHANGED <<blacklist, stats>>
          /\ (Write(ev[h].log, StatusOfKind(ev[h].kind)) \/ UNCHANGED rows)
      BY <2>7 DEF Mark
    <3> QED BY <2>1, <2>2, <3>2, <3>3
  <2>8. ASSUME NEW h \in Handlers, Stat(h) PROVE TableTypes'
    <3>1. ev[h] \in Events
      BY <1>1, <2>8 DEF Stat, HandlerInv, OneHandler, HandlerTypes
    <3>2. ev[h].log \in Logs /\ ColumnOfKind(ev[h].kind) \in Columns
      <4>1. ev[h].log \in Logs /\ ev[h].kind \in Kinds
        BY <3>1, EventFacts
      <4>2. ev[h].kind \notin Silent
        BY <2>8 DEF Stat, HandlerInv, Stages
      <4> QED BY <4>1, <4>2, KindFacts
    <3>3. UNCHANGED <<rows, blacklist>>
          /\ (Increment(ev[h].log, ColumnOfKind(ev[h].kind)) \/ UNCHANGED stats)
      BY <2>8 DEF Stat
    <3> QED BY <2>1, <2>3, <3>2, <3>3
  <2>9. ASSUME NEW h \in Handlers, AddOne(h) PROVE TableTypes'
    <3>1. ev[h] \in Events /\ todo[h] \subseteq To[ev[h].log]
      BY <1>1, <2>9 DEF AddOne, HandlerInv, OneHandler, HandlerTypes
    <3>2. ev[h].log \in Logs
      BY <3>1, EventFacts
    <3>3. UNCHANGED <<rows, stats>>
      BY <2>9 DEF AddOne
    <3>4. PICK a \in todo[h] : blacklist' \subseteq blacklist \cup {<<Client[ev[h].log], a>>}
      BY <2>9 DEF AddOne
    <3>5. \A p \in blacklist' : \E l \in Logs : p[1] = Client[l] /\ p[2] \in To[l]
      BY <1>1, <3>1, <3>2, <3>4 DEF TableTypes
    <3> QED BY <1>1, <3>3, <3>5 DEF TableTypes
  <2>10. CASE Tick \/ Crash \/ \E l \in Logs : Accept(l)
    BY <2>1, <2>10 DEF Tick, Crash, Accept
  <2>11. CASE (\E e \in Events : Emit(e) \/ Repeat(e) \/ \E h \in Handlers : Deliver(h, e))
              \/ \E h \in Handlers : Lookup(h) \/ TimeOut(h)
    BY <2>1, <2>11 DEF Emit, Repeat, Deliver, Lookup, TimeOut
  <2>12. CASE (\E v \in Visits : Visit(v[1], v[2]) \/ Record(v[1], v[2])) \/ UNCHANGED vars
    BY <2>1, <2>12, VisitFacts
  <2> QED BY <2>4, <2>5, <2>6, <2>7, <2>8, <2>9, <2>10, <2>11, <2>12
          DEF Next, WorkerStep, HandlerStep
<1>3. WorkerTypes'
  <2>1. CASE \E l \in Logs : WorkerStep(l)
    <3> PICK l \in Logs : WorkerStep(l)
      BY <2>1
    <3>1. now' = now /\ faults' \in Nat
      BY <1>1, CallFacts DEF WorkerStep, Accept, StoreId, MarkSent, CountSent, GiveUp
    <3>2. sends' \in [Logs -> 0..MaxSends]
      <4>1. sends \in [Logs -> 0..MaxSends]
        BY <1>1 DEF WorkerTypes
      <4>2. CASE Accept(l)
        BY <4>1, <4>2, Numbers DEF Accept
      <4>3. CASE ~Accept(l)
        BY <4>1, <4>3 DEF WorkerStep, StoreId, MarkSent, CountSent, GiveUp
      <4> QED BY <4>2, <4>3
    <3>3. wpc' \in [Logs -> {"send", "setid", "marksent", "count", "end"}]
      BY <1>1 DEF WorkerStep, Accept, StoreId, MarkSent, CountSent, GiveUp, WorkerTypes, WorkerGoto
    <3> QED BY <1>1, <3>1, <3>2, <3>3 DEF WorkerTypes
  <2>2. CASE Tick
    BY <1>1, <2>2, Numbers DEF Tick, WorkerTypes, worker
  <2>3. CASE Crash \/ \E e \in Events : Emit(e) \/ Repeat(e)
    BY <1>1, <2>3 DEF Crash, Emit, Repeat, WorkerTypes, worker, bounds
  <2>4. CASE \E h \in Handlers : HandlerStep(h) \/ TimeOut(h) \/ \E e \in Events : Deliver(h, e)
    <3>1. UNCHANGED <<worker, now>>
      BY <2>4 DEF HandlerStep, Lookup, AddOne, Mark, Stat, TimeOut, Deliver, bounds
    <3>2. faults' \in Nat
      <4>1. CASE (\E h \in Handlers, e \in Events : Deliver(h, e)) \/ \E h \in Handlers : TimeOut(h)
        BY <1>1, <4>1 DEF Deliver, TimeOut, bounds
      <4>2. ASSUME NEW h \in Handlers, HandlerStep(h) PROVE faults' \in Nat
        <5>1. faults' = faults \/ \E done, ok \in BOOLEAN : Returns(h, done, ok)
          BY <4>2 DEF HandlerStep, Lookup, AddOne, Mark, Stat
        <5> QED BY <1>1, <5>1, CallFacts
      <4> QED BY <2>4, <4>1, <4>2
    <3> QED BY <1>1, <3>1, <3>2 DEF WorkerTypes, worker
  <2>5. CASE (\E v \in Visits : Visit(v[1], v[2]) \/ Record(v[1], v[2])) \/ UNCHANGED vars
    <3>1. UNCHANGED <<worker, bounds>>
      BY <2>5, VisitFacts
    <3> QED BY <1>1, <3>1 DEF WorkerTypes, worker, bounds
  <2> QED BY <2>1, <2>2, <2>3, <2>4, <2>5 DEF Next
<1>4. EventTypes'
  <2>1. CASE \E e \in Events : Emit(e)
    <3>1. PICK e \in Events : emitted' = emitted \cup {e} /\ due' = due \cup {e}
                              /\ recounted' = recounted
      BY <2>1 DEF Emit, history, recounts
    <3>2. IsFiniteSet(emitted')
      BY <1>1, <3>1, FS_AddElement DEF EventTypes
    <3> QED BY <1>1, <3>1, <3>2 DEF EventTypes
  <2>2. CASE (\E e \in Events : Repeat(e)) \/ \E h \in Handlers : TimeOut(h)
    BY <1>1, <2>2 DEF Repeat, TimeOut, EventTypes, sns
  <2>3. CASE Crash
    <3>1. InHand \subseteq emitted
      BY <1>1 DEF InHand, HandlerInv, OneHandler, EventTypes
    <3>2. Cardinality(InHand) \in Nat
      BY <1>1, <3>1, FS_Subset, FS_CardinalityType DEF EventTypes
    <3> QED BY <1>1, <2>3, <3>2 DEF Crash, EventTypes, sns
  <2>4. CASE \E h \in Handlers : HandlerStep(h)
    <3>1. PICK h \in Handlers : HandlerStep(h)
      BY <2>4
    <3>2. UNCHANGED <<emitted, recounted>>
      BY <3>1 DEF HandlerStep, Lookup, AddOne, Mark, Stat, history, recounts
    <3>3. due' \subseteq due
      BY <3>1 DEF HandlerStep, Lookup, AddOne, Mark, Stat, Ignore, Answer, Continue
    <3> QED BY <1>1, <3>2, <3>3 DEF EventTypes
  <2>5. CASE (\E v \in Visits : Visit(v[1], v[2]) \/ Record(v[1], v[2])) \/ UNCHANGED vars
    <3>1. UNCHANGED <<sns, history>>
      BY <2>5, VisitFacts
    <3> QED BY <1>1, <3>1 DEF EventTypes, sns, history, recounts
  <2>6. CASE Tick \/ (\E l \in Logs : WorkerStep(l))
             \/ \E h \in Handlers, e \in Events : Deliver(h, e)
    <3>1. UNCHANGED <<sns, history>>
      BY <2>6 DEF Tick, WorkerStep, Accept, StoreId, MarkSent, CountSent, GiveUp, Deliver
    <3> QED BY <1>1, <3>1 DEF EventTypes, sns, history, recounts
  <2> QED BY <2>1, <2>2, <2>3, <2>4, <2>5, <2>6 DEF Next
<1>5. HandlerTypes'
  <2>1. /\ hpc \in [Handlers -> {"idle", "lookup", "list", "mark", "stat", "listlast"}]
        /\ ev \in [Handlers -> Events \cup {NoEvent}]
        /\ todo \in [Handlers -> SUBSET Addresses]
        /\ late \subseteq Handlers /\ IsFiniteSet(late)
    BY <1>1 DEF HandlerTypes
  <2>2. ASSUME NEW h \in Handlers, NEW e \in Events, Deliver(h, e) PROVE HandlerTypes'
    BY <2>1, <2>2 DEF Deliver, HandlerTypes
  <2>3. ASSUME NEW h \in Handlers, NEW code, Answer(h, code),
               todo' \in [Handlers -> SUBSET Addresses]
        PROVE  HandlerTypes'
    <3>1. late' = late \ {h}
      BY <2>3, AnswerFacts
    <3>2. late' \subseteq Handlers /\ IsFiniteSet(late')
      BY <2>1, <3>1, FS_Subset
    <3> QED BY <2>3, <3>2, AnswerFacts DEF HandlerTypes
  <2>4. ASSUME NEW h \in Handlers, NEW label \in {"list", "mark", "stat", "listlast"},
               Continue(h, label), todo' \in [Handlers -> SUBSET Addresses]
        PROVE  HandlerTypes'
    BY <2>1, <2>4, ContinueFacts DEF HandlerTypes
  <2>5. ASSUME NEW h \in Handlers, HandlerStep(h) PROVE HandlerTypes'
    <3>1. hpc[h] # "idle"
      BY <2>5 DEF HandlerStep, Lookup, AddOne, Mark, Stat
    <3>2. ev[h] \in Events
      BY <2>1, <3>1 DEF HandlerInv, OneHandler
    <3>3. To[ev[h].log] \subseteq Addresses
      BY <3>2, EventFacts DEF Addresses
    <3>4. todo' \in [Handlers -> SUBSET Addresses]
      BY <2>1, <2>5, <3>3 DEF HandlerStep, Lookup, Ignore, AddOne, Mark, Stat
    <3>5. \/ Answer(h, 200) \/ Answer(h, 400) \/ Answer(h, 500)
          \/ Continue(h, "list") \/ Continue(h, "mark")
          \/ Continue(h, "stat") \/ Continue(h, "listlast")
      BY <2>5 DEF HandlerStep, Lookup, Ignore, AddOne, Mark, Stat, UnknownCode, MarkErrorCode
    <3> QED BY <2>3, <2>4, <3>4, <3>5
  <2>6. CASE Crash
    BY <2>6, FS_EmptySet DEF Crash, HandlerTypes
  <2>7. CASE Tick \/ (\E l \in Logs : WorkerStep(l)) \/ \E e \in Events : Emit(e) \/ Repeat(e)
    <3>1. UNCHANGED handler
      BY <2>7 DEF Tick, WorkerStep, Accept, StoreId, MarkSent, CountSent, GiveUp, Emit, Repeat
    <3> QED BY <2>1, <3>1 DEF HandlerTypes, handler
  <2>8. CASE (\E v \in Visits : Visit(v[1], v[2]) \/ Record(v[1], v[2])) \/ UNCHANGED vars
    <3>1. UNCHANGED handler
      BY <2>8, VisitFacts
    <3> QED BY <2>1, <3>1 DEF HandlerTypes, handler
  <2>9. ASSUME NEW h \in Handlers, TimeOut(h) PROVE HandlerTypes'
    BY <2>1, <2>9, FS_AddElement DEF TimeOut, HandlerTypes
  <2> QED BY <2>2, <2>5, <2>6, <2>7, <2>8, <2>9 DEF Next
<1> QED BY <1>2, <1>3, <1>4, <1>5 DEF Types

-----------------------------------------------------------------------------
LEMMA HandlersStart == Init => HandlerInv
BY DEF Init, HandlerInv, OneHandler, Stages

(* A busy handler's event, and what the step of a handler does to todo.    *)
LEMMA BusyFacts ==
  ASSUME Types, HandlerInv, NEW h \in Handlers, HandlerStep(h)
  PROVE  /\ hpc[h] # "idle" /\ ev[h] \in Events /\ ev[h] \in emitted
         /\ ev[h].log \in Logs /\ ev[h].kind \in Kinds
         /\ \A g \in Handlers \ {h} : todo'[g] = todo[g]
         /\ h \notin late => /\ ev[h] \in due /\ due' \in {due, due \ {ev[h]}}
                            /\ \A g \in Handlers \ (late \cup {h}) : ev[g] # ev[h]
         /\ h \in late => due' = due
         /\ late' \in {late, late \ {h}}
<1>1. hpc[h] # "idle"
  BY DEF HandlerStep, Lookup, AddOne, Mark, Stat
<1>2. ev \in [Handlers -> Events \cup {NoEvent}] /\ todo \in [Handlers -> SUBSET Addresses]
  BY DEF Types, HandlerTypes
<1>3. ev[h] \in Events /\ ev[h] # NoEvent /\ ev[h] \in emitted
      /\ (h \notin late => ev[h] \in due)
  BY <1>1, <1>2 DEF HandlerInv, OneHandler
<1>4. ev[h].log \in Logs /\ ev[h].kind \in Kinds
  BY <1>3, EventFacts
<1>5. \A g \in Handlers \ {h} : todo'[g] = todo[g]
  BY <1>2 DEF HandlerStep, Lookup, Ignore, AddOne, Mark, Stat
<1>6. h \notin late => \A g \in Handlers \ (late \cup {h}) : ev[g] # ev[h]
  BY <1>3 DEF HandlerInv, OneHandler
<1>7. /\ due' \in {due, due \ {ev[h]}} /\ (h \in late => due' = due)
      /\ late' \in {late, late \ {h}}
  BY DEF HandlerStep, Lookup, Ignore, AddOne, Mark, Stat, Answer, Continue
<1> QED BY <1>1, <1>3, <1>4, <1>5, <1>6, <1>7

LEMMA HandlersStep == Types /\ HandlerInv /\ [Next]_vars => HandlerInv'
<1> SUFFICES ASSUME Types, HandlerInv, [Next]_vars PROVE HandlerInv'
  OBVIOUS
<1>1. /\ hpc \in [Handlers -> {"idle", "lookup", "list", "mark", "stat", "listlast"}]
      /\ ev \in [Handlers -> Events \cup {NoEvent}]
      /\ todo \in [Handlers -> SUBSET Addresses]
  BY DEF Types, HandlerTypes
<1>2. CASE UNCHANGED handler /\ due \subseteq due' /\ emitted \subseteq emitted'
  BY <1>2 DEF HandlerInv, OneHandler, Stages, handler
<1>3. CASE Crash
  BY <1>3 DEF Crash, HandlerInv, OneHandler, Stages, Silent
<1>4. ASSUME NEW h \in Handlers, NEW e \in Events, Deliver(h, e) PROVE HandlerInv'
  <2>1. /\ hpc[h] = "idle" /\ e \in due /\ (\A g \in Handlers \ late : ev[g] # e)
        /\ due' = due /\ emitted' = emitted
        /\ todo' = todo /\ late' = late /\ ev'[h] = e /\ hpc'[h] = "lookup"
        /\ \A g \in Handlers \ {h} : ev'[g] = ev[g] /\ hpc'[g] = hpc[g]
    BY <1>1, <1>4 DEF Deliver, sns
  <2>2. e # NoEvent /\ todo[h] = {} /\ e \in emitted
    BY <2>1, EventFacts DEF HandlerInv, Stages, Types, EventTypes
  <2>3. OneHandler'
    BY <2>1, <2>2 DEF HandlerInv, OneHandler
  <2>4. Stages'
    BY <2>1, <2>2 DEF HandlerInv, Stages
  <2> QED BY <2>3, <2>4 DEF HandlerInv
<1>5. ASSUME NEW h \in Handlers, HandlerStep(h) PROVE HandlerInv'
  <2>1. /\ hpc[h] # "idle" /\ ev[h] \in Events /\ ev[h] \in emitted
        /\ \A g \in Handlers \ {h} : todo'[g] = todo[g]
        /\ h \notin late => /\ ev[h] \in due /\ due' \in {due, due \ {ev[h]}}
                           /\ \A g \in Handlers \ (late \cup {h}) : ev[g] # ev[h]
        /\ h \in late => due' = due
        /\ emitted' = emitted
    BY <1>5, BusyFacts DEF HandlerStep, Lookup, AddOne, Mark, Stat
  <2>2. ev[h] # NoEvent
        /\ \A g \in Handlers \ {h} : g \notin late /\ ev[g] # NoEvent => ev[g] \in due'
    BY <2>1, EventFacts DEF HandlerInv, OneHandler
  <2>3. ASSUME NEW code, Answer(h, code), todo'[h] = {} PROVE HandlerInv'
    <3>1. /\ hpc'[h] = "idle" /\ ev'[h] = NoEvent
          /\ \A g \in Handlers \ {h} : hpc'[g] = hpc[g] /\ ev'[g] = ev[g]
          /\ late' = late \ {h}
      BY <2>3, AnswerFacts
    <3>2. OneHandler'
      BY <2>1, <2>2, <2>3, <3>1 DEF HandlerInv, OneHandler
    <3>3. Stages'
      BY <2>1, <2>3, <3>1 DEF HandlerInv, Stages
    <3> QED BY <3>2, <3>3 DEF HandlerInv
  <2>4. ASSUME NEW label \in {"list", "mark", "stat", "listlast"}, Continue(h, label),
               todo'[h] \subseteq To[ev[h].log],
               todo'[h] # {} <=> label \in {"list", "listlast"},
               label = "list" => ev[h].kind = "HardBounce",
               label = "listlast" => ev[h].kind = "Complaint",
               label = "stat" => ev[h].kind # "Send", ev[h].kind \notin Silent
        PROVE  HandlerInv'
    <3>1. /\ hpc'[h] = label /\ (\A g \in Handlers \ {h} : hpc'[g] = hpc[g])
          /\ ev' = ev /\ due' = due /\ late' = late
      BY <2>4, ContinueFacts
    <3>2. OneHandler'
      BY <2>1, <2>2, <2>4, <3>1 DEF HandlerInv, OneHandler
    <3>3. Stages'
      BY <2>1, <2>4, <3>1 DEF HandlerInv, Stages
    <3> QED BY <3>2, <3>3 DEF HandlerInv
  <2>5. todo[h] \subseteq To[ev[h].log]
    BY <2>2 DEF HandlerInv, OneHandler
  <2>6. CASE Lookup(h)
    <3>1. hpc[h] = "lookup" /\ todo[h] = {}
      BY <2>6 DEF Lookup, HandlerInv, Stages
    <3>2. CASE \E code \in {200, 400} : Ignore(h, code)
      BY <2>3, <3>1, <3>2 DEF Ignore
    <3>3. CASE ev[h].kind \in ListsFirst \ Silent /\ \E S \in (SUBSET To[ev[h].log]) \ {{}} :
                 todo' = [todo EXCEPT ![h] = S] /\ Continue(h, "list")
      <4>1. todo'[h] \subseteq To[ev[h].log] /\ todo'[h] # {} /\ Continue(h, "list")
            /\ ev[h].kind = "HardBounce" /\ ev[h].kind \notin Silent
        BY <1>1, <3>3 DEF ListsFirst
      <4> QED BY <2>4, <4>1
    <3>4. CASE Continue(h, "mark") /\ ev[h].kind \notin Silent /\ UNCHANGED todo
      BY <2>4, <2>5, <3>1, <3>4
    <3> QED BY <2>6, <3>2, <3>3, <3>4 DEF Lookup, UnknownCode
  <2>7. CASE AddOne(h)
    <3>1. PICK a \in todo[h] :
            /\ todo' = [todo EXCEPT ![h] = todo[h] \ {a}]
            /\ IF todo[h] # {a} THEN Continue(h, hpc[h])
               ELSE IF hpc[h] = "list" THEN Continue(h, "mark") ELSE Answer(h, 200)
      BY <2>7 DEF AddOne
    <3>2. hpc[h] \in {"list", "listlast"} /\ todo'[h] = todo[h] \ {a}
          /\ ev[h].kind \notin Silent
      BY <1>1, <2>7, <3>1 DEF AddOne, HandlerInv, Stages
    <3>3. CASE todo[h] # {a}
      <4>1. todo'[h] # {} /\ Continue(h, hpc[h])
        BY <3>1, <3>2, <3>3
      <4>2. hpc[h] = "list" => ev[h].kind = "HardBounce"
        BY DEF HandlerInv, Stages
      <4>3. hpc[h] = "listlast" => ev[h].kind = "Complaint"
        BY DEF HandlerInv, Stages
      <4> QED BY <2>4, <2>5, <3>2, <4>1, <4>2, <4>3
    <3>4. CASE todo[h] = {a}
      <4>1. todo'[h] = {} /\ (Continue(h, "mark") \/ Answer(h, 200))
        BY <3>1, <3>2, <3>4
      <4> QED BY <2>3, <2>4, <3>2, <4>1
    <3> QED BY <3>3, <3>4
  <2>8. CASE Mark(h)
    <3>1. hpc[h] = "mark" /\ todo' = todo /\ todo[h] = {} /\ ev[h].kind \notin Silent
      BY <2>8 DEF Mark, HandlerInv, Stages
    <3>2. Answer(h, 200) \/ Answer(h, 500) \/ (Continue(h, "stat") /\ ev[h].kind # "Send")
      BY <2>8 DEF Mark, MarkErrorCode
    <3> QED BY <2>3, <2>4, <2>5, <3>1, <3>2
  <2>9. CASE Stat(h)
    <3>1. hpc[h] = "stat" /\ todo[h] = {} /\ ev[h].kind \notin Silent
      BY <2>9 DEF Stat, HandlerInv, Stages
    <3>2. CASE ev[h].kind = "Complaint"
      <4>1. PICK S \in (SUBSET To[ev[h].log]) \ {{}} :
              todo' = [todo EXCEPT ![h] = S] /\ Continue(h, "listlast")
        BY <2>9, <3>2 DEF Stat
      <4>2. todo'[h] \subseteq To[ev[h].log] /\ todo'[h] # {}
        BY <1>1, <4>1
      <4> QED BY <2>4, <3>1, <3>2, <4>1, <4>2
    <3>3. CASE ev[h].kind # "Complaint"
      BY <2>3, <2>9, <3>1, <3>3 DEF Stat
    <3> QED BY <3>2, <3>3
  <2> QED BY <1>5, <2>6, <2>7, <2>8, <2>9 DEF HandlerStep
<1>6. CASE Tick \/ (\E l \in Logs : WorkerStep(l)) \/ \E e \in Events : Emit(e) \/ Repeat(e)
  <2>1. UNCHANGED handler /\ due \subseteq due' /\ emitted \subseteq emitted'
    BY <1>6 DEF Tick, WorkerStep, Accept, StoreId, MarkSent, CountSent, GiveUp, Emit, Repeat, sns
  <2> QED BY <1>2, <2>1
<1>7. CASE (\E v \in Visits : Visit(v[1], v[2]) \/ Record(v[1], v[2])) \/ UNCHANGED vars
  <2>1. UNCHANGED <<handler, sns>>
    BY <1>7, VisitFacts
  <2> QED BY <1>2, <2>1 DEF sns
<1>8. ASSUME NEW h \in Handlers, TimeOut(h) PROVE HandlerInv'
  <2>1. UNCHANGED <<hpc, ev, todo, emitted, due>> /\ late' = late \cup {h} /\ hpc[h] # "idle"
    BY <1>8 DEF TimeOut, sns
  <2> QED BY <2>1 DEF HandlerInv, OneHandler, Stages
<1> QED BY <1>3, <1>4, <1>5, <1>6, <1>7, <1>8 DEF Next

-----------------------------------------------------------------------------
(* No step takes a stamp away or an address off the blacklist.             *)

LEMMA StampsStay == Types /\ HandlerInv /\ [Next]_vars => StampsKept
<1> SUFFICES ASSUME Types, HandlerInv, [Next]_vars PROVE StampsKept
  OBVIOUS
<1>1. CASE UNCHANGED rows
  BY <1>1 DEF StampsKept
<1>2. ASSUME NEW l \in Logs, NEW new \in Statuses, Write(l, new) PROVE StampsKept
  BY <1>2, WriteFacts
<1>3. ASSUME NEW l \in Logs, StoreId(l) PROVE StampsKept
  <2>1. rows' = [rows EXCEPT ![l] = SetAWSMessageID(rows[l], sends[l])] \/ UNCHANGED rows
    BY <1>3 DEF StoreId
  <2>2. rows \in [Logs -> Row]
    BY DEF Types, TableTypes
  <2>3. SetAWSMessageID(rows[l], sends[l]).at = rows[l].at
    BY <2>2 DEF SetAWSMessageID, Row
  <2> QED BY <2>1, <2>2, <2>3 DEF StampsKept
<1>4. CASE \E l \in Logs : WorkerStep(l)
  <2> PICK l \in Logs : WorkerStep(l)
    BY <1>4
  <2>1. StoreId(l) \/ Write(l, "sent") \/ Write(l, "failed") \/ UNCHANGED rows
    BY DEF WorkerStep, Accept, MarkSent, CountSent, GiveUp
  <2>2. "sent" \in Statuses /\ "failed" \in Statuses
    BY DEF Statuses
  <2> QED BY <1>1, <1>2, <1>3, <2>1, <2>2
<1>5. CASE \E h \in Handlers : HandlerStep(h)
  <2> PICK h \in Handlers : HandlerStep(h)
    BY <1>5
  <2>1. CASE Mark(h)
    <3>1. ev[h].log \in Logs /\ ev[h].kind \in Kinds
      BY BusyFacts
    <3>2. ev[h].kind \notin Silent
      BY <2>1 DEF Mark, HandlerInv, Stages
    <3>3. StatusOfKind(ev[h].kind) \in Statuses
      BY <3>1, <3>2, KindFacts
    <3>4. Write(ev[h].log, StatusOfKind(ev[h].kind)) \/ UNCHANGED rows
      BY <2>1 DEF Mark
    <3> QED BY <1>1, <1>2, <3>1, <3>3, <3>4
  <2>2. CASE Lookup(h) \/ AddOne(h) \/ Stat(h)
    BY <1>1, <2>2 DEF Lookup, AddOne, Stat
  <2> QED BY <2>1, <2>2 DEF HandlerStep
<1>6. CASE Tick \/ Crash \/ (\E e \in Events : Emit(e) \/ Repeat(e))
           \/ \E h \in Handlers : TimeOut(h) \/ \E e \in Events : Deliver(h, e)
  BY <1>1, <1>6 DEF Tick, Crash, Emit, Repeat, TimeOut, Deliver
<1>7. CASE (\E v \in Visits : Visit(v[1], v[2]) \/ Record(v[1], v[2])) \/ UNCHANGED vars
  BY <1>1, <1>7, VisitFacts
<1> QED BY <1>4, <1>5, <1>6, <1>7 DEF Next

LEMMA ListsStay == [Next]_vars => blacklist \subseteq blacklist' /\ unlisted \subseteq unlisted'
<1> SUFFICES ASSUME [Next]_vars
             PROVE  blacklist \subseteq blacklist' /\ unlisted \subseteq unlisted'
  OBVIOUS
<1>1. CASE Tick \/ Crash \/ \E l \in Logs : WorkerStep(l)
  BY <1>1 DEF Tick, Crash, WorkerStep, Accept, StoreId, MarkSent, CountSent, GiveUp, history
<1>2. CASE (\E e \in Events : Emit(e) \/ Repeat(e))
           \/ \E h \in Handlers : TimeOut(h) \/ \E e \in Events : Deliver(h, e)
  BY <1>2 DEF Emit, Repeat, TimeOut, Deliver, history
<1>3. ASSUME NEW h \in Handlers, HandlerStep(h)
      PROVE  blacklist \subseteq blacklist' /\ unlisted \subseteq unlisted'
  <2>1. CASE AddOne(h)
    BY <2>1 DEF AddOne, Noted
  <2>2. CASE Lookup(h) \/ Mark(h) \/ Stat(h)
    BY <2>2 DEF Lookup, Mark, Stat, history
  <2> QED BY <1>3, <2>1, <2>2 DEF HandlerStep
<1>4. CASE (\E v \in Visits : Visit(v[1], v[2]) \/ Record(v[1], v[2])) \/ UNCHANGED vars
  BY <1>4, VisitFacts DEF history
<1> QED BY <1>1, <1>2, <1>3, <1>4 DEF Next

(* So what is stamped and what is listed stays so.                         *)
LEMMA EventsStay ==
  ASSUME Types, HandlerInv, [Next]_vars, NEW e \in Events
  PROVE  (Stamped(e) => Stamped(e)') /\ (Listed(e) => Listed(e)')
<1>1. e.log \in Logs /\ StampOf(StatusOfKind(e.kind)) \subseteq Stamps
  BY EventFacts, KindFacts
<1>2. StampsKept /\ blacklist \subseteq blacklist' /\ unlisted \subseteq unlisted'
  BY StampsStay, ListsStay
<1>3. Stamped(e) => Stamped(e)'
  BY <1>1, <1>2 DEF Stamped, StampsKept
<1>4. Listed(e) => Listed(e)'
  BY <1>2 DEF Listed
<1> QED BY <1>3, <1>4

-----------------------------------------------------------------------------
LEMMA AppliedStart == Init => AppliedInv
BY DEF Init, AppliedInv, Progress, AnsweredIsApplied

(* What an answered event must have left, in one word.                     *)
Applied(e) == Stamped(e) /\ (e.kind \in {"HardBounce", "Complaint"} => Listed(e))

LEMMA AppliedStep == Types /\ HandlerInv /\ AppliedInv /\ [Next]_vars => AppliedInv'
<1> SUFFICES ASSUME Types, HandlerInv, AppliedInv, [Next]_vars PROVE AppliedInv'
  OBVIOUS
<1>1. \A e \in Events : (Stamped(e) => Stamped(e)') /\ (Listed(e) => Listed(e)')
  BY EventsStay
<1>2. /\ ev \in [Handlers -> Events \cup {NoEvent}] /\ emitted \subseteq Events
      /\ \A e \in emitted \ (due \cup dropped) : Applied(e)
  BY DEF Types, HandlerTypes, EventTypes, AppliedInv, AnsweredIsApplied, Applied, Stamped, Listed
<1>3. \A e \in Events : Applied(e) => Applied(e)'
  BY <1>1 DEF Applied
<1>4. \A g \in Handlers \ late, f \in Events : ev[g] = f =>
        /\ hpc[g] \in {"stat", "listlast"} => Stamped(f)'
        /\ hpc[g] \in {"mark", "stat"} /\ f.kind = "HardBounce" => Listed(f)'
  BY <1>1 DEF AppliedInv, Progress
<1>5. ASSUME \A e \in emitted' \ (due' \cup dropped') :
               e \in Events /\ (Applied(e)' \/ e \in emitted \ (due \cup dropped))
      PROVE  AnsweredIsApplied'
  <2>1. \A e \in emitted' \ (due' \cup dropped') : Applied(e)'
    BY <1>2, <1>3, <1>5
  <2> QED BY <2>1 DEF AnsweredIsApplied, Applied, Stamped, Listed
<1>6. ASSUME NEW h \in Handlers, NEW e \in Events, ev[h] = e, HandlerStep(h) PROVE AppliedInv'
  <2>1. e.kind \in Kinds /\ e.log \in Logs /\ due' \in {due, due \ {e}}
        /\ (h \in late => due' = due)
    BY <1>6, BusyFacts
  <2>2. emitted' = emitted /\ dropped \subseteq dropped'
    BY <1>6 DEF HandlerStep, Lookup, Ignore, Noted, AddOne, Mark, Stat, history
  <2>3. ASSUME NEW code, Answer(h, code),
               h \in late \/ code = 500 \/ e \in dropped' \/ Applied(e)'
        PROVE  AppliedInv'
    <3>1. /\ hpc'[h] = "idle" /\ late' = late \ {h}
          /\ \A g \in Handlers \ {h} : hpc'[g] = hpc[g] /\ ev'[g] = ev[g]
      BY <2>3, AnswerFacts
    <3>2. Progress'
      BY <1>4, <3>1 DEF Progress
    <3>3. AnsweredIsApplied'
      <4>1. due' = due \/ e \in dropped' \/ Applied(e)'
        BY <2>3 DEF Answer
      <4> QED BY <1>2, <1>5, <2>1, <2>2, <4>1
    <3> QED BY <3>2, <3>3 DEF AppliedInv
  <2>4. ASSUME NEW label \in {"list", "mark", "stat", "listlast"}, Continue(h, label),
               h \in late \/ (label \in {"stat", "listlast"} => Stamped(e)'),
               h \in late \/ (label \in {"mark", "stat"} /\ e.kind = "HardBounce" => Listed(e)')
        PROVE  AppliedInv'
    <3>1. /\ hpc'[h] = label /\ (\A g \in Handlers \ {h} : hpc'[g] = hpc[g])
          /\ ev' = ev /\ due' = due /\ late' = late
      BY <2>4, ContinueFacts
    <3>2. Progress'
      BY <1>4, <1>6, <2>4, <3>1 DEF Progress
    <3>3. AnsweredIsApplied'
      BY <1>2, <1>5, <2>2, <3>1
    <3> QED BY <3>2, <3>3 DEF AppliedInv
  <2>5. CASE Lookup(h)
    <3>1. CASE \E code \in {200, 400} : Ignore(h, code)
      BY <1>6, <2>3, <3>1 DEF Ignore, Noted
    <3>2. CASE Continue(h, "list")
      BY <2>4, <3>2
    <3>3. CASE e.kind \notin ListsFirst /\ Continue(h, "mark")
      BY <2>4, <3>3 DEF ListsFirst
    <3> QED BY <1>6, <2>5, <3>1, <3>2, <3>3 DEF Lookup, UnknownCode
  <2>6. CASE AddOne(h)
    <3>1. PICK a \in todo[h] :
            /\ \/ blacklist' = blacklist \cup {<<Client[e.log], a>>}
               \/ unlisted' = unlisted \cup {<<e, a>>}
               \/ h \in late
            /\ IF todo[h] # {a} THEN Continue(h, hpc[h])
               ELSE IF hpc[h] = "list" THEN Continue(h, "mark") ELSE Answer(h, 200)
      BY <1>6, <2>6 DEF AddOne, Noted
    <3>2. a \in To[e.log]
      BY <1>6, <3>1, EventFacts DEF HandlerInv, OneHandler
    <3>3. h \in late \/ Listed(e)'
      BY <3>1, <3>2 DEF Listed
    <3>4. hpc[h] \in {"list", "listlast"} /\ (h \in late \/ (hpc[h] = "listlast" => Stamped(e)'))
      BY <1>4, <1>6, <2>6 DEF AddOne
    <3>5. CASE Continue(h, "list") \/ Continue(h, "mark")
      BY <2>4, <3>3, <3>5
    <3>6. CASE hpc[h] = "listlast" /\ Continue(h, "listlast")
      BY <2>4, <3>3, <3>4, <3>6
    <3>7. CASE hpc[h] = "listlast" /\ Answer(h, 200)
      BY <2>3, <3>3, <3>4, <3>7 DEF Applied
    <3> QED BY <3>1, <3>4, <3>5, <3>6, <3>7
  <2>7. CASE Mark(h)
    <3>1. hpc[h] = "mark" /\ (h \in late \/ (e.kind = "HardBounce" => Listed(e)'))
          /\ e.kind \notin Silent
      BY <1>4, <1>6, <2>7 DEF Mark, HandlerInv, Stages
    <3>2. CASE Answer(h, 500)
      BY <2>3, <3>2
    <3>3. CASE ~Answer(h, 500)
      <4>1. /\ Write(e.log, StatusOfKind(e.kind))
            /\ IF e.kind = "Send" THEN Answer(h, 200) ELSE Continue(h, "stat")
        BY <1>6, <2>7, <3>3 DEF Mark, MarkErrorCode, Call, Returns
      <4>2. Stamped(e)'
        BY <2>1, <3>1, <4>1, KindFacts, WriteFacts DEF Stamped
      <4>3. CASE e.kind = "Send"
        BY <2>3, <4>1, <4>2, <4>3 DEF Applied
      <4>4. CASE e.kind # "Send"
        BY <2>4, <3>1, <4>1, <4>2, <4>4
      <4> QED BY <4>3, <4>4
    <3> QED BY <3>2, <3>3
  <2>8. CASE Stat(h)
    <3>1. h \in late \/ (Stamped(e)' /\ (e.kind = "HardBounce" => Listed(e)'))
      BY <1>4, <1>6, <2>8 DEF Stat
    <3>2. CASE e.kind = "Complaint"
      BY <1>6, <2>4, <2>8, <3>1, <3>2 DEF Stat
    <3>3. CASE e.kind # "Complaint"
      BY <1>6, <2>3, <2>8, <3>1, <3>3 DEF Stat, Applied
    <3> QED BY <3>2, <3>3
  <2> QED BY <1>6, <2>5, <2>6, <2>7, <2>8 DEF HandlerStep
<1>7. CASE /\ \A h \in Handlers \ late' :
                hpc'[h] \in {"idle", "lookup"} \/ (hpc'[h] = hpc[h] /\ ev'[h] = ev[h] /\ h \notin late)
           /\ emitted' \ due' \subseteq emitted \ due /\ dropped' = dropped
  <2>1. Progress'
    BY <1>4, <1>7 DEF Progress
  <2>2. AnsweredIsApplied'
    BY <1>2, <1>5, <1>7
  <2> QED BY <2>1, <2>2 DEF AppliedInv
<1>8. CASE \/ Tick \/ Crash \/ (\E l \in Logs : WorkerStep(l))
           \/ (\E e \in Events : Emit(e) \/ Repeat(e)) \/ \E h \in Handlers : TimeOut(h)
  <2>1. dropped' = dropped /\ emitted' \ due' \subseteq emitted \ due
    BY <1>8 DEF Tick, Crash, WorkerStep, Accept, StoreId, MarkSent, CountSent, GiveUp,
                Emit, Repeat, TimeOut, sns, history
  <2>2. \A h \in Handlers \ late' :
          hpc'[h] \in {"idle", "lookup"} \/ (hpc'[h] = hpc[h] /\ ev'[h] = ev[h] /\ h \notin late)
    BY <1>8 DEF Tick, Crash, WorkerStep, Accept, StoreId, MarkSent, CountSent, GiveUp,
                Emit, Repeat, TimeOut, handler
  <2> QED BY <1>7, <2>1, <2>2
<1>9. CASE \E h \in Handlers, e \in Events : Deliver(h, e)
  <2>1. UNCHANGED <<sns, history>>
        /\ \A h \in Handlers \ late' :
             hpc'[h] \in {"idle", "lookup"} \/ (hpc'[h] = hpc[h] /\ ev'[h] = ev[h] /\ h \notin late)
    BY <1>2, <1>9 DEF Deliver, Types, HandlerTypes
  <2> QED BY <1>7, <2>1 DEF sns, history
<1>10. CASE (\E v \in Visits : Visit(v[1], v[2]) \/ Record(v[1], v[2])) \/ UNCHANGED vars
  <2>1. UNCHANGED <<sns, handler, history>>
    BY <1>10, VisitFacts
  <2> QED BY <1>7, <2>1 DEF sns, handler, history
<1>11. \A h \in Handlers : HandlerStep(h) => ev[h] \in Events
  BY BusyFacts
<1> QED BY <1>6, <1>8, <1>9, <1>10, <1>11 DEF Next

-----------------------------------------------------------------------------
(* The statistics.  First, which column an event is about.                 *)

LEMMA AboutFacts ==
  ASSUME NEW e \in Events, NEW s \in {Client[l] : l \in Logs} \X Columns, s[2] # "sent"
  PROVE  /\ e.kind \in Silent \cup {"Send"} => ~About(e, s)
         /\ e.kind \notin Silent \cup {"Send"} =>
              (About(e, s) <=> s = <<Client[e.log], ColumnOfKind(e.kind)>>)
<1>1. e.kind \in {"Send", "Delivery", "Open", "Click", "HardBounce", "SoftBounce", "Complaint"}
                 \cup Silent
  BY EventFacts, LifecycleAssumption
<1>2. s = <<s[1], s[2]>>
  OBVIOUS
<1>3. e.kind \in Silent \cup {"Send"} =>
        StatusOfKind(e.kind) \in {"sent", "none"} /\ e.kind \notin {"HardBounce", "SoftBounce"}
  BY DEF StatusOfKind, Silent
<1>4. e.kind \in Silent \cup {"Send"} => ~About(e, s)
  BY <1>3 DEF About, Columns
<1>5. e.kind \notin Silent \cup {"Send"} =>
        ((IF s[2] = "bounced" THEN e.kind \in {"HardBounce", "SoftBounce"}
          ELSE StatusOfKind(e.kind) = s[2]) <=> s[2] = ColumnOfKind(e.kind))
  <2> SUFFICES ASSUME e.kind \notin Silent \cup {"Send"}
               PROVE  (IF s[2] = "bounced" THEN e.kind \in {"HardBounce", "SoftBounce"}
                       ELSE StatusOfKind(e.kind) = s[2]) <=> s[2] = ColumnOfKind(e.kind)
    OBVIOUS
  <2>1. CASE e.kind \in {"HardBounce", "SoftBounce"}
    <3>1. ColumnOfKind(e.kind) = "bounced" /\ StatusOfKind(e.kind) \in {"hard_bounced", "soft_bounced"}
      BY <2>1 DEF ColumnOfKind, StatusOfKind
    <3>2. s[2] \notin {"hard_bounced", "soft_bounced"}
      BY DEF Columns
    <3> QED BY <2>1, <3>1, <3>2
  <2>2. CASE e.kind \notin {"HardBounce", "SoftBounce"}
    <3>1. ColumnOfKind(e.kind) = StatusOfKind(e.kind) /\ StatusOfKind(e.kind) # "bounced"
      BY <1>1, <2>2 DEF ColumnOfKind, StatusOfKind, Silent
    <3> QED BY <2>2, <3>1
  <2> QED BY <2>1, <2>2
<1>6. e.kind \notin Silent \cup {"Send"} => (About(e, s) <=> s = <<Client[e.log], ColumnOfKind(e.kind)>>)
  BY <1>2, <1>5 DEF About
<1> QED BY <1>4, <1>6

(* The sets counted are finite.                                            *)
LEMMA FiniteEvents ==
  ASSUME NEW S, NEW T, S \subseteq T, IsFiniteSet(T)
  PROVE  /\ IsFiniteSet(S) /\ Cardinality(S) \in Nat /\ Cardinality(T) \in Nat
         /\ Cardinality(S) <= Cardinality(T)
BY FS_Subset, FS_CardinalityType

LEMMA OneMore ==
  ASSUME NEW S, IsFiniteSet(S), NEW e
  PROVE  /\ Cardinality(S) \in Nat /\ Cardinality(S \cup {e}) \in Nat
         /\ Cardinality(S \cup {e}) <= Cardinality(S) + 1
         /\ e \notin S => Cardinality(S \cup {e}) = Cardinality(S) + 1
<1>1. /\ IsFiniteSet(S \cup {e})
      /\ Cardinality(S \cup {e}) = IF e \in S THEN Cardinality(S) ELSE Cardinality(S) + 1
  BY FS_AddElement
<1>2. Cardinality(S) \in Nat /\ Cardinality(S \cup {e}) \in Nat
  BY <1>1, FS_CardinalityType
<1> QED BY <1>1, <1>2

LEMMA OneLess ==
  ASSUME NEW S, IsFiniteSet(S), NEW e \in S
  PROVE  /\ Cardinality(S) \in Nat /\ Cardinality(S \ {e}) \in Nat
         /\ Cardinality(S \ {e}) = Cardinality(S) - 1
BY FS_RemoveElement, FS_CardinalityType

LEMMA OneAndNone ==
  ASSUME NEW x
  PROVE  /\ IsFiniteSet({x}) /\ Cardinality({x}) = 1
         /\ IsFiniteSet({}) /\ Cardinality({}) = 0
<1>1. IsFiniteSet({x}) /\ Cardinality({x}) = 1
  BY FS_Singleton
<1>2. IsFiniteSet({}) /\ Cardinality({}) = 0
  BY FS_EmptySet
<1> QED BY <1>1, <1>2

LEMMA Together ==
  ASSUME NEW S, NEW T, IsFiniteSet(S), IsFiniteSet(T)
  PROVE  /\ Cardinality(S) \in Nat /\ Cardinality(T) \in Nat /\ Cardinality(S \cup T) \in Nat
         /\ IsFiniteSet(S \cup T) /\ Cardinality(S \cup T) <= Cardinality(S) + Cardinality(T)
<1>1. IsFiniteSet(S \cup T) /\ IsFiniteSet(S \cap T)
      /\ Cardinality(S \cup T) = Cardinality(S) + Cardinality(T) - Cardinality(S \cap T)
  BY FS_Union, FS_Intersection
<1>2. /\ Cardinality(S) \in Nat /\ Cardinality(T) \in Nat /\ Cardinality(S \cup T) \in Nat
      /\ Cardinality(S \cap T) \in Nat
  BY <1>1, FS_CardinalityType
<1> QED BY <1>1, <1>2

(* The events in hand after a step of a handler that SNS waits for.        *)
LEMMA HandFacts ==
  ASSUME Types, HandlerInv, NEW h \in Handlers \ late, NEW e \in Events, ev[h] = e,
         HandlerStep(h)
  PROVE  /\ e \in due /\ (hpc[h] = "listlast" <=> e \in InHand)
         /\ \A code \in {200, 400, 500} : Answer(h, code) => InHand' = InHand \ {e}
         /\ \A label \in {"list", "mark", "stat"} :
              Continue(h, label) => InHand' = InHand \ {e} /\ due' = due
         /\ Continue(h, "listlast") => InHand' = InHand \cup {e} /\ due' = due
<1>1. e \in due /\ (\A g \in Handlers \ (late \cup {h}) : ev[g] # e) /\ e # NoEvent
  BY BusyFacts, EventFacts
<1>2. hpc[h] = "listlast" <=> e \in InHand
  BY <1>1 DEF InHand
<1>3. ASSUME NEW code \in {200, 400, 500}, Answer(h, code) PROVE InHand' = InHand \ {e}
  <2>1. /\ hpc'[h] = "idle" /\ late' = late \ {h}
        /\ \A g \in Handlers \ {h} : hpc'[g] = hpc[g] /\ ev'[g] = ev[g]
    BY <1>3, AnswerFacts
  <2> QED BY <1>1, <2>1 DEF InHand
<1>4. ASSUME NEW label \in {"list", "mark", "stat", "listlast"}, Continue(h, label)
      PROVE  /\ hpc'[h] = label /\ (\A g \in Handlers \ {h} : hpc'[g] = hpc[g])
             /\ ev' = ev /\ due' = due /\ late' = late
  BY <1>4, ContinueFacts
<1>5. ASSUME NEW label \in {"list", "mark", "stat"}, Continue(h, label)
      PROVE  InHand' = InHand \ {e} /\ due' = due
  BY <1>1, <1>4, <1>5 DEF InHand
<1>6. Continue(h, "listlast") => InHand' = InHand \cup {e} /\ due' = due
  BY <1>1, <1>4 DEF InHand
<1> QED BY <1>1, <1>2, <1>3, <1>5, <1>6

-----------------------------------------------------------------------------
Counted == emitted \ (dropped \cup uncounted \cup ToCount)

LEMMA CountsStart == Init => CountsInv
<1> SUFFICES ASSUME Init, NEW s \in DOMAIN stats
             PROVE  /\ stats[s] = 0 /\ recounted = 0
                    /\ Belonging(emitted \ (dropped \cup uncounted \cup ToCount), s) = {}
                    /\ Belonging(ToCount, s) = {} /\ Belonging(emitted, s) = {}
                    /\ Loose(s) = {}
  BY FS_EmptySet DEF CountsInv
<1> QED BY DEF Init, Belonging, ToCount, Loose

LEMMA CountsStep == Types /\ HandlerInv /\ CountsInv /\ [Next]_vars => CountsInv'
<1> DEFINE cells == {Client[l] : l \in Logs} \X Columns
<1> SUFFICES ASSUME Types, HandlerInv, CountsInv, [Next]_vars PROVE CountsInv'
  OBVIOUS
<1>1. Types'
  BY TypesStep
<1>2. /\ stats \in [cells -> Nat] /\ stats' \in [cells -> Nat]
      /\ due \subseteq emitted /\ emitted \subseteq Events /\ due' \subseteq emitted'
      /\ IsFiniteSet(emitted) /\ IsFiniteSet(emitted') /\ emitted' \subseteq Events
      /\ recounted \in Nat /\ recounted' \in Nat
      /\ ev \in [Handlers -> Events \cup {NoEvent}]
      /\ IsFiniteSet(late) /\ IsFiniteSet(late')
  BY <1>1 DEF Types, TableTypes, EventTypes, HandlerTypes
<1> SUFFICES ASSUME NEW s \in cells, s[2] # "sent"
             PROVE  /\ Cardinality(Belonging(Counted, s)') <= stats'[s]
                    /\ stats'[s] + Cardinality(Belonging(ToCount, s)') + Cardinality(Loose(s)')
                         <= Cardinality(Belonging(emitted, s)') + recounted'
  BY <1>2 DEF CountsInv, Counted
<1> DEFINE A == Belonging(Counted, s)
           P == Belonging(ToCount, s)
           E == Belonging(emitted, s)
           L == Loose(s)
<1>3. /\ Cardinality(A) <= stats[s]
      /\ stats[s] + Cardinality(P) + Cardinality(L) <= Cardinality(E) + recounted
  BY <1>2 DEF CountsInv, Counted
<1>4. stats[s] \in Nat /\ stats'[s] \in Nat
  BY <1>2
<1>5. /\ IsFiniteSet(A) /\ IsFiniteSet(P) /\ IsFiniteSet(E) /\ IsFiniteSet(L)
      /\ Cardinality(A) \in Nat /\ Cardinality(P) \in Nat /\ Cardinality(E) \in Nat
      /\ Cardinality(L) \in Nat
  <2>1. A \subseteq emitted /\ P \subseteq emitted /\ E \subseteq emitted /\ L \subseteq late
    BY <1>2 DEF Belonging, Counted, ToCount, Loose
  <2> QED BY <1>2, <2>1, FiniteEvents
<1>6. /\ IsFiniteSet(A') /\ IsFiniteSet(P') /\ IsFiniteSet(E') /\ IsFiniteSet(L')
      /\ Cardinality(A') \in Nat /\ Cardinality(P') \in Nat /\ Cardinality(E') \in Nat
      /\ Cardinality(L') \in Nat
  <2>1. A' \subseteq emitted' /\ P' \subseteq emitted' /\ E' \subseteq emitted' /\ L' \subseteq late'
    BY <1>2 DEF Belonging, Counted, ToCount, Loose
  <2> QED BY <1>2, <2>1, FiniteEvents
<1> DEFINE Goal == /\ Cardinality(A') <= stats'[s]
                   /\ stats'[s] + Cardinality(P') + Cardinality(L') <= Cardinality(E') + recounted'
<1>7. ASSUME A' \subseteq A, P' \subseteq P, L' \subseteq L, E' = E,
             stats'[s] = stats[s], recounted' = recounted
      PROVE  Goal
  <2>1. /\ Cardinality(A') <= Cardinality(A) /\ Cardinality(P') <= Cardinality(P)
        /\ Cardinality(L') <= Cardinality(L)
    BY <1>5, <1>7, FiniteEvents
  <2>2. Cardinality(E') = Cardinality(E) /\ stats'[s] = stats[s] /\ recounted' = recounted
    BY <1>7
  <2> HIDE DEF A, P, E, L
  <2> QED BY <1>2, <1>3, <1>4, <1>5, <1>6, <2>1, <2>2
<1>8. ASSUME NEW h \in Handlers, NEW e \in Events, ev[h] = e, HandlerStep(h)
      PROVE  /\ emitted' = emitted /\ recounted' = recounted /\ E' = E /\ e \in emitted
             /\ About(e, s) => e.kind \notin Silent \cup {"Send"}
             /\ \A g \in Handlers \ {h} : hpc'[g] = hpc[g] /\ ev'[g] = ev[g]
             /\ late' \in {late, late \ {h}} /\ (h \notin late => late' = late)
             /\ h \in late => due' = due
             /\ ~Stat(h) => stats' = stats
             /\ Stat(h) => /\ hpc[h] = "stat" /\ e.kind \notin Silent \cup {"Send"}
                           /\ \/ Increment(e.log, ColumnOfKind(e.kind)) /\ uncounted' = uncounted
                              \/ stats' = stats /\ uncounted' = Noted(h, uncounted, e)
  <2>1. emitted' = emitted /\ recounted' = recounted /\ E' = E /\ e \in emitted
    BY <1>8, BusyFacts DEF HandlerStep, Lookup, AddOne, Mark, Stat, history, recounts
  <2>2. About(e, s) => e.kind \notin Silent \cup {"Send"}
    BY AboutFacts
  <2>3. /\ late' \in {late, late \ {h}} /\ (h \notin late => late' = late)
        /\ h \in late => due' = due
    BY <1>8, BusyFacts
  <2>4. \A g \in Handlers \ {h} : hpc'[g] = hpc[g] /\ ev'[g] = ev[g]
    <3>1. \/ Answer(h, 200) \/ Answer(h, 400) \/ Answer(h, 500)
          \/ Continue(h, "list") \/ Continue(h, "mark")
          \/ Continue(h, "stat") \/ Continue(h, "listlast")
      BY <1>8 DEF HandlerStep, Lookup, Ignore, AddOne, Mark, Stat, UnknownCode, MarkErrorCode
    <3>2. ASSUME NEW code, Answer(h, code)
          PROVE  \A g \in Handlers \ {h} : hpc'[g] = hpc[g] /\ ev'[g] = ev[g]
      BY <3>2, AnswerFacts
    <3>3. ASSUME NEW label \in {"list", "mark", "stat", "listlast"}, Continue(h, label)
          PROVE  \A g \in Handlers \ {h} : hpc'[g] = hpc[g] /\ ev'[g] = ev[g]
      BY <3>3, ContinueFacts
    <3> QED BY <3>1, <3>2, <3>3
  <2>5. ~Stat(h) => stats' = stats
    BY <1>8 DEF HandlerStep, Lookup, AddOne, Mark
  <2>6. Stat(h) => /\ hpc[h] = "stat" /\ e.kind \notin Silent \cup {"Send"}
                   /\ \/ Increment(e.log, ColumnOfKind(e.kind)) /\ uncounted' = uncounted
                      \/ stats' = stats /\ uncounted' = Noted(h, uncounted, e)
    BY <1>8 DEF Stat, HandlerInv, Stages
  <2> QED BY <2>1, <2>2, <2>3, <2>4, <2>5, <2>6
<1>9. ASSUME NEW e \in Events, e.kind \notin Silent \cup {"Send"},
             Increment(e.log, ColumnOfKind(e.kind))
      PROVE  /\ About(e, s) => stats'[s] = stats[s] + 1
             /\ ~About(e, s) => stats'[s] = stats[s]
  <2> DEFINE cell == <<Client[e.log], ColumnOfKind(e.kind)>>
  <2>1. e.log \in Logs /\ ColumnOfKind(e.kind) \in Columns
    <3>1. e.log \in Logs /\ e.kind \in Kinds
      BY EventFacts
    <3> QED BY <1>9, <3>1, KindFacts
  <2>2. /\ stats'[cell] = stats[cell] + 1
        /\ \A c \in DOMAIN stats : c # cell => stats'[c] = stats[c]
    BY <1>9, <2>1, IncrementFacts
  <2>3. DOMAIN stats = cells
    BY <1>2
  <2>4. About(e, s) <=> s = cell
    BY <1>9, AboutFacts
  <2> HIDE DEF cell, cells
  <2> QED BY <2>2, <2>3, <2>4
<1>10. ASSUME NEW h \in Handlers \ late, NEW e \in Events, ev[h] = e, HandlerStep(h)
       PROVE  Goal
  <2>1. /\ e \in due /\ (hpc[h] = "listlast" <=> e \in InHand)
        /\ \A code \in {200, 400, 500} : Answer(h, code) => InHand' = InHand \ {e}
        /\ \A label \in {"list", "mark", "stat"} :
             Continue(h, label) => InHand' = InHand \ {e} /\ due' = due
        /\ Continue(h, "listlast") => InHand' = InHand \cup {e} /\ due' = due
    BY <1>10, HandFacts
  <2>2. /\ \A code \in {200, 400} : Answer(h, code) => due' = due \ {e}
        /\ Answer(h, 500) => due' = due
    BY <1>10 DEF Answer
  <2>3. /\ emitted' = emitted /\ recounted' = recounted /\ E' = E /\ e \in emitted
        /\ (About(e, s) => e.kind \notin Silent \cup {"Send"})
        /\ \A g \in Handlers \ {h} : hpc'[g] = hpc[g] /\ ev'[g] = ev[g]
        /\ late' = late
    BY <1>8, <1>10
  <2>4. L' = L
    BY <1>10, <2>3 DEF Loose, About, Types, HandlerTypes
  <2>5. CASE /\ hpc[h] # "stat" /\ stats' = stats
             /\ dropped \subseteq dropped' /\ uncounted \subseteq uncounted'
             /\ \/ ToCount' = ToCount
                \/ ToCount' = ToCount \ {e} /\ (e \in dropped' \/ e.kind = "Send")
    <3>1. A' \subseteq A
      BY <2>3, <2>5 DEF Belonging, Counted
    <3>2. P' \subseteq P
      BY <2>5 DEF Belonging
    <3> QED BY <1>7, <2>3, <2>4, <2>5, <3>1, <3>2
  <2>6. CASE Lookup(h)
    <3>1. hpc[h] # "stat" /\ stats' = stats /\ dropped \subseteq dropped' /\ uncounted' = uncounted
          /\ e \notin InHand
      BY <1>10, <2>1, <2>6 DEF Lookup, Ignore, Noted, recounts
    <3>2. CASE \E code \in {200, 400} : Answer(h, code) /\ e \in dropped'
      <4>1. ToCount' = ToCount \ {e}
        BY <2>1, <2>2, <3>1, <3>2 DEF ToCount
      <4> QED BY <2>5, <3>1, <3>2, <4>1
    <3>3. CASE Continue(h, "list") \/ Continue(h, "mark")
      BY <2>1, <2>5, <3>1, <3>3 DEF ToCount
    <3>4. \A code : Ignore(h, code) => Answer(h, code) /\ e \in dropped'
      BY <1>10 DEF Ignore, Noted
    <3>5. \/ \E code \in {200, 400} : Ignore(h, code)
          \/ Continue(h, "list") \/ Continue(h, "mark")
      BY <2>6 DEF Lookup, UnknownCode
    <3> QED BY <3>2, <3>3, <3>4, <3>5
  <2>7. CASE AddOne(h)
    <3>1. hpc[h] # "stat" /\ stats' = stats /\ dropped' = dropped /\ uncounted' = uncounted
          /\ hpc[h] \in {"list", "listlast"}
      BY <2>7 DEF AddOne, recounts
    <3>2. CASE hpc[h] = "list" /\ (Continue(h, "list") \/ Continue(h, "mark"))
      BY <2>1, <2>5, <3>1, <3>2 DEF ToCount
    <3>3. CASE hpc[h] = "listlast" /\ (Continue(h, "listlast") \/ Answer(h, 200))
      BY <2>1, <2>2, <2>5, <3>1, <3>3 DEF ToCount
    <3> QED BY <2>7, <3>1, <3>2, <3>3 DEF AddOne
  <2>8. CASE Mark(h)
    <3>1. hpc[h] # "stat" /\ stats' = stats /\ dropped' = dropped /\ uncounted' = uncounted
          /\ e \notin InHand
      BY <2>1, <2>8 DEF Mark, history, recounts
    <3>2. CASE Answer(h, 500) \/ Continue(h, "stat")
      BY <2>1, <2>2, <2>5, <3>1, <3>2 DEF ToCount
    <3>3. CASE Answer(h, 200) /\ e.kind = "Send"
      BY <2>1, <2>2, <2>5, <3>1, <3>3 DEF ToCount
    <3> QED BY <1>10, <2>8, <3>2, <3>3 DEF Mark, MarkErrorCode
  <2>9. CASE Stat(h)
    <3>1. /\ e.kind \notin Silent \cup {"Send"} /\ hpc[h] = "stat"
          /\ \/ Increment(e.log, ColumnOfKind(e.kind)) /\ uncounted' = uncounted
             \/ stats' = stats /\ uncounted' = uncounted \cup {e}
      BY <1>8, <1>10, <2>9 DEF Noted
    <3>2. e \notin InHand /\ e \in ToCount /\ dropped' = dropped
      BY <2>1, <2>9, <3>1 DEF Stat, ToCount
    <3>3. ToCount' = ToCount \ {e}
      <4>1. Answer(h, 200) \/ Continue(h, "listlast")
        BY <2>9 DEF Stat
      <4> QED BY <2>1, <2>2, <3>2, <4>1 DEF ToCount
    <3>4. CASE stats' = stats /\ uncounted' = uncounted \cup {e}
      <4>1. A' \subseteq A /\ P' \subseteq P
        BY <2>3, <3>2, <3>3, <3>4 DEF Belonging, Counted
      <4> QED BY <1>7, <2>3, <2>4, <3>4, <4>1
    <3>5. CASE Increment(e.log, ColumnOfKind(e.kind)) /\ uncounted' = uncounted
      <4>1. /\ About(e, s) => stats'[s] = stats[s] + 1
            /\ ~About(e, s) => stats'[s] = stats[s]
        BY <1>9, <3>1, <3>5
      <4>2. CASE ~About(e, s)
        <5>1. A' \subseteq A /\ P' \subseteq P
          BY <2>3, <3>2, <3>3, <3>5, <4>2 DEF Belonging, Counted
        <5> QED BY <1>7, <2>3, <2>4, <4>1, <4>2, <5>1
      <4>3. CASE About(e, s)
        <5>1. A' \subseteq A \cup {e} /\ P' = P \ {e} /\ e \in P
          BY <2>3, <3>2, <3>3, <3>5, <4>3 DEF Belonging, Counted
        <5>2. Cardinality(P') = Cardinality(P) - 1
          BY <1>5, <5>1, OneLess
        <5>3. Cardinality(A') <= Cardinality(A) + 1
          <6>1. Cardinality(A \cup {e}) <= Cardinality(A) + 1 /\ Cardinality(A \cup {e}) \in Nat
                /\ IsFiniteSet(A \cup {e})
            BY <1>5, OneMore, FS_AddElement
          <6>2. Cardinality(A') <= Cardinality(A \cup {e})
            BY <5>1, <6>1, FiniteEvents
          <6> HIDE DEF A, P, E, L
          <6> QED BY <1>5, <1>6, <6>1, <6>2
        <5>4. /\ Cardinality(E') = Cardinality(E) /\ stats'[s] = stats[s] + 1
              /\ Cardinality(L') = Cardinality(L)
          BY <2>3, <2>4, <4>1, <4>3
        <5> HIDE DEF A, P, E, L
        <5> QED BY <1>2, <1>3, <1>4, <1>5, <1>6, <2>3, <5>2, <5>3, <5>4
      <4> QED BY <4>2, <4>3
    <3> QED BY <3>1, <3>4, <3>5
  <2> QED BY <1>10, <2>6, <2>7, <2>8, <2>9 DEF HandlerStep
(* A request that timed out may count its event once more, and no other.   *)
<1>11. ASSUME NEW h \in late, NEW e \in Events, h \in Handlers, ev[h] = e, HandlerStep(h)
       PROVE  Goal
  <2>1. /\ emitted' = emitted /\ recounted' = recounted /\ E' = E /\ due' = due
        /\ \A g \in Handlers \ {h} : hpc'[g] = hpc[g] /\ ev'[g] = ev[g]
        /\ late' \in {late, late \ {h}}
    BY <1>8, <1>11
  <2>2. dropped' = dropped /\ uncounted' = uncounted
    BY <1>11 DEF HandlerStep, Lookup, Ignore, AddOne, Mark, Stat, Noted, history, recounts
  <2>3. InHand' = InHand
    <3>1. h \in late' \/ hpc'[h] = "idle"
      <4>1. ASSUME NEW code, Answer(h, code) PROVE hpc'[h] = "idle"
        BY <4>1, <1>11, AnswerFacts
      <4>2. (\E code : Answer(h, code)) \/ (\E label : Continue(h, label))
        BY <1>11 DEF HandlerStep, Lookup, Ignore, AddOne, Mark, Stat
      <4>3. ASSUME NEW label, Continue(h, label) PROVE h \in late'
        BY <4>3, <1>11 DEF Continue
      <4> QED BY <4>1, <4>2, <4>3
    <3> QED BY <1>11, <2>1, <3>1 DEF InHand
  <2>4. A' = A /\ P' = P
    BY <2>1, <2>2, <2>3 DEF Belonging, Counted, ToCount
  <2>5. /\ h \in late' => ev' = ev
        /\ hpc[h] \in {"stat", "listlast"} => hpc'[h] = "listlast" \/ h \notin late'
    <3>1. ASSUME NEW code, Answer(h, code) PROVE h \notin late'
      BY <3>1, <1>11, AnswerFacts
    <3>2. ASSUME NEW label \in {"list", "mark", "stat", "listlast"}, Continue(h, label)
          PROVE  ev' = ev /\ hpc'[h] = label
      BY <3>2, <1>11, ContinueFacts
    <3>3. \/ \E code : Answer(h, code)
          \/ \E label \in {"list", "mark", "stat", "listlast"} :
               Continue(h, label) /\ (hpc[h] \in {"stat", "listlast"} => label = "listlast")
      BY <1>11 DEF HandlerStep, Lookup, Ignore, AddOne, Mark, Stat
    <3> QED BY <3>1, <3>2, <3>3
  <2>6. L' \subseteq L /\ (hpc[h] = "stat" => h \notin L')
    BY <2>1, <2>5 DEF Loose, About, Types, HandlerTypes
  <2>7. CASE stats'[s] = stats[s]
    BY <1>7, <2>1, <2>4, <2>6, <2>7
  <2>8. CASE stats'[s] # stats[s]
    <3>1. Stat(h) /\ hpc[h] = "stat" /\ About(e, s) /\ stats'[s] = stats[s] + 1
      BY <1>8, <1>9, <1>11, <2>8
    <3>2. h \in L /\ L' \subseteq L \ {h}
      BY <1>11, <2>6, <3>1 DEF Loose
    <3>3. Cardinality(L \ {h}) = Cardinality(L) - 1 /\ IsFiniteSet(L \ {h})
          /\ Cardinality(L \ {h}) \in Nat
      BY <1>5, <3>2, OneLess, FS_RemoveElement
    <3>4. Cardinality(L') <= Cardinality(L) - 1
      BY <3>2, <3>3, FiniteEvents
    <3>5. /\ Cardinality(A') = Cardinality(A) /\ Cardinality(P') = Cardinality(P)
          /\ Cardinality(E') = Cardinality(E)
      BY <2>1, <2>4
    <3> HIDE DEF A, P, E, L
    <3> QED BY <1>2, <1>3, <1>4, <1>5, <1>6, <2>1, <3>1, <3>4, <3>5
  <2> QED BY <2>7, <2>8
(* Events that SNS posts again, and requests that it no longer waits for.  *)
<1>12. ASSUME NEW S, NEW T, IsFiniteSet(S), IsFiniteSet(T),
              P' \subseteq P \cup S, L' \subseteq L \cup T, A' \subseteq A, E' = E,
              stats' = stats, recounted' = recounted + Cardinality(S) + Cardinality(T)
       PROVE  Goal
  <2>1. Cardinality(A') <= Cardinality(A)
    BY <1>5, <1>12, FiniteEvents
  <2>2. /\ IsFiniteSet(P \cup S) /\ Cardinality(P \cup S) <= Cardinality(P) + Cardinality(S)
        /\ Cardinality(P \cup S) \in Nat /\ Cardinality(S) \in Nat
    BY <1>5, <1>12, Together
  <2>3. /\ IsFiniteSet(L \cup T) /\ Cardinality(L \cup T) <= Cardinality(L) + Cardinality(T)
        /\ Cardinality(L \cup T) \in Nat /\ Cardinality(T) \in Nat
    BY <1>5, <1>12, Together
  <2>4. Cardinality(P') <= Cardinality(P \cup S) /\ Cardinality(L') <= Cardinality(L \cup T)
    BY <1>12, <2>2, <2>3, FiniteEvents
  <2>5. Cardinality(E') = Cardinality(E) /\ stats'[s] = stats[s]
        /\ recounted' = recounted + Cardinality(S) + Cardinality(T)
    BY <1>12
  <2> HIDE DEF A, P, E, L
  <2> QED BY <1>2, <1>3, <1>4, <1>5, <1>6, <2>1, <2>2, <2>3, <2>4, <2>5
<1>13. ASSUME NEW e \in Events, Repeat(e) PROVE Goal
  <2>1. /\ emitted' = emitted /\ due' = due \cup {e} /\ UNCHANGED <<stats, dropped, uncounted>>
        /\ InHand' = InHand /\ L' = L /\ recounted' = recounted + 1
    BY <1>13 DEF Repeat, handler, InHand, Loose, About
  <2>2. P' \subseteq P \cup {e} /\ L' \subseteq L \cup {} /\ A' \subseteq A /\ E' = E
    BY <2>1 DEF Belonging, Counted, ToCount
  <2>3. recounted' = recounted + Cardinality({e}) + Cardinality({})
    <3>1. Cardinality({e}) = 1 /\ Cardinality({}) = 0
      BY OneAndNone
    <3> QED BY <1>2, <2>1, <3>1
  <2> QED BY <1>12, <2>1, <2>2, <2>3, OneAndNone
<1>14. ASSUME Crash PROVE Goal
  <2>1. /\ emitted' = emitted /\ due' = due /\ UNCHANGED <<stats, dropped, uncounted>>
        /\ recounted' = recounted + Cardinality(InHand)
    BY <1>14 DEF Crash, sns
  <2>2. P' \subseteq P \cup InHand /\ L' \subseteq L \cup {} /\ A' \subseteq A /\ E' = E
    <3>1. InHand' = {} /\ L' = {}
      BY <1>14 DEF Crash, InHand, Loose
    <3> QED BY <2>1, <3>1 DEF Belonging, Counted, ToCount
  <2>3. IsFiniteSet(InHand) /\ Cardinality(InHand) \in Nat
    <3>1. InHand \subseteq emitted
      BY <1>2 DEF InHand, HandlerInv, OneHandler
    <3> QED BY <1>2, <3>1, FiniteEvents
  <2>4. recounted' = recounted + Cardinality(InHand) + Cardinality({})
    BY <1>2, <2>1, <2>3, FS_EmptySet
  <2> QED BY <1>12, <2>1, <2>2, <2>3, <2>4, FS_EmptySet
<1>15. ASSUME NEW h \in Handlers, TimeOut(h) PROVE Goal
  <2>1. /\ UNCHANGED <<emitted, due, stats, dropped, uncounted, hpc, ev>>
        /\ late' = late \cup {h} /\ h \notin late /\ recounted' = recounted + 1
    BY <1>15 DEF TimeOut, sns
  <2>2. E' = E
    BY <2>1 DEF Belonging
  <2>3. CASE hpc[h] = "listlast"
    <3>1. InHand \ {ev[h]} \subseteq InHand'
      BY <2>1 DEF InHand
    <3>2. P' \subseteq P \cup {ev[h]} /\ L' \subseteq L \cup {} /\ A' \subseteq A
      <4>1. ToCount' \subseteq ToCount \cup {ev[h]} /\ ToCount \subseteq ToCount'
        BY <2>1, <3>1 DEF ToCount, InHand
      <4>2. L' \subseteq L
        BY <2>1, <2>3 DEF Loose, About
      <4> QED BY <2>1, <4>1, <4>2 DEF Belonging, Counted
    <3>3. recounted' = recounted + Cardinality({ev[h]}) + Cardinality({})
      <4>1. Cardinality({ev[h]}) = 1 /\ Cardinality({}) = 0
        BY OneAndNone
      <4> QED BY <1>2, <2>1, <4>1
    <3> QED BY <1>12, <2>1, <2>2, <3>2, <3>3, OneAndNone
  <2>4. CASE hpc[h] # "listlast"
    <3>1. InHand' = InHand
      BY <2>1, <2>4 DEF InHand
    <3>2. P' \subseteq P \cup {} /\ L' \subseteq L \cup {h} /\ A' \subseteq A
      BY <2>1, <3>1 DEF Belonging, Counted, ToCount, Loose, About
    <3>3. recounted' = recounted + Cardinality({}) + Cardinality({h})
      <4>1. Cardinality({h}) = 1 /\ Cardinality({}) = 0
        BY OneAndNone
      <4> QED BY <1>2, <2>1, <4>1
    <3> QED BY <1>12, <2>1, <2>2, <3>2, <3>3, OneAndNone
  <2> QED BY <2>3, <2>4
<1>16. ASSUME NEW e \in Events, Emit(e) PROVE Goal
  <2>1. /\ e \notin emitted /\ emitted' = emitted \cup {e} /\ due' = due \cup {e}
        /\ UNCHANGED <<stats, dropped, uncounted, recounted>> /\ InHand' = InHand /\ L' = L
    BY <1>16 DEF Emit, handler, history, recounts, InHand, Loose, About
  <2>2. e \notin InHand /\ ToCount' = ToCount \cup {e} /\ Counted' \subseteq Counted
    <3>1. e \notin InHand
      BY <1>2, <2>1 DEF InHand, HandlerInv, OneHandler
    <3> QED BY <2>1, <3>1 DEF ToCount, Counted
  <2>3. A' \subseteq A
    BY <2>2 DEF Belonging
  <2>4. CASE ~About(e, s)
    <3>1. P' \subseteq P /\ E' = E
      BY <2>1, <2>2, <2>4 DEF Belonging
    <3> QED BY <1>7, <2>1, <2>3, <3>1
  <2>5. CASE About(e, s)
    <3>1. P' = P \cup {e} /\ E' = E \cup {e} /\ e \notin E
      BY <2>1, <2>2, <2>5 DEF Belonging
    <3>2. Cardinality(E') = Cardinality(E) + 1 /\ Cardinality(P') <= Cardinality(P) + 1
      BY <1>5, <3>1, OneMore
    <3>3. Cardinality(A') <= Cardinality(A)
      BY <1>5, <2>3, FiniteEvents
    <3>4. stats'[s] = stats[s] /\ recounted' = recounted /\ Cardinality(L') = Cardinality(L)
      BY <2>1
    <3> HIDE DEF A, P, E, L
    <3> QED BY <1>2, <1>3, <1>4, <1>5, <1>6, <3>2, <3>3, <3>4
  <2> QED BY <2>4, <2>5
<1>17. ASSUME UNCHANGED <<emitted, due, dropped, uncounted, recounted>>, InHand' = InHand, L' = L,
              stats'[s] = stats[s]
       PROVE  Goal
  <2>1. A' = A /\ P' = P /\ E' = E
    BY <1>17 DEF Belonging, Counted, ToCount
  <2> QED BY <1>7, <1>17, <2>1
<1>18. ASSUME Tick \/ \E l \in Logs : WorkerStep(l) PROVE Goal
  <2>1. /\ UNCHANGED <<emitted, due, dropped, uncounted, recounted>>
        /\ InHand' = InHand /\ L' = L
    BY <1>18 DEF Tick, WorkerStep, Accept, StoreId, MarkSent, CountSent, GiveUp,
                 sns, history, recounts, handler, InHand, Loose, About
  <2>2. stats'[s] = stats[s]
    <3>1. stats' = stats \/ \E l \in Logs : Increment(l, "sent")
      BY <1>18 DEF Tick, WorkerStep, Accept, StoreId, MarkSent, CountSent, GiveUp
    <3>2. ASSUME NEW l \in Logs, Increment(l, "sent") PROVE stats'[s] = stats[s]
      <4>1. "sent" \in Columns /\ s # <<Client[l], "sent">>
        BY DEF Columns
      <4> QED BY <1>2, <3>2, <4>1, IncrementFacts
    <3> QED BY <3>1, <3>2
  <2> QED BY <1>17, <2>1, <2>2
<1>19. ASSUME \E h \in Handlers, e \in Events : Deliver(h, e) PROVE Goal
  <2> PICK h \in Handlers, e \in Events : Deliver(h, e)
    BY <1>19
  <2>1. UNCHANGED <<emitted, due, dropped, uncounted, recounted, stats, late>>
    BY DEF Deliver, sns, history, recounts
  <2>2. hpc[h] = "idle" /\ hpc'[h] = "lookup" /\ h \notin late
        /\ \A g \in Handlers \ {h} : hpc'[g] = hpc[g] /\ ev'[g] = ev[g]
    BY DEF Deliver, Types, HandlerTypes, HandlerInv, OneHandler
  <2>3. InHand' = InHand
    BY <2>1, <2>2 DEF InHand
  <2>4. L' = L
    BY <2>1, <2>2 DEF Loose, About, Types, HandlerTypes
  <2> QED BY <1>17, <2>1, <2>3, <2>4
<1>20. ASSUME (\E v \in Visits : Visit(v[1], v[2]) \/ Record(v[1], v[2])) \/ UNCHANGED vars
       PROVE  Goal
  <2>1. UNCHANGED <<sns, handler, history, stats>>
    BY <1>20, VisitFacts
  <2>2. /\ UNCHANGED <<emitted, due, dropped, uncounted, recounted, hpc, ev, late>>
        /\ stats'[s] = stats[s]
    BY <2>1 DEF sns, handler, history, recounts
  <2>3. InHand' = InHand /\ L' = L
    BY <2>2 DEF InHand, Loose, About
  <2> QED BY <1>17, <2>2, <2>3
<1>21. ASSUME NEW h \in Handlers, HandlerStep(h) PROVE Goal
  <2>1. ev[h] \in Events
    BY <1>21, BusyFacts
  <2> QED BY <1>10, <1>11, <1>21, <2>1
<1> HIDE DEF Goal
<1>22. Goal
  BY <1>13, <1>14, <1>15, <1>16, <1>18, <1>19, <1>20, <1>21 DEF Next
<1> QED BY <1>22 DEF Goal

-----------------------------------------------------------------------------
(* What the results below follow from.                                     *)
LifecycleInv == Types /\ HandlerInv /\ AppliedInv /\ CountsInv

(* The invariant holds in every state, however the worker, SNS and the     *)
(* handlers interleave, time out, fail and are killed (handler.go 131-260). *)
THEOREM LifecycleAlways == Spec => []LifecycleInv
<1>1. Init => LifecycleInv
  BY TypesStart, HandlersStart, AppliedStart, CountsStart DEF LifecycleInv
<1>2. LifecycleInv /\ [Next]_vars => LifecycleInv'
  BY TypesStep, HandlersStep, AppliedStep, CountsStep DEF LifecycleInv
<1> QED BY <1>1, <1>2, PTL DEF Spec

LEMMA TypeOfInv == LifecycleInv => TypeOK
<1> SUFFICES ASSUME LifecycleInv PROVE TypeOK
  OBVIOUS
<1>1. \A l \in Logs : /\ rows[l].status \in Statuses /\ rows[l].msgId \in 0..MaxSends
                      /\ rows[l].at \in [Stamps -> 0..MaxTime]
  <2>1. \A l \in Logs : rows[l] \in Row
    BY DEF LifecycleInv, Types, TableTypes
  <2> QED BY <2>1 DEF Row
<1>2. /\ \A p \in blacklist : \E l \in Logs : p[1] = Client[l] /\ p[2] \in To[l]
      /\ \A s \in DOMAIN stats : stats[s] \in Nat
  BY DEF LifecycleInv, Types, TableTypes
<1>3. /\ wpc \in [Logs -> {"send", "setid", "marksent", "count", "end"}]
      /\ sends \in [Logs -> 0..MaxSends]
      /\ due \subseteq emitted /\ emitted \subseteq Events
      /\ hpc \in [Handlers -> {"idle", "lookup", "list", "mark", "stat", "listlast"}]
  BY DEF LifecycleInv, Types, WorkerTypes, EventTypes, HandlerTypes
<1>4. \A h \in Handlers : ev[h] \in emitted \cup {NoEvent}
  BY <1>3 DEF LifecycleInv, HandlerInv, OneHandler
<1>5. \A h \in Handlers : todo[h] # {} <=> hpc[h] \in {"list", "listlast"}
  BY DEF LifecycleInv, HandlerInv, Stages
<1>6. late \subseteq {h \in Handlers : ev[h] # NoEvent}
  BY DEF LifecycleInv, Types, HandlerTypes, HandlerInv, OneHandler
<1> QED BY <1>1, <1>2, <1>3, <1>4, <1>5, <1>6 DEF TypeOK

(* Every variable of the lifecycle keeps its type; a handler lists         *)
(* addresses exactly while it has some left (handler.go 155-255).          *)
THEOREM LifecycleTypes == Spec => []TypeOK
BY LifecycleAlways, TypeOfInv, PTL

(* An event that says something and found its row is answered 200 only     *)
(* when it is in the database, however handlers interleave, fail, outlive  *)
(* their request or are killed (handler.go 162-176, 213-248).              *)
THEOREM AnsweredAreApplied == Spec => []AnsweredIsApplied
<1>1. LifecycleInv => AnsweredIsApplied
  BY DEF LifecycleInv, AppliedInv
<1> QED BY <1>1, LifecycleAlways, PTL

LEMMA AccountsOfInv == LifecycleInv => StatsAccounted
<1> SUFFICES ASSUME LifecycleInv, NEW s \in {c \in DOMAIN stats : c[2] # "sent"}
             PROVE  /\ Cardinality(Belonging(emitted \ (due \cup dropped \cup uncounted), s)) <= stats[s]
                    /\ stats[s] <= Cardinality(Belonging(emitted, s)) + recounted
  BY DEF StatsAccounted
<1> DEFINE A == Belonging(emitted \ (due \cup dropped \cup uncounted), s)
           B == Belonging(emitted \ (dropped \cup uncounted \cup ToCount), s)
           P == Belonging(ToCount, s)
           E == Belonging(emitted, s)
           L == Loose(s)
<1>1. IsFiniteSet(emitted) /\ due \subseteq emitted /\ recounted \in Nat /\ stats[s] \in Nat
  BY DEF LifecycleInv, Types, EventTypes, TableTypes
<1>2. A \subseteq B /\ B \subseteq emitted /\ P \subseteq emitted /\ E \subseteq emitted
  BY <1>1 DEF Belonging, ToCount
<1>3. /\ IsFiniteSet(B) /\ Cardinality(B) \in Nat /\ Cardinality(P) \in Nat
      /\ Cardinality(E) \in Nat
  BY <1>1, <1>2, FiniteEvents
<1>4. Cardinality(A) <= Cardinality(B) /\ Cardinality(A) \in Nat
  BY <1>2, <1>3, FiniteEvents
<1>5. /\ Cardinality(B) <= stats[s]
      /\ stats[s] + Cardinality(P) + Cardinality(L) <= Cardinality(E) + recounted
  BY DEF LifecycleInv, CountsInv
<1>6. Cardinality(L) \in Nat
  <2>1. L \subseteq late /\ IsFiniteSet(late)
    BY DEF Loose, LifecycleInv, Types, HandlerTypes
  <2> QED BY <2>1, FiniteEvents
<1> HIDE DEF A, B, P, E, L
<1>7. Cardinality(A) <= stats[s] /\ stats[s] <= Cardinality(E) + recounted
  BY <1>1, <1>3, <1>4, <1>5, <1>6
<1> QED BY <1>7 DEF A, E

(* A client's statistics count every event that found its row and was      *)
(* answered, except failed IncrementStats, and nothing else, except what   *)
(* SNS posts again after it was counted, or while a request that it no     *)
(* longer waits for may still count it (handler.go 195-248, stats_repo.go  *)
(* 33-51).                                                                 *)
THEOREM StatsAreAccounted == Spec => []StatsAccounted
BY LifecycleAlways, AccountsOfInv, PTL

(* A first open or click stays the first one (email_log_repo.go 66-67).    *)
THEOREM FirstEngagementStays == Spec => FirstEngagementKept
<1>1. LifecycleInv /\ [Next]_vars
        => [\A l \in Logs, s \in {"opened", "clicked"} :
              rows[l].at[s] # 0 => rows'[l].at[s] = rows[l].at[s]]_vars
  BY StampsStay DEF LifecycleInv, StampsKept
<1> QED BY <1>1, LifecycleAlways, PTL DEF Spec, FirstEngagementKept
=============================================================================
