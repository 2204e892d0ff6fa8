-------------------------- MODULE EventPathProofs --------------------------
(***************************************************************************)
(* Proofs about EventPath and the ConfigSet it is composed with: for any   *)
(* number of workers, events, confirmations, requests of one SDK call and  *)
(* deliveries of one message.  ConfigSet's two properties rest on what the *)
(* two creations leave behind (SendInv); that a message is lost only for a *)
(* cause rests on that, on which requests had no certificate to start      *)
(* from, and on what became of each earlier delivery (EventInv).           *)
(***************************************************************************)
EXTENDS EventPath, TLAPS

HandlerPC == {"idle", "look", "download", "handle"}

(* SES has taken nothing of a Send that is not over.                       *)
NothingYet == \A w \in Workers : pc[w] # "idle" => copies[w] = 0

(* A set without its destination is one that a worker is completing, or    *)
(* that an Ensure left behind.                                             *)
Halfway == set /\ ~dest => torn \/ \E w \in Workers : pc[w] = "makedest"

SendInv ==
  /\ set \in BOOLEAN /\ dest \in BOOLEAN /\ torn \in BOOLEAN
  /\ pc \in [Workers -> PC]
  /\ copies \in [Workers -> 0..SdkAttempts]
  /\ NothingYet
  /\ \A w \in Workers : pc[w] = "makedest" => set
  /\ EnsureMeansReady
  /\ Halfway

TakenOfSet == taken => set

FateTypes ==
  /\ fate \in [Messages -> Fates] /\ try \in [Messages -> 0..MaxTries]
  /\ hpc \in [Messages \X Tries -> HandlerPC] /\ cert \in BOOLEAN

(* SNS delivers a message again only while tries are left.                 *)
TriesLeft ==
  /\ \A m \in Messages : fate[m] = "none" => try[m] = 0
  /\ \A m \in Messages : fate[m] = "due" => try[m] < MaxTries
  /\ \A m \in Messages : fate[m] = "waiting" => try[m] \in Tries

(* A message has been delivered again, or given up, only after each        *)
(* delivery so far had failed.                                             *)
Over(m, t) == t < try[m] \/ (t = try[m] /\ fate[m] \in {"due", "abandoned"})
TriesFailed ==
  /\ \A m \in Messages : \A t \in Tries : Over(m, t) => <<m, t>> \in failed
  /\ \A m \in Messages : fate[m] = "abandoned" => try[m] = MaxTries

(* A request that found a certificate when it came needs no download, as   *)
(* long as somebody waits for its answer.                                  *)
WarmIsSafe ==
  \A m \in Messages :
    fate[m] = "waiting" /\ m \notin cold => cert /\ ~At(m, try[m], "download")

EventInv ==
  /\ SendInv /\ TakenOfSet /\ FateTypes /\ TriesLeft /\ TriesFailed /\ WarmIsSafe
  /\ LostForCause

-----------------------------------------------------------------------------
(* SES's errors are told apart by membership only, so that a call that is  *)
(* answered with a missing set has taken nothing.                          *)
LEMMA SetMissing ==
  ASSUME NEW e, NEW n \in 0..SdkAttempts, NEW exists,
         n > 0 => exists /\ e \notin {"ConfigurationSetNotFoundError", "BuildError"}
  PROVE  e = "ConfigurationSetNotFoundError" => n = 0
OBVIOUS

(* A worker's step changes that worker's call only.                        *)
LEMMA OnlyItsOwn ==
  ASSUME NEW w \in Workers, SendStep(w),
         pc \in [Workers -> PC], copies \in [Workers -> 0..SdkAttempts]
  PROVE  \A v \in Workers \ {w} : pc'[v] = pc[v] /\ copies'[v] = copies[v]
BY DEF SendStep, Send, SendRawEmail, CreateConfigurationSet, CreateEventDestination,
       Kill, Goto, Take

-----------------------------------------------------------------------------
(* ConfigSet: what its operations keep.                                    *)

LEMMA SendStart == SendInit => SendInv
<1> SUFFICES ASSUME SendInit PROVE SendInv
  OBVIOUS
<1>1. ~set /\ ~dest /\ ~torn
      /\ set \in BOOLEAN /\ dest \in BOOLEAN /\ torn \in BOOLEAN
  BY DEF SendInit
<1>2. pc = [w \in Workers |-> "idle"] /\ copies = [w \in Workers |-> 0]
      /\ 0 \in 0..SdkAttempts
  BY ConfigSetAssumption DEF SendInit
<1>3. pc \in [Workers -> PC] /\ copies \in [Workers -> 0..SdkAttempts]
      /\ \A w \in Workers : pc[w] = "idle"
  BY <1>2 DEF PC
<1> QED BY <1>1, <1>3 DEF SendInv, NothingYet, EnsureMeansReady, Halfway

LEMMA SendKept ==
  ASSUME SendInv, NEW w \in Workers, SendStep(w)
  PROVE  SendInv' /\ (set => set') /\ (copies'[w] > copies[w] => set)
<1>1. /\ set \in BOOLEAN /\ dest \in BOOLEAN /\ torn \in BOOLEAN
      /\ pc \in [Workers -> PC] /\ copies \in [Workers -> 0..SdkAttempts]
      /\ NothingYet /\ EnsureMeansReady /\ Halfway
      /\ \A v \in Workers : pc[v] = "makedest" => set
      /\ SdkAttempts \in Nat \ {0}
  BY ConfigSetAssumption DEF SendInv
<1>2. \A v \in Workers \ {w} : pc'[v] = pc[v] /\ copies'[v] = copies[v]
  BY <1>1, OnlyItsOwn
<1>3. CASE Send(w)
  BY <1>1, <1>2, <1>3 DEF Send, Goto, SendInv, PC, NothingYet, EnsureMeansReady, Halfway
<1>4. CASE SendRawEmail(w)
  <2>1. pc[w] # "idle" /\ copies[w] = 0 /\ UNCHANGED <<set, dest, torn>>
    BY <1>1, <1>4 DEF SendRawEmail, NothingYet
  <2>2. PICK n \in 0..SdkAttempts, to \in {"idle", "makeset"} :
           /\ Take(w, n) /\ Goto(w, to)
           /\ n > 0 => set
           /\ to = "makeset" => n = 0
    <3>1. CASE set /\ (\E n \in 1..SdkAttempts : Take(w, n)) /\ Goto(w, "idle")
      BY <1>1, <3>1
    <3>2. CASE \E e \in SesErrors \ {"Setup"}, n \in 0..SdkAttempts :
                 /\ n > 0 => set /\ e \notin {"ConfigurationSetNotFoundError", "BuildError"}
                 /\ IsPermanent(e) => n < SdkAttempts
                 /\ Take(w, n)
                 /\ Goto(w, IF Ensures(w, e) THEN "makeset" ELSE "idle")
      BY <1>1, <3>2 DEF Ensures
    <3> QED BY <1>4, <3>1, <3>2 DEF SendRawEmail
  <2>3. pc' = [pc EXCEPT ![w] = to] /\ copies' = [copies EXCEPT ![w] = n]
    BY <1>1, <2>1, <2>2 DEF Take, Goto
  <2>4. pc' \in [Workers -> PC] /\ copies' \in [Workers -> 0..SdkAttempts] /\ NothingYet'
    BY <1>1, <1>2, <2>1, <2>2, <2>3 DEF PC, NothingYet
  <2>5. /\ \A v \in Workers : pc'[v] \in {"makedest", "again"} => pc'[v] = pc[v]
        /\ pc[w] # "makedest"
    BY <1>1, <1>2, <2>2, <2>3, <1>4 DEF SendRawEmail
  <2>6. Halfway'
    BY <1>1, <1>2, <2>1, <2>5 DEF Halfway
  <2>7. EnsureMeansReady' /\ \A v \in Workers : pc'[v] = "makedest" => set'
    BY <1>1, <2>1, <2>5 DEF EnsureMeansReady
  <2>8. copies'[w] > copies[w] => set
    BY <1>1, <2>1, <2>2, <2>3
  <2> QED
    BY <1>1, <2>1, <2>4, <2>6, <2>7, <2>8 DEF SendInv
<1>5. CASE CreateConfigurationSet(w)
  <2>1. pc[w] = "makeset" /\ UNCHANGED <<dest, copies>>
    BY <1>5 DEF CreateConfigurationSet
  <2>2. PICK answer \in {"created", "exists", "failed"}, done \in BOOLEAN :
           /\ answer = "created" => ~set /\ done
           /\ answer = "exists" => set
           /\ set' = (set \/ done)
           /\ torn' = (torn \/ (answer = "failed" /\ done /\ ~set))
           /\ pc' = [pc EXCEPT ![w] = IF answer = "failed" THEN "idle" ELSE "makedest"]
    BY <1>5 DEF CreateConfigurationSet, AfterSet, Goto
  <2>3. pc'[w] = (IF answer = "failed" THEN "idle" ELSE "makedest") /\ copies'[w] = copies[w]
    BY <1>1, <2>1, <2>2
  <2>4. Halfway'
    BY <1>1, <1>2, <2>1, <2>2, <2>3 DEF Halfway
  <2> QED
    BY <1>1, <1>2, <2>1, <2>2, <2>3, <2>4
    DEF SendInv, PC, NothingYet, EnsureMeansReady
<1>6. CASE CreateEventDestination(w)
  <2>1. pc[w] = "makedest" /\ set /\ UNCHANGED <<set, copies>>
    BY <1>1, <1>6 DEF CreateEventDestination
  <2>2. PICK answer \in {"created", "exists", "failed"}, done \in BOOLEAN :
           /\ answer = "created" => ~dest /\ done
           /\ answer = "exists" => dest
           /\ dest' = (dest \/ done)
           /\ torn' = (torn \/ (answer = "failed" /\ ~dest'))
           /\ pc' = [pc EXCEPT ![w] = IF answer = "failed" THEN "idle" ELSE "again"]
    BY <1>6 DEF CreateEventDestination, AfterDest, Goto
  <2>3. pc'[w] = (IF answer = "failed" THEN "idle" ELSE "again") /\ copies'[w] = copies[w]
    BY <1>1, <2>1, <2>2
  <2> QED
    BY <1>1, <1>2, <2>1, <2>2, <2>3
    DEF SendInv, PC, NothingYet, EnsureMeansReady, Halfway
<1>7. CASE Kill(w)
  BY <1>1, <1>2, <1>7 DEF Kill, Goto, SendInv, PC, NothingYet, EnsureMeansReady, Halfway
<1> QED BY <1>3, <1>4, <1>5, <1>6, <1>7 DEF SendStep

LEMMA SendStutter == SendInv /\ UNCHANGED sendVars => SendInv'
BY DEF sendVars, local, SendInv, NothingYet, EnsureMeansReady, Halfway

-----------------------------------------------------------------------------
(* EventPath: its three kinds of steps, one lemma each.                    *)

LEMMA EventStart == Init => EventInv
<1> SUFFICES ASSUME Init PROVE EventInv
  OBVIOUS
<1>1. SendInv
  BY SendStart DEF Init
<1>2. TakenOfSet
  BY DEF Init, TakenOfSet
<1>3. FateTypes
  <2>1. fate = [m \in Messages |-> "none"] /\ try = [m \in Messages |-> 0]
        /\ hpc = [d \in Messages \X Tries |-> "idle"] /\ cert = FALSE
        /\ 0 \in 0..MaxTries
    BY EventPathAssumption DEF Init
  <2> QED BY <2>1 DEF FateTypes, Fates, HandlerPC
<1>4. TriesLeft /\ TriesFailed /\ WarmIsSafe /\ LostForCause
  <2>1. \A m \in Messages : fate[m] = "none" /\ try[m] = 0
    BY DEF Init
  <2> QED
    BY <2>1, EventPathAssumption
    DEF TriesLeft, TriesFailed, Over, Tries, WarmIsSafe, LostForCause, Messages
<1> QED
  BY <1>1, <1>2, <1>3, <1>4 DEF EventInv

(* What a Send does leaves the messages of SNS alone; what it did to an    *)
(* event is only remembered better.                                        *)
LEMMA DeliveriesKeep ==
  ASSUME EventInv, Deliveries
  PROVE  EventInv'
<1>1. PICK w \in Workers : SendStep(w)
  BY DEF Deliveries
<1>2. SendInv' /\ (set => set') /\ (copies'[w] > copies[w] => set)
  BY <1>1, SendKept DEF EventInv
<1>3. copies \in [Workers -> 0..SdkAttempts] /\ pc \in [Workers -> PC] /\ SdkAttempts \in Nat
  BY ConfigSetAssumption DEF EventInv, SendInv
<1>4. \A v \in Workers \ {w} : copies'[v] = copies[v]
  BY <1>1, <1>3, OnlyItsOwn
<1>5. TakenOfSet'
  <2>1. taken' = (taken \/ \E v \in Workers : copies'[v] > copies[v])
    BY DEF Deliveries
  <2>2. taken => set
    BY DEF EventInv, TakenOfSet
  <2>3. ASSUME NEW v \in Workers, copies'[v] > copies[v] PROVE set
    <3>1. v # w => copies'[v] = copies[v] /\ copies[v] \in Nat
      BY <1>3, <1>4
    <3> QED BY <1>2, <2>3, <3>1
  <2> QED BY <1>2, <2>1, <2>2, <2>3 DEF TakenOfSet
<1>6. torn => torn'
  BY <1>1 DEF SendStep, Send, SendRawEmail, CreateConfigurationSet, CreateEventDestination, Kill
<1> QED
  BY <1>2, <1>5, <1>6
  DEF Deliveries, snsVars, EventInv, FateTypes, TriesLeft, TriesFailed, Over, WarmIsSafe, At,
      LostForCause

(* SES and the operator.                                                   *)
LEMMA OutsideKeeps ==
  ASSUME EventInv,
         \/ \E e \in Events : Happen(e)
         \/ \E k \in Confirmations : Subscribe(k)
         \/ Unsubscribe
  PROVE  EventInv'
<1>1. SendInv'
  BY SendStutter DEF Happen, Subscribe, Unsubscribe, EventInv
<1>2. FateTypes /\ TriesLeft /\ TriesFailed /\ WarmIsSafe /\ LostForCause /\ TakenOfSet /\ SendInv
  BY DEF EventInv
<1>3. MaxTries \in Nat \ {0} /\ Events \cap Confirmations = {}
  BY EventPathAssumption
<1>4. CASE \E e \in Events : Happen(e)
  <2>1. PICK e \in Events : Happen(e)
    BY <1>4
  <2>2. e \in Messages /\ e \notin Confirmations
    BY <1>3 DEF Messages
  <2>3. fate[e] = "none" /\ try[e] = 0 /\ set
    BY <1>2, <2>1, <2>2 DEF Happen, TriesLeft, TakenOfSet
  <2>4. UNCHANGED <<sendVars, taken, sub, try, hpc, cert, cold, failed, deaf, ended>>
        /\ hasty \subseteq hasty' /\ early \subseteq early'
    BY <2>1 DEF Happen
  <2>5. PICK f \in {"unpublished", "due", "unsubscribed"} :
           /\ fate' = [fate EXCEPT ![e] = f] /\ (f = "unpublished" => ~dest)
           /\ f = "unsubscribed" => sub # "confirmed"
    BY <2>1 DEF Happen
  <2>6. ~dest => torn \/ e \in hasty'
    BY <1>2, <2>1, <2>3 DEF Happen, SendInv, Halfway
  <2>7. FateTypes' /\ TriesLeft' /\ TriesFailed' /\ WarmIsSafe'
    BY <1>2, <1>3, <2>2, <2>3, <2>4, <2>5
    DEF FateTypes, Fates, TriesLeft, TriesFailed, Over, WarmIsSafe, At, Tries
  <2>8. sub # "confirmed" => e \in early' \/ deaf \/ ended
    BY <1>2, <2>1 DEF Happen, LostForCause
  <2>9. LostForCause'
    BY <1>2, <2>2, <2>4, <2>5, <2>6, <2>8 DEF LostForCause, FateTypes, Messages, sendVars
  <2> QED BY <1>1, <1>2, <2>4, <2>7, <2>9 DEF EventInv, TakenOfSet, sendVars
<1>5. CASE \E k \in Confirmations : Subscribe(k)
  <2>1. PICK k \in Confirmations : Subscribe(k)
    BY <1>5
  <2>2. k \in Messages /\ k \notin Events
    BY <1>3 DEF Messages
  <2>3. fate' = [fate EXCEPT ![k] = "due"] /\ fate[k] = "none" /\ sub # "confirmed"
        /\ UNCHANGED <<sendVars, taken, hasty, early, try, hpc, cert, cold, failed, deaf, ended>>
    BY <2>1 DEF Subscribe, sesVars
  <2>4. FateTypes' /\ TriesLeft' /\ TriesFailed' /\ WarmIsSafe'
    BY <1>2, <1>3, <2>2, <2>3
    DEF FateTypes, Fates, TriesLeft, TriesFailed, Over, WarmIsSafe, At, Tries
  <2>5. LostForCause'
    BY <1>2, <2>2, <2>3 DEF LostForCause, FateTypes, Messages, sendVars
  <2> QED BY <1>1, <1>2, <2>3, <2>4, <2>5 DEF EventInv, TakenOfSet, sendVars
<1>6. CASE Unsubscribe
  BY <1>1, <1>2, <1>6
  DEF Unsubscribe, sendVars, sesVars, EventInv, TakenOfSet, FateTypes, TriesLeft, TriesFailed,
      Over, WarmIsSafe, At, LostForCause
<1> QED BY <1>4, <1>5, <1>6

(* What SNS makes of an answer, for a message that waits for it.           *)
LEMMA AnswerFacts ==
  ASSUME EventInv, NEW m \in Messages, NEW t \in Tries, NEW code \in {200, 403, 500},
         Answer(m, t, code)
  PROVE  /\ hpc' = [hpc EXCEPT ![<<m, t>>] = "idle"]
         /\ fate' \in [Messages -> Fates] /\ failed \subseteq failed'
         /\ \A n \in Messages :
              \/ fate'[n] = fate[n]
              \/ /\ n = m /\ fate[m] = "waiting" /\ try[m] = t
                 /\ \/ fate'[m] = "handled" /\ code = 200
                    \/ fate'[m] = "refused" /\ code = 403
                    \/ fate'[m] = "due" /\ <<m, t>> \in failed' /\ code = 500 /\ try[m] < MaxTries
                    \/ fate'[m] = "abandoned" /\ <<m, t>> \in failed' /\ code = 500 /\ t = MaxTries
<1>1. fate \in [Messages -> Fates] /\ try[m] \in 0..MaxTries /\ MaxTries \in Nat
  BY EventPathAssumption DEF EventInv, FateTypes
<1> QED BY <1>1 DEF Answer, Awaited, AfterAnswer, Becomes, Fates

(* An outcome that is no failure leaves the record of failures as it is    *)
(* to be.                                                                  *)
LEMMA FailuresKept ==
  ASSUME TriesFailed, UNCHANGED try, failed \subseteq failed',
         \A n \in Messages :
           \/ fate'[n] = fate[n] \/ fate'[n] \notin {"due", "abandoned"}
           \/ <<n, try[n]>> \in failed' /\ (fate'[n] = "abandoned" => try[n] = MaxTries)
  PROVE  TriesFailed'
BY DEF TriesFailed, Over

(* The webhook.                                                            *)
LEMMA ServeKeeps ==
  ASSUME EventInv, NEW m \in Messages, NEW t \in Tries, Serve(m, t)
  PROVE  EventInv'
<1>1. SendInv'
  BY SendStutter DEF Serve, Look, Download, Process, Confirm, EventInv
<1>2. FateTypes /\ TriesLeft /\ TriesFailed /\ WarmIsSafe /\ LostForCause /\ TakenOfSet
  BY DEF EventInv
<1>3. UNCHANGED <<sendVars, taken, hasty, early, try, cold, ended>>
  BY DEF Serve, Look, Download, Process, Confirm, sesVars
<1>4. <<m, t>> \in Messages \X Tries
  OBVIOUS
<1>5. CASE Look(m, t)
  <2>1. /\ hpc' = [hpc EXCEPT ![<<m, t>>] = IF cert THEN "handle" ELSE "download"]
        /\ UNCHANGED <<sub, fate, cert, failed, deaf>>
    BY <1>5 DEF Look, Becomes, AfterLook
  <2>2. FateTypes'
    BY <1>2, <1>3, <2>1 DEF FateTypes, HandlerPC
  <2>3. WarmIsSafe'
    BY <1>2, <1>3, <1>4, <2>1 DEF WarmIsSafe, At, FateTypes, TriesLeft
  <2> QED
    BY <1>1, <1>2, <1>3, <2>1, <2>2, <2>3
    DEF EventInv, TakenOfSet, TriesLeft, TriesFailed, Over, LostForCause, sendVars
<1>6. CASE Download(m, t)
  <2>1. CASE cert' = TRUE /\ Becomes(m, t, "handle") /\ UNCHANGED <<fate, failed>>
    <3>1. hpc' = [hpc EXCEPT ![<<m, t>>] = "handle"] /\ UNCHANGED <<sub, fate, failed, deaf>>
          /\ cert' = TRUE
      BY <1>6, <2>1 DEF Download, Becomes
    <3>2. FateTypes'
      BY <1>2, <1>3, <3>1 DEF FateTypes, HandlerPC
    <3>3. WarmIsSafe'
      BY <1>2, <1>3, <1>4, <3>1 DEF WarmIsSafe, At, FateTypes, TriesLeft
    <3> QED
      BY <1>1, <1>2, <1>3, <3>1, <3>2, <3>3
      DEF EventInv, TakenOfSet, TriesLeft, TriesFailed, Over, LostForCause, sendVars
  <2>2. CASE Answer(m, t, 403) /\ UNCHANGED cert
    <3>1. UNCHANGED <<sub, deaf>> /\ At(m, t, "download")
      BY <1>6 DEF Download
    <3>2. /\ hpc' = [hpc EXCEPT ![<<m, t>>] = "idle"]
          /\ fate' \in [Messages -> Fates] /\ failed \subseteq failed'
          /\ \A n \in Messages :
               \/ fate'[n] = fate[n]
               \/ n = m /\ fate[m] = "waiting" /\ try[m] = t /\ fate'[m] = "refused"
      BY <2>2, AnswerFacts
    <3>3. FateTypes'
      BY <1>2, <1>3, <2>2, <3>2 DEF FateTypes, HandlerPC
    <3>4. TriesLeft' /\ TriesFailed'
      BY <1>2, <1>3, <3>2, FailuresKept DEF TriesLeft
    <3>5. WarmIsSafe'
      BY <1>2, <1>3, <1>4, <2>2, <3>2 DEF WarmIsSafe, At, FateTypes, TriesLeft
    <3>6. LostForCause'
      <4>1. \A n \in Messages : fate'[n] = "refused" => n \in cold
        BY <1>2, <3>1, <3>2 DEF LostForCause, WarmIsSafe, At
      <4> QED BY <1>2, <1>3, <3>1, <3>2, <4>1 DEF LostForCause, Messages, sendVars
    <3> QED
      BY <1>1, <1>2, <1>3, <3>3, <3>4, <3>5, <3>6 DEF EventInv, TakenOfSet, sendVars
  <2> QED BY <1>6, <2>1, <2>2 DEF Download
<1>7. CASE Process(m, t) \/ Confirm(m, t)
  <2>1. UNCHANGED cert
    BY <1>7 DEF Process, Confirm
  <2>2. PICK code \in {200, 500} :
           /\ Answer(m, t, code)
           /\ deaf => deaf'
           /\ sub = "confirmed" => sub' = "confirmed"
           /\ m \in Confirmations /\ code = 200 => sub' = "confirmed" \/ deaf'
    <3>1. CASE Process(m, t)
      BY <3>1, EventPathAssumption DEF Process
    <3>2. CASE Confirm(m, t)
      <4>1. PICK answer \in {"2xx", "other", "error"}, done \in BOOLEAN :
               /\ answer = "2xx" => done
               /\ sub' = (IF done THEN "confirmed" ELSE sub)
               /\ deaf' = (deaf \/ answer = "other")
               /\ Answer(m, t, ConfirmCode(answer))
        BY <3>2 DEF Confirm
      <4>2. ConfirmCode(answer) = (IF answer = "error" THEN 500 ELSE 200)
        BY DEF ConfirmCode
      <4>3. CASE answer = "error"
        <5>1. (deaf => deaf') /\ (sub = "confirmed" => sub' = "confirmed")
          BY <4>1
        <5>2. Answer(m, t, 500)
          BY <4>1, <4>2, <4>3
        <5> QED BY <5>1, <5>2
      <4>4. CASE answer # "error"
        <5>1. CASE answer = "2xx"
          <6>1. done /\ sub' = "confirmed" /\ (deaf => deaf')
            BY <4>1, <5>1
          <6> QED BY <4>1, <4>2, <4>4, <6>1
        <5>2. CASE answer = "other"
          <6>1. deaf' /\ (sub = "confirmed" => sub' = "confirmed")
            BY <4>1, <5>2
          <6> QED BY <4>1, <4>2, <4>4, <6>1
        <5> QED BY <4>1, <4>4, <5>1, <5>2
      <4> QED BY <4>3, <4>4
    <3> QED BY <1>7, <3>1, <3>2
  <2>3. /\ hpc' = [hpc EXCEPT ![<<m, t>>] = "idle"]
        /\ fate' \in [Messages -> Fates] /\ failed \subseteq failed'
        /\ \A n \in Messages :
             \/ fate'[n] = fate[n]
             \/ /\ n = m /\ fate[m] = "waiting"
                /\ \/ fate'[m] = "handled" /\ code = 200
                   \/ fate'[m] = "due" /\ <<m, try[m]>> \in failed' /\ try[m] < MaxTries
                   \/ fate'[m] = "abandoned" /\ <<m, try[m]>> \in failed' /\ try[m] = MaxTries
    BY <2>2, AnswerFacts
  <2>4. FateTypes'
    BY <1>2, <1>3, <2>1, <2>3 DEF FateTypes, HandlerPC
  <2>5. TriesLeft' /\ TriesFailed'
    BY <1>2, <1>3, <2>3, FailuresKept DEF TriesLeft
  <2>6. WarmIsSafe'
    BY <1>2, <1>3, <1>4, <2>1, <2>3 DEF WarmIsSafe, At, FateTypes, TriesLeft
  <2>7. LostForCause'
    <3>1. \A n \in Messages : fate'[n] \in {"unpublished", "refused"} => fate'[n] = fate[n]
      BY <2>3
    <3>2. \A k \in Confirmations : fate'[k] = "handled" => sub' = "confirmed" \/ deaf' \/ ended
      BY <1>2, <2>2, <2>3 DEF LostForCause, Messages
    <3>3. ASSUME NEW n \in Messages
          PROVE  /\ fate'[n] = "unsubscribed" => fate[n] = "unsubscribed"
                 /\ fate'[n] = "abandoned" => \A x \in Tries : <<n, x>> \in failed'
      <4>1. fate'[n] = "unsubscribed" => fate[n] = "unsubscribed"
        BY <2>3
      <4>2. \A x \in Tries : x < MaxTries \/ x = MaxTries
        BY EventPathAssumption DEF Tries
      <4> QED BY <2>5, <4>1, <4>2 DEF TriesFailed, Over
    <3>4. deaf => deaf'
      BY <2>2
    <3> QED BY <1>2, <1>3, <3>1, <3>2, <3>3, <3>4 DEF LostForCause, Messages, sendVars
  <2> QED
    BY <1>1, <1>2, <1>3, <2>4, <2>5, <2>6, <2>7 DEF EventInv, TakenOfSet, sendVars
<1> QED BY <1>5, <1>6, <1>7 DEF Serve

(* SNS, and the end of the process.                                        *)
LEMMA SnsKeeps ==
  ASSUME EventInv, (\E m \in Messages : Arrive(m) \/ TimeOut(m)) \/ Crash
  PROVE  EventInv'
<1>1. SendInv'
  BY SendStutter DEF Arrive, TimeOut, Crash, EventInv
<1>2. FateTypes /\ TriesLeft /\ TriesFailed /\ WarmIsSafe /\ LostForCause /\ TakenOfSet
  BY DEF EventInv
<1>3. /\ UNCHANGED <<sendVars, taken, hasty, early, sub, deaf, ended>>
      /\ failed \subseteq failed'
  BY DEF Arrive, TimeOut, Crash, sesVars
<1>4. MaxTries \in Nat \ {0}
  BY EventPathAssumption
<1>5. CASE \E m \in Messages : Arrive(m)
  <2>1. PICK m \in Messages : Arrive(m)
    BY <1>5
  <2>2. fate[m] = "due" /\ try[m] + 1 \in Tries /\ UNCHANGED cert
        /\ fate' = [fate EXCEPT ![m] = "waiting"] /\ try' = [try EXCEPT ![m] = @ + 1]
        /\ hpc' = [hpc EXCEPT ![<<m, try[m] + 1>>] = "look"]
        /\ cold' = (IF cert THEN cold \ {m} ELSE cold \cup {m})
    BY <1>2, <1>4, <2>1 DEF Arrive, Becomes, FateTypes, TriesLeft, Tries
  <2>3. FateTypes'
    BY <1>2, <1>4, <2>2 DEF FateTypes, Fates, HandlerPC, Tries
  <2>4. TriesLeft' /\ TriesFailed'
    <3>1. ASSUME NEW n \in Messages, NEW t \in Tries, Over(n, t)' PROVE <<n, t>> \in failed
      <4>1. CASE n = m
        BY <1>2, <1>4, <2>2, <3>1, <4>1 DEF FateTypes, TriesFailed, Over, Tries
      <4>2. CASE n # m
        BY <1>2, <2>2, <3>1, <4>2 DEF FateTypes, TriesFailed, Over
      <4> QED BY <4>1, <4>2
    <3> QED BY <1>2, <1>3, <2>2, <3>1 DEF FateTypes, TriesLeft, TriesFailed
  <2>5. WarmIsSafe'
    <3>1. ASSUME NEW n \in Messages \ {m}, fate'[n] = "waiting", n \notin cold'
          PROVE  cert' /\ ~At(n, try[n], "download")' /\ try'[n] = try[n]
      BY <1>2, <2>2, <3>1 DEF WarmIsSafe, At, FateTypes, TriesLeft
    <3>2. m \notin cold' => cert' /\ hpc'[<<m, try'[m]>>] = "look"
      BY <1>2, <2>2 DEF FateTypes
    <3> QED BY <3>1, <3>2 DEF WarmIsSafe, At
  <2>6. LostForCause'
    BY <1>2, <1>3, <2>2 DEF LostForCause, FateTypes, Messages, sendVars
  <2> QED BY <1>1, <1>2, <1>3, <2>3, <2>4, <2>5, <2>6 DEF EventInv, TakenOfSet, sendVars
<1>6. CASE (\E m \in Messages : TimeOut(m)) \/ Crash
  <2>1. /\ fate' \in [Messages -> Fates]
        /\ \A n \in Messages :
             \/ fate'[n] = fate[n]
             \/ /\ <<n, try[n]>> \in failed'
                /\ \/ fate'[n] = "due" /\ try[n] < MaxTries
                   \/ fate'[n] = "abandoned" /\ try[n] = MaxTries
        /\ UNCHANGED <<try, cold>>
    <3>1. ASSUME NEW n \in Messages
          PROVE  /\ AfterAnswer(n, 500) \in Fates
                 /\ \/ AfterAnswer(n, 500) = "due" /\ try[n] < MaxTries
                    \/ AfterAnswer(n, 500) = "abandoned" /\ try[n] = MaxTries
      <4>1. AfterAnswer(n, 500) = (IF try[n] < MaxTries THEN "due" ELSE "abandoned")
        BY DEF AfterAnswer
      <4>2. try[n] \in 0..MaxTries
        BY <1>2 DEF FateTypes
      <4> QED BY <1>4, <4>1, <4>2 DEF Fates
    <3>2. CASE \E m \in Messages : TimeOut(m)
      BY <1>2, <3>1, <3>2 DEF TimeOut, FateTypes
    <3>3. CASE Crash
      BY <1>2, <3>1, <3>3 DEF Crash, FateTypes
    <3> QED BY <1>6, <3>2, <3>3
  <2>2. FateTypes' /\ WarmIsSafe'
    <3>1. CASE \E m \in Messages : TimeOut(m)
      <4>1. UNCHANGED <<hpc, cert>>
        BY <3>1 DEF TimeOut
      <4> QED BY <1>2, <2>1, <4>1 DEF FateTypes, WarmIsSafe, At
    <3>2. CASE Crash
      <4>1. hpc' = [d \in Messages \X Tries |-> "idle"] /\ cert' = FALSE
        BY <3>2 DEF Crash
      <4>2. \A n \in Messages : fate'[n] # "waiting"
        BY <1>2, <3>2 DEF Crash, AfterAnswer, FateTypes
      <4> QED BY <1>2, <2>1, <4>1, <4>2 DEF FateTypes, HandlerPC, WarmIsSafe
    <3> QED BY <1>6, <3>1, <3>2
  <2>3. TriesLeft' /\ TriesFailed'
    BY <1>2, <1>3, <2>1, FailuresKept DEF TriesLeft
  <2>4. LostForCause'
    <3>1. \A n \in Messages : fate'[n] = "abandoned" => \A t \in Tries : <<n, t>> \in failed'
      <4>1. \A x \in Tries : x < MaxTries \/ x = MaxTries
        BY <1>4 DEF Tries
      <4> QED BY <2>3, <4>1 DEF TriesFailed, Over
    <3> QED BY <1>2, <1>3, <2>1, <3>1 DEF LostForCause, Messages, sendVars
  <2> QED BY <1>1, <1>2, <1>3, <2>2, <2>3, <2>4 DEF EventInv, TakenOfSet, sendVars
<1> QED BY <1>5, <1>6

LEMMA EventStep == EventInv /\ [Next]_vars => EventInv'
<1> SUFFICES ASSUME EventInv, [Next]_vars PROVE EventInv'
  OBVIOUS
<1>1. CASE Next
  BY <1>1, DeliveriesKeep, OutsideKeeps, ServeKeeps, SnsKeeps DEF Next
<1>2. CASE UNCHANGED vars
  <2>1. SendInv'
    BY <1>2, SendStutter DEF EventInv, vars
  <2> QED
    BY <1>2, <2>1
    DEF vars, sendVars, local, sesVars, snsVars, EventInv, TakenOfSet, FateTypes, TriesLeft,
        TriesFailed, Over, WarmIsSafe, At, LostForCause
<1> QED BY <1>1, <1>2

(* The invariant the three results follow from holds in every state.       *)
THEOREM PathAlways == Spec => []EventInv
BY EventStart, EventStep, PTL DEF Spec

(* However many workers make the set at once and whatever fails, SES takes *)
(* of one Send no more than the requests of one SendRawEmail call (ses.go  *)
(* 43-58).                                                                 *)
THEOREM SendsOnce == Spec => []OneSendsWorth
<1>1. EventInv => OneSendsWorth
  BY ConfigSetAssumption DEF EventInv, SendInv, OneSendsWorth
<1> QED BY <1>1, PathAlways, PTL

(* When a Send repeats its call, the set and its destination exist, also   *)
(* if other workers created them (ses_setup.go 13-58).                     *)
THEOREM EnsureIsReady == Spec => []EnsureMeansReady
<1>1. EventInv => EnsureMeansReady
  BY DEF EventInv, SendInv
<1> QED BY <1>1, PathAlways, PTL

(* Each of the five ways of losing an event or a confirmation has one of   *)
(* the causes LostForCause names for it and no other, however requests,    *)
(* downloads, time-outs, workers and crashes interleave (middleware.go     *)
(* 51-54 and 117-148, handler.go 131-177 and 262-273, ses_setup.go 18-58). *)
THEOREM LossesHaveCauses == Spec => []LostForCause
<1>1. EventInv => LostForCause
  BY DEF EventInv
<1> QED BY <1>1, PathAlways, PTL
=============================================================================
