----------------------------- MODULE EventPath -----------------------------
(***************************************************************************)
(* The way of an SES event to the service: a Send that makes the client's  *)
(* configuration set and its event destination (ConfigSet), the SNS        *)
(* subscription of the webhook, and the webhook's signature check          *)
(* (internal/webhook/middleware.go) in front of SNSHandler.Handle          *)
(* (handler.go), whose work on the database is Lifecycle's.  Requests are  *)
(* served concurrently and share the certificate cache.                    *)
(*                                                                         *)
(* SES, SNS and the operator are external.  SES publishes an event if the  *)
(* destination exists when the event happens.  SNS delivers to a confirmed *)
(* subscription, stops waiting for an answer after a while, repeats after  *)
(* a 5xx or no answer until MaxTries deliveries were made, and takes a 403 *)
(* as final.  Its signatures are good and name one certificate: what the   *)
(* check refuses otherwise is not sent by SNS.  An UnsubscribeConfirmation *)
(* is answered and logged, which changes nothing and is left out.          *)
(***************************************************************************)
EXTENDS ConfigSet

CONSTANTS Events,          \* SES events of accepted messages
          Confirmations,   \* SubscriptionConfirmation messages, one per request
          MaxTries         \* deliveries SNS makes of a message

ASSUME EventPathAssumption ==
  MaxTries \in Nat \ {0} /\ Events \cap Confirmations = {}

VARIABLES
  taken,   \* SES has accepted a message
  sub,     \* SNS: the subscription
  fate,    \* SNS: what became of each message
  try,     \* SNS: deliveries of each message so far
  hpc,     \* the handler of each delivery
  cert,    \* certCache holds the certificate
  hasty,   \* history: events that happened while an Ensure was under way
  early,   \* history: events that happened before a confirmation was answered 200
  cold,    \* history: messages last delivered while certCache was empty
  failed,  \* history: deliveries answered 500, timed out or cut off by a kill
  deaf,    \* history: a refused confirmation was answered 200
  ended    \* history: the subscription was ended

snsVars == <<sub, fate, try, hpc, cert, cold, failed, deaf, ended>>
sesVars == <<taken, hasty, early>>
vars == <<sendVars, sesVars, snsVars>>

Messages == Events \cup Confirmations
Tries == 1..MaxTries
Fates == {"none", "due", "waiting",
          "handled", "refused", "abandoned", "unpublished", "unsubscribed"}

Init ==
  /\ SendInit /\ taken = FALSE /\ sub = "none" /\ cert = FALSE
  /\ fate = [m \in Messages |-> "none"] /\ try = [m \in Messages |-> 0]
  /\ hpc = [d \in Messages \X Tries |-> "idle"]
  /\ hasty = {} /\ early = {} /\ cold = {} /\ failed = {} /\ deaf = FALSE /\ ended = FALSE

Deliveries ==
  /\ \E w \in Workers : SendStep(w)
  /\ taken' = (taken \/ \E w \in Workers : copies'[w] > copies[w])
  /\ UNCHANGED <<hasty, early, snsVars>>

(* SES: something happens to an accepted message.                          *)
Happen(e) ==
  /\ taken /\ fate[e] = "none"
  /\ fate' = [fate EXCEPT ![e] = IF ~dest THEN "unpublished"
                                 ELSE IF sub = "confirmed" THEN "due" ELSE "unsubscribed"]
  /\ hasty' = IF \E w \in Workers : pc[w] = "makedest" THEN hasty \cup {e} ELSE hasty
  /\ early' = IF \A k \in Confirmations : fate[k] # "handled" THEN early \cup {e} ELSE early
  /\ UNCHANGED <<sendVars, taken, sub, try, hpc, cert, cold, failed, deaf, ended>>

(* The operator asks for the subscription, again if need be.               *)
Subscribe(k) ==
  /\ fate[k] = "none" /\ sub # "confirmed"
  /\ sub' = "pending" /\ fate' = [fate EXCEPT ![k] = "due"]
  /\ UNCHANGED <<sendVars, sesVars, try, hpc, cert, cold, failed, deaf, ended>>

(* The subscription is deleted.                                            *)
Unsubscribe ==
  /\ sub = "confirmed" /\ sub' = "none" /\ ended' = TRUE
  /\ UNCHANGED <<sendVars, sesVars, fate, try, hpc, cert, cold, failed, deaf>>

-----------------------------------------------------------------------------
(* One request: the middleware reads certCache, downloads on a miss, and   *)
(* the handler does its work and answers.                                  *)
At(m, t, label) == hpc[<<m, t>>] = label
Becomes(m, t, label) == hpc' = [hpc EXCEPT ![<<m, t>>] = label]

Arrive(m) ==
  /\ fate[m] = "due" /\ fate' = [fate EXCEPT ![m] = "waiting"]
  /\ try' = [try EXCEPT ![m] = @ + 1] /\ Becomes(m, try[m] + 1, "look")
  /\ cold' = IF cert THEN cold \ {m} ELSE cold \cup {m}
  /\ UNCHANGED <<sendVars, sesVars, sub, cert, failed, deaf, ended>>

(* What SNS makes of the answer of delivery t: of the last one, and only   *)
(* while it waits, it makes something.                                     *)
AfterAnswer(m, code) ==
  CASE code = 200 -> "handled" [] code = 403 -> "refused"
    [] OTHER -> IF try[m] < MaxTries THEN "due" ELSE "abandoned"
Awaited(m, t) == fate[m] = "waiting" /\ try[m] = t
Answer(m, t, code) ==
  /\ Becomes(m, t, "idle")
  /\ fate' = IF Awaited(m, t) THEN [fate EXCEPT ![m] = AfterAnswer(m, code)] ELSE fate
  /\ failed' = IF Awaited(m, t) /\ code = 500 THEN failed \cup {<<m, t>>} ELSE failed

LookAside(m) == "download"
(* fetchCert: what was stored once is used from then on.                   *)
AfterLook(m) == IF cert THEN "handle" ELSE "download"

Look(m, t) ==
  /\ At(m, t, "look") /\ Becomes(m, t, AfterLook(m))
  /\ UNCHANGED <<sendVars, sesVars, sub, fate, try, cert, cold, failed, deaf, ended>>

(* Any failure, also an error page in place of the certificate, is an      *)
(* error of the check and answered 403; only a certificate is stored.      *)
Download(m, t) ==
  /\ At(m, t, "download")
  /\ \/ cert' = TRUE /\ Becomes(m, t, "handle") /\ UNCHANGED <<fate, failed>>
     \/ Answer(m, t, 403) /\ UNCHANGED cert
  /\ UNCHANGED <<sendVars, sesVars, sub, try, cold, deaf, ended>>

(* processNotification succeeds or fails.                                  *)
Process(m, t) ==
  /\ m \in Events /\ At(m, t, "handle")
  /\ \E code \in {200, 500} : Answer(m, t, code)
  /\ UNCHANGED <<sendVars, sesVars, sub, try, cert, cold, deaf, ended>>

(* confirmSubscription: the call failed, or it returned a response, of     *)
(* which nothing is read.                                                  *)
ConfirmCode(answer) == IF answer = "error" THEN 500 ELSE 200

Confirm(m, t) ==
  /\ m \in Confirmations /\ At(m, t, "handle")
  /\ \E answer \in {"2xx", "other", "error"}, done \in BOOLEAN :
       /\ answer = "2xx" => done
       /\ answer = "other" => ~done
       /\ done => sub # "none"
       /\ sub' = IF done THEN "confirmed" ELSE sub
       /\ deaf' = (deaf \/ answer = "other")
       /\ Answer(m, t, ConfirmCode(answer))
  /\ UNCHANGED <<sendVars, sesVars, try, cert, cold, ended>>

(* SNS waits no longer; the handler goes on, its answer is not read.       *)
TimeOut(m) ==
  /\ fate[m] = "waiting" /\ fate' = [fate EXCEPT ![m] = AfterAnswer(m, 500)]
  /\ failed' = failed \cup {<<m, try[m]>>}
  /\ UNCHANGED <<sendVars, sesVars, sub, try, hpc, cert, cold, deaf, ended>>

(* The API process is killed: its requests and its cache are gone.         *)
Crash ==
  /\ hpc' = [d \in Messages \X Tries |-> "idle"] /\ cert' = FALSE
  /\ fate' = [m \in Messages |->
                IF fate[m] = "waiting" THEN AfterAnswer(m, 500) ELSE fate[m]]
  /\ failed' = failed \cup {<<m, try[m]>> : m \in {n \in Messages : fate[n] = "waiting"}}
  /\ UNCHANGED <<sendVars, sesVars, sub, try, cold, deaf, ended>>

Serve(m, t) == Look(m, t) \/ Download(m, t) \/ Process(m, t) \/ Confirm(m, t)

Next ==
  \/ Deliveries
  \/ \E e \in Events : Happen(e)
  \/ \E k \in Confirmations : Subscribe(k)
  \/ Unsubscribe
  \/ \E m \in Messages : Arrive(m) \/ TimeOut(m) \/ \E t \in Tries : Serve(m, t)
  \/ Crash

(* A worker's calls return, as every request to SES has a deadline.  The   *)
(* download of the certificate has none, and nothing is assumed of it.     *)
Spec == Init /\ [][Next]_vars
FairSpec ==
  Spec /\ \A w \in Workers : WF_vars(CreateEventDestination(w) /\ Deliveries)
-----------------------------------------------------------------------------
(* Each way of losing a message has only the causes the code gives it.  An *)
(* event is not published: an Ensure ended half way, or another worker's   *)
(* was under way.  It finds no subscription: no confirmation was answered  *)
(* 200 yet, or the next cause.  A confirmation answered 200 left none: it  *)
(* was ended, or SNS refused the confirmation and nobody looked.  SNS took *)
(* a 403: the request came before the process had a certificate.  SNS gave *)
(* up: each of all its deliveries was answered 500, timed out or was cut   *)
(* off by a kill, and no answer 200 was taken for a failure (ses_setup.go  *)
(* 18-58, middleware.go 51-54 and 117-148, handler.go 131-177, 262-273).   *)
LostForCause ==
  /\ \A e \in Events : fate[e] = "unpublished" => torn \/ e \in hasty
  /\ \A e \in Events : fate[e] = "unsubscribed" => e \in early \/ deaf \/ ended
  /\ \A k \in Confirmations :
       fate[k] = "handled" => sub = "confirmed" \/ deaf \/ ended
  /\ \A m \in Messages : fate[m] = "refused" => m \in cold
  /\ \A m \in Messages : fate[m] = "abandoned" => \A t \in Tries : <<m, t>> \in failed

(* A set without its destination gets it, unless the Ensure that is to     *)
(* make it fails or is killed: then the set stays without one, because SES *)
(* accepts from now on and no Send calls Ensure again (ses.go 43-58).      *)
SetCompleted == set /\ ~dest ~> dest \/ torn
=============================================================================
