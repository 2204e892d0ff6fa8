----------------------------- MODULE ConfigSet -----------------------------
(***************************************************************************)
(* SESDelivery.Send (internal/delivery/ses.go) and EnsureConfigurationSet  *)
(* (ses_setup.go) for one client whose configuration set does not exist    *)
(* yet, called by several workers at once; EventPath composes it with the  *)
(* webhook that the set's events are sent to.  SES is external: it takes   *)
(* no request of a call it answers with a missing set, may give that       *)
(* answer for a moment after the set was created, answers AlreadyExists to *)
(* a second creation, and publishes events only for a set that has an      *)
(* event destination.  Any call may fail, with or without its effect, and  *)
(* a worker may be killed between any two of them.                         *)
(*                                                                         *)
(* An operator that nothing uses is a faulty variant of the operator       *)
(* after it, kept to show which property would notice (README.md).         *)
(***************************************************************************)
EXTENDS Naturals, SesErrors

CONSTANTS Workers,
          SdkAttempts   \* requests the AWS SDK makes for one SendRawEmail call

ASSUME ConfigSetAssumption == SdkAttempts \in Nat \ {0}

VARIABLES
  set, dest,  \* SES: the set exists, its event destination exists
  pc,         \* each worker's Send call
  copies,     \* history: copies SES accepted during this Send
  torn        \* history: an Ensure ended between its two creations

local == <<pc, copies>>
sendVars == <<set, dest, local, torn>>

(* send is Send's first call of SendRawEmail, again the one after Ensure.  *)
PC == {"idle", "send", "makeset", "makedest", "again"}

SendInit ==
  /\ set = FALSE /\ dest = FALSE /\ torn = FALSE
  /\ pc = [w \in Workers |-> "idle"] /\ copies = [w \in Workers |-> 0]

Goto(w, label) == pc' = [pc EXCEPT ![w] = label]

Send(w) ==
  /\ pc[w] = "idle" /\ Goto(w, "send") /\ copies' = [copies EXCEPT ![w] = 0]
  /\ UNCHANGED <<set, dest, torn>>

(* SES takes n copies of the message, n requests of one SendRawEmail call. *)
Take(w, n) == copies' = [copies EXCEPT ![w] = @ + n]

EnsuresAnyError(w, e) == ~IsPermanent(e)
(* Only the first refusal for a missing set leads to Ensure and to one     *)
(* more attempt; the error of the second attempt is returned as it is.     *)
Ensures(w, e) == pc[w] = "send" /\ e = "ConfigurationSetNotFoundError"

SendRawEmail(w) ==
  /\ pc[w] \in {"send", "again"}
  /\ \/ /\ set
        /\ \E n \in 1..SdkAttempts : Take(w, n)
        /\ Goto(w, "idle")
     \/ \E e \in SesErrors \ {"Setup"}, n \in 0..SdkAttempts :
          /\ n > 0 => set /\ e \notin {"ConfigurationSetNotFoundError", "BuildError"}
          /\ IsPermanent(e) => n < SdkAttempts
          /\ Take(w, n)
          /\ Goto(w, IF Ensures(w, e) THEN "makeset" ELSE "idle")
  /\ UNCHANGED <<set, dest, torn>>

SetIsEnough(answer) == IF answer = "failed" THEN "idle" ELSE "again"
ExistsMeansReady(answer) ==
  CASE answer = "created" -> "makedest" [] answer = "exists" -> "again"
    [] OTHER -> "idle"
(* AlreadyExists is ignored and the destination registered all the same.   *)
AfterSet(answer) == IF answer = "failed" THEN "idle" ELSE "makedest"

CreateConfigurationSet(w) ==
  /\ pc[w] = "makeset"
  /\ \E answer \in {"created", "exists", "failed"}, done \in BOOLEAN :
       /\ answer = "created" => ~set /\ done
       /\ answer = "exists" => set
       /\ set' = (set \/ done)
       /\ torn' = (torn \/ (answer = "failed" /\ done /\ ~set))
       /\ Goto(w, AfterSet(answer))
  /\ UNCHANGED <<dest, copies>>

(* AlreadyExists is ignored; any other error is returned and ends Send.    *)
AfterDest(answer) == IF answer = "failed" THEN "idle" ELSE "again"

CreateEventDestination(w) ==
  /\ pc[w] = "makedest"
  /\ \E answer \in {"created", "exists", "failed"}, done \in BOOLEAN :
       /\ answer = "created" => ~dest /\ done
       /\ answer = "exists" => dest
       /\ dest' = (dest \/ done)
       /\ torn' = (torn \/ (answer = "failed" /\ ~dest'))
       /\ Goto(w, AfterDest(answer))
  /\ UNCHANGED <<set, copies>>

(* A worker's process is killed; what it asked of SES stays done.          *)
Kill(w) ==
  /\ pc[w] # "idle" /\ Goto(w, "idle")
  /\ torn' = (torn \/ (pc[w] = "makedest" /\ ~dest))
  /\ UNCHANGED <<set, dest, copies>>

SendStep(w) ==
  Send(w) \/ SendRawEmail(w) \/ CreateConfigurationSet(w) \/ CreateEventDestination(w)
  \/ Kill(w)

-----------------------------------------------------------------------------
(* One Send call makes at most one SendRawEmail call that SES may take: it *)
(* repeats only what SES refused for want of the set (ses.go 43-58).       *)
(* Worker counts on it when it lets a Send add SdkAttempts copies.         *)
OneSendsWorth == \A w \in Workers : copies[w] <= SdkAttempts

(* After Ensure returns without an error the set and its destination       *)
(* exist, whichever worker created them and in whatever order the workers  *)
(* interleave (ses_setup.go 13-15).                                        *)
EnsureMeansReady ==
  \A w \in Workers : pc[w] = "again" => set /\ dest
=============================================================================
