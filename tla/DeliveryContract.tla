-------------------------- MODULE DeliveryContract --------------------------
(***************************************************************************)
(* What the queue and the worker pool promise about one payload of a job,  *)
(* without lists, workers or calls: it is in one phase at a time, is taken *)
(* at most MaxRetries times, reaches the dead letters only after the last  *)
(* attempt, and never comes back once it is dead or gone.  A push that is  *)
(* repeated makes a second payload, which starts with the attempts of the  *)
(* first.                                                                  *)
(***************************************************************************)
EXTENDS Naturals

CONSTANTS Payloads, MaxRetries

VARIABLES phase, attempts

Phases == {"new", "waiting", "working", "dead", "gone"}

Init == /\ phase = [j \in Payloads |-> "new"]
        /\ attempts = [j \in Payloads |-> 0]

Move(j, from, to) == /\ phase[j] = from
                     /\ phase' = [phase EXCEPT ![j] = to]

Submit(j) == Move(j, "new", "waiting") /\ UNCHANGED attempts

Take(j) == /\ attempts[j] < MaxRetries
           /\ Move(j, "waiting", "working")
           /\ attempts' = [attempts EXCEPT ![j] = @ + 1]

(* A failed attempt gives the job back, unless it was the last one.        *)
GiveBack(j) == /\ attempts[j] < MaxRetries
               /\ Move(j, "working", "waiting") /\ UNCHANGED attempts

Bury(j) == /\ attempts[j] = MaxRetries
           /\ Move(j, "working", "dead") /\ UNCHANGED attempts

(* A payload given back or buried whose push is repeated: k is the second. *)
Split(j, k) == /\ phase[j] = "working" /\ phase[k] = "new"
               /\ LET to == IF attempts[j] < MaxRetries THEN "waiting" ELSE "dead" IN
                    phase' = [phase EXCEPT ![j] = to, ![k] = "working"]
               /\ attempts' = [attempts EXCEPT ![k] = attempts[j]]

(* Jobs leave: delivered, given up, or lost, several at once in a crash.   *)
Leave(S) == /\ S # {} /\ \A j \in S : phase[j] \in {"waiting", "working"}
            /\ phase' = [j \in Payloads |-> IF j \in S THEN "gone" ELSE phase[j]]
            /\ UNCHANGED attempts

Next == \/ \E j \in Payloads : Submit(j) \/ Take(j) \/ GiveBack(j) \/ Bury(j)
        \/ \E j, k \in Payloads : Split(j, k)
        \/ \E S \in SUBSET Payloads : Leave(S)

Spec == Init /\ [][Next]_<<phase, attempts>>
=============================================================================
