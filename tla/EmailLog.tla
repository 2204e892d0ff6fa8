------------------------------ MODULE EmailLog ------------------------------
(***************************************************************************)
(* A row of email_logs and the writes of                                   *)
(* internal/repository/email_log_repo.go.  A row is the status, the time   *)
(* stamps that the statuses own (0 = NULL, otherwise the time of the       *)
(* write) and the SES message id (0 = NULL, otherwise which of the         *)
(* messages SES accepted for this row it names).                           *)
(*                                                                         *)
(* An operator that nothing uses is a faulty variant of the operator       *)
(* after it, kept to show which property would notice (README.md).         *)
(***************************************************************************)
EXTENDS Naturals

(* models.go.  "bounced" is read, never written, by the current code.      *)
Statuses == {"queued", "sent", "delivered", "opened", "clicked", "bounced",
             "hard_bounced", "soft_bounced", "complained", "failed"}

Stamps == {"sent", "delivered", "opened", "clicked", "bounced"}

NewRow == [status |-> "queued", msgId |-> 0,
           at |-> [s \in Stamps |-> 0]]

(* The statuses the CASE of the "opened" branch keeps.                     *)
OpenKeeps == {"clicked", "bounced", "complained"}

(* The status column after UpdateStatus(new): every branch overwrites      *)
(* except "opened".                                                        *)
StatusAfter(old, new) ==
  IF new = "opened" /\ old \in OpenKeeps THEN old ELSE new

(* The column a status stamps; no column for the default branch.           *)
StampOf(new) ==
  CASE new \in {"bounced", "hard_bounced", "soft_bounced"} -> {"bounced"}
    [] new \in Stamps \ {"bounced"} -> {new}
    [] OTHER -> {}

StampAlways(at, new, now) ==
  [s \in Stamps |-> IF s \in StampOf(new) THEN now ELSE at[s]]

(* opened_at and clicked_at go through COALESCE, the others are overwritten *)
StampsAfter(at, new, now) ==
  [s \in Stamps |->
     IF s \in StampOf(new) /\ ~(s \in {"opened", "clicked"} /\ at[s] # 0)
     THEN now ELSE at[s]]

UpdateStatus(row, new, now) ==
  [row EXCEPT !.status = StatusAfter(@, new), !.at = StampsAfter(@, new, now)]

SetAWSMessageID(row, id) == [row EXCEPT !.msgId = id]
=============================================================================
