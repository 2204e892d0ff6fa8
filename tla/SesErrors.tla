----------------------------- MODULE SesErrors ------------------------------
(***************************************************************************)
(* The error classes of internal/delivery/types.go, and classifyError of   *)
(* ses.go, which maps the AWS error of one SendRawEmail call to a class.   *)
(*                                                                         *)
(* An operator that nothing uses is a faulty variant of the operator       *)
(* after it, kept to show which property would notice (README.md).         *)
(***************************************************************************)

(* What SendRawEmail may answer.  "NoAnswer" is every error that is not an *)
(* API error (network, cancelled context).                                 *)
AwsErrors == {"MessageRejected", "MailFromDomainNotVerified",
              "ConfigurationSetDoesNotExist", "AccountSendingPaused",
              "Throttling", "RequestLimitExceeded", "OtherApiError", "NoAnswer"}

Classify(aws) ==
  CASE aws = "MessageRejected" -> "MessageRejectedError"
    [] aws = "MailFromDomainNotVerified" -> "DomainNotVerifiedError"
    [] aws = "ConfigurationSetDoesNotExist" -> "ConfigurationSetNotFoundError"
    [] aws = "AccountSendingPaused" -> "AccountSuspendedError"
    [] aws \in {"Throttling", "RequestLimitExceeded"} -> "TransientError"
    [] OTHER -> "DeliveryError"

(* What Send may return.  "BuildError" is the DeliveryError{Retryable:       *)
(* false} of a MIME message that cannot be built; "Setup" is the plain      *)
(* error of EnsureConfigurationSet, which is no SESError.                   *)
SesErrors == {Classify(aws) : aws \in AwsErrors} \cup {"BuildError", "Setup"}

AlwaysRetry(e) == FALSE

(* errors.As(err, &sesErr) && !sesErr.IsRetryable() of the worker: "Setup"  *)
(* fails the type test, so the worker retries it.                           *)
IsPermanent(e) ==
  e \in {"MessageRejectedError", "DomainNotVerifiedError",
         "AccountSuspendedError", "BuildError"}
=============================================================================
