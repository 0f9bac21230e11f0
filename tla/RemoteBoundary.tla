--------------------------- MODULE RemoteBoundary ---------------------------
(***************************************************************************)
(* How a call of the remote side that has ended becomes what the worker     *)
(* records of it (src/uploader/biliup_adapter.rs).  A call logs in first    *)
(* and then goes through its stages; a reply says at which of them it ended *)
(* and how.  The worker retries a failure only if it is known that nothing  *)
(* happened, so what matters is at which stage an error leaves that open.   *)
(***************************************************************************)

Confirmed == [kind |-> "Confirmed", scope |-> "None"]
OutcomeUnknown == [kind |-> "Ambiguous", scope |-> "None"]
RetryableKnownFailure(scope) == [kind |-> "Retryable", scope |-> scope]
BlockedKnownFailure(scope) == [kind |-> "Blocked", scope |-> scope]

Reply(stage, problems) == [stage : {stage}, problem : problems]

-----------------------------------------------------------------------------
(* Errors of an HTTP request: it could not be built, there was no           *)
(* connection, it broke off later, or its answer could not be read.         *)
HttpProblem == {"Builder", "Connect", "BrokenOff", "Undecodable"}

(* authenticate: the credential document, the account it belongs to, the    *)
(* renewal of its token, and its replacement on the disk.                   *)
LoginProblem ==
    HttpProblem \cup
    {"Document", "OtherAccount", "NotLoggedIn", "NotPersisted", "PermanentStatus",
     "TransientStatus", "UnknownCode", "NoAccountData", "RenewalFailed", "RenewalRateLimit"}

(* A login leaves nothing behind: all that may pass is retried.             *)
LoginRetryable ==
    {"Connect", "BrokenOff", "Undecodable", "TransientStatus", "UnknownCode",
     "NoAccountData", "RenewalRateLimit"}

LoginOutcome(problem) ==
    IF problem \in LoginRetryable THEN RetryableKnownFailure("Target")
    ELSE BlockedKnownFailure("Target")

ProbeOutcome(problem) ==
    IF problem \in HttpProblem \cup {"RateLimit"} THEN RetryableKnownFailure("Target")
    ELSE BlockedKnownFailure("Target")

(* pre_upload and the submission: the request may have been accepted.       *)
CallProblem == HttpProblem \cup {"RateLimit", "Recaptcha", "Rejected"}

CallOutcome_UndecodableRetried(problem) ==
    CASE problem \in {"Connect", "RateLimit", "Undecodable"} -> RetryableKnownFailure("Target")
      [] problem \in {"Builder", "Recaptcha"} -> BlockedKnownFailure("Target")
      [] problem = "Rejected"                 -> BlockedKnownFailure("Item")
      [] problem = "BrokenOff"                -> OutcomeUnknown

CallOutcome(problem) ==
    CASE problem \in {"Connect", "RateLimit"} -> RetryableKnownFailure("Target")
      [] problem \in {"Builder", "Recaptcha"} -> BlockedKnownFailure("Target")
      [] problem = "Rejected"                 -> BlockedKnownFailure("Item")
      [] problem \in {"BrokenOff", "Undecodable"} -> OutcomeUnknown

-----------------------------------------------------------------------------
(* upload_segment *)

UploadReply ==
    Reply("Login", LoginProblem)
    \cup Reply("File", {"Unreadable"})
    \cup Reply("Probe", HttpProblem \cup {"RateLimit", "Rejected"})
    \cup Reply("Line", {"Unsupported"})
    \cup Reply("PreUpload", CallProblem)
    \cup Reply("Transfer", {"BrokenOff", "None"})

UploadOutcome(reply) ==
    CASE reply.stage = "Login"     -> LoginOutcome(reply.problem)
      [] reply.stage = "File"      -> BlockedKnownFailure("Item")
      [] reply.stage = "Probe"     -> ProbeOutcome(reply.problem)
      [] reply.stage = "Line"      -> BlockedKnownFailure("Target")
      [] reply.stage = "PreUpload" -> CallOutcome(reply.problem)
      [] reply.stage = "Transfer"  ->
            IF reply.problem = "None" THEN Confirmed ELSE OutcomeUnknown

UploadAnswer == {UploadOutcome(reply) : reply \in UploadReply}

-----------------------------------------------------------------------------
(* submit. A response with code 0 names the video it created, or does not.  *)

SubmissionReply ==
    Reply("Login", LoginProblem)
    \cup Reply("Cookie", {"NoToken"})
    \cup Reply("Submit", CallProblem)
    \cup Reply("Response", {"ErrorCode", "NoIdentifier", "None"})

ResponseOutcome(problem) ==
    CASE problem = "ErrorCode"    -> BlockedKnownFailure("Item")
      [] problem = "NoIdentifier" -> OutcomeUnknown
      [] problem = "None"         -> Confirmed

SubmissionOutcome(reply) ==
    CASE reply.stage = "Login"    -> LoginOutcome(reply.problem)
      [] reply.stage = "Cookie"   -> BlockedKnownFailure("Target")
      [] reply.stage = "Submit"   -> CallOutcome(reply.problem)
      [] reply.stage = "Response" -> ResponseOutcome(reply.problem)

(* The remote side: the replies after which it has created the video, and   *)
(* those after which it has or has not. Otherwise it has not.               *)
Creates == Reply("Response", {"None"})
MayCreate == Reply("Submit", {"BrokenOff", "Undecodable"}) \cup Reply("Response", {"NoIdentifier"})

SubmissionAnswer(happened) ==
    {SubmissionOutcome(reply) :
        reply \in {r \in SubmissionReply :
                      IF happened THEN r \in Creates \cup MayCreate ELSE r \notin Creates}}
=============================================================================
