---------------------------- MODULE RequestOutcome ----------------------------
(***************************************************************************)
(* How an upstream request can end and what its caller is told: the error  *)
(* codes of core/errors.ts, the mapping of core/jisr/errors.ts and the     *)
(* wrapper every write goes through, core/writes/outcome.ts.               *)
(***************************************************************************)

\* The status lines the mapping tells apart: 2xx, 401, 403, 404, 400 or 422,
\* 429, 500 and above, anything else.
Statuses == {"ok", "unauthorized", "forbidden", "not_found", "unprocessable",
             "rate_limited", "server_error", "unexpected"}

\* Mutant: a server error reported like a refused parameter.
MapServerErrorAsRefusal(status) ==
  CASE status \in {"unauthorized", "forbidden"} -> "JISR_PERMISSION_DENIED"
    [] status = "not_found"     -> "RECORD_NOT_FOUND"
    [] status \in {"unprocessable", "server_error"} -> "INVALID_FILTER"
    [] status = "rate_limited"  -> "JISR_RATE_LIMITED"
    [] OTHER                    -> "JISR_RESPONSE_INVALID"

\* mapUpstreamStatus: the code of a response that is not ok.
MapUpstreamStatus(status) ==
  CASE status \in {"unauthorized", "forbidden"} -> "JISR_PERMISSION_DENIED"
    [] status = "not_found"     -> "RECORD_NOT_FOUND"
    [] status = "unprocessable" -> "INVALID_FILTER"
    [] status = "rate_limited"  -> "JISR_RATE_LIMITED"
    [] status = "server_error"  -> "JISR_TEMPORARILY_UNAVAILABLE"
    [] OTHER                    -> "JISR_RESPONSE_INVALID"

\* What client.request can throw, or "done" for a response it returns.  "raw"
\* is an error that is no JisrMcpError: a rejected fetch or a body that is not
\* JSON, where the client does not catch it.
ClientCodes ==
  {"done", "raw", "JISR_AUTHENTICATION_FAILED"} \cup
  {MapUpstreamStatus(s) : s \in Statuses \ {"ok"}}

\* What authenticate throws: its fetch is rejected, or Jisr's answer is a
\* refusal, has another shape or is not JSON.
AuthenticationFailures ==
  {"JISR_AUTHENTICATION_FAILED", "JISR_RESPONSE_INVALID", "raw"}

\* The write request of one call, as the network sees it: "unsent",
\* "travelling", "rejected" by a 401 that request() answers with another
\* authentication, "retrying" when it has been sent again, or the status Jisr
\* answered with.
UnderWay == {"travelling", "retrying"}

Requests == {"unsent", "rejected"} \cup UnderWay \cup Statuses

\* What an answer of Jisr makes of a request that is under way.
Replied(request, status) ==
  IF request = "travelling" /\ status = "unauthorized" THEN "rejected"
  ELSE status

\* How request() can end, by what the network has done with its request.  An
\* answer may be lost on the way back: the first send is then caught, the
\* second is not.
Ends(request) ==
  CASE request = "unsent" -> AuthenticationFailures
    [] request = "rejected" ->
         AuthenticationFailures \cup {"JISR_TEMPORARILY_UNAVAILABLE"}
    [] request = "travelling" -> {"JISR_TEMPORARILY_UNAVAILABLE"}
    [] request = "retrying" -> {"raw"}
    [] request = "ok" -> {"done", "JISR_RESPONSE_INVALID",
                          "JISR_TEMPORARILY_UNAVAILABLE", "raw"}
    [] OTHER -> {MapUpstreamStatus(request), "JISR_TEMPORARILY_UNAVAILABLE",
                 "raw"}

\* Mutant: every error passes through.
SubmitUnguarded(code) == code

AmbiguousUpstreamCodes ==
  {"JISR_TEMPORARILY_UNAVAILABLE", "JISR_RESPONSE_INVALID"}

\* submitGuarded: an ambiguous code becomes WRITE_OUTCOME_UNKNOWN, any other
\* error passes through, a raw one included.
SubmitGuarded(code) ==
  IF code \in AmbiguousUpstreamCodes THEN "WRITE_OUTCOME_UNKNOWN" ELSE code

\* invokeTool: the code of the answer to the caller.  A raw error is reported
\* under a code of its own choosing.
AnswerCode(code) == IF code = "raw" THEN "JISR_RESPONSE_INVALID" ELSE code

\* The codes a caller is told it may retry.
Retryable == {"JISR_RATE_LIMITED", "JISR_TEMPORARILY_UNAVAILABLE"}

\* External: whether Jisr may have carried out a write it answered with this
\* status.  A refusal (4xx) writes nothing; a server error may come too late.
MayHaveWritten(status) == status \in {"ok", "server_error", "unexpected"}

MayHaveRefused(status) == status # "ok"
=============================================================================
