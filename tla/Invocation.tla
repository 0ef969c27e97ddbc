------------------------------ MODULE Invocation ------------------------------
(***************************************************************************)
(* The calls of a process as invokeTool makes them                         *)
(* (src/adapters/shared.ts): the creations of RecordCreate and other calls *)
(* beside them, the audit record of each call, what redaction leaves of it *)
(* (src/observability/audit.ts, redaction.ts) and the counters             *)
(* (src/observability/metrics.ts).                                         *)
(*                                                                         *)
(* A handler that ends and the record of its end are one step: nothing is  *)
(* awaited in between.  A text matters by how many pieces of it have the   *)
(* shape of a secret, all of one shape.                                    *)
(***************************************************************************)
EXTENDS RecordCreate, FiniteSets

CONSTANTS
  ReasonOf,        \* the reason given with each prepare of a punch
  None             \* an absent field

\* The writeAudit context of a record.
Context == [phase : {"prepare", "commit"}, target : Codes, reason : Nat]

ASSUME InvocationAssumption ==
  /\ ReasonOf \in [Nonces -> Nat]
  /\ Commits \cap Nonces = {}
  /\ None \notin AnswerCodes \cup {"TOOL_NOT_ENABLED"} \cup Context

VARIABLES
  other,           \* the calls that create nothing: how each ended
  trail,           \* the audit records on stderr, by process
  metrics          \* the counters of this process

invocationVars == <<vars, other, trail, metrics>>

-----------------------------------------------------------------------------
(* Audit records.                                                          *)

\* The part of an audit record that depends on how the call ended, with the
\* context that a write attaches to its success.
Ending(code, writeAudit) ==
  CASE code = "done" ->
         [decision |-> "allow", outcome |-> "allowed", errorCode |-> None,
          audit |-> writeAudit]
    [] code = "raw" ->
         [decision |-> "allow", outcome |-> "failed",
          errorCode |-> AnswerCode(code), audit |-> None]
    [] OTHER ->
         [decision |-> "deny", outcome |-> "refused", errorCode |-> code,
          audit |-> None]

\* buildAuditRecord.  The call stands for its correlation id.
AuditRecord(call, tool_, code, writeAudit) ==
  [call |-> call, process |-> epoch, tool |-> tool_,
   end |-> Ending(code, writeAudit)]

\* Mutant: a pattern that finds nothing.
RedactNothing(text) == text

\* redactString: replace without the g flag takes the first piece of a shape.
RedactString(text) == IF text > 0 THEN text - 1 ELSE 0

\* assertNoSecrets, on the line that is left.
AssertNoSecrets(record) ==
  record.end.audit # None => record.end.audit.reason = 0

Redact(record) ==
  IF record.end.audit = None THEN record
  ELSE [record EXCEPT !.end.audit.reason = RedactString(@)]

\* write of createAuditSink: a line that is still unsafe is dropped.
Emitted(record) == {line \in {Redact(record)} : AssertNoSecrets(line)}

\* The writeAudit of the two services: a creation of an employee has no reason.
WriteAudit(phase, n, submission) ==
  [phase |-> phase, target |-> submission.code,
   reason |-> IF submission.operation = "createAttendanceLogs"
              THEN ReasonOf[n] ELSE 0]

-----------------------------------------------------------------------------
(* Counters.                                                               *)

NoCalls == [allowed |-> 0, refused |-> 0, failed |-> 0,
            authorizationDenials |-> 0, upstreamErrors |-> 0,
            upstreamRateLimited |-> 0]

\* Mutant: the limit is counted before the outcome is known.
CountedAsLimited(m, end) ==
  [m EXCEPT ![end.outcome] = @ + 1,
            !.authorizationDenials =
              IF end.outcome = "refused" THEN @ + 1 ELSE @,
            !.upstreamErrors = IF end.errorCode # None THEN @ + 1 ELSE @,
            !.upstreamRateLimited =
              IF end.outcome = "refused" THEN @ + 1 ELSE @]

\* recordToolCall, and for an error recordDenial and recordUpstreamError.
Counted(m, end) ==
  [m EXCEPT ![end.outcome] = @ + 1,
            !.authorizationDenials =
              IF end.outcome = "refused" THEN @ + 1 ELSE @,
            !.upstreamErrors = IF end.errorCode # None THEN @ + 1 ELSE @,
            !.upstreamRateLimited =
              IF end.errorCode = "JISR_RATE_LIMITED" THEN @ + 1 ELSE @]

-----------------------------------------------------------------------------
(* Calls.                                                                  *)

\* What is written and counted of a call that ends.
Recorded(record) ==
  /\ trail' = trail \cup Emitted(record)
  /\ metrics' = Counted(metrics, record.end)

\* The end of a commit: the two answers that are no errors, or the error.
CommitRecord(c) ==
  LET code == CASE answer'[c].raw -> "raw"
                [] answer'[c].code \in {"created", "not_visible"} -> "done"
                [] OTHER -> answer'[c].code
  IN  AuditRecord(c, <<tool'[c], "commit">>, code,
        IF code = "done"
        THEN WriteAudit("commit", reference[c], stashed[c].submission)
        ELSE None)

PrepareRecord(n) ==
  LET submission == ToSubmission(shown[n].input)
  IN  AuditRecord(n, <<submission.operation, "prepare">>, "done",
                  WriteAudit("prepare", n, submission))

\* A step of the creations; where it ends a call, invokeTool records the end.
\* A new process has a trail of its own and counts from zero.
CreationStep ==
  /\ Next
  /\ \A n \in Nonces : shown'[n] # shown[n] => other[n] = None
  /\ LET answered == {c \in Commits : answer'[c] # answer[c]}
         issuedNow == {r.nonce : r \in issued' \ issued}
     IN  CASE answered # {} -> \E c \in answered : Recorded(CommitRecord(c))
           [] issuedNow # {} -> \E n \in issuedNow : Recorded(PrepareRecord(n))
           [] OTHER ->
                /\ trail' = trail
                /\ metrics' = IF epoch' # epoch THEN NoCalls ELSE metrics
  /\ UNCHANGED other

\* Another call, of a read or of a prepare that is refused.  Bound: it takes
\* the place of a prepare.
OtherCall(n, code) ==
  /\ shown[n] = NotShown
  /\ other[n] = None
  /\ other' = [other EXCEPT ![n] = code]
  /\ Recorded(AuditRecord(n, <<"other", "call">>, code, None))
  /\ UNCHANGED vars

\* A call of a tool that is not registered is answered and leaves no record.
UnknownTool(n) ==
  /\ shown[n] = NotShown
  /\ other[n] = None
  /\ other' = [other EXCEPT ![n] = "TOOL_NOT_ENABLED"]
  /\ UNCHANGED <<vars, trail, metrics>>

InvocationInit ==
  /\ Init
  /\ other = [n \in Nonces |-> None]
  /\ trail = {}
  /\ metrics = NoCalls

InvocationNext ==
  \/ CreationStep
  \/ \E n \in Nonces :
       \/ \E code \in {"done", "raw"} \cup ReadFailures : OtherCall(n, code)
       \/ UnknownTool(n)

InvocationSpec == InvocationInit /\ [][InvocationNext]_invocationVars

-----------------------------------------------------------------------------
Lines == [call : Commits \cup Nonces, process : 0..MaxEpoch,
          tool : (Operations \X {"prepare", "commit"})
                 \cup {<<"other", "call">>},
          end : [decision : {"allow", "deny"},
                 outcome : {"allowed", "refused", "failed"},
                 errorCode : AnswerCodes \cup {None},
                 audit : {None} \cup Context]]

InvocationTypeOK ==
  /\ TypeOK
  /\ other \in [Nonces -> {None, "done", "raw", "TOOL_NOT_ENABLED"}
                           \cup ReadFailures]
  /\ \A line \in trail : line \in Lines
  /\ metrics \in [DOMAIN NoCalls -> Nat]

\* The calls of registered tools that were answered.
Answered ==
  {c \in Commits : answer[c] # NoAnswer}
  \cup {r.nonce : r \in issued}
  \cup {n \in Nonces : other[n] \notin {None, "TOOL_NOT_ENABLED"}}

\* A reason that is not safe after one piece has been redacted goes into the
\* records of its prepare and of the commit that succeeds.
HasUnsafeReason(n) ==
  ReasonOf[n] > 1 /\ shown[n].input.operation = "createAttendanceLogs"

Unsafe(call) ==
  IF call \in Commits
  THEN /\ answer[call].stage = "reread"
       /\ answer[call].code \in {"created", "not_visible"}
       /\ HasUnsafeReason(reference[call])
  ELSE other[call] = None /\ HasUnsafeReason(call)

\* FR-038, FR-029: every answered call of a registered tool has its one line,
\* but for those whose reason is unsafe after redaction, which have none; and
\* there is no line of a call that was not answered.
AuditedUnlessUnsafe ==
  /\ \A call \in Answered :
       Unsafe(call) <=> ~\E line \in trail : line.call = call
  /\ \A line, twin \in trail :
       /\ line.call \in Answered
       /\ line.call = twin.call => line = twin

\* The denials that say nothing about the write: its outcome is unknown, or a
\* read may have failed with the same code after it.
MayHideAWrite(code) ==
  code \in {"WRITE_OUTCOME_UNKNOWN", "JISR_RESPONSE_INVALID"} \cup ReadFailures

\* FR-010, SC-007, as far as the trail keeps them.  Two readings of a commit's
\* line are safe: a success means that Jisr accepted the target it names, and a
\* refusal by a code of which no read can fail, that nothing was written and
\* nothing will be.  No other denial tells the two apart.
TrailIsTrue ==
  \A line \in trail :
    line.call \in Commits =>
      /\ line.end.outcome = "allowed" =>
           /\ reply[line.call] = "ok"
           /\ line.end.audit.target = shown[reference[line.call]].input.code
      /\ (line.end.outcome = "refused" /\ ~MayHideAWrite(line.end.errorCode))
           => ~Written(line.call) /\ reply[line.call] \notin UnderWay

\* FR-006, FR-010: read by itself, the trail of a process shows at least as
\* many prepares of a tool and a target as commits that succeeded.
CommitsFollowPrepares ==
  \A process \in 0..MaxEpoch, operation \in Operations, target \in Codes :
    LET allowed(phase) ==
          {line \in trail : /\ line.process = process
                            /\ line.tool = <<operation, phase>>
                            /\ line.end.outcome = "allowed"
                            /\ line.end.audit.target = target}
    IN  Cardinality(allowed("commit")) <= Cardinality(allowed("prepare"))

\* FR-040: the counters of a process are those of its trail.  Of the lines
\* that were dropped they are the only trace.
CountsAgree ==
  LET mine == {line \in trail : line.process = epoch}
      count(outcome) == Cardinality({l \in mine : l.end.outcome = outcome})
  IN  /\ metrics.refused = count("refused")
      /\ metrics.failed = count("failed")
      /\ metrics.authorizationDenials = count("refused")
      /\ metrics.upstreamErrors = count("refused") + count("failed")
      /\ metrics.upstreamRateLimited =
           Cardinality({l \in mine : l.end.errorCode = "JISR_RATE_LIMITED"})
      /\ metrics.allowed >= count("allowed")
      /\ metrics.allowed > count("allowed") =>
           \E call \in Answered : Unsafe(call)
=============================================================================
