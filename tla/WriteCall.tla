------------------------------ MODULE WriteCall -------------------------------
(***************************************************************************)
(* What the commit calls of the three write services have in common from   *)
(* the duplicate guard on: one guarded submission, one re-read, one answer *)
(* (src/core/services/*-write-service.ts, payroll-delete-service.ts).      *)
(* The services extend this module with what comes before.                 *)
(***************************************************************************)
EXTENDS RequestOutcome

CONSTANTS
  Commits,             \* the commit calls
  NoAnswer,
  Replies,             \* the statuses Jisr answers a write with
  ReadFailures         \* the ways a read can fail

\* The codes that a commit is answered with, and the answers that are none.
AnswerCodes ==
  ClientCodes \cup
  {"WRITE_CONFIRMATION_REQUIRED", "WRITE_PREPARATION_EXPIRED",
   "ORGANIZATION_MISMATCH", "WRITE_TARGET_CHANGED",
   "DUPLICATE_WRITE_SUSPECTED", "WRITE_OUTCOME_UNKNOWN",
   "created", "not_visible", "confirmed_gone", "still_visible"}

\* An answer names the step that gave it: two steps may share a code, and the
\* message tells them apart.  The caller does not see which errors were raw.
Answers == [stage : {"consume", "warning", "revalidate", "guard", "submit",
                     "reread"},
            code : AnswerCodes, raw : BOOLEAN]

ASSUME WriteCallAssumption ==
  /\ Replies \subseteq Statuses
  /\ ReadFailures \subseteq ClientCodes \ {"done"}
  /\ NoAnswer \notin Answers

VARIABLES
  at,                  \* where each commit stands
  reply,               \* its write request, as the network sees it
  answer               \* what it answered

callVars == <<at, reply, answer>>

Places == {"idle", "revalidating", "revalidated", "submitting", "rereading",
           "answered", "dead"}

CallsIdle ==
  /\ at = [c \in Commits |-> "idle"]
  /\ reply = [c \in Commits |-> "unsent"]
  /\ answer = [c \in Commits |-> NoAnswer]

Answer(c, stage, code) ==
  /\ at' = [at EXCEPT ![c] = "answered"]
  /\ answer' = [answer EXCEPT ![c] = [stage |-> stage,
                                      code |-> AnswerCode(code),
                                      raw |-> code = "raw"]]
  /\ UNCHANGED reply

Goto(c, place) ==
  /\ at' = [at EXCEPT ![c] = place]
  /\ UNCHANGED <<reply, answer>>

\* The request leaves, once there is a token for it, and once more with
\* another token when Jisr has rejected the first.
Sends(c) ==
  /\ at[c] = "submitting"
  /\ \/ reply[c] = "unsent" /\ reply' = [reply EXCEPT ![c] = "travelling"]
     \/ reply[c] = "rejected" /\ reply' = [reply EXCEPT ![c] = "retrying"]
  /\ UNCHANGED <<at, answer>>

\* Mutant: a submission that waits for Jisr however long it takes.
SubmitWaits(c) ==
  /\ at[c] = "submitting"
  /\ reply[c] \notin UnderWay
  /\ \E code \in Ends(reply[c]) :
       IF code = "done" THEN Goto(c, "rereading")
       ELSE Answer(c, "submit", SubmitGuarded(code))

\* submitGuarded returns, or throws what the commit answers.
SubmitEnds(c) ==
  /\ at[c] = "submitting"
  /\ \E code \in Ends(reply[c]) :
       IF code = "done" THEN Goto(c, "rereading")
       ELSE Answer(c, "submit", SubmitGuarded(code))

\* The re-read after the write is outside submitGuarded: when it fails, the
\* commit answers with the client's error.
RereadFails(c) ==
  /\ at[c] = "rereading"
  /\ \E code \in ReadFailures : Answer(c, "reread", code)

\* External: Jisr answers the request, perhaps after the commit was answered.
JisrReplies(c, status) ==
  /\ reply[c] \in UnderWay
  /\ reply' = [reply EXCEPT ![c] = Replied(@, status)]
  /\ UNCHANGED <<at, answer>>

\* The process ends: what is awaited is never answered, what was sent travels
\* on.
CallsDie ==
  /\ at' = [c \in Commits |-> IF at[c] \in {"idle", "answered"}
                               THEN at[c] ELSE "dead"]
  /\ UNCHANGED <<reply, answer>>

CallsTypeOK ==
  /\ at \in [Commits -> Places]
  /\ reply \in [Commits -> Requests]
  /\ answer \in [Commits -> Answers \cup {NoAnswer}]
  /\ \A c \in Commits : (at[c] = "answered") <=> (answer[c] # NoAnswer)

\* The answers whose words say that nothing was written: every refusal before
\* the submission, and what submitGuarded lets through.
SaysNothingWritten(c) ==
  /\ answer[c] # NoAnswer
  /\ answer[c].stage # "reread"
  /\ answer[c].code \notin {"WRITE_OUTCOME_UNKNOWN", "JISR_RESPONSE_INVALID"}

Awaiting(c) == at[c] \notin {"idle", "answered", "dead"}

\* A commit that begins is answered, unless its process ends first.
EveryCommitAnswered ==
  \A c \in Commits : at[c] # "idle" ~> at[c] \in {"answered", "dead"}

-----------------------------------------------------------------------------
\* How the commits of a service look from outside it, for ControlledWrite: what
\* has become of c's request, and what c has told its caller.
RequestOf(c) ==
  IF reply[c] \in UnderWay THEN "open"
  ELSE IF reply[c] \in Statuses \/ at[c] \in {"answered", "dead"}
  THEN "settled"
  ELSE "unsent"

ToldOf(c) ==
  IF answer[c] = NoAnswer THEN "nothing"
  ELSE IF SaysNothingWritten(c) THEN "unwritten"
  ELSE IF answer[c].stage = "reread" THEN "handled"
  ELSE "unknown"
=============================================================================
