--------------------------- MODULE WriteCallProofs ----------------------------
(***************************************************************************)
(* Proofs about what the commit calls of all write services share, for any *)
(* number of them: the steps of WriteCall keep an answer that says that    *)
(* nothing was written true.  The proofs about the services cite one lemma *)
(* for each of these steps.                                                *)
(***************************************************************************)
EXTENDS WriteCall, TLAPS

\* A request that has left belongs to a commit that got as far as sending it.
SentIsPast ==
  \A c \in Commits :
    reply[c] # "unsent"
    => at[c] \in {"submitting", "rereading", "answered", "dead"}

\* Jisr has not carried the request out, and will not.
Unwritten(c) ==
  \/ reply[c] \in {"unsent", "rejected"}
  \/ reply[c] \in Statuses /\ ~MayHaveWritten(reply[c])

RefusalsAreTrue == \A c \in Commits : SaysNothingWritten(c) => Unwritten(c)

\* The record is looked for only once Jisr has accepted the write.
RereadIsAccepted ==
  \A c \in Commits :
    (\/ at[c] = "rereading"
     \/ answer[c] # NoAnswer /\ answer[c].stage = "reread")
    => reply[c] = "ok"

CallsInv == CallsTypeOK /\ SentIsPast /\ RefusalsAreTrue /\ RereadIsAccepted

Stages == {"consume", "warning", "revalidate", "guard", "submit", "reread"}

-----------------------------------------------------------------------------
LEMMA ClientCodesAre ==
  ClientCodes = {"done", "raw", "JISR_AUTHENTICATION_FAILED",
                 "JISR_PERMISSION_DENIED", "RECORD_NOT_FOUND",
                 "INVALID_FILTER", "JISR_RATE_LIMITED",
                 "JISR_TEMPORARILY_UNAVAILABLE", "JISR_RESPONSE_INVALID"}
<1>1. {MapUpstreamStatus(s) : s \in Statuses \ {"ok"}} =
        {"JISR_PERMISSION_DENIED", "RECORD_NOT_FOUND", "INVALID_FILTER",
         "JISR_RATE_LIMITED", "JISR_TEMPORARILY_UNAVAILABLE",
         "JISR_RESPONSE_INVALID"}
  <2>1. /\ MapUpstreamStatus("unauthorized") = "JISR_PERMISSION_DENIED"
        /\ MapUpstreamStatus("forbidden") = "JISR_PERMISSION_DENIED"
        /\ MapUpstreamStatus("not_found") = "RECORD_NOT_FOUND"
        /\ MapUpstreamStatus("unprocessable") = "INVALID_FILTER"
        /\ MapUpstreamStatus("rate_limited") = "JISR_RATE_LIMITED"
        /\ MapUpstreamStatus("server_error") = "JISR_TEMPORARILY_UNAVAILABLE"
        /\ MapUpstreamStatus("unexpected") = "JISR_RESPONSE_INVALID"
    BY DEF MapUpstreamStatus
  <2>2. Statuses \ {"ok"} =
          {"unauthorized", "forbidden", "not_found", "unprocessable",
           "rate_limited", "server_error", "unexpected"}
    BY DEF Statuses
  <2>3. QED
    BY <2>1, <2>2
<1>2. QED
  BY <1>1 DEF ClientCodes

\* What a code becomes on its way to the caller.
LEMMA CodesAreAnswers ==
  \A code \in AnswerCodes :
    /\ AnswerCode(code) \in AnswerCodes
    /\ SubmitGuarded(code) \in AnswerCodes
BY ClientCodesAre DEF AnswerCodes, AnswerCode, SubmitGuarded

\* The answers that are no errors are none of the client's codes.
LEMMA ClientCodesApart ==
  \A code \in ClientCodes :
    /\ AnswerCode(code) \notin {"confirmed_gone", "still_visible", "created",
                                "not_visible"}
    /\ AnswerCode(SubmitGuarded(code))
         \notin {"confirmed_gone", "still_visible", "created", "not_visible"}
BY ClientCodesAre DEF AnswerCode, SubmitGuarded, AmbiguousUpstreamCodes

LEMMA EndsAreCodes ==
  \A request \in Requests : Ends(request) \subseteq ClientCodes
BY ClientCodesAre
DEF Ends, AuthenticationFailures, MapUpstreamStatus, Requests, UnderWay,
    Statuses

\* What submitGuarded lets through as a refusal is one.
LEMMA GuardedRefusalIsTrue ==
  ASSUME NEW request \in Requests, NEW code \in Ends(request), code # "done",
         AnswerCode(SubmitGuarded(code))
           \notin {"WRITE_OUTCOME_UNKNOWN", "JISR_RESPONSE_INVALID"}
  PROVE  \/ request \in {"unsent", "rejected"}
         \/ request \in Statuses /\ ~MayHaveWritten(request)
BY DEF Ends, AuthenticationFailures, MapUpstreamStatus, AnswerCode,
       SubmitGuarded, Requests, UnderWay, Statuses, AmbiguousUpstreamCodes,
       MayHaveWritten

-----------------------------------------------------------------------------
LEMMA IdleHolds == CallsIdle => CallsInv
BY WriteCallAssumption
DEF Requests, CallsIdle, CallsInv, CallsTypeOK, SentIsPast, RefusalsAreTrue,
    RereadIsAccepted, Places, SaysNothingWritten, Unwritten

\* An answer that, if it says that nothing was written, is true.
LEMMA AnswerKeeps ==
  ASSUME CallsInv, NEW c \in Commits, NEW stage \in Stages,
         NEW code \in AnswerCodes,
         Answer(c, stage, code),
         stage = "reread" => reply[c] = "ok",
         \/ stage = "reread"
         \/ AnswerCode(code) \in {"WRITE_OUTCOME_UNKNOWN",
                                  "JISR_RESPONSE_INVALID"}
         \/ Unwritten(c)
  PROVE  CallsInv'
<1> DEFINE new == [stage |-> stage, code |-> AnswerCode(code),
                   raw |-> code = "raw"]
<1>1. /\ at' = [at EXCEPT ![c] = "answered"]
      /\ answer' = [answer EXCEPT ![c] = new]
      /\ reply' = reply
  BY DEF Answer
<1>2. new \in Answers
  BY CodesAreAnswers DEF Stages, Answers
<1>3. new # NoAnswer
  BY <1>2, WriteCallAssumption
<1> HIDE DEF new
<1>4. CallsTypeOK'
  BY <1>1, <1>2, <1>3 DEF CallsInv, CallsTypeOK, Places
<1>5. SentIsPast' /\ RereadIsAccepted'
  <2>1. SentIsPast'
    BY <1>1 DEF CallsInv, CallsTypeOK, SentIsPast
  <2>2. new.stage = stage
    BY DEF new
  <2>3. RereadIsAccepted'
    BY <1>1, <2>2 DEF CallsInv, CallsTypeOK, RereadIsAccepted
  <2>4. QED
    BY <2>1, <2>3
<1>6. RefusalsAreTrue'
  <2>1. SUFFICES ASSUME NEW d \in Commits, SaysNothingWritten(d)'
                 PROVE  Unwritten(d)'
    BY DEF RefusalsAreTrue
  <2>2. Unwritten(d)' <=> Unwritten(d)
    BY <1>1 DEF Unwritten
  <2>3. CASE d # c
    <3>1. answer'[d] = answer[d]
      BY <1>1, <2>3 DEF CallsInv, CallsTypeOK
    <3>2. SaysNothingWritten(d)
      BY <2>1, <3>1 DEF SaysNothingWritten
    <3>3. QED
      BY <2>2, <3>2 DEF CallsInv, RefusalsAreTrue
  <2>4. CASE d = c
    <3>1. answer'[c] = new
      BY <1>1 DEF CallsInv, CallsTypeOK
    <3>2. stage # "reread" /\ AnswerCode(code) \notin {"WRITE_OUTCOME_UNKNOWN",
                                                     "JISR_RESPONSE_INVALID"}
      BY <2>1, <2>4, <3>1 DEF SaysNothingWritten, new
    <3>3. QED
      BY <2>2, <2>4, <3>2
  <2>5. QED
    BY <2>3, <2>4
<1>7. QED
  BY <1>4, <1>5, <1>6 DEF CallsInv

LEMMA GotoKeeps ==
  ASSUME CallsInv, NEW c \in Commits, NEW place \in Places,
         Goto(c, place), at[c] # "answered", place # "answered",
         reply[c] # "unsent" => place \in {"submitting", "rereading"},
         place = "rereading" => reply[c] = "ok"
  PROVE  CallsInv'
<1>1. CallsTypeOK'
  BY DEF CallsInv, CallsTypeOK, Goto
<1>2. SentIsPast' /\ RefusalsAreTrue' /\ RereadIsAccepted'
  BY DEF CallsInv, CallsTypeOK, SentIsPast, RefusalsAreTrue, Goto,
         RereadIsAccepted, SaysNothingWritten, Unwritten
<1>3. QED
  BY <1>1, <1>2 DEF CallsInv

\* What a request is on its way, and what becomes of it.
LEMMA SendsFacts ==
  ASSUME CallsTypeOK, NEW c \in Commits, Sends(c)
  PROVE  /\ reply[c] \notin Statuses
         /\ reply'[c] \in UnderWay
         /\ \A d \in Commits \ {c} : reply'[d] = reply[d]
         /\ UNCHANGED <<at, answer>>
BY DEF CallsTypeOK, Sends, Requests, UnderWay, Statuses

LEMMA RepliesFacts ==
  ASSUME CallsTypeOK, NEW c \in Commits, NEW status \in Replies,
         JisrReplies(c, status)
  PROVE  /\ reply[c] \in UnderWay /\ reply[c] \notin Statuses
         /\ reply[c] # "unsent" /\ reply'[c] # "unsent"
         /\ MayHaveWritten(status) => reply'[c] = status /\ status \in Statuses
         /\ \A d \in Commits \ {c} : reply'[d] = reply[d]
         /\ UNCHANGED <<at, answer>>
BY WriteCallAssumption
DEF CallsTypeOK, JisrReplies, Replied, MayHaveWritten, UnderWay, Statuses

LEMMA SendsKeeps ==
  ASSUME CallsInv, NEW c \in Commits, Sends(c)
  PROVE  CallsInv'
<1>1. /\ \E request \in UnderWay : reply' = [reply EXCEPT ![c] = request]
      /\ at' = at /\ answer' = answer
      /\ at[c] = "submitting"
  BY DEF Sends, UnderWay
<1>2. CallsTypeOK' /\ SentIsPast' /\ RereadIsAccepted'
  BY <1>1
  DEF CallsInv, CallsTypeOK, SentIsPast, RereadIsAccepted, Requests
<1>3. ~SaysNothingWritten(c)
  BY <1>1 DEF CallsInv, CallsTypeOK, SaysNothingWritten
<1>4. RefusalsAreTrue'
  BY <1>1, <1>3 DEF CallsInv, CallsTypeOK, RefusalsAreTrue, Unwritten,
                    SaysNothingWritten
<1>5. QED
  BY <1>2, <1>4 DEF CallsInv

LEMMA SubmitEndsKeeps ==
  ASSUME CallsInv, NEW c \in Commits, SubmitEnds(c)
  PROVE  CallsInv'
<1>1. PICK code \in Ends(reply[c]) :
        IF code = "done" THEN Goto(c, "rereading")
        ELSE Answer(c, "submit", SubmitGuarded(code))
  BY DEF SubmitEnds
<1>2. at[c] = "submitting" /\ reply[c] \in Requests
  BY DEF SubmitEnds, CallsInv, CallsTypeOK
<1>3. CASE code = "done"
  <2>1. reply[c] = "ok"
    BY <1>1, <1>2, <1>3
    DEF Ends, AuthenticationFailures, MapUpstreamStatus, Requests, UnderWay,
        Statuses
  <2>2. QED
    BY <1>1, <1>2, <1>3, <2>1, GotoKeeps DEF Places
<1>4. CASE code # "done"
  <2>1. code \in AnswerCodes /\ SubmitGuarded(code) \in AnswerCodes
    BY <1>1, <1>2, EndsAreCodes, CodesAreAnswers DEF AnswerCodes
  <2>2. \/ AnswerCode(SubmitGuarded(code))
             \in {"WRITE_OUTCOME_UNKNOWN", "JISR_RESPONSE_INVALID"}
        \/ Unwritten(c)
    BY <1>2, <1>4, GuardedRefusalIsTrue DEF Unwritten
  <2>3. /\ Answer(c, "submit", SubmitGuarded(code))
        /\ "submit" \in Stages /\ "submit" # "reread"
    BY <1>1, <1>4 DEF Stages
  <2>4. QED
    BY <2>1, <2>2, <2>3, AnswerKeeps
<1>5. QED
  BY <1>3, <1>4

LEMMA RereadFailsKeeps ==
  ASSUME CallsInv, NEW c \in Commits, RereadFails(c)
  PROVE  CallsInv'
<1>1. PICK code \in ReadFailures : Answer(c, "reread", code)
  BY DEF RereadFails
<1>2. code \in AnswerCodes /\ "reread" \in Stages
  BY WriteCallAssumption DEF Stages, AnswerCodes
<1>3. reply[c] = "ok"
  BY DEF RereadFails, CallsInv, RereadIsAccepted
<1>4. QED
  BY <1>1, <1>2, <1>3, AnswerKeeps

LEMMA RepliesKeep ==
  ASSUME CallsInv, NEW c \in Commits, NEW status \in Replies,
         JisrReplies(c, status)
  PROVE  CallsInv'
<1> DEFINE request == Replied(reply[c], status)
<1>1. /\ reply' = [reply EXCEPT ![c] = request]
      /\ at' = at /\ answer' = answer
      /\ reply[c] \in UnderWay
      /\ request \in Statuses \cup {"rejected"}
  BY WriteCallAssumption DEF JisrReplies, Replied
<1> HIDE DEF request
<1>2. CallsTypeOK' /\ SentIsPast' /\ RereadIsAccepted'
  BY <1>1
  DEF CallsInv, CallsTypeOK, SentIsPast, RereadIsAccepted, Requests, UnderWay
<1>3. ~SaysNothingWritten(c)
  BY <1>1 DEF CallsInv, RefusalsAreTrue, Unwritten, UnderWay, Statuses
<1>4. RefusalsAreTrue'
  BY <1>1, <1>3 DEF CallsInv, CallsTypeOK, RefusalsAreTrue, Unwritten,
                    SaysNothingWritten
<1>5. QED
  BY <1>2, <1>4 DEF CallsInv

LEMMA DieKeeps == CallsInv /\ CallsDie => CallsInv'
<1>1. SUFFICES ASSUME CallsInv, CallsDie PROVE CallsInv'
  OBVIOUS
<1>2. CallsTypeOK'
  BY <1>1 DEF CallsInv, CallsTypeOK, CallsDie, Places
<1>3. SentIsPast' /\ RefusalsAreTrue' /\ RereadIsAccepted'
  BY <1>1 DEF CallsInv, CallsTypeOK, SentIsPast, RefusalsAreTrue, CallsDie,
              RereadIsAccepted, SaysNothingWritten, Unwritten
<1>4. QED
  BY <1>2, <1>3 DEF CallsInv

LEMMA StutterKeeps == CallsInv /\ UNCHANGED callVars => CallsInv'
BY DEF CallsInv, CallsTypeOK, SentIsPast, RefusalsAreTrue, callVars,
       RereadIsAccepted, SaysNothingWritten, Unwritten

-----------------------------------------------------------------------------
(* Every commit is answered.                                               *)

\* How far a commit is: where it stands, and during the submission what has
\* become of its request.
Progress(c) ==
  CASE at[c] # "submitting" -> at[c]
    [] at[c] = "submitting" /\ reply[c] \in Statuses -> "settled"
    [] OTHER -> reply[c]

\* The order of the awaits: where a step can take a commit from each.
After(progress) ==
  CASE progress = "revalidating" -> {"revalidated", "answered", "dead"}
    [] progress = "revalidated" -> {"unsent", "answered", "dead"}
    [] progress = "unsent" -> {"travelling", "rereading", "answered", "dead"}
    [] progress = "travelling" ->
         {"rejected", "settled", "rereading", "answered", "dead"}
    [] progress = "rejected" -> {"retrying", "rereading", "answered", "dead"}
    [] progress = "retrying" -> {"settled", "rereading", "answered", "dead"}
    [] progress = "settled" -> {"rereading", "answered", "dead"}
    [] OTHER -> {"answered", "dead"}

AwaitPlaces == {"revalidating", "revalidated", "unsent", "travelling",
                "rejected", "retrying", "settled", "rereading"}

LEMMA ProgressPlaces ==
  ASSUME CallsTypeOK, NEW c \in Commits, Awaiting(c)
  PROVE  Progress(c) \in AwaitPlaces
BY DEF CallsTypeOK, Awaiting, Progress, AwaitPlaces, Places, Requests, UnderWay

\* A commit that is answered is at the end of every await's order.
LEMMA AnswerProgress ==
  ASSUME CallsTypeOK, NEW c \in Commits, NEW stage, NEW code,
         Answer(c, stage, code)
  PROVE  /\ Progress(c)' = "answered"
         /\ \A d \in Commits \ {c} : Progress(d)' = Progress(d)
BY DEF CallsTypeOK, Answer, Progress

LEMMA GotoProgress ==
  ASSUME CallsTypeOK, NEW c \in Commits, NEW place, Goto(c, place),
         reply[c] \notin Statuses \/ place # "submitting"
  PROVE  /\ Progress(c)' = IF place = "submitting" THEN reply[c] ELSE place
         /\ \A d \in Commits \ {c} : Progress(d)' = Progress(d)
BY DEF CallsTypeOK, Goto, Progress

\* A step of a commit takes it to the next await, or to its answer, and moves
\* no other commit.
Onward(c) ==
  /\ Awaiting(c)
  /\ Progress(c)' \in After(Progress(c))
  /\ \A d \in Commits \ {c} : Progress(d)' = Progress(d)

LEMMA SendsProgress ==
  ASSUME CallsTypeOK, NEW c \in Commits, Sends(c)
  PROVE  Onward(c)
BY DEF Sends, CallsTypeOK, Onward, Progress, After, Awaiting, UnderWay, Statuses

LEMMA SubmitProgress ==
  ASSUME CallsTypeOK, NEW c \in Commits, SubmitEnds(c)
  PROVE  Onward(c)
<1>1. at[c] = "submitting"
  BY DEF SubmitEnds
<1>2. "rereading" \in After(Progress(c)) /\ "answered" \in After(Progress(c))
  BY <1>1 DEF CallsTypeOK, Progress, After, Requests, UnderWay
<1>3. CASE Goto(c, "rereading")
  BY <1>1, <1>2, <1>3, GotoProgress DEF Onward, Awaiting
<1>4. CASE \E stage, code : Answer(c, stage, code)
  BY <1>1, <1>2, <1>4, AnswerProgress DEF Onward, Awaiting
<1>5. QED
  BY <1>3, <1>4 DEF SubmitEnds

LEMMA RepliesProgress ==
  ASSUME CallsTypeOK, NEW d \in Commits, NEW status \in Replies,
         JisrReplies(d, status), NEW c \in Commits
  PROVE  Progress(c)' = Progress(c) \/ Progress(c)' \in After(Progress(c))
BY WriteCallAssumption
DEF JisrReplies, Replied, CallsTypeOK, Progress, After, UnderWay, Statuses

LEMMA DieProgress ==
  ASSUME CallsTypeOK, CallsDie, NEW c \in Commits
  PROVE  Progress(c)' = Progress(c) \/ Progress(c)' \in After(Progress(c))
<1>1. \/ at'[c] = at[c] /\ reply'[c] = reply[c]
      \/ at'[c] = "dead" /\ at[c] \notin {"idle", "answered"}
  BY DEF CallsDie
<1>2. at[c] \notin {"idle", "answered", "dead"}
      => "dead" \in After(Progress(c))
  BY ProgressPlaces DEF Awaiting, After, AwaitPlaces
<1>3. QED
  BY <1>1, <1>2 DEF Progress

Leaves(c, progress) ==
  Progress(c) = progress ~> Progress(c) \in After(progress)

LeavesEveryAwait(c) ==
  /\ Leaves(c, "revalidating") /\ Leaves(c, "revalidated")
  /\ Leaves(c, "unsent") /\ Leaves(c, "travelling")
  /\ Leaves(c, "rejected") /\ Leaves(c, "retrying")
  /\ Leaves(c, "settled") /\ Leaves(c, "rereading")

\* The awaits come in After's order, and it ends.
LEMMA AwaitsEnd ==
  ASSUME NEW c \in Commits
  PROVE  []CallsInv /\ LeavesEveryAwait(c)
         => (at[c] # "idle" ~> at[c] \in {"answered", "dead"})
<1> DEFINE On(progress) == Progress(c) = progress
           Past(progress) == Progress(c) \in After(progress)
           Ended == at[c] \in {"answered", "dead"}
<1>1. CallsInv /\ at[c] # "idle" =>
        \/ On("revalidating") \/ On("revalidated") \/ On("unsent")
        \/ On("travelling") \/ On("rejected") \/ On("retrying")
        \/ On("settled") \/ On("rereading") \/ Ended
  BY ProgressPlaces DEF CallsInv, Awaiting, AwaitPlaces
<1>2. CallsInv /\ (On("answered") \/ On("dead")) => Ended
  BY DEF CallsInv, CallsTypeOK, Progress, Statuses, Requests, UnderWay
<1>3. /\ Past("revalidating") => \/ On("revalidated") \/ On("answered")
                                 \/ On("dead")
      /\ Past("revalidated") => On("unsent") \/ On("answered") \/ On("dead")
      /\ Past("unsent") => \/ On("travelling") \/ On("rereading")
                           \/ On("answered") \/ On("dead")
      /\ Past("travelling") => \/ On("rejected") \/ On("settled")
                               \/ On("rereading") \/ On("answered")
                               \/ On("dead")
      /\ Past("rejected") => \/ On("retrying") \/ On("rereading")
                             \/ On("answered") \/ On("dead")
      /\ Past("retrying") => \/ On("settled") \/ On("rereading")
                             \/ On("answered") \/ On("dead")
      /\ Past("settled") => On("rereading") \/ On("answered") \/ On("dead")
      /\ Past("rereading") => On("answered") \/ On("dead")
  BY DEF After
<1>4. QED
  BY <1>1, <1>2, <1>3, PTL DEF LeavesEveryAwait, Leaves

-----------------------------------------------------------------------------
(* The same steps as ControlledWrite has them.                             *)

Requested == [c \in Commits |-> RequestOf(c)]

Told == [c \in Commits |-> ToldOf(c)]

\* A commit that answers has told nothing before, says nothing untrue and
\* sends nothing after.
LEMMA AnswerTells ==
  ASSUME CallsInv, CallsInv', NEW c \in Commits, NEW stage, NEW code,
         Answer(c, stage, code), at[c] \notin {"answered", "dead"}
  PROVE  /\ ToldOf(c) = "nothing"
         /\ ToldOf(c)' = IF SaysNothingWritten(c)' THEN "unwritten"
                         ELSE IF stage = "reread" THEN "handled"
                         ELSE "unknown"
         /\ Told' = [Told EXCEPT ![c] = ToldOf(c)']
         /\ Requested' = [Requested EXCEPT
                            ![c] = IF @ = "unsent" THEN "settled" ELSE @]
         /\ SaysNothingWritten(c)' => RequestOf(c) # "open"
<1> DEFINE new == [stage |-> stage, code |-> AnswerCode(code),
                   raw |-> code = "raw"]
<1>1. /\ at' = [at EXCEPT ![c] = "answered"]
      /\ answer' = [answer EXCEPT ![c] = new]
      /\ reply' = reply
  BY DEF Answer
<1>2. /\ at'[c] = "answered" /\ answer'[c] = new /\ answer[c] = NoAnswer
      /\ answer'[c] # NoAnswer
      /\ \A d \in Commits \ {c} : at'[d] = at[d] /\ answer'[d] = answer[d]
  BY <1>1 DEF CallsInv, CallsTypeOK
<1>3. new.stage = stage
  OBVIOUS
<1> HIDE DEF new
<1>4. /\ ToldOf(c) = "nothing"
      /\ ToldOf(c)' = IF SaysNothingWritten(c)' THEN "unwritten"
                      ELSE IF stage = "reread" THEN "handled" ELSE "unknown"
  BY <1>2, <1>3 DEF ToldOf
<1>5. \A d \in Commits \ {c} :
        RequestOf(d)' = RequestOf(d) /\ ToldOf(d)' = ToldOf(d)
  BY <1>1, <1>2 DEF RequestOf, ToldOf, SaysNothingWritten
<1>6. RequestOf(c)' = IF RequestOf(c) = "unsent" THEN "settled"
                      ELSE RequestOf(c)
  BY <1>1, <1>2 DEF RequestOf
<1>7. SaysNothingWritten(c)' => RequestOf(c) # "open"
  BY <1>1
  DEF CallsInv, RefusalsAreTrue, Unwritten, RequestOf, UnderWay, Statuses
<1>8. QED
  BY <1>4, <1>5, <1>6, <1>7 DEF Requested, Told

\* A request leaves a commit that has told nothing and has none under way.
LEMMA SendsOpens ==
  ASSUME CallsTypeOK, NEW c \in Commits, Sends(c)
  PROVE  /\ RequestOf(c) = "unsent" /\ ToldOf(c) = "nothing"
         /\ Requested' = [Requested EXCEPT ![c] = "open"] /\ Told' = Told
<1>1. /\ at[c] = "submitting" /\ answer[c] = NoAnswer
      /\ reply[c] \in {"unsent", "rejected"}
  BY DEF Sends, CallsTypeOK
<1>2. RequestOf(c) = "unsent" /\ ToldOf(c) = "nothing"
  BY <1>1 DEF RequestOf, ToldOf, UnderWay, Statuses
<1>3. /\ RequestOf(c)' = "open"
      /\ \A d \in Commits \ {c} : RequestOf(d)' = RequestOf(d)
      /\ \A d \in Commits : ToldOf(d)' = ToldOf(d)
  BY SendsFacts DEF RequestOf, ToldOf, SaysNothingWritten
<1>4. QED
  BY <1>2, <1>3 DEF Requested, Told

\* A commit that only goes on looks the same.
LEMMA GotoUnseen ==
  ASSUME CallsTypeOK, NEW c \in Commits, NEW place, Goto(c, place),
         at[c] \notin {"answered", "dead"},
         place \notin {"answered", "dead"}
  PROVE  Requested' = Requested /\ Told' = Told
<1>1. \A d \in Commits : RequestOf(d)' = RequestOf(d) /\ ToldOf(d)' = ToldOf(d)
  BY DEF CallsTypeOK, Goto, RequestOf, ToldOf, SaysNothingWritten
<1>2. QED
  BY <1>1 DEF Requested, Told

\* Jisr settles a request, or hands it back for another token.
LEMMA RepliesSettle ==
  ASSUME CallsTypeOK, NEW c \in Commits, NEW status \in Replies,
         JisrReplies(c, status)
  PROVE  /\ RequestOf(c) = "open" /\ Told' = Told
         /\ \/ Requested' = [Requested EXCEPT ![c] = "settled"]
            \/ /\ Requested' = [Requested EXCEPT ![c] = "unsent"]
               /\ ToldOf(c) = "nothing" /\ ~MayHaveWritten(status)
<1>1. /\ reply[c] \in UnderWay /\ reply'[c] = Replied(reply[c], status)
      /\ \A d \in Commits \ {c} : reply'[d] = reply[d]
      /\ UNCHANGED <<at, answer>>
  BY DEF JisrReplies, CallsTypeOK
<1>2. RequestOf(c) = "open"
  BY <1>1 DEF RequestOf
<1>3. /\ \A d \in Commits \ {c} : RequestOf(d)' = RequestOf(d)
      /\ \A d \in Commits : ToldOf(d)' = ToldOf(d)
  BY <1>1 DEF RequestOf, ToldOf, SaysNothingWritten
<1>4. \/ RequestOf(c)' = "settled"
      \/ /\ RequestOf(c)' = "unsent"
         /\ ToldOf(c) = "nothing" /\ ~MayHaveWritten(status)
  <2>1. status \in Statuses
    BY WriteCallAssumption
  <2>2. CASE Replied(reply[c], status) = status
    BY <1>1, <2>1, <2>2 DEF RequestOf, UnderWay, Statuses
  <2>3. CASE /\ Replied(reply[c], status) = "rejected"
             /\ status = "unauthorized"
    BY <1>1, <2>3
    DEF RequestOf, ToldOf, CallsTypeOK, MayHaveWritten, UnderWay, Statuses
  <2>4. QED
    BY <2>2, <2>3 DEF Replied
<1>5. QED
  BY <1>2, <1>3, <1>4 DEF Requested, Told

\* With the process ends what was not sent.
LEMMA DieStops ==
  ASSUME CallsTypeOK, CallsDie
  PROVE  /\ Requested' = [c \in Commits |->
                            IF RequestOf(c) = "unsent" /\ at[c] # "idle"
                            THEN "settled" ELSE RequestOf(c)]
         /\ Told' = Told
<1>1. \A c \in Commits :
        RequestOf(c)' = IF RequestOf(c) = "unsent" /\ at[c] # "idle"
                        THEN "settled" ELSE RequestOf(c)
  BY DEF CallsDie, RequestOf
<1>2. \A c \in Commits : ToldOf(c)' = ToldOf(c)
  BY DEF CallsDie, ToldOf, SaysNothingWritten
<1>3. QED
  BY <1>1, <1>2 DEF Requested, Told
=============================================================================
