------------------------------ MODULE JisrClient ------------------------------
(***************************************************************************)
(* Concurrent upstream calls through JisrClient.request                    *)
(* (src/core/jisr/client.ts) and the token cache they share                *)
(* (src/core/jisr/authentication.ts).  Calls interleave at every await: a  *)
(* token is read, sent, rejected, invalidated and replaced in separate     *)
(* steps.  A request may be carried out after its caller has given up.     *)
(***************************************************************************)
EXTENDS RequestOutcome, Naturals

CONSTANTS
  Calls,               \* the request() invocations of one process
  FinanceConfigured,   \* config.financeCredentials !== undefined
  NoToken              \* Map.get of an absent key: undefined

Credentials == {"hr", "finance"}

\* External: a token is named by the call that obtained it, by whether that
\* was its first or its second authentication, and by the key it came from.
Token == [call : Calls, nth : {1, 2}, credentials : Credentials]

ASSUME JisrClientAssumption ==
  /\ FinanceConfigured \in BOOLEAN
  /\ NoToken \notin Token

VARIABLES
  pc,                  \* where each call stands
  useFinance,          \* options.useFinanceCredentials of each call
  token,               \* the local variable `token` of each call
  tokens,              \* TokenCache: #tokens
  lastAuthentication,  \* TokenCache: #lastSuccess is set, and #lastError
  accepted,            \* the tokens Jisr accepts now
  attempts,            \* the two sends of each call, as the network sees them
  written,             \* how often the call's write was carried out
  outcome              \* what request() threw, or "done"

clientVars == <<useFinance, token, tokens, lastAuthentication>>
vars == <<pc, useFinance, token, tokens, lastAuthentication, accepted,
          attempts, written, outcome>>

\* #credentialsFor: the finance key where one is configured and asked for.
CredentialsFor(finance) ==
  IF finance /\ FinanceConfigured THEN "finance" ELSE "hr"

\* Mutant: a cache keyed by the organization alone.
SharedCacheKey(credentials) == "hr"

\* TokenCache #key: one slot per organization and credential fingerprint.
CacheKey(credentials) == credentials

Slot(c) == CacheKey(CredentialsFor(useFinance[c]))

Attempt(c) == IF pc[c] \in {"sent", "authenticating"} THEN 1 ELSE 2

\* Mutants: no second try, another one after a server error, and one more for
\* every rejection.
NeverReauthenticate(status, attempt) == FALSE

RetryServerErrors(status, attempt) ==
  status \in {"unauthorized", "server_error"} /\ attempt = 1

RetryUntilAccepted(status, attempt) == status = "unauthorized"

\* Exactly one re-authentication, and only for a rejected token.
MayReauthenticate(status, attempt) == status = "unauthorized" /\ attempt = 1

\* Mutant: whatever authenticate throws is recorded.
RecordAnyFailure(code) == [lastAuthentication EXCEPT !.error = code]

\* recordFailure, called only for an answer from Jisr that was understood: a
\* fetch or a JSON parse that fails leaves the status as it was.
RecordFailure(code) ==
  IF code = "raw" THEN lastAuthentication
  ELSE [lastAuthentication EXCEPT !.error = code]

Pcs == {"idle", "authenticating", "sent", "reauthenticating", "resent",
        "done"}

-----------------------------------------------------------------------------
Init ==
  /\ pc = [c \in Calls |-> "idle"]
  /\ useFinance \in [Calls -> BOOLEAN]
  /\ token = [c \in Calls |-> NoToken]
  /\ tokens = [k \in Credentials |-> NoToken]
  /\ lastAuthentication = [succeeded |-> FALSE, error |-> "null"]
  /\ accepted = {}
  /\ attempts = [c \in Calls |-> [a \in {1, 2} |-> "unsent"]]
  /\ written = [c \in Calls |-> 0]
  /\ outcome = [c \in Calls |-> "pending"]

Send(c, t, attempt) ==
  /\ token' = [token EXCEPT ![c] = t]
  /\ attempts' = [attempts EXCEPT ![c][attempt] = "travelling"]
  /\ pc' = [pc EXCEPT ![c] = IF attempt = 1 THEN "sent" ELSE "resent"]

Finish(c, code) ==
  /\ pc' = [pc EXCEPT ![c] = "done"]
  /\ outcome' = [outcome EXCEPT ![c] = code]

\* request up to its first await: a cached token is sent at once, otherwise
\* getToken authenticates.
Begin(c) ==
  /\ pc[c] = "idle"
  /\ IF tokens[Slot(c)] # NoToken
     THEN Send(c, tokens[Slot(c)], 1)
     ELSE /\ pc' = [pc EXCEPT ![c] = "authenticating"]
          /\ UNCHANGED <<token, attempts>>
  /\ UNCHANGED <<useFinance, tokens, lastAuthentication, accepted, written,
                 outcome>>

\* authenticate succeeds: the token is cached, and the request goes out.
Authenticated(c) ==
  /\ pc[c] \in {"authenticating", "reauthenticating"}
  /\ LET t == [call |-> c, nth |-> Attempt(c),
               credentials |-> CredentialsFor(useFinance[c])]
     IN  /\ tokens' = [tokens EXCEPT ![Slot(c)] = t]
         /\ lastAuthentication' = [succeeded |-> TRUE, error |-> "null"]
         /\ accepted' = accepted \cup {t}
         /\ Send(c, t, Attempt(c))
  /\ UNCHANGED <<useFinance, written, outcome>>

\* authenticate throws, the first time or the second.
AuthenticationFails(c) ==
  /\ pc[c] \in {"authenticating", "reauthenticating"}
  /\ \E code \in AuthenticationFailures :
       /\ lastAuthentication' = RecordFailure(code)
       /\ Finish(c, code)
  /\ UNCHANGED <<useFinance, token, tokens, accepted, attempts, written>>

\* A response arrives.  The first 401 invalidates the cached token, whoever
\* put it there, and authenticates again; any other answer ends the call.
Receive(c) ==
  /\ pc[c] \in {"sent", "resent"}
  /\ LET status == attempts[c][Attempt(c)]
     IN  /\ status \in Statuses
         /\ IF MayReauthenticate(status, Attempt(c))
            THEN /\ tokens' = [tokens EXCEPT ![Slot(c)] = NoToken]
                 /\ pc' = [pc EXCEPT ![c] = "reauthenticating"]
                 /\ UNCHANGED outcome
            ELSE /\ IF status = "ok"
                    THEN \E code \in {"done", "JISR_RESPONSE_INVALID", "raw"} :
                           Finish(c, code)
                    ELSE Finish(c, MapUpstreamStatus(status))
                 /\ UNCHANGED tokens
  /\ UNCHANGED <<useFinance, token, lastAuthentication, accepted, attempts,
                 written>>

\* Mutant: no timeout on the second send.
FirstUnreachable(c) ==
  /\ pc[c] = "sent" /\ Finish(c, "JISR_TEMPORARILY_UNAVAILABLE")
  /\ UNCHANGED <<clientVars, accepted, attempts, written>>

\* fetch rejects: a timeout, or no connection.  The first send is caught, the
\* second is not.
Unreachable(c) ==
  /\ \/ pc[c] = "sent" /\ Finish(c, "JISR_TEMPORARILY_UNAVAILABLE")
     \/ pc[c] = "resent" /\ Finish(c, "raw")
  /\ UNCHANGED <<clientVars, accepted, attempts, written>>

\* External: Jisr handles a request, now or long after the client gave up.
JisrHandles(c, a, status) ==
  /\ attempts[c][a] = "travelling"
  /\ token[c] \notin accepted => status = "unauthorized"
  /\ attempts' = [attempts EXCEPT ![c][a] = status]
  /\ \/ /\ MayHaveWritten(status)
        /\ written' = [written EXCEPT ![c] = @ + 1]
     \/ /\ MayHaveRefused(status)
        /\ UNCHANGED written
  /\ UNCHANGED <<clientVars, pc, accepted, outcome>>

\* External: Jisr stops accepting a token, which it may do at any time.
Revoke(t) ==
  /\ t \in accepted
  /\ accepted' = accepted \ {t}
  /\ UNCHANGED <<clientVars, pc, attempts, written, outcome>>

Next ==
  \/ \E c \in Calls :
       \/ Begin(c) \/ Authenticated(c) \/ AuthenticationFails(c)
       \/ Receive(c) \/ Unreachable(c)
  \/ \E c \in Calls, a \in {1, 2}, s \in Statuses : JisrHandles(c, a, s)
  \/ \E t \in accepted : Revoke(t)

\* Every fetch settles: AbortSignal.timeout ends a request, and the runtime's
\* own limits end an authentication.  Nothing obliges Jisr.
Settles(c) ==
  Authenticated(c) \/ AuthenticationFails(c) \/ Receive(c) \/ Unreachable(c)

Spec == Init /\ [][Next]_vars

Fair(c) == WF_vars(Settles(c))

FairSpec == Spec /\ \A c \in Calls : Fair(c)

-----------------------------------------------------------------------------
TypeOK ==
  /\ pc \in [Calls -> Pcs]
  /\ useFinance \in [Calls -> BOOLEAN]
  /\ token \in [Calls -> Token \cup {NoToken}]
  /\ tokens \in [Credentials -> Token \cup {NoToken}]
  /\ lastAuthentication \in
       [succeeded : BOOLEAN,
        error : {"null", "JISR_AUTHENTICATION_FAILED",
                 "JISR_RESPONSE_INVALID"}]
  /\ accepted \subseteq Token
  /\ attempts \in
       [Calls -> [{1, 2} -> Statuses \cup {"unsent", "travelling"}]]
  /\ written \in [Calls -> Nat]
  /\ outcome \in [Calls -> ClientCodes \cup {"pending"}]

\* One request() carries its write out at most once, whatever is lost, late or
\* rejected: the second send happens only after an answer that wrote nothing.
AtMostOneWrite == \A c \in Calls : written[c] <= 1

\* What the caller of a write is told is true, and stays true when a request
\* is carried out late: a definite refusal means the write has not happened
\* and no request of the call can still make it happen; success means it has.
DefiniteAnswersTrue ==
  \A c \in Calls :
    LET told == SubmitGuarded(outcome[c])
    IN  /\ told = "done" => written[c] = 1
        /\ told \notin {"pending", "done", "WRITE_OUTCOME_UNKNOWN", "raw"}
           => /\ written[c] = 0
              /\ \A a \in {1, 2} : attempts[c][a] # "travelling"

\* The call's request as the services see it.
Request(c) ==
  IF attempts[c][2] = "unsent"
  THEN IF attempts[c][1] = "unauthorized" THEN "rejected" ELSE attempts[c][1]
  ELSE IF attempts[c][2] = "travelling" THEN "retrying" ELSE attempts[c][2]

\* Where the commit of a write service stands that awaits the call.
Place(c) ==
  CASE outcome[c] = "pending" -> "submitting"
    [] outcome[c] = "done" -> "rereading"
    [] OTHER -> "answered"

NoneYet == [stage |-> "submit", code |-> "none", raw |-> FALSE]

\* What that commit then answers.
AnswerOf(c) ==
  LET told == SubmitGuarded(outcome[c])
  IN  IF outcome[c] \in {"pending", "done"} THEN NoneYet
      ELSE [stage |-> "submit", code |-> AnswerCode(told), raw |-> told = "raw"]

Service == INSTANCE Submission WITH
  Commits <- Calls, NoAnswer <- NoneYet, Replies <- Statuses,
  ReadFailures <- {}, at <- [c \in Calls |-> Place(c)],
  reply <- [c \in Calls |-> Request(c)],
  answer <- [c \in Calls |-> AnswerOf(c)]

\* Calls that interleave on one token cache are, each of them, the submission
\* that the write services are modelled with: at most one resend, only after
\* a rejection, an end that fits what the network has done so far, and late
\* answers that change the record and nothing that was said.
ImplementsSubmission == Service!Spec

\* Calls that interleave on one cache never send a token of the other key:
\* the HR key's requests carry no finance token, and the reverse.
OwnKeyOnly ==
  \A c \in Calls :
    token[c] # NoToken =>
      token[c].credentials = CredentialsFor(useFinance[c])

\* A call is answered "unauthorized" only over a token it obtained itself
\* after its first rejection: a stale token, its own or one that another call
\* put back into the cache, never surfaces as a lack of permission.
StaleTokenNeverSurfaces ==
  \A c \in Calls :
    (/\ outcome[c] = "JISR_PERMISSION_DENIED"
     /\ "forbidden" \notin {attempts[c][1], attempts[c][2]})
    => /\ attempts[c][1] = "unauthorized"
       /\ token[c].call = c /\ token[c].nth = 2

Awaiting(c) == pc[c] \notin {"idle", "done"}

MaySettle(c) == Awaiting(c) => ENABLED <<Settles(c)>>_vars

\* No await of request() is left without an exit: at each of them something
\* that the runtime is bound to do can end it, whatever Jisr withholds and
\* whatever the other calls do to the cache.
CanSettle == \A c \in Calls : MaySettle(c)

\* Every call that begins is answered.
EveryCallAnswered ==
  \A c \in Calls : pc[c] # "idle" ~> pc[c] = "done"

-----------------------------------------------------------------------------
\* outcome.ts: "A timeout or unparseable response AFTER submission means the
\* write may have landed.  That is reported as exactly that".
LandedIsReported ==
  \A c \in Calls :
    (outcome[c] # "pending" /\ written[c] > 0)
    => SubmitGuarded(outcome[c]) \in {"done", "WRITE_OUTCOME_UNKNOWN"}
=============================================================================
