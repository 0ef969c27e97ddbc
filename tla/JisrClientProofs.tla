--------------------------- MODULE JisrClientProofs ---------------------------
(***************************************************************************)
(* Proofs about concurrent upstream calls, for every set of calls and      *)
(* whether or not a finance key is configured.                             *)
(***************************************************************************)
EXTENDS JisrClient, TLAPS

\* A cache slot holds a token of its own key.
CacheOwn ==
  \A k \in Credentials : tokens[k] # NoToken => tokens[k].credentials = k

\* Where a call stands fixes what its sends are doing: a second send exists
\* only after a first that Jisr rejected, and with a token of the call's own.
SendsOrdered(c) ==
  /\ pc[c] \in {"idle", "authenticating"} => attempts[c][1] = "unsent"
  /\ pc[c] = "sent" => attempts[c][1] # "unsent"
  /\ pc[c] \in {"idle", "authenticating", "sent", "reauthenticating"}
       => attempts[c][2] = "unsent"
  /\ pc[c] \in {"reauthenticating", "resent"}
       => attempts[c][1] = "unauthorized"
  /\ pc[c] = "resent" => attempts[c][2] # "unsent"
  /\ attempts[c][2] # "unsent" =>
       /\ attempts[c][1] = "unauthorized"
       /\ token[c] \in Token
       /\ token[c].call = c
       /\ token[c].nth = 2

\* What the last send is known to have done to the record.
WrittenFits(c) ==
  /\ written[c] \in {0, 1}
  /\ Request(c) = "ok" => written[c] = 1
  /\ Request(c) \notin {"ok", "server_error", "unexpected"} => written[c] = 0

\* A call ends only in the ways that RequestOutcome allows for what the
\* network did, and however late the network acts, the end goes on to fit.
OutcomeFits(c) ==
  /\ (outcome[c] = "pending") <=> (pc[c] # "done")
  /\ outcome[c] # "pending" => outcome[c] \in Ends(Request(c))

CInv ==
  /\ TypeOK
  /\ CacheOwn
  /\ OwnKeyOnly
  /\ \A c \in Calls : SendsOrdered(c) /\ WrittenFits(c) /\ OutcomeFits(c)

-----------------------------------------------------------------------------
\* Every status can be lost on the way back, and every send can fail raw.
LEMMA EndsFacts ==
  /\ Ends("unsent") =
       {"JISR_AUTHENTICATION_FAILED", "JISR_RESPONSE_INVALID", "raw"}
  /\ Ends("rejected") =
       {"JISR_AUTHENTICATION_FAILED", "JISR_RESPONSE_INVALID", "raw",
        "JISR_TEMPORARILY_UNAVAILABLE"}
  /\ Ends("travelling") = {"JISR_TEMPORARILY_UNAVAILABLE"}
  /\ Ends("retrying") = {"raw"}
  /\ Ends("ok") = {"done", "JISR_RESPONSE_INVALID",
                   "JISR_TEMPORARILY_UNAVAILABLE", "raw"}
  /\ \A s \in Statuses \ {"ok"} :
       Ends(s) = {MapUpstreamStatus(s), "JISR_TEMPORARILY_UNAVAILABLE", "raw"}
BY DEF Ends, AuthenticationFailures, Statuses

LEMMA MapFacts ==
  /\ MapUpstreamStatus("unauthorized") = "JISR_PERMISSION_DENIED"
  /\ MapUpstreamStatus("forbidden") = "JISR_PERMISSION_DENIED"
  /\ MapUpstreamStatus("not_found") = "RECORD_NOT_FOUND"
  /\ MapUpstreamStatus("unprocessable") = "INVALID_FILTER"
  /\ MapUpstreamStatus("rate_limited") = "JISR_RATE_LIMITED"
  /\ MapUpstreamStatus("server_error") = "JISR_TEMPORARILY_UNAVAILABLE"
  /\ MapUpstreamStatus("unexpected") = "JISR_RESPONSE_INVALID"
BY DEF MapUpstreamStatus

\* The codes the client can throw are the ones the type invariant lists.
LEMMA CodesFacts ==
  ClientCodes =
    {"done", "raw", "JISR_AUTHENTICATION_FAILED", "JISR_PERMISSION_DENIED",
     "RECORD_NOT_FOUND", "INVALID_FILTER", "JISR_RATE_LIMITED",
     "JISR_TEMPORARILY_UNAVAILABLE", "JISR_RESPONSE_INVALID"}
<1>1. {MapUpstreamStatus(s) : s \in Statuses \ {"ok"}} =
        {MapUpstreamStatus("unauthorized"), MapUpstreamStatus("forbidden"),
         MapUpstreamStatus("not_found"), MapUpstreamStatus("unprocessable"),
         MapUpstreamStatus("rate_limited"), MapUpstreamStatus("server_error"),
         MapUpstreamStatus("unexpected")}
  BY DEF Statuses
<1>2. QED
  BY <1>1, MapFacts DEF ClientCodes

LEMMA SlotFacts ==
  ASSUME TypeOK, NEW c \in Calls
  PROVE  /\ Slot(c) = CredentialsFor(useFinance[c])
         /\ Slot(c) \in Credentials
BY DEF TypeOK, Slot, CacheKey, CredentialsFor, Credentials

-----------------------------------------------------------------------------
LEMMA InitInv == Init => CInv
<1> SUFFICES ASSUME Init PROVE CInv
  OBVIOUS
<1>1. TypeOK
  BY JisrClientAssumption DEF Init, TypeOK, Pcs, Credentials
<1>2. CacheOwn /\ OwnKeyOnly
  BY DEF Init, CacheOwn, OwnKeyOnly
<1>3. ASSUME NEW c \in Calls
      PROVE  SendsOrdered(c) /\ WrittenFits(c) /\ OutcomeFits(c)
  BY DEF Init, SendsOrdered, WrittenFits, OutcomeFits, Request
<1>4. QED
  BY <1>1, <1>2, <1>3 DEF CInv

\* The calls that a step leaves alone keep their part of the invariant.
LEMMA OthersKept ==
  ASSUME CInv, NEW c \in Calls,
         \A d \in Calls \ {c} :
           /\ pc'[d] = pc[d] /\ attempts'[d] = attempts[d]
           /\ token'[d] = token[d] /\ written'[d] = written[d]
           /\ outcome'[d] = outcome[d]
  PROVE  \A d \in Calls \ {c} :
           SendsOrdered(d)' /\ WrittenFits(d)' /\ OutcomeFits(d)'
BY DEF CInv, SendsOrdered, WrittenFits, OutcomeFits, Request

LEMMA BeginInv ==
  ASSUME CInv, NEW c \in Calls, Begin(c)
  PROVE  CInv'
<1>1. /\ TypeOK /\ SendsOrdered(c) /\ WrittenFits(c) /\ OutcomeFits(c)
      /\ Slot(c) = CredentialsFor(useFinance[c]) /\ Slot(c) \in Credentials
  BY SlotFacts DEF CInv
<1>2. /\ UNCHANGED <<useFinance, tokens, lastAuthentication, accepted,
                     written, outcome>>
      /\ pc[c] = "idle"
  BY DEF Begin
<1>3. attempts[c][1] = "unsent" /\ attempts[c][2] = "unsent"
  BY <1>1, <1>2 DEF SendsOrdered
<1>4. CASE tokens[Slot(c)] # NoToken
  <2> DEFINE t == tokens[Slot(c)]
  <2>1. /\ token' = [token EXCEPT ![c] = t]
        /\ attempts' = [attempts EXCEPT ![c][1] = "travelling"]
        /\ pc' = [pc EXCEPT ![c] = "sent"]
    BY <1>4 DEF Begin, Send
  <2>2. t \in Token
    BY <1>1, <1>4 DEF TypeOK
  <2>3. TypeOK'
    BY <1>1, <1>2, <2>1, <2>2 DEF TypeOK, Pcs
  <2>4. CacheOwn' /\ OwnKeyOnly'
    <3>1. t.credentials = CredentialsFor(useFinance[c])
      BY <1>1, <1>4 DEF CInv, CacheOwn
    <3>2. \A d \in Calls : token'[d] = IF d = c THEN t ELSE token[d]
      BY <1>1, <2>1 DEF TypeOK
    <3>3. QED
      BY <1>2, <3>1, <3>2 DEF CInv, CacheOwn, OwnKeyOnly, CredentialsFor
  <2>5. \A d \in Calls \ {c} :
          SendsOrdered(d)' /\ WrittenFits(d)' /\ OutcomeFits(d)'
    BY <1>1, <1>2, <2>1, OthersKept DEF TypeOK
  <2>6. /\ pc'[c] = "sent" /\ attempts'[c][1] = "travelling"
        /\ attempts'[c][2] = "unsent"
    BY <1>1, <1>3, <2>1 DEF TypeOK
  <2>7. SendsOrdered(c)' /\ WrittenFits(c)' /\ OutcomeFits(c)'
    BY <1>1, <1>2, <1>3, <2>6
    DEF SendsOrdered, WrittenFits, OutcomeFits, Request
  <2>8. QED
    BY <2>3, <2>4, <2>5, <2>7 DEF CInv
<1>5. CASE tokens[Slot(c)] = NoToken
  <2>1. /\ pc' = [pc EXCEPT ![c] = "authenticating"]
        /\ UNCHANGED <<token, attempts>>
    BY <1>5 DEF Begin
  <2>2. TypeOK' /\ CacheOwn' /\ OwnKeyOnly'
    BY <1>1, <1>2, <2>1
    DEF CInv, TypeOK, Pcs, CacheOwn, OwnKeyOnly, CredentialsFor
  <2>3. \A d \in Calls \ {c} :
          SendsOrdered(d)' /\ WrittenFits(d)' /\ OutcomeFits(d)'
    BY <1>1, <1>2, <2>1, OthersKept DEF TypeOK
  <2>4. pc'[c] = "authenticating"
    BY <1>1, <2>1 DEF TypeOK
  <2>5. SendsOrdered(c)' /\ WrittenFits(c)' /\ OutcomeFits(c)'
    BY <1>1, <1>2, <1>3, <2>1, <2>4
    DEF SendsOrdered, WrittenFits, OutcomeFits, Request
  <2>6. QED
    BY <2>2, <2>3, <2>5 DEF CInv
<1>6. QED
  BY <1>4, <1>5

LEMMA AuthenticatedInv ==
  ASSUME CInv, NEW c \in Calls, Authenticated(c)
  PROVE  CInv'
<1> DEFINE n == Attempt(c)
           t == [call |-> c, nth |-> n,
                 credentials |-> CredentialsFor(useFinance[c])]
<1>1. /\ TypeOK /\ SendsOrdered(c) /\ WrittenFits(c) /\ OutcomeFits(c)
      /\ Slot(c) = CredentialsFor(useFinance[c]) /\ Slot(c) \in Credentials
  BY SlotFacts DEF CInv
<1>2. /\ pc[c] \in {"authenticating", "reauthenticating"}
      /\ tokens' = [tokens EXCEPT ![Slot(c)] = t]
      /\ lastAuthentication' = [succeeded |-> TRUE, error |-> "null"]
      /\ accepted' = accepted \cup {t}
      /\ token' = [token EXCEPT ![c] = t]
      /\ attempts' = [attempts EXCEPT ![c][n] = "travelling"]
      /\ pc' = [pc EXCEPT ![c] = IF n = 1 THEN "sent" ELSE "resent"]
      /\ UNCHANGED <<useFinance, written, outcome>>
  BY DEF Authenticated, Send
<1>3. n \in {1, 2} /\ (n = 1 <=> pc[c] = "authenticating")
  BY <1>2 DEF Attempt
<1>4. t \in Token
  BY <1>1, <1>3 DEF Token
<1>5. TypeOK'
  BY <1>1, <1>2, <1>3, <1>4 DEF TypeOK, Pcs
<1>6. CacheOwn' /\ OwnKeyOnly'
  <2>1. t.credentials = Slot(c)
    BY <1>1
  <2>2. \A k \in Credentials : tokens'[k] = IF k = Slot(c) THEN t ELSE tokens[k]
    BY <1>1, <1>2 DEF TypeOK
  <2>3. \A d \in Calls : token'[d] = IF d = c THEN t ELSE token[d]
    BY <1>1, <1>2 DEF TypeOK
  <2>4. CacheOwn'
    BY <2>1, <2>2 DEF CInv, CacheOwn
  <2>5. OwnKeyOnly'
    BY <1>1, <1>2, <2>1, <2>3 DEF CInv, OwnKeyOnly, CredentialsFor
  <2>6. QED
    BY <2>4, <2>5
<1>7. \A d \in Calls \ {c} :
        SendsOrdered(d)' /\ WrittenFits(d)' /\ OutcomeFits(d)'
  BY <1>1, <1>2, OthersKept DEF TypeOK
<1>8. token'[c] = t
  BY <1>1, <1>2 DEF TypeOK
<1>9. CASE pc[c] = "authenticating"
  <2>1. /\ pc'[c] = "sent" /\ attempts'[c][1] = "travelling"
        /\ attempts'[c][2] = "unsent"
    BY <1>1, <1>2, <1>3, <1>9 DEF TypeOK, SendsOrdered
  <2>2. SendsOrdered(c)' /\ WrittenFits(c)' /\ OutcomeFits(c)'
    BY <1>1, <1>2, <1>9, <2>1
    DEF SendsOrdered, WrittenFits, OutcomeFits, Request
  <2>3. QED
    BY <2>2, <1>5, <1>6, <1>7 DEF CInv
<1>10. CASE pc[c] = "reauthenticating"
  <2>1. /\ pc'[c] = "resent" /\ attempts'[c][2] = "travelling"
        /\ attempts'[c][1] = "unauthorized" /\ n = 2
        /\ attempts[c][1] = "unauthorized" /\ attempts[c][2] = "unsent"
    BY <1>1, <1>2, <1>3, <1>10 DEF TypeOK, SendsOrdered
  <2>2. SendsOrdered(c)'
    BY <1>4, <1>8, <2>1 DEF SendsOrdered
  <2>3. WrittenFits(c)' /\ OutcomeFits(c)'
    BY <1>1, <1>2, <1>10, <2>1 DEF WrittenFits, OutcomeFits, Request
  <2>4. QED
    BY <2>2, <2>3, <1>5, <1>6, <1>7 DEF CInv
<1>11. QED
  BY <1>2, <1>9, <1>10

\* The three ways a call ends leave the cache and the sends alone.
LEMMA FinishInv ==
  ASSUME CInv, NEW c \in Calls, NEW code \in ClientCodes, Finish(c, code),
         pc[c] \in {"authenticating", "sent", "reauthenticating", "resent"},
         code \in Ends(Request(c)),
         lastAuthentication' \in
           [succeeded : BOOLEAN,
            error : {"null", "JISR_AUTHENTICATION_FAILED",
                     "JISR_RESPONSE_INVALID"}],
         UNCHANGED <<useFinance, token, tokens, accepted, attempts, written>>
  PROVE  CInv'
<1>1. TypeOK /\ SendsOrdered(c) /\ WrittenFits(c)
  BY DEF CInv
<1>2. /\ pc' = [pc EXCEPT ![c] = "done"]
      /\ outcome' = [outcome EXCEPT ![c] = code]
  BY DEF Finish
<1>3. TypeOK'
  BY <1>1, <1>2 DEF TypeOK, Pcs
<1>4. CacheOwn' /\ OwnKeyOnly'
  BY DEF CInv, CacheOwn, OwnKeyOnly, CredentialsFor
<1>5. \A d \in Calls \ {c} :
        SendsOrdered(d)' /\ WrittenFits(d)' /\ OutcomeFits(d)'
  BY <1>1, <1>2, OthersKept DEF TypeOK
<1>6. pc'[c] = "done" /\ outcome'[c] = code
  BY <1>1, <1>2 DEF TypeOK
<1>7. code # "pending"
  BY CodesFacts
<1>8. SendsOrdered(c)' /\ WrittenFits(c)'
  BY <1>1, <1>6 DEF SendsOrdered, WrittenFits, Request
<1>9. OutcomeFits(c)'
  BY <1>6, <1>7 DEF OutcomeFits, Request
<1>10. QED
  BY <1>3, <1>4, <1>5, <1>8, <1>9 DEF CInv

LEMMA AuthenticationFailsInv ==
  ASSUME CInv, NEW c \in Calls, AuthenticationFails(c)
  PROVE  CInv'
<1>1. TypeOK /\ SendsOrdered(c)
  BY DEF CInv
<1>2. PICK code \in {"JISR_AUTHENTICATION_FAILED", "JISR_RESPONSE_INVALID",
                     "raw"} :
        /\ Finish(c, code)
        /\ lastAuthentication' = RecordFailure(code)
  BY DEF AuthenticationFails, AuthenticationFailures
<1>3. /\ pc[c] \in {"authenticating", "reauthenticating"}
      /\ UNCHANGED <<useFinance, token, tokens, accepted, attempts, written>>
  BY DEF AuthenticationFails
<1>4. code \in ClientCodes
  BY CodesFacts
<1>5. lastAuthentication' \in
        [succeeded : BOOLEAN,
         error : {"null", "JISR_AUTHENTICATION_FAILED",
                  "JISR_RESPONSE_INVALID"}]
  BY <1>1, <1>2 DEF TypeOK, RecordFailure
<1>6. Request(c) \in {"unsent", "rejected"}
  BY <1>1, <1>3 DEF SendsOrdered, Request
<1>7. code \in Ends(Request(c))
  BY <1>6, EndsFacts
<1>8. QED
  BY <1>2, <1>3, <1>4, <1>5, <1>7, FinishInv

LEMMA UnreachableInv ==
  ASSUME CInv, NEW c \in Calls, Unreachable(c)
  PROVE  CInv'
<1>1. TypeOK /\ SendsOrdered(c)
  BY DEF CInv
<1>2. PICK code \in {"JISR_TEMPORARILY_UNAVAILABLE", "raw"} :
        /\ Finish(c, code)
        /\ \/ pc[c] = "sent" /\ code = "JISR_TEMPORARILY_UNAVAILABLE"
           \/ pc[c] = "resent" /\ code = "raw"
  BY DEF Unreachable
<1>3. UNCHANGED <<useFinance, token, tokens, accepted, attempts, written,
                  lastAuthentication>>
  BY DEF Unreachable, clientVars
<1>4. code \in ClientCodes
  BY CodesFacts
<1>5. IF pc[c] = "sent"
      THEN Request(c) \in Statuses \cup {"rejected", "travelling"}
      ELSE Request(c) \in Statuses \cup {"retrying"}
  BY <1>1, <1>2 DEF SendsOrdered, Request, TypeOK
<1>6. code \in Ends(Request(c))
  BY <1>2, <1>5, EndsFacts
<1>7. QED
  BY <1>1, <1>2, <1>3, <1>4, <1>6, FinishInv DEF TypeOK

LEMMA ReceiveInv ==
  ASSUME CInv, NEW c \in Calls, Receive(c)
  PROVE  CInv'
<1> DEFINE status == attempts[c][Attempt(c)]
<1>1. /\ TypeOK /\ SendsOrdered(c) /\ WrittenFits(c) /\ OutcomeFits(c)
      /\ Slot(c) \in Credentials
  BY SlotFacts DEF CInv
<1>2. /\ pc[c] \in {"sent", "resent"}
      /\ status \in Statuses
      /\ UNCHANGED <<useFinance, token, lastAuthentication, accepted,
                     attempts, written>>
  BY DEF Receive
<1>3. /\ Attempt(c) = IF pc[c] = "sent" THEN 1 ELSE 2
      /\ MayReauthenticate(status, Attempt(c)) \/ Request(c) = status
  BY <1>1, <1>2
  DEF Attempt, MayReauthenticate, Request, SendsOrdered, Statuses
<1>4. CASE MayReauthenticate(status, Attempt(c))
  <2>1. /\ tokens' = [tokens EXCEPT ![Slot(c)] = NoToken]
        /\ pc' = [pc EXCEPT ![c] = "reauthenticating"]
        /\ outcome' = outcome
    BY <1>4 DEF Receive
  <2>2. pc[c] = "sent" /\ attempts[c][1] = "unauthorized"
    BY <1>2, <1>3, <1>4 DEF MayReauthenticate
  <2>3. TypeOK'
    BY <1>1, <1>2, <2>1 DEF TypeOK, Pcs
  <2>4. CacheOwn'
    <3>1. \A k \in Credentials :
            tokens'[k] = IF k = Slot(c) THEN NoToken ELSE tokens[k]
      BY <1>1, <2>1 DEF TypeOK
    <3>2. QED
      BY <3>1 DEF CInv, CacheOwn
  <2>5. OwnKeyOnly'
    BY <1>2 DEF CInv, OwnKeyOnly, CredentialsFor
  <2>6. \A d \in Calls \ {c} :
          SendsOrdered(d)' /\ WrittenFits(d)' /\ OutcomeFits(d)'
    BY <1>1, <1>2, <2>1, OthersKept DEF TypeOK
  <2>7. pc'[c] = "reauthenticating"
    BY <1>1, <2>1 DEF TypeOK
  <2>8. SendsOrdered(c)' /\ WrittenFits(c)' /\ OutcomeFits(c)'
    BY <1>1, <1>2, <2>1, <2>2, <2>7
    DEF SendsOrdered, WrittenFits, OutcomeFits, Request
  <2>9. QED
    BY <2>3, <2>4, <2>5, <2>6, <2>8 DEF CInv
<1>5. CASE ~MayReauthenticate(status, Attempt(c))
  <2>1. PICK code : /\ Finish(c, code)
                    /\ IF status = "ok"
                       THEN code \in {"done", "JISR_RESPONSE_INVALID", "raw"}
                       ELSE code = MapUpstreamStatus(status)
    BY <1>5 DEF Receive
  <2>2. tokens' = tokens
    BY <1>5 DEF Receive
  <2>3. code \in ClientCodes
    <3>1. CASE status = "ok"
      BY <2>1, <3>1, CodesFacts
    <3>2. CASE status # "ok"
      BY <1>2, <2>1, <3>2 DEF ClientCodes
    <3>3. QED
      BY <3>1, <3>2
  <2>4. code \in Ends(Request(c))
    BY <1>2, <1>3, <1>5, <2>1, EndsFacts
  <2>5. lastAuthentication' \in
          [succeeded : BOOLEAN,
           error : {"null", "JISR_AUTHENTICATION_FAILED",
                    "JISR_RESPONSE_INVALID"}]
    BY <1>1, <1>2 DEF TypeOK
  <2>6. QED
    BY <1>2, <2>1, <2>2, <2>3, <2>4, <2>5, FinishInv
<1>6. QED
  BY <1>4, <1>5

LEMMA JisrHandlesInv ==
  ASSUME CInv, NEW c \in Calls, NEW a \in {1, 2}, NEW status \in Statuses,
         JisrHandles(c, a, status)
  PROVE  CInv'
<1>1. TypeOK /\ SendsOrdered(c) /\ WrittenFits(c) /\ OutcomeFits(c)
  BY DEF CInv
<1>2. /\ attempts[c][a] = "travelling"
      /\ attempts' = [attempts EXCEPT ![c][a] = status]
      /\ UNCHANGED <<useFinance, token, tokens, lastAuthentication, pc,
                     accepted, outcome>>
      /\ \/ /\ status \in {"ok", "server_error", "unexpected"}
            /\ written' = [written EXCEPT ![c] = @ + 1]
         \/ status # "ok" /\ written' = written
  BY DEF JisrHandles, clientVars, MayHaveWritten, MayHaveRefused
<1>3. Request(c) = IF a = 1 THEN "travelling" ELSE "retrying"
  BY <1>1, <1>2 DEF SendsOrdered, Request
<1>4. /\ attempts'[c][a] = status
      /\ \A b \in {1, 2} \ {a} : attempts'[c][b] = attempts[c][b]
  BY <1>1, <1>2 DEF TypeOK
<1>5. /\ status \notin {"unsent", "travelling"}
      /\ a = 1 => attempts[c][2] = "unsent"
      /\ a = 2 => attempts[c][1] = "unauthorized"
  BY <1>1, <1>2 DEF SendsOrdered, Statuses
<1>6. Request(c)' = IF a = 1 /\ status = "unauthorized"
                    THEN "rejected" ELSE status
  BY <1>2, <1>4, <1>5 DEF Request
<1>7. written[c] = 0
  BY <1>1, <1>3 DEF WrittenFits
<1>8. TypeOK'
  BY <1>1, <1>2 DEF TypeOK
<1>9. CacheOwn' /\ OwnKeyOnly'
  BY <1>2 DEF CInv, CacheOwn, OwnKeyOnly, CredentialsFor
<1>10. \A d \in Calls \ {c} :
         SendsOrdered(d)' /\ WrittenFits(d)' /\ OutcomeFits(d)'
  BY <1>1, <1>2, OthersKept DEF TypeOK
<1>11. SendsOrdered(c)'
  BY <1>1, <1>2, <1>4, <1>5 DEF SendsOrdered
<1>12. WrittenFits(c)'
  <2>1. CASE /\ status \in {"ok", "server_error", "unexpected"}
             /\ written' = [written EXCEPT ![c] = @ + 1]
    <3>1. written'[c] = 1
      BY <1>1, <1>7, <2>1 DEF TypeOK
    <3>2. QED
      BY <3>1, <2>1, <1>6 DEF WrittenFits
  <2>2. CASE status # "ok" /\ written' = written
    BY <2>2, <1>6, <1>7 DEF WrittenFits
  <2>3. QED
    BY <2>1, <2>2, <1>2
<1>13. OutcomeFits(c)'
  <2>1. outcome[c] # "pending" =>
          outcome[c] = IF a = 1 THEN "JISR_TEMPORARILY_UNAVAILABLE" ELSE "raw"
    BY <1>1, <1>3, EndsFacts DEF OutcomeFits
  <2>2. /\ {"JISR_TEMPORARILY_UNAVAILABLE", "raw"} \subseteq Ends(status)
        /\ "JISR_TEMPORARILY_UNAVAILABLE" \in Ends("rejected")
    BY EndsFacts
  <2>3. QED
    BY <1>1, <1>2, <1>6, <2>1, <2>2 DEF OutcomeFits
<1>14. QED
  BY <1>8, <1>9, <1>10, <1>11, <1>12, <1>13 DEF CInv

LEMMA StepInv == CInv /\ [Next]_vars => CInv'
<1> SUFFICES ASSUME CInv, [Next]_vars PROVE CInv'
  OBVIOUS
<1>1. CASE \E c \in Calls :
             \/ Begin(c) \/ Authenticated(c) \/ AuthenticationFails(c)
             \/ Receive(c) \/ Unreachable(c)
  BY <1>1, BeginInv, AuthenticatedInv, AuthenticationFailsInv, ReceiveInv,
     UnreachableInv
<1>2. CASE \E c \in Calls, a \in {1, 2}, s \in Statuses : JisrHandles(c, a, s)
  BY <1>2, JisrHandlesInv
<1>3. CASE \E t \in accepted : Revoke(t)
  <2>1. /\ UNCHANGED <<useFinance, token, tokens, lastAuthentication, pc,
                       attempts, written, outcome>>
        /\ accepted' \subseteq accepted
    BY <1>3 DEF Revoke, clientVars
  <2>2. TypeOK' /\ CacheOwn' /\ OwnKeyOnly'
    BY <2>1 DEF CInv, TypeOK, CacheOwn, OwnKeyOnly, CredentialsFor
  <2>3. \A c \in Calls : SendsOrdered(c)' /\ WrittenFits(c)' /\ OutcomeFits(c)'
    BY <2>1 DEF CInv, SendsOrdered, WrittenFits, OutcomeFits, Request
  <2>4. QED
    BY <2>2, <2>3 DEF CInv
<1>4. CASE UNCHANGED vars
  <2>1. TypeOK' /\ CacheOwn' /\ OwnKeyOnly'
    BY <1>4 DEF vars, CInv, TypeOK, CacheOwn, OwnKeyOnly, CredentialsFor
  <2>2. \A c \in Calls : SendsOrdered(c)' /\ WrittenFits(c)' /\ OutcomeFits(c)'
    BY <1>4 DEF vars, CInv, SendsOrdered, WrittenFits, OutcomeFits, Request
  <2>3. QED
    BY <2>1, <2>2 DEF CInv
<1>5. QED
  BY <1>1, <1>2, <1>3, <1>4 DEF Next

LEMMA Invariance == Spec => []CInv
BY InitInv, StepInv, PTL DEF Spec

-----------------------------------------------------------------------------
\* Every variable keeps its type, the outcomes within the codes client.ts can
\* throw.
THEOREM TypeCorrect == Spec => []TypeOK
<1>1. CInv => TypeOK
  BY DEF CInv
<1>2. QED
  BY <1>1, Invariance, PTL

\* However calls interleave, and however late Jisr acts, request() carries its
\* write out at most once.
THEOREM AtMostOneWriteHolds == Spec => []AtMostOneWrite
<1>1. CInv => AtMostOneWrite
  BY DEF CInv, WrittenFits, AtMostOneWrite
<1>2. QED
  BY <1>1, Invariance, PTL

\* A call that shares its cache with calls under another key never sends a
\* token of that key.
THEOREM OwnKeyOnlyHolds == Spec => []OwnKeyOnly
<1>1. CInv => OwnKeyOnly
  BY DEF CInv
<1>2. QED
  BY <1>1, Invariance, PTL

\* What a write is told, when it is told something definite, is and stays
\* true.
THEOREM DefiniteAnswersTrueHolds == Spec => []DefiniteAnswersTrue
<1>1. CInv => DefiniteAnswersTrue
  <2>1. SUFFICES ASSUME CInv, NEW c \in Calls
                 PROVE  LET told == SubmitGuarded(outcome[c])
                        IN /\ told = "done" => written[c] = 1
                           /\ told \notin {"pending", "done",
                                           "WRITE_OUTCOME_UNKNOWN", "raw"}
                              => /\ written[c] = 0
                                 /\ \A a \in {1, 2} :
                                      attempts[c][a] # "travelling"
    BY DEF DefiniteAnswersTrue
  <2>2. TypeOK /\ SendsOrdered(c) /\ WrittenFits(c) /\ OutcomeFits(c)
    BY <2>1 DEF CInv
  <2>3. Request(c) \in Requests
    BY <2>2 DEF TypeOK, Request, Requests, UnderWay
  <2>4. SubmitGuarded(outcome[c]) = "done" => outcome[c] = "done"
    BY DEF SubmitGuarded
  <2>5. outcome[c] = "done" => Request(c) = "ok"
    <3>1. \A s \in Statuses \ {"ok"} : MapUpstreamStatus(s) # "done"
      BY MapFacts DEF Statuses
    <3>2. QED
      BY <2>2, <2>3, <3>1, EndsFacts DEF OutcomeFits, Requests, UnderWay
  <2>6. SubmitGuarded(outcome[c]) \notin {"pending", "done",
                                          "WRITE_OUTCOME_UNKNOWN", "raw"}
        => Request(c) \notin {"ok", "server_error", "unexpected"} \cup UnderWay
    <3>1. SUFFICES ASSUME SubmitGuarded(outcome[c]) \notin
                            {"pending", "done", "WRITE_OUTCOME_UNKNOWN", "raw"},
                          Request(c) \in {"ok", "server_error", "unexpected"}
                                            \cup UnderWay
                   PROVE  FALSE
      OBVIOUS
    <3>2. outcome[c] \notin {"pending", "done", "raw",
                             "JISR_TEMPORARILY_UNAVAILABLE",
                             "JISR_RESPONSE_INVALID"}
      BY <3>1 DEF SubmitGuarded, AmbiguousUpstreamCodes
    <3>3. outcome[c] \in Ends(Request(c))
      BY <2>2, <3>2 DEF OutcomeFits
    <3>4. QED
      BY <3>1, <3>2, <3>3, EndsFacts, MapFacts DEF Statuses, UnderWay
  <2>7. Request(c) \notin UnderWay
        => \A a \in {1, 2} : attempts[c][a] # "travelling"
    BY <2>2 DEF SendsOrdered, Request, UnderWay
  <2>8. QED
    BY <2>2, <2>4, <2>5, <2>6, <2>7 DEF WrittenFits
<1>2. QED
  BY <1>1, Invariance, PTL

\* A rejection reaches the caller only over a token the call has just
\* obtained itself.
THEOREM StaleTokenNeverSurfacesHolds == Spec => []StaleTokenNeverSurfaces
<1>1. CInv => StaleTokenNeverSurfaces
  <2>1. SUFFICES ASSUME CInv, NEW c \in Calls,
                        outcome[c] = "JISR_PERMISSION_DENIED",
                        "forbidden" \notin {attempts[c][1], attempts[c][2]}
                 PROVE  /\ attempts[c][1] = "unauthorized"
                        /\ token[c].call = c /\ token[c].nth = 2
    BY DEF StaleTokenNeverSurfaces
  <2>2. TypeOK /\ SendsOrdered(c) /\ OutcomeFits(c)
    BY <2>1 DEF CInv
  <2>3. outcome[c] \in Ends(Request(c)) /\ Request(c) \in Requests
    BY <2>1, <2>2 DEF OutcomeFits, TypeOK, Request, Requests, UnderWay
  <2>4. Request(c) \in {"unauthorized", "forbidden"}
    <3>1. \A s \in Statuses \ {"ok", "unauthorized", "forbidden"} :
            MapUpstreamStatus(s) # "JISR_PERMISSION_DENIED"
      BY MapFacts DEF Statuses
    <3>2. QED
      BY <2>1, <2>3, <3>1, EndsFacts DEF Requests, UnderWay
  <2>5. attempts[c][2] # "unsent"
    BY <2>1, <2>4 DEF Request
  <2>6. QED
    BY <2>2, <2>5 DEF SendsOrdered
<1>2. QED
  BY <1>1, Invariance, PTL

-----------------------------------------------------------------------------
\* The operators of RequestOutcome mean in Submission what they mean here.
LEMMA ServiceFacts ==
  /\ \A request : Service!Ends(request) = Ends(request)
  /\ \A code : Service!SubmitGuarded(code) = SubmitGuarded(code)
  /\ \A code : Service!AnswerCode(code) = AnswerCode(code)
  /\ \A request, status :
       Service!Replied(request, status) = Replied(request, status)
  /\ \A status : Service!MayHaveWritten(status) = MayHaveWritten(status)
  /\ \A status : Service!MayHaveRefused(status) = MayHaveRefused(status)
  /\ Service!UnderWay = UnderWay
BY DEF Service!Ends, Ends, Service!SubmitGuarded, SubmitGuarded,
       Service!AnswerCode, AnswerCode, Service!Replied, Replied,
       Service!MayHaveWritten, MayHaveWritten, Service!MayHaveRefused,
       MayHaveRefused, Service!UnderWay, UnderWay,
       Service!AmbiguousUpstreamCodes, AmbiguousUpstreamCodes,
       Service!AuthenticationFailures, AuthenticationFailures,
       Service!MapUpstreamStatus, MapUpstreamStatus

\* What a service sees of the client stays as it is.
Unseen == UNCHANGED <<[c \in Calls |-> Place(c)], [c \in Calls |-> Request(c)],
                      [c \in Calls |-> AnswerOf(c)], written>>

\* The steps of a call that a service does not see.
LEMMA Stutters ==
  ASSUME \A d \in Calls : outcome'[d] = outcome[d] /\ Request(d)' = Request(d),
         written' = written
  PROVE  Unseen
BY DEF Unseen, Place, AnswerOf

\* A request leaves.
LEMMA SendMaps ==
  ASSUME NEW c \in Calls, outcome[c] = "pending",
         UNCHANGED <<outcome, written>>,
         \/ Request(c) = "unsent" /\ Request(c)' = "travelling"
         \/ Request(c) = "rejected" /\ Request(c)' = "retrying",
         \A d \in Calls \ {c} : Request(d)' = Request(d)
  PROVE  Service!Next
<1>1. Place(c) = "submitting"
  BY DEF Place
<1>2. [d \in Calls |-> Request(d)'] =
        [[d \in Calls |-> Request(d)] EXCEPT ![c] = Request(c)']
  OBVIOUS
<1>3. /\ \A d \in Calls : Place(d)' = Place(d)
      /\ \A d \in Calls : AnswerOf(d)' = AnswerOf(d)
  BY DEF Place, AnswerOf
<1>4. Service!Sends(c)
  BY <1>1, <1>2, <1>3 DEF Service!Sends
<1>5. QED
  BY <1>4 DEF Service!Next, Service!Submits

\* A call ends.
LEMMA FinishMaps ==
  ASSUME TypeOK, NEW c \in Calls, NEW code, Finish(c, code),
         outcome[c] = "pending", code \in Ends(Request(c)), code # "pending",
         UNCHANGED <<attempts, written>>
  PROVE  Service!Next
<1>1. outcome'[c] = code /\ \A d \in Calls \ {c} : outcome'[d] = outcome[d]
  BY DEF Finish, TypeOK
<1>2. /\ Place(c) = "submitting" /\ AnswerOf(c) = NoneYet
      /\ \A d \in Calls : Request(d)' = Request(d)
      /\ \A d \in Calls \ {c} :
           Place(d)' = Place(d) /\ AnswerOf(d)' = AnswerOf(d)
  BY <1>1 DEF Place, AnswerOf, Request
<1>3. Service!SubmitEnds(c)
  <2>1. CASE code = "done"
    <3>1. Place(c)' = "rereading" /\ AnswerOf(c)' = NoneYet
      BY <1>1, <2>1 DEF Place, AnswerOf
    <3>2. Service!Goto(c, "rereading")
      BY <1>2, <3>1 DEF Service!Goto
    <3>3. QED
      BY <1>2, <2>1, <3>2, ServiceFacts DEF Service!SubmitEnds
  <2>2. CASE code # "done"
    <3>1. /\ Place(c)' = "answered"
          /\ AnswerOf(c)' = [stage |-> "submit",
                             code |-> AnswerCode(SubmitGuarded(code)),
                             raw |-> SubmitGuarded(code) = "raw"]
      BY <1>1, <2>2 DEF Place, AnswerOf
    <3>2. Service!Answer(c, "submit", SubmitGuarded(code))
      BY <1>2, <3>1, ServiceFacts DEF Service!Answer
    <3>3. QED
      BY <1>2, <2>2, <3>2, ServiceFacts DEF Service!SubmitEnds
  <2>3. QED
    BY <2>1, <2>2
<1>4. QED
  BY <1>3 DEF Service!Next, Service!Submits

\* Jisr handles one of the sends.
LEMMA HandlesMaps ==
  ASSUME CInv, NEW c \in Calls, NEW a \in {1, 2}, NEW status \in Statuses,
         JisrHandles(c, a, status)
  PROVE  Service!Next
<1>1. TypeOK /\ SendsOrdered(c)
  BY DEF CInv
<1>2. /\ attempts[c][a] = "travelling" /\ outcome' = outcome
      /\ attempts' = [attempts EXCEPT ![c][a] = status]
      /\ \/ MayHaveWritten(status) /\ written' = [written EXCEPT ![c] = @ + 1]
         \/ MayHaveRefused(status) /\ written' = written
  BY DEF JisrHandles
<1>3. Request(c) = IF a = 1 THEN "travelling" ELSE "retrying"
  BY <1>1, <1>2 DEF SendsOrdered, Request
<1>4. /\ attempts'[c][a] = status
      /\ \A b \in {1, 2} \ {a} : attempts'[c][b] = attempts[c][b]
      /\ \A d \in Calls \ {c} : attempts'[d] = attempts[d]
  BY <1>1, <1>2 DEF TypeOK
<1>5. /\ Request(c)' = Replied(Request(c), status)
      /\ \A d \in Calls \ {c} : Request(d)' = Request(d)
  BY <1>1, <1>2, <1>3, <1>4 DEF SendsOrdered, Request, Replied, Statuses
<1>6. \A d \in Calls : Place(d)' = Place(d) /\ AnswerOf(d)' = AnswerOf(d)
  BY <1>2 DEF Place, AnswerOf
<1>7. Service!JisrReplies(c, status)
  BY <1>3, <1>5, <1>6, ServiceFacts DEF Service!JisrReplies, UnderWay
<1>8. Service!Handles(c, status)
  BY <1>2, <1>7, ServiceFacts DEF Service!Handles
<1>9. QED
  BY <1>8 DEF Service!Next

LEMMA InitMaps == Init => Service!Init
BY DEF Init, Service!Init, Place, Request, AnswerOf

\* Every step of the client is one of a submission, or is not seen.
LEMMA StepMaps == CInv /\ [Next]_vars => Service!Next \/ Unseen
<1> SUFFICES ASSUME CInv, [Next]_vars PROVE Service!Next \/ Unseen
  OBVIOUS
<1> USE DEF CInv
<1>1. ASSUME NEW c \in Calls, Begin(c) PROVE Service!Next \/ Unseen
  <2>1. /\ TypeOK /\ SendsOrdered(c) /\ OutcomeFits(c)
        /\ pc[c] = "idle" /\ UNCHANGED <<outcome, written>>
    BY <1>1 DEF Begin
  <2>2. Request(c) = "unsent" /\ outcome[c] = "pending"
    BY <2>1 DEF SendsOrdered, OutcomeFits, Request
  <2>3. CASE attempts' = [attempts EXCEPT ![c][1] = "travelling"]
    <3>1. /\ Request(c)' = "travelling"
          /\ \A d \in Calls \ {c} : Request(d)' = Request(d)
      BY <2>1, <2>3 DEF TypeOK, SendsOrdered, Request
    <3>2. QED
      BY <2>1, <2>2, <3>1, SendMaps
  <2>4. CASE attempts' = attempts
    BY <2>1, <2>4, Stutters DEF Request
  <2>5. QED
    BY <1>1, <2>3, <2>4 DEF Begin, Send
<1>2. ASSUME NEW c \in Calls, Authenticated(c) PROVE Service!Next \/ Unseen
  <2>1. /\ TypeOK /\ SendsOrdered(c) /\ OutcomeFits(c)
        /\ pc[c] \in {"authenticating", "reauthenticating"}
        /\ UNCHANGED <<outcome, written>>
        /\ attempts' = [attempts EXCEPT ![c][Attempt(c)] = "travelling"]
    BY <1>2 DEF Authenticated, Send
  <2>2. outcome[c] = "pending"
    BY <2>1 DEF OutcomeFits
  <2>3. \/ Request(c) = "unsent" /\ Request(c)' = "travelling"
        \/ Request(c) = "rejected" /\ Request(c)' = "retrying"
    BY <2>1 DEF TypeOK, SendsOrdered, Attempt, Request
  <2>4. \A d \in Calls \ {c} : Request(d)' = Request(d)
    BY <2>1 DEF TypeOK, Request
  <2>5. QED
    BY <2>1, <2>2, <2>3, <2>4, SendMaps
<1>3. ASSUME NEW c \in Calls,
             AuthenticationFails(c) \/ Receive(c) \/ Unreachable(c)
      PROVE  Service!Next \/ Unseen
  <2>1. /\ TypeOK /\ pc[c] \notin {"idle", "done"}
        /\ UNCHANGED <<attempts, written>>
    BY <1>3 DEF AuthenticationFails, Receive, Unreachable
  <2>2. outcome[c] = "pending" /\ OutcomeFits(c)'
    BY <2>1, StepInv DEF OutcomeFits
  <2>3. CASE outcome' = outcome
    BY <2>1, <2>3, Stutters DEF Request
  <2>4. CASE \E code : Finish(c, code)
    <3>1. PICK code : Finish(c, code)
      BY <2>4
    <3>2. outcome'[c] = code /\ pc'[c] = "done" /\ Request(c)' = Request(c)
      BY <2>1, <3>1 DEF Finish, TypeOK, Request
    <3>3. code # "pending" /\ code \in Ends(Request(c))
      BY <2>2, <3>2 DEF OutcomeFits, Ends, Request
    <3>4. QED
      BY <2>1, <2>2, <3>1, <3>3, FinishMaps
  <2>5. QED
    BY <1>3, <2>3, <2>4 DEF AuthenticationFails, Receive, Unreachable
<1>4. ASSUME NEW t \in accepted, Revoke(t) PROVE Service!Next \/ Unseen
  BY <1>4, Stutters DEF Revoke, Request
<1>5. CASE UNCHANGED vars
  BY <1>5, Stutters DEF vars, Request
<1>6. QED
  BY <1>1, <1>2, <1>3, <1>4, <1>5, HandlesMaps DEF Next

\* The write services may rely on Submission: whatever calls share the cache,
\* and however they interleave, each of them is one (request in client.ts, as
\* submitGuarded calls it).
THEOREM Refinement == Spec => ImplementsSubmission
<1>1. CInv /\ [Next]_vars =>
        [Service!Next]_<<[c \in Calls |-> Place(c)],
                         [c \in Calls |-> Request(c)],
                         [c \in Calls |-> AnswerOf(c)], written>>
  BY StepMaps DEF Unseen
<1>2. QED
  BY <1>1, InitMaps, Invariance, PTL
  DEF Spec, ImplementsSubmission, Service!Spec
-----------------------------------------------------------------------------
\* What ends one await of call c does not leave it there.
LEMMA SettledMoves ==
  ASSUME NEW c \in Calls, NEW place \in Pcs, TypeOK, Settles(c), pc[c] = place
  PROVE  ~(pc[c] = place)'
<1>1. PICK next \in Pcs \ {place} : pc' = [pc EXCEPT ![c] = next]
  <2>1. CASE Authenticated(c)
    <3>1. pc' = [pc EXCEPT ![c] = IF Attempt(c) = 1 THEN "sent" ELSE "resent"]
      BY <2>1 DEF Authenticated, Send
    <3>2. pc[c] \notin {"sent", "resent"}
      BY <2>1 DEF Authenticated
    <3>3. QED
      BY <3>1, <3>2 DEF Pcs
  <2>2. CASE AuthenticationFails(c)
    BY <2>2 DEF AuthenticationFails, Finish, Pcs
  <2>3. CASE Receive(c)
    <3>1. CASE MayReauthenticate(attempts[c][Attempt(c)], Attempt(c))
      BY <2>3, <3>1 DEF Receive, Pcs
    <3>2. CASE ~MayReauthenticate(attempts[c][Attempt(c)], Attempt(c))
      <4>1. \E code : Finish(c, code)
        BY <2>3, <3>2 DEF Receive
      <4>2. QED
        BY <2>3, <4>1 DEF Receive, Finish, Pcs
    <3>3. QED
      BY <3>1, <3>2
  <2>4. CASE Unreachable(c)
    BY <2>4 DEF Unreachable, Finish, Pcs
  <2>5. QED
    BY <2>1, <2>2, <2>3, <2>4 DEF Settles
<1>2. pc'[c] = next
  BY <1>1 DEF TypeOK
<1>3. QED
  BY <1>1, <1>2

\* The order of the awaits: where a step can take a call from each.
Onward(place) ==
  CASE place = "authenticating" -> {"sent", "done"}
    [] place = "sent" -> {"reauthenticating", "done"}
    [] place = "reauthenticating" -> {"resent", "done"}
    [] OTHER -> {"done"}

LEMMA StepsOnward ==
  ASSUME NEW c \in Calls, CInv, [Next]_vars, pc[c] # "idle"
  PROVE  pc'[c] = pc[c] \/ pc'[c] \in Onward(pc[c])
<1>1. CASE UNCHANGED vars
  BY <1>1 DEF vars
<1>2. ASSUME NEW d \in Calls, Begin(d)
      PROVE  pc'[c] = pc[c]
  BY <1>2 DEF Begin, Send, CInv, TypeOK
<1>3. ASSUME NEW d \in Calls, Authenticated(d)
      PROVE  pc'[c] = pc[c] \/ pc'[c] \in Onward(pc[c])
  <2>1. pc' = [pc EXCEPT ![d] = IF Attempt(d) = 1 THEN "sent" ELSE "resent"]
    BY <1>3 DEF Authenticated, Send
  <2>2. QED
    BY <1>3, <2>1 DEF Authenticated, Attempt, CInv, TypeOK, Onward
<1>4. ASSUME NEW d \in Calls,
             AuthenticationFails(d) \/ Receive(d) \/ Unreachable(d)
      PROVE  pc'[c] = pc[c] \/ pc'[c] \in Onward(pc[c])
  <2>1. CASE \E code : Finish(d, code)
    BY <1>4, <2>1 DEF Finish, CInv, TypeOK, Onward
  <2>2. CASE pc' = [pc EXCEPT ![d] = "reauthenticating"] /\ pc[d] = "sent"
    BY <1>4, <2>2 DEF CInv, TypeOK, Onward
  <2>3. QED
    BY <1>4, <2>1, <2>2
    DEF AuthenticationFails, Receive, Unreachable, MayReauthenticate, Attempt
<1>5. ASSUME NEW d \in Calls, NEW a \in {1, 2}, NEW s \in Statuses,
             JisrHandles(d, a, s)
      PROVE  pc'[c] = pc[c]
  BY <1>5 DEF JisrHandles
<1>6. ASSUME NEW t \in accepted, Revoke(t)
      PROVE  pc'[c] = pc[c]
  BY <1>6 DEF Revoke
<1>7. QED
  BY <1>1, <1>2, <1>3, <1>4, <1>5, <1>6 DEF Next

\* What the theorem assumes of call c, and that it leaves one await.
Served(c) == Spec /\ Fair(c) /\ []MaySettle(c)

Leaves(c, place) == pc[c] = place ~> pc[c] \in Onward(place)

\* Fairness ends the await that a call stands at.
LEMMA AwaitEnds ==
  ASSUME NEW c \in Calls, NEW place \in Pcs \ {"idle", "done"}
  PROVE  Served(c) => Leaves(c, place)
<1>1. pc[c] = place => Awaiting(c)
  BY DEF Awaiting
<1>2. CInv /\ <<Settles(c)>>_vars /\ pc[c] = place => ~(pc[c] = place)'
  BY SettledMoves DEF CInv
<1>3. CInv /\ [Next]_vars /\ pc[c] = place
      => (pc[c] = place)' \/ (pc[c] \in Onward(place))'
  BY StepsOnward
<1>4. QED
  BY <1>1, <1>2, <1>3, Invariance, PTL
  DEF Served, Leaves, Spec, Fair, MaySettle

\* The awaits come in Onward's order, and it ends.
LEMMA OneCallAnswered ==
  ASSUME NEW c \in Calls
  PROVE  Served(c) => (pc[c] # "idle" ~> pc[c] = "done")
<1> DEFINE At(place) == pc[c] = place
           Past(place) == pc[c] \in Onward(place)
<1>1. Served(c) =>
        /\ Leaves(c, "authenticating") /\ Leaves(c, "sent")
        /\ Leaves(c, "reauthenticating") /\ Leaves(c, "resent")
  BY AwaitEnds DEF Pcs
<1>2. CInv /\ pc[c] # "idle"
      => \/ At("authenticating") \/ At("sent") \/ At("reauthenticating")
         \/ At("resent") \/ At("done")
  BY DEF CInv, TypeOK, Pcs
<1>3. /\ Past("authenticating") => At("sent") \/ At("done")
      /\ Past("sent") => At("reauthenticating") \/ At("done")
      /\ Past("reauthenticating") => At("resent") \/ At("done")
      /\ Past("resent") => At("done")
  BY DEF Onward
<1>4. QED
  BY <1>1, <1>2, <1>3, Invariance, PTL DEF Served, Leaves

\* request() answers whoever calls it (client.ts), whatever the number of
\* calls on one cache.  That every await has an exit, CanSettle, is what the
\* runs check: ENABLED has no proof rule here.
THEOREM EveryCallAnsweredHolds == FairSpec /\ []CanSettle => EveryCallAnswered
<1>1. ASSUME NEW c \in Calls
      PROVE  FairSpec /\ []CanSettle => (pc[c] # "idle" ~> pc[c] = "done")
  <2>1. CanSettle => MaySettle(c)
    BY DEF CanSettle
  <2>2. FairSpec => Spec /\ Fair(c)
    BY DEF FairSpec
  <2>3. Served(c) => (pc[c] # "idle" ~> pc[c] = "done")
    BY OneCallAnswered
  <2>4. QED
    BY <2>1, <2>2, <2>3, PTL DEF Served
<1>2. QED
  BY <1>1 DEF EveryCallAnswered
=============================================================================
