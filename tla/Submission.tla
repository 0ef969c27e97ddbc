------------------------------ MODULE Submission ------------------------------
(***************************************************************************)
(* What a write service is modelled to rely on once its commit has passed  *)
(* the duplicate guard: one request through submitGuarded (outcome.ts),    *)
(* seen from outside the client.  There is no token, no cache and no other *)
(* call in it; JisrClient implements it.                                   *)
(***************************************************************************)
EXTENDS WriteCall, Naturals

VARIABLE
  written              \* Jisr: how often each commit's write was carried out

Init ==
  /\ at = [c \in Commits |-> "submitting"]
  /\ reply = [c \in Commits |-> "unsent"]
  /\ answer = [c \in Commits |-> NoAnswer]
  /\ written = [c \in Commits |-> 0]

\* submitGuarded, from its call to its end.
Submits(c) ==
  /\ Sends(c) \/ SubmitEnds(c)
  /\ UNCHANGED written

\* External: Jisr handles the request.
Handles(c, status) ==
  /\ JisrReplies(c, status)
  /\ \/ /\ MayHaveWritten(status)
        /\ written' = [written EXCEPT ![c] = @ + 1]
     \/ /\ MayHaveRefused(status)
        /\ UNCHANGED written

Next ==
  \E c \in Commits : Submits(c) \/ \E status \in Replies : Handles(c, status)

Spec == Init /\ [][Next]_<<at, reply, answer, written>>
=============================================================================
