---------------------------- MODULE ControlledWrite ----------------------------
(***************************************************************************)
(* What feature 002 promises of a write from its preview to Jisr and to    *)
(* the caller, with no clock, no store, no guard and no network in it: a   *)
(* preview offers one target; a commit spends an offer that no other has   *)
(* spent, and only then sends; what Jisr carries out is the target         *)
(* offered, once, perhaps after the answer; and whoever is told that       *)
(* nothing was written is told the truth for good.                         *)
(***************************************************************************)
CONSTANTS
  Commits,
  Handles,     \* what names an offer (the nonce of a reference)
  Targets      \* what is to be written: a record, or the one to delete

VARIABLES
  offered,     \* the previews, each a handle and a target
  spent,       \* which commit spent which handle
  request,     \* each commit's request: "unsent", "open" or "settled"
  made,        \* the writes that Jisr carried out, and for which commit
  told         \* what each commit has answered

vars == <<offered, spent, request, made, told>>

Init ==
  /\ offered = {}
  /\ spent = {}
  /\ request = [c \in Commits |-> "unsent"]
  /\ made = {}
  /\ told = [c \in Commits |-> "nothing"]

Offers(handle, target) ==
  /\ \A o \in offered : o.handle # handle
  /\ offered' = offered \cup {[handle |-> handle, target |-> target]}
  /\ UNCHANGED <<spent, request, made, told>>

HasSpent(c) == \E s \in spent : s.by = c

\* c takes up an offer.
Takes(c) ==
  /\ ~HasSpent(c)
  /\ \E o \in offered :
       /\ \A s \in spent : s.handle # o.handle
       /\ spent' = spent \cup {[by |-> c, handle |-> o.handle]}

Spends(c) ==
  /\ told[c] = "nothing" /\ request[c] = "unsent"
  /\ Takes(c)
  /\ UNCHANGED <<offered, request, made, told>>

Sends(c) ==
  /\ told[c] = "nothing" /\ request[c] = "unsent"
  /\ HasSpent(c)
  /\ request' = [request EXCEPT ![c] = "open"]
  /\ UNCHANGED <<offered, spent, made, told>>

\* A token was rejected: nothing was written, and the commit may send again.
Returns(c) ==
  /\ told[c] = "nothing" /\ request[c] = "open"
  /\ request' = [request EXCEPT ![c] = "unsent"]
  /\ UNCHANGED <<offered, spent, made, told>>

\* Jisr is done with the request, whether or not the commit has answered.
Settles(c) ==
  /\ request[c] = "open"
  /\ request' = [request EXCEPT ![c] = "settled"]
  /\ \/ \E s \in spent, o \in offered :
          /\ s.by = c /\ o.handle = s.handle
          /\ made' = made \cup {[by |-> c, target |-> o.target]}
     \/ UNCHANGED made
  /\ UNCHANGED <<offered, spent, told>>

\* An answer, after which nothing is sent any more.
Tells(c, word) ==
  /\ told[c] = "nothing"
  /\ told' = [told EXCEPT ![c] = word]
  /\ request' = [request EXCEPT ![c] = IF @ = "unsent" THEN "settled" ELSE @]
  /\ UNCHANGED <<offered, made>>

\* The commit says that nothing was written, perhaps while it spends the offer.
Refuses(c) ==
  /\ request[c] # "open"
  /\ \A write \in made : write.by # c
  /\ Tells(c, "unwritten")
  /\ \/ UNCHANGED spent
     \/ request[c] = "unsent" /\ Takes(c)

\* It says what became of a request that Jisr has accepted.
Reports(c) ==
  /\ request[c] = "settled"
  /\ Tells(c, "handled")
  /\ UNCHANGED spent

\* It says nothing definite.
Wonders(c) ==
  /\ Tells(c, "unknown")
  /\ UNCHANGED spent

\* The process ends: what was not sent never will be.
Stops ==
  /\ request' = [c \in Commits |-> IF request[c] = "unsent" /\ HasSpent(c)
                                   THEN "settled" ELSE request[c]]
  /\ UNCHANGED <<offered, spent, made, told>>

Next ==
  \/ \E handle \in Handles, target \in Targets : Offers(handle, target)
  \/ \E c \in Commits :
       \/ Spends(c) \/ Sends(c) \/ Returns(c) \/ Settles(c)
       \/ Refuses(c) \/ Reports(c) \/ Wonders(c)
  \/ Stops

Spec == Init /\ [][Next]_vars
=============================================================================
