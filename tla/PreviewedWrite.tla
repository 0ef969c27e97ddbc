---------------------------- MODULE PreviewedWrite ----------------------------
(***************************************************************************)
(* What the two-step write protocol of spec 002 promises, with no clock,   *)
(* no signature and no store: a prepare offers one payload to one caller   *)
(* under a fresh handle, and a commit may carry out an offer, exactly as   *)
(* it was previewed, for that caller, at most once.                        *)
(***************************************************************************)
CONSTANTS
  Handles,     \* what names an offer (the nonce of a reference)
  Payloads,    \* what a preview shows
  Callers      \* whom an offer is bound to

VARIABLES
  offered,     \* the offers made so far
  performed    \* the offers carried out

vars == <<offered, performed>>

Offer == [handle: Handles, payload: Payloads, caller: Callers]

Used(offers) == {o.handle : o \in offers}

Init == offered = {} /\ performed = {}

Preview(o) ==
  /\ o.handle \notin Used(offered)
  /\ offered' = offered \cup {o}
  /\ UNCHANGED performed

Perform(o) ==
  /\ o \in offered
  /\ o.handle \notin Used(performed)
  /\ performed' = performed \cup {o}
  /\ UNCHANGED offered

Next == \E o \in Offer : Preview(o) \/ Perform(o)

Spec == Init /\ [][Next]_vars
=============================================================================
