----------------------------- MODULE Confirmation -----------------------------
(***************************************************************************)
(* The store of confirmation references (src/core/writes/confirmation.ts). *)
(*                                                                         *)
(* A reference is a signed token.  The server keeps two tables about it:   *)
(* `consumed`, the nonces already spent, and `pending`, the payload each   *)
(* outstanding reference will submit.  Both tables and the signing key     *)
(* live in the process, so a restart loses all three; the tokens           *)
(* themselves live on in the conversations they were returned to.          *)
(***************************************************************************)
EXTENDS Naturals

CONSTANTS
  Nonces,          \* 96 random bits: never drawn twice
  Organizations,
  Principals,
  Operations,
  Hashes,          \* values of hashTarget
  Payloads,        \* what prepare previews and stashes
  NoStash,         \* Map.get of an absent key: undefined
  TTL,             \* CONFIRMATION_TTL_MS, in ticks
  MaxClock,        \* bound on the wall clock
  MaxEpoch         \* bound on restarts

ASSUME ConfirmationAssumption ==
  /\ TTL \in Nat
  /\ MaxClock \in Nat
  /\ MaxEpoch \in Nat
  /\ NoStash \notin [payload : Payloads, expiresAt : Nat]
  /\ NoStash \notin Payloads

VARIABLES
  now,             \* Date.now()
  epoch,           \* which process runs, and so which SIGNING_KEY signs
  consumed,
  pending,
  issued,          \* every (preview, reference) pair returned by a prepare
  released,        \* what consumeReference has returned, and to whom
  latest           \* the highest clock value reached so far

\* The last three exist for the properties: the process keeps none of them.
vars == <<now, epoch, consumed, pending, issued, released, latest>>

Binding == [organizationId : Organizations, principalRef : Principals,
            operationId : Operations, targetHash : Hashes]

Stash == [payload : Payloads, expiresAt : Nat]

Reference == [nonce : Nonces, binding : Binding, expiresAt : Nat,
              epoch : Nat, preview : Payloads]

Release == [nonce : Nonces, payload : Payloads \cup {NoStash}, to : Binding]

(***************************************************************************)
(* Expired, Verdict and Sweep are the three decisions the store makes.     *)
(***************************************************************************)
\* Mutant: a reference refused at the very millisecond of its expiry.
ExpiredAtBoundary(at, expiresAt) == at >= expiresAt

Expired(at, expiresAt) == at > expiresAt

Spent(nonce) == nonce \in consumed

\* Mutant: the principal and the operation are not compared.
VerdictOfAnyPrincipal(ref, expected) ==
  IF ref.epoch # epoch THEN "WRITE_CONFIRMATION_REQUIRED"
  ELSE IF Expired(now, ref.expiresAt) THEN "WRITE_PREPARATION_EXPIRED"
  ELSE IF ref.binding.organizationId # expected.organizationId
       THEN "ORGANIZATION_MISMATCH"
  ELSE IF ref.binding.targetHash # expected.targetHash
       THEN "WRITE_TARGET_CHANGED"
  ELSE IF Spent(ref.nonce) THEN "WRITE_CONFIRMATION_REQUIRED"
  ELSE "ok"

\* The checks of consumeReference in the order the code makes them; "ok"
\* when none refuses.  A token signed by an earlier process fails the
\* signature check, before any claim in it is read.
Verdict(ref, expected) ==
  IF ref.epoch # epoch THEN "WRITE_CONFIRMATION_REQUIRED"
  ELSE IF Expired(now, ref.expiresAt) THEN "WRITE_PREPARATION_EXPIRED"
  ELSE IF ref.binding.organizationId # expected.organizationId
       THEN "ORGANIZATION_MISMATCH"
  ELSE IF \/ ref.binding.principalRef # expected.principalRef
          \/ ref.binding.operationId # expected.operationId
       THEN "WRITE_CONFIRMATION_REQUIRED"
  ELSE IF ref.binding.targetHash # expected.targetHash
       THEN "WRITE_TARGET_CHANGED"
  ELSE IF Spent(ref.nonce) THEN "WRITE_CONFIRMATION_REQUIRED"
  ELSE "ok"

\* The sweep every issueReference runs over `pending`.
Sweep(stashes) ==
  [n \in Nonces |->
     IF stashes[n] # NoStash /\ Expired(now, stashes[n].expiresAt)
     THEN NoStash ELSE stashes[n]]

Stashed(nonce) ==
  IF pending[nonce] = NoStash THEN NoStash ELSE pending[nonce].payload

-----------------------------------------------------------------------------
Init ==
  /\ now = 0
  /\ epoch = 0
  /\ consumed = {}
  /\ pending = [n \in Nonces |-> NoStash]
  /\ issued = {}
  /\ released = {}
  /\ latest = 0

\* issueReference: expiry is fixed, expired stashes are swept, the payload
\* is stashed, the token signed.
IssueReference(nonce, binding, payload) ==
  LET expiresAt == now + TTL
  IN  /\ \A r \in issued : r.nonce # nonce
      /\ pending' = [Sweep(pending) EXCEPT
                       ![nonce] = [payload |-> payload,
                                   expiresAt |-> expiresAt]]
      /\ issued' = issued \cup
           {[nonce |-> nonce, binding |-> binding, expiresAt |-> expiresAt,
             epoch |-> epoch, preview |-> payload]}
      /\ UNCHANGED <<now, epoch, consumed, released, latest>>

\* Mutant: a reference that is checked and answered but not yet spent.
PeekReference(ref, expected) ==
  /\ Verdict(ref, expected) = "ok"
  /\ released' = released \cup
       {[nonce |-> ref.nonce, payload |-> Stashed(ref.nonce),
         to |-> expected]}
  /\ UNCHANGED <<now, epoch, consumed, pending, issued, latest>>

\* consumeReference when every check passes.  A refusal changes no state.
ConsumeReference(ref, expected) ==
  /\ Verdict(ref, expected) = "ok"
  /\ consumed' = consumed \cup {ref.nonce}
  /\ pending' = [pending EXCEPT ![ref.nonce] = NoStash]
  /\ released' = released \cup
       {[nonce |-> ref.nonce, payload |-> Stashed(ref.nonce),
         to |-> expected]}
  /\ UNCHANGED <<now, epoch, issued, latest>>

\* Mutant: a signing key that outlives the process.
RestartWithSameKey ==
  /\ epoch < MaxEpoch
  /\ consumed # {}
  /\ epoch' = epoch
  /\ consumed' = {}
  /\ pending' = [n \in Nonces |-> NoStash]
  /\ UNCHANGED <<now, issued, released, latest>>

\* A new process: a new random key, empty tables.
Restart ==
  /\ epoch < MaxEpoch
  /\ epoch' = epoch + 1
  /\ consumed' = {}
  /\ pending' = [n \in Nonces |-> NoStash]
  /\ UNCHANGED <<now, issued, released, latest>>

\* Date.now() is the wall clock: it advances, and may be set back.
Tick ==
  /\ now < MaxClock
  /\ now' = now + 1
  /\ latest' = IF now' > latest THEN now' ELSE latest
  /\ UNCHANGED <<epoch, consumed, pending, issued, released>>

SetBack ==
  /\ now > 0
  /\ now' = now - 1
  /\ UNCHANGED <<epoch, consumed, pending, issued, released, latest>>

Next ==
  \/ \E n \in Nonces, b \in Binding, p \in Payloads :
       IssueReference(n, b, p)
  \/ \E r \in issued, b \in Binding : ConsumeReference(r, b)
  \/ Restart
  \/ Tick
  \/ SetBack

Spec == Init /\ [][Next]_vars

-----------------------------------------------------------------------------
TypeOK ==
  /\ now \in Nat
  /\ epoch \in Nat
  /\ consumed \subseteq Nonces
  /\ pending \in [Nonces -> Stash \cup {NoStash}]
  /\ issued \subseteq Reference
  /\ released \subseteq Release
  /\ latest \in Nat

\* A reference from which consumeReference has once returned is accepted
\* from nobody ever again: not by a replay, not after the restart that
\* forgets `consumed`, not after the clock is set back to before its expiry.
SingleUse ==
  \A r \in issued, b \in Binding :
    Verdict(r, b) = "ok" => \A g \in released : g.nonce # r.nonce

\* The other side of refusing: as long as the process that issued a reference
\* runs and the clock has not passed its expiry, its owner's commit is
\* accepted and gets the previewed payload.  No sweep, no other commit and no
\* boundary instant loses it, and the "no longer held" branch of the
\* services is unreachable.
OwnerCanCommit ==
  \A r \in issued :
    (/\ r.epoch = epoch
     /\ latest <= r.expiresAt
     /\ \A g \in released : g.nonce # r.nonce)
    => /\ Verdict(r, r.binding) = "ok"
       /\ Stashed(r.nonce) = r.preview

-----------------------------------------------------------------------------
\* The store implements the promise: an issued reference is an offer, and a
\* release that carries a payload carries it out.
Abstract == INSTANCE PreviewedWrite WITH
  Handles   <- Nonces,
  Callers   <- Binding,
  offered   <- {[handle |-> r.nonce, payload |-> r.preview,
                 caller |-> r.binding] : r \in issued},
  performed <- {[handle |-> g.nonce, payload |-> g.payload,
                 caller |-> g.to] : g \in {h \in released :
                                             h.payload # NoStash}}

\* Whatever consumeReference returns is the payload that prepare previewed,
\* returned once, to the caller, operation and target it was previewed for.
ImplementsPreviewedWrite == Abstract!Spec
=============================================================================
