-------------------------- MODULE ConfirmationProofs --------------------------
(***************************************************************************)
(* Proofs about the confirmation store, for every set of callers,          *)
(* payloads and nonces, every time to live and every bound on the clock    *)
(* and on restarts.                                                        *)
(***************************************************************************)
EXTENDS Confirmation, TLAPS

\* A nonce names one reference.
NoncesUnique == \A r, s \in issued : r.nonce = s.nonce => r = s

\* Every release answers an issued reference, goes to the holder it is bound
\* to and carries its preview or nothing; while the process that issued the
\* reference runs, the nonce stays in `consumed`.
ReleasesAccounted ==
  \A g \in released : \E r \in issued :
    /\ r.nonce = g.nonce
    /\ g.to = r.binding
    /\ g.payload \in {r.preview, NoStash}
    /\ r.epoch <= epoch
    /\ r.epoch = epoch => g.nonce \in consumed

\* Only a release consumes.
ConsumedReleased == \A n \in consumed : \E g \in released : g.nonce = n

\* A stash belongs to an unspent reference of the running process.
StashesAccounted ==
  \A n \in Nonces : pending[n] # NoStash =>
    \E r \in issued :
      /\ r.nonce = n
      /\ r.epoch = epoch
      /\ n \notin consumed
      /\ pending[n] = [payload |-> r.preview, expiresAt |-> r.expiresAt]

\* An unspent reference the clock has never passed still has its stash.
LiveStashesHeld ==
  \A r \in issued :
    (r.epoch = epoch /\ latest <= r.expiresAt /\ r.nonce \notin consumed)
    => pending[r.nonce] = [payload |-> r.preview, expiresAt |-> r.expiresAt]

EpochsPast == \A r \in issued : r.epoch <= epoch

IInv ==
  /\ TypeOK
  /\ now <= latest
  /\ NoncesUnique
  /\ EpochsPast
  /\ ReleasesAccounted
  /\ ConsumedReleased
  /\ StashesAccounted
  /\ LiveStashesHeld

-----------------------------------------------------------------------------
\* An accepted caller presents exactly the binding the reference was issued
\* for: the field-by-field comparison of consumeReference leaves nothing out.
LEMMA AcceptedBinding ==
  ASSUME NEW ref \in Reference, NEW expected \in Binding,
         Verdict(ref, expected) = "ok"
  PROVE  /\ expected = ref.binding
         /\ ref.epoch = epoch
         /\ ref.nonce \notin consumed
<1>1. /\ ref.epoch = epoch
      /\ ref.nonce \notin consumed
      /\ ref.binding.organizationId = expected.organizationId
      /\ ref.binding.principalRef = expected.principalRef
      /\ ref.binding.operationId = expected.operationId
      /\ ref.binding.targetHash = expected.targetHash
  BY DEF Verdict, Spent
<1>2. ref.binding \in Binding
  BY DEF Reference
<1>3. expected = ref.binding
  BY <1>1, <1>2 DEF Binding
<1>4. QED
  BY <1>1, <1>3

\* The sweep keeps the shape of the map and only ever removes entries.
LEMMA SweepRemoves ==
  ASSUME TypeOK
  PROVE  /\ Sweep(pending) \in [Nonces -> Stash \cup {NoStash}]
         /\ \A n \in Nonces : Sweep(pending)[n] \in {pending[n], NoStash}
         /\ \A n \in Nonces :
              (pending[n] # NoStash /\ now <= pending[n].expiresAt)
              => Sweep(pending)[n] = pending[n]
<1>1. \A n \in Nonces : pending[n] # NoStash =>
        pending[n] \in Stash /\ pending[n].expiresAt \in Nat
  BY DEF TypeOK, Stash
<1>2. QED
  BY <1>1 DEF TypeOK, Sweep, Expired

-----------------------------------------------------------------------------
LEMMA InitInv == Init => IInv
BY ConfirmationAssumption
DEF Init, IInv, TypeOK, NoncesUnique, EpochsPast, ReleasesAccounted,
    ConsumedReleased, StashesAccounted, LiveStashesHeld

LEMMA IssueInv ==
  ASSUME IInv, NEW n \in Nonces, NEW b \in Binding, NEW p \in Payloads,
         IssueReference(n, b, p)
  PROVE  IInv'
<1> DEFINE ref == [nonce |-> n, binding |-> b, expiresAt |-> now + TTL,
                   epoch |-> epoch, preview |-> p]
           stash == [payload |-> p, expiresAt |-> now + TTL]
<1>1. /\ now + TTL \in Nat /\ ref \in Reference /\ stash \in Stash
  BY ConfirmationAssumption DEF IInv, TypeOK, Reference, Stash
<1>2. /\ issued' = issued \cup {ref}
      /\ \A r \in issued : r.nonce # n
      /\ pending' = [Sweep(pending) EXCEPT ![n] = stash]
      /\ UNCHANGED <<now, epoch, consumed, released, latest>>
  BY DEF IssueReference
<1>3. /\ Sweep(pending) \in [Nonces -> Stash \cup {NoStash}]
      /\ \A m \in Nonces : Sweep(pending)[m] \in {pending[m], NoStash}
      /\ \A m \in Nonces :
           (pending[m] # NoStash /\ now <= pending[m].expiresAt)
           => Sweep(pending)[m] = pending[m]
  BY SweepRemoves DEF IInv
<1>4. /\ pending'[n] = stash
      /\ \A m \in Nonces \ {n} : pending'[m] = Sweep(pending)[m]
  BY <1>2, <1>3
<1>5. TypeOK'
  BY <1>1, <1>2, <1>3 DEF IInv, TypeOK
<1>6. (now <= latest)' /\ NoncesUnique' /\ EpochsPast'
  BY <1>2 DEF IInv, TypeOK, NoncesUnique, EpochsPast
<1>7. ReleasesAccounted' /\ ConsumedReleased'
  BY <1>2 DEF IInv, ReleasesAccounted, ConsumedReleased
<1>8. n \notin consumed
  <2>1. \A g \in released : g.nonce # n
    BY <1>2 DEF IInv, ReleasesAccounted
  <2>2. QED
    BY <2>1 DEF IInv, ConsumedReleased
<1>9. StashesAccounted'
  <2>1. SUFFICES ASSUME NEW m \in Nonces, pending'[m] # NoStash
                 PROVE  \E r \in issued' :
                          /\ r.nonce = m /\ r.epoch = epoch'
                          /\ m \notin consumed'
                          /\ pending'[m] = [payload |-> r.preview,
                                            expiresAt |-> r.expiresAt]
    BY DEF StashesAccounted
  <2>2. CASE m = n
    BY <2>2, <1>1, <1>2, <1>4, <1>8
  <2>3. CASE m # n
    <3>1. pending'[m] = pending[m]
      BY <2>1, <2>3, <1>3, <1>4
    <3>2. QED
      BY <3>1, <2>1, <1>2 DEF IInv, StashesAccounted
  <2>4. QED
    BY <2>2, <2>3
<1>10. LiveStashesHeld'
  <2>1. SUFFICES ASSUME NEW r \in issued', r.epoch = epoch',
                        latest' <= r.expiresAt, r.nonce \notin consumed'
                 PROVE  pending'[r.nonce] = [payload |-> r.preview,
                                             expiresAt |-> r.expiresAt]
    BY DEF LiveStashesHeld
  <2>2. CASE r = ref
    BY <2>2, <1>4
  <2>3. CASE r \in issued
    <3>1. r.nonce # n /\ r.nonce \in Nonces /\ r \in Reference
      BY <2>3, <1>2 DEF IInv, TypeOK, Reference
    <3>2. pending[r.nonce] = [payload |-> r.preview,
                              expiresAt |-> r.expiresAt]
      BY <2>1, <2>3, <1>2 DEF IInv, LiveStashesHeld
    <3>3. pending[r.nonce] # NoStash
      BY <3>1, <3>2, ConfirmationAssumption DEF Reference, Stash
    <3>4. now <= pending[r.nonce].expiresAt
      BY <2>1, <3>1, <3>2, <1>2 DEF IInv, TypeOK, Reference
    <3>5. pending'[r.nonce] = pending[r.nonce]
      BY <3>1, <3>3, <3>4, <1>3, <1>4
    <3>6. QED
      BY <3>2, <3>5
  <2>4. QED
    BY <2>2, <2>3, <1>2
<1>11. QED
  BY <1>5, <1>6, <1>7, <1>9, <1>10 DEF IInv

LEMMA ConsumeInv ==
  ASSUME IInv, NEW ref \in issued, NEW b \in Binding,
         ConsumeReference(ref, b)
  PROVE  IInv'
<1> DEFINE n == ref.nonce
           rel == [nonce |-> n, payload |-> Stashed(n), to |-> b]
<1>1. /\ ref \in Reference /\ n \in Nonces
  BY DEF IInv, TypeOK, Reference
<1>2. /\ b = ref.binding /\ ref.epoch = epoch /\ n \notin consumed
  BY <1>1, AcceptedBinding DEF ConsumeReference
<1>3. /\ consumed' = consumed \cup {n}
      /\ pending' = [pending EXCEPT ![n] = NoStash]
      /\ released' = released \cup {rel}
      /\ UNCHANGED <<now, epoch, issued, latest>>
  BY DEF ConsumeReference
<1>4. Stashed(n) \in {ref.preview, NoStash}
  <2>1. CASE pending[n] = NoStash
    BY <2>1 DEF Stashed
  <2>2. CASE pending[n] # NoStash
    <3>1. PICK s \in issued :
            /\ s.nonce = n
            /\ pending[n] = [payload |-> s.preview,
                             expiresAt |-> s.expiresAt]
      BY <2>2, <1>1 DEF IInv, StashesAccounted
    <3>2. s = ref
      BY <3>1 DEF IInv, NoncesUnique
    <3>3. QED
      BY <2>2, <3>1, <3>2 DEF Stashed
  <2>3. QED
    BY <2>1, <2>2
<1>5. TypeOK'
  <2>1. ref.preview \in Payloads
    BY <1>1 DEF Reference
  <2>2. rel \in Release
    BY <2>1, <1>1, <1>4 DEF Release
  <2>3. QED
    BY <2>2, <1>1, <1>3 DEF IInv, TypeOK
<1>6. (now <= latest)' /\ NoncesUnique' /\ EpochsPast'
  BY <1>3 DEF IInv, TypeOK, NoncesUnique, EpochsPast
<1>7. ReleasesAccounted'
  <2>1. SUFFICES ASSUME NEW g \in released'
                 PROVE  \E r \in issued :
                          /\ r.nonce = g.nonce /\ g.to = r.binding
                          /\ g.payload \in {r.preview, NoStash}
                          /\ r.epoch <= epoch
                          /\ r.epoch = epoch => g.nonce \in consumed'
    BY <1>3 DEF ReleasesAccounted
  <2>2. CASE g \in released
    BY <2>2, <1>3 DEF IInv, ReleasesAccounted
  <2>3. CASE g = rel
    BY <2>3, <1>2, <1>3, <1>4 DEF IInv, EpochsPast
  <2>4. QED
    BY <2>2, <2>3, <1>3
<1>8. ConsumedReleased'
  <2>1. rel \in released' /\ rel.nonce = n
    BY <1>3
  <2>2. \A m \in consumed : \E g \in released' : g.nonce = m
    BY <1>3 DEF IInv, ConsumedReleased
  <2>3. QED
    BY <2>1, <2>2, <1>3 DEF ConsumedReleased
<1>9. StashesAccounted'
  <2>1. \A m \in Nonces : pending'[m] # NoStash =>
          m # n /\ pending'[m] = pending[m]
    BY <1>1, <1>3 DEF IInv, TypeOK
  <2>2. QED
    BY <2>1, <1>3 DEF IInv, StashesAccounted
<1>10. LiveStashesHeld'
  <2>1. \A m \in Nonces : m # n => pending'[m] = pending[m]
    BY <1>1, <1>3 DEF IInv, TypeOK
  <2>2. \A r \in issued : r.nonce \in Nonces
    BY DEF IInv, TypeOK, Reference
  <2>3. QED
    BY <2>1, <2>2, <1>3 DEF IInv, LiveStashesHeld
<1>11. QED
  BY <1>5, <1>6, <1>7, <1>8, <1>9, <1>10 DEF IInv

LEMMA RestartInv == IInv /\ Restart => IInv'
<1> SUFFICES ASSUME IInv, Restart PROVE IInv'
  OBVIOUS
<1>1. /\ epoch' = epoch + 1 /\ consumed' = {}
      /\ pending' = [n \in Nonces |-> NoStash]
      /\ UNCHANGED <<now, issued, released, latest>>
  BY DEF Restart
<1>2. epoch \in Nat /\ \A r \in issued : r.epoch \in Nat /\ r.epoch <= epoch
  BY DEF IInv, TypeOK, EpochsPast, Reference
<1>3. TypeOK' /\ (now <= latest)' /\ NoncesUnique'
  BY <1>1, <1>2 DEF IInv, TypeOK, NoncesUnique
<1>4. \A r \in issued : r.epoch <= epoch' /\ r.epoch # epoch'
  BY <1>1, <1>2
<1>5. EpochsPast' /\ LiveStashesHeld'
  BY <1>1, <1>4 DEF EpochsPast, LiveStashesHeld
<1>6. ReleasesAccounted'
  BY <1>1, <1>4 DEF IInv, ReleasesAccounted
<1>7. ConsumedReleased' /\ StashesAccounted'
  BY <1>1 DEF ConsumedReleased, StashesAccounted
<1>8. QED
  BY <1>3, <1>5, <1>6, <1>7 DEF IInv

LEMMA ClockInv == IInv /\ (Tick \/ SetBack) => IInv'
<1> SUFFICES ASSUME IInv, Tick \/ SetBack PROVE IInv'
  OBVIOUS
<1>1. UNCHANGED <<epoch, consumed, pending, issued, released>>
  BY DEF Tick, SetBack
<1>2. /\ now' \in Nat /\ latest' \in Nat
      /\ now' <= latest' /\ latest <= latest'
  BY DEF IInv, TypeOK, Tick, SetBack
<1>3. TypeOK' /\ NoncesUnique' /\ EpochsPast' /\ ReleasesAccounted'
      /\ ConsumedReleased' /\ StashesAccounted'
  BY <1>1, <1>2 DEF IInv, TypeOK, NoncesUnique, EpochsPast,
     ReleasesAccounted, ConsumedReleased, StashesAccounted
<1>4. LiveStashesHeld'
  <2>1. \A r \in issued : r.expiresAt \in Nat
    BY DEF IInv, TypeOK, Reference
  <2>2. latest \in Nat
    BY DEF IInv, TypeOK
  <2>3. \A r \in issued : latest' <= r.expiresAt => latest <= r.expiresAt
    BY <2>1, <2>2, <1>2
  <2>4. QED
    BY <2>3, <1>1 DEF IInv, LiveStashesHeld
<1>5. QED
  BY <1>2, <1>3, <1>4 DEF IInv

LEMMA StepInv == IInv /\ [Next]_vars => IInv'
<1> SUFFICES ASSUME IInv, [Next]_vars PROVE IInv'
  OBVIOUS
<1>1. CASE \E n \in Nonces, b \in Binding, p \in Payloads :
             IssueReference(n, b, p)
  BY <1>1, IssueInv
<1>2. CASE \E r \in issued, b \in Binding : ConsumeReference(r, b)
  BY <1>2, ConsumeInv
<1>3. CASE Restart
  BY <1>3, RestartInv
<1>4. CASE Tick \/ SetBack
  BY <1>4, ClockInv
<1>5. CASE UNCHANGED vars
  BY <1>5 DEF vars, IInv, TypeOK, NoncesUnique, EpochsPast,
     ReleasesAccounted, ConsumedReleased, StashesAccounted, LiveStashesHeld
<1>6. QED
  BY <1>1, <1>2, <1>3, <1>4, <1>5 DEF Next

THEOREM Invariance == Spec => []IInv
BY InitInv, StepInv, PTL DEF Spec

-----------------------------------------------------------------------------
\* Every variable keeps its type (confirmation.ts, the two module-level
\* tables and the shape of what they hold).
THEOREM TypeCorrect == Spec => []TypeOK
<1>1. IInv => TypeOK
  BY DEF IInv
<1>2. QED
  BY <1>1, Invariance, PTL

\* No reference is ever accepted twice, across replays, restarts and clock
\* changes.
THEOREM SingleUseHolds == Spec => []SingleUse
<1>1. IInv => SingleUse
  <2>1. SUFFICES ASSUME IInv, NEW r \in issued, NEW b \in Binding,
                        Verdict(r, b) = "ok", NEW g \in released,
                        g.nonce = r.nonce
                 PROVE  FALSE
    BY DEF SingleUse
  <2>2. r.epoch = epoch /\ r.nonce \notin consumed
    BY <2>1, AcceptedBinding DEF IInv, TypeOK
  <2>3. PICK s \in issued : /\ s.nonce = g.nonce
                            /\ s.epoch = epoch => g.nonce \in consumed
    BY <2>1 DEF IInv, ReleasesAccounted
  <2>4. s = r
    BY <2>1, <2>3 DEF IInv, NoncesUnique
  <2>5. QED
    BY <2>1, <2>2, <2>3, <2>4
<1>2. QED
  BY <1>1, Invariance, PTL

\* The owner of an unexpired, unused reference is never turned away.
THEOREM OwnerCanCommitHolds == Spec => []OwnerCanCommit
<1>1. IInv => OwnerCanCommit
  <2>1. SUFFICES ASSUME IInv, NEW r \in issued, r.epoch = epoch,
                        latest <= r.expiresAt,
                        \A g \in released : g.nonce # r.nonce
                 PROVE  /\ Verdict(r, r.binding) = "ok"
                        /\ Stashed(r.nonce) = r.preview
    BY DEF OwnerCanCommit
  <2>2. r \in Reference /\ r.expiresAt \in Nat
    BY <2>1 DEF IInv, TypeOK, Reference
  <2>3. ~Expired(now, r.expiresAt)
    BY <2>1, <2>2 DEF IInv, TypeOK, Expired
  <2>4. r.nonce \notin consumed
    BY <2>1 DEF IInv, ConsumedReleased
  <2>5. Verdict(r, r.binding) = "ok"
    BY <2>1, <2>3, <2>4 DEF Verdict, Spent
  <2>6. pending[r.nonce] = [payload |-> r.preview, expiresAt |-> r.expiresAt]
    BY <2>1, <2>4 DEF IInv, LiveStashesHeld
  <2>7. pending[r.nonce] # NoStash
    BY <2>2, <2>6, ConfirmationAssumption DEF Reference
  <2>8. QED
    BY <2>5, <2>6, <2>7 DEF Stashed
<1>2. QED
  BY <1>1, Invariance, PTL

-----------------------------------------------------------------------------
\* The mapped values of the abstract variables, named for the proof below.
Offered == {[handle |-> r.nonce, payload |-> r.preview,
             caller |-> r.binding] : r \in issued}

Carried == {h \in released : h.payload # NoStash}

Performed == {[handle |-> g.nonce, payload |-> g.payload,
               caller |-> g.to] : g \in Carried}

\* One issue is one abstract preview.
LEMMA IssueRefines ==
  ASSUME IInv, NEW n \in Nonces, NEW b \in Binding, NEW p \in Payloads,
         IssueReference(n, b, p)
  PROVE  Abstract!Next
<1> DEFINE o == [handle |-> n, payload |-> p, caller |-> b]
           ref == [nonce |-> n, binding |-> b, expiresAt |-> now + TTL,
                   epoch |-> epoch, preview |-> p]
<1>1. o \in Abstract!Offer
  BY DEF Abstract!Offer
<1>2. issued' = issued \cup {ref} /\ released' = released
  BY DEF IssueReference
<1>3. Offered' = Offered \cup {o}
  <2>1. o = [handle |-> ref.nonce, payload |-> ref.preview,
             caller |-> ref.binding]
    OBVIOUS
  <2>2. QED
    BY <1>2, <2>1, Zenon DEF Offered
<1>4. Performed' = Performed
  BY <1>2 DEF Performed, Carried
<1>5. o.handle \notin Abstract!Used(Offered)
  BY DEF IssueReference, Abstract!Used, Offered
<1>6. Abstract!Preview(o)
  BY <1>3, <1>4, <1>5 DEF Abstract!Preview, Offered, Performed, Carried
<1>7. QED
  BY <1>1, <1>6 DEF Abstract!Next

\* One consumption carries out the offer, or nothing when no stash is held.
LEMMA ConsumeRefines ==
  ASSUME IInv, NEW ref \in issued, NEW b \in Binding,
         ConsumeReference(ref, b)
  PROVE  Abstract!Next \/ UNCHANGED <<Offered, Performed>>
<1> DEFINE n == ref.nonce
           rel == [nonce |-> n, payload |-> Stashed(n), to |-> b]
           o == [handle |-> n, payload |-> ref.preview, caller |-> b]
<1>1. ref \in Reference
  BY DEF IInv, TypeOK
<1>2. b = ref.binding /\ ref.epoch = epoch /\ n \notin consumed
  BY <1>1, AcceptedBinding DEF ConsumeReference
<1>3. released' = released \cup {rel} /\ issued' = issued
  BY DEF ConsumeReference
<1>4. Offered' = Offered
  BY <1>3 DEF Offered
<1>5. CASE Stashed(n) = NoStash
  <2>1. Carried' = Carried
    BY <1>3, <1>5 DEF Carried
  <2>2. QED
    BY <2>1, <1>4 DEF Performed
<1>6. CASE Stashed(n) # NoStash
  <2>1. pending[n] # NoStash /\ Stashed(n) = pending[n].payload
    BY <1>6 DEF Stashed
  <2>2. PICK s \in issued :
          /\ s.nonce = n
          /\ pending[n] = [payload |-> s.preview, expiresAt |-> s.expiresAt]
    BY <2>1, <1>1 DEF IInv, StashesAccounted, Reference
  <2>3. s = ref
    BY <2>2 DEF IInv, NoncesUnique
  <2>4. Stashed(n) = ref.preview
    BY <2>1, <2>2, <2>3
  <2>5. Carried' = Carried \cup {rel}
    BY <1>3, <1>6 DEF Carried
  <2>6. Performed' = Performed \cup {o}
    <3>1. o = [handle |-> rel.nonce, payload |-> rel.payload,
               caller |-> rel.to]
      BY <2>4
    <3>2. QED
      BY <3>1, <2>5, Zenon DEF Performed
  <2>7. o \in Offered
    BY <1>2 DEF Offered
  <2>8. \A g \in released : g.nonce # n
    <3>1. SUFFICES ASSUME NEW g \in released, g.nonce = n PROVE FALSE
      OBVIOUS
    <3>2. PICK t \in issued : /\ t.nonce = g.nonce
                              /\ t.epoch = epoch => g.nonce \in consumed
      BY DEF IInv, ReleasesAccounted
    <3>3. t = ref
      BY <3>1, <3>2 DEF IInv, NoncesUnique
    <3>4. QED
      BY <3>1, <3>2, <3>3, <1>2
  <2>9. o.handle \notin Abstract!Used(Performed)
    BY <2>8 DEF Abstract!Used, Performed, Carried
  <2>10. o \in Abstract!Offer
    BY <1>1 DEF Abstract!Offer, Reference
  <2>11. Abstract!Perform(o)
    BY <1>4, <2>6, <2>7, <2>9
    DEF Abstract!Perform, Offered, Performed, Carried
  <2>12. QED
    BY <2>10, <2>11 DEF Abstract!Next
<1>7. QED
  BY <1>5, <1>6

\* The store implements the two-step promise: every payload it hands out is
\* one that a prepare previewed, for that caller, and is handed out once.
THEOREM Refinement == Spec => ImplementsPreviewedWrite
<1>1. Init => Abstract!Init
  BY DEF Init, Abstract!Init
<1>2. IInv /\ [Next]_vars => [Abstract!Next]_(Abstract!vars)
  <2> SUFFICES ASSUME IInv, [Next]_vars
               PROVE  Abstract!Next \/ UNCHANGED <<Offered, Performed>>
    BY DEF Abstract!vars, Offered, Performed, Carried
  <2>1. CASE \E n \in Nonces, b \in Binding, p \in Payloads :
               IssueReference(n, b, p)
    BY <2>1, IssueRefines
  <2>2. CASE \E r \in issued, b \in Binding : ConsumeReference(r, b)
    BY <2>2, ConsumeRefines
  <2>3. CASE Restart \/ Tick \/ SetBack \/ UNCHANGED vars
    <3>1. UNCHANGED <<issued, released>>
      BY <2>3 DEF Restart, Tick, SetBack, vars
    <3>2. QED
      BY <3>1 DEF Offered, Performed, Carried
  <2>4. QED
    BY <2>1, <2>2, <2>3 DEF Next
<1>3. QED
  BY <1>1, <1>2, Invariance, PTL
  DEF Spec, ImplementsPreviewedWrite, Abstract!Spec
=============================================================================
