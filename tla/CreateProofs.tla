----------------------------- MODULE CreateProofs ------------------------------
(***************************************************************************)
(* Proofs about the creation of employees and punches, for any number of   *)
(* codes, labels, previews and commits, every lifetime, window and bound.  *)
(* As for the deletion, the proofs about the two stores are taken over     *)
(* from their own modules.  The second half is about the calls as          *)
(* invokeTool makes them: the lines of the trail and the counters.         *)
(***************************************************************************)
EXTENDS Invocation, WriteCallProofs, FiniteSetTheorems

Store == INSTANCE ConfirmationProofs WITH
  Organizations <- {"organization"}, Principals <- {"caller"},
  Hashes <- Submission, Payloads <- Payload

Marks == INSTANCE DuplicateGuardProofs WITH Keys <- Submission

LocalsTypeOK ==
  /\ now <= MaxClock
  /\ hires \in 0..MaxHires
  /\ rows \subseteq Row
  /\ shown \in [Nonces -> Preview \cup {NotShown}]
  /\ reference \in [Commits -> Nonces \cup {NotShown}]
  /\ stashed \in [Commits -> Payload \cup {NoStash}]
  /\ tool \in [Commits -> Operations \cup {"none"}]
  /\ acknowledged \in [Commits -> BOOLEAN]
  /\ reported \in [Commits -> Row \cup {NotShown}]

\* What a preview warns of is in what its prepare has scanned, and who was not
\* scanned was overlooked.
Warns(preview) ==
  /\ preview.duplicate <=>
       /\ preview.input.operation = "createEmployee"
       /\ \E row \in preview.scanned : Resembles(preview.input, row)
  /\ \A row \in preview.existing :
       /\ row.operation = "createEmployee"
       /\ row \in preview.scanned \/ Overlooked(preview, row)

WarningsTrue ==
  \A n \in Nonces : shown[n] # NotShown => Warns(shown[n])

\* A payload is the one that was offered with a preview.
Offered(payload, preview) ==
  /\ payload.submission.operation = preview.input.operation
  /\ payload.submission.code = preview.input.code
  /\ payload.submission.label = preview.input.label
  /\ payload.hasDuplicateWarning = preview.duplicate

ReferencesOffered ==
  \A r \in issued : /\ shown[r.nonce] # NotShown
                    /\ Offered(r.preview, shown[r.nonce])
                    /\ r.binding.operationId = r.preview.submission.operation

StashesOffered ==
  \A c \in Commits : stashed[c] # NoStash =>
    /\ reference[c] # NotShown
    /\ shown[reference[c]] # NotShown
    /\ Offered(stashed[c], shown[reference[c]])
    /\ tool[c] = stashed[c].submission.operation

\* A commit's reference was released to it, and to no other.
ReferencesApart ==
  /\ \A c \in Commits : reference[c] # NotShown =>
       \E g \in released : g.nonce = reference[c]
  /\ \A c, d \in Commits : c # d /\ reference[c] # NotShown
                           => reference[c] # reference[d]

IdleIsFresh ==
  \A c \in Commits : at[c] = "idle" =>
    /\ reference[c] = NotShown /\ stashed[c] = NoStash
    /\ passed[c] = NoPass /\ reported[c] = NotShown

\* What is sent, or was, has passed the warning.  (No creation revalidates.)
SentIsHeld ==
  \A c \in Commits :
    (\/ at[c] \in {"revalidating", "revalidated", "submitting", "rereading"}
     \/ reply[c] # "unsent" \/ reported[c] # NotShown)
    => /\ stashed[c] # NoStash
       /\ ~WarningStands(stashed[c], acknowledged[c])

RowsSent ==
  \A row \in rows : row.by \in Commits =>
    /\ reply[row.by] \in Statuses /\ MayHaveWritten(reply[row.by])
    /\ row.operation = tool[row.by]
    /\ row.code = stashed[row.by].submission.code
    /\ row.label = stashed[row.by].submission.label

Finds(submission, row) ==
  row.operation = submission.operation /\ row.code = submission.code

ReportedFound ==
  \A c \in Commits : reported[c] # NotShown =>
    Finds(stashed[c].submission, reported[c])

PassesAcknowledged ==
  \A c \in Commits : passed[c] # NoPass =>
    acknowledged[c] = passed[c].acknowledged

PreviewsInv == WarningsTrue /\ ReferencesOffered

ProtocolInv ==
  /\ CallsInv
  /\ LocalsTypeOK
  /\ PreviewsInv
  /\ StashesOffered /\ ReferencesApart
  /\ IdleIsFresh /\ SentIsHeld
  /\ RowsSent /\ ReportedFound
  /\ PassesAcknowledged /\ RepeatIsAcknowledged

CreateInv == Store!IInv /\ Marks!GInv /\ ProtocolInv

-----------------------------------------------------------------------------
(* The stores.                                                             *)

LEMMA StoreAssumption == Store!ConfirmationAssumption
BY RecordCreateAssumption DEF Store!ConfirmationAssumption

LEMMA MarksAssumption == Marks!DuplicateGuardAssumption
BY RecordCreateAssumption DEF Marks!DuplicateGuardAssumption

LEMMA SameVerdict == \A r, b : Conf!Verdict(r, b) = Store!Verdict(r, b)
BY DEF Conf!Verdict, Store!Verdict, Conf!Expired, Store!Expired,
       Conf!Spent, Store!Spent

LEMMA SameStashed == \A n : Conf!Stashed(n) = Store!Stashed(n)
BY DEF Conf!Stashed, Store!Stashed

LEMMA IssueKeepsStore ==
  ASSUME Store!IInv, NEW n \in Nonces, NEW p \in Payload,
         Conf!IssueReference(n, BindingFor(p.submission), p)
  PROVE  Store!IInv'
<1>1. Store!IssueReference(n, BindingFor(p.submission), p)
  BY DEF Conf!IssueReference, Store!IssueReference, Conf!Sweep, Store!Sweep,
         Conf!Expired, Store!Expired
<1>2. BindingFor(p.submission) \in Store!Binding
  BY DEF BindingFor, Store!Binding, Payload, Submission
<1>3. QED
  BY <1>1, <1>2, StoreAssumption, Store!IssueInv

\* What a commit of a tool gets for its reference: the reference was issued
\* for that tool and never released before, and the stash is the preview.
LEMMA ConsumeKeepsStore ==
  ASSUME Store!IInv, NEW r \in issued, NEW operation \in Operations,
         NEW b, b = [BindingFor(r.binding.targetHash) EXCEPT
                       !.operationId = operation],
         Conf!Verdict(r, b) = "ok",
         Conf!ConsumeReference(r, b)
  PROVE  /\ Store!IInv'
         /\ r.nonce \in Nonces
         /\ r.binding.operationId = operation
         /\ \A g \in released : g.nonce # r.nonce
         /\ Conf!Stashed(r.nonce) \in {r.preview, NoStash}
         /\ r.preview \in Payload
         /\ \E g \in released' : g.nonce = r.nonce
         /\ released \subseteq released'
<1>1. /\ r \in Store!Reference /\ r.nonce \in Nonces
      /\ r.binding.targetHash \in Submission /\ r.preview \in Payload
  BY DEF Store!IInv, Store!TypeOK, Store!Reference, Store!Binding
<1>2. b \in Store!Binding /\ b.operationId = operation
  BY <1>1 DEF BindingFor, Store!Binding
<1>3. Store!Verdict(r, b) = "ok"
  BY SameVerdict
<1>4. Store!ConsumeReference(r, b)
  BY <1>3, SameStashed DEF Conf!ConsumeReference, Store!ConsumeReference
<1>5. Store!IInv'
  BY <1>2, <1>4, StoreAssumption, Store!ConsumeInv
<1>6. b = r.binding /\ r.epoch = epoch /\ r.nonce \notin consumed
  BY <1>1, <1>2, <1>3, StoreAssumption, Store!AcceptedBinding
<1>7. \A g \in released : g.nonce # r.nonce
  <2>1. SUFFICES ASSUME NEW g \in released, g.nonce = r.nonce PROVE FALSE
    OBVIOUS
  <2>2. PICK s \in issued : s.nonce = g.nonce
                            /\ (s.epoch = epoch => g.nonce \in consumed)
    BY DEF Store!IInv, Store!ReleasesAccounted
  <2>3. s = r
    BY <2>1, <2>2 DEF Store!IInv, Store!NoncesUnique
  <2>4. QED
    BY <1>6, <2>1, <2>2, <2>3
<1>8. Conf!Stashed(r.nonce) \in {r.preview, NoStash}
  <2>1. CASE pending[r.nonce] = NoStash
    BY <2>1 DEF Conf!Stashed
  <2>2. CASE pending[r.nonce] # NoStash
    <3>1. PICK s \in issued :
            /\ s.nonce = r.nonce
            /\ pending[r.nonce] = [payload |-> s.preview,
                                   expiresAt |-> s.expiresAt]
      BY <2>2, <1>1 DEF Store!IInv, Store!StashesAccounted
    <3>2. s = r
      BY <3>1 DEF Store!IInv, Store!NoncesUnique
    <3>3. QED
      BY <2>2, <3>1, <3>2 DEF Conf!Stashed
  <2>3. QED
    BY <2>1, <2>2
<1>9. (\E g \in released' : g.nonce = r.nonce) /\ released \subseteq released'
  <2> DEFINE rel == [nonce |-> r.nonce, payload |-> Conf!Stashed(r.nonce),
                     to |-> b]
  <2>1. rel.nonce = r.nonce /\ released' = released \cup {rel}
    BY DEF Conf!ConsumeReference
  <2> HIDE DEF rel
  <2>2. QED
    BY <2>1
<1>10. QED
  BY <1>1, <1>2, <1>5, <1>6, <1>7, <1>8, <1>9

LEMMA StoresKept ==
  ASSUME Store!IInv, Marks!GInv, UNCHANGED <<confirmationVars, guardVars>>
  PROVE  Store!IInv' /\ Marks!GInv'
<1>1. UNCHANGED Store!vars /\ UNCHANGED Marks!vars
  BY DEF confirmationVars, guardVars, Store!vars, Marks!vars
<1>2. Store!IInv'
  BY <1>1, StoreAssumption, Store!StepInv
<1>3. Marks!GInv'
  BY <1>1, MarksAssumption, Marks!StepInv
<1>4. QED
  BY <1>2, <1>3

LEMMA MarksKept ==
  ASSUME Marks!GInv, UNCHANGED <<now, epoch, seen, passed>>
  PROVE  Marks!GInv'
<1>1. UNCHANGED Marks!vars
  BY DEF Marks!vars
<1>2. QED
  BY <1>1, MarksAssumption, Marks!StepInv

LEMMA RestartKeepsStores ==
  ASSUME Store!IInv, Marks!GInv, Conf!Restart, Guard!Restart
  PROVE  Store!IInv' /\ Marks!GInv'
<1>1. Store!Restart /\ Marks!Restart
  BY DEF Conf!Restart, Guard!Restart, Store!Restart, Marks!Restart
<1>2. QED
  BY <1>1, StoreAssumption, MarksAssumption, Store!RestartInv,
     Marks!RestartInv

LEMMA TickKeepsStores ==
  ASSUME Store!IInv, Marks!GInv, Conf!Tick, Guard!Tick
  PROVE  Store!IInv' /\ Marks!GInv'
<1>1. Store!Tick /\ Marks!Tick
  BY DEF Conf!Tick, Guard!Tick, Store!Tick, Marks!Tick
<1>2. QED
  BY <1>1, StoreAssumption, MarksAssumption, Store!ClockInv, Marks!TickInv

\* A commit that passes the guard without an acknowledgement is more than the
\* window away from every other of its process with the same submission.
LEMMA GuardKeepsMarks ==
  ASSUME Marks!GInv, NEW who \in Commits, NEW key \in Submission,
         NEW ack \in BOOLEAN, Guard!AssertNotDuplicate(who, key, ack)
  PROVE  /\ Marks!GInv'
         /\ \/ passed' = passed
            \/ /\ passed[who] = NoPass
               /\ passed' = [passed EXCEPT ![who] =
                    [key |-> key, at |-> now, acknowledged |-> ack,
                     epoch |-> epoch]]
               /\ ~ack => \A e \in Commits :
                    (/\ e # who /\ passed[e] # NoPass
                     /\ passed[e].key = key /\ passed[e].epoch = epoch)
                    => now > passed[e].at + Window
<1>1. Marks!AssertNotDuplicate(who, key, ack)
  BY DEF Guard!AssertNotDuplicate, Marks!AssertNotDuplicate,
         Guard!Suspected, Marks!Suspected, Guard!Swept, Marks!Swept,
         Guard!Recent, Marks!Recent
<1>2. Marks!GInv'
  BY <1>1, MarksAssumption, Marks!AssertInv
<1>3. Marks!RepeatsNothingRecent
  BY <1>1, MarksAssumption, Marks!RepeatRefused DEF Marks!Next
<1>4. ASSUME passed' # passed
      PROVE  /\ passed[who] = NoPass
             /\ passed' = [passed EXCEPT ![who] =
                  [key |-> key, at |-> now, acknowledged |-> ack,
                   epoch |-> epoch]]
             /\ ~ack => \A e \in Commits :
                  (/\ e # who /\ passed[e] # NoPass
                   /\ passed[e].key = key /\ passed[e].epoch = epoch)
                  => now > passed[e].at + Window
  <2> DEFINE pass == [key |-> key, at |-> now, acknowledged |-> ack,
                      epoch |-> epoch]
  <2>1. passed' = [passed EXCEPT ![who] = pass] /\ passed[who] = NoPass
    BY <1>4 DEF Guard!AssertNotDuplicate
  <2>2. /\ passed \in [Commits -> Marks!Pass \cup {NoPass}]
        /\ now \in Nat /\ epoch \in Nat
    BY DEF Marks!GInv, Marks!TypeOK
  <2>3. pass # NoPass
    <3>1. pass \in [key : Submission, at : Nat, acknowledged : BOOLEAN,
                    epoch : Nat]
      BY <2>2
    <3>2. QED
      BY <3>1, RecordCreateAssumption
  <2>4. passed'[who] = pass
    BY <2>1, <2>2
  <2>5. ASSUME ~ack, NEW e \in Commits, e # who, passed[e] # NoPass,
               passed[e].key = key, passed[e].epoch = epoch
        PROVE  now > passed[e].at + Window
    <3>1. now - passed[e].at > Window
      BY <1>3, <2>1, <2>3, <2>4, <2>5 DEF Marks!RepeatsNothingRecent
    <3>2. passed[e].at \in Nat
      BY <2>2, <2>5 DEF Marks!Pass
    <3>3. QED
      BY <3>1, <3>2, <2>2, RecordCreateAssumption
  <2>6. QED
    BY <2>1, <2>5
<1>5. QED
  BY <1>2, <1>4

-----------------------------------------------------------------------------
(* The steps of the protocol.                                              *)

LEMMA ProtocolHolds == Init => ProtocolInv
<1>1. SUFFICES ASSUME Init PROVE ProtocolInv
  OBVIOUS
<1>2. CallsInv
  BY <1>1, IdleHolds DEF Init
<1>3. LocalsTypeOK
  BY <1>1, RecordCreateAssumption DEF Init, Conf!Init, LocalsTypeOK
<1>4. PreviewsInv /\ StashesOffered /\ ReferencesApart
  BY <1>1 DEF Init, Conf!Init, PreviewsInv, WarningsTrue, ReferencesOffered,
              StashesOffered, ReferencesApart
<1>5. IdleIsFresh /\ SentIsHeld
  BY <1>1 DEF Init, Guard!Init, CallsIdle, IdleIsFresh, SentIsHeld
<1>6. RowsSent /\ ReportedFound
  BY <1>1 DEF Init, RowsSent, ReportedFound
<1>7. PassesAcknowledged /\ RepeatIsAcknowledged
  BY <1>1 DEF Init, Guard!Init, PassesAcknowledged, RepeatIsAcknowledged
<1>8. QED
  BY <1>2, <1>3, <1>4, <1>5, <1>6, <1>7 DEF ProtocolInv

LEMMA PreviewsStand ==
  ASSUME PreviewsInv, UNCHANGED <<issued, shown>>
  PROVE  PreviewsInv'
BY DEF PreviewsInv, WarningsTrue, ReferencesOffered, Offered

\* What leaves the commits and Jisr alone keeps all that is said of them.
LEMMA ProtocolStands ==
  ASSUME ProtocolInv, PreviewsInv', LocalsTypeOK',
         \A n \in Nonces : shown[n] # NotShown => shown'[n] = shown[n],
         UNCHANGED <<released, jisrVars, localVars, callVars, passed>>
  PROVE  ProtocolInv'
<1>1. CallsInv'
  BY StutterKeeps DEF ProtocolInv
<1>2. StashesOffered'
  BY DEF ProtocolInv, LocalsTypeOK, StashesOffered, Offered, localVars
<1>3. ReferencesApart' /\ IdleIsFresh' /\ SentIsHeld'
  BY DEF ProtocolInv, ReferencesApart, IdleIsFresh, SentIsHeld, WarningStands,
         localVars, callVars
<1>4. RowsSent' /\ ReportedFound'
  BY DEF ProtocolInv, RowsSent, ReportedFound, Finds, localVars,
         callVars, jisrVars
<1>5. PassesAcknowledged' /\ RepeatIsAcknowledged'
  BY DEF ProtocolInv, PassesAcknowledged, RepeatIsAcknowledged, localVars
<1>6. QED
  BY <1>1, <1>2, <1>3, <1>4, <1>5 DEF ProtocolInv

LEMMA PrepareReadsKeeps ==
  ASSUME ProtocolInv, epoch \in Nat, \A r \in issued : r.nonce \in Nonces,
         NEW n \in Nonces, NEW input \in Input, PrepareReads(n, input)
  PROVE  ProtocolInv'
<1>1. PICK scanned \in Reads(Employees, EmployeesScanned) :
        shown' = [shown EXCEPT ![n] =
                   [input |-> input,
                    duplicate |-> HasDuplicate(input, scanned),
                    existing |-> Employees, scanned |-> scanned,
                    epoch |-> epoch]]
  BY DEF PrepareReads
<1> DEFINE preview == [input |-> input,
                       duplicate |-> HasDuplicate(input, scanned),
                       existing |-> Employees, scanned |-> scanned,
                       epoch |-> epoch]
<1>2. /\ shown[n] = NotShown
      /\ shown' = [shown EXCEPT ![n] = preview]
      /\ UNCHANGED <<jisrVars, localVars, callVars, issued, released, passed,
                     now>>
  BY <1>1 DEF PrepareReads, confirmationVars, guardVars
<1>3. /\ scanned \subseteq Employees /\ Employees \subseteq Row
      /\ scanned = Employees \/ ~Holds(EmployeesScanned, Employees)
  BY DEF Reads, Employees, ProtocolInv, LocalsTypeOK
<1>4. preview \in Preview
  BY <1>3 DEF HasDuplicate, Preview
<1>5. LocalsTypeOK'
  BY <1>2, <1>4 DEF ProtocolInv, LocalsTypeOK, jisrVars, localVars
<1>6. \A m \in Nonces : shown[m] # NotShown => shown'[m] = shown[m]
  BY <1>2 DEF ProtocolInv, LocalsTypeOK
<1>7. WarningsTrue'
  <2>1. Warns(preview)
    BY <1>3 DEF Warns, HasDuplicate, Overlooked, Employees
  <2>2. \A m \in Nonces : shown'[m] = preview \/ shown'[m] = shown[m]
    BY <1>2 DEF ProtocolInv, LocalsTypeOK
  <2> HIDE DEF preview
  <2>3. QED
    BY <2>1, <2>2 DEF ProtocolInv, PreviewsInv, WarningsTrue
<1>8. ReferencesOffered'
  BY <1>2, <1>6 DEF ProtocolInv, PreviewsInv, ReferencesOffered, Offered
<1>9. QED
  BY <1>2, <1>5, <1>6, <1>7, <1>8, ProtocolStands DEF PreviewsInv

\* What prepare sends out of what it was asked for.
LEMMA SubmissionsAreOffered ==
  ASSUME LocalsTypeOK, now \in Nat, NEW n \in Nonces, shown[n] # NotShown
  PROVE  LET payload == [submission |-> ToSubmission(shown[n].input),
                         hasDuplicateWarning |-> shown[n].duplicate]
         IN  payload \in Payload /\ Offered(payload, shown[n])
<1>1. shown[n] \in Preview
  BY DEF LocalsTypeOK
<1>2. now \in 0..MaxClock /\ 0 \in 0..MaxClock
  BY RecordCreateAssumption DEF LocalsTypeOK
<1>3. ToSubmission(shown[n].input) \in Submission
  BY <1>1, <1>2, RecordCreateAssumption
  DEF ToSubmission, Submission, Preview, Input
<1>4. QED
  BY <1>1, <1>3 DEF Payload, Preview, Offered, ToSubmission

LEMMA PrepareIssuesKeeps ==
  ASSUME ProtocolInv, now \in Nat, NEW n \in Nonces, PrepareIssues(n)
  PROVE  ProtocolInv'
<1> DEFINE submission == ToSubmission(shown[n].input)
           payload == [submission |-> submission,
                       hasDuplicateWarning |-> shown[n].duplicate]
           ref == [nonce |-> n, binding |-> BindingFor(submission),
                   expiresAt |-> now + TTL, epoch |-> epoch,
                   preview |-> payload]
<1>1. /\ shown[n] # NotShown
      /\ issued' = issued \cup {ref}
      /\ UNCHANGED <<jisrVars, localVars, callVars, shown, released, passed,
                     now>>
  BY DEF PrepareIssues, Conf!IssueReference, guardVars
<1>2. LocalsTypeOK'
  BY <1>1 DEF ProtocolInv, LocalsTypeOK, jisrVars, localVars
<1>3. /\ ref.nonce = n /\ Offered(ref.preview, shown[n])
      /\ ref.binding.operationId = ref.preview.submission.operation
  BY <1>1, SubmissionsAreOffered DEF ProtocolInv, BindingFor
<1> HIDE DEF ref
<1>4. PreviewsInv'
  BY <1>1, <1>3 DEF ProtocolInv, PreviewsInv, WarningsTrue,
                    ReferencesOffered, Offered
<1>5. QED
  BY <1>1, <1>2, <1>4, ProtocolStands

\* The verdicts that refuse a reference are codes of answers.
LEMMA VerdictsAreAnswers ==
  \A r, b : Conf!Verdict(r, b) \in AnswerCodes \cup {"ok"}
BY DEF Conf!Verdict, AnswerCodes

\* Where a commit is answered that has not come to its last read.
Earlier == Stages \ {"reread"}

\* A commit that is answered, or goes on, before anything is sent.
LEMMA BeginsCalls ==
  ASSUME CallsInv, NEW c \in Commits, at[c] = "idle",
         NEW stage \in Earlier, NEW code \in AnswerCodes,
         Answer(c, stage, code) \/ Goto(c, "submitting")
  PROVE  /\ CallsInv'
         /\ reply' = reply /\ reply[c] = "unsent"
         /\ at'[c] # "idle"
         /\ \A d \in Commits \ {c} : at'[d] = at[d]
<1>1. reply[c] = "unsent"
  BY DEF CallsInv, SentIsPast
<1>2. CASE Answer(c, stage, code)
  BY <1>1, <1>2, AnswerKeeps
  DEF Earlier, Unwritten, Answer, CallsInv, CallsTypeOK
<1>3. CASE Goto(c, "submitting")
  <2>1. CallsInv'
    BY <1>1, <1>3, GotoKeeps DEF Places
  <2>2. QED
    BY <1>1, <1>3, <2>1 DEF Goto, CallsInv, CallsTypeOK
<1>4. QED
  BY <1>2, <1>3

\* A commit that is refused its reference.
LEMMA RefusedKeeps ==
  ASSUME ProtocolInv, NEW c \in Commits, NEW code \in AnswerCodes,
         NEW operation \in Operations, NEW ack \in BOOLEAN,
         at[c] = "idle", Answer(c, "consume", code),
         tool' = [tool EXCEPT ![c] = operation],
         acknowledged' = [acknowledged EXCEPT ![c] = ack],
         UNCHANGED <<confirmationVars, guardVars, jisrVars, shown, reference,
                     stashed, reported>>
  PROVE  ProtocolInv'
<1>1. /\ CallsInv' /\ reply' = reply /\ reply[c] = "unsent"
      /\ at'[c] = "answered" /\ \A d \in Commits \ {c} : at'[d] = at[d]
  BY BeginsCalls
  DEF Earlier, Stages, Answer, ProtocolInv, CallsInv, CallsTypeOK
<1>2. /\ UNCHANGED <<now, issued, released, passed, rows, hires>>
      /\ tool'[c] = operation /\ acknowledged'[c] = ack
      /\ \A d \in Commits \ {c} : tool'[d] = tool[d]
                                  /\ acknowledged'[d] = acknowledged[d]
  BY DEF confirmationVars, guardVars, jisrVars, ProtocolInv, LocalsTypeOK
<1>3. /\ stashed[c] = NoStash /\ reference[c] = NotShown
      /\ passed[c] = NoPass /\ reported[c] = NotShown
  BY DEF ProtocolInv, IdleIsFresh
<1>4. LocalsTypeOK' /\ PreviewsInv'
  BY <1>2, PreviewsStand DEF ProtocolInv, LocalsTypeOK
<1>5. StashesOffered' /\ ReferencesApart'
  BY <1>2, <1>3 DEF ProtocolInv, StashesOffered, ReferencesApart, Offered
<1>6. IdleIsFresh' /\ SentIsHeld'
  BY <1>1, <1>2, <1>3
  DEF ProtocolInv, IdleIsFresh, SentIsHeld, WarningStands
<1>7. RowsSent' /\ ReportedFound'
  <2>1. \A row \in rows : row.by # c
    BY <1>1 DEF ProtocolInv, RowsSent, Statuses
  <2>2. RowsSent'
    BY <1>1, <1>2, <2>1 DEF ProtocolInv, RowsSent
  <2>3. QED
    BY <2>2 DEF ProtocolInv, ReportedFound, Finds
<1>8. PassesAcknowledged' /\ RepeatIsAcknowledged'
  BY <1>2, <1>3 DEF ProtocolInv, PassesAcknowledged, RepeatIsAcknowledged
<1>9. QED
  BY <1>1, <1>4, <1>5, <1>6, <1>7, <1>8 DEF ProtocolInv

\* A commit that has spent its reference: it is answered, or sends.
LEMMA SpentKeeps ==
  ASSUME ProtocolInv, NEW c \in Commits, NEW operation \in Operations,
         NEW ack \in BOOLEAN, NEW r \in issued, NEW stash,
         NEW stage \in Earlier, NEW code \in AnswerCodes,
         at[c] = "idle",
         \/ Answer(c, stage, code)
         \/ /\ Goto(c, "submitting")
            /\ stash # NoStash /\ ~WarningStands(stash, ack),
         r.nonce \in Nonces, r.preview \in Payload,
         r.binding.operationId = operation,
         \A g \in released : g.nonce # r.nonce,
         stash \in {r.preview, NoStash},
         \E g \in released' : g.nonce = r.nonce,
         released \subseteq released',
         reference' = [reference EXCEPT ![c] = r.nonce],
         stashed' = [stashed EXCEPT ![c] = stash],
         tool' = [tool EXCEPT ![c] = operation],
         acknowledged' = [acknowledged EXCEPT ![c] = ack],
         UNCHANGED <<now, issued, jisrVars, shown, reported>>,
         PassesAcknowledged', RepeatIsAcknowledged',
         \A d \in Commits \ {c} : passed'[d] = passed[d]
  PROVE  ProtocolInv'
<1>1. /\ CallsInv' /\ reply' = reply /\ reply[c] = "unsent"
      /\ at'[c] # "idle" /\ \A d \in Commits \ {c} : at'[d] = at[d]
  BY BeginsCalls DEF ProtocolInv
<1>2. /\ UNCHANGED <<rows, hires>>
      /\ tool'[c] = operation /\ acknowledged'[c] = ack
      /\ reference'[c] = r.nonce /\ stashed'[c] = stash
      /\ \A d \in Commits \ {c} :
           tool'[d] = tool[d] /\ acknowledged'[d] = acknowledged[d]
           /\ reference'[d] = reference[d] /\ stashed'[d] = stashed[d]
  BY DEF jisrVars, ProtocolInv, LocalsTypeOK
<1>3. reported[c] = NotShown
  BY DEF ProtocolInv, IdleIsFresh
<1>4. r.nonce # NotShown
  BY RecordCreateAssumption
<1>5. /\ shown[r.nonce] # NotShown
      /\ Offered(r.preview, shown[r.nonce])
      /\ operation = r.preview.submission.operation
  BY DEF ProtocolInv, PreviewsInv, ReferencesOffered
<1>6. LocalsTypeOK' /\ PreviewsInv'
  BY <1>2, PreviewsStand DEF ProtocolInv, LocalsTypeOK
<1>7. StashesOffered'
  BY <1>2, <1>4, <1>5 DEF ProtocolInv, StashesOffered, Offered
<1>8. ReferencesApart'
  BY <1>2 DEF ProtocolInv, ReferencesApart
<1>9. \/ at'[c] \notin {"revalidating", "revalidated", "submitting",
                      "rereading"}
      \/ stash # NoStash /\ ~WarningStands(stash, ack)
  BY DEF Answer, ProtocolInv, CallsInv, CallsTypeOK
<1>10. IdleIsFresh' /\ SentIsHeld'
  BY <1>1, <1>2, <1>3, <1>9
  DEF ProtocolInv, IdleIsFresh, SentIsHeld, WarningStands
<1>11. RowsSent' /\ ReportedFound'
  <2>1. \A row \in rows : row.by # c
    BY <1>1 DEF ProtocolInv, RowsSent, Statuses
  <2>2. RowsSent'
    BY <1>1, <1>2, <2>1 DEF ProtocolInv, RowsSent
  <2>3. QED
    BY <1>2, <1>3, <2>2 DEF ProtocolInv, ReportedFound, Finds
<1>12. QED
  BY <1>1, <1>6, <1>7, <1>8, <1>10, <1>11 DEF ProtocolInv

LEMMA CommitBeginsKeeps ==
  ASSUME CreateInv, NEW c \in Commits, NEW operation \in Operations,
         NEW r \in issued, NEW ack \in BOOLEAN,
         CommitBegins(c, operation, r, ack)
  PROVE  CreateInv'
<1> DEFINE b == [BindingFor(r.binding.targetHash) EXCEPT
                   !.operationId = operation]
           verdict == Conf!Verdict(r, b)
           stash == Conf!Stashed(r.nonce)
<1>1. Store!IInv /\ Marks!GInv /\ ProtocolInv
  BY DEF CreateInv
<1>2. /\ at[c] = "idle"
      /\ tool' = [tool EXCEPT ![c] = operation]
      /\ acknowledged' = [acknowledged EXCEPT ![c] = ack]
      /\ UNCHANGED <<jisrVars, shown, reported>>
  BY DEF CommitBegins
<1>3. ASSUME verdict # "ok" PROVE CreateInv'
  <2>1. /\ Answer(c, "consume", verdict)
        /\ UNCHANGED <<confirmationVars, guardVars, reference, stashed>>
    BY <1>3 DEF CommitBegins
  <2>2. verdict \in AnswerCodes
    BY <1>3, VerdictsAreAnswers
  <2>3. ProtocolInv'
    BY <1>1, <1>2, <2>1, <2>2, RefusedKeeps
  <2>4. QED
    BY <1>1, <2>1, <2>3, StoresKept DEF CreateInv
<1>4. ASSUME verdict = "ok" PROVE CreateInv'
  <2>1. /\ Conf!ConsumeReference(r, b)
        /\ reference' = [reference EXCEPT ![c] = r.nonce]
        /\ stashed' = [stashed EXCEPT ![c] = stash]
        /\ \/ /\ stash = NoStash \/ WarningStands(stash, ack)
              /\ \E stage \in Earlier, code \in AnswerCodes :
                   Answer(c, stage, code)
              /\ UNCHANGED guardVars
           \/ /\ stash # NoStash /\ ~WarningStands(stash, ack)
              /\ Guard!AssertNotDuplicate(c, stash.submission, ack)
              /\ \/ \E stage \in Earlier, code \in AnswerCodes :
                      Answer(c, stage, code)
                 \/ Goto(c, "submitting")
    <3>1. /\ {"consume", "warning", "guard"} \subseteq Earlier
          /\ {"WRITE_PREPARATION_EXPIRED", "DUPLICATE_WRITE_SUSPECTED"}
               \subseteq AnswerCodes
      BY DEF Earlier, Stages, AnswerCodes
    <3>2. /\ Conf!ConsumeReference(r, b)
          /\ reference' = [reference EXCEPT ![c] = r.nonce]
          /\ stashed' = [stashed EXCEPT ![c] = stash]
          /\ IF stash = NoStash
             THEN /\ Answer(c, "consume", "WRITE_PREPARATION_EXPIRED")
                  /\ UNCHANGED guardVars
             ELSE IF WarningStands(stash, ack)
             THEN /\ Answer(c, "warning", "DUPLICATE_WRITE_SUSPECTED")
                  /\ UNCHANGED guardVars
             ELSE /\ Guard!AssertNotDuplicate(c, stash.submission, ack)
                  /\ IF Guard!Suspected(stash.submission, ack)
                     THEN Answer(c, "guard", "DUPLICATE_WRITE_SUSPECTED")
                     ELSE Goto(c, "submitting")
      BY <1>4 DEF CommitBegins
    <3>3. QED
      BY <3>1, <3>2
  <2>2. /\ Store!IInv'
        /\ r.nonce \in Nonces
        /\ r.binding.operationId = operation
        /\ \A g \in released : g.nonce # r.nonce
        /\ stash \in {r.preview, NoStash}
        /\ r.preview \in Payload
        /\ \E g \in released' : g.nonce = r.nonce
        /\ released \subseteq released'
    BY <1>1, <1>4, <2>1, ConsumeKeepsStore
  <2>3. UNCHANGED <<now, epoch, issued>>
    BY <2>1 DEF Conf!ConsumeReference
  <2>4. /\ Marks!GInv'
        /\ \/ passed' = passed
           \/ /\ passed[c] = NoPass
              /\ passed' = [passed EXCEPT ![c] =
                   [key |-> stash.submission, at |-> now,
                    acknowledged |-> ack, epoch |-> epoch]]
              /\ ~ack => \A e \in Commits :
                   (/\ e # c /\ passed[e] # NoPass
                    /\ passed[e].key = stash.submission
                    /\ passed[e].epoch = epoch)
                   => now > passed[e].at + Window
    <3>1. CASE UNCHANGED guardVars
      BY <1>1, <2>3, <3>1, MarksKept DEF guardVars
    <3>2. CASE /\ stash # NoStash
               /\ Guard!AssertNotDuplicate(c, stash.submission, ack)
      <4>1. stash.submission \in Submission
        BY <2>2, <3>2 DEF Payload
      <4>2. QED
        BY <1>1, <3>2, <4>1, GuardKeepsMarks
    <3>3. QED
      BY <2>1, <3>1, <3>2
  <2>5. passed \in [Commits -> Marks!Pass \cup {NoPass}] /\ passed[c] = NoPass
    BY <1>1, <1>2 DEF Marks!GInv, Marks!TypeOK, ProtocolInv, IdleIsFresh
  <2>6. /\ acknowledged'[c] = ack
        /\ \A d \in Commits \ {c} : acknowledged'[d] = acknowledged[d]
                                    /\ passed'[d] = passed[d]
    BY <1>1, <1>2, <2>4, <2>5 DEF ProtocolInv, LocalsTypeOK
  <2>7. PassesAcknowledged'
    BY <1>1, <2>4, <2>5, <2>6 DEF ProtocolInv, PassesAcknowledged
  <2>8. RepeatIsAcknowledged'
    <3>1. CASE passed' = passed
      BY <1>1, <2>5, <2>6, <3>1 DEF ProtocolInv, RepeatIsAcknowledged
    <3>2. CASE passed' # passed
      <4> DEFINE pass == [key |-> stash.submission, at |-> now,
                          acknowledged |-> ack, epoch |-> epoch]
      <4>1. /\ passed'[c] = pass
            /\ pass.key = stash.submission /\ pass.at = now
            /\ pass.epoch = epoch
        BY <2>4, <2>5, <3>2
      <4> HIDE DEF pass, stash
      <4>2. ~ack => \A e \in Commits :
              (/\ e # c /\ passed[e] # NoPass
               /\ passed[e].key = stash.submission
               /\ passed[e].epoch = epoch)
              => now > passed[e].at + Window
        BY <2>4, <3>2
      <4>3. SUFFICES ASSUME NEW e \in Commits, NEW f \in Commits, e # f,
                            passed'[e] # NoPass, passed'[f] # NoPass,
                            passed'[e].key = passed'[f].key,
                            passed'[e].epoch = passed'[f].epoch,
                            ~acknowledged'[e], ~acknowledged'[f]
                     PROVE  \/ passed'[e].at > passed'[f].at + Window
                            \/ passed'[f].at > passed'[e].at + Window
        BY DEF RepeatIsAcknowledged
      <4>4. CASE e = c
        BY <2>6, <4>1, <4>2, <4>3, <4>4
      <4>5. CASE f = c
        BY <2>6, <4>1, <4>2, <4>3, <4>5
      <4>6. CASE e # c /\ f # c
        BY <1>1, <2>6, <4>3, <4>6 DEF ProtocolInv, RepeatIsAcknowledged
      <4>7. QED
        BY <4>4, <4>5, <4>6
    <3>3. QED
      BY <3>1, <3>2
  <2> HIDE DEF stash, b, verdict
  <2>9. PICK stage \in Earlier, code \in AnswerCodes :
          \/ Answer(c, stage, code)
          \/ /\ Goto(c, "submitting")
             /\ stash # NoStash /\ ~WarningStands(stash, ack)
    <3>1. "guard" \in Earlier /\ "created" \in AnswerCodes
      BY DEF Earlier, Stages, AnswerCodes
    <3>2. QED
      BY <2>1, <3>1
  <2>10. \A d \in Commits \ {c} : passed'[d] = passed[d]
    BY <2>6
  <2>11. ProtocolInv'
    BY <1>1, <1>2, <2>1, <2>2, <2>3, <2>7, <2>8, <2>9, <2>10, SpentKeeps
  <2>12. QED
    BY <2>2, <2>4, <2>11 DEF CreateInv
<1>5. QED
  BY <1>3, <1>4

\* A step of the calls that reports nothing and adds no row.
LEMMA CallStepKeeps ==
  ASSUME ProtocolInv, CallsInv',
         UNCHANGED <<now, issued, released, passed, jisrVars, shown,
                     localVars>>,
         \A c \in Commits :
           /\ at'[c] = "idle" => at[c] = "idle"
           /\ \/ at'[c] \in {"revalidating", "revalidated", "submitting",
                            "rereading"}
              \/ reply'[c] # "unsent"
              => \/ at[c] \in {"revalidating", "revalidated", "submitting",
                              "rereading"}
                 \/ reply[c] # "unsent"
           /\ reply[c] \in Statuses => reply'[c] = reply[c]
  PROVE  ProtocolInv'
<1>1. LocalsTypeOK' /\ PreviewsInv'
  BY PreviewsStand DEF ProtocolInv, LocalsTypeOK, jisrVars, localVars
<1>2. StashesOffered' /\ ReferencesApart'
  BY DEF ProtocolInv, StashesOffered, ReferencesApart, Offered, localVars
<1>3. IdleIsFresh' /\ SentIsHeld'
  BY DEF ProtocolInv, IdleIsFresh, SentIsHeld, WarningStands, localVars
<1>4. RowsSent' /\ ReportedFound'
  BY DEF ProtocolInv, RowsSent, ReportedFound, Finds, localVars, jisrVars
<1>5. PassesAcknowledged' /\ RepeatIsAcknowledged'
  BY DEF ProtocolInv, PassesAcknowledged, RepeatIsAcknowledged, localVars
<1>6. QED
  BY <1>1, <1>2, <1>3, <1>4, <1>5 DEF ProtocolInv

LEMMA SubmitsKeeps ==
  ASSUME ProtocolInv, NEW c \in Commits, Submits(c)
  PROVE  ProtocolInv'
<1>1. /\ at[c] = "submitting"
      /\ UNCHANGED <<now, issued, released, passed, jisrVars, shown,
                     localVars>>
  BY DEF Submits, Sends, SubmitEnds, confirmationVars, guardVars
<1>2. CASE Sends(c)
  <2>1. CallsInv'
    BY <1>2, SendsKeeps DEF ProtocolInv
  <2>2. QED
    BY <1>1, <1>2, <2>1, SendsFacts, CallStepKeeps
    DEF ProtocolInv, CallsInv
<1>3. CASE SubmitEnds(c)
  <2>1. CallsInv'
    BY <1>3, SubmitEndsKeeps DEF ProtocolInv
  <2>2. PICK code \in Ends(reply[c]) :
          IF code = "done" THEN Goto(c, "rereading")
          ELSE Answer(c, "submit", SubmitGuarded(code))
    BY <1>3 DEF SubmitEnds
  <2>3. /\ reply' = reply
        /\ \/ at' = [at EXCEPT ![c] = "rereading"]
           \/ at' = [at EXCEPT ![c] = "answered"]
    BY <2>2 DEF Goto, Answer
  <2>4. QED
    BY <1>1, <2>1, <2>3, CallStepKeeps
    DEF ProtocolInv, CallsInv, CallsTypeOK
<1>4. QED
  BY <1>2, <1>3 DEF Submits

LEMMA RereadsKeeps ==
  ASSUME ProtocolInv, NEW c \in Commits, Rereads(c)
  PROVE  ProtocolInv'
<1> DEFINE found == {row \in rows : Finds(stashed[c].submission, row)}
<1>1. /\ at[c] = "rereading"
      /\ UNCHANGED <<now, issued, released, passed, jisrVars, shown,
                     reference, stashed, tool, acknowledged>>
  BY DEF Rereads, RereadFails, confirmationVars, guardVars
<1>2. \/ RereadFails(c) /\ UNCHANGED reported
      \/ Answer(c, "reread", "not_visible") /\ UNCHANGED reported
      \/ /\ Answer(c, "reread", "created")
         /\ \E row \in found : reported' = [reported EXCEPT ![c] = row]
  <2>1. stashed[c].submission.operation \in Operations
    BY <1>1 DEF ProtocolInv, SentIsHeld, LocalsTypeOK, Payload, Submission
  <2>2. \A seen_ \in FoundAgain(stashed[c].submission) : seen_ \subseteq found
    BY <2>1
    DEF FoundAgain, Reads, Employees, PunchesAt, Finds, Operations
  <2>3. QED
    BY <2>2 DEF Rereads
<1>3. CallsInv'
  <2>1. "reread" \in Stages /\ {"not_visible", "created"} \subseteq AnswerCodes
    BY DEF Stages, AnswerCodes
  <2>2. CASE RereadFails(c)
    BY <2>2, RereadFailsKeeps DEF ProtocolInv
  <2>3. CASE \E code \in {"not_visible", "created"} : Answer(c, "reread", code)
    <3>1. reply[c] = "ok"
      BY <1>1 DEF ProtocolInv, CallsInv, RereadIsAccepted
    <3>2. QED
      BY <2>1, <2>3, <3>1, AnswerKeeps DEF ProtocolInv
  <2>4. QED
    BY <1>2, <2>2, <2>3
<1>4. at' = [at EXCEPT ![c] = "answered"] /\ reply' = reply
  BY <1>2 DEF RereadFails, Answer
<1>5. CASE UNCHANGED reported
  BY <1>1, <1>3, <1>4, <1>5, CallStepKeeps
  DEF localVars, ProtocolInv, CallsInv, CallsTypeOK
<1>6. CASE \E row \in found : reported' = [reported EXCEPT ![c] = row]
  <2>1. PICK row \in rows :
          /\ Finds(stashed[c].submission, row)
          /\ reported' = [reported EXCEPT ![c] = row]
    BY <1>6
  <2>2. /\ stashed[c] # NoStash
        /\ ~WarningStands(stashed[c], acknowledged[c])
    BY <1>1 DEF ProtocolInv, SentIsHeld
  <2>3. LocalsTypeOK' /\ PreviewsInv'
    BY <1>1, <2>1, PreviewsStand DEF ProtocolInv, LocalsTypeOK, jisrVars
  <2>4. StashesOffered' /\ ReferencesApart'
    BY <1>1 DEF ProtocolInv, StashesOffered, ReferencesApart, Offered
  <2>5. IdleIsFresh' /\ SentIsHeld'
    BY <1>1, <1>4, <2>1, <2>2
    DEF ProtocolInv, LocalsTypeOK, CallsInv, CallsTypeOK, IdleIsFresh,
        SentIsHeld, WarningStands
  <2>6. RowsSent'
    BY <1>1, <1>4 DEF ProtocolInv, RowsSent, jisrVars
  <2>7. ReportedFound'
    BY <1>1, <2>1
    DEF ProtocolInv, LocalsTypeOK, ReportedFound, Finds
  <2>8. PassesAcknowledged' /\ RepeatIsAcknowledged'
    BY <1>1 DEF ProtocolInv, PassesAcknowledged, RepeatIsAcknowledged
  <2>9. QED
    BY <1>3, <2>3, <2>4, <2>5, <2>6, <2>7, <2>8 DEF ProtocolInv
<1>7. QED
  BY <1>2, <1>5, <1>6

LEMMA JisrHandlesKeeps ==
  ASSUME ProtocolInv, NEW c \in Commits, NEW status \in Replies,
         JisrHandles(c, status)
  PROVE  ProtocolInv'
<1> DEFINE new == [operation |-> tool[c], code |-> stashed[c].submission.code,
                   label |-> stashed[c].submission.label, by |-> c]
<1>1. /\ JisrReplies(c, status)
      /\ UNCHANGED <<at, answer, now, issued, released, passed, shown,
                     localVars, hires>>
      /\ \/ MayHaveWritten(status) /\ rows' = rows \cup {new}
         \/ rows' = rows
  BY DEF JisrHandles, JisrReplies, confirmationVars, guardVars
<1>2. /\ reply[c] \notin Statuses /\ reply[c] # "unsent"
      /\ reply'[c] # "unsent"
      /\ MayHaveWritten(status) => reply'[c] = status /\ status \in Statuses
      /\ \A d \in Commits \ {c} : reply'[d] = reply[d]
  BY <1>1, RepliesFacts DEF ProtocolInv, CallsInv
<1>3. stashed[c] \in Payload /\ tool[c] \in Operations
  <2>1. stashed[c] # NoStash
    BY <1>2 DEF ProtocolInv, SentIsHeld
  <2>2. stashed[c] \in Payload
    BY <2>1 DEF ProtocolInv, LocalsTypeOK
  <2>3. QED
    BY <2>1, <2>2 DEF ProtocolInv, StashesOffered, Payload, Submission
<1>4. new \in Row
  BY <1>3 DEF Row, Payload, Submission
<1>5. CallsInv'
  BY <1>1, RepliesKeep DEF ProtocolInv
<1>6. LocalsTypeOK' /\ PreviewsInv'
  BY <1>1, <1>4, PreviewsStand DEF ProtocolInv, LocalsTypeOK, localVars
<1>7. StashesOffered' /\ ReferencesApart'
  BY <1>1 DEF ProtocolInv, StashesOffered, ReferencesApart, Offered, localVars
<1>8. IdleIsFresh' /\ SentIsHeld'
  BY <1>1, <1>2
  DEF ProtocolInv, CallsInv, CallsTypeOK, IdleIsFresh, SentIsHeld,
      WarningStands, localVars
<1>9. RowsSent'
  <2>1. /\ new.by = c /\ new.operation = tool[c]
        /\ new.code = stashed[c].submission.code
        /\ new.label = stashed[c].submission.label
    OBVIOUS
  <2> HIDE DEF new
  <2>2. \A row \in rows : row.by # c
    BY <1>2 DEF ProtocolInv, RowsSent
  <2>3. UNCHANGED <<tool, stashed>>
    BY <1>1 DEF localVars
  <2>4. SUFFICES ASSUME NEW row \in rows', row.by \in Commits
                 PROVE  /\ reply'[row.by] \in Statuses
                        /\ MayHaveWritten(reply'[row.by])
                        /\ row.operation = tool[row.by]
                        /\ row.code = stashed[row.by].submission.code
                        /\ row.label = stashed[row.by].submission.label
    BY <2>3 DEF RowsSent
  <2>5. CASE row \in rows
    BY <1>2, <2>2, <2>4, <2>5 DEF ProtocolInv, RowsSent
  <2>6. CASE row \notin rows
    BY <1>1, <1>2, <2>1, <2>4, <2>6
  <2>7. QED
    BY <2>5, <2>6
<1>10. ReportedFound' /\ PassesAcknowledged' /\ RepeatIsAcknowledged'
  BY <1>1 DEF ProtocolInv, ReportedFound, Finds, PassesAcknowledged,
              RepeatIsAcknowledged, localVars
<1>11. QED
  BY <1>5, <1>6, <1>7, <1>8, <1>9, <1>10 DEF ProtocolInv

LEMMA HireInJisrKeeps ==
  ASSUME ProtocolInv, NEW code \in Codes, NEW label \in Labels,
         HireInJisr(code, label)
  PROVE  ProtocolInv'
<1> DEFINE new == [operation |-> "createEmployee", code |-> code,
                   label |-> label, by |-> "others"]
<1>1. /\ hires < MaxHires /\ hires' = hires + 1
      /\ rows' = rows \cup {new}
      /\ UNCHANGED <<now, issued, released, passed, shown, localVars,
                     callVars>>
  BY DEF HireInJisr, confirmationVars, guardVars
<1>2. new \in Row /\ new.by \notin Commits
  BY RecordCreateAssumption DEF Row, Operations
<1> HIDE DEF new
<1>3. CallsInv'
  BY <1>1, StutterKeeps DEF ProtocolInv
<1>4. hires' \in 0..MaxHires
  BY <1>1, RecordCreateAssumption DEF ProtocolInv, LocalsTypeOK
<1>5. LocalsTypeOK' /\ PreviewsInv'
  BY <1>1, <1>2, <1>4, PreviewsStand DEF ProtocolInv, LocalsTypeOK, localVars
<1>6. StashesOffered' /\ ReferencesApart' /\ IdleIsFresh' /\ SentIsHeld'
  BY <1>1 DEF ProtocolInv, StashesOffered, ReferencesApart, Offered,
              IdleIsFresh, SentIsHeld, WarningStands, localVars, callVars
<1>7. RowsSent'
  BY <1>1, <1>2 DEF ProtocolInv, RowsSent, localVars, callVars
<1>8. ReportedFound' /\ PassesAcknowledged' /\ RepeatIsAcknowledged'
  BY <1>1 DEF ProtocolInv, ReportedFound, Finds, PassesAcknowledged,
              RepeatIsAcknowledged, localVars
<1>9. QED
  BY <1>3, <1>5, <1>6, <1>7, <1>8 DEF ProtocolInv

LEMMA RestartKeeps ==
  ASSUME ProtocolInv, Restart
  PROVE  ProtocolInv'
<1>1. /\ CallsDie
      /\ UNCHANGED <<now, issued, released, passed, jisrVars, shown,
                     localVars>>
  BY DEF Restart, Conf!Restart, Guard!Restart
<1>2. CallsInv'
  BY <1>1, DieKeeps DEF ProtocolInv
<1>3. reply' = reply
      /\ \A c \in Commits : at'[c] = at[c] \/ at'[c] = "dead"
  BY <1>1 DEF CallsDie
<1>4. QED
  BY <1>1, <1>2, <1>3, CallStepKeeps

-----------------------------------------------------------------------------
(* The specification.                                                      *)

LEMMA InitHolds == Init => CreateInv
<1>1. SUFFICES ASSUME Init PROVE CreateInv
  OBVIOUS
<1>2. Store!Init /\ Marks!Init
  BY <1>1 DEF Init, Conf!Init, Store!Init, Guard!Init, Marks!Init
<1>3. QED
  BY <1>1, <1>2, StoreAssumption, MarksAssumption, Store!InitInv,
     Marks!InitInv, ProtocolHolds DEF CreateInv

LEMMA StepHolds == CreateInv /\ [Next]_vars => CreateInv'
<1>1. SUFFICES ASSUME CreateInv, [Next]_vars PROVE CreateInv'
  OBVIOUS
<1>2. Store!IInv /\ Marks!GInv /\ ProtocolInv
  BY <1>1 DEF CreateInv
<1>3. /\ now \in Nat /\ epoch \in Nat
      /\ \A r \in issued : r.nonce \in Nonces
  BY <1>2 DEF Store!IInv, Store!TypeOK, Store!Reference
<1>4. ASSUME UNCHANGED <<confirmationVars, guardVars>>, ProtocolInv'
      PROVE  CreateInv'
  BY <1>2, <1>4, StoresKept DEF CreateInv
<1>5. CASE \E n \in Nonces, input \in Input : PrepareReads(n, input)
  BY <1>2, <1>3, <1>4, <1>5, PrepareReadsKeeps DEF PrepareReads
<1>6. CASE \E n \in Nonces : PrepareIssues(n)
  <2>1. PICK n \in Nonces : PrepareIssues(n)
    BY <1>6
  <2> DEFINE payload == [submission |-> ToSubmission(shown[n].input),
                         hasDuplicateWarning |-> shown[n].duplicate]
  <2>2. payload \in Payload
    BY <1>2, <1>3, <2>1, SubmissionsAreOffered DEF ProtocolInv, PrepareIssues
  <2>3. Conf!IssueReference(n, BindingFor(payload.submission), payload)
    BY <2>1 DEF PrepareIssues
  <2> HIDE DEF payload
  <2>4. Store!IInv'
    BY <1>2, <2>2, <2>3, IssueKeepsStore
  <2>5. UNCHANGED <<now, epoch, seen, passed>>
    BY <2>1, <2>3 DEF PrepareIssues, Conf!IssueReference, guardVars
  <2>6. QED
    BY <1>2, <1>3, <2>1, <2>4, <2>5, MarksKept, PrepareIssuesKeeps
    DEF CreateInv
<1>7. CASE \E c \in Commits, o \in Operations, r \in issued, ack \in BOOLEAN :
             CommitBegins(c, o, r, ack)
  BY <1>1, <1>7, CommitBeginsKeeps
<1>8. CASE \E c \in Commits : Submits(c) \/ Rereads(c)
  BY <1>2, <1>4, <1>8, SubmitsKeeps, RereadsKeeps DEF Submits, Rereads
<1>9. CASE \E c \in Commits, s \in Replies : JisrHandles(c, s)
  BY <1>2, <1>4, <1>9, JisrHandlesKeeps DEF JisrHandles
<1>10. CASE \E code \in Codes, label \in Labels : HireInJisr(code, label)
  BY <1>2, <1>4, <1>10, HireInJisrKeeps DEF HireInJisr
<1>11. CASE Restart
  BY <1>2, <1>11, RestartKeeps, RestartKeepsStores DEF Restart, CreateInv
<1>12. CASE Tick
  <2>1. /\ Conf!Tick /\ Guard!Tick /\ now < MaxClock /\ now' = now + 1
        /\ UNCHANGED <<jisrVars, shown, localVars, callVars, issued, released,
                       passed>>
    BY <1>12 DEF Tick, Conf!Tick, Guard!Tick
  <2>2. LocalsTypeOK' /\ PreviewsInv'
    <3>1. now' <= MaxClock
      BY <1>3, <2>1, RecordCreateAssumption
    <3>2. QED
      BY <1>2, <2>1, <3>1, PreviewsStand
      DEF ProtocolInv, LocalsTypeOK, jisrVars, localVars
  <2>3. QED
    BY <1>2, <2>1, <2>2, TickKeepsStores, ProtocolStands DEF CreateInv
<1>13. CASE UNCHANGED vars
  <2>1. UNCHANGED <<confirmationVars, guardVars, jisrVars, localVars,
                    callVars, shown, issued, released, passed, now>>
    BY <1>13 DEF vars, confirmationVars, guardVars, jisrVars, localVars,
                 callVars
  <2>2. LocalsTypeOK' /\ PreviewsInv'
    BY <1>2, <2>1, PreviewsStand
    DEF ProtocolInv, LocalsTypeOK, jisrVars, localVars
  <2>3. QED
    BY <1>2, <1>4, <2>1, <2>2, ProtocolStands
<1>14. QED
  BY <1>1, <1>5, <1>6, <1>7, <1>8, <1>9, <1>10, <1>11, <1>12, <1>13 DEF Next

\* A submission that was sent without an acknowledgement was offered without a
\* warning, so that who resembles it was overlooked by its prepare.
LEMMA UnwarnedIsNew ==
  ASSUME ProtocolInv, NEW c \in Commits,
         reply[c] # "unsent" \/ reported[c] # NotShown,
         stashed[c].submission.operation = "createEmployee",
         ~acknowledged[c],
         NEW row \in shown[reference[c]].existing,
         \/ row.code = stashed[c].submission.code
         \/ row.label = stashed[c].submission.label
  PROVE  Overlooked(shown[reference[c]], row)
<1>1. /\ stashed[c] # NoStash
      /\ ~WarningStands(stashed[c], acknowledged[c])
  BY DEF ProtocolInv, SentIsHeld
<1>2. /\ reference[c] # NotShown /\ shown[reference[c]] # NotShown
      /\ Offered(stashed[c], shown[reference[c]])
  BY <1>1 DEF ProtocolInv, StashesOffered
<1>3. ~shown[reference[c]].duplicate
  BY <1>1, <1>2 DEF WarningStands, Offered
<1>4. reference[c] \in Nonces
  BY <1>2 DEF ProtocolInv, LocalsTypeOK
<1>5. Warns(shown[reference[c]])
  BY <1>2, <1>4 DEF ProtocolInv, PreviewsInv, WarningsTrue
<1>6. Resembles(shown[reference[c]].input, row)
  BY <1>2, <1>5 DEF Warns, Resembles, Offered
<1>7. QED
  BY <1>2, <1>3, <1>5, <1>6 DEF Warns, Offered

THEOREM CreateInvariance == Spec => []CreateInv
BY InitHolds, StepHolds, PTL DEF Spec

\* Every variable keeps its type, those of both stores included
\* (employees-write-service.ts and attendance-write-service.ts).
THEOREM TypeCorrect == Spec => []TypeOK
<1>1. CreateInv => TypeOK
  <2>1. SUFFICES ASSUME CreateInv PROVE TypeOK
    OBVIOUS
  <2>2. Conf!TypeOK
    BY <2>1 DEF CreateInv, Store!IInv, Store!TypeOK, Conf!TypeOK,
                Store!Reference, Conf!Reference, Store!Binding, Conf!Binding,
                Store!Stash, Conf!Stash, Store!Release, Conf!Release
  <2>3. Guard!TypeOK
    BY <2>1 DEF CreateInv, Marks!GInv, Marks!TypeOK, Guard!TypeOK,
                Marks!Pass, Guard!Pass
  <2>4. QED
    BY <2>1, <2>2, <2>3
    DEF CreateInv, ProtocolInv, CallsInv, LocalsTypeOK, TypeOK
<1>2. QED
  BY <1>1, CreateInvariance, PTL

\* An employee created without an acknowledgement resembles nobody who was in
\* Jisr when the creation was prepared, but for those whom a scan of fewer than
\* all employees had overlooked (findDuplicates, commitEmployeeCreate, FR-015).
THEOREM UnacknowledgedIsNewHolds == Spec => []UnacknowledgedIsNew
<1>1. CreateInv => UnacknowledgedIsNew
  <2>1. SUFFICES ASSUME CreateInv, NEW c \in Commits, Written(c),
                        stashed[c].submission.operation = "createEmployee",
                        ~acknowledged[c],
                        NEW row \in shown[reference[c]].existing,
                        \/ row.code = stashed[c].submission.code
                        \/ row.label = stashed[c].submission.label
                 PROVE  Overlooked(shown[reference[c]], row)
    BY DEF UnacknowledgedIsNew
  <2>2. reply[c] # "unsent"
    BY <2>1 DEF Written, CreateInv, ProtocolInv, RowsSent, Statuses
  <2>3. QED
    BY <2>1, <2>2, UnwarnedIsNew DEF CreateInv
<1>2. QED
  BY <1>1, CreateInvariance, PTL

\* The record that an unacknowledged creation reports was not in Jisr when it
\* was prepared, or was overlooked by a scan of fewer than all employees (the
\* re-read of commitEmployeeCreate, SC-004).
THEOREM ReportsNewRecordHolds == Spec => []ReportsNewRecord
<1>1. CreateInv => ReportsNewRecord
  <2>1. SUFFICES ASSUME CreateInv, NEW c \in Commits, reported[c] # NotShown,
                        stashed[c].submission.operation = "createEmployee",
                        ~acknowledged[c],
                        reported[c] \in shown[reference[c]].existing
                 PROVE  Overlooked(shown[reference[c]], reported[c])
    BY DEF ReportsNewRecord
  <2>2. Finds(stashed[c].submission, reported[c])
    BY <2>1 DEF CreateInv, ProtocolInv, ReportedFound
  <2>3. reported[c].code = stashed[c].submission.code
    BY <2>2 DEF Finds
  <2>4. QED
    BY <2>1, <2>3, UnwarnedIsNew DEF CreateInv
<1>2. QED
  BY <1>1, CreateInvariance, PTL

\* Of two commits of one process that send the same bytes within the window,
\* one was acknowledged (assertNotDuplicate as both services call it).
THEOREM RepeatIsAcknowledgedHolds == Spec => []RepeatIsAcknowledged
<1>1. CreateInv => RepeatIsAcknowledged
  BY DEF CreateInv, ProtocolInv
<1>2. QED
  BY <1>1, CreateInvariance, PTL

\* An answer that says that nothing was written is true, and stays true
\* (submitGuarded and the refusals of both services).
THEOREM RefusalWritesNothingHolds == Spec => []RefusalWritesNothing
<1>1. CreateInv => RefusalWritesNothing
  <2>1. SUFFICES ASSUME CreateInv, NEW c \in Commits, SaysNothingWritten(c)
                 PROVE  ~Written(c) /\ reply[c] \notin UnderWay
    BY DEF RefusalWritesNothing
  <2>2. Unwritten(c)
    BY <2>1 DEF CreateInv, ProtocolInv, CallsInv, RefusalsAreTrue
  <2>3. QED
    BY <2>1, <2>2 DEF Unwritten, Written, CreateInv, ProtocolInv, RowsSent,
                      UnderWay, Statuses
<1>2. QED
  BY <1>1, CreateInvariance, PTL

\* A reference creates a record through its own tool only, and the record is
\* the one its prepare was asked for (consumeReference and toSubmission).
THEOREM CreatesWhatWasPreparedHolds == Spec => []CreatesWhatWasPrepared
<1>1. CreateInv => CreatesWhatWasPrepared
  <2>1. SUFFICES ASSUME CreateInv, NEW c \in Commits, NEW row \in rows,
                        row.by = c
                 PROVE  /\ Subject(shown[reference[c]].input) = Subject(row)
                        /\ \A d \in Commits : (d # c /\ Written(d))
                             => reference[d] # reference[c]
    BY DEF CreatesWhatWasPrepared
  <2>2. /\ reply[c] # "unsent"
        /\ row.operation = tool[c]
        /\ row.code = stashed[c].submission.code
        /\ row.label = stashed[c].submission.label
    BY <2>1 DEF CreateInv, ProtocolInv, RowsSent, Statuses
  <2>3. stashed[c] # NoStash
    BY <2>1, <2>2 DEF CreateInv, ProtocolInv, SentIsHeld
  <2>4. /\ reference[c] # NotShown /\ shown[reference[c]] # NotShown
        /\ Offered(stashed[c], shown[reference[c]])
        /\ tool[c] = stashed[c].submission.operation
    BY <2>1, <2>3 DEF CreateInv, ProtocolInv, StashesOffered
  <2>5. QED
    BY <2>1, <2>2, <2>4
    DEF Offered, Subject, CreateInv, ProtocolInv, ReferencesApart
<1>2. QED
  BY <1>1, CreateInvariance, PTL

-----------------------------------------------------------------------------
(* The services keep the promises of their stores.                         *)

\* Every step of a creation is one step of the reference store and one of the
\* guard's map, or leaves them alone.
LEMMA StoresStep ==
  CreateInv /\ [Next]_vars
  => [Store!Next]_(Store!vars) /\ [Marks!Next]_(Marks!vars)
<1>1. SUFFICES ASSUME CreateInv, [Next]_vars
               PROVE  [Store!Next]_(Store!vars) /\ [Marks!Next]_(Marks!vars)
  OBVIOUS
<1>2. /\ Store!IInv /\ ProtocolInv /\ now \in Nat
  BY <1>1 DEF CreateInv, Store!IInv, Store!TypeOK
<1>3. CASE UNCHANGED <<confirmationVars, guardVars>>
  BY <1>3 DEF confirmationVars, guardVars, Store!vars, Marks!vars
<1>4. ASSUME NEW n \in Nonces, PrepareIssues(n)
      PROVE  Store!Next /\ UNCHANGED Marks!vars
  <2> DEFINE payload == [submission |-> ToSubmission(shown[n].input),
                         hasDuplicateWarning |-> shown[n].duplicate]
  <2>1. payload \in Payload
    BY <1>2, <1>4, SubmissionsAreOffered DEF ProtocolInv, PrepareIssues
  <2>2. Conf!IssueReference(n, BindingFor(payload.submission), payload)
    BY <1>4 DEF PrepareIssues
  <2>3. UNCHANGED Marks!vars
    BY <1>4, <2>2
    DEF PrepareIssues, Conf!IssueReference, guardVars, Marks!vars
  <2> HIDE DEF payload
  <2>4. Store!IssueReference(n, BindingFor(payload.submission), payload)
    BY <2>2 DEF Conf!IssueReference, Store!IssueReference, Conf!Sweep,
                Store!Sweep, Conf!Expired, Store!Expired
  <2>5. BindingFor(payload.submission) \in Store!Binding
    BY <2>1 DEF BindingFor, Store!Binding, Payload, Submission
  <2>6. QED
    BY <2>1, <2>3, <2>4, <2>5 DEF Store!Next
<1>5. ASSUME NEW c \in Commits, NEW o \in Operations, NEW r \in issued,
             NEW ack \in BOOLEAN, CommitBegins(c, o, r, ack)
      PROVE  [Store!Next]_(Store!vars) /\ [Marks!Next]_(Marks!vars)
  <2> DEFINE b == [BindingFor(r.binding.targetHash) EXCEPT !.operationId = o]
             payload == Conf!Stashed(r.nonce)
  <2>1. /\ b \in Store!Binding
        /\ r.preview \in Payload /\ r.nonce \in Nonces
    BY <1>2
    DEF Store!IInv, Store!TypeOK, Store!Reference, Store!Binding, BindingFor
  <2>2. CASE Conf!Verdict(r, b) # "ok"
    BY <1>3, <1>5, <2>2 DEF CommitBegins
  <2>3. CASE Conf!Verdict(r, b) = "ok"
    <3>1. Conf!ConsumeReference(r, b)
      BY <1>5, <2>3 DEF CommitBegins
    <3>2. Store!ConsumeReference(r, b)
      BY <3>1, SameVerdict, SameStashed
      DEF Conf!ConsumeReference, Store!ConsumeReference
    <3>3. payload \in {r.preview, NoStash}
      BY <1>2, <2>3, <3>1, ConsumeKeepsStore
    <3>4. \/ UNCHANGED guardVars
          \/ /\ payload # NoStash
             /\ Guard!AssertNotDuplicate(c, payload.submission, ack)
      BY <1>5, <2>3 DEF CommitBegins
    <3>5. [Marks!Next]_(Marks!vars)
      <4>1. CASE UNCHANGED guardVars
        BY <3>1, <4>1 DEF Conf!ConsumeReference, guardVars, Marks!vars
      <4>2. CASE /\ payload # NoStash
                 /\ Guard!AssertNotDuplicate(c, payload.submission, ack)
        <5>1. payload.submission \in Submission
          BY <2>1, <3>3, <4>2 DEF Payload
        <5>2. Marks!AssertNotDuplicate(c, payload.submission, ack)
          BY <4>2
          DEF Guard!AssertNotDuplicate, Marks!AssertNotDuplicate,
              Guard!Suspected, Marks!Suspected, Guard!Swept, Marks!Swept,
              Guard!Recent, Marks!Recent
        <5>3. QED
          BY <5>1, <5>2 DEF Marks!Next
      <4>3. QED
        BY <3>4, <4>1, <4>2
    <3>6. QED
      BY <2>1, <3>2, <3>5 DEF Store!Next
  <2>4. QED
    BY <2>2, <2>3
<1>6. CASE Restart
  BY <1>6
  DEF Restart, Conf!Restart, Guard!Restart, Store!Restart, Marks!Restart,
      Store!Next, Marks!Next
<1>7. CASE Tick
  BY <1>7
  DEF Tick, Conf!Tick, Guard!Tick, Store!Tick, Marks!Tick, Store!Next,
      Marks!Next
<1>8. QED
  BY <1>1, <1>3, <1>4, <1>5, <1>6, <1>7
  DEF Next, vars, confirmationVars, guardVars, PrepareReads, Submits,
      Rereads, JisrHandles, HireInJisr

\* Whatever creations, refusals, late answers and restarts interleave, what
\* the two services do to their references is a behaviour of the store by
\* itself, and what they do to the guard's map one of the guard
\* (employees-write-service.ts, attendance-write-service.ts).
THEOREM StoresRefined == Spec => Store!Spec /\ Marks!Spec
<1>1. Init => Store!Init /\ Marks!Init
  BY DEF Init, Conf!Init, Guard!Init, Store!Init, Marks!Init
<1>2. QED
  BY <1>1, StoresStep, CreateInvariance, PTL DEF Spec, Store!Spec, Marks!Spec

\* Spec 002's promise, for both services at once: what a commit takes to its
\* submission was offered by one prepare of the same tool, exactly as
\* previewed, and is taken once (the services with
\* confirmation-reference.ts).
THEOREM KeepsPreviewedWrite == Spec => Store!ImplementsPreviewedWrite
BY StoresRefined, StoreAssumption, Store!Refinement, PTL

\* A reference that a prepare has answered stays good for its owner until it
\* is spent, expires or its process ends (the services with
\* confirmation-reference.ts).
THEOREM OwnerCanCommitKept == Spec => []Store!OwnerCanCommit
BY StoresRefined, StoreAssumption, Store!OwnerCanCommitHolds, PTL

\* The guard's own promise, acknowledged repeats included, holds in the
\* services step by step (the services with duplicate-guard.ts).
THEOREM NoRepeatKept == Spec => Marks!NoUnacknowledgedRepeat
BY StoresRefined, MarksAssumption, Marks!NoRepeatHolds, PTL

-----------------------------------------------------------------------------
(* Every commit is answered.                                               *)

LEMMA CommitStepsOnward ==
  ASSUME CallsInv, NEW c \in Commits, CommitSteps(c)
  PROVE  Onward(c)
<1>0. CallsTypeOK
  BY DEF CallsInv
<1>1. CASE Submits(c)
  BY <1>0, <1>1, SendsProgress, SubmitProgress DEF Submits
<1>2. CASE Rereads(c)
  <2>1. at[c] = "rereading" /\ \E stage, code : Answer(c, stage, code)
    BY <1>2 DEF Rereads, RereadFails
  <2>2. QED
    BY <1>0, <2>1, AnswerProgress DEF Onward, Progress, After, Awaiting
<1>3. QED
  BY <1>1, <1>2 DEF CommitSteps

\* Nothing else takes a commit back, or out of the order.
LEMMA StepsOnward ==
  ASSUME CallsInv, [Next]_vars, NEW c \in Commits, at[c] # "idle"
  PROVE  Progress(c)' = Progress(c) \/ Progress(c)' \in After(Progress(c))
<1>0. CallsTypeOK
  BY DEF CallsInv
<1>1. CASE UNCHANGED callVars
  BY <1>1 DEF callVars, Progress
<1>2. ASSUME NEW d \in Commits, NEW o, NEW r, NEW ack,
             CommitBegins(d, o, r, ack)
      PROVE  Progress(c)' = Progress(c)
  <2>1. d # c /\ reply[d] = "unsent"
    BY <1>2 DEF CommitBegins, CallsInv, SentIsPast
  <2>2. CASE Goto(d, "submitting")
    BY <1>0, <2>1, <2>2, GotoProgress DEF Statuses
  <2>3. CASE \E stage, code : Answer(d, stage, code)
    BY <1>0, <2>1, <2>3, AnswerProgress
  <2>4. QED
    BY <1>2, <2>2, <2>3 DEF CommitBegins
<1>3. ASSUME NEW d \in Commits, CommitSteps(d)
      PROVE  Progress(c)' = Progress(c) \/ Progress(c)' \in After(Progress(c))
  BY <1>3, CommitStepsOnward DEF Onward
<1>4. ASSUME NEW d \in Commits, NEW status \in Replies, JisrHandles(d, status)
      PROVE  Progress(c)' = Progress(c) \/ Progress(c)' \in After(Progress(c))
  BY <1>0, <1>4, RepliesProgress DEF JisrHandles
<1>5. CASE CallsDie
  BY <1>0, <1>5, DieProgress
<1>6. QED
  BY <1>1, <1>2, <1>3, <1>4, <1>5
  DEF Next, vars, callVars, CommitSteps, PrepareReads, PrepareIssues,
      HireInJisr, Restart, Tick

\* What the theorem assumes of commit c.
Served(c) == Spec /\ Fair(c) /\ []MayStep(c)

\* Fairness ends the await that a commit stands at.
LEMMA AwaitEnds ==
  ASSUME NEW c \in Commits, NEW progress \in AwaitPlaces
  PROVE  Served(c) => Leaves(c, progress)
<1>1. Spec => []CallsInv
  BY CreateInvariance, PTL DEF CreateInv, ProtocolInv
<1>2. Progress(c) = progress => Awaiting(c)
  BY DEF Progress, AwaitPlaces, Awaiting
<1>3. CallsInv /\ <<CommitSteps(c)>>_vars /\ Progress(c) = progress
      => ~(Progress(c) = progress)'
  BY CommitStepsOnward DEF Onward, AwaitPlaces, After
<1>4. CallsInv /\ [Next]_vars /\ Progress(c) = progress
      => (Progress(c) = progress)' \/ (Progress(c) \in After(progress))'
  BY <1>2, StepsOnward DEF Awaiting
<1>5. QED
  BY <1>1, <1>2, <1>3, <1>4, PTL DEF Served, Leaves, Spec, Fair, MayStep

LEMMA OneCommitAnswered ==
  ASSUME NEW c \in Commits
  PROVE  Served(c) => (at[c] # "idle" ~> at[c] \in {"answered", "dead"})
<1>1. Spec => []CallsInv
  BY CreateInvariance, PTL DEF CreateInv, ProtocolInv
<1>2. Served(c) => LeavesEveryAwait(c)
  BY AwaitEnds DEF LeavesEveryAwait, AwaitPlaces
<1>3. QED
  BY <1>1, <1>2, AwaitsEnd, PTL DEF Served

\* commitEmployeeCreate and commitPunchCreate answer their callers
\* (employees-write-service.ts, attendance-write-service.ts), for any number of
\* commits and previews, unless the process ends.  That every await has an
\* exit, CanStep, is what the run checks: ENABLED has no proof rule here.
THEOREM EveryCommitAnsweredHolds == FairSpec /\ []CanStep => EveryCommitAnswered
<1>1. ASSUME NEW c \in Commits
      PROVE  FairSpec /\ []CanStep
             => (at[c] # "idle" ~> at[c] \in {"answered", "dead"})
  <2>1. CanStep => MayStep(c)
    BY DEF CanStep
  <2>2. FairSpec => Spec /\ Fair(c)
    BY DEF FairSpec
  <2>3. Served(c) => (at[c] # "idle" ~> at[c] \in {"answered", "dead"})
    BY OneCommitAnswered
  <2>4. QED
    BY <2>1, <2>2, <2>3, PTL DEF Served
<1>2. QED
  BY <1>1 DEF EveryCommitAnswered

-----------------------------------------------------------------------------
(* Seen from its two ends, either service is a controlled write.           *)

Offerings == {[handle |-> r.nonce,
               target |-> Subject(shown[r.nonce].input)] : r \in issued}

Spendings == {[by |-> c, handle |-> reference[c]] :
                c \in {d \in Commits : reference[d] # NotShown}}

Making(row) == [by |-> row.by, target |-> Subject(row)]

Makings == {Making(row) : row \in {r \in rows : r.by \in Commits}}

\* What the refinement mapping sees.
seenVars == <<Offerings, Spendings, Requested, Makings, Told>>

EndsKept == UNCHANGED <<Offerings, Spendings, Makings>>

LEMMA MappingIs == Promise!vars = seenVars
BY DEF Promise!vars, seenVars, Offerings, Spendings, Requested, Makings,
       Making, Told

\* Most steps touch neither the previews, nor what was spent, nor the records.
LEMMA EndsStay ==
  ASSUME UNCHANGED <<issued, shown, reference, rows>>
  PROVE  EndsKept
BY DEF EndsKept, Offerings, Spendings, Makings

LEMMA HasSpentIs ==
  ASSUME NEW c \in Commits
  PROVE  Promise!HasSpent(c) <=> reference[c] # NotShown
<1>1. \A s \in Spendings : s.by = c => reference[c] # NotShown
  BY DEF Spendings
<1>2. reference[c] # NotShown =>
        /\ [by |-> c, handle |-> reference[c]] \in Spendings
        /\ [by |-> c, handle |-> reference[c]].by = c
  BY DEF Spendings
<1>3. Promise!HasSpent(c) <=> \E s \in Spendings : s.by = c
  BY DEF Promise!HasSpent, Spendings
<1>4. QED
  BY <1>1, <1>2, <1>3

\* Nothing was made for a commit whose request did not write.
LEMMA UnwrittenIs ==
  ASSUME CreateInv, NEW c \in Commits, Unwritten(c)
  PROVE  \A write \in Makings : write.by # c
BY DEF CreateInv, ProtocolInv, RowsSent, Unwritten, Makings, Making, Statuses

\* A commit that answers, its answer being what it tells.
LEMMA AnswerMaps ==
  ASSUME CreateInv, CreateInv', NEW c \in Commits, NEW stage, NEW code,
         Answer(c, stage, code), at[c] \notin {"answered", "dead"},
         stage = "reread" => at[c] = "rereading",
         EndsKept
  PROVE  Promise!Next
<1>1. CallsInv /\ CallsInv'
  BY DEF CreateInv, ProtocolInv
<1> DEFINE word == ToldOf(c)'
<1>2. /\ Requested[c] = RequestOf(c) /\ Told[c] = "nothing"
      /\ word = IF SaysNothingWritten(c)' THEN "unwritten"
                ELSE IF stage = "reread" THEN "handled" ELSE "unknown"
      /\ Told' = [Told EXCEPT ![c] = word]
      /\ Requested' = [Requested EXCEPT
                         ![c] = IF @ = "unsent" THEN "settled" ELSE @]
      /\ SaysNothingWritten(c)' => RequestOf(c) # "open"
  BY <1>1, AnswerTells DEF Requested, Told
<1> HIDE DEF word
<1>3. Promise!Tells(c, word)
  BY <1>2
  DEF Promise!Tells, Requested, Told, EndsKept, Offerings, Makings, Making
<1>4. Spendings' = Spendings
  BY DEF EndsKept
<1>5. CASE SaysNothingWritten(c)'
  <2>1. \A write \in Makings : write.by # c
    BY <1>1, <1>5, UnwrittenIs
    DEF CallsInv, RefusalsAreTrue, Unwritten, Answer
  <2>2. Promise!Refuses(c)
    BY <1>2, <1>3, <1>4, <1>5, <2>1
    DEF Promise!Refuses, Requested, Spendings, Makings, Making
  <2>3. QED
    BY <2>2 DEF Promise!Next
<1>6. CASE ~SaysNothingWritten(c)' /\ stage = "reread"
  <2>1. RequestOf(c) = "settled"
    BY <1>1, <1>6
    DEF CallsInv, RereadIsAccepted, RequestOf, UnderWay, Statuses
  <2>2. Promise!Reports(c)
    BY <1>2, <1>3, <1>4, <1>6, <2>1 DEF Promise!Reports, Requested, Spendings
  <2>3. QED
    BY <2>2 DEF Promise!Next
<1>7. CASE ~SaysNothingWritten(c)' /\ stage # "reread"
  <2>1. Promise!Wonders(c)
    BY <1>2, <1>3, <1>4, <1>7 DEF Promise!Wonders, Spendings
  <2>2. QED
    BY <2>1 DEF Promise!Next
<1>8. QED
  BY <1>5, <1>6, <1>7

\* A commit that spends its reference and is refused in the same step.
LEMMA RefusalMaps ==
  ASSUME CreateInv, CreateInv', NEW c \in Commits,
         NEW stage \in {"consume", "warning", "guard"},
         NEW code \in {"WRITE_PREPARATION_EXPIRED",
                       "DUPLICATE_WRITE_SUSPECTED"},
         at[c] = "idle", Answer(c, stage, code),
         Promise!Takes(c), Offerings' = Offerings, Makings' = Makings
  PROVE  Promise!Next
<1>1. CallsInv /\ CallsInv'
  BY DEF CreateInv, ProtocolInv
<1>2. RequestOf(c) = "unsent" /\ Unwritten(c)
  BY <1>1 DEF CallsInv, SentIsPast, RequestOf, UnderWay, Statuses, Unwritten
<1>3. SaysNothingWritten(c)'
  <2>1. /\ answer'[c].stage = stage /\ answer'[c].code = code
        /\ at'[c] = "answered"
    BY <1>1 DEF Answer, AnswerCode, CallsInv, CallsTypeOK
  <2>2. answer'[c] # NoAnswer
    BY <1>1, <2>1 DEF CallsInv, CallsTypeOK
  <2>3. QED
    BY <2>1, <2>2 DEF SaysNothingWritten
<1>4. /\ Requested[c] = "unsent" /\ Told[c] = "nothing"
      /\ Told' = [Told EXCEPT ![c] = "unwritten"]
      /\ Requested' = [Requested EXCEPT
                         ![c] = IF @ = "unsent" THEN "settled" ELSE @]
  <2>1. /\ ToldOf(c) = "nothing" /\ ToldOf(c)' = "unwritten"
        /\ Told' = [Told EXCEPT ![c] = ToldOf(c)']
        /\ Requested' = [Requested EXCEPT
                           ![c] = IF @ = "unsent" THEN "settled" ELSE @]
    BY <1>1, <1>3, AnswerTells
  <2>2. QED
    BY <1>2, <2>1 DEF Requested, Told
<1>5. Promise!Tells(c, "unwritten")
  BY <1>4 DEF Promise!Tells, Requested, Told, Offerings, Makings, Making
<1>6. Promise!Refuses(c)
  BY <1>2, <1>4, <1>5, UnwrittenIs
  DEF Promise!Refuses, Requested, Makings, Making
<1>7. QED
  BY <1>6 DEF Promise!Next

\* A prepare's reference is an offer of what the prepare was asked for.
LEMMA IssueMaps ==
  ASSUME CreateInv, NEW n \in Nonces, PrepareIssues(n)
  PROVE  Promise!Next
<1>1. /\ shown[n].input \in Input
      /\ UNCHANGED <<shown, localVars, callVars, jisrVars>>
  BY DEF PrepareIssues, CreateInv, ProtocolInv, LocalsTypeOK, Preview
<1>2. PICK t \in [operation : Operations, code : Codes, label : Labels] :
        t = Subject(shown[n].input)
  BY <1>1 DEF Input, Subject
<1> DEFINE new == [handle |-> n, target |-> t]
           payload == [submission |-> ToSubmission(shown[n].input),
                       hasDuplicateWarning |-> shown[n].duplicate]
<1>3. /\ \A r \in issued : r.nonce # n
      /\ \E r : r.nonce = n /\ issued' = issued \cup {r}
  <2>1. Conf!IssueReference(n, BindingFor(payload.submission), payload)
    BY DEF PrepareIssues
  <2> HIDE DEF payload
  <2> DEFINE signed == [nonce |-> n,
                        binding |-> BindingFor(payload.submission),
                        expiresAt |-> now + TTL, epoch |-> epoch,
                        preview |-> payload]
  <2>2. issued' = issued \cup {signed} /\ \A r \in issued : r.nonce # n
    BY <2>1 DEF Conf!IssueReference
  <2>3. signed.nonce = n
    OBVIOUS
  <2> HIDE DEF signed
  <2>4. QED
    BY <2>2, <2>3
<1>4. \A o \in Offerings : o.handle # n
  BY <1>3 DEF Offerings
<1>5. Offerings' = Offerings \cup {new}
  BY <1>1, <1>2, <1>3 DEF Offerings
<1>6. UNCHANGED <<Spendings, Makings, Requested, Told>>
  BY <1>1 DEF Spendings, Makings, Requested, Told, RequestOf, ToldOf,
              SaysNothingWritten, localVars, callVars, jisrVars
<1>7. Promise!Offers(n, t)
  BY <1>4, <1>5, <1>6
  DEF Promise!Offers, Offerings, Spendings, Makings, Making, Requested, Told
<1>8. QED
  BY <1>7 DEF Promise!Next

\* A commit that is accepted takes an offer that nobody has taken.
LEMMA ConsumeMaps ==
  ASSUME CreateInv, NEW c \in Commits, NEW o \in Operations,
         NEW r \in issued, NEW ack \in BOOLEAN, NEW b,
         b = [BindingFor(r.binding.targetHash) EXCEPT !.operationId = o],
         CommitBegins(c, o, r, ack), Conf!Verdict(r, b) = "ok"
  PROVE  Promise!Takes(c) /\ Offerings' = Offerings /\ Makings' = Makings
<1> DEFINE offer == [handle |-> r.nonce,
                     target |-> Subject(shown[r.nonce].input)]
<1>1. /\ at[c] = "idle"
      /\ reference' = [reference EXCEPT ![c] = r.nonce]
      /\ Conf!ConsumeReference(r, b)
      /\ UNCHANGED <<shown, rows>>
  BY DEF CommitBegins, jisrVars
<1>2. issued' = issued
  BY <1>1 DEF Conf!ConsumeReference
<1>3. r.nonce \in Nonces /\ \A g \in released : g.nonce # r.nonce
  BY <1>1, ConsumeKeepsStore DEF CreateInv
<1>4. r.nonce # NotShown
  BY <1>3, RecordCreateAssumption
<1>5. reference[c] = NotShown
  BY <1>1 DEF CreateInv, ProtocolInv, IdleIsFresh
<1>6. /\ reference'[c] = r.nonce
      /\ \A d \in Commits \ {c} : reference'[d] = reference[d]
  BY <1>1 DEF CreateInv, ProtocolInv, LocalsTypeOK
<1>7. Offerings' = Offerings /\ Makings' = Makings
  BY <1>1, <1>2 DEF Offerings, Makings
<1>8. Spendings' = Spendings \cup {[by |-> c, handle |-> r.nonce]}
  BY <1>4, <1>5, <1>6 DEF Spendings
<1>9. offer \in Offerings /\ offer.handle = r.nonce
  BY DEF Offerings
<1>10. \A t \in Spendings : t.handle # r.nonce
  BY <1>3 DEF Spendings, CreateInv, ProtocolInv, ReferencesApart
<1>11. ~Promise!HasSpent(c)
  BY <1>5, HasSpentIs
<1>12. Promise!Takes(c)
  <2> HIDE DEF offer
  <2>1. /\ \A t \in Spendings : t.handle # offer.handle
        /\ Spendings' = Spendings \cup {[by |-> c, handle |-> offer.handle]}
    BY <1>8, <1>9, <1>10
  <2>2. QED
    BY <1>9, <1>11, <2>1 DEF Promise!Takes, Offerings, Spendings
<1>13. QED
  BY <1>7, <1>12

LEMMA BeginMaps ==
  ASSUME CreateInv, CreateInv', NEW c \in Commits, NEW o \in Operations,
         NEW r \in issued, NEW ack \in BOOLEAN, CommitBegins(c, o, r, ack)
  PROVE  Promise!Next
<1> DEFINE b == [BindingFor(r.binding.targetHash) EXCEPT !.operationId = o]
<1>1. at[c] = "idle" /\ CallsInv
  BY DEF CommitBegins, CreateInv, ProtocolInv
<1>2. CASE Conf!Verdict(r, b) # "ok"
  <2>1. \E code : Answer(c, "consume", code)
    BY <1>2 DEF CommitBegins
  <2>2. EndsKept
    BY <1>2, EndsStay DEF CommitBegins, confirmationVars, jisrVars
  <2>3. QED
    BY <1>1, <2>1, <2>2, AnswerMaps
<1>3. CASE Conf!Verdict(r, b) = "ok"
  <2>1. Promise!Takes(c) /\ Offerings' = Offerings /\ Makings' = Makings
    BY <1>3, ConsumeMaps
  <2>2. CASE Goto(c, "submitting")
    <3>1. Requested' = Requested /\ Told' = Told
      BY <1>1, <2>2, GotoUnseen DEF CallsInv
    <3>2. Requested[c] = "unsent" /\ Told[c] = "nothing"
      BY <1>1 DEF Requested, Told, RequestOf, ToldOf, CallsInv, CallsTypeOK,
                  SentIsPast, UnderWay, Statuses
    <3>3. Promise!Spends(c)
      BY <2>1, <3>1, <3>2
      DEF Promise!Spends, Requested, Told, Offerings, Makings, Making
    <3>4. QED
      BY <3>3 DEF Promise!Next
  <2>3. CASE \E stage \in {"consume", "warning", "guard"},
                code \in {"WRITE_PREPARATION_EXPIRED",
                          "DUPLICATE_WRITE_SUSPECTED"} :
               Answer(c, stage, code)
    BY <1>1, <2>1, <2>3, RefusalMaps
  <2>4. QED
    BY <1>3, <2>2, <2>3 DEF CommitBegins
<1>4. QED
  BY <1>2, <1>3

\* A request leaves, for a commit that has taken an offer.
LEMMA SendsMaps ==
  ASSUME CreateInv, NEW c \in Commits, Sends(c), EndsKept
  PROVE  Promise!Next
<1>1. CallsTypeOK /\ at[c] = "submitting"
  BY DEF CreateInv, ProtocolInv, CallsInv, Sends
<1>2. Promise!HasSpent(c)
  BY <1>1, HasSpentIs DEF CreateInv, ProtocolInv, SentIsHeld, StashesOffered
<1>3. /\ Requested[c] = "unsent" /\ Told[c] = "nothing"
      /\ Requested' = [Requested EXCEPT ![c] = "open"] /\ Told' = Told
  BY <1>1, SendsOpens DEF Requested, Told
<1>4. Promise!Sends(c)
  BY <1>2, <1>3
  DEF Promise!Sends, EndsKept, Offerings, Spendings, Makings, Making,
      Requested, Told
<1>5. QED
  BY <1>4 DEF Promise!Next

\* The submission ends: with an answer, or unseen before the last read.
LEMMA SubmitMaps ==
  ASSUME CreateInv, CreateInv', NEW c \in Commits, SubmitEnds(c), EndsKept
  PROVE  Promise!Next \/ UNCHANGED seenVars
<1>1. CallsTypeOK /\ at[c] = "submitting"
  BY DEF CreateInv, ProtocolInv, CallsInv, SubmitEnds
<1>2. CASE Goto(c, "rereading")
  BY <1>1, <1>2, GotoUnseen DEF seenVars, EndsKept
<1>3. CASE \E code : Answer(c, "submit", SubmitGuarded(code))
  BY <1>1, <1>3, AnswerMaps
<1>4. QED
  BY <1>2, <1>3 DEF SubmitEnds

\* What Jisr creates for a commit is what the commit's offer named.
LEMMA HandlesMaps ==
  ASSUME CreateInv, NEW c \in Commits, NEW status \in Replies,
         JisrHandles(c, status)
  PROVE  Promise!Next
<1> DEFINE row == [operation |-> tool[c], code |-> stashed[c].submission.code,
                   label |-> stashed[c].submission.label, by |-> c]
           s == [by |-> c, handle |-> reference[c]]
           o == [handle |-> reference[c],
                 target |-> Subject(shown[reference[c]].input)]
<1>1. /\ CallsTypeOK /\ JisrReplies(c, status)
      /\ reply[c] \in UnderWay
      /\ UNCHANGED <<issued, shown, reference>>
  BY DEF CreateInv, ProtocolInv, CallsInv, JisrHandles, JisrReplies,
         confirmationVars, localVars
<1>2. /\ Requested[c] = "open" /\ Told' = Told
      /\ \/ Requested' = [Requested EXCEPT ![c] = "settled"]
         \/ /\ Requested' = [Requested EXCEPT ![c] = "unsent"]
            /\ Told[c] = "nothing" /\ ~MayHaveWritten(status)
  BY <1>1, RepliesSettle DEF Requested, Told
<1>3. Offerings' = Offerings /\ Spendings' = Spendings
  BY <1>1 DEF Offerings, Spendings
<1>4. CASE rows' = rows
  <2>1. Makings' = Makings
    BY <1>4 DEF Makings
  <2>2. CASE Requested' = [Requested EXCEPT ![c] = "settled"]
    <3>1. Promise!Settles(c)
      BY <1>2, <1>3, <2>1, <2>2
      DEF Promise!Settles, Offerings, Spendings, Makings, Making, Requested,
          Told
    <3>2. QED
      BY <3>1 DEF Promise!Next
  <2>3. CASE /\ Requested' = [Requested EXCEPT ![c] = "unsent"]
             /\ Told[c] = "nothing"
    <3>1. Promise!Returns(c)
      BY <1>2, <1>3, <2>1, <2>3
      DEF Promise!Returns, Offerings, Spendings, Makings, Making, Requested,
          Told
    <3>2. QED
      BY <3>1 DEF Promise!Next
  <2>4. QED
    BY <1>2, <2>2, <2>3
<1>5. CASE MayHaveWritten(status) /\ rows' = rows \cup {row}
  <2>1. Requested' = [Requested EXCEPT ![c] = "settled"]
    BY <1>2, <1>5
  <2>2. Makings' = Makings \cup {Making(row)}
    <3>1. row.by \in Commits
      OBVIOUS
    <3> HIDE DEF row
    <3>2. QED
      BY <1>5, <3>1 DEF Makings
  <2>3. /\ reference[c] # NotShown /\ shown[reference[c]] # NotShown
        /\ Offered(stashed[c], shown[reference[c]])
        /\ tool[c] = stashed[c].submission.operation
    BY <1>1 DEF CreateInv, ProtocolInv, SentIsHeld, StashesOffered, UnderWay
  <2>5. Making(row) = [by |-> c, target |-> o.target]
    BY <2>3 DEF Making, Offered, Subject
  <2>6. PICK r \in issued : r.nonce = reference[c]
    BY <2>3 DEF CreateInv, ProtocolInv, ReferencesApart, Store!IInv,
                Store!ReleasesAccounted
  <2>7. s \in Spendings /\ s.by = c /\ s.handle = reference[c]
    BY <2>3 DEF Spendings
  <2>8. o \in Offerings /\ o.handle = reference[c]
    BY <2>6 DEF Offerings
  <2> HIDE DEF row, s, o
  <2>9. Promise!Settles(c)
    <3>1. \E p \in Spendings, q \in Offerings :
            /\ p.by = c /\ q.handle = p.handle
            /\ Makings' = Makings \cup {[by |-> c, target |-> q.target]}
      BY <2>2, <2>5, <2>7, <2>8
    <3>2. QED
      BY <1>2, <1>3, <2>1, <3>1
      DEF Promise!Settles, Offerings, Spendings, Makings, Making, Requested,
          Told
  <2>10. QED
    BY <2>9 DEF Promise!Next
<1>6. QED
  BY <1>4, <1>5 DEF JisrHandles

\* The process ends.
LEMMA RestartMaps ==
  ASSUME CreateInv, Restart
  PROVE  Promise!Next
<1>1. CallsTypeOK /\ CallsDie /\ EndsKept
  BY EndsStay
  DEF CreateInv, ProtocolInv, CallsInv, Restart, Conf!Restart, localVars,
      jisrVars
<1>2. \A c \in Commits :
        RequestOf(c) = "unsent" => (at[c] # "idle" <=> Promise!HasSpent(c))
  <2>1. SUFFICES ASSUME NEW c \in Commits, RequestOf(c) = "unsent"
                 PROVE  at[c] # "idle" <=> reference[c] # NotShown
    BY HasSpentIs
  <2>2. at[c] \in {"idle", "revalidating", "revalidated", "submitting",
                   "rereading"}
    BY <1>1, <2>1 DEF RequestOf, CallsTypeOK, Places
  <2>3. QED
    BY <2>2 DEF CreateInv, ProtocolInv, IdleIsFresh, SentIsHeld,
                StashesOffered
<1>3. /\ Told' = Told
      /\ Requested' = [c \in Commits |->
                         IF Requested[c] = "unsent" /\ Promise!HasSpent(c)
                         THEN "settled" ELSE Requested[c]]
  BY <1>1, <1>2, DieStops DEF Requested
<1>4. Promise!Stops
  BY <1>1, <1>3
  DEF Promise!Stops, EndsKept, Offerings, Spendings, Makings, Making,
      Requested, Told
<1>5. QED
  BY <1>4 DEF Promise!Next

\* A prepare that has only read has offered nothing.
LEMMA ReadsUnseen ==
  ASSUME CreateInv, NEW n \in Nonces, NEW input \in Input,
         PrepareReads(n, input)
  PROVE  UNCHANGED seenVars
<1>1. /\ shown[n] = NotShown /\ issued' = issued
      /\ \A m \in Nonces \ {n} : shown'[m] = shown[m]
      /\ UNCHANGED <<localVars, callVars, jisrVars>>
  BY DEF PrepareReads, confirmationVars, CreateInv, ProtocolInv, LocalsTypeOK
<1>2. \A r \in issued : r.nonce \in Nonces /\ shown[r.nonce] # NotShown
  BY DEF CreateInv, Store!IInv, Store!TypeOK, Store!Reference, ProtocolInv,
         PreviewsInv, ReferencesOffered
<1>3. Offerings' = Offerings
  BY <1>1, <1>2 DEF Offerings
<1>4. UNCHANGED <<Spendings, Makings, Requested, Told>>
  BY <1>1 DEF Spendings, Makings, Requested, Told, RequestOf, ToldOf,
              SaysNothingWritten, localVars, callVars, jisrVars
<1>5. QED
  BY <1>3, <1>4 DEF seenVars

\* Somebody else's record is made for no commit.
LEMMA HireUnseen ==
  ASSUME NEW code \in Codes, NEW label \in Labels, HireInJisr(code, label)
  PROVE  UNCHANGED seenVars
<1> DEFINE row == [operation |-> "createEmployee", code |-> code,
                   label |-> label, by |-> "others"]
<1>1. /\ rows' = rows \cup {row}
      /\ UNCHANGED <<issued, shown, reference, callVars>>
  BY DEF HireInJisr, confirmationVars, localVars
<1>2. row.by \notin Commits
  BY RecordCreateAssumption
<1> HIDE DEF row
<1>3. Makings' = Makings
  BY <1>1, <1>2 DEF Makings
<1>4. QED
  BY <1>1, <1>3
  DEF seenVars, Offerings, Spendings, Requested, Told, RequestOf, ToldOf,
      SaysNothingWritten, callVars

\* Every step of the services is a step of a controlled write, or is not seen.
LEMMA StepMaps ==
  CreateInv /\ CreateInv' /\ [Next]_vars => [Promise!Next]_(Promise!vars)
<1>1. SUFFICES ASSUME CreateInv, CreateInv', [Next]_vars
               PROVE  Promise!Next \/ UNCHANGED seenVars
  BY MappingIs DEF Promise!vars, seenVars, Offerings, Spendings, Requested,
     Makings, Making, Told
<1>2. ASSUME NEW c \in Commits, Submits(c)
      PROVE  Promise!Next \/ UNCHANGED seenVars
  <2>1. EndsKept
    BY <1>2, EndsStay DEF Submits, confirmationVars, localVars, jisrVars
  <2>2. QED
    BY <1>1, <1>2, <2>1, SendsMaps, SubmitMaps DEF Submits
<1>3. ASSUME NEW c \in Commits, Rereads(c) PROVE Promise!Next
  <2>1. EndsKept
    BY <1>3, EndsStay DEF Rereads, confirmationVars, jisrVars
  <2>2. at[c] = "rereading" /\ \E code : Answer(c, "reread", code)
    BY <1>3 DEF Rereads, RereadFails
  <2>3. QED
    BY <1>1, <2>1, <2>2, AnswerMaps
<1>4. CASE UNCHANGED <<issued, shown, reference, rows, callVars>>
  BY <1>4, EndsStay
  DEF EndsKept, seenVars, Requested, Told, RequestOf, ToldOf,
      SaysNothingWritten, callVars
<1>5. CASE Tick
  BY <1>4, <1>5 DEF Tick, Conf!Tick, localVars, jisrVars
<1>6. CASE UNCHANGED vars
  BY <1>4, <1>6 DEF vars, callVars
<1>7. QED
  BY <1>1, <1>2, <1>3, <1>5, <1>6, ReadsUnseen, IssueMaps, BeginMaps,
     HandlesMaps, HireUnseen, RestartMaps DEF Next

LEMMA InitMaps == Init => Promise!Init
BY DEF Init, Conf!Init, CallsIdle, Promise!Init, RequestOf, ToldOf, UnderWay,
       Statuses

\* From preview to answer both services are controlled writes, for any number
\* of codes, labels, previews, commits and restarts: they send only what they
\* spent a preview for, create only what that preview was asked for, and a
\* refusal is true for good (employees-write-service.ts and
\* attendance-write-service.ts with submitGuarded and both stores; spec 002,
\* FR-009, FR-010).
THEOREM ControlledWriteRefinement == Spec => ImplementsControlledWrite
BY InitMaps, StepMaps, CreateInvariance, PTL
DEF Spec, ImplementsControlledWrite, Promise!Spec

-----------------------------------------------------------------------------
\* The calls that invokeTool audits and counts are the creations of
\* RecordCreate, so that every theorem above holds of them (invokeTool in
\* adapters/shared.ts changes nothing of a handler's effects).
THEOREM InvocationCreates == InvocationSpec => Spec
<1>1. InvocationInit => Init
  BY DEF InvocationInit
<1>2. [InvocationNext]_invocationVars => [Next]_vars
  BY DEF InvocationNext, CreationStep, OtherCall, UnknownTool, invocationVars
<1>3. QED
  BY <1>1, <1>2, PTL DEF InvocationSpec, Spec

-----------------------------------------------------------------------------
(* The trail and the counters.                                             *)

Done == {"created", "not_visible"}

\* What every answer of a commit looks like.
EndsWell(a) ==
  /\ a.code \notin {"done", "raw"}
  /\ a.raw => a.code = "JISR_RESPONSE_INVALID"
  /\ a.code \in Done => a.stage = "reread" /\ ~a.raw
  /\ a.stage = "reread" =>
       a.code \in Done \cup ReadFailures \cup {"JISR_RESPONSE_INVALID"}

AnswersEndWell ==
  \A c \in Commits : answer[c] # NoAnswer =>
    /\ EndsWell(answer[c])
    /\ answer[c].stage = "reread" => stashed[c] # NoStash

\* A commit under way holds a reference of its own process.
OwnProcess ==
  \A c \in Commits : at[c] \in {"submitting", "rereading"} =>
    \E r \in issued : r.nonce = reference[c] /\ r.epoch = epoch

OthersApart ==
  /\ other \in [Nonces -> {None, "done", "raw", "TOOL_NOT_ENABLED"}
                           \cup ReadFailures]
  /\ \A n \in Nonces : shown[n] # NotShown => other[n] = None

\* The line of a commit says what was answered, and that of a success names
\* the target and belongs to the process of the reference.
CommitLine(line, c) ==
  /\ line.tool = <<tool[c], "commit">>
  /\ IF answer[c].code \in Done
     THEN /\ line.end.outcome = "allowed"
          /\ line.end.audit.target = stashed[c].submission.code
          /\ \E r \in issued : r.nonce = reference[c] /\ r.epoch = line.process
     ELSE line.end.outcome # "allowed" /\ line.end.errorCode = answer[c].code

\* The line of a prepare names its tool, its target and its process.
PrepareLine(line, n) ==
  \E r \in issued :
    /\ r.nonce = n /\ r.epoch = line.process
    /\ line.tool = <<r.binding.operationId, "prepare">>
    /\ line.end.outcome = "allowed"
    /\ line.end.audit.target = r.preview.submission.code

LineHolds(line) ==
  /\ line \in Lines /\ line.process <= epoch
  /\ line.call \in Commits => CommitLine(line, line.call)
  /\ line.call \in Nonces =>
       IF other[line.call] = None THEN PrepareLine(line, line.call)
       ELSE line.tool = <<"other", "call">>

LinesHold == \A line \in trail : LineHolds(line)

TrailInv ==
  /\ epoch <= MaxEpoch
  /\ AnswersEndWell /\ OwnProcess /\ OthersApart
  /\ IsFiniteSet(trail)
  /\ metrics \in [DOMAIN NoCalls -> Nat]
  /\ LinesHold
  /\ AuditedUnlessUnsafe
  /\ CountsAgree

-----------------------------------------------------------------------------
(* How a step of the creations ends a call.                                *)

CommitEnds(c) ==
  /\ answer[c] = NoAnswer
  /\ \E a \in Answers :
       /\ EndsWell(a)
       /\ a.stage = "reread" => /\ at[c] = "rereading"
                                /\ UNCHANGED <<reference, stashed, tool>>
       /\ answer' = [answer EXCEPT ![c] = a]
  /\ tool'[c] \in Operations
  /\ UNCHANGED <<issued, shown, epoch>>

PrepareEnds(n) ==
  /\ shown[n] # NotShown
  /\ \E r \in issued' :
       /\ r.nonce = n /\ r.epoch = epoch
       /\ r.binding.operationId = r.preview.submission.operation
       /\ r.preview.submission = ToSubmission(shown[n].input)
       /\ issued' = issued \cup {r}
  /\ \A r \in issued : r.nonce # n
  /\ UNCHANGED <<answer, shown, epoch>>

NothingEnds ==
  /\ UNCHANGED <<answer, issued>>
  /\ epoch' = epoch \/ (epoch' = epoch + 1 /\ epoch < MaxEpoch)

\* What a call left behind when it was answered stays as it is.
LeavesAnswered ==
  /\ \A n \in Nonces : shown[n] # NotShown => shown'[n] = shown[n]
  /\ \A c \in Commits : answer[c] # NoAnswer =>
       /\ reference'[c] = reference[c]
       /\ stashed'[c] = stashed[c]
       /\ tool'[c] = tool[c]

StepEnds ==
  /\ \/ \E c \in Commits : CommitEnds(c)
     \/ \E n \in Nonces : PrepareEnds(n)
     \/ NothingEnds
  /\ LeavesAnswered
  /\ OwnProcess'

\* An answer that the services give ends well.
LEMMA AnswerEndsWell ==
  ASSUME NEW c \in Commits, NEW stage \in Stages,
         NEW code \in AnswerCodes \ {"done"}, Answer(c, stage, code),
         IF stage = "reread" THEN code \in Done \cup ReadFailures
         ELSE AnswerCode(code) \notin Done
  PROVE  \E a \in Answers :
           /\ EndsWell(a) /\ a.stage = stage
           /\ answer' = [answer EXCEPT ![c] = a]
<1> DEFINE a == [stage |-> stage, code |-> AnswerCode(code),
                 raw |-> code = "raw"]
<1>1. a \in Answers /\ a.stage = stage /\ answer' = [answer EXCEPT ![c] = a]
  BY CodesAreAnswers DEF Answers, Stages, Answer
<1>2. EndsWell(a)
  BY DEF EndsWell, AnswerCode, Done
<1>3. QED
  BY <1>1, <1>2

\* The beginning of a commit answers it, or sets it going with a reference of
\* its own process.
LEMMA BeginsEnds ==
  ASSUME ProtocolInv, OwnProcess, NEW c \in Commits, NEW o \in Operations,
         NEW r \in issued, NEW ack \in BOOLEAN, CommitBegins(c, o, r, ack)
  PROVE  StepEnds
<1> DEFINE b == [BindingFor(r.binding.targetHash) EXCEPT !.operationId = o]
           verdict == Conf!Verdict(r, b)
           stash == Conf!Stashed(r.nonce)
<1>1. /\ at[c] = "idle" /\ answer[c] = NoAnswer
      /\ tool' = [tool EXCEPT ![c] = o]
      /\ UNCHANGED shown
  BY DEF CommitBegins, ProtocolInv, CallsInv, CallsTypeOK
<1>2. verdict \in AnswerCodes \cup {"ok"}
      /\ verdict \notin {"done", "raw"} \cup Done
  BY VerdictsAreAnswers DEF Conf!Verdict, Done
<1>3. /\ "WRITE_PREPARATION_EXPIRED" \in AnswerCodes \ {"done"}
      /\ "DUPLICATE_WRITE_SUSPECTED" \in AnswerCodes \ {"done"}
      /\ {"consume", "warning", "guard"} \subseteq Stages \ {"reread"}
  BY DEF AnswerCodes, Stages
<1>4. /\ UNCHANGED <<issued, epoch>>
      /\ \/ UNCHANGED <<reference, stashed>>
         \/ /\ verdict = "ok"
            /\ reference' = [reference EXCEPT ![c] = r.nonce]
            /\ stashed' = [stashed EXCEPT ![c] = stash]
      /\ \/ /\ verdict = "ok" /\ Goto(c, "submitting")
            /\ reference' = [reference EXCEPT ![c] = r.nonce]
         \/ \E stage \in Stages \ {"reread"}, code \in AnswerCodes \ {"done"} :
              Answer(c, stage, code) /\ AnswerCode(code) \notin Done
  <2>1. CASE verdict # "ok"
    <3>1. /\ Answer(c, "consume", verdict)
          /\ UNCHANGED <<confirmationVars, reference, stashed>>
      BY <2>1 DEF CommitBegins
    <3>2. AnswerCode(verdict) \notin Done
      BY <1>2 DEF AnswerCode
    <3>3. QED
      BY <1>2, <1>3, <2>1, <3>1, <3>2 DEF confirmationVars
  <2>2. CASE verdict = "ok"
    <3>1. /\ Conf!ConsumeReference(r, b)
          /\ reference' = [reference EXCEPT ![c] = r.nonce]
          /\ stashed' = [stashed EXCEPT ![c] = stash]
          /\ \/ Answer(c, "consume", "WRITE_PREPARATION_EXPIRED")
             \/ Answer(c, "warning", "DUPLICATE_WRITE_SUSPECTED")
             \/ Answer(c, "guard", "DUPLICATE_WRITE_SUSPECTED")
             \/ Goto(c, "submitting")
      BY <2>2 DEF CommitBegins
    <3>2. UNCHANGED <<issued, epoch>>
      BY <3>1 DEF Conf!ConsumeReference
    <3>3. /\ AnswerCode("WRITE_PREPARATION_EXPIRED") \notin Done
          /\ AnswerCode("DUPLICATE_WRITE_SUSPECTED") \notin Done
      BY DEF AnswerCode, Done
    <3> HIDE DEF verdict, stash, b
    <3>4. QED
      BY <1>3, <2>2, <3>1, <3>2, <3>3
  <2>3. QED
    BY <2>1, <2>2
<1>5. verdict = "ok" => r.epoch = epoch
  BY DEF Conf!Verdict
<1> HIDE DEF verdict, stash, b
<1>6. LeavesAnswered
  BY <1>1, <1>4 DEF LeavesAnswered, ProtocolInv, LocalsTypeOK
<1>7. \A d \in Commits \ {c} : at'[d] = at[d] /\ reference'[d] = reference[d]
  BY <1>4 DEF Answer, Goto, ProtocolInv, CallsInv, CallsTypeOK, LocalsTypeOK
<1>8. CASE Goto(c, "submitting") /\ verdict = "ok"
           /\ reference' = [reference EXCEPT ![c] = r.nonce]
  <2>1. NothingEnds
    BY <1>4, <1>8 DEF Goto, NothingEnds
  <2>2. reference'[c] = r.nonce
    BY <1>8 DEF ProtocolInv, LocalsTypeOK
  <2>3. OwnProcess'
    BY <1>4, <1>5, <1>7, <1>8, <2>2 DEF OwnProcess
  <2>4. QED
    BY <1>6, <2>1, <2>3 DEF StepEnds
<1>9. ASSUME NEW stage \in Stages \ {"reread"},
             NEW code \in AnswerCodes \ {"done"},
             Answer(c, stage, code), AnswerCode(code) \notin Done
      PROVE  StepEnds
  <2>1. PICK a \in Answers : /\ EndsWell(a) /\ a.stage = stage
                             /\ answer' = [answer EXCEPT ![c] = a]
    BY <1>9, AnswerEndsWell
  <2>2. CommitEnds(c)
    BY <1>1, <1>4, <2>1 DEF CommitEnds, ProtocolInv, LocalsTypeOK
  <2>3. at'[c] = "answered"
    BY <1>9 DEF Answer, ProtocolInv, CallsInv, CallsTypeOK
  <2>4. OwnProcess'
    BY <1>4, <1>7, <2>3 DEF OwnProcess
  <2>5. QED
    BY <1>6, <2>2, <2>4 DEF StepEnds
<1>10. QED
  BY <1>4, <1>8, <1>9

\* A commit under way knows which tool it is.
LEMMA SentTools ==
  ASSUME ProtocolInv, NEW c \in Commits, at[c] \in {"submitting", "rereading"}
  PROVE  tool[c] \in Operations
<1>1. stashed[c] # NoStash
  BY DEF ProtocolInv, SentIsHeld
<1>2. stashed[c] \in Payload /\ tool[c] = stashed[c].submission.operation
  BY <1>1 DEF ProtocolInv, LocalsTypeOK, StashesOffered
<1>3. QED
  BY <1>2 DEF Payload, Submission

\* A submission that ends in an error answers its commit.
LEMMA SubmitsEndsCall ==
  ASSUME ProtocolInv, OwnProcess, NEW c \in Commits, Submits(c)
  PROVE  StepEnds
<1>1. /\ at[c] = "submitting" /\ answer[c] = NoAnswer
      /\ UNCHANGED <<issued, epoch, shown, reference, stashed, tool>>
  BY DEF Submits, Sends, SubmitEnds, confirmationVars, localVars, ProtocolInv,
         CallsInv, CallsTypeOK
<1>2. LeavesAnswered
  BY <1>1 DEF LeavesAnswered
<1>3. \A d \in Commits : \/ at'[d] = at[d]
                         \/ d = c /\ at'[d] \in {"rereading", "answered"}
  BY DEF Submits, Sends, SubmitEnds, Goto, Answer, ProtocolInv, CallsInv,
         CallsTypeOK
<1>4. OwnProcess'
  BY <1>1, <1>3 DEF OwnProcess
<1>5. CASE answer' = answer
  BY <1>1, <1>2, <1>4, <1>5 DEF StepEnds, NothingEnds
<1>6. CASE answer' # answer
  <2>1. PICK code \in Ends(reply[c]) :
          code # "done" /\ Answer(c, "submit", SubmitGuarded(code))
    BY <1>6 DEF Submits, Sends, SubmitEnds, Goto
  <2>2. code \in ClientCodes
    BY <2>1, EndsAreCodes DEF ProtocolInv, CallsInv, CallsTypeOK
  <2>3. SubmitGuarded(code) \in AnswerCodes \ {"done"}
    BY <2>1, <2>2, CodesAreAnswers
    DEF AnswerCodes, SubmitGuarded
  <2>4. AnswerCode(SubmitGuarded(code)) \notin Done
    BY <2>2, ClientCodesApart DEF Done
  <2>5. "submit" \in Stages /\ "submit" # "reread"
    BY DEF Stages
  <2>6. PICK a \in Answers : /\ EndsWell(a) /\ a.stage = "submit"
                             /\ answer' = [answer EXCEPT ![c] = a]
    BY <2>1, <2>3, <2>4, <2>5, AnswerEndsWell
  <2>7. CommitEnds(c)
    BY <1>1, <2>6, SentTools DEF CommitEnds
  <2>8. QED
    BY <1>2, <1>4, <2>7 DEF StepEnds
<1>7. QED
  BY <1>5, <1>6

\* The re-read answers its commit.
LEMMA RereadsEndsCall ==
  ASSUME ProtocolInv, OwnProcess, NEW c \in Commits, Rereads(c)
  PROVE  StepEnds
<1>1. /\ at[c] = "rereading" /\ answer[c] = NoAnswer
      /\ UNCHANGED <<issued, epoch, shown, reference, stashed, tool>>
  BY DEF Rereads, RereadFails, confirmationVars, ProtocolInv, CallsInv,
         CallsTypeOK
<1>2. LeavesAnswered
  BY <1>1 DEF LeavesAnswered
<1>3. PICK code \in Done \cup ReadFailures : Answer(c, "reread", code)
  BY DEF Rereads, RereadFails, Done
<1>4. \A d \in Commits : at'[d] = at[d] \/ at'[d] = "answered"
  BY <1>3 DEF Answer, ProtocolInv, CallsInv, CallsTypeOK
<1>5. OwnProcess'
  BY <1>1, <1>4 DEF OwnProcess
<1>6. code \in AnswerCodes \ {"done"} /\ "reread" \in Stages
  BY WriteCallAssumption DEF AnswerCodes, Stages, Done
<1>7. PICK a \in Answers : /\ EndsWell(a) /\ a.stage = "reread"
                           /\ answer' = [answer EXCEPT ![c] = a]
  BY <1>3, <1>6, AnswerEndsWell
<1>8. CommitEnds(c)
  BY <1>1, <1>7, SentTools DEF CommitEnds
<1>9. QED
  BY <1>2, <1>5, <1>8 DEF StepEnds

\* Every step of the creations ends one commit, one prepare or nothing.
LEMMA EveryStepEnds ==
  ASSUME CreateInv, OwnProcess, Next
  PROVE  StepEnds
<1>1. ProtocolInv /\ now \in Nat /\ epoch \in Nat
  BY DEF CreateInv, Store!IInv, Store!TypeOK
<1>2. ASSUME UNCHANGED <<issued, epoch, localVars, callVars>>,
             \A n \in Nonces : shown[n] # NotShown => shown'[n] = shown[n]
      PROVE  StepEnds
  <2>1. OwnProcess'
    BY <1>2 DEF OwnProcess, localVars, callVars
  <2>2. QED
    BY <1>2, <2>1
    DEF StepEnds, NothingEnds, LeavesAnswered, localVars, callVars
<1>3. CASE \E n \in Nonces, input \in Input : PrepareReads(n, input)
  <2>1. PICK n \in Nonces, input \in Input : PrepareReads(n, input)
    BY <1>3
  <2>2. /\ UNCHANGED <<issued, epoch, localVars, callVars>>
        /\ shown[n] = NotShown
        /\ \A m \in Nonces \ {n} : shown'[m] = shown[m]
    BY <1>1, <2>1
    DEF PrepareReads, confirmationVars, ProtocolInv, LocalsTypeOK
  <2>3. QED
    BY <1>2, <2>2
<1>4. CASE \E n \in Nonces : PrepareIssues(n)
  <2>1. PICK n \in Nonces : PrepareIssues(n)
    BY <1>4
  <2> DEFINE submission == ToSubmission(shown[n].input)
             r == [nonce |-> n, binding |-> BindingFor(submission),
                   expiresAt |-> now + TTL, epoch |-> epoch,
                   preview |-> [submission |-> submission,
                                hasDuplicateWarning |-> shown[n].duplicate]]
  <2>2. /\ shown[n] # NotShown
        /\ issued' = issued \cup {r}
        /\ \A s \in issued : s.nonce # n
        /\ UNCHANGED <<epoch, shown, localVars, callVars>>
    BY <2>1 DEF PrepareIssues, Conf!IssueReference
  <2>3. /\ r.nonce = n /\ r.epoch = epoch
        /\ r.binding.operationId = r.preview.submission.operation
        /\ r.preview.submission = ToSubmission(shown[n].input)
    BY DEF BindingFor
  <2> HIDE DEF r
  <2>4. PrepareEnds(n)
    BY <2>2, <2>3 DEF PrepareEnds, callVars
  <2>5. OwnProcess' /\ LeavesAnswered
    BY <2>2 DEF OwnProcess, LeavesAnswered, localVars, callVars
  <2>6. QED
    BY <2>4, <2>5 DEF StepEnds
<1>5. CASE \E c \in Commits, o \in Operations, r \in issued, ack \in BOOLEAN :
             CommitBegins(c, o, r, ack)
  BY <1>1, <1>5, BeginsEnds
<1>6. CASE \E c \in Commits : Submits(c) \/ Rereads(c)
  BY <1>1, <1>6, SubmitsEndsCall, RereadsEndsCall
<1>7. CASE \E c \in Commits, s \in Replies : JisrHandles(c, s)
  <2>1. UNCHANGED <<issued, epoch, shown, localVars, at, answer>>
    BY <1>7 DEF JisrHandles, JisrReplies, confirmationVars
  <2>2. OwnProcess'
    BY <2>1 DEF OwnProcess, localVars
  <2>3. QED
    BY <2>1, <2>2 DEF StepEnds, NothingEnds, LeavesAnswered, localVars
<1>8. CASE \E code \in Codes, label \in Labels : HireInJisr(code, label)
  BY <1>2, <1>8 DEF HireInJisr, confirmationVars
<1>9. CASE Restart
  <2>1. /\ UNCHANGED <<issued, shown, localVars, answer>>
        /\ epoch' = epoch + 1 /\ epoch < MaxEpoch
        /\ \A c \in Commits : at'[c] \notin {"submitting", "rereading"}
    BY <1>1, <1>9 DEF Restart, Conf!Restart, CallsDie, ProtocolInv, CallsInv,
                      CallsTypeOK, Places
  <2>2. OwnProcess'
    BY <2>1 DEF OwnProcess
  <2>3. QED
    BY <2>1, <2>2 DEF StepEnds, NothingEnds, LeavesAnswered, localVars
<1>10. CASE Tick
  BY <1>2, <1>10 DEF Tick, Conf!Tick
<1>11. QED
  BY <1>3, <1>4, <1>5, <1>6, <1>7, <1>8, <1>9, <1>10 DEF Next

-----------------------------------------------------------------------------
(* What is recorded of a call.                                             *)

\* A context that is not safe after one piece has been redacted.
UnsafeContext(code, context) ==
  code = "done" /\ context # None /\ context.reason > 1

\* What the line of a record says.
IsLineOf(line, call, tl, code, context) ==
  /\ line.call = call /\ line.process = epoch /\ line.tool = tl
  /\ line = [call |-> call, process |-> epoch, tool |-> tl, end |-> line.end]
  /\ line.end = [decision |-> Ending(code, context).decision,
                 outcome |-> Ending(code, context).outcome,
                 errorCode |-> Ending(code, context).errorCode,
                 audit |-> line.end.audit]
  /\ line.end.audit \in {None} \cup Context
  /\ (code = "done" /\ context # None) =>
       line.end.audit.target = context.target

\* A record is dropped exactly if its reason is unsafe after redaction; its
\* line says what the record says, but for a piece of the reason.
LEMMA EmittedIs ==
  ASSUME NEW call, NEW tl, NEW code, NEW context \in {None} \cup Context,
         NEW record, record = AuditRecord(call, tl, code, context)
  PROVE  IF UnsafeContext(code, context)
         THEN Emitted(record) = {}
         ELSE \E line : /\ Emitted(record) = {line}
                        /\ IsLineOf(line, call, tl, code, context)
<1> DEFINE line == Redact(record)
<1>1. /\ record = [call |-> call, process |-> epoch, tool |-> tl,
                   end |-> record.end]
      /\ record.end = [decision |-> record.end.decision,
                       outcome |-> record.end.outcome,
                       errorCode |-> record.end.errorCode,
                       audit |-> record.end.audit]
      /\ record.end.audit = IF code = "done" THEN context ELSE None
      /\ record.end = Ending(code, context)
  <2>1. CASE code = "done"
    BY <2>1 DEF AuditRecord, Ending
  <2>2. CASE code = "raw"
    BY <2>2 DEF AuditRecord, Ending
  <2>3. CASE code # "done" /\ code # "raw"
    BY <2>3 DEF AuditRecord, Ending
  <2>4. QED
    BY <2>1, <2>2, <2>3
<1>2. None \notin Context
  BY InvocationAssumption
<1>3. CASE record.end.audit = None
  <2>1. line = record /\ Emitted(record) = {record}
    BY <1>3 DEF Redact, Emitted, AssertNoSecrets
  <2>2. ~(code = "done" /\ context # None)
    BY <1>1, <1>3
  <2>3. record.call = call /\ record.process = epoch /\ record.tool = tl
    BY <1>1
  <2>4. QED
    BY <1>1, <1>3, <2>1, <2>2, <2>3 DEF UnsafeContext, IsLineOf
<1>4. CASE record.end.audit # None
  <2>1. code = "done" /\ context \in Context /\ record.end.audit = context
    BY <1>1, <1>4
  <2> DEFINE redacted == [context EXCEPT !.reason = RedactString(@)]
  <2>2. /\ redacted \in Context /\ redacted.target = context.target
        /\ context.reason \in Nat
        /\ redacted.reason = RedactString(context.reason)
        /\ redacted.reason = 0 <=> ~(context.reason > 1)
    BY <2>1 DEF Context, RedactString
  <2>3. line = [record EXCEPT !.end =
                 [@ EXCEPT !.audit = redacted]]
    BY <1>4, <2>1 DEF Redact
  <2> HIDE DEF redacted
  <2>4. /\ line = [call |-> call, process |-> epoch, tool |-> tl,
                   end |-> line.end]
        /\ line.end = [decision |-> record.end.decision,
                       outcome |-> record.end.outcome,
                       errorCode |-> record.end.errorCode,
                       audit |-> redacted]
    BY <1>1, <2>3
  <2>5. line.call = call /\ line.process = epoch /\ line.tool = tl
        /\ line.end.audit = redacted
    BY <2>4
  <2>6. AssertNoSecrets(line) <=> redacted.reason = 0
    BY <1>2, <2>2, <2>5 DEF AssertNoSecrets
  <2>7. Emitted(record) = {x \in {line} : AssertNoSecrets(x)}
    BY DEF Emitted
  <2> HIDE DEF line
  <2>8. CASE context.reason > 1
    <3>1. Emitted(record) = {}
      BY <2>2, <2>6, <2>7, <2>8
    <3>2. QED
      BY <1>2, <2>1, <2>8, <3>1 DEF UnsafeContext
  <2>9. CASE ~(context.reason > 1)
    <3>1. Emitted(record) = {line}
      BY <2>2, <2>6, <2>7, <2>9
    <3>2. QED
      BY <1>1, <2>1, <2>2, <2>4, <2>5, <2>9, <3>1
      DEF UnsafeContext, IsLineOf
  <2>10. QED
    BY <2>8, <2>9
<1>5. QED
  BY <1>3, <1>4

-----------------------------------------------------------------------------
(* Counting.                                                               *)

Mine == {line \in trail : line.process = epoch}

LinesOf(outcome) == {line \in Mine : line.end.outcome = outcome}

LimitedLines == {line \in Mine : line.end.errorCode = "JISR_RATE_LIMITED"}

CountersMatch ==
  /\ metrics.refused = Cardinality(LinesOf("refused"))
  /\ metrics.failed = Cardinality(LinesOf("failed"))
  /\ metrics.authorizationDenials = Cardinality(LinesOf("refused"))
  /\ metrics.upstreamErrors =
       Cardinality(LinesOf("refused")) + Cardinality(LinesOf("failed"))
  /\ metrics.upstreamRateLimited = Cardinality(LimitedLines)
  /\ metrics.allowed >= Cardinality(LinesOf("allowed"))
  /\ metrics.allowed > Cardinality(LinesOf("allowed")) =>
       \E call \in Answered : Unsafe(call)

\* CountsAgree, with a name for each set of lines.
LEMMA CountersMatchIs == CountsAgree <=> CountersMatch
BY DEF CountsAgree, CountersMatch, Mine, LinesOf, LimitedLines

\* A finite trail has numbers of lines.
LEMMA LinesAreFinite ==
  ASSUME IsFiniteSet(trail)
  PROVE  /\ \A o : Cardinality(LinesOf(o)) \in Nat
         /\ Cardinality(LimitedLines) \in Nat
<1>1. /\ \A o : LinesOf(o) \in SUBSET trail
      /\ LimitedLines \in SUBSET trail
  BY DEF LinesOf, LimitedLines, Mine
<1>2. \A S \in SUBSET trail : IsFiniteSet(S)
  BY FS_Subset
<1>3. QED
  BY <1>1, <1>2, FS_CardinalityType

\* A new line of this process counts once, under its outcome.
LEMMA NewLineCounts ==
  ASSUME IsFiniteSet(trail), NEW line, line \notin trail,
         line.process = epoch, epoch' = epoch, trail' = trail \cup {line}
  PROVE  /\ IsFiniteSet(trail')
         /\ \A o : Cardinality(LinesOf(o)') =
              IF line.end.outcome = o THEN Cardinality(LinesOf(o)) + 1
              ELSE Cardinality(LinesOf(o))
         /\ Cardinality(LimitedLines') =
              IF line.end.errorCode = "JISR_RATE_LIMITED"
              THEN Cardinality(LimitedLines) + 1
              ELSE Cardinality(LimitedLines)
<1>1. \A S \in SUBSET trail :
        /\ IsFiniteSet(S) /\ line \notin S
        /\ Cardinality(S \cup {line}) = Cardinality(S) + 1
  BY FS_Subset, FS_AddElement
<1>2. IsFiniteSet(trail')
  BY FS_AddElement
<1>3. ASSUME NEW o
      PROVE  Cardinality(LinesOf(o)') =
               IF line.end.outcome = o THEN Cardinality(LinesOf(o)) + 1
               ELSE Cardinality(LinesOf(o))
  <2>1. LinesOf(o) \in SUBSET trail
    BY DEF LinesOf, Mine
  <2>2. LinesOf(o)' = IF line.end.outcome = o THEN LinesOf(o) \cup {line}
                      ELSE LinesOf(o)
    BY DEF LinesOf, Mine
  <2>3. QED
    BY <1>1, <2>1, <2>2
<1>4. Cardinality(LimitedLines') =
        IF line.end.errorCode = "JISR_RATE_LIMITED"
        THEN Cardinality(LimitedLines) + 1 ELSE Cardinality(LimitedLines)
  <2>1. LimitedLines \in SUBSET trail
    BY DEF LimitedLines, Mine
  <2>2. LimitedLines' =
          IF line.end.errorCode = "JISR_RATE_LIMITED"
          THEN LimitedLines \cup {line} ELSE LimitedLines
    BY DEF LimitedLines, Mine
  <2>3. QED
    BY <1>1, <2>1, <2>2
<1>5. QED
  BY <1>2, <1>3, <1>4

\* What the counters add for each end of a call.
LEMMA CountedIs ==
  ASSUME metrics \in [DOMAIN NoCalls -> Nat], NEW end,
         end.outcome \in {"allowed", "refused", "failed"},
         metrics' = Counted(metrics, end)
  PROVE  /\ metrics' \in [DOMAIN NoCalls -> Nat]
         /\ \A o \in {"allowed", "refused", "failed"} :
              metrics'[o] = metrics[o] + (IF o = end.outcome THEN 1 ELSE 0)
         /\ metrics'.authorizationDenials = metrics.authorizationDenials
              + (IF end.outcome = "refused" THEN 1 ELSE 0)
         /\ metrics'.upstreamErrors = metrics.upstreamErrors
              + (IF end.errorCode # None THEN 1 ELSE 0)
         /\ metrics'.upstreamRateLimited = metrics.upstreamRateLimited
              + (IF end.errorCode = "JISR_RATE_LIMITED" THEN 1 ELSE 0)
<1> DEFINE Outcomes == {"allowed", "refused", "failed"}
           Names == Outcomes \cup {"authorizationDenials", "upstreamErrors",
                                   "upstreamRateLimited"}
           m1 == [metrics EXCEPT ![end.outcome] = @ + 1]
           m2 == [m1 EXCEPT !.authorizationDenials =
                    IF end.outcome = "refused" THEN @ + 1 ELSE @]
           m3 == [m2 EXCEPT !.upstreamErrors =
                    IF end.errorCode # None THEN @ + 1 ELSE @]
           m4 == [m3 EXCEPT !.upstreamRateLimited =
                    IF end.errorCode = "JISR_RATE_LIMITED" THEN @ + 1 ELSE @]
<1>1. DOMAIN NoCalls = Names /\ metrics \in [Names -> Nat]
  BY DEF NoCalls
<1>2. metrics' = m4
  BY DEF Counted
<1>3. /\ m1 \in [Names -> Nat]
      /\ \A o \in Outcomes :
           m1[o] = metrics[o] + (IF o = end.outcome THEN 1 ELSE 0)
      /\ \A k \in Names \ Outcomes : m1[k] = metrics[k]
  BY <1>1
<1> HIDE DEF m1
<1>4. /\ m2 \in [Names -> Nat]
      /\ m2.authorizationDenials = m1.authorizationDenials
           + (IF end.outcome = "refused" THEN 1 ELSE 0)
      /\ \A k \in Names \ {"authorizationDenials"} : m2[k] = m1[k]
  BY <1>3
<1> HIDE DEF m2
<1>5. /\ m3 \in [Names -> Nat]
      /\ m3.upstreamErrors = m2.upstreamErrors
           + (IF end.errorCode # None THEN 1 ELSE 0)
      /\ \A k \in Names \ {"upstreamErrors"} : m3[k] = m2[k]
  BY <1>4
<1> HIDE DEF m3
<1>6. /\ m4 \in [Names -> Nat]
      /\ m4.upstreamRateLimited = m3.upstreamRateLimited
           + (IF end.errorCode = "JISR_RATE_LIMITED" THEN 1 ELSE 0)
      /\ \A k \in Names \ {"upstreamRateLimited"} : m4[k] = m3[k]
  BY <1>5
<1> HIDE DEF m4
<1>7. QED
  BY <1>1, <1>2, <1>3, <1>4, <1>5, <1>6

\* How a call ended, as its record says it.
LEMMA EndingIs ==
  ASSUME NEW code, NEW context
  PROVE  /\ code = "done" =>
              /\ Ending(code, context).decision = "allow"
              /\ Ending(code, context).outcome = "allowed"
              /\ Ending(code, context).errorCode = None
         /\ code = "raw" =>
              /\ Ending(code, context).decision = "allow"
              /\ Ending(code, context).outcome = "failed"
              /\ Ending(code, context).errorCode = "JISR_RESPONSE_INVALID"
         /\ code \notin {"done", "raw"} =>
              /\ Ending(code, context).decision = "deny"
              /\ Ending(code, context).outcome = "refused"
              /\ Ending(code, context).errorCode = code
BY DEF Ending, AnswerCode

\* An absent field is no context and no code.
LEMMA NoneApart == None \notin Context \cup AnswerCodes
                                       \cup {"TOOL_NOT_ENABLED", "raw", "done"}
BY InvocationAssumption, ClientCodesAre DEF AnswerCodes

\* A call that ends and is recorded keeps the counters at one with the trail.
LEMMA RecordedCounts ==
  ASSUME IsFiniteSet(trail), metrics \in [DOMAIN NoCalls -> Nat], CountersMatch,
         NEW call, NEW tl, NEW code \in AnswerCodes \cup {"raw", "done"},
         NEW context \in {None} \cup Context,
         \A l \in trail : l.call # call,
         epoch' = epoch, Recorded(AuditRecord(call, tl, code, context)),
         \A d \in Answered : d \in Answered' /\ (Unsafe(d)' <=> Unsafe(d)),
         UnsafeContext(code, context) => call \in Answered' /\ Unsafe(call)'
  PROVE  /\ IsFiniteSet(trail') /\ metrics' \in [DOMAIN NoCalls -> Nat]
         /\ CountersMatch'
<1> DEFINE record == AuditRecord(call, tl, code, context)
           end == Ending(code, context)
<1>1. /\ trail' = trail \cup Emitted(record)
      /\ metrics' = Counted(metrics, end)
      /\ record.end = end
  BY DEF Recorded, AuditRecord
<1>2. /\ code = "done" => end.outcome = "allowed" /\ end.errorCode = None
      /\ code = "raw" => /\ end.outcome = "failed"
                         /\ end.errorCode = "JISR_RESPONSE_INVALID"
      /\ code \notin {"done", "raw"} => /\ end.outcome = "refused"
                                        /\ end.errorCode = code
  BY EndingIs
<1>3. /\ end.outcome \in {"allowed", "refused", "failed"}
      /\ end.errorCode # None <=> code # "done"
      /\ end.outcome = "allowed" <=> code = "done"
      /\ end.errorCode # "JISR_RATE_LIMITED" \/ end.outcome = "refused"
  BY <1>2, NoneApart, ClientCodesAre DEF AnswerCodes
<1>4. /\ metrics' \in [DOMAIN NoCalls -> Nat]
      /\ \A o \in {"allowed", "refused", "failed"} :
           metrics'[o] = metrics[o] + (IF o = end.outcome THEN 1 ELSE 0)
      /\ metrics'.authorizationDenials = metrics.authorizationDenials
           + (IF end.outcome = "refused" THEN 1 ELSE 0)
      /\ metrics'.upstreamErrors = metrics.upstreamErrors
           + (IF end.errorCode # None THEN 1 ELSE 0)
      /\ metrics'.upstreamRateLimited = metrics.upstreamRateLimited
           + (IF end.errorCode = "JISR_RATE_LIMITED" THEN 1 ELSE 0)
  BY <1>1, <1>3, CountedIs
<1>5. /\ \A o : Cardinality(LinesOf(o)) \in Nat
      /\ Cardinality(LimitedLines) \in Nat
  BY LinesAreFinite
<1>6. \A k \in {"allowed", "refused", "failed", "authorizationDenials",
                "upstreamErrors", "upstreamRateLimited"} : metrics[k] \in Nat
  BY DEF NoCalls
<1>7. CASE UnsafeContext(code, context)
  <2>1. trail' = trail
    BY <1>1, <1>7, EmittedIs
  <2>2. (\A o : LinesOf(o)' = LinesOf(o)) /\ LimitedLines' = LimitedLines
    BY <2>1 DEF LinesOf, LimitedLines, Mine
  <2>3. code = "done"
    BY <1>7 DEF UnsafeContext
  <2>4. QED
    BY <1>2, <1>3, <1>4, <1>5, <1>6, <1>7, <2>1, <2>2, <2>3 DEF CountersMatch
<1>8. CASE ~UnsafeContext(code, context)
  <2> HIDE DEF record
  <2>1. PICK line : /\ Emitted(record) = {line}
                    /\ line.call = call /\ line.process = epoch
                    /\ line.end.outcome = end.outcome
                    /\ line.end.errorCode = end.errorCode
    <3>1. record = AuditRecord(call, tl, code, context)
      BY DEF record
    <3>2. PICK line : /\ Emitted(record) = {line}
                      /\ IsLineOf(line, call, tl, code, context)
      BY <1>8, <3>1, EmittedIs
    <3>3. QED
      BY <3>2 DEF IsLineOf
  <2>2. line \notin trail /\ trail' = trail \cup {line}
    BY <1>1, <2>1
  <2>3. /\ IsFiniteSet(trail')
        /\ \A o : Cardinality(LinesOf(o)') =
             IF line.end.outcome = o THEN Cardinality(LinesOf(o)) + 1
             ELSE Cardinality(LinesOf(o))
        /\ Cardinality(LimitedLines') =
             IF line.end.errorCode = "JISR_RATE_LIMITED"
             THEN Cardinality(LimitedLines) + 1
             ELSE Cardinality(LimitedLines)
    BY <2>1, <2>2, NewLineCounts
  <2> HIDE DEF end
  <2>4. QED
    BY <1>3, <1>4, <1>5, <1>6, <2>1, <2>3 DEF CountersMatch
<1>9. QED
  BY <1>7, <1>8

-----------------------------------------------------------------------------
(* The steps of invokeTool.                                                *)

\* What stays of the calls that were answered.
OthersStay ==
  \A n \in Nonces :
    other[n] # None \/ shown[n] # NotShown => other'[n] = other[n]

AnswersStay ==
  /\ LeavesAnswered /\ OthersStay
  /\ issued \subseteq issued'
  /\ \A c \in Commits : answer[c] # NoAnswer => answer'[c] = answer[c]

\* An answered call stays answered, and its reason as safe as it was.
LEMMA AnsweredStay ==
  ASSUME CreateInv, AnswersEndWell, OthersApart, AnswersStay
  PROVE  \A call \in Answered :
           call \in Answered' /\ (Unsafe(call)' <=> Unsafe(call))
<1>1. /\ ProtocolInv
      /\ \A r \in issued : r.nonce \in Nonces /\ shown[r.nonce] # NotShown
  BY DEF CreateInv, Store!IInv, Store!TypeOK, Store!Reference, ProtocolInv,
         PreviewsInv, ReferencesOffered
<1>2. Commits \cap Nonces = {}
  BY InvocationAssumption
<1>3. ASSUME NEW c \in Commits, answer[c] # NoAnswer
      PROVE  c \in Answered' /\ (Unsafe(c)' <=> Unsafe(c))
  <2>1. /\ answer'[c] = answer[c] /\ reference'[c] = reference[c]
        /\ stashed'[c] = stashed[c]
    BY <1>3 DEF AnswersStay, LeavesAnswered
  <2>2. c \in Answered'
    BY <1>3, <2>1 DEF Answered
  <2>3. CASE answer[c].stage = "reread"
    <3>1. reference[c] \in Nonces /\ shown[reference[c]] # NotShown
      BY <1>1, <1>3, <2>3
      DEF AnswersEndWell, ProtocolInv, StashesOffered, LocalsTypeOK
    <3>2. shown'[reference[c]] = shown[reference[c]]
      BY <3>1 DEF AnswersStay, LeavesAnswered
    <3>3. QED
      BY <1>3, <2>1, <2>2, <3>2 DEF Unsafe, HasUnsafeReason
  <2>4. CASE answer[c].stage # "reread"
    BY <1>3, <2>1, <2>2, <2>4 DEF Unsafe
  <2>5. QED
    BY <2>3, <2>4
<1>4. ASSUME NEW r \in issued
      PROVE  r.nonce \in Answered' /\ (Unsafe(r.nonce)' <=> Unsafe(r.nonce))
  <2>1. r.nonce \in Nonces /\ shown[r.nonce] # NotShown
    BY <1>1
  <2>2. other'[r.nonce] = other[r.nonce] /\ shown'[r.nonce] = shown[r.nonce]
    BY <2>1 DEF AnswersStay, OthersStay, LeavesAnswered
  <2>3. r \in issued'
    BY DEF AnswersStay
  <2>4. QED
    BY <1>2, <2>1, <2>2, <2>3 DEF Answered, Unsafe, HasUnsafeReason
<1>5. ASSUME NEW n \in Nonces, other[n] \notin {None, "TOOL_NOT_ENABLED"}
      PROVE  n \in Answered' /\ (Unsafe(n)' <=> Unsafe(n))
  <2>1. other'[n] = other[n]
    BY <1>5 DEF AnswersStay, OthersStay
  <2>2. QED
    BY <1>2, <1>5, <2>1 DEF Answered, Unsafe
<1>6. QED
  BY <1>3, <1>4, <1>5 DEF Answered

\* What a line says stays true of what its call left behind.
LEMMA LinesStay ==
  ASSUME CreateInv, OthersApart, LinesHold, AuditedUnlessUnsafe, AnswersStay,
         epoch' \in Nat, epoch <= epoch',
         NEW line \in trail
  PROVE  LineHolds(line)'
<1>1. /\ LineHolds(line) /\ line.call \in Answered
      /\ Commits \cap Nonces = {} /\ epoch \in Nat
      /\ \A r \in issued : r.nonce \in Nonces /\ shown[r.nonce] # NotShown
  BY InvocationAssumption
  DEF LinesHold, AuditedUnlessUnsafe, CreateInv, Store!IInv, Store!TypeOK,
      Store!Reference, ProtocolInv, PreviewsInv, ReferencesOffered
<1>2. line \in Lines /\ line.process <= epoch'
  <2>1. line.process \in Nat /\ line.process <= epoch
    BY <1>1, RecordCreateAssumption DEF LineHolds, Lines
  <2>2. QED
    BY <1>1, <2>1 DEF LineHolds
<1>3. CASE line.call \in Commits
  <2>1. CommitLine(line, line.call)
    BY <1>1, <1>3 DEF LineHolds
  <2>2. answer[line.call] # NoAnswer
    BY <1>1, <1>3 DEF Answered
  <2>3. /\ answer'[line.call] = answer[line.call]
        /\ reference'[line.call] = reference[line.call]
        /\ stashed'[line.call] = stashed[line.call]
        /\ tool'[line.call] = tool[line.call]
        /\ issued \subseteq issued'
    BY <1>3, <2>2 DEF AnswersStay, LeavesAnswered
  <2>4. CommitLine(line, line.call)'
    BY <2>1, <2>3 DEF CommitLine
  <2>5. QED
    BY <1>1, <1>2, <1>3, <2>4 DEF LineHolds
<1>4. CASE line.call \in Nonces
  <2>1. other[line.call] # None \/ shown[line.call] # NotShown
    BY <1>1, <1>4 DEF Answered
  <2>2. other'[line.call] = other[line.call] /\ issued \subseteq issued'
    BY <1>4, <2>1 DEF AnswersStay, OthersStay
  <2>3. PrepareLine(line, line.call) => PrepareLine(line, line.call)'
    BY <2>2 DEF PrepareLine
  <2>4. QED
    BY <1>1, <1>2, <1>4, <2>2, <2>3 DEF LineHolds
<1>5. QED
  BY <1>1, <1>2, <1>3, <1>4 DEF LineHolds

\* A call that is answered and recorded, once.
LEMMA RecordKeeps ==
  ASSUME CreateInv, TrailInv, AnswersStay, epoch' = epoch,
         NEW call, call \notin Answered, Answered' = Answered \cup {call},
         NEW tl, NEW code \in AnswerCodes \cup {"raw", "done"},
         NEW context \in {None} \cup Context,
         Recorded(AuditRecord(call, tl, code, context)),
         UnsafeContext(code, context) <=> Unsafe(call)',
         \A line : IsLineOf(line, call, tl, code, context) => LineHolds(line)'
  PROVE  /\ IsFiniteSet(trail') /\ metrics' \in [DOMAIN NoCalls -> Nat]
         /\ LinesHold' /\ AuditedUnlessUnsafe' /\ CountsAgree'
<1>1. \A d \in Answered : d \in Answered' /\ (Unsafe(d)' <=> Unsafe(d))
  BY AnsweredStay DEF TrailInv
<1>2. \A line \in trail : LineHolds(line)'
  BY LinesStay DEF TrailInv, CreateInv, Store!IInv, Store!TypeOK
<1>3. \A line \in trail : line.call \in Answered /\ line.call # call
  BY DEF TrailInv, AuditedUnlessUnsafe
<1>4. /\ IsFiniteSet(trail') /\ metrics' \in [DOMAIN NoCalls -> Nat]
      /\ CountsAgree'
  <2>1. /\ IsFiniteSet(trail) /\ metrics \in [DOMAIN NoCalls -> Nat]
        /\ CountersMatch
    BY CountersMatchIs DEF TrailInv
  <2>2. /\ IsFiniteSet(trail') /\ metrics' \in [DOMAIN NoCalls -> Nat]
        /\ CountersMatch'
    BY <1>1, <1>3, <2>1, RecordedCounts
  <2>3. CountsAgree' <=> CountersMatch'
    BY CountersMatchIs, PTL
  <2>4. QED
    BY <2>2, <2>3
<1> DEFINE record == AuditRecord(call, tl, code, context)
<1>5. trail' = trail \cup Emitted(record)
  BY DEF Recorded
<1>6. CASE UnsafeContext(code, context)
  <2>1. trail' = trail
    BY <1>5, <1>6, EmittedIs
  <2>2. AuditedUnlessUnsafe'
    BY <1>1, <1>3, <1>6, <2>1 DEF TrailInv, AuditedUnlessUnsafe
  <2>3. QED
    BY <1>2, <1>4, <2>1, <2>2 DEF LinesHold
<1>7. CASE ~UnsafeContext(code, context)
  <2>1. record = AuditRecord(call, tl, code, context)
    OBVIOUS
  <2> HIDE DEF record
  <2>2. PICK line : /\ Emitted(record) = {line}
                    /\ IsLineOf(line, call, tl, code, context)
    BY <1>7, <2>1, EmittedIs
  <2>3. /\ line.call = call /\ LineHolds(line)'
        /\ trail' = trail \cup {line}
    BY <1>5, <2>2 DEF IsLineOf
  <2>4. AuditedUnlessUnsafe'
    BY <1>1, <1>3, <1>7, <2>3 DEF TrailInv, AuditedUnlessUnsafe
  <2>5. QED
    BY <1>2, <1>4, <2>3, <2>4 DEF LinesHold
<1>8. QED
  BY <1>6, <1>7

\* The commits that a step answers, and the prepares whose references it
\* issues.
JustAnswered == {c \in Commits : answer'[c] # answer[c]}

JustIssued == {r.nonce : r \in issued' \ issued}

\* invokeTool records the call that a step ends; a step that ends none records
\* nothing, and a new process counts from zero.
LEMMA CreationCases ==
  ASSUME CreationStep
  PROVE  /\ JustAnswered # {} /\ JustIssued = {} =>
              \E c \in JustAnswered : Recorded(CommitRecord(c))
         /\ JustAnswered = {} /\ JustIssued # {} =>
              \E n \in JustIssued : Recorded(PrepareRecord(n))
         /\ JustAnswered = {} /\ JustIssued = {} =>
              /\ trail' = trail
              /\ metrics' = IF epoch' # epoch THEN NoCalls ELSE metrics
BY DEF CreationStep, JustAnswered, JustIssued

\* A line has the type of audit records.
LEMMA LineTyped ==
  ASSUME epoch \in 0..MaxEpoch, NEW call \in Commits \cup Nonces, NEW tl,
         tl \in (Operations \X {"prepare", "commit"})
                \cup {<<"other", "call">>},
         NEW code \in AnswerCodes \cup {"raw", "done"},
         NEW context \in {None} \cup Context,
         NEW line, IsLineOf(line, call, tl, code, context)
  PROVE  line \in Lines
<1>1. /\ line = [call |-> call, process |-> epoch, tool |-> tl,
                 end |-> line.end]
      /\ line.end = [decision |-> Ending(code, context).decision,
                     outcome |-> Ending(code, context).outcome,
                     errorCode |-> Ending(code, context).errorCode,
                     audit |-> line.end.audit]
      /\ line.end.audit \in {None} \cup Context
  BY DEF IsLineOf
<1>2. /\ Ending(code, context).decision \in {"allow", "deny"}
      /\ Ending(code, context).outcome \in {"allowed", "refused", "failed"}
      /\ Ending(code, context).errorCode \in AnswerCodes \cup {None}
  BY EndingIs, ClientCodesAre DEF AnswerCodes
<1>3. QED
  BY <1>1, <1>2 DEF Lines

\* The end of a commit is recorded as the trail's invariant wants it.
LEMMA CommitRecorded ==
  ASSUME CreateInv, CreateInv', TrailInv, NEW c \in Commits, CommitEnds(c),
         LeavesAnswered, CreationStep
  PROVE  /\ IsFiniteSet(trail') /\ metrics' \in [DOMAIN NoCalls -> Nat]
         /\ LinesHold' /\ AuditedUnlessUnsafe' /\ CountsAgree'
         /\ AnswersEndWell'
<1>1. PICK a \in Answers :
        /\ EndsWell(a)
        /\ a.stage = "reread" => /\ at[c] = "rereading"
                                 /\ UNCHANGED <<reference, stashed, tool>>
        /\ answer' = [answer EXCEPT ![c] = a]
  BY DEF CommitEnds
<1>2. /\ answer[c] = NoAnswer /\ UNCHANGED <<issued, shown, epoch, other>>
      /\ a # NoAnswer
  BY WriteCallAssumption DEF CommitEnds, CreationStep
<1>3. /\ ProtocolInv /\ ProtocolInv'
      /\ answer'[c] = a
      /\ \A d \in Commits \ {c} : answer'[d] = answer[d]
  BY <1>1 DEF CreateInv, ProtocolInv, CallsInv, CallsTypeOK
<1> DEFINE code == CASE a.raw -> "raw"
                     [] a.code \in Done -> "done"
                     [] OTHER -> a.code
           context == IF code = "done"
                      THEN WriteAudit("commit", reference[c],
                                      stashed[c].submission)
                      ELSE None
           tl == <<tool'[c], "commit">>
<1>4. Recorded(AuditRecord(c, tl, code, context))
  <2>1. JustAnswered = {c}
    BY <1>2, <1>3 DEF JustAnswered
  <2>2. JustIssued = {}
    BY <1>2 DEF JustIssued
  <2>3. Recorded(CommitRecord(c))
    BY <2>1, <2>2, CreationCases
  <2>4. QED
    BY <1>3, <2>3 DEF CommitRecord, Done
<1>5. /\ code \in AnswerCodes \cup {"raw", "done"}
      /\ code = "done" <=> a.code \in Done
      /\ code = "raw" <=> a.raw
      /\ a.code \notin Done => code # "done"
      /\ a.code \notin Done /\ code # "raw" => code = a.code
  <2>1. a.code \in AnswerCodes /\ a.raw \in BOOLEAN
    BY DEF Answers
  <2>2. CASE a.raw
    BY <1>1, <2>1, <2>2 DEF EndsWell, Done
  <2>3. CASE ~a.raw /\ a.code \in Done
    BY <1>1, <2>1, <2>3
  <2>4. CASE ~a.raw /\ a.code \notin Done
    BY <1>1, <2>1, <2>4 DEF EndsWell
  <2>5. QED
    BY <2>2, <2>3, <2>4
<1> HIDE DEF code
<1>6. a.stage = "reread" =>
        /\ at[c] = "rereading"
        /\ UNCHANGED <<reference, stashed, tool>>
        /\ stashed[c] # NoStash /\ stashed[c] \in Payload
        /\ reference[c] \in Nonces /\ shown[reference[c]] # NotShown
        /\ Offered(stashed[c], shown[reference[c]])
        /\ tool[c] = stashed[c].submission.operation
        /\ \E r \in issued : r.nonce = reference[c] /\ r.epoch = epoch
  BY <1>1, <1>3
  DEF ProtocolInv, SentIsHeld, StashesOffered, LocalsTypeOK, TrailInv,
      OwnProcess
<1>7. code = "done" => a.stage = "reread"
  BY <1>1, <1>5 DEF EndsWell
<1>8. /\ context \in {None} \cup Context
      /\ code = "done" => /\ context \in Context
                          /\ context.target = stashed[c].submission.code
                          /\ context.reason =
                               IF HasUnsafeReason(reference[c])
                                  \/ stashed[c].submission.operation =
                                       "createAttendanceLogs"
                               THEN ReasonOf[reference[c]] ELSE 0
  <2>1. CASE code # "done"
    BY <2>1
  <2>2. CASE code = "done"
    <3>1. ReasonOf[reference[c]] \in Nat /\ stashed[c].submission.code \in Codes
      BY <1>6, <1>7, <2>2, InvocationAssumption DEF Payload, Submission
    <3>2. stashed[c].submission.operation =
            shown[reference[c]].input.operation
      BY <1>6, <1>7, <2>2 DEF Offered
    <3>3. QED
      BY <2>2, <3>1, <3>2 DEF WriteAudit, Context, HasUnsafeReason
  <2>3. QED
    BY <2>1, <2>2
<1> HIDE DEF context
<1>9. UnsafeContext(code, context) <=> Unsafe(c)'
  <2>1. Unsafe(c)' <=>
          /\ a.stage = "reread" /\ a.code \in Done
          /\ ReasonOf[reference'[c]] > 1
          /\ shown[reference'[c]].input.operation = "createAttendanceLogs"
    BY <1>2, <1>3 DEF Unsafe, HasUnsafeReason, Done
  <2>2. CASE code # "done"
    BY <1>5, <2>1, <2>2 DEF UnsafeContext
  <2>3. CASE code = "done"
    <3>1. /\ reference' = reference
          /\ stashed[c].submission.operation =
               shown[reference[c]].input.operation
      BY <1>6, <1>7, <2>3 DEF Offered
    <3>2. UnsafeContext(code, context) <=> context.reason > 1
      BY <1>8, <2>3, NoneApart DEF UnsafeContext
    <3>3. context.reason > 1 <=>
            /\ ReasonOf[reference[c]] > 1
            /\ shown[reference[c]].input.operation = "createAttendanceLogs"
      BY <1>8, <2>3, <3>1 DEF HasUnsafeReason
    <3>4. QED
      BY <1>5, <1>7, <2>1, <2>3, <3>1, <3>2, <3>3
  <2>4. QED
    BY <2>2, <2>3
<1>10. AnswersStay
  BY <1>2, <1>3 DEF AnswersStay, OthersStay
<1>11. /\ c \notin Answered
       /\ Answered' = Answered \cup {c}
  <2>1. c \notin Nonces /\ \A r \in issued : r.nonce \in Nonces
    BY InvocationAssumption
    DEF CreateInv, Store!IInv, Store!TypeOK, Store!Reference
  <2>2. {d \in Commits : answer'[d] # NoAnswer}
          = {d \in Commits : answer[d] # NoAnswer} \cup {c}
    BY <1>2, <1>3
  <2>3. QED
    BY <1>2, <2>1, <2>2 DEF Answered
<1>12. ASSUME NEW line, IsLineOf(line, c, tl, code, context)
       PROVE  LineHolds(line)'
  <2>1. tl \in Operations \X {"prepare", "commit"} /\ epoch \in 0..MaxEpoch
    BY RecordCreateAssumption
    DEF CommitEnds, TrailInv, CreateInv, Store!IInv, Store!TypeOK
  <2>2. line.call = c /\ line.process = epoch /\ line.tool = tl
    BY <1>12 DEF IsLineOf
  <2> HIDE DEF tl
  <2>3. line \in Lines
    BY <1>5, <1>8, <1>12, <2>1, LineTyped
  <2>4. CommitLine(line, c)'
    <3>1. /\ line.end.outcome = Ending(code, context).outcome
          /\ line.end.errorCode = Ending(code, context).errorCode
          /\ code = "done" /\ context # None =>
               line.end.audit.target = context.target
      BY <1>12 DEF IsLineOf
    <3>2. CASE code = "done"
      <4>1. line.end.audit.target = stashed[c].submission.code
        BY <1>8, <3>1, <3>2, NoneApart
      <4>2. QED
        BY <1>2, <1>3, <1>5, <1>6, <1>7, <2>2, <3>1, <3>2, <4>1, EndingIs
        DEF CommitLine, tl
    <3>3. CASE code # "done"
      <4>1. line.end.outcome # "allowed" /\ line.end.errorCode = a.code
        BY <1>1, <1>5, <3>1, <3>3, EndingIs DEF EndsWell
      <4>2. QED
        BY <1>3, <1>5, <2>2, <3>3, <4>1 DEF CommitLine, tl
    <3>4. QED
      BY <3>2, <3>3
  <2>5. c \notin Nonces
    BY InvocationAssumption
  <2>6. line.process <= epoch'
    BY <1>2, <2>1, <2>2
  <2>7. QED
    BY <2>2, <2>3, <2>4, <2>5, <2>6 DEF LineHolds
<1>13. AnswersEndWell'
  <2>1. SUFFICES ASSUME NEW d \in Commits, answer'[d] # NoAnswer
                 PROVE  /\ EndsWell(answer'[d])
                        /\ answer'[d].stage = "reread" => stashed'[d] # NoStash
    BY DEF AnswersEndWell, EndsWell
  <2>2. CASE d = c
    BY <1>1, <1>3, <1>6, <2>2
  <2>3. CASE d # c
    BY <1>3, <2>1, <2>3 DEF TrailInv, AnswersEndWell, LeavesAnswered
  <2>4. QED
    BY <2>2, <2>3
<1> HIDE DEF tl
<1>14. QED
  BY <1>2, <1>4, <1>5, <1>8, <1>9, <1>10, <1>11, <1>12, <1>13, RecordKeeps

\* Answers that stay keep what is said of them.
LEMMA EndingsStay ==
  ASSUME AnswersEndWell, LeavesAnswered, UNCHANGED answer
  PROVE  AnswersEndWell'
BY DEF AnswersEndWell, EndsWell, LeavesAnswered

\* So is the end of a prepare, with the reference it issued.
LEMMA PrepareRecorded ==
  ASSUME CreateInv, TrailInv, NEW n \in Nonces, PrepareEnds(n),
         LeavesAnswered, CreationStep
  PROVE  /\ IsFiniteSet(trail') /\ metrics' \in [DOMAIN NoCalls -> Nat]
         /\ LinesHold' /\ AuditedUnlessUnsafe' /\ CountsAgree'
         /\ AnswersEndWell'
<1>1. PICK r \in issued' :
        /\ r.nonce = n /\ r.epoch = epoch
        /\ r.binding.operationId = r.preview.submission.operation
        /\ r.preview.submission = ToSubmission(shown[n].input)
        /\ issued' = issued \cup {r}
  BY DEF PrepareEnds
<1>2. /\ shown[n] # NotShown /\ UNCHANGED <<answer, shown, epoch, other>>
      /\ \A s \in issued : s.nonce # n
      /\ other[n] = None
  BY DEF PrepareEnds, CreationStep, TrailInv, OthersApart
<1> DEFINE submission == ToSubmission(shown[n].input)
           context == WriteAudit("prepare", n, submission)
           tl == <<submission.operation, "prepare">>
<1>3. Recorded(AuditRecord(n, tl, "done", context))
  <2>1. JustAnswered = {} /\ JustIssued = {n}
    BY <1>1, <1>2 DEF JustAnswered, JustIssued
  <2>2. Recorded(PrepareRecord(n))
    BY <2>1, CreationCases
  <2>3. QED
    BY <2>2 DEF PrepareRecord
<1>4. submission \in Submission
      /\ submission.operation = shown[n].input.operation
  BY <1>2, SubmissionsAreOffered
  DEF CreateInv, ProtocolInv, Store!IInv, Store!TypeOK, Payload, Offered
<1> HIDE DEF submission
<1>5. /\ context \in Context /\ context.target = submission.code
      /\ context.reason = IF HasUnsafeReason(n)
                             \/ submission.operation = "createAttendanceLogs"
                          THEN ReasonOf[n] ELSE 0
  BY <1>4, InvocationAssumption
  DEF WriteAudit, Context, Submission, HasUnsafeReason
<1> HIDE DEF context
<1>6. UnsafeContext("done", context) <=> Unsafe(n)'
  <2>1. n \notin Commits
    BY InvocationAssumption
  <2>2. Unsafe(n)' <=> /\ ReasonOf[n] > 1
                       /\ shown[n].input.operation = "createAttendanceLogs"
    BY <1>2, <2>1 DEF Unsafe, HasUnsafeReason
  <2>3. UnsafeContext("done", context) <=> context.reason > 1
    BY <1>5, NoneApart DEF UnsafeContext
  <2>4. QED
    BY <1>4, <1>5, <2>2, <2>3 DEF HasUnsafeReason
<1>7. AnswersStay
  BY <1>1, <1>2 DEF AnswersStay, OthersStay
<1>8. n \notin Answered /\ Answered' = Answered \cup {n}
  <2>1. n \notin Commits
    BY InvocationAssumption
  <2>2. {s.nonce : s \in issued'} = {s.nonce : s \in issued} \cup {n}
    BY <1>1
  <2>3. QED
    BY <1>2, <2>1, <2>2 DEF Answered
<1>9. ASSUME NEW line, IsLineOf(line, n, tl, "done", context)
      PROVE  LineHolds(line)'
  <2>1. tl \in Operations \X {"prepare", "commit"} /\ epoch \in 0..MaxEpoch
    BY <1>4, RecordCreateAssumption
    DEF TrailInv, CreateInv, Store!IInv, Store!TypeOK, Submission
  <2>2. /\ line.call = n /\ line.process = epoch /\ line.tool = tl
        /\ line.end.outcome = Ending("done", context).outcome
        /\ line.end.audit.target = context.target
    BY <1>5, <1>9, NoneApart DEF IsLineOf
  <2>3. line \in Lines
    <3> HIDE DEF tl
    <3>1. "done" \in AnswerCodes \cup {"raw", "done"}
          /\ context \in {None} \cup Context
      BY <1>5
    <3>2. QED
      BY <1>9, <2>1, <3>1, LineTyped
  <2>4. PrepareLine(line, n)'
    BY <1>1, <1>5, <2>2, EndingIs DEF PrepareLine, submission
  <2>5. n \notin Commits
    BY InvocationAssumption
  <2>6. line.process <= epoch'
    BY <1>2, <2>1, <2>2
  <2>7. other'[n] = None
    BY <1>2
  <2>8. QED
    BY <2>2, <2>3, <2>4, <2>5, <2>6, <2>7 DEF LineHolds
<1>10. AnswersEndWell'
  BY <1>2, EndingsStay DEF TrailInv
<1> HIDE DEF tl
<1>11. QED
  BY <1>2, <1>3, <1>5, <1>6, <1>7, <1>8, <1>9, <1>10, RecordKeeps

\* So is a call that creates nothing, which changes the protocol nowhere.
LEMMA OtherRecorded ==
  ASSUME CreateInv, TrailInv, NEW n \in Nonces,
         NEW code \in {"done", "raw"} \cup ReadFailures, OtherCall(n, code)
  PROVE  TrailInv'
<1>1. /\ shown[n] = NotShown /\ other[n] = None
      /\ other' = [other EXCEPT ![n] = code]
      /\ Recorded(AuditRecord(n, <<"other", "call">>, code, None))
      /\ UNCHANGED vars
  BY DEF OtherCall
<1>2. /\ code \in AnswerCodes \cup {"raw", "done"}
      /\ code \notin {None, "TOOL_NOT_ENABLED"}
      /\ n \notin Commits
  BY WriteCallAssumption, NoneApart, ClientCodesAre, InvocationAssumption
  DEF AnswerCodes
<1>3. UNCHANGED <<issued, shown, epoch, answer, at, reference, stashed, tool>>
  BY <1>1 DEF vars
<1>4. other \in [Nonces -> {None, "done", "raw", "TOOL_NOT_ENABLED"}
                            \cup ReadFailures]
  BY DEF TrailInv, OthersApart
<1>5. /\ other'[n] = code
      /\ \A m \in Nonces \ {n} : other'[m] = other[m]
  BY <1>1, <1>4
<1>6. AnswersStay
  BY <1>1, <1>3, <1>5 DEF AnswersStay, OthersStay, LeavesAnswered
<1>7. n \notin Answered /\ Answered' = Answered \cup {n}
  <2>1. n \notin Answered
    <3>1. \A r \in issued : r.nonce # n
      BY <1>1 DEF CreateInv, ProtocolInv, PreviewsInv, ReferencesOffered
    <3>2. QED
      BY <1>1, <1>2, <3>1 DEF Answered
  <2>2. {m \in Nonces : other'[m] \notin {None, "TOOL_NOT_ENABLED"}}
          = {m \in Nonces : other[m] \notin {None, "TOOL_NOT_ENABLED"}}
              \cup {n}
    BY <1>2, <1>5
  <2>3. QED
    BY <1>3, <2>1, <2>2 DEF Answered
<1>8. UnsafeContext(code, None) <=> Unsafe(n)'
  BY <1>2, <1>5 DEF UnsafeContext, Unsafe
<1>9. ASSUME NEW line, IsLineOf(line, n, <<"other", "call">>, code, None)
      PROVE  LineHolds(line)'
  <2>1. epoch \in 0..MaxEpoch
    BY RecordCreateAssumption DEF TrailInv, CreateInv, Store!IInv, Store!TypeOK
  <2>2. line \in Lines
    BY <1>2, <1>9, <2>1, LineTyped
  <2>3. /\ line.call = n /\ line.process = epoch
        /\ line.tool = <<"other", "call">>
    BY <1>9 DEF IsLineOf
  <2>4. line.process <= epoch'
    BY <1>3, <2>1, <2>3
  <2>5. QED
    BY <1>2, <1>5, <2>2, <2>3, <2>4 DEF LineHolds
<1>10. /\ IsFiniteSet(trail') /\ metrics' \in [DOMAIN NoCalls -> Nat]
       /\ LinesHold' /\ AuditedUnlessUnsafe' /\ CountsAgree'
  BY <1>1, <1>2, <1>3, <1>6, <1>7, <1>8, <1>9, RecordKeeps
<1>11. AnswersEndWell' /\ OwnProcess'
  BY <1>3 DEF TrailInv, AnswersEndWell, EndsWell, OwnProcess
<1>12. OthersApart'
  BY <1>1, <1>3, <1>4, <1>5 DEF TrailInv, OthersApart
<1>13. QED
  BY <1>3, <1>10, <1>11, <1>12 DEF TrailInv

\* A step that answers no call of a registered tool leaves the trail alone.
LEMMA QuietKeeps ==
  ASSUME CreateInv, CreateInv', TrailInv, AnswersStay, UNCHANGED trail,
         epoch' \in {epoch, epoch + 1},
         metrics' = IF epoch' # epoch THEN NoCalls ELSE metrics,
         Answered' = Answered
  PROVE  /\ IsFiniteSet(trail') /\ metrics' \in [DOMAIN NoCalls -> Nat]
         /\ LinesHold' /\ AuditedUnlessUnsafe' /\ CountsAgree'
<1>1. \A d \in Answered : Unsafe(d)' <=> Unsafe(d)
  BY AnsweredStay DEF TrailInv
<1>2. epoch \in Nat /\ epoch' \in Nat
  BY DEF CreateInv, Store!IInv, Store!TypeOK
<1>3. LinesHold'
  BY <1>2, LinesStay DEF TrailInv, LinesHold
<1>4. AuditedUnlessUnsafe'
  BY <1>1 DEF TrailInv, AuditedUnlessUnsafe
<1>5. metrics' \in [DOMAIN NoCalls -> Nat]
  BY DEF TrailInv, NoCalls
<1>6. CountersMatch /\ (CountsAgree' <=> CountersMatch')
  BY CountersMatchIs, PTL DEF TrailInv
<1>7. CASE epoch' = epoch
  <2>1. /\ \A o : LinesOf(o)' = LinesOf(o)
        /\ LimitedLines' = LimitedLines /\ metrics' = metrics
    BY <1>7 DEF LinesOf, LimitedLines, Mine
  <2>2. CountersMatch'
    BY <1>1, <1>6, <2>1 DEF CountersMatch
  <2>3. QED
    BY <1>3, <1>4, <1>5, <1>6, <2>2 DEF TrailInv
<1>8. CASE epoch' # epoch
  <2>1. \A line \in trail : line.process # epoch'
    <3>1. \A line \in trail : line.process \in Nat /\ line.process <= epoch
      BY RecordCreateAssumption DEF TrailInv, LinesHold, LineHolds, Lines
    <3>2. QED
      BY <1>2, <1>8, <3>1
  <2>2. Mine' = {}
    BY <2>1 DEF Mine
  <2>3. (\A o : LinesOf(o)' = {}) /\ LimitedLines' = {}
    BY <2>2 DEF LinesOf, LimitedLines
  <2>4. CountersMatch'
    BY <1>8, <2>3, FS_EmptySet DEF CountersMatch, NoCalls
  <2>5. QED
    BY <1>3, <1>4, <1>5, <1>6, <2>4 DEF TrailInv
<1>9. QED
  BY <1>7, <1>8

\* A step of the creations ends one commit, one prepare or nothing.
LEMMA CreationKeeps ==
  ASSUME CreateInv, CreateInv', TrailInv, CreationStep
  PROVE  TrailInv'
<1>1. StepEnds /\ UNCHANGED other
  BY EveryStepEnds DEF CreationStep, TrailInv
<1>2. /\ shown \in [Nonces -> Preview \cup {NotShown}]
      /\ epoch \in Nat
  BY DEF CreateInv, ProtocolInv, LocalsTypeOK, Store!IInv, Store!TypeOK
<1>3. OthersApart'
  BY <1>1 DEF CreationStep, TrailInv, OthersApart
<1>4. epoch' <= MaxEpoch
  BY <1>1, <1>2, RecordCreateAssumption
  DEF StepEnds, CommitEnds, PrepareEnds, NothingEnds, TrailInv
<1>5. /\ IsFiniteSet(trail') /\ metrics' \in [DOMAIN NoCalls -> Nat]
      /\ LinesHold' /\ AuditedUnlessUnsafe' /\ CountsAgree'
      /\ AnswersEndWell'
  <2>1. CASE \E c \in Commits : CommitEnds(c)
    BY <1>1, <2>1, CommitRecorded DEF StepEnds
  <2>2. CASE \E n \in Nonces : PrepareEnds(n)
    BY <1>1, <2>2, PrepareRecorded DEF StepEnds
  <2>3. CASE NothingEnds
    <3>1. /\ trail' = trail
          /\ metrics' = IF epoch' # epoch THEN NoCalls ELSE metrics
      <4>1. JustAnswered = {} /\ JustIssued = {}
        BY <2>3 DEF NothingEnds, JustAnswered, JustIssued
      <4>2. QED
        BY <4>1, CreationCases
    <3>2. AnswersStay
      BY <1>1, <2>3 DEF NothingEnds, StepEnds, AnswersStay, OthersStay
    <3>3. Answered' = Answered
      BY <1>1, <2>3 DEF NothingEnds, Answered
    <3>4. AnswersEndWell'
      BY <1>1, <2>3, EndingsStay DEF NothingEnds, StepEnds, TrailInv
    <3>5. epoch' \in {epoch, epoch + 1}
      BY <2>3 DEF NothingEnds
    <3>6. QED
      BY <3>1, <3>2, <3>3, <3>4, <3>5, QuietKeeps
  <2>4. QED
    BY <1>1, <2>1, <2>2, <2>3 DEF StepEnds
<1>6. QED
  BY <1>1, <1>3, <1>4, <1>5 DEF TrailInv, StepEnds

\* A call of an unknown tool leaves no record and counts nowhere.
LEMMA UnknownToolKeeps ==
  ASSUME CreateInv, CreateInv', TrailInv, NEW n \in Nonces, UnknownTool(n)
  PROVE  TrailInv'
<1>1. /\ shown[n] = NotShown /\ other[n] = None
      /\ other' = [other EXCEPT ![n] = "TOOL_NOT_ENABLED"]
      /\ UNCHANGED <<trail, metrics>>
      /\ UNCHANGED <<issued, shown, epoch, answer, at, reference, stashed,
                     tool>>
  BY DEF UnknownTool, vars
<1>2. other \in [Nonces -> {None, "done", "raw", "TOOL_NOT_ENABLED"}
                            \cup ReadFailures]
  BY DEF TrailInv, OthersApart
<1>3. /\ other'[n] = "TOOL_NOT_ENABLED"
      /\ \A m \in Nonces \ {n} : other'[m] = other[m]
  BY <1>1, <1>2
<1>4. AnswersStay
  BY <1>1, <1>3 DEF AnswersStay, OthersStay, LeavesAnswered
<1>5. Answered' = Answered
  BY <1>1, <1>3 DEF Answered
<1>6. /\ IsFiniteSet(trail') /\ metrics' \in [DOMAIN NoCalls -> Nat]
      /\ LinesHold' /\ AuditedUnlessUnsafe' /\ CountsAgree'
  BY <1>1, <1>4, <1>5, QuietKeeps
<1>7. AnswersEndWell' /\ OwnProcess'
  BY <1>1 DEF TrailInv, AnswersEndWell, EndsWell, OwnProcess
<1>8. OthersApart'
  BY <1>1, <1>2, <1>3 DEF TrailInv, OthersApart
<1>9. QED
  BY <1>1, <1>6, <1>7, <1>8 DEF TrailInv

\* No call has been answered and nothing is recorded at the start.
LEMMA TrailInitHolds == InvocationInit => TrailInv
<1>1. SUFFICES ASSUME InvocationInit PROVE TrailInv
  OBVIOUS
<1>2. /\ epoch = 0 /\ issued = {} /\ trail = {} /\ metrics = NoCalls
      /\ answer = [c \in Commits |-> NoAnswer]
      /\ at = [c \in Commits |-> "idle"]
      /\ shown = [n \in Nonces |-> NotShown]
      /\ other = [n \in Nonces |-> None]
  BY <1>1 DEF InvocationInit, Init, Conf!Init, CallsIdle
<1>3. AnswersEndWell /\ OwnProcess /\ OthersApart
  BY <1>2 DEF AnswersEndWell, OwnProcess, OthersApart
<1>4. LinesHold /\ IsFiniteSet(trail)
  BY <1>2, FS_EmptySet DEF LinesHold
<1>5. AuditedUnlessUnsafe
  BY <1>2 DEF AuditedUnlessUnsafe, Answered
<1>6. CountersMatch
  <2>1. (\A o : LinesOf(o) = {}) /\ LimitedLines = {}
    BY <1>2 DEF LinesOf, LimitedLines, Mine
  <2>2. QED
    BY <1>2, <2>1, FS_EmptySet DEF CountersMatch, NoCalls
<1>7. metrics \in [DOMAIN NoCalls -> Nat]
  BY <1>2 DEF NoCalls
<1>8. QED
  BY <1>2, <1>3, <1>4, <1>5, <1>6, <1>7, CountersMatchIs,
     RecordCreateAssumption DEF TrailInv

\* And every step of invokeTool keeps the invariant.
LEMMA TrailStepHolds ==
  CreateInv /\ CreateInv' /\ TrailInv /\ [InvocationNext]_invocationVars
  => TrailInv'
<1>1. SUFFICES ASSUME CreateInv, CreateInv', TrailInv,
                      [InvocationNext]_invocationVars
               PROVE  TrailInv'
  OBVIOUS
<1>2. CASE CreationStep
  BY <1>1, <1>2, CreationKeeps
<1>3. CASE \E n \in Nonces, code \in {"done", "raw"} \cup ReadFailures :
             OtherCall(n, code)
  BY <1>1, <1>3, OtherRecorded
<1>4. CASE \E n \in Nonces : UnknownTool(n)
  BY <1>1, <1>4, UnknownToolKeeps
<1>5. CASE UNCHANGED invocationVars
  <2>1. UNCHANGED <<issued, shown, epoch, answer, at, reference, stashed,
                    tool, other, trail, metrics>>
    BY <1>5 DEF invocationVars, vars
  <2>2. /\ AnswersEndWell' /\ OwnProcess' /\ OthersApart' /\ LinesHold'
    BY <1>1, <2>1
    DEF TrailInv, AnswersEndWell, EndsWell, OwnProcess, OthersApart,
        LinesHold, LineHolds, CommitLine, PrepareLine
  <2>3. AnswersStay /\ Answered' = Answered
    BY <2>1 DEF AnswersStay, OthersStay, LeavesAnswered, Answered
  <2>4. AuditedUnlessUnsafe' /\ CountsAgree'
    BY <1>1, <2>1, <2>3, QuietKeeps
  <2>5. QED
    BY <1>1, <2>1, <2>2, <2>4 DEF TrailInv
<1>6. QED
  BY <1>1, <1>2, <1>3, <1>4, <1>5 DEF InvocationNext

\* The trail, the counters and the creations agree at every step of a process
\* and of its successors (invokeTool, createAuditSink, recordToolCall).
THEOREM TrailInvariance == InvocationSpec => [](CreateInv /\ TrailInv)
<1>1. InvocationSpec => []CreateInv
  BY InvocationCreates, CreateInvariance, PTL
<1>2. InvocationSpec => []TrailInv
  BY <1>1, TrailInitHolds, TrailStepHolds, PTL DEF InvocationSpec
<1>3. QED
  BY <1>1, <1>2, PTL

\* Every variable keeps its type, the records of the trail and the counters
\* included (adapters/shared.ts, audit.ts, metrics.ts).
THEOREM InvocationTypeCorrect == InvocationSpec => []InvocationTypeOK
<1>1. TrailInv => /\ other \in [Nonces -> {None, "done", "raw",
                                           "TOOL_NOT_ENABLED"}
                                          \cup ReadFailures]
                  /\ \A line \in trail : line \in Lines
                  /\ metrics \in [DOMAIN NoCalls -> Nat]
  BY DEF TrailInv, OthersApart, LinesHold, LineHolds
<1>2. InvocationSpec => []TypeOK
  BY InvocationCreates, TypeCorrect, PTL
<1>3. TypeOK /\ TrailInv => InvocationTypeOK
  BY <1>1 DEF InvocationTypeOK
<1>4. QED
  BY <1>2, <1>3, TrailInvariance, PTL

\* Every answered call of a registered tool has its one line, but for those
\* whose reason is unsafe after redaction (invokeTool, createAuditSink, FR-038).
THEOREM AuditedUnlessUnsafeHolds == InvocationSpec => []AuditedUnlessUnsafe
<1>1. TrailInv => AuditedUnlessUnsafe
  BY DEF TrailInv
<1>2. QED
  BY <1>1, TrailInvariance, PTL

\* The counters of a process are those of its trail, and account for the lines
\* that were dropped (recordToolCall, recordDenial, FR-040).
THEOREM CountsAgreeHolds == InvocationSpec => []CountsAgree
<1>1. TrailInv => CountsAgree
  BY DEF TrailInv
<1>2. QED
  BY <1>1, TrailInvariance, PTL

\* A success in the trail is of a target that Jisr accepted, and a refusal by a
\* code of which no read can fail is of no write (submitGuarded and the catch of
\* invokeTool, FR-010).
THEOREM TrailIsTrueHolds == InvocationSpec => []TrailIsTrue
<1>1. CreateInv /\ TrailInv => TrailIsTrue
  <2>1. SUFFICES ASSUME CreateInv, TrailInv, NEW line \in trail,
                        NEW c \in Commits, line.call = c
                 PROVE  /\ line.end.outcome = "allowed" =>
                             /\ reply[c] = "ok"
                             /\ line.end.audit.target =
                                  shown[reference[c]].input.code
                        /\ (/\ line.end.outcome = "refused"
                            /\ ~MayHideAWrite(line.end.errorCode))
                             => ~Written(c) /\ reply[c] \notin UnderWay
    BY DEF TrailIsTrue
  <2>2. CommitLine(line, c)
    BY <2>1 DEF TrailInv, LinesHold, LineHolds
  <2>3. answer[c] # NoAnswer /\ EndsWell(answer[c])
    <3>1. c \in Answered /\ c \notin Nonces
      BY <2>1, InvocationAssumption DEF TrailInv, AuditedUnlessUnsafe
    <3>2. QED
      BY <2>1, <3>1
      DEF Answered, TrailInv, AnswersEndWell, CreateInv, Store!IInv,
          Store!TypeOK, Store!Reference
  <2>4. ASSUME line.end.outcome = "allowed"
        PROVE  /\ reply[c] = "ok"
               /\ line.end.audit.target = shown[reference[c]].input.code
    <3>1. /\ answer[c].stage = "reread"
          /\ line.end.audit.target = stashed[c].submission.code
      BY <2>2, <2>3, <2>4 DEF CommitLine, EndsWell
    <3>2. reply[c] = "ok" /\ stashed[c] # NoStash
      BY <2>1, <2>3, <3>1
      DEF CreateInv, ProtocolInv, CallsInv, RereadIsAccepted, TrailInv,
          AnswersEndWell
    <3>3. stashed[c].submission.code = shown[reference[c]].input.code
      BY <2>1, <3>2 DEF CreateInv, ProtocolInv, StashesOffered, Offered
    <3>4. QED
      BY <3>1, <3>2, <3>3
  <2>5. ASSUME line.end.outcome = "refused",
               ~MayHideAWrite(line.end.errorCode)
        PROVE  ~Written(c) /\ reply[c] \notin UnderWay
    <3>1. SaysNothingWritten(c)
      BY <2>2, <2>3, <2>5
      DEF CommitLine, EndsWell, MayHideAWrite, SaysNothingWritten
    <3>2. Unwritten(c)
      BY <2>1, <3>1 DEF CreateInv, ProtocolInv, CallsInv, RefusalsAreTrue
    <3>3. QED
      BY <2>1, <3>2 DEF Unwritten, Written, CreateInv, ProtocolInv, RowsSent,
                        UnderWay, Statuses
  <2>6. QED
    BY <2>4, <2>5
<1>2. QED
  BY <1>1, TrailInvariance, PTL

\* The lines of a process that show a success of one phase for a target.
AllowedLines(process, operation, phase, target) ==
  {line \in trail : /\ line.process = process
                    /\ line.tool = <<operation, phase>>
                    /\ line.end.outcome = "allowed"
                    /\ line.end.audit.target = target}

\* A success of a commit has the line of its prepare before it.
LEMMA PrepareOfCommit ==
  ASSUME CreateInv, TrailInv, NEW process, NEW operation \in Operations,
         NEW target,
         NEW line \in AllowedLines(process, operation, "commit", target)
  PROVE  /\ line.call \in Commits
         /\ reference[line.call] # NotShown
         /\ \E before \in AllowedLines(process, operation, "prepare", target) :
              before.call = reference[line.call]
<1>1. /\ line \in trail /\ line.process = process
      /\ line.tool = <<operation, "commit">>
      /\ line.end.outcome = "allowed" /\ line.end.audit.target = target
  BY DEF AllowedLines
<1>2. LineHolds(line) /\ line.call \in Answered
  BY <1>1 DEF TrailInv, LinesHold, AuditedUnlessUnsafe
<1>3. line.call \in Commits
  <2>1. line.call \in Commits \cup Nonces
    BY <1>2 DEF LineHolds, Lines
  <2>2. line.call \notin Nonces
    <3>1. <<operation, "commit">> # <<"other", "call">>
          /\ \A o : <<operation, "commit">> # <<o, "prepare">>
      OBVIOUS
    <3>2. QED
      BY <1>1, <1>2, <3>1 DEF LineHolds, PrepareLine
  <2>3. QED
    BY <2>1, <2>2
<1> DEFINE c == line.call
           n == reference[c]
<1>4. CommitLine(line, c)
  BY <1>2, <1>3 DEF LineHolds
<1>5. answer[c] # NoAnswer
  BY <1>2, <1>3, InvocationAssumption
  DEF Answered, CreateInv, Store!IInv, Store!TypeOK, Store!Reference
<1>6. /\ answer[c].code \in Done
      /\ line.end.audit.target = stashed[c].submission.code
      /\ \E r \in issued : r.nonce = n /\ r.epoch = line.process
      /\ tool[c] = operation
  <2>1. line.tool = <<tool[c], "commit">>
    BY <1>4 DEF CommitLine
  <2>2. tool[c] = operation
    BY <1>1, <2>1
  <2>3. QED
    BY <1>1, <1>4, <2>2 DEF CommitLine
<1>7. PICK r \in issued : r.nonce = n /\ r.epoch = process
  BY <1>1, <1>6
<1>8. answer[c].stage = "reread" /\ stashed[c] # NoStash
  BY <1>3, <1>5, <1>6 DEF TrailInv, AnswersEndWell, EndsWell
<1>9. /\ n # NotShown /\ n \in Nonces /\ shown[n] # NotShown
      /\ Offered(stashed[c], shown[n])
      /\ tool[c] = stashed[c].submission.operation
  BY <1>3, <1>8
  DEF CreateInv, ProtocolInv, StashesOffered, LocalsTypeOK
<1>10. Offered(r.preview, shown[n])
       /\ r.binding.operationId = r.preview.submission.operation
  BY <1>7 DEF CreateInv, ProtocolInv, PreviewsInv, ReferencesOffered
<1>11. ~HasUnsafeReason(n)
  BY <1>1, <1>2, <1>3, <1>6, <1>8
  DEF TrailInv, AuditedUnlessUnsafe, Unsafe, Done
<1>12. n \in Answered /\ ~Unsafe(n)
  BY <1>7, <1>9, <1>11, InvocationAssumption DEF Answered, Unsafe
<1>13. PICK before \in trail : before.call = n
  BY <1>12 DEF TrailInv, AuditedUnlessUnsafe
<1>14. PrepareLine(before, n)
  <2>1. other[n] = None
    BY <1>9 DEF TrailInv, OthersApart
  <2>2. QED
    BY <1>9, <1>13, <2>1 DEF TrailInv, LinesHold, LineHolds
<1>15. /\ before.process = process
       /\ before.tool = <<r.binding.operationId, "prepare">>
       /\ before.end.outcome = "allowed"
       /\ before.end.audit.target = r.preview.submission.code
  <2>1. PICK s \in issued :
          /\ s.nonce = n /\ s.epoch = before.process
          /\ before.tool = <<s.binding.operationId, "prepare">>
          /\ before.end.outcome = "allowed"
          /\ before.end.audit.target = s.preview.submission.code
    BY <1>14 DEF PrepareLine
  <2>2. s = r
    BY <1>7, <2>1 DEF CreateInv, Store!IInv, Store!NoncesUnique
  <2>3. QED
    BY <1>7, <2>1, <2>2
<1>16. before \in AllowedLines(process, operation, "prepare", target)
  BY <1>1, <1>6, <1>9, <1>10, <1>13, <1>15 DEF AllowedLines, Offered
<1>17. QED
  BY <1>3, <1>9, <1>13, <1>16

\* The trail of a process shows at least as many prepares of a tool and a
\* target as commits that succeeded (both services and invokeTool, FR-006).
THEOREM CommitsFollowPreparesHolds == InvocationSpec => []CommitsFollowPrepares
<1>1. CreateInv /\ TrailInv => CommitsFollowPrepares
  <2>1. SUFFICES ASSUME CreateInv, TrailInv, NEW process \in 0..MaxEpoch,
                        NEW operation \in Operations, NEW target \in Codes
                 PROVE  Cardinality(AllowedLines(process, operation,
                                                 "commit", target))
                        <= Cardinality(AllowedLines(process, operation,
                                                    "prepare", target))
    BY DEF CommitsFollowPrepares, AllowedLines
  <2> DEFINE commits == AllowedLines(process, operation, "commit", target)
             prepares == AllowedLines(process, operation, "prepare", target)
             f == [l \in commits |->
                     CHOOSE k \in prepares : k.call = reference[l.call]]
  <2>2. IsFiniteSet(prepares)
    <3>1. prepares \in SUBSET trail
      BY DEF AllowedLines
    <3>2. QED
      BY <2>1, <3>1, FS_Subset DEF TrailInv
  <2>3. \A l \in commits :
          /\ l.call \in Commits /\ reference[l.call] # NotShown
          /\ \E k \in prepares : k.call = reference[l.call]
    BY <2>1, PrepareOfCommit
  <2>4. commits \subseteq trail
    BY DEF AllowedLines
  <2> HIDE DEF commits, prepares
  <2>5. \A l \in commits : f[l] \in prepares /\ f[l].call = reference[l.call]
    BY <2>3
  <2>6. f \in [commits -> prepares]
    BY <2>5
  <2>7. ASSUME NEW l \in commits, NEW m \in commits, f[l] = f[m]
        PROVE  l = m
    <3>1. reference[l.call] = reference[m.call]
      BY <2>5, <2>7
    <3>2. l.call = m.call
      BY <2>1, <2>3, <3>1 DEF CreateInv, ProtocolInv, ReferencesApart
    <3>3. QED
      BY <2>1, <2>4, <3>2 DEF TrailInv, AuditedUnlessUnsafe
  <2>8. f \in Injection(commits, prepares)
    BY <2>6, <2>7 DEF Injection, IsInjective
  <2>9. Cardinality(commits) <= Cardinality(prepares)
    BY <2>2, <2>8, FS_Injection
  <2>10. QED
    BY <2>9 DEF commits, prepares
<1>2. QED
  BY <1>1, TrailInvariance, PTL
=============================================================================
