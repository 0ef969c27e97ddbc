------------------------- MODULE PayrollDeleteProofs --------------------------
(***************************************************************************)
(* Proofs about the deletion of payroll transactions, for any number of    *)
(* transactions, previews and commits, every lifetime, window and bound.   *)
(* The proofs about the two stores are taken over from their own modules:  *)
(* every step here is a step of each store, or leaves it alone.            *)
(***************************************************************************)
EXTENDS PayrollDelete, WriteCallProofs

Store == INSTANCE ConfirmationProofs WITH
  Organizations <- {"organization"}, Principals <- {"caller"},
  Operations <- {"deletePayrollTransaction"}, Payloads <- Deletion

Marks == INSTANCE DuplicateGuardProofs WITH Keys <- Deletion

\* What prepare stashes of a target it has shown.
DeletionOf(preview) == [transaction |-> preview.transaction,
                        spelling |-> preview.spelling,
                        targetHash |-> HashTarget(preview.content)]

LocalsTypeOK ==
  /\ record \in [Transactions -> Content \cup {Absent}]
  /\ edits \in 0..MaxEdits
  /\ shown \in [Nonces -> Preview \cup {NotShown}]
  /\ reference \in [Commits -> Nonces \cup {NotShown}]
  /\ stashed \in [Commits -> Deletion \cup {NoStash}]
  /\ current \in [Commits -> Content \cup {Absent}]
  /\ removed \in [Commits -> Content \cup {Absent}]
  /\ stale \in [Commits -> BOOLEAN]

\* What a reference stands for is what its prepare has shown.
PreviewsShown ==
  \A r \in issued : shown[r.nonce] # NotShown
                    /\ r.preview = DeletionOf(shown[r.nonce])

\* What a commit holds is what the prepare of its reference has shown.
StashesShown ==
  \A c \in Commits : stashed[c] # NoStash =>
    /\ reference[c] # NotShown
    /\ shown[reference[c]] # NotShown
    /\ stashed[c] = DeletionOf(shown[reference[c]])

\* A commit's reference was released to it, and to no other.
ReferencesApart ==
  /\ \A c \in Commits : reference[c] # NotShown =>
       \E g \in released : g.nonce = reference[c]
  /\ \A c, d \in Commits : c # d /\ reference[c] # NotShown
                           => reference[c] # reference[d]

IdleIsFresh ==
  \A c \in Commits : at[c] = "idle" =>
    reference[c] = NotShown /\ stashed[c] = NoStash

Busy == {"revalidating", "revalidated", "submitting", "rereading"}

BusyHolds ==
  \A c \in Commits :
    at[c] \in Busy \/ reply[c] # "unsent" => stashed[c] # NoStash

\* A deletion is sent only of a target that was found unchanged.
SentIsRevalidated ==
  \A c \in Commits : at[c] = "submitting" \/ reply[c] # "unsent" =>
    TargetUnchanged(c)

RemovedIsAnswered ==
  \A c \in Commits : removed[c] # Absent =>
    reply[c] \in Statuses /\ MayHaveWritten(reply[c])

\* What the second read has shown stands until somebody edits it.
CurrentStands ==
  \A c \in Commits :
    (/\ at[c] \in {"revalidated", "submitting"} \/ reply[c] # "unsent"
     /\ ~stale[c]
     /\ removed[c] = Absent
     /\ current[c] # Absent)
    => record[stashed[c].transaction] \in {current[c], Absent}

RemovedIsCurrent ==
  \A c \in Commits : removed[c] # Absent /\ ~stale[c]
                     => removed[c] = current[c]

GoneIsGone ==
  ~ScanMayMiss =>
    \A c \in Commits :
      (answer[c] # NoAnswer /\ answer[c].code = "confirmed_gone")
      => stashed[c] # NoStash /\ record[stashed[c].transaction] = Absent

ReferencesInv == PreviewsShown /\ StashesShown /\ ReferencesApart

ProtocolInv ==
  /\ CallsInv
  /\ LocalsTypeOK
  /\ ReferencesInv
  /\ IdleIsFresh /\ BusyHolds /\ SentIsRevalidated
  /\ RemovedIsAnswered /\ CurrentStands /\ RemovedIsCurrent
  /\ GoneIsGone

DeleteInv ==
  /\ Store!IInv
  /\ Marks!GInv
  /\ SubmissionsApart
  /\ ProtocolInv

-----------------------------------------------------------------------------
(* The stores.                                                             *)

LEMMA StoreAssumption == Store!ConfirmationAssumption
BY PayrollDeleteAssumption DEF Store!ConfirmationAssumption

LEMMA MarksAssumption == Marks!DuplicateGuardAssumption
BY PayrollDeleteAssumption DEF Marks!DuplicateGuardAssumption

\* A commit is accepted as the store's own proofs have it.
LEMMA SameVerdict ==
  \A r, b : Conf!Verdict(r, b) = Store!Verdict(r, b)
BY DEF Conf!Verdict, Store!Verdict, Conf!Expired, Store!Expired,
       Conf!Spent, Store!Spent

LEMMA SameStashed == \A n : Conf!Stashed(n) = Store!Stashed(n)
BY DEF Conf!Stashed, Store!Stashed

LEMMA BindingsAreBindings ==
  \A hash \in Hashes : BindingFor(hash) \in Store!Binding
BY DEF BindingFor, Store!Binding

LEMMA IssueKeepsStore ==
  ASSUME Store!IInv, NEW n \in Nonces, NEW hash \in Hashes,
         NEW d \in Deletion,
         Conf!IssueReference(n, BindingFor(hash), d)
  PROVE  Store!IInv'
<1>1. Store!IssueReference(n, BindingFor(hash), d)
  BY DEF Conf!IssueReference, Store!IssueReference, Conf!Sweep, Store!Sweep,
         Conf!Expired, Store!Expired
<1>2. QED
  BY <1>1, BindingsAreBindings, StoreAssumption, Store!IssueInv

\* What a commit gets for its reference: it was never released before, and
\* the stash is the preview.
LEMMA ConsumeKeepsStore ==
  ASSUME Store!IInv, NEW r \in issued,
         Conf!Verdict(r, BindingFor(r.binding.targetHash)) = "ok",
         Conf!ConsumeReference(r, BindingFor(r.binding.targetHash))
  PROVE  /\ Store!IInv'
         /\ r.nonce \in Nonces
         /\ \A g \in released : g.nonce # r.nonce
         /\ Conf!Stashed(r.nonce) \in {r.preview, NoStash}
         /\ \E g \in released' : g.nonce = r.nonce
         /\ released \subseteq released'
<1> DEFINE b == BindingFor(r.binding.targetHash)
<1>1. /\ r \in Store!Reference /\ r.nonce \in Nonces
      /\ r.binding.targetHash \in Hashes
  BY DEF Store!IInv, Store!TypeOK, Store!Reference, Store!Binding
<1>2. b \in Store!Binding
  BY <1>1, BindingsAreBindings
<1>3. Store!Verdict(r, b) = "ok"
  BY SameVerdict
<1>4. Store!ConsumeReference(r, b)
  BY <1>3, SameStashed DEF Conf!ConsumeReference, Store!ConsumeReference
<1>5. Store!IInv'
  BY <1>2, <1>4, StoreAssumption, Store!ConsumeInv
<1>6. r.epoch = epoch /\ r.nonce \notin consumed
  BY <1>1, <1>2, <1>3, StoreAssumption, Store!AcceptedBinding
<1>7. \A g \in released : g.nonce # r.nonce
  <2>1. SUFFICES ASSUME NEW g \in released, g.nonce = r.nonce PROVE FALSE
    OBVIOUS
  <2>2. PICK s \in issued : s.nonce = g.nonce
                            /\ (s.epoch = epoch => g.nonce \in consumed)
    BY DEF Store!IInv, Store!ReleasesAccounted
  <2>3. s = r
    BY <2>1, <2>2 DEF Store!IInv, Store!NoncesUnique
  <2>4. QED
    BY <1>6, <2>1, <2>2, <2>3
<1>8. Conf!Stashed(r.nonce) \in {r.preview, NoStash}
  <2>1. CASE pending[r.nonce] = NoStash
    BY <2>1 DEF Conf!Stashed
  <2>2. CASE pending[r.nonce] # NoStash
    <3>1. PICK s \in issued :
            /\ s.nonce = r.nonce
            /\ pending[r.nonce] = [payload |-> s.preview,
                                   expiresAt |-> s.expiresAt]
      BY <2>2, <1>1 DEF Store!IInv, Store!StashesAccounted
    <3>2. s = r
      BY <3>1 DEF Store!IInv, Store!NoncesUnique
    <3>3. QED
      BY <2>2, <3>1, <3>2 DEF Conf!Stashed
  <2>3. QED
    BY <2>1, <2>2
<1>9. released' = released \cup {[nonce |-> r.nonce,
                                  payload |-> Conf!Stashed(r.nonce), to |-> b]}
  BY DEF Conf!ConsumeReference
<1>10. (\E g \in released' : g.nonce = r.nonce) /\ released \subseteq released'
  <2> DEFINE rel == [nonce |-> r.nonce, payload |-> Conf!Stashed(r.nonce),
                     to |-> b]
  <2>1. rel.nonce = r.nonce
    OBVIOUS
  <2>2. released' = released \cup {rel}
    BY <1>9
  <2> HIDE DEF rel
  <2>3. QED
    BY <2>1, <2>2
<1>11. QED
  BY <1>1, <1>5, <1>7, <1>8, <1>10

LEMMA StoresKept ==
  ASSUME Store!IInv, Marks!GInv, SubmissionsApart,
         UNCHANGED <<confirmationVars, guardVars>>
  PROVE  Store!IInv' /\ Marks!GInv' /\ SubmissionsApart'
<1>1. UNCHANGED Store!vars /\ UNCHANGED Marks!vars /\ passed' = passed
  BY DEF confirmationVars, guardVars, Store!vars, Marks!vars
<1>2. Store!IInv'
  BY <1>1, StoreAssumption, Store!StepInv
<1>3. Marks!GInv'
  BY <1>1, MarksAssumption, Marks!StepInv
<1>4. SubmissionsApart'
  BY <1>1 DEF SubmissionsApart
<1>5. QED
  BY <1>2, <1>3, <1>4

LEMMA MarksKept ==
  ASSUME Marks!GInv, SubmissionsApart, UNCHANGED <<now, epoch, seen, passed>>
  PROVE  Marks!GInv' /\ SubmissionsApart'
<1>1. UNCHANGED Marks!vars
  BY DEF Marks!vars
<1>2. Marks!GInv'
  BY <1>1, MarksAssumption, Marks!StepInv
<1>3. QED
  BY <1>2 DEF SubmissionsApart

LEMMA RestartKeepsStores ==
  ASSUME Store!IInv, Marks!GInv, SubmissionsApart,
         Conf!Restart, Guard!Restart
  PROVE  Store!IInv' /\ Marks!GInv' /\ SubmissionsApart'
<1>1. Store!Restart /\ Marks!Restart /\ passed' = passed
  BY DEF Conf!Restart, Guard!Restart, Store!Restart, Marks!Restart
<1>2. Store!IInv'
  BY <1>1, StoreAssumption, Store!RestartInv
<1>3. Marks!GInv'
  BY <1>1, MarksAssumption, Marks!RestartInv
<1>4. QED
  BY <1>1, <1>2, <1>3 DEF SubmissionsApart

LEMMA TickKeepsStores ==
  ASSUME Store!IInv, Marks!GInv, SubmissionsApart, Conf!Tick, Guard!Tick
  PROVE  Store!IInv' /\ Marks!GInv' /\ SubmissionsApart'
<1>1. Store!Tick /\ Marks!Tick /\ passed' = passed
  BY DEF Conf!Tick, Guard!Tick, Store!Tick, Marks!Tick
<1>2. Store!IInv'
  BY <1>1, StoreAssumption, Store!ClockInv
<1>3. Marks!GInv'
  BY <1>1, MarksAssumption, Marks!TickInv
<1>4. QED
  BY <1>1, <1>2, <1>3 DEF SubmissionsApart

\* A commit that passes the guard is more than the window away from every
\* other of its process with the same deletion.
LEMMA GuardKeepsStores ==
  ASSUME Store!IInv, Marks!GInv, SubmissionsApart, NEW who \in Commits,
         NEW key \in Deletion,
         Guard!AssertNotDuplicate(who, key, FALSE),
         UNCHANGED <<consumed, pending, issued, released, latest>>
  PROVE  Store!IInv' /\ Marks!GInv' /\ SubmissionsApart'
<1>1. Marks!AssertNotDuplicate(who, key, FALSE)
  BY DEF Guard!AssertNotDuplicate, Marks!AssertNotDuplicate,
         Guard!Suspected, Marks!Suspected, Guard!Swept, Marks!Swept,
         Guard!Recent, Marks!Recent
<1>2. UNCHANGED Store!vars
  BY DEF Guard!AssertNotDuplicate, Store!vars
<1>3. Store!IInv'
  BY <1>2, StoreAssumption, Store!StepInv
<1>4. Marks!GInv'
  BY <1>1, MarksAssumption, Marks!AssertInv
<1>5. Marks!RepeatsNothingRecent
  BY <1>1, MarksAssumption, Marks!RepeatRefused DEF Marks!Next
<1>6. ASSUME passed' = passed PROVE SubmissionsApart'
  BY <1>6 DEF SubmissionsApart
<1>7. ASSUME passed' # passed PROVE SubmissionsApart'
  <2> DEFINE pass == [key |-> key, at |-> now, acknowledged |-> FALSE,
                      epoch |-> epoch]
  <2>1. passed' = [passed EXCEPT ![who] = pass] /\ passed[who] = NoPass
    BY <1>7 DEF Guard!AssertNotDuplicate
  <2>2. /\ passed \in [Commits -> Marks!Pass \cup {NoPass}]
        /\ now \in Nat /\ epoch \in Nat
    BY DEF Marks!GInv, Marks!TypeOK
  <2>3. pass # NoPass
    <3>1. pass \in [key : Deletion, at : Nat, acknowledged : BOOLEAN,
                    epoch : Nat]
      BY <2>2
    <3>2. QED
      BY <3>1, PayrollDeleteAssumption
  <2>4. passed'[who] = pass /\ \A e \in Commits \ {who} : passed'[e] = passed[e]
    BY <2>1, <2>2
  <2>5. ASSUME NEW e \in Commits, e # who, passed[e] # NoPass,
               passed[e].key = key, passed[e].epoch = epoch
        PROVE  now > passed[e].at + Window
    <3>1. now - passed[e].at > Window
      BY <1>5, <2>1, <2>3, <2>4, <2>5 DEF Marks!RepeatsNothingRecent
    <3>2. passed[e].at \in Nat
      BY <2>2, <2>5 DEF Marks!Pass
    <3>3. QED
      BY <3>1, <3>2, <2>2, PayrollDeleteAssumption
  <2>6. pass.key = key /\ pass.at = now /\ pass.epoch = epoch
    OBVIOUS
  <2> HIDE DEF pass
  <2>7. SUFFICES ASSUME NEW e \in Commits, NEW f \in Commits, e # f,
                        passed'[e] # NoPass, passed'[f] # NoPass,
                        passed'[e].key = passed'[f].key,
                        passed'[e].epoch = passed'[f].epoch
                 PROVE  \/ passed'[e].at > passed'[f].at + Window
                        \/ passed'[f].at > passed'[e].at + Window
    BY DEF SubmissionsApart
  <2>8. CASE e = who
    BY <2>4, <2>5, <2>6, <2>7, <2>8
  <2>9. CASE f = who
    BY <2>4, <2>5, <2>6, <2>7, <2>9
  <2>10. CASE e # who /\ f # who
    BY <2>4, <2>7, <2>10 DEF SubmissionsApart
  <2>11. QED
    BY <2>8, <2>9, <2>10
<1>8. QED
  BY <1>3, <1>4, <1>6, <1>7

-----------------------------------------------------------------------------
(* The steps of the protocol.                                              *)

LEMMA ReferencesStand ==
  ASSUME ReferencesInv,
         UNCHANGED <<issued, released, shown, reference, stashed>>
  PROVE  ReferencesInv'
BY DEF ReferencesInv, PreviewsShown, StashesShown, ReferencesApart,
       DeletionOf, HashTarget

LEMMA ProtocolHolds == Init => ProtocolInv
<1>1. SUFFICES ASSUME Init PROVE ProtocolInv
  OBVIOUS
<1>2. CallsInv
  BY <1>1, IdleHolds DEF Init
<1>3. LocalsTypeOK
  BY <1>1, PayrollDeleteAssumption DEF Init, LocalsTypeOK
<1>4. ReferencesInv
  BY <1>1 DEF Init, Conf!Init, ReferencesInv, PreviewsShown, StashesShown,
              ReferencesApart
<1>5. IdleIsFresh /\ BusyHolds /\ SentIsRevalidated
  BY <1>1 DEF Init, CallsIdle, IdleIsFresh, BusyHolds, Busy,
              SentIsRevalidated
<1>6. RemovedIsAnswered /\ CurrentStands /\ RemovedIsCurrent
  BY <1>1 DEF Init, RemovedIsAnswered, CurrentStands, RemovedIsCurrent
<1>7. GoneIsGone
  BY <1>1 DEF Init, CallsIdle, GoneIsGone
<1>8. QED
  BY <1>2, <1>3, <1>4, <1>5, <1>6, <1>7 DEF ProtocolInv

\* What leaves the locals, Jisr and the calls alone keeps all that is said of
\* them.
LEMMA ProtocolStands ==
  ASSUME ProtocolInv, ReferencesInv', LocalsTypeOK',
         UNCHANGED <<jisrVars, localVars, callVars>>
  PROVE  ProtocolInv'
<1>1. CallsInv'
  BY StutterKeeps DEF ProtocolInv
<1>2. /\ IdleIsFresh' /\ BusyHolds' /\ SentIsRevalidated'
      /\ RemovedIsAnswered' /\ RemovedIsCurrent'
  BY DEF ProtocolInv, IdleIsFresh, BusyHolds, SentIsRevalidated,
         TargetUnchanged, RemovedIsAnswered, RemovedIsCurrent,
         jisrVars, localVars, callVars
<1>3. CurrentStands' /\ GoneIsGone'
  BY DEF ProtocolInv, CurrentStands, GoneIsGone,
         jisrVars, localVars, callVars
<1>4. QED
  BY <1>1, <1>2, <1>3 DEF ProtocolInv

LEMMA PrepareReadsKeeps ==
  ASSUME ProtocolInv, epoch \in Nat, \A r \in issued : r.nonce \in Nonces,
         NEW n \in Nonces, NEW t \in Transactions, NEW spelling \in Spellings,
         PrepareReads(n, t, spelling)
  PROVE  ProtocolInv'
<1> DEFINE preview == [transaction |-> t, spelling |-> spelling,
                       content |-> record[t], epoch |-> epoch]
<1>1. /\ shown[n] = NotShown
      /\ shown' = [shown EXCEPT ![n] = preview]
      /\ UNCHANGED <<jisrVars, localVars, callVars, issued, released>>
  BY DEF PrepareReads, confirmationVars
<1>2. LocalsTypeOK'
  <2>1. preview \in Preview
    BY DEF PrepareReads, ProtocolInv, LocalsTypeOK, Preview
  <2>2. QED
    BY <1>1, <2>1 DEF ProtocolInv, LocalsTypeOK, jisrVars, localVars
<1>3. \A m \in Nonces : shown[m] # NotShown => shown'[m] = shown[m]
  BY <1>1 DEF ProtocolInv, LocalsTypeOK
<1>4. UNCHANGED <<issued, released, reference, stashed>>
  BY <1>1 DEF localVars
<1>5. ReferencesInv'
  <2>1. PreviewsShown'
    BY <1>3, <1>4
    DEF ProtocolInv, ReferencesInv, PreviewsShown, DeletionOf, HashTarget
  <2>2. StashesShown'
    BY <1>3, <1>4
    DEF ProtocolInv, LocalsTypeOK, ReferencesInv, StashesShown, DeletionOf,
        HashTarget
  <2>3. ReferencesApart'
    BY <1>4 DEF ProtocolInv, ReferencesInv, ReferencesApart
  <2>4. QED
    BY <2>1, <2>2, <2>3 DEF ReferencesInv
<1>6. QED
  BY <1>1, <1>2, <1>5, ProtocolStands

LEMMA PrepareIssuesKeeps ==
  ASSUME ProtocolInv, NEW n \in Nonces, PrepareIssues(n)
  PROVE  ProtocolInv'
<1> DEFINE hash == HashTarget(shown[n].content)
           ref == [nonce |-> n, binding |-> BindingFor(hash),
                   expiresAt |-> now + TTL, epoch |-> epoch,
                   preview |-> DeletionOf(shown[n])]
<1>1. /\ shown[n] # NotShown
      /\ issued' = issued \cup {ref}
      /\ UNCHANGED <<jisrVars, localVars, callVars, shown, released>>
  BY DEF PrepareIssues, Conf!IssueReference, DeletionOf
<1>2. LocalsTypeOK'
  BY <1>1 DEF ProtocolInv, LocalsTypeOK, jisrVars, localVars
<1>3. ref.nonce = n /\ ref.preview = DeletionOf(shown[n])
  OBVIOUS
<1> HIDE DEF ref
<1>4. PreviewsShown'
  BY <1>1, <1>3
  DEF ProtocolInv, ReferencesInv, PreviewsShown, DeletionOf, HashTarget
<1>5. StashesShown' /\ ReferencesApart'
  BY <1>1 DEF ProtocolInv, ReferencesInv, StashesShown, ReferencesApart,
              DeletionOf, HashTarget, localVars
<1>6. QED
  BY <1>1, <1>2, <1>4, <1>5, ProtocolStands DEF ReferencesInv

\* An answer that does not confirm a deletion, and one given before, need
\* nothing new of Jisr: what is absent stays absent.
LEMMA GoneStands ==
  ASSUME ProtocolInv, NEW c \in Commits,
         \A d \in Commits : d # c => answer'[d] = answer[d]
                                     /\ stashed'[d] = stashed[d],
         \A t \in Transactions : record[t] = Absent => record'[t] = Absent,
         \/ answer'[c] = NoAnswer
         \/ answer'[c].code # "confirmed_gone"
         \/ answer'[c] = answer[c] /\ stashed'[c] = stashed[c]
  PROVE  GoneIsGone'
<1>1. SUFFICES ASSUME ~ScanMayMiss, NEW d \in Commits, answer'[d] # NoAnswer,
                      answer'[d].code = "confirmed_gone"
               PROVE  /\ stashed'[d] # NoStash
                      /\ record'[stashed'[d].transaction] = Absent
  BY DEF GoneIsGone
<1>2. answer'[d] = answer[d] /\ stashed'[d] = stashed[d]
  BY <1>1
<1>3. stashed[d] # NoStash /\ record[stashed[d].transaction] = Absent
  BY <1>1, <1>2 DEF ProtocolInv, GoneIsGone
<1>4. stashed[d].transaction \in Transactions
  BY <1>3 DEF ProtocolInv, LocalsTypeOK, Deletion
<1>5. QED
  BY <1>2, <1>3, <1>4
\* The verdicts that refuse a reference are codes of answers.
LEMMA VerdictsAreAnswers ==
  \A r, b : Conf!Verdict(r, b) \in AnswerCodes \cup {"ok"}
BY DEF Conf!Verdict, AnswerCodes

LEMMA CommitBeginsKeeps ==
  ASSUME ProtocolInv, Store!IInv, NEW c \in Commits, NEW r \in issued,
         CommitBegins(c, r)
  PROVE  ProtocolInv'
<1> DEFINE b == BindingFor(r.binding.targetHash)
           verdict == Conf!Verdict(r, b)
           stash == Conf!Stashed(r.nonce)
<1>1. /\ at[c] = "idle"
      /\ UNCHANGED <<shown, jisrVars, current>>
  BY DEF CommitBegins
<1>2. reference[c] = NotShown /\ stashed[c] = NoStash /\ reply[c] = "unsent"
  BY <1>1 DEF ProtocolInv, IdleIsFresh, CallsInv, SentIsPast
<1>3. ASSUME verdict # "ok" PROVE ProtocolInv'
  <2>1. /\ Answer(c, "consume", verdict)
        /\ UNCHANGED <<confirmationVars, reference, stashed>>
    BY <1>3 DEF CommitBegins
  <2>2. CallsInv'
    <3>1. verdict \in AnswerCodes /\ "consume" \in Stages \ {"reread"}
      BY <1>3, VerdictsAreAnswers DEF Stages
    <3>2. QED
      BY <1>2, <2>1, <3>1, AnswerKeeps DEF Unwritten, ProtocolInv
  <2>3. at' = [at EXCEPT ![c] = "answered"] /\ reply' = reply
    BY <2>1 DEF Answer
  <2>4. LocalsTypeOK'
    BY <1>1, <2>1 DEF ProtocolInv, LocalsTypeOK, jisrVars
  <2>5. ReferencesInv'
    BY <1>1, <2>1, ReferencesStand DEF ProtocolInv, confirmationVars
  <2>6. IdleIsFresh' /\ BusyHolds' /\ SentIsRevalidated'
    BY <1>1, <2>1, <2>3
    DEF ProtocolInv, CallsInv, CallsTypeOK, IdleIsFresh, BusyHolds, Busy,
        SentIsRevalidated, TargetUnchanged
  <2>7. RemovedIsAnswered' /\ CurrentStands' /\ RemovedIsCurrent'
    BY <1>1, <2>1, <2>3
    DEF ProtocolInv, CallsInv, CallsTypeOK, RemovedIsAnswered, CurrentStands,
        RemovedIsCurrent, jisrVars
  <2>8. GoneIsGone'
    <3>1. AnswerCode(verdict) # "confirmed_gone"
      BY DEF Conf!Verdict, AnswerCode
    <3>2. answer' = [answer EXCEPT ![c] = [stage |-> "consume",
                        code |-> AnswerCode(verdict), raw |-> verdict = "raw"]]
      BY <2>1 DEF Answer
    <3>3. QED
      BY <1>1, <2>1, <3>1, <3>2, GoneStands
      DEF jisrVars, ProtocolInv, CallsInv, CallsTypeOK
  <2>9. QED
    BY <2>2, <2>4, <2>5, <2>6, <2>7, <2>8 DEF ProtocolInv
<1>4. ASSUME verdict = "ok" PROVE ProtocolInv'
  <2>1. /\ Conf!ConsumeReference(r, b)
        /\ reference' = [reference EXCEPT ![c] = r.nonce]
        /\ stashed' = [stashed EXCEPT ![c] = stash]
        /\ IF stash = NoStash
           THEN Answer(c, "consume", "WRITE_PREPARATION_EXPIRED")
           ELSE Goto(c, "revalidating")
    BY <1>4 DEF CommitBegins
  <2>2. /\ r.nonce \in Nonces
        /\ \A g \in released : g.nonce # r.nonce
        /\ stash \in {r.preview, NoStash}
        /\ \E g \in released' : g.nonce = r.nonce
        /\ released \subseteq released'
    BY <1>4, <2>1, ConsumeKeepsStore
  <2>3. issued' = issued
    BY <2>1 DEF Conf!ConsumeReference
  <2>4. /\ at' = [at EXCEPT ![c] = IF stash = NoStash THEN "answered"
                                   ELSE "revalidating"]
        /\ reply' = reply
    BY <2>1 DEF Answer, Goto
  <2>5. CallsInv'
    <3>1. CASE stash = NoStash
      <4>1. /\ "WRITE_PREPARATION_EXPIRED" \in AnswerCodes
            /\ "consume" \in Stages \ {"reread"}
        BY DEF AnswerCodes, Stages
      <4>2. QED
        BY <1>2, <2>1, <3>1, <4>1, AnswerKeeps DEF Unwritten, ProtocolInv
    <3>2. CASE stash # NoStash
      BY <1>1, <1>2, <2>1, <3>2, GotoKeeps DEF Places, ProtocolInv
    <3>3. QED
      BY <3>1, <3>2
  <2>6. /\ shown[r.nonce] # NotShown
        /\ r.preview = DeletionOf(shown[r.nonce])
    BY DEF ProtocolInv, ReferencesInv, PreviewsShown
  <2>7. LocalsTypeOK'
    <3>1. shown[r.nonce] \in Preview
      BY <2>2, <2>6 DEF ProtocolInv, LocalsTypeOK
    <3>2. stash \in Deletion \cup {NoStash}
      BY <2>2, <2>6, <3>1
      DEF DeletionOf, HashTarget, Deletion, Content, Preview
    <3>3. QED
      BY <1>1, <2>1, <2>2, <3>2 DEF ProtocolInv, LocalsTypeOK, jisrVars
  <2> HIDE DEF stash, b, verdict
  <2>8. PreviewsShown'
    BY <1>1, <2>3
    DEF ProtocolInv, ReferencesInv, PreviewsShown, DeletionOf, HashTarget
  <2>9. StashesShown'
    BY <1>1, <2>1, <2>2, <2>6, PayrollDeleteAssumption
    DEF ProtocolInv, LocalsTypeOK, ReferencesInv, StashesShown, DeletionOf,
        HashTarget
  <2>10. ReferencesApart'
    BY <2>1, <2>2
    DEF ProtocolInv, LocalsTypeOK, ReferencesInv, ReferencesApart
  <2>11. IdleIsFresh' /\ BusyHolds'
    BY <1>2, <2>1, <2>4
    DEF ProtocolInv, LocalsTypeOK, CallsInv, CallsTypeOK, IdleIsFresh,
        BusyHolds, Busy
  <2>12. SentIsRevalidated'
    BY <1>1, <1>2, <2>1, <2>4
    DEF ProtocolInv, LocalsTypeOK, CallsInv, CallsTypeOK, SentIsRevalidated,
        TargetUnchanged, HashTarget
  <2>13. RemovedIsAnswered' /\ CurrentStands' /\ RemovedIsCurrent'
    BY <1>1, <1>2, <2>1, <2>4
    DEF ProtocolInv, LocalsTypeOK, CallsInv, CallsTypeOK, RemovedIsAnswered,
        CurrentStands, RemovedIsCurrent, jisrVars
  <2>14. GoneIsGone'
    <3>1. \/ answer' = answer
          \/ answer' = [answer EXCEPT ![c] =
               [stage |-> "consume",
                code |-> AnswerCode("WRITE_PREPARATION_EXPIRED"),
                raw |-> "WRITE_PREPARATION_EXPIRED" = "raw"]]
      BY <2>1 DEF Answer, Goto
    <3>2. answer[c] = NoAnswer
      BY <1>1 DEF ProtocolInv, CallsInv, CallsTypeOK
    <3>3. \A d \in Commits : d # c => answer'[d] = answer[d]
                                       /\ stashed'[d] = stashed[d]
      BY <2>1, <3>1 DEF ProtocolInv, LocalsTypeOK, CallsInv, CallsTypeOK
    <3>4. answer'[c] = NoAnswer \/ answer'[c].code # "confirmed_gone"
      BY <3>1, <3>2 DEF AnswerCode, ProtocolInv, CallsInv, CallsTypeOK
    <3>5. record' = record
      BY <1>1 DEF jisrVars
    <3>6. QED
      BY <3>3, <3>4, <3>5, GoneStands
  <2>15. QED
    BY <2>5, <2>7, <2>8, <2>9, <2>10, <2>11, <2>12, <2>13, <2>14
    DEF ProtocolInv, ReferencesInv
<1>5. QED
  BY <1>3, <1>4

\* A step of a commit under way that changes only where it stands.
LEMMA CallStepKeeps ==
  ASSUME ProtocolInv, CallsInv', NEW c \in Commits,
         UNCHANGED <<issued, released, jisrVars, shown, localVars>>,
         \A d \in Commits \ {c} :
           at'[d] = at[d] /\ reply'[d] = reply[d] /\ answer'[d] = answer[d],
         at[c] \in Busy, at'[c] # "idle",
         at'[c] = "submitting" \/ reply'[c] # "unsent" => TargetUnchanged(c),
         at'[c] \in {"revalidated", "submitting"} \/ reply'[c] # "unsent"
           => at[c] \in {"revalidated", "submitting"} \/ reply[c] # "unsent",
         removed[c] # Absent => reply'[c] = reply[c],
         (answer'[c] # NoAnswer /\ answer'[c].code = "confirmed_gone")
           => ScanMayMiss \/ record[stashed[c].transaction] = Absent
  PROVE  ProtocolInv'
<1>1. LocalsTypeOK' /\ ReferencesInv'
  BY ReferencesStand DEF ProtocolInv, LocalsTypeOK, jisrVars, localVars
<1>2. stashed[c] # NoStash
  BY DEF ProtocolInv, BusyHolds
<1>3. IdleIsFresh' /\ BusyHolds'
  BY <1>2 DEF ProtocolInv, IdleIsFresh, BusyHolds, localVars
<1>4. SentIsRevalidated'
  BY DEF ProtocolInv, SentIsRevalidated, TargetUnchanged, localVars
<1>5. RemovedIsAnswered' /\ RemovedIsCurrent'
  BY DEF ProtocolInv, RemovedIsAnswered, RemovedIsCurrent, localVars, jisrVars
<1>6. CurrentStands'
  <2>1. SUFFICES ASSUME NEW d \in Commits,
                        \/ at'[d] \in {"revalidated", "submitting"}
                        \/ reply'[d] # "unsent",
                        ~stale[d], removed[d] = Absent, current[d] # Absent
                 PROVE  record[stashed[d].transaction] \in {current[d], Absent}
    BY DEF CurrentStands, localVars, jisrVars
  <2>2. at[d] \in {"revalidated", "submitting"} \/ reply[d] # "unsent"
    BY <2>1
  <2>3. QED
    BY <2>1, <2>2 DEF ProtocolInv, CurrentStands
<1>7. GoneIsGone'
  BY <1>2 DEF ProtocolInv, GoneIsGone, localVars, jisrVars
<1>8. QED
  BY <1>1, <1>3, <1>4, <1>5, <1>6, <1>7 DEF ProtocolInv

LEMMA RevalidatesKeeps ==
  ASSUME ProtocolInv, NEW c \in Commits, Revalidates(c)
  PROVE  ProtocolInv'
<1>1. PICK found \in Scan(stashed[c].transaction) :
        current' = [current EXCEPT ![c] = found]
  BY DEF Revalidates
<1>2. /\ at[c] = "revalidating" /\ Goto(c, "revalidated")
      /\ stale' = [stale EXCEPT ![c] = FALSE]
      /\ UNCHANGED <<issued, released, shown, reference, stashed, record,
                     edits, removed>>
  BY DEF Revalidates, confirmationVars
<1>3. /\ at' = [at EXCEPT ![c] = "revalidated"]
      /\ reply' = reply /\ answer' = answer
  BY <1>2 DEF Goto
<1>4. reply[c] = "unsent" /\ removed[c] = Absent /\ stashed[c] # NoStash
  BY <1>2 DEF ProtocolInv, CallsInv, SentIsPast, RemovedIsAnswered, BusyHolds,
              Busy, Statuses
<1>5. found \in {record[stashed[c].transaction], Absent}
      /\ found \in Content \cup {Absent}
  BY <1>4 DEF Scan, ProtocolInv, LocalsTypeOK, Deletion
<1>6. CallsInv'
  BY <1>2, <1>4, GotoKeeps DEF Places, ProtocolInv
<1>7. LocalsTypeOK' /\ ReferencesInv'
  BY <1>1, <1>2, <1>5, ReferencesStand DEF ProtocolInv, LocalsTypeOK
<1>8. IdleIsFresh' /\ BusyHolds' /\ RemovedIsAnswered' /\ GoneIsGone'
  BY <1>2, <1>3, <1>4
  DEF ProtocolInv, CallsInv, CallsTypeOK, IdleIsFresh, BusyHolds, Busy,
      RemovedIsAnswered, GoneIsGone
<1>9. SentIsRevalidated' /\ RemovedIsCurrent'
  BY <1>1, <1>2, <1>3, <1>4
  DEF ProtocolInv, CallsInv, CallsTypeOK, LocalsTypeOK, SentIsRevalidated,
      TargetUnchanged, HashTarget, RemovedIsCurrent
<1>10. CurrentStands'
  BY <1>1, <1>2, <1>3, <1>5
  DEF ProtocolInv, CallsInv, CallsTypeOK, LocalsTypeOK, CurrentStands
<1>11. QED
  BY <1>6, <1>7, <1>8, <1>9, <1>10 DEF ProtocolInv

\* A commit that is answered with something else than a confirmed deletion.
LEMMA AnswerStep ==
  ASSUME ProtocolInv, NEW c \in Commits, NEW stage \in Stages,
         NEW code \in AnswerCodes, Answer(c, stage, code),
         \/ stage = "reread"
         \/ AnswerCode(code) \in {"WRITE_OUTCOME_UNKNOWN",
                                  "JISR_RESPONSE_INVALID"}
         \/ Unwritten(c),
         stage = "reread" => at[c] = "rereading",
         at[c] \in Busy,
         AnswerCode(code) = "confirmed_gone"
           => ScanMayMiss \/ record[stashed[c].transaction] = Absent,
         UNCHANGED <<issued, released, jisrVars, shown, localVars>>
  PROVE  ProtocolInv'
<1>1. CallsInv'
  <2>1. stage = "reread" => reply[c] = "ok"
    BY DEF ProtocolInv, CallsInv, RereadIsAccepted
  <2>2. QED
    BY <2>1, AnswerKeeps DEF ProtocolInv
<1>2. /\ at' = [at EXCEPT ![c] = "answered"] /\ reply' = reply
      /\ answer' = [answer EXCEPT ![c] = [stage |-> stage,
                                          code |-> AnswerCode(code),
                                          raw |-> code = "raw"]]
  BY DEF Answer
<1>3. /\ \A d \in Commits \ {c} : at'[d] = at[d] /\ reply'[d] = reply[d]
                                  /\ answer'[d] = answer[d]
      /\ at'[c] = "answered" /\ reply'[c] = reply[c]
      /\ answer'[c].code = AnswerCode(code)
  BY <1>2 DEF ProtocolInv, CallsInv, CallsTypeOK
<1>4. reply'[c] # "unsent" => TargetUnchanged(c)
  BY <1>3 DEF ProtocolInv, SentIsRevalidated
<1>5. QED
  BY <1>1, <1>3, <1>4, CallStepKeeps

LEMMA DecidesKeeps ==
  ASSUME ProtocolInv, NEW c \in Commits, Decides(c)
  PROVE  ProtocolInv'
<1>1. /\ at[c] = "revalidated" /\ at[c] \in Busy
      /\ UNCHANGED <<issued, released, jisrVars, shown, localVars>>
  BY DEF Decides, Busy
<1>2. reply[c] = "unsent" /\ Unwritten(c)
  BY <1>1 DEF ProtocolInv, CallsInv, SentIsPast, Unwritten
<1>3. \/ \E stage \in {"guard", "revalidate"},
            code \in {"DUPLICATE_WRITE_SUSPECTED", "RECORD_NOT_FOUND",
                      "WRITE_TARGET_CHANGED"} : Answer(c, stage, code)
      \/ TargetUnchanged(c) /\ Goto(c, "submitting")
  BY DEF Decides
<1>4. ASSUME NEW stage \in {"guard", "revalidate"},
             NEW code \in {"DUPLICATE_WRITE_SUSPECTED", "RECORD_NOT_FOUND",
                           "WRITE_TARGET_CHANGED"},
             Answer(c, stage, code)
      PROVE  ProtocolInv'
  <2>1. /\ stage \in Stages \ {"reread"} /\ code \in AnswerCodes
        /\ AnswerCode(code) # "confirmed_gone"
    BY ClientCodesAre DEF Stages, AnswerCodes, AnswerCode
  <2>2. QED
    BY <1>1, <1>2, <1>4, <2>1, AnswerStep
<1>5. ASSUME TargetUnchanged(c), Goto(c, "submitting") PROVE ProtocolInv'
  <2>1. CallsInv'
    BY <1>1, <1>2, <1>5, GotoKeeps DEF Places, ProtocolInv
  <2>2. at' = [at EXCEPT ![c] = "submitting"] /\ UNCHANGED <<reply, answer>>
    BY <1>5 DEF Goto
  <2>3. /\ \A d \in Commits \ {c} : at'[d] = at[d] /\ reply'[d] = reply[d]
                                    /\ answer'[d] = answer[d]
        /\ at'[c] = "submitting" /\ reply'[c] = reply[c]
        /\ answer'[c] = NoAnswer
    BY <1>1, <2>2 DEF ProtocolInv, CallsInv, CallsTypeOK
  <2>4. QED
    BY <1>1, <1>5, <2>1, <2>3, CallStepKeeps
<1>6. QED
  BY <1>3, <1>4, <1>5

LEMMA DeletesKeeps ==
  ASSUME ProtocolInv, NEW c \in Commits, Deletes(c)
  PROVE  ProtocolInv'
<1>1. /\ at[c] = "submitting" /\ at[c] \in Busy
      /\ UNCHANGED <<issued, released, jisrVars, shown, localVars>>
  BY DEF Deletes, Sends, SubmitEnds, Busy, confirmationVars
<1>2. TargetUnchanged(c)
  BY <1>1 DEF ProtocolInv, SentIsRevalidated
<1>3. CASE Sends(c)
  <2>1. CallsInv'
    BY <1>3, SendsKeeps DEF ProtocolInv
  <2>2. /\ reply[c] \notin Statuses
        /\ \A d \in Commits \ {c} : reply'[d] = reply[d]
        /\ UNCHANGED <<at, answer>>
    BY <1>3, SendsFacts DEF ProtocolInv, CallsInv
  <2>3. removed[c] = Absent
    BY <2>2 DEF ProtocolInv, RemovedIsAnswered
  <2>4. answer[c] = NoAnswer
    BY <1>1 DEF ProtocolInv, CallsInv, CallsTypeOK
  <2>5. \A d \in Commits \ {c} : at'[d] = at[d] /\ reply'[d] = reply[d]
                                 /\ answer'[d] = answer[d]
    BY <2>2 DEF ProtocolInv, CallsInv, CallsTypeOK
  <2>6. QED
    BY <1>1, <1>2, <2>1, <2>2, <2>3, <2>4, <2>5, CallStepKeeps
<1>4. CASE SubmitEnds(c)
  <2>1. CallsInv'
    BY <1>4, SubmitEndsKeeps DEF ProtocolInv
  <2>2. PICK code \in Ends(reply[c]) :
          IF code = "done" THEN Goto(c, "rereading")
          ELSE Answer(c, "submit", SubmitGuarded(code))
    BY <1>4 DEF SubmitEnds
  <2>3. code \in ClientCodes
    BY <2>2, EndsAreCodes DEF ProtocolInv, CallsInv, CallsTypeOK
  <2>4. /\ \A d \in Commits \ {c} : at'[d] = at[d] /\ reply'[d] = reply[d]
                                    /\ answer'[d] = answer[d]
        /\ at'[c] \in {"rereading", "answered"} /\ reply'[c] = reply[c]
        /\ \/ answer'[c] = answer[c]
           \/ answer'[c].code = AnswerCode(SubmitGuarded(code))
    BY <2>2 DEF Goto, Answer, ProtocolInv, CallsInv, CallsTypeOK
  <2>5. answer[c] = NoAnswer
    BY <1>1 DEF ProtocolInv, CallsInv, CallsTypeOK
  <2>6. answer'[c] = NoAnswer \/ answer'[c].code # "confirmed_gone"
    BY <2>3, <2>4, <2>5, ClientCodesApart
  <2>7. QED
    BY <1>1, <1>2, <2>1, <2>4, <2>6, CallStepKeeps
<1>5. QED
  BY <1>3, <1>4 DEF Deletes

LEMMA RereadsKeeps ==
  ASSUME ProtocolInv, NEW c \in Commits, Rereads(c)
  PROVE  ProtocolInv'
<1>1. /\ at[c] = "rereading" /\ at[c] \in Busy
      /\ UNCHANGED <<issued, released, jisrVars, shown, localVars>>
  BY DEF Rereads, Busy, confirmationVars
<1>2. PICK found \in Scan(stashed[c].transaction) :
        Answer(c, "reread", IF found = Absent THEN "confirmed_gone"
                            ELSE "still_visible")
  BY DEF Rereads
<1>3. /\ {"confirmed_gone", "still_visible"} \subseteq AnswerCodes
      /\ AnswerCode("confirmed_gone") = "confirmed_gone"
      /\ AnswerCode("still_visible") = "still_visible"
      /\ "reread" \in Stages
  BY DEF AnswerCodes, AnswerCode, Stages
<1>4. found = Absent => ScanMayMiss \/ record[stashed[c].transaction] = Absent
  BY <1>2 DEF Scan
<1>5. QED
  BY <1>1, <1>2, <1>3, <1>4, AnswerStep

LEMMA ReadFailsKeeps ==
  ASSUME ProtocolInv, NEW c \in Commits, ReadFails(c)
  PROVE  ProtocolInv'
<1>1. UNCHANGED <<issued, released, jisrVars, shown, localVars>>
  BY DEF ReadFails, confirmationVars
<1>2. PICK stage \in {"reread", "revalidate"}, code \in ReadFailures :
        /\ Answer(c, stage, code)
        /\ \/ stage = "reread" /\ at[c] = "rereading"
           \/ stage = "revalidate" /\ at[c] = "revalidating"
  BY DEF ReadFails, RereadFails
<1>3. code \in AnswerCodes /\ AnswerCode(code) # "confirmed_gone"
      /\ stage \in Stages
  BY <1>2, WriteCallAssumption, ClientCodesApart DEF AnswerCodes, Stages
<1>4. at[c] \in Busy /\ (stage = "reread" \/ Unwritten(c))
  BY <1>2 DEF Busy, ProtocolInv, CallsInv, SentIsPast, Unwritten
<1>5. QED
  BY <1>1, <1>2, <1>3, <1>4, AnswerStep

LEMMA JisrHandlesKeeps ==
  ASSUME ProtocolInv, NEW c \in Commits, NEW status \in Replies,
         JisrHandles(c, status)
  PROVE  ProtocolInv'
<1> DEFINE t == stashed[c].transaction
<1>1. /\ JisrReplies(c, status)
      /\ UNCHANGED <<at, answer, issued, released, shown, localVars, edits,
                     stale>>
      /\ \/ /\ MayHaveWritten(status)
            /\ record[t] # Absent
            /\ record' = [record EXCEPT ![t] = Absent]
            /\ removed' = [removed EXCEPT ![c] = record[t]]
         \/ UNCHANGED <<record, removed>>
  BY DEF JisrHandles, JisrReplies, confirmationVars
<1>2. /\ reply[c] \notin Statuses /\ reply[c] # "unsent"
      /\ reply'[c] # "unsent"
      /\ MayHaveWritten(status) => reply'[c] = status /\ status \in Statuses
      /\ \A d \in Commits \ {c} : reply'[d] = reply[d]
  BY <1>1, RepliesFacts DEF ProtocolInv, CallsInv
<1>3. removed[c] = Absent /\ stashed[c] # NoStash /\ t \in Transactions
  BY <1>2 DEF ProtocolInv, RemovedIsAnswered, BusyHolds, LocalsTypeOK,
              Deletion
<1>4. TargetUnchanged(c)
  BY <1>2 DEF ProtocolInv, SentIsRevalidated
<1>5. ~stale[c] => record[t] \in {current[c], Absent}
  BY <1>2, <1>3, <1>4 DEF ProtocolInv, CurrentStands, TargetUnchanged
<1>6. \A u \in Transactions : record'[u] \in {record[u], Absent}
  BY <1>1 DEF ProtocolInv, LocalsTypeOK
<1>7. CallsInv'
  BY <1>1, RepliesKeep DEF ProtocolInv
<1>8. LocalsTypeOK' /\ ReferencesInv'
  BY <1>1, <1>3, ReferencesStand DEF ProtocolInv, LocalsTypeOK, localVars
<1>9. IdleIsFresh' /\ BusyHolds' /\ SentIsRevalidated'
  BY <1>1, <1>2, <1>3, <1>4
  DEF ProtocolInv, CallsInv, CallsTypeOK, IdleIsFresh, BusyHolds,
      SentIsRevalidated, TargetUnchanged, localVars
<1>10. RemovedIsAnswered' /\ RemovedIsCurrent'
  BY <1>1, <1>2, <1>3, <1>5
  DEF ProtocolInv, CallsInv, CallsTypeOK, LocalsTypeOK, RemovedIsAnswered,
      RemovedIsCurrent, localVars
<1>11. CurrentStands'
  <2>1. SUFFICES ASSUME NEW d \in Commits,
                        \/ at'[d] \in {"revalidated", "submitting"}
                        \/ reply'[d] # "unsent",
                        ~stale'[d], removed'[d] = Absent, current'[d] # Absent
                 PROVE  record'[stashed'[d].transaction]
                          \in {current'[d], Absent}
    BY DEF CurrentStands
  <2>2. /\ at[d] \in {"revalidated", "submitting"} \/ reply[d] # "unsent"
        /\ ~stale[d] /\ removed[d] = Absent /\ current[d] # Absent
        /\ current'[d] = current[d] /\ stashed'[d] = stashed[d]
    BY <1>1, <1>2, <1>3, <2>1
    DEF ProtocolInv, CallsInv, CallsTypeOK, LocalsTypeOK, localVars
  <2>3. record[stashed[d].transaction] \in {current[d], Absent}
    BY <2>2 DEF ProtocolInv, CurrentStands
  <2>4. stashed[d] # NoStash
    BY <2>2 DEF ProtocolInv, BusyHolds, Busy
  <2>5. stashed[d].transaction \in Transactions
    BY <2>4 DEF ProtocolInv, LocalsTypeOK, Deletion
  <2>6. QED
    BY <1>6, <2>2, <2>3, <2>5
<1>12. GoneIsGone'
  <2>1. \A u \in Transactions : record[u] = Absent => record'[u] = Absent
    BY <1>6
  <2>2. UNCHANGED <<answer, stashed>>
    BY <1>1 DEF localVars
  <2>3. QED
    BY <2>1, <2>2, GoneStands
<1>13. QED
  BY <1>7, <1>8, <1>9, <1>10, <1>11, <1>12 DEF ProtocolInv

LEMMA EditInJisrKeeps ==
  ASSUME ProtocolInv, NEW t \in Transactions,
         NEW content \in Content \cup {Absent}, EditInJisr(t, content)
  PROVE  ProtocolInv'
<1>1. /\ edits < MaxEdits /\ edits' = edits + 1
      /\ record[t] # Absent
      /\ record' = [record EXCEPT ![t] = content]
      /\ stale' = [c \in Commits |-> stale[c] \/ removed[c] = Absent]
      /\ UNCHANGED <<issued, released, shown, localVars, callVars, removed>>
  BY DEF EditInJisr, confirmationVars
<1>2. CallsInv'
  BY <1>1, StutterKeeps DEF ProtocolInv
<1>3. LocalsTypeOK' /\ ReferencesInv'
  <2>1. edits' \in 0..MaxEdits
    BY <1>1, PayrollDeleteAssumption DEF ProtocolInv, LocalsTypeOK
  <2>2. stale' \in [Commits -> BOOLEAN]
    BY <1>1
  <2>3. QED
    BY <1>1, <2>1, <2>2, ReferencesStand
    DEF ProtocolInv, LocalsTypeOK, localVars
<1>4. /\ IdleIsFresh' /\ BusyHolds' /\ SentIsRevalidated'
      /\ RemovedIsAnswered'
  BY <1>1 DEF ProtocolInv, IdleIsFresh, BusyHolds, SentIsRevalidated,
              TargetUnchanged, RemovedIsAnswered, callVars, localVars
<1>5. CurrentStands' /\ RemovedIsCurrent'
  BY <1>1 DEF ProtocolInv, CurrentStands, RemovedIsCurrent, callVars,
              localVars
<1>6. GoneIsGone'
  <2>1. \A u \in Transactions : record[u] = Absent => record'[u] = Absent
    BY <1>1 DEF ProtocolInv, LocalsTypeOK
  <2>2. UNCHANGED <<answer, stashed>>
    BY <1>1 DEF localVars, callVars
  <2>3. CASE Commits = {}
    BY <2>3 DEF GoneIsGone
  <2>4. CASE Commits # {}
    BY <2>1, <2>2, <2>4, GoneStands
  <2>5. QED
    BY <2>3, <2>4
<1>7. QED
  BY <1>2, <1>3, <1>4, <1>5, <1>6 DEF ProtocolInv

LEMMA RestartKeeps ==
  ASSUME ProtocolInv, Restart
  PROVE  ProtocolInv'
<1>1. /\ CallsDie
      /\ UNCHANGED <<issued, released, jisrVars, shown, localVars>>
  BY DEF Restart, Conf!Restart
<1>2. /\ reply' = reply /\ answer' = answer
      /\ \A c \in Commits : at'[c] = at[c]
                            \/ at'[c] = "dead"
  BY <1>1 DEF CallsDie
<1>3. CallsInv'
  BY <1>1, DieKeeps DEF ProtocolInv
<1>4. LocalsTypeOK' /\ ReferencesInv'
  BY <1>1, ReferencesStand DEF ProtocolInv, LocalsTypeOK, jisrVars, localVars
<1>5. IdleIsFresh' /\ BusyHolds' /\ SentIsRevalidated'
  BY <1>1, <1>2 DEF ProtocolInv, IdleIsFresh, BusyHolds, Busy,
                    SentIsRevalidated, TargetUnchanged, localVars
<1>6. RemovedIsAnswered' /\ CurrentStands' /\ RemovedIsCurrent' /\ GoneIsGone'
  BY <1>1, <1>2 DEF ProtocolInv, RemovedIsAnswered, CurrentStands,
                    RemovedIsCurrent, GoneIsGone, jisrVars, localVars
<1>7. QED
  BY <1>3, <1>4, <1>5, <1>6 DEF ProtocolInv

-----------------------------------------------------------------------------
(* The specification.                                                      *)

LEMMA InitHolds == Init => DeleteInv
<1>1. SUFFICES ASSUME Init PROVE DeleteInv
  OBVIOUS
<1>2. Store!IInv
  <2>1. Store!Init
    BY <1>1 DEF Init, Conf!Init, Store!Init
  <2>2. QED
    BY <2>1, StoreAssumption, Store!InitInv
<1>3. Marks!GInv
  <2>1. Marks!Init
    BY <1>1 DEF Init, Guard!Init, Marks!Init
  <2>2. QED
    BY <2>1, MarksAssumption, Marks!InitInv
<1>4. SubmissionsApart
  BY <1>1 DEF Init, Guard!Init, SubmissionsApart
<1>5. QED
  BY <1>1, <1>2, <1>3, <1>4, ProtocolHolds DEF DeleteInv

LEMMA StepHolds == DeleteInv /\ [Next]_vars => DeleteInv'
<1>1. SUFFICES ASSUME DeleteInv, [Next]_vars PROVE DeleteInv'
  OBVIOUS
<1> DEFINE StoresInv == Store!IInv /\ Marks!GInv /\ SubmissionsApart
<1>2. StoresInv /\ ProtocolInv
  BY <1>1 DEF DeleteInv
<1>3. ASSUME UNCHANGED <<confirmationVars, guardVars>>, ProtocolInv'
      PROVE  DeleteInv'
  BY <1>2, <1>3, StoresKept DEF DeleteInv
<1>4. CASE \E n \in Nonces, t \in Transactions, spelling \in Spellings :
             PrepareReads(n, t, spelling)
  <2>1. PICK n \in Nonces, t \in Transactions, spelling \in Spellings :
          PrepareReads(n, t, spelling)
    BY <1>4
  <2>2. epoch \in Nat /\ \A r \in issued : r.nonce \in Nonces
    BY <1>2 DEF Store!IInv, Store!TypeOK, Store!Reference
  <2>3. UNCHANGED <<confirmationVars, guardVars>>
    BY <2>1 DEF PrepareReads
  <2>4. QED
    BY <1>2, <1>3, <2>1, <2>2, <2>3, PrepareReadsKeeps
<1>5. CASE \E n \in Nonces : PrepareIssues(n)
  <2>1. PICK n \in Nonces : PrepareIssues(n)
    BY <1>5
  <2>2. shown[n] \in Preview
    BY <1>2, <2>1 DEF PrepareIssues, ProtocolInv, LocalsTypeOK
  <2>3. /\ HashTarget(shown[n].content) \in Hashes
        /\ DeletionOf(shown[n]) \in Deletion
    BY <2>2 DEF HashTarget, DeletionOf, Content, Deletion, Preview
  <2>4. Conf!IssueReference(n, BindingFor(HashTarget(shown[n].content)),
                            DeletionOf(shown[n]))
    BY <2>1 DEF PrepareIssues, DeletionOf
  <2>5. Store!IInv'
    BY <1>2, <2>3, <2>4, IssueKeepsStore
  <2>6. UNCHANGED <<now, epoch, seen, passed>>
    BY <2>1, <2>4 DEF PrepareIssues, Conf!IssueReference, guardVars
  <2>7. Marks!GInv' /\ SubmissionsApart'
    BY <1>2, <2>6, MarksKept
  <2>8. QED
    BY <1>2, <2>1, <2>5, <2>7, PrepareIssuesKeeps DEF DeleteInv
<1>6. CASE \E c \in Commits, r \in issued : CommitBegins(c, r)
  <2>1. PICK c \in Commits, r \in issued : CommitBegins(c, r)
    BY <1>6
  <2>2. ProtocolInv'
    BY <1>2, <2>1, CommitBeginsKeeps
  <2>3. CASE Conf!Verdict(r, BindingFor(r.binding.targetHash)) = "ok"
    <3>1. Conf!ConsumeReference(r, BindingFor(r.binding.targetHash))
      BY <2>1, <2>3 DEF CommitBegins
    <3>2. Store!IInv'
      BY <1>2, <2>3, <3>1, ConsumeKeepsStore
    <3>3. UNCHANGED <<now, epoch, seen, passed>>
      BY <2>1, <3>1 DEF CommitBegins, Conf!ConsumeReference, guardVars
    <3>4. QED
      BY <1>2, <2>2, <3>2, <3>3, MarksKept DEF DeleteInv
  <2>4. CASE Conf!Verdict(r, BindingFor(r.binding.targetHash)) # "ok"
    BY <1>3, <2>1, <2>2, <2>4 DEF CommitBegins
  <2>5. QED
    BY <2>3, <2>4
<1>7. ASSUME NEW c \in Commits,
             Revalidates(c) \/ Deletes(c) \/ Rereads(c) \/ ReadFails(c)
      PROVE  DeleteInv'
  <2>1. UNCHANGED <<confirmationVars, guardVars>>
    BY <1>7 DEF Revalidates, Deletes, Rereads, ReadFails
  <2>2. QED
    BY <1>2, <1>3, <1>7, <2>1, RevalidatesKeeps, DeletesKeeps, RereadsKeeps,
       ReadFailsKeeps
<1>8. ASSUME NEW c \in Commits, Decides(c) PROVE DeleteInv'
  <2>1. ProtocolInv'
    BY <1>2, <1>8, DecidesKeeps
  <2>2. CASE TargetUnchanged(c)
    <3>1. stashed[c] \in Deletion
      BY <1>2, <1>8 DEF Decides, ProtocolInv, BusyHolds, Busy, LocalsTypeOK
    <3>2. /\ Guard!AssertNotDuplicate(c, stashed[c], FALSE)
          /\ UNCHANGED <<consumed, pending, issued, released, latest>>
      BY <1>8, <2>2 DEF Decides
    <3>3. QED
      BY <1>2, <2>1, <3>1, <3>2, GuardKeepsStores DEF DeleteInv
  <2>3. CASE ~TargetUnchanged(c)
    BY <1>3, <1>8, <2>1, <2>3 DEF Decides, confirmationVars
  <2>4. QED
    BY <2>2, <2>3
<1>9. CASE \E c \in Commits, s \in Replies : JisrHandles(c, s)
  BY <1>2, <1>3, <1>9, JisrHandlesKeeps DEF JisrHandles
<1>10. CASE \E t \in Transactions, v \in Content \cup {Absent} :
              EditInJisr(t, v)
  BY <1>2, <1>3, <1>10, EditInJisrKeeps DEF EditInJisr
<1>11. CASE Restart
  BY <1>2, <1>11, RestartKeeps, RestartKeepsStores DEF Restart, DeleteInv
<1>12. CASE Tick
  <2>1. /\ Conf!Tick /\ Guard!Tick
        /\ UNCHANGED <<jisrVars, shown, localVars, callVars, issued, released>>
    BY <1>12 DEF Tick, Conf!Tick
  <2>2. LocalsTypeOK' /\ ReferencesInv'
    BY <1>2, <2>1, ReferencesStand
    DEF ProtocolInv, LocalsTypeOK, jisrVars, localVars
  <2>3. QED
    BY <1>2, <2>1, <2>2, TickKeepsStores, ProtocolStands DEF DeleteInv
<1>13. CASE UNCHANGED vars
  <2>1. UNCHANGED <<confirmationVars, guardVars, jisrVars, localVars,
                    callVars, shown, issued, released>>
    BY <1>13 DEF vars, confirmationVars, guardVars, jisrVars, localVars,
                 callVars
  <2>2. LocalsTypeOK' /\ ReferencesInv'
    BY <1>2, <2>1, ReferencesStand
    DEF ProtocolInv, LocalsTypeOK, jisrVars, localVars
  <2>3. QED
    BY <1>2, <1>3, <2>1, <2>2, ProtocolStands
<1>14. QED
  BY <1>1, <1>4, <1>5, <1>6, <1>7, <1>8, <1>9, <1>10, <1>11, <1>12, <1>13
  DEF Next

THEOREM DeleteInvariance == Spec => []DeleteInv
BY InitHolds, StepHolds, PTL DEF Spec

\* Every variable keeps its type, those of both stores included
\* (payroll-delete-service.ts: the locals of commitPayrollDelete).
THEOREM TypeCorrect == Spec => []TypeOK
<1>1. DeleteInv => TypeOK
  <2>1. SUFFICES ASSUME DeleteInv PROVE TypeOK
    OBVIOUS
  <2>2. Conf!TypeOK
    BY <2>1 DEF DeleteInv, Store!IInv, Store!TypeOK, Conf!TypeOK,
                Store!Reference, Conf!Reference, Store!Binding, Conf!Binding,
                Store!Stash, Conf!Stash, Store!Release, Conf!Release
  <2>3. Guard!TypeOK
    BY <2>1 DEF DeleteInv, Marks!GInv, Marks!TypeOK, Guard!TypeOK,
                Marks!Pass, Guard!Pass
  <2>4. QED
    BY <2>1, <2>2, <2>3
    DEF DeleteInv, ProtocolInv, CallsInv, LocalsTypeOK, TypeOK
<1>2. QED
  BY <1>1, DeleteInvariance, PTL

\* What a commit deletes has the hash of what its own prepare showed, unless
\* it was edited after the revalidation (commitPayrollDelete, FR-017).
THEOREM DeletesWhatWasPreparedHolds == Spec => []DeletesWhatWasPrepared
<1>1. DeleteInv => DeletesWhatWasPrepared
  <2>1. SUFFICES ASSUME DeleteInv, NEW c \in Commits, removed[c] # Absent,
                        ~stale[c]
                 PROVE  /\ shown[reference[c]].transaction
                             = stashed[c].transaction
                        /\ HashTarget(removed[c])
                             = HashTarget(shown[reference[c]].content)
    BY DEF DeletesWhatWasPrepared
  <2>2. removed[c] = current[c] /\ reply[c] # "unsent"
    BY <2>1 DEF DeleteInv, ProtocolInv, RemovedIsCurrent, RemovedIsAnswered,
                Statuses
  <2>3. TargetUnchanged(c) /\ stashed[c] # NoStash
    BY <2>1, <2>2 DEF DeleteInv, ProtocolInv, SentIsRevalidated, BusyHolds
  <2>4. stashed[c] = DeletionOf(shown[reference[c]])
    BY <2>1, <2>3 DEF DeleteInv, ProtocolInv, ReferencesInv, StashesShown
  <2>5. QED
    BY <2>2, <2>3, <2>4 DEF TargetUnchanged, DeletionOf
<1>2. QED
  BY <1>1, DeleteInvariance, PTL

\* An answer that says that nothing was deleted is true, and stays true
\* (submitGuarded and the refusals of commitPayrollDelete).
THEOREM RefusalDeletesNothingHolds == Spec => []RefusalDeletesNothing
<1>1. DeleteInv => RefusalDeletesNothing
  <2>1. SUFFICES ASSUME DeleteInv, NEW c \in Commits, SaysNothingWritten(c)
                 PROVE  removed[c] = Absent /\ reply[c] \notin UnderWay
    BY DEF RefusalDeletesNothing
  <2>2. Unwritten(c)
    BY <2>1 DEF DeleteInv, ProtocolInv, CallsInv, RefusalsAreTrue
  <2>3. QED
    BY <2>1, <2>2 DEF Unwritten, DeleteInv, ProtocolInv, RemovedIsAnswered,
                      UnderWay, Statuses
<1>2. QED
  BY <1>1, DeleteInvariance, PTL

\* Two commits of one process submit the same deletion only more than the
\* window apart (assertNotDuplicate as commitPayrollDelete calls it).
THEOREM SubmissionsApartHolds == Spec => []SubmissionsApart
<1>1. DeleteInv => SubmissionsApart
  BY DEF DeleteInv
<1>2. QED
  BY <1>1, DeleteInvariance, PTL

\* One preview is submitted at most once, in this process or a later one
\* (consumeReference as commitPayrollDelete calls it).
THEOREM OneSubmissionHolds == Spec => []OneSubmissionPerPreview
<1>1. DeleteInv => OneSubmissionPerPreview
  <2>1. SUFFICES ASSUME DeleteInv, NEW c \in Commits, NEW d \in Commits,
                        c # d, reply[c] # "unsent", reply[d] # "unsent"
                 PROVE  reference[c] # reference[d]
    BY DEF OneSubmissionPerPreview
  <2>2. stashed[c] # NoStash
    BY <2>1 DEF DeleteInv, ProtocolInv, BusyHolds
  <2>3. reference[c] # NotShown
    BY <2>1, <2>2 DEF DeleteInv, ProtocolInv, ReferencesInv, StashesShown
  <2>4. QED
    BY <2>1, <2>3 DEF DeleteInv, ProtocolInv, ReferencesInv, ReferencesApart
<1>2. QED
  BY <1>1, DeleteInvariance, PTL

\* What the re-read confirms to be gone is gone, when a scan of the list
\* overlooks no transaction (commitPayrollDelete, its last read).
THEOREM ConfirmedGoneHolds ==
  ASSUME ~ScanMayMiss
  PROVE  Spec => []ConfirmedGoneIsGone
<1>1. DeleteInv => ConfirmedGoneIsGone
  BY DEF DeleteInv, ProtocolInv, GoneIsGone, ConfirmedGoneIsGone
<1>2. QED
  BY <1>1, DeleteInvariance, PTL
-----------------------------------------------------------------------------
(* Every commit is answered.                                               *)

\* A step of a commit takes it to the next await, or to its answer, and moves
\* no other commit.
LEMMA CommitStepsOnward ==
  ASSUME CallsInv, NEW c \in Commits, CommitSteps(c)
  PROVE  Onward(c)
<1>0. CallsTypeOK
  BY DEF CallsInv
<1>1. CASE Revalidates(c)
  BY <1>0, <1>1, GotoProgress
  DEF Revalidates, Onward, Progress, After, Awaiting
<1>2. CASE Decides(c)
  <2>1. at[c] = "revalidated" /\ reply[c] = "unsent"
    BY <1>2 DEF Decides, CallsInv, SentIsPast
  <2>2. CASE Goto(c, "submitting")
    BY <1>0, <2>1, <2>2, GotoProgress
    DEF Onward, Progress, After, Awaiting, Statuses
  <2>3. CASE \E stage, code : Answer(c, stage, code)
    BY <1>0, <2>1, <2>3, AnswerProgress DEF Onward, Progress, After, Awaiting
  <2>4. QED
    BY <1>2, <2>2, <2>3 DEF Decides
<1>3. CASE Deletes(c)
  BY <1>0, <1>3, SendsProgress, SubmitProgress DEF Deletes
<1>4. CASE Rereads(c) \/ ReadFails(c)
  <2>1. at[c] \in {"rereading", "revalidating"}
    BY <1>4 DEF Rereads, ReadFails, RereadFails
  <2>2. \E stage, code : Answer(c, stage, code)
    BY <1>4 DEF Rereads, ReadFails, RereadFails
  <2>3. QED
    BY <1>0, <2>1, <2>2, AnswerProgress DEF Onward, Progress, After, Awaiting
<1>5. QED
  BY <1>1, <1>2, <1>3, <1>4 DEF CommitSteps

\* Nothing else takes a commit back, or out of the order.
LEMMA StepsOnward ==
  ASSUME CallsInv, [Next]_vars, NEW c \in Commits, at[c] # "idle"
  PROVE  Progress(c)' = Progress(c) \/ Progress(c)' \in After(Progress(c))
<1>0. CallsTypeOK
  BY DEF CallsInv
<1>1. CASE UNCHANGED callVars
  BY <1>1 DEF callVars, Progress
<1>2. ASSUME NEW d \in Commits, NEW r, CommitBegins(d, r)
      PROVE  Progress(c)' = Progress(c)
  <2>1. d # c
    BY <1>2 DEF CommitBegins
  <2>2. CASE Goto(d, "revalidating")
    BY <1>0, <2>1, <2>2, GotoProgress
  <2>3. CASE \E stage, code : Answer(d, stage, code)
    BY <1>0, <2>1, <2>3, AnswerProgress
  <2>4. QED
    BY <1>2, <2>2, <2>3 DEF CommitBegins
<1>3. ASSUME NEW d \in Commits, CommitSteps(d)
      PROVE  Progress(c)' = Progress(c) \/ Progress(c)' \in After(Progress(c))
  BY <1>3, CommitStepsOnward DEF Onward
<1>4. ASSUME NEW d \in Commits, NEW status \in Replies, JisrHandles(d, status)
      PROVE  Progress(c)' = Progress(c) \/ Progress(c)' \in After(Progress(c))
  BY <1>0, <1>4, RepliesProgress DEF JisrHandles
<1>5. CASE CallsDie
  BY <1>0, <1>5, DieProgress
<1>6. QED
  BY <1>1, <1>2, <1>3, <1>4, <1>5
  DEF Next, vars, callVars, CommitSteps, PrepareReads, PrepareIssues,
      EditInJisr, Restart, Tick

\* What the theorem assumes of commit c.
Served(c) == Spec /\ Fair(c) /\ []MayStep(c)

\* Fairness ends the await that a commit stands at.
LEMMA AwaitEnds ==
  ASSUME NEW c \in Commits, NEW progress \in AwaitPlaces
  PROVE  Served(c) => Leaves(c, progress)
<1>1. Spec => []CallsInv
  BY DeleteInvariance, PTL DEF DeleteInv, ProtocolInv
<1>2. Progress(c) = progress => Awaiting(c)
  BY DEF Progress, AwaitPlaces, Awaiting
<1>3. CallsInv /\ <<CommitSteps(c)>>_vars /\ Progress(c) = progress
      => ~(Progress(c) = progress)'
  BY CommitStepsOnward DEF Onward, AwaitPlaces, After
<1>4. CallsInv /\ [Next]_vars /\ Progress(c) = progress
      => (Progress(c) = progress)' \/ (Progress(c) \in After(progress))'
  BY <1>2, StepsOnward DEF Awaiting
<1>5. QED
  BY <1>1, <1>2, <1>3, <1>4, PTL DEF Served, Leaves, Spec, Fair, MayStep

LEMMA OneCommitAnswered ==
  ASSUME NEW c \in Commits
  PROVE  Served(c) => (at[c] # "idle" ~> at[c] \in {"answered", "dead"})
<1>1. Spec => []CallsInv
  BY DeleteInvariance, PTL DEF DeleteInv, ProtocolInv
<1>2. Served(c) => LeavesEveryAwait(c)
  BY AwaitEnds DEF LeavesEveryAwait, AwaitPlaces
<1>3. QED
  BY <1>1, <1>2, AwaitsEnd, PTL DEF Served

\* commitPayrollDelete answers its caller (payroll-delete-service.ts), for any
\* number of commits, previews and edits, unless its process ends.  That every
\* await has an exit, CanStep, is what the runs check: ENABLED has no proof
\* rule here.
THEOREM EveryCommitAnsweredHolds == FairSpec /\ []CanStep => EveryCommitAnswered
<1>1. ASSUME NEW c \in Commits
      PROVE  FairSpec /\ []CanStep
             => (at[c] # "idle" ~> at[c] \in {"answered", "dead"})
  <2>1. CanStep => MayStep(c)
    BY DEF CanStep
  <2>2. FairSpec => Spec /\ Fair(c)
    BY DEF FairSpec
  <2>3. Served(c) => (at[c] # "idle" ~> at[c] \in {"answered", "dead"})
    BY OneCommitAnswered
  <2>4. QED
    BY <2>1, <2>2, <2>3, PTL DEF Served
<1>2. QED
  BY <1>1 DEF EveryCommitAnswered
-----------------------------------------------------------------------------
(* The service keeps the promises of its stores.                           *)

\* Every step of the service is one step of the reference store and one of
\* the guard's map, or leaves them alone.
LEMMA StoresStep ==
  DeleteInv /\ [Next]_vars
  => [Store!Next]_(Store!vars) /\ [Marks!Next]_(Marks!vars)
<1>1. SUFFICES ASSUME DeleteInv, [Next]_vars
               PROVE  [Store!Next]_(Store!vars) /\ [Marks!Next]_(Marks!vars)
  OBVIOUS
<1>2. CASE UNCHANGED <<confirmationVars, guardVars>>
  BY <1>2 DEF confirmationVars, guardVars, Store!vars, Marks!vars
<1>3. ASSUME NEW n \in Nonces, PrepareIssues(n)
      PROVE  Store!Next /\ UNCHANGED Marks!vars
  <2> DEFINE hash == HashTarget(shown[n].content)
  <2>1. shown[n] \in Preview
    BY <1>1, <1>3 DEF PrepareIssues, DeleteInv, ProtocolInv, LocalsTypeOK
  <2>2. hash \in Hashes /\ DeletionOf(shown[n]) \in Deletion
    BY <2>1 DEF HashTarget, DeletionOf, Content, Deletion, Preview
  <2>3. Conf!IssueReference(n, BindingFor(hash), DeletionOf(shown[n]))
    BY <1>3 DEF PrepareIssues, DeletionOf
  <2>4. Store!IssueReference(n, BindingFor(hash), DeletionOf(shown[n]))
    BY <2>3 DEF Conf!IssueReference, Store!IssueReference, Conf!Sweep,
                Store!Sweep, Conf!Expired, Store!Expired
  <2>5. UNCHANGED Marks!vars
    BY <1>3, <2>3
    DEF PrepareIssues, Conf!IssueReference, guardVars, Marks!vars
  <2>6. QED
    BY <2>2, <2>4, <2>5, BindingsAreBindings DEF Store!Next
<1>4. ASSUME NEW c \in Commits, NEW r \in issued, CommitBegins(c, r)
      PROVE  [Store!Next]_(Store!vars) /\ UNCHANGED Marks!vars
  <2> DEFINE b == BindingFor(r.binding.targetHash)
  <2>1. CASE Conf!Verdict(r, b) = "ok"
    <3>1. Conf!ConsumeReference(r, b)
      BY <1>4, <2>1 DEF CommitBegins
    <3>2. Store!ConsumeReference(r, b)
      BY <3>1, SameVerdict, SameStashed
      DEF Conf!ConsumeReference, Store!ConsumeReference
    <3>3. b \in Store!Binding
      BY <1>1, BindingsAreBindings
      DEF DeleteInv, Store!IInv, Store!TypeOK, Store!Reference, Store!Binding
    <3>4. UNCHANGED Marks!vars
      BY <1>4, <3>1
      DEF CommitBegins, Conf!ConsumeReference, guardVars, Marks!vars
    <3>5. QED
      BY <3>2, <3>3, <3>4 DEF Store!Next
  <2>2. CASE Conf!Verdict(r, b) # "ok"
    BY <1>4, <2>2
    DEF CommitBegins, confirmationVars, guardVars, Store!vars, Marks!vars
  <2>3. QED
    BY <2>1, <2>2
<1>5. ASSUME NEW c \in Commits, Decides(c)
      PROVE  UNCHANGED Store!vars /\ [Marks!Next]_(Marks!vars)
  <2>1. CASE TargetUnchanged(c)
    <3>1. stashed[c] \in Deletion
      BY <1>1, <1>5
      DEF Decides, DeleteInv, ProtocolInv, BusyHolds, Busy, LocalsTypeOK
    <3>2. Guard!AssertNotDuplicate(c, stashed[c], FALSE)
      BY <1>5, <2>1 DEF Decides
    <3>3. Marks!AssertNotDuplicate(c, stashed[c], FALSE)
      BY <3>2 DEF Guard!AssertNotDuplicate, Marks!AssertNotDuplicate,
                  Guard!Suspected, Marks!Suspected, Guard!Swept, Marks!Swept,
                  Guard!Recent, Marks!Recent
    <3>4. UNCHANGED Store!vars
      BY <1>5, <2>1, <3>2 DEF Decides, Guard!AssertNotDuplicate, Store!vars
    <3>5. QED
      BY <3>1, <3>3, <3>4 DEF Marks!Next
  <2>2. CASE ~TargetUnchanged(c)
    BY <1>5, <2>2 DEF Decides, guardVars, Store!vars, Marks!vars
  <2>3. QED
    BY <2>1, <2>2
<1>6. CASE Restart
  BY <1>6
  DEF Restart, Conf!Restart, Guard!Restart, Store!Restart, Marks!Restart,
      Store!Next, Marks!Next
<1>7. CASE Tick
  BY <1>7
  DEF Tick, Conf!Tick, Guard!Tick, Store!Tick, Marks!Tick, Store!Next,
      Marks!Next
<1>8. QED
  BY <1>1, <1>2, <1>3, <1>4, <1>5, <1>6, <1>7
  DEF Next, vars, confirmationVars, guardVars, PrepareReads, Revalidates,
      Deletes, Rereads, ReadFails, JisrHandles, EditInJisr

\* Whatever commits, edits, late answers and restarts interleave, what the
\* service does to its references is a behaviour of the store by itself, and
\* what it does to the guard's map one of the guard (payroll-delete-service.ts
\* reaches both only through their own functions).
THEOREM StoresRefined == Spec => Store!Spec /\ Marks!Spec
<1>1. Init => Store!Init /\ Marks!Init
  BY DEF Init, Conf!Init, Guard!Init, Store!Init, Marks!Init
<1>2. QED
  BY <1>1, StoresStep, DeleteInvariance, PTL DEF Spec, Store!Spec, Marks!Spec

\* Spec 002's promise, for the whole service: what a commit takes to the
\* deletion was offered by one prepare, exactly as previewed, and is taken
\* once (payroll-delete-service.ts with confirmation-reference.ts).
THEOREM KeepsPreviewedWrite == Spec => Store!ImplementsPreviewedWrite
BY StoresRefined, StoreAssumption, Store!Refinement, PTL

\* The reference that a prepare of the service has answered stays good until
\* it is spent, expires or its process ends (payroll-delete-service.ts).
THEOREM OwnerCanCommitKept == Spec => []Store!OwnerCanCommit
BY StoresRefined, StoreAssumption, Store!OwnerCanCommitHolds, PTL

\* The guard's own promise holds in the service, step by step
\* (payroll-delete-service.ts with duplicate-guard.ts).
THEOREM NoRepeatKept == Spec => Marks!NoUnacknowledgedRepeat
BY StoresRefined, MarksAssumption, Marks!NoRepeatHolds, PTL
-----------------------------------------------------------------------------
(* Seen from its two ends, the service is a controlled write.              *)

Offerings == {[handle |-> r.nonce, target |-> shown[r.nonce].transaction] :
                r \in issued}

Spendings == {[by |-> c, handle |-> reference[c]] :
                c \in {d \in Commits : reference[d] # NotShown}}

Makings == {[by |-> c, target |-> stashed[c].transaction] :
              c \in {d \in Commits : removed[d] # Absent}}

\* What the refinement mapping sees.
seenVars == <<Offerings, Spendings, Requested, Makings, Told>>

EndsKept == UNCHANGED <<Offerings, Spendings, Makings>>

LEMMA MappingIs == Promise!vars = seenVars
BY DEF Promise!vars, seenVars, Offerings, Spendings, Requested, Makings, Told

\* Most steps touch neither the previews, nor what was spent, nor what was
\* deleted.
LEMMA EndsStay ==
  ASSUME UNCHANGED <<issued, shown, reference, stashed, removed>>
  PROVE  EndsKept
BY DEF EndsKept, Offerings, Spendings, Makings

LEMMA HasSpentIs ==
  ASSUME NEW c \in Commits
  PROVE  Promise!HasSpent(c) <=> reference[c] # NotShown
<1>1. \A s \in Spendings : s.by = c => reference[c] # NotShown
  BY DEF Spendings
<1>2. reference[c] # NotShown =>
        /\ [by |-> c, handle |-> reference[c]] \in Spendings
        /\ [by |-> c, handle |-> reference[c]].by = c
  BY DEF Spendings
<1>3. Promise!HasSpent(c) <=> \E s \in Spendings : s.by = c
  BY DEF Promise!HasSpent, Spendings
<1>4. QED
  BY <1>1, <1>2, <1>3

\* A commit that answers, its answer being what it tells.
LEMMA AnswerMaps ==
  ASSUME DeleteInv, DeleteInv', NEW c \in Commits, NEW stage, NEW code,
         Answer(c, stage, code), at[c] \notin {"answered", "dead"},
         stage = "reread" => at[c] = "rereading",
         EndsKept
  PROVE  Promise!Next
<1>1. CallsInv /\ CallsInv'
  BY DEF DeleteInv, ProtocolInv
<1> DEFINE word == ToldOf(c)'
<1>2. /\ Requested[c] = RequestOf(c) /\ Told[c] = "nothing"
      /\ word = IF SaysNothingWritten(c)' THEN "unwritten"
                ELSE IF stage = "reread" THEN "handled" ELSE "unknown"
      /\ Told' = [Told EXCEPT ![c] = word]
      /\ Requested' = [Requested EXCEPT
                         ![c] = IF @ = "unsent" THEN "settled" ELSE @]
      /\ SaysNothingWritten(c)' => RequestOf(c) # "open"
  BY <1>1, AnswerTells DEF Requested, Told
<1> HIDE DEF word
<1>3. Promise!Tells(c, word)
  BY <1>2 DEF Promise!Tells, Requested, Told, EndsKept, Offerings, Makings
<1>4. Spendings' = Spendings
  BY DEF EndsKept
<1>5. CASE SaysNothingWritten(c)'
  <2>1. removed[c] = Absent
    BY <1>5 DEF DeleteInv, ProtocolInv, RemovedIsAnswered, CallsInv,
                RefusalsAreTrue, Unwritten, Answer, Statuses
  <2>2. Promise!Refuses(c)
    BY <1>2, <1>3, <1>4, <1>5, <2>1
    DEF Promise!Refuses, Requested, Spendings
  <2>3. QED
    BY <2>2 DEF Promise!Next
<1>6. CASE ~SaysNothingWritten(c)' /\ stage = "reread"
  <2>1. RequestOf(c) = "settled"
    BY <1>1, <1>6
    DEF CallsInv, RereadIsAccepted, RequestOf, UnderWay, Statuses
  <2>2. Promise!Reports(c)
    BY <1>2, <1>3, <1>4, <1>6, <2>1 DEF Promise!Reports, Requested, Spendings
  <2>3. QED
    BY <2>2 DEF Promise!Next
<1>7. CASE ~SaysNothingWritten(c)' /\ stage # "reread"
  <2>1. Promise!Wonders(c)
    BY <1>2, <1>3, <1>4, <1>7 DEF Promise!Wonders, Spendings
  <2>2. QED
    BY <2>1 DEF Promise!Next
<1>8. QED
  BY <1>5, <1>6, <1>7

\* A prepare's reference is an offer of what the prepare has shown.
LEMMA IssueMaps ==
  ASSUME DeleteInv, NEW n \in Nonces, PrepareIssues(n)
  PROVE  Promise!Next
<1>0. /\ shown[n].transaction \in Transactions
      /\ UNCHANGED <<shown, localVars, callVars, jisrVars>>
  BY DEF PrepareIssues, DeleteInv, ProtocolInv, LocalsTypeOK, Preview
<1>1. PICK t \in Transactions : t = shown[n].transaction
  BY <1>0
<1> DEFINE new == [handle |-> n, target |-> t]
           hash == HashTarget(shown[n].content)
<1>2. /\ \A r \in issued : r.nonce # n
      /\ \E r : r.nonce = n /\ issued' = issued \cup {r}
  <2>1. Conf!IssueReference(n, BindingFor(hash), DeletionOf(shown[n]))
    BY DEF PrepareIssues, DeletionOf
  <2> DEFINE made == [nonce |-> n, binding |-> BindingFor(hash),
                      expiresAt |-> now + TTL, epoch |-> epoch,
                      preview |-> DeletionOf(shown[n])]
  <2>2. issued' = issued \cup {made} /\ \A r \in issued : r.nonce # n
    BY <2>1 DEF Conf!IssueReference
  <2>3. made.nonce = n
    OBVIOUS
  <2> HIDE DEF made
  <2>4. QED
    BY <2>2, <2>3
<1>3. \A o \in Offerings : o.handle # n
  BY <1>2 DEF Offerings
<1>4. Offerings' = Offerings \cup {new}
  BY <1>0, <1>1, <1>2 DEF Offerings
<1>5. UNCHANGED <<Spendings, Makings, Requested, Told>>
  BY <1>0 DEF Spendings, Makings, Requested, Told, RequestOf, ToldOf,
              SaysNothingWritten, localVars, callVars, jisrVars
<1>6. Promise!Offers(n, t)
  BY <1>3, <1>4, <1>5
  DEF Promise!Offers, Offerings, Spendings, Makings, Requested, Told
<1>7. QED
  BY <1>6 DEF Promise!Next

\* A commit that is accepted takes an offer that nobody has taken.
LEMMA ConsumeMaps ==
  ASSUME DeleteInv, NEW c \in Commits, NEW r \in issued,
         CommitBegins(c, r),
         Conf!Verdict(r, BindingFor(r.binding.targetHash)) = "ok"
  PROVE  Promise!Takes(c) /\ Offerings' = Offerings /\ Makings' = Makings
<1> DEFINE o == [handle |-> r.nonce, target |-> shown[r.nonce].transaction]
           s == [by |-> c, handle |-> r.nonce]
<1>1. /\ at[c] = "idle"
      /\ reference' = [reference EXCEPT ![c] = r.nonce]
      /\ stashed' = [stashed EXCEPT ![c] = Conf!Stashed(r.nonce)]
      /\ Conf!ConsumeReference(r, BindingFor(r.binding.targetHash))
      /\ UNCHANGED <<shown, removed>>
  BY DEF CommitBegins, jisrVars
<1>2. issued' = issued
  BY <1>1 DEF Conf!ConsumeReference
<1>3. r.nonce \in Nonces /\ \A g \in released : g.nonce # r.nonce
  BY <1>1, ConsumeKeepsStore DEF DeleteInv
<1>4. r.nonce # NotShown
  BY <1>3, PayrollDeleteAssumption
<1>5. reference[c] = NotShown /\ removed[c] = Absent
  BY <1>1 DEF DeleteInv, ProtocolInv, IdleIsFresh, RemovedIsAnswered,
              CallsInv, SentIsPast, Statuses
<1>6. /\ reference'[c] = r.nonce
      /\ \A d \in Commits \ {c} :
           reference'[d] = reference[d] /\ stashed'[d] = stashed[d]
  BY <1>1 DEF DeleteInv, ProtocolInv, LocalsTypeOK
<1>7. Offerings' = Offerings
  BY <1>1, <1>2 DEF Offerings
<1>8. Makings' = Makings
  BY <1>1, <1>5, <1>6 DEF Makings
<1>9. Spendings' = Spendings \cup {s}
  BY <1>4, <1>5, <1>6 DEF Spendings
<1>10. o \in Offerings /\ o.handle = r.nonce
  BY DEF Offerings
<1>11. \A t \in Spendings : t.handle # r.nonce
  BY <1>3 DEF Spendings, DeleteInv, ProtocolInv, ReferencesInv, ReferencesApart
<1>12. ~Promise!HasSpent(c)
  BY <1>5, HasSpentIs
<1>13. Promise!Takes(c)
  <2> HIDE DEF o
  <2>1. /\ \A t \in Spendings : t.handle # o.handle
        /\ Spendings' = Spendings \cup {[by |-> c, handle |-> o.handle]}
    BY <1>9, <1>10, <1>11
  <2>2. QED
    BY <1>10, <1>12, <2>1 DEF Promise!Takes, Offerings, Spendings
<1>14. QED
  BY <1>7, <1>8, <1>13

LEMMA BeginMaps ==
  ASSUME DeleteInv, DeleteInv', NEW c \in Commits, NEW r \in issued,
         CommitBegins(c, r)
  PROVE  Promise!Next
<1> DEFINE verdict == Conf!Verdict(r, BindingFor(r.binding.targetHash))
<1>1. at[c] = "idle" /\ CallsInv /\ CallsInv'
  BY DEF CommitBegins, DeleteInv, ProtocolInv
<1>2. RequestOf(c) = "unsent" /\ removed[c] = Absent
  BY <1>1 DEF DeleteInv, ProtocolInv, RemovedIsAnswered, CallsInv, SentIsPast,
              RequestOf, UnderWay, Statuses
<1>3. CASE verdict # "ok"
  <2>1. Answer(c, "consume", verdict)
    BY <1>3 DEF CommitBegins
  <2>2. EndsKept
    BY <1>3, EndsStay DEF CommitBegins, confirmationVars, jisrVars
  <2>3. QED
    BY <1>1, <2>1, <2>2, AnswerMaps
<1>4. CASE verdict = "ok" /\ Conf!Stashed(r.nonce) = NoStash
  <2>1. Answer(c, "consume", "WRITE_PREPARATION_EXPIRED")
    BY <1>4 DEF CommitBegins
  <2>2. Promise!Takes(c) /\ Offerings' = Offerings /\ Makings' = Makings
    BY <1>4, ConsumeMaps
  <2>3. SaysNothingWritten(c)'
    <3>1. /\ answer'[c].stage = "consume"
          /\ answer'[c].code = "WRITE_PREPARATION_EXPIRED"
          /\ at'[c] = "answered"
      BY <1>1, <2>1 DEF Answer, AnswerCode, CallsInv, CallsTypeOK
    <3>2. answer'[c] # NoAnswer
      BY <1>1, <3>1 DEF CallsInv, CallsTypeOK
    <3>3. QED
      BY <3>1, <3>2 DEF SaysNothingWritten
  <2>4. /\ Requested[c] = "unsent" /\ Told[c] = "nothing"
        /\ Told' = [Told EXCEPT ![c] = "unwritten"]
        /\ Requested' = [Requested EXCEPT
                           ![c] = IF @ = "unsent" THEN "settled" ELSE @]
    <3>1. /\ ToldOf(c) = "nothing" /\ ToldOf(c)' = "unwritten"
          /\ Told' = [Told EXCEPT ![c] = ToldOf(c)']
          /\ Requested' = [Requested EXCEPT
                             ![c] = IF @ = "unsent" THEN "settled" ELSE @]
      BY <1>1, <2>1, <2>3, AnswerTells
    <3>2. QED
      BY <1>2, <3>1 DEF Requested, Told
  <2>5. Promise!Tells(c, "unwritten")
    BY <2>2, <2>4 DEF Promise!Tells, Requested, Told, Offerings, Makings
  <2>6. Promise!Refuses(c)
    BY <1>2, <2>2, <2>4, <2>5 DEF Promise!Refuses, Requested
  <2>7. QED
    BY <2>6 DEF Promise!Next
<1>5. CASE verdict = "ok" /\ Conf!Stashed(r.nonce) # NoStash
  <2>1. Goto(c, "revalidating")
    BY <1>5 DEF CommitBegins
  <2>2. Promise!Takes(c) /\ Offerings' = Offerings /\ Makings' = Makings
    BY <1>5, ConsumeMaps
  <2>3. Requested' = Requested /\ Told' = Told
    BY <1>1, <2>1, GotoUnseen DEF CallsInv
  <2>4. Requested[c] = "unsent" /\ Told[c] = "nothing"
    BY <1>1, <1>2 DEF Requested, Told, ToldOf, CallsInv, CallsTypeOK
  <2>5. Promise!Spends(c)
    BY <2>2, <2>3, <2>4
    DEF Promise!Spends, Requested, Told, Offerings, Makings
  <2>6. QED
    BY <2>5 DEF Promise!Next
<1>6. QED
  BY <1>3, <1>4, <1>5

\* A request leaves, for a commit that has taken an offer.
LEMMA SendsMaps ==
  ASSUME DeleteInv, NEW c \in Commits, Sends(c), EndsKept
  PROVE  Promise!Next
<1>1. CallsTypeOK /\ at[c] = "submitting"
  BY DEF DeleteInv, ProtocolInv, CallsInv, Sends
<1>2. Promise!HasSpent(c)
  BY <1>1, HasSpentIs
  DEF DeleteInv, ProtocolInv, BusyHolds, Busy, ReferencesInv, StashesShown
<1>3. /\ Requested[c] = "unsent" /\ Told[c] = "nothing"
      /\ Requested' = [Requested EXCEPT ![c] = "open"] /\ Told' = Told
  BY <1>1, SendsOpens DEF Requested, Told
<1>4. Promise!Sends(c)
  BY <1>2, <1>3
  DEF Promise!Sends, EndsKept, Offerings, Spendings, Makings, Requested, Told
<1>5. QED
  BY <1>4 DEF Promise!Next

\* The submission ends: with an answer, or unseen before the last read.
LEMMA SubmitMaps ==
  ASSUME DeleteInv, DeleteInv', NEW c \in Commits, SubmitEnds(c), EndsKept
  PROVE  Promise!Next \/ UNCHANGED seenVars
<1>1. CallsTypeOK /\ at[c] = "submitting"
  BY DEF DeleteInv, ProtocolInv, CallsInv, SubmitEnds
<1>2. CASE Goto(c, "rereading")
  BY <1>1, <1>2, GotoUnseen DEF seenVars, EndsKept
<1>3. CASE \E code : Answer(c, "submit", SubmitGuarded(code))
  BY <1>1, <1>3, AnswerMaps
<1>4. QED
  BY <1>2, <1>3 DEF SubmitEnds

\* What Jisr deletes for a commit is what the commit's offer named.
LEMMA HandlesMaps ==
  ASSUME DeleteInv, NEW c \in Commits, NEW status \in Replies,
         JisrHandles(c, status)
  PROVE  Promise!Next
<1> DEFINE new == [by |-> c, target |-> stashed[c].transaction]
           s == [by |-> c, handle |-> reference[c]]
           o == [handle |-> reference[c],
                 target |-> shown[reference[c]].transaction]
<1>1. /\ CallsTypeOK /\ JisrReplies(c, status)
      /\ reply[c] \in UnderWay
      /\ UNCHANGED <<issued, shown, reference, stashed>>
  BY DEF DeleteInv, ProtocolInv, CallsInv, JisrHandles, JisrReplies,
         confirmationVars, localVars
<1>2. /\ Requested[c] = "open" /\ Told' = Told
      /\ \/ Requested' = [Requested EXCEPT ![c] = "settled"]
         \/ /\ Requested' = [Requested EXCEPT ![c] = "unsent"]
            /\ Told[c] = "nothing" /\ ~MayHaveWritten(status)
  BY <1>1, RepliesSettle DEF Requested, Told
<1>3. Offerings' = Offerings /\ Spendings' = Spendings
  BY <1>1 DEF Offerings, Spendings
<1>4. CASE removed' = removed
  <2>1. Makings' = Makings
    BY <1>1, <1>4 DEF Makings
  <2>2. CASE Requested' = [Requested EXCEPT ![c] = "settled"]
    <3>1. Promise!Settles(c)
      BY <1>2, <1>3, <2>1, <2>2
      DEF Promise!Settles, Offerings, Spendings, Makings, Requested, Told
    <3>2. QED
      BY <3>1 DEF Promise!Next
  <2>3. CASE /\ Requested' = [Requested EXCEPT ![c] = "unsent"]
             /\ Told[c] = "nothing"
    <3>1. Promise!Returns(c)
      BY <1>2, <1>3, <2>1, <2>3
      DEF Promise!Returns, Offerings, Spendings, Makings, Requested, Told
    <3>2. QED
      BY <3>1 DEF Promise!Next
  <2>4. QED
    BY <1>2, <2>2, <2>3
<1>5. CASE /\ MayHaveWritten(status) /\ record[stashed[c].transaction] # Absent
           /\ removed' = [removed EXCEPT
                            ![c] = record[stashed[c].transaction]]
  <2>1. Requested' = [Requested EXCEPT ![c] = "settled"]
    BY <1>2, <1>5
  <2>2. /\ removed'[c] # Absent /\ removed[c] = Absent
        /\ \A d \in Commits \ {c} : removed'[d] = removed[d]
    BY <1>1, <1>5 DEF DeleteInv, ProtocolInv, LocalsTypeOK, RemovedIsAnswered,
                      UnderWay, Statuses
  <2>3. Makings' = Makings \cup {new}
    BY <1>1, <2>2 DEF Makings
  <2>4. /\ stashed[c] # NoStash /\ reference[c] # NotShown
        /\ stashed[c] = DeletionOf(shown[reference[c]])
    BY <1>1 DEF DeleteInv, ProtocolInv, ReferencesInv, BusyHolds, StashesShown,
                UnderWay
  <2>5. PICK r \in issued : r.nonce = reference[c]
    BY <2>4 DEF DeleteInv, ProtocolInv, ReferencesInv, ReferencesApart,
                Store!IInv, Store!ReleasesAccounted
  <2>6. s \in Spendings /\ s.by = c /\ s.handle = reference[c]
    BY <2>4 DEF Spendings
  <2>7. o \in Offerings /\ o.handle = reference[c]
    BY <2>5 DEF Offerings
  <2>8. new = [by |-> c, target |-> o.target]
    BY <2>4 DEF DeletionOf
  <2> HIDE DEF new, s, o
  <2>9. Promise!Settles(c)
    <3>1. \E p \in Spendings, q \in Offerings :
            /\ p.by = c /\ q.handle = p.handle
            /\ Makings' = Makings \cup {[by |-> c, target |-> q.target]}
      BY <2>3, <2>6, <2>7, <2>8
    <3>2. QED
      BY <1>2, <1>3, <2>1, <3>1
      DEF Promise!Settles, Offerings, Spendings, Makings, Requested, Told
  <2>10. QED
    BY <2>9 DEF Promise!Next
<1>6. QED
  BY <1>4, <1>5 DEF JisrHandles

\* The process ends.
LEMMA RestartMaps ==
  ASSUME DeleteInv, Restart
  PROVE  Promise!Next
<1>1. CallsTypeOK /\ CallsDie /\ EndsKept
  BY EndsStay
  DEF DeleteInv, ProtocolInv, CallsInv, Restart, Conf!Restart, localVars,
      jisrVars
<1>2. \A c \in Commits :
        RequestOf(c) = "unsent" => (at[c] # "idle" <=> Promise!HasSpent(c))
  <2>1. SUFFICES ASSUME NEW c \in Commits, RequestOf(c) = "unsent"
                 PROVE  at[c] # "idle" <=> reference[c] # NotShown
    BY HasSpentIs
  <2>2. at[c] \in Busy \cup {"idle"}
    BY <1>1, <2>1 DEF RequestOf, CallsTypeOK, Places, Busy
  <2>3. QED
    BY <2>2 DEF DeleteInv, ProtocolInv, IdleIsFresh, BusyHolds, ReferencesInv,
                StashesShown
<1>3. /\ Told' = Told
      /\ Requested' = [c \in Commits |->
                         IF Requested[c] = "unsent" /\ Promise!HasSpent(c)
                         THEN "settled" ELSE Requested[c]]
  BY <1>1, <1>2, DieStops DEF Requested
<1>4. Promise!Stops
  BY <1>1, <1>3
  DEF Promise!Stops, EndsKept, Offerings, Spendings, Makings, Requested, Told
<1>5. QED
  BY <1>4 DEF Promise!Next

\* A prepare that has only read has offered nothing.
LEMMA ReadsUnseen ==
  ASSUME DeleteInv, NEW n \in Nonces, NEW t \in Transactions,
         NEW spelling \in Spellings, PrepareReads(n, t, spelling)
  PROVE  UNCHANGED seenVars
<1>1. /\ shown[n] = NotShown /\ issued' = issued
      /\ \A m \in Nonces \ {n} : shown'[m] = shown[m]
      /\ UNCHANGED <<localVars, callVars, jisrVars>>
  BY DEF PrepareReads, confirmationVars, DeleteInv, ProtocolInv, LocalsTypeOK
<1>2. \A r \in issued : r.nonce \in Nonces /\ shown[r.nonce] # NotShown
  BY DEF DeleteInv, Store!IInv, Store!TypeOK, Store!Reference, ProtocolInv,
         ReferencesInv, PreviewsShown
<1>3. Offerings' = Offerings
  BY <1>1, <1>2 DEF Offerings
<1>4. UNCHANGED <<Spendings, Makings, Requested, Told>>
  BY <1>1 DEF Spendings, Makings, Requested, Told, RequestOf, ToldOf,
              SaysNothingWritten, localVars, callVars, jisrVars
<1>5. QED
  BY <1>3, <1>4 DEF seenVars

\* Every step of the service is a step of a controlled write, or is not seen.
LEMMA StepMaps ==
  DeleteInv /\ DeleteInv' /\ [Next]_vars => [Promise!Next]_(Promise!vars)
<1>1. SUFFICES ASSUME DeleteInv, DeleteInv', [Next]_vars
               PROVE  Promise!Next \/ UNCHANGED seenVars
  BY MappingIs DEF Promise!vars, seenVars, Offerings, Spendings, Requested,
     Makings, Told
<1>2. ASSUME NEW c \in Commits, Revalidates(c) \/ Decides(c)
      PROVE  Promise!Next \/ UNCHANGED seenVars
  <2>1. /\ EndsKept /\ at[c] \notin {"answered", "dead", "rereading"}
        /\ CallsTypeOK
    BY <1>1, <1>2, EndsStay
    DEF Revalidates, Decides, confirmationVars, localVars, jisrVars,
        DeleteInv, ProtocolInv, CallsInv
  <2>2. CASE \E place \in {"revalidated", "submitting"} : Goto(c, place)
    BY <2>1, <2>2, GotoUnseen DEF seenVars, EndsKept
  <2>3. CASE \E stage \in {"guard", "revalidate"} :
               \E code : Answer(c, stage, code)
    BY <1>1, <2>1, <2>3, AnswerMaps
  <2>4. QED
    BY <1>2, <2>2, <2>3 DEF Revalidates, Decides
<1>3. ASSUME NEW c \in Commits, Deletes(c)
      PROVE  Promise!Next \/ UNCHANGED seenVars
  <2>1. EndsKept
    BY <1>3, EndsStay DEF Deletes, confirmationVars, localVars, jisrVars
  <2>2. QED
    BY <1>1, <1>3, <2>1, SendsMaps, SubmitMaps DEF Deletes
<1>4. ASSUME NEW c \in Commits, Rereads(c) \/ ReadFails(c)
      PROVE  Promise!Next
  <2>1. EndsKept
    BY <1>4, EndsStay
    DEF Rereads, ReadFails, confirmationVars, localVars, jisrVars
  <2>2. CASE at[c] = "rereading" /\ \E code : Answer(c, "reread", code)
    BY <1>1, <2>1, <2>2, AnswerMaps
  <2>3. CASE at[c] = "revalidating" /\ \E code : Answer(c, "revalidate", code)
    BY <1>1, <2>1, <2>3, AnswerMaps
  <2>4. QED
    BY <1>4, <2>2, <2>3 DEF Rereads, ReadFails, RereadFails
<1>5. CASE UNCHANGED <<issued, shown, reference, stashed, removed, callVars>>
  BY <1>5, EndsStay
  DEF EndsKept, seenVars, Requested, Told, RequestOf, ToldOf,
      SaysNothingWritten, callVars
<1>6. ASSUME NEW t \in Transactions, NEW v \in Content \cup {Absent},
             EditInJisr(t, v)
      PROVE  Promise!Next \/ UNCHANGED seenVars
  BY <1>5, <1>6 DEF EditInJisr, confirmationVars, localVars
<1>7. CASE Tick
  BY <1>5, <1>7 DEF Tick, Conf!Tick, localVars, jisrVars
<1>8. CASE UNCHANGED vars
  BY <1>5, <1>8 DEF vars, callVars
<1>9. QED
  BY <1>1, <1>2, <1>3, <1>4, <1>6, <1>7, <1>8, ReadsUnseen, IssueMaps,
     BeginMaps, HandlesMaps, RestartMaps DEF Next

LEMMA InitMaps == Init => Promise!Init
BY DEF Init, Conf!Init, CallsIdle, Promise!Init, RequestOf, ToldOf, UnderWay,
       Statuses

\* From preview to answer the service is a controlled write, for any number of
\* transactions, previews, commits, edits and restarts: it sends only what it
\* spent a preview for, deletes only what that preview named, and a refusal is
\* true for good (payroll-delete-service.ts with submitGuarded and both
\* stores; spec 002, FR-009, FR-010, FR-017).
THEOREM ControlledWriteRefinement == Spec => ImplementsControlledWrite
BY InitMaps, StepMaps, DeleteInvariance, PTL
DEF Spec, ImplementsControlledWrite, Promise!Spec
=============================================================================
