---------------------------- MODULE PayrollDelete -----------------------------
(***************************************************************************)
(* Deletion of payroll transactions                                        *)
(* (src/core/services/payroll-delete-service.ts): prepare reads a          *)
(* transaction and offers its deletion; commit spends the reference, reads *)
(* the transaction again, passes the duplicate guard, deletes and reads    *)
(* once more.  Every read and the deletion is an await: other commits,     *)
(* people editing in Jisr, the clock and a restart come in between.        *)
(***************************************************************************)
EXTENDS WriteCall, Naturals

CONSTANTS
  Transactions,        \* payroll transactions, by the text of their ids
  Spellings,           \* how an id is given: as a string or as a number
  Hashes,              \* what hashTarget sees of a transaction
  Details,             \* what the preview shows and hashTarget leaves out
  Absent,              \* no such transaction
  Nonces,              \* one for each prepare call
  NotShown,            \* a prepare that has not read its target
  NoStash, NotSeen, NoPass,
  ScanMayMiss,         \* whether a scan can overlook a transaction
  TTL, Window, MaxClock, MaxEpoch,
  MaxEdits             \* bound on the edits made in Jisr

Content == [hashed : Hashes, detail : Details]

\* The guard's key keeps the id as it was given, 7 or "7"; wherever else an id
\* is compared or sent, its text counts.
Deletion == [transaction : Transactions, spelling : Spellings,
             targetHash : Hashes]

\* What a prepare was asked for and has read.
Preview == [transaction : Transactions, spelling : Spellings,
            content : Content, epoch : Nat]

ASSUME PayrollDeleteAssumption ==
  /\ ScanMayMiss \in BOOLEAN
  /\ Absent \notin Content
  /\ {MaxEdits, TTL, Window, MaxClock, MaxEpoch} \subseteq Nat
  /\ NotShown \notin Nonces \cup Preview
  /\ NoStash \notin Deletion \cup [payload : Deletion, expiresAt : Nat]
  /\ NotSeen \notin Nat
  /\ NoPass \notin [key : Deletion, at : Nat, acknowledged : BOOLEAN,
                    epoch : Nat]

VARIABLES
  now, epoch,          \* of both stores below
  consumed, pending, issued, released, latest,      \* Confirmation
  seen, passed,                                     \* DuplicateGuard
  record,              \* Jisr: the transactions as they are
  edits,               \* Jisr: how many edits were made
  shown,               \* what each prepare read, and so previewed
  reference,           \* the nonce each commit spent
  stashed,             \* the local variable `stashed` of each commit
  current,             \* what each commit's revalidation read
  removed,             \* what the commit's deletion removed, for the properties
  stale                \* edited between revalidation and deletion, likewise

confirmationVars == <<now, epoch, consumed, pending, issued, released, latest>>
guardVars == <<seen, passed>>
jisrVars == <<record, edits, removed, stale>>
localVars == <<reference, stashed, current>>
vars == <<now, epoch, consumed, pending, issued, released, latest, seen,
          passed, record, edits, shown, at, reference, stashed, current,
          reply, answer, removed, stale>>

Conf == INSTANCE Confirmation WITH
  Organizations <- {"organization"}, Principals <- {"caller"},
  Operations <- {"deletePayrollTransaction"}, Payloads <- Deletion

Guard == INSTANCE DuplicateGuard WITH Keys <- Deletion

\* Mutant: the target itself where its hash should be.
Unhashed(content) == content

\* hashTarget: JSON.stringify keeps the properties that bear one of the
\* target's own top-level names, which drops most of what is nested in it; the
\* employee named in the preview is not part of the target at all.
HashTarget(content) == content.hashed

BindingFor(hash) ==
  [organizationId |-> "organization", principalRef |-> "caller",
   operationId |-> "deletePayrollTransaction", targetHash |-> hash]

\* findTransaction reads at most SCAN_MAX_PAGES pages of a list that others
\* change as it is read.
Scan(t) == {record[t]} \cup (IF ScanMayMiss THEN {Absent} ELSE {})

-----------------------------------------------------------------------------
Init ==
  /\ Conf!Init
  /\ Guard!Init
  /\ record \in [Transactions -> Content]
  /\ edits = 0
  /\ shown = [n \in Nonces |-> NotShown]
  /\ CallsIdle
  /\ reference = [c \in Commits |-> NotShown]
  /\ stashed = [c \in Commits |-> NoStash]
  /\ current = [c \in Commits |-> Absent]
  /\ removed = [c \in Commits |-> Absent]
  /\ stale = [c \in Commits |-> FALSE]

\* preparePayrollDelete up to the answer of its last read.  A prepare that
\* finds nothing answers RECORD_NOT_FOUND and changes nothing.
PrepareReads(n, t, spelling) ==
  /\ shown[n] = NotShown
  /\ record[t] # Absent
  /\ shown' = [shown EXCEPT ![n] = [transaction |-> t, spelling |-> spelling,
                                    content |-> record[t], epoch |-> epoch]]
  /\ UNCHANGED <<confirmationVars, guardVars, jisrVars, localVars, callVars>>

\* The rest of it: the reference is issued and the preview answered.
PrepareIssues(n) ==
  /\ shown[n] # NotShown
  /\ shown[n].epoch = epoch
  /\ LET hash == HashTarget(shown[n].content)
     IN  Conf!IssueReference(n, BindingFor(hash),
                             [transaction |-> shown[n].transaction,
                              spelling |-> shown[n].spelling,
                              targetHash |-> hash])
  /\ UNCHANGED <<guardVars, jisrVars, shown, localVars, callVars>>

\* commitPayrollDelete up to its first await.  The expected target hash is
\* the one the reference itself claims.
CommitBegins(c, r) ==
  /\ at[c] = "idle"
  /\ LET verdict == Conf!Verdict(r, BindingFor(r.binding.targetHash))
     IN  IF verdict = "ok"
         THEN /\ Conf!ConsumeReference(r, BindingFor(r.binding.targetHash))
              /\ reference' = [reference EXCEPT ![c] = r.nonce]
              /\ stashed' = [stashed EXCEPT ![c] = Conf!Stashed(r.nonce)]
              /\ IF Conf!Stashed(r.nonce) = NoStash
                 THEN Answer(c, "consume", "WRITE_PREPARATION_EXPIRED")
                 ELSE Goto(c, "revalidating")
         ELSE /\ Answer(c, "consume", verdict)
              /\ UNCHANGED <<confirmationVars, reference, stashed>>
  /\ UNCHANGED <<guardVars, jisrVars, shown, current>>

\* The second read of the target, at the moment Jisr answers it.
Revalidates(c) ==
  /\ at[c] = "revalidating"
  /\ \E found \in Scan(stashed[c].transaction) :
       current' = [current EXCEPT ![c] = found]
  /\ stale' = [stale EXCEPT ![c] = FALSE]
  /\ Goto(c, "revalidated")
  /\ UNCHANGED <<confirmationVars, guardVars, shown, reference, stashed,
                 record, edits, removed>>

\* Mutant: the second read only has to find the transaction.
TargetStands(c) == current[c] # Absent

\* What the second read must show for the deletion to go on.
TargetUnchanged(c) ==
  /\ current[c] # Absent
  /\ HashTarget(current[c]) = stashed[c].targetHash

\* From the answer of that read to the next await, in one go: the comparison
\* and the duplicate guard, which this tool never acknowledges.
Decides(c) ==
  /\ at[c] = "revalidated"
  /\ IF TargetUnchanged(c)
     THEN /\ Guard!AssertNotDuplicate(c, stashed[c], FALSE)
          /\ UNCHANGED latest
          /\ IF Guard!Suspected(stashed[c], FALSE)
             THEN Answer(c, "guard", "DUPLICATE_WRITE_SUSPECTED")
             ELSE Goto(c, "submitting")
     ELSE /\ Answer(c, "revalidate",
                    IF current[c] = Absent THEN "RECORD_NOT_FOUND"
                    ELSE "WRITE_TARGET_CHANGED")
          /\ UNCHANGED <<now, epoch, latest, guardVars>>
  /\ UNCHANGED <<consumed, pending, issued, released, jisrVars, shown,
                 localVars>>

\* The deletion is sent, and submitGuarded ends.
Deletes(c) ==
  /\ Sends(c) \/ SubmitEnds(c)
  /\ UNCHANGED <<confirmationVars, guardVars, jisrVars, shown, localVars>>

\* Mutant: the answer of the deletion is taken for its effect.
TakesAcceptedForGone(c) ==
  /\ at[c] = "rereading"
  /\ Answer(c, "reread", "confirmed_gone")
  /\ UNCHANGED <<confirmationVars, guardVars, jisrVars, shown, localVars>>

\* The third read: absence is what confirms the deletion.
Rereads(c) ==
  /\ at[c] = "rereading"
  /\ \E found \in Scan(stashed[c].transaction) :
       Answer(c, "reread", IF found = Absent THEN "confirmed_gone"
                           ELSE "still_visible")
  /\ UNCHANGED <<confirmationVars, guardVars, jisrVars, shown, localVars>>

\* A read that fails leaves the commit with the client's error.
ReadFails(c) ==
  /\ \/ RereadFails(c)
     \/ /\ at[c] = "revalidating"
        /\ \E code \in ReadFailures : Answer(c, "revalidate", code)
  /\ UNCHANGED <<confirmationVars, guardVars, jisrVars, shown, localVars>>

\* External: Jisr handles a deletion.  It may accept one that it does not
\* carry out.
JisrHandles(c, status) ==
  LET t == stashed[c].transaction
  IN  /\ JisrReplies(c, status)
      /\ \/ /\ MayHaveWritten(status)
            /\ record[t] # Absent
            /\ record' = [record EXCEPT ![t] = Absent]
            /\ removed' = [removed EXCEPT ![c] = record[t]]
         \/ UNCHANGED <<record, removed>>
      /\ UNCHANGED <<confirmationVars, guardVars, shown, localVars, edits,
                     stale>>

\* External: somebody edits or removes a transaction in Jisr.
EditInJisr(t, content) ==
  /\ edits < MaxEdits
  /\ record[t] \notin {Absent, content}
  /\ edits' = edits + 1
  /\ record' = [record EXCEPT ![t] = content]
  /\ stale' = [c \in Commits |-> stale[c] \/ removed[c] = Absent]
  /\ UNCHANGED <<confirmationVars, guardVars, shown, localVars, callVars,
                 removed>>

\* A new process.
Restart ==
  /\ Conf!Restart
  /\ Guard!Restart
  /\ CallsDie
  /\ UNCHANGED <<jisrVars, shown, localVars>>

\* The wall clock, which both stores read; the guard needs it not to go back.
Tick ==
  /\ Conf!Tick
  /\ Guard!Tick
  /\ UNCHANGED <<jisrVars, shown, localVars, callVars>>

CommitSteps(c) ==
  Revalidates(c) \/ Decides(c) \/ Deletes(c) \/ Rereads(c) \/ ReadFails(c)

Next ==
  \/ \E n \in Nonces, t \in Transactions, spelling \in Spellings :
       PrepareReads(n, t, spelling)
  \/ \E n \in Nonces : PrepareIssues(n)
  \/ \E c \in Commits, r \in issued : CommitBegins(c, r)
  \/ \E c \in Commits :
       \/ Revalidates(c) \/ Decides(c) \/ Deletes(c)
       \/ Rereads(c) \/ ReadFails(c)
  \/ \E c \in Commits, s \in Replies : JisrHandles(c, s)
  \/ \E t \in Transactions, v \in Content \cup {Absent} : EditInJisr(t, v)
  \/ Restart
  \/ Tick

Spec == Init /\ [][Next]_vars

\* client.request settles within its time limits, and what follows an await
\* runs.
Fair(c) == WF_vars(CommitSteps(c))

FairSpec == Spec /\ \A c \in Commits : Fair(c)

-----------------------------------------------------------------------------
TypeOK ==
  /\ Conf!TypeOK
  /\ Guard!TypeOK
  /\ record \in [Transactions -> Content \cup {Absent}]
  /\ edits \in 0..MaxEdits
  /\ shown \in [Nonces -> Preview \cup {NotShown}]
  /\ CallsTypeOK
  /\ reference \in [Commits -> Nonces \cup {NotShown}]
  /\ stashed \in [Commits -> Deletion \cup {NoStash}]
  /\ current \in [Commits -> Content \cup {Absent}]
  /\ removed \in [Commits -> Content \cup {Absent}]
  /\ stale \in [Commits -> BOOLEAN]

\* FR-017: what a commit deletes has the hash of what its own prepare showed,
\* unless it was edited after the commit had read it the second time.  No
\* other prepare, commit, restart or late request gets in between.
DeletesWhatWasPrepared ==
  \A c \in Commits :
    (removed[c] # Absent /\ ~stale[c])
    => /\ shown[reference[c]].transaction = stashed[c].transaction
       /\ HashTarget(removed[c]) = HashTarget(shown[reference[c]].content)

\* An answer that says that nothing was deleted is true, and stays true: the
\* commit's request has deleted nothing and none is under way.
RefusalDeletesNothing ==
  \A c \in Commits :
    SaysNothingWritten(c) => removed[c] = Absent /\ reply[c] \notin UnderWay

\* "The re-read confirms it is gone" is true, as long as a scan of the list
\* does not overlook a transaction.
ConfirmedGoneIsGone ==
  \A c \in Commits :
    (answer[c] # NoAnswer /\ answer[c].code = "confirmed_gone")
    => record[stashed[c].transaction] = Absent

\* Two commits of one process submit the same deletion, given with the id in
\* the same spelling, only more than the window apart, whatever references
\* they were given.  In another spelling it has another key, and passes.
SubmissionsApart ==
  \A c, d \in Commits :
    (/\ c # d
     /\ passed[c] # NoPass /\ passed[d] # NoPass
     /\ passed[c].key = passed[d].key
     /\ passed[c].epoch = passed[d].epoch)
    => \/ passed[c].at > passed[d].at + Window
       \/ passed[d].at > passed[c].at + Window

\* One preview is submitted at most once, by whichever commit spent its
\* reference, in this process or a later one.
OneSubmissionPerPreview ==
  \A c, d \in Commits :
    (c # d /\ reply[c] # "unsent" /\ reply[d] # "unsent")
    => reference[c] # reference[d]

MayStep(c) == Awaiting(c) => ENABLED <<CommitSteps(c)>>_vars

\* No step of a commit is left without a next one of its own, whatever Jisr
\* withholds and whatever the other commits, the edits and the clock do.
CanStep == \A c \in Commits : MayStep(c)

-----------------------------------------------------------------------------
\* Seen from its two ends, the service is a controlled write: a reference is
\* an offer, and spending it and deleting are what a commit does.
Promise == INSTANCE ControlledWrite WITH
  Handles <- Nonces,
  Targets <- Transactions,
  offered <- {[handle |-> r.nonce,
               target |-> shown[r.nonce].transaction] : r \in issued},
  spent   <- {[by |-> c, handle |-> reference[c]] :
                c \in {d \in Commits : reference[d] # NotShown}},
  request <- [c \in Commits |-> RequestOf(c)],
  made    <- {[by |-> c, target |-> stashed[c].transaction] :
                c \in {d \in Commits : removed[d] # Absent}},
  told    <- [c \in Commits |-> ToldOf(c)]

\* From preview to answer, through restarts, late answers and edits: a commit
\* sends only what it has spent a preview for, no preview is spent twice, only
\* what the preview named is deleted, and a refusal is true for good.
ImplementsControlledWrite == Promise!Spec

-----------------------------------------------------------------------------
\* core/errors.ts: "WRITE_OUTCOME_UNKNOWN is deliberately NOT retryable: the
\* write may have landed, and a retry is a possible double-write."
RetryableMeansUnwritten ==
  \A c \in Commits :
    (answer[c] # NoAnswer /\ answer[c].code \in Retryable)
    => removed[c] = Absent

\* Spec 002, FR-017: prepare previews the target in full, and commit refuses a
\* target that no longer matches the preview.
DeletesWhatWasShown ==
  \A c \in Commits :
    (removed[c] # Absent /\ ~stale[c])
    => removed[c] = shown[reference[c]].content
=============================================================================
