----------------------------- MODULE RecordCreate -----------------------------
(***************************************************************************)
(* The two services that create records: employees                         *)
(* (src/core/services/employees-write-service.ts) and attendance punches   *)
(* (src/core/services/attendance-write-service.ts).  Both prepare a        *)
(* submission, spend its reference, pass the duplicate guard, submit and   *)
(* look for the record afterwards, and both share one process: one store   *)
(* of references and one guard.  What differs is where a submission comes  *)
(* from and what it is compared with.                                      *)
(***************************************************************************)
EXTENDS WriteCall, Naturals, FiniteSets

CONSTANTS
  Codes,               \* employee codes, by their text
  Spellings,           \* how a code is given: as a string or as a number
  ListedAs,            \* how Jisr gives the codes in its lists
  Labels,              \* an employee's name, or the time of a punch
  Nonces,              \* one for each prepare call
  NotShown,
  NoStash, NotSeen, NoPass,
  EmployeesScanned,    \* what a scan holds: SCAN_MAX_PAGES pages of 100
  PunchesRead,         \* what the re-read of a punch holds: one page
  TTL, Window, MaxClock, MaxEpoch,
  MaxHires             \* bound on the employees others create in Jisr

Operations == {"createEmployee", "createAttendanceLogs"}

\* What the caller asks for: an employee by code and name, or a punch by
\* employee code and time.
Input == [operation : Operations, code : Codes, spelling : Spellings,
          label : Labels]

\* What is sent, and what the guard and the reference go by.  A punch carries
\* an id; an employee has none here.
Submission == [operation : Operations, code : Codes, spelling : Spellings,
               label : Labels, id : 0..MaxClock]

Payload == [submission : Submission, hasDuplicateWarning : BOOLEAN]

\* A record in Jisr, and which commit's request put it there.
Row == [operation : Operations, code : Codes, label : Labels,
        by : Commits \cup {"others"}]

\* What a prepare was asked for, the employees there were and the ones it saw.
Preview == [input : Input, duplicate : BOOLEAN, existing : SUBSET Row,
            scanned : SUBSET Row, epoch : Nat]

ASSUME RecordCreateAssumption ==
  /\ {TTL, Window, MaxClock, MaxEpoch, MaxHires} \subseteq Nat
  /\ {EmployeesScanned, PunchesRead} \subseteq Nat
  /\ ListedAs \in Spellings
  /\ "others" \notin Commits
  /\ NotShown \notin Nonces \cup Row \cup Preview
  /\ NoStash \notin Payload \cup [payload : Payload, expiresAt : Nat]
  /\ NotSeen \notin Nat
  /\ NoPass \notin [key : Submission, at : Nat, acknowledged : BOOLEAN,
                    epoch : Nat]

VARIABLES
  now, epoch,          \* of both stores below
  consumed, pending, issued, released, latest,      \* Confirmation
  seen, passed,                                     \* DuplicateGuard
  rows,                \* Jisr: the records as they are
  hires,               \* Jisr: how many employees others created
  shown,               \* what each prepare read
  reference,           \* the nonce each commit spent
  stashed,             \* the local variable `stashed` of each commit
  tool,                \* which of the two commit tools each commit is
  acknowledged,        \* acknowledgeDuplicates / acknowledgeDuplicate
  reported             \* the record each commit answers as the created one

confirmationVars == <<now, epoch, consumed, pending, issued, released, latest>>
guardVars == <<seen, passed>>
jisrVars == <<rows, hires>>
localVars == <<reference, stashed, tool, acknowledged, reported>>
vars == <<now, epoch, consumed, pending, issued, released, latest, seen,
          passed, rows, hires, shown, at, reference, stashed, tool,
          acknowledged, reported, reply, answer>>

Conf == INSTANCE Confirmation WITH
  Organizations <- {"organization"}, Principals <- {"caller"},
  Hashes <- Submission, Payloads <- Payload

Guard == INSTANCE DuplicateGuard WITH Keys <- Submission

\* Mutant: an id in milliseconds.
ToSubmissionInMilliseconds(input) ==
  [operation |-> input.operation, code |-> input.code,
   spelling |-> input.spelling, label |-> input.label,
   id |-> IF input.operation = "createAttendanceLogs" THEN 1000 * now ELSE 0]

\* toSubmission of an employee copies the input, the code as it was given; a
\* punch has the code as Jisr lists it and an id of its own, the second it was
\* prepared in.
ToSubmission(input) ==
  [operation |-> input.operation, code |-> input.code,
   spelling |-> IF input.operation = "createAttendanceLogs" THEN ListedAs
                ELSE input.spelling,
   label |-> input.label,
   id |-> IF input.operation = "createAttendanceLogs" THEN now ELSE 0]

\* What a record is about, asked for or in Jisr: its code counts by its text.
Subject(x) ==
  [operation |-> x.operation, code |-> x.code, label |-> x.label]

Employees == {row \in rows : row.operation = "createEmployee"}

PunchesAt(time) ==
  {row \in rows : row.operation = "createAttendanceLogs" /\ row.label = time}

\* What a read of a list may bring: all of it where the pages hold it, any part
\* of it where they do not, for Jisr chooses the order, and others add to the
\* list from one page to the next.
Holds(size, list) == Cardinality(list) <= size

Reads(list, size) == IF Holds(size, list) THEN {list} ELSE SUBSET list

\* Mutant: only names are compared.
ResemblesByName(input, row) ==
  row.operation = input.operation /\ row.label = input.label

\* findDuplicates: an employee with the same code, or with the same name.
Resembles(input, row) ==
  /\ row.operation = input.operation
  /\ row.code = input.code \/ row.label = input.label

\* Only employees are compared with what Jisr holds, as far as it was scanned.
HasDuplicate(input, scanned) ==
  /\ input.operation = "createEmployee"
  /\ \E row \in scanned : Resembles(input, row)

\* findEmployeeByCode: a punch is for an employee that the scan comes to.
EmployeeFound(input, scanned) ==
  \E row \in scanned : row.code = input.code

BindingFor(submission) ==
  [organizationId |-> "organization", principalRef |-> "caller",
   operationId |-> submission.operation, targetHash |-> submission]

\* The re-reads: the employees, or the punches of the minute; of either, what
\* has the code.
FoundAgain(submission) ==
  LET lists == IF submission.operation = "createEmployee"
               THEN Reads(Employees, EmployeesScanned)
               ELSE Reads(PunchesAt(submission.label), PunchesRead)
  IN  {{row \in list : row.code = submission.code} : list \in lists}

-----------------------------------------------------------------------------
Init ==
  /\ Conf!Init
  /\ Guard!Init
  /\ CallsIdle
  /\ rows = {}
  /\ hires = 0
  /\ shown = [n \in Nonces |-> NotShown]
  /\ reference = [c \in Commits |-> NotShown]
  /\ stashed = [c \in Commits |-> NoStash]
  /\ tool = [c \in Commits |-> "none"]
  /\ acknowledged = [c \in Commits |-> FALSE]
  /\ reported = [c \in Commits |-> NotShown]

\* prepareEmployeeCreate and preparePunchCreate up to the answer of their last
\* read, the scan for duplicates or for the employee.  A prepare that is
\* refused changes nothing.
PrepareReads(n, input) ==
  /\ shown[n] = NotShown
  /\ \E scanned \in Reads(Employees, EmployeesScanned) :
       /\ input.operation = "createAttendanceLogs" =>
            EmployeeFound(input, scanned)
       /\ shown' = [shown EXCEPT ![n] =
                      [input |-> input,
                       duplicate |-> HasDuplicate(input, scanned),
                       existing |-> Employees, scanned |-> scanned,
                       epoch |-> epoch]]
  /\ UNCHANGED <<confirmationVars, guardVars, jisrVars, localVars, callVars>>

\* The rest of them: the submission is fixed and its reference issued.
PrepareIssues(n) ==
  /\ shown[n] # NotShown
  /\ shown[n].epoch = epoch
  /\ LET submission == ToSubmission(shown[n].input)
     IN  Conf!IssueReference(n, BindingFor(submission),
           [submission |-> submission,
            hasDuplicateWarning |-> shown[n].duplicate])
  /\ UNCHANGED <<guardVars, jisrVars, shown, localVars, callVars>>

\* Mutant: a commit that never asks for the acknowledgement.
IgnoresWarning(payload, ack) == FALSE

\* An employee the preview warned about needs acknowledgeDuplicates.
WarningStands(payload, ack) == payload.hasDuplicateWarning /\ ~ack

\* commitEmployeeCreate or commitPunchCreate up to its first await: the
\* reference is spent, the warning and the guard are passed, in one go.
CommitBegins(c, operation, r, ack) ==
  LET expected == [BindingFor(r.binding.targetHash) EXCEPT
                     !.operationId = operation]
      verdict == Conf!Verdict(r, expected)
      payload == Conf!Stashed(r.nonce)
  IN  /\ at[c] = "idle"
      /\ IF verdict # "ok"
         THEN /\ Answer(c, "consume", verdict)
              /\ UNCHANGED <<confirmationVars, guardVars, reference, stashed>>
         ELSE /\ Conf!ConsumeReference(r, expected)
              /\ reference' = [reference EXCEPT ![c] = r.nonce]
              /\ stashed' = [stashed EXCEPT ![c] = payload]
              /\ IF payload = NoStash
                 THEN /\ Answer(c, "consume", "WRITE_PREPARATION_EXPIRED")
                      /\ UNCHANGED guardVars
                 ELSE IF WarningStands(payload, ack)
                 THEN /\ Answer(c, "warning", "DUPLICATE_WRITE_SUSPECTED")
                      /\ UNCHANGED guardVars
                 ELSE /\ Guard!AssertNotDuplicate(c, payload.submission, ack)
                      /\ IF Guard!Suspected(payload.submission, ack)
                         THEN Answer(c, "guard", "DUPLICATE_WRITE_SUSPECTED")
                         ELSE Goto(c, "submitting")
      /\ tool' = [tool EXCEPT ![c] = operation]
      /\ acknowledged' = [acknowledged EXCEPT ![c] = ack]
      /\ UNCHANGED <<jisrVars, shown, reported>>

\* The record is sent, and submitGuarded ends.
Submits(c) ==
  /\ Sends(c) \/ SubmitEnds(c)
  /\ UNCHANGED <<confirmationVars, guardVars, jisrVars, shown, localVars>>

\* The record is looked for, and the commit answers: with the id of the first
\* one that is found, whichever Jisr lists first.
Rereads(c) ==
  /\ \/ RereadFails(c) /\ UNCHANGED reported
     \/ /\ at[c] = "rereading"
        /\ \E found \in FoundAgain(stashed[c].submission) :
             IF found = {}
             THEN Answer(c, "reread", "not_visible") /\ UNCHANGED reported
             ELSE /\ Answer(c, "reread", "created")
                  /\ \E row \in found :
                       reported' = [reported EXCEPT ![c] = row]
  /\ UNCHANGED <<confirmationVars, guardVars, jisrVars, shown, reference,
                 stashed, tool, acknowledged>>

\* External: Jisr handles a submission.
JisrHandles(c, status) ==
  LET s == stashed[c].submission
  IN  /\ JisrReplies(c, status)
      /\ \/ /\ MayHaveWritten(status)
            /\ rows' = rows \cup {[operation |-> tool[c], code |-> s.code,
                                   label |-> s.label, by |-> c]}
         \/ /\ MayHaveRefused(status)
            /\ UNCHANGED rows
      /\ UNCHANGED <<confirmationVars, guardVars, shown, localVars, hires>>

\* External: somebody creates an employee in Jisr.
HireInJisr(code, label) ==
  /\ hires < MaxHires
  /\ hires' = hires + 1
  /\ rows' = rows \cup {[operation |-> "createEmployee", code |-> code,
                         label |-> label, by |-> "others"]}
  /\ UNCHANGED <<confirmationVars, guardVars, shown, localVars, callVars>>

\* A new process.
Restart ==
  /\ Conf!Restart
  /\ Guard!Restart
  /\ CallsDie
  /\ UNCHANGED <<jisrVars, shown, localVars>>

\* The wall clock, in seconds.
Tick ==
  /\ Conf!Tick
  /\ Guard!Tick
  /\ UNCHANGED <<jisrVars, shown, localVars, callVars>>

Next ==
  \/ \E n \in Nonces, input \in Input : PrepareReads(n, input)
  \/ \E n \in Nonces : PrepareIssues(n)
  \/ \E c \in Commits, o \in Operations, r \in issued, ack \in BOOLEAN :
       CommitBegins(c, o, r, ack)
  \/ \E c \in Commits : Submits(c) \/ Rereads(c)
  \/ \E c \in Commits, s \in Replies : JisrHandles(c, s)
  \/ \E code \in Codes, label \in Labels : HireInJisr(code, label)
  \/ Restart
  \/ Tick

Spec == Init /\ [][Next]_vars

CommitSteps(c) == Submits(c) \/ Rereads(c)

\* client.request settles within its time limits, and what follows an await
\* runs.
Fair(c) == WF_vars(CommitSteps(c))

FairSpec == Spec /\ \A c \in Commits : Fair(c)

-----------------------------------------------------------------------------
Written(c) == \E row \in rows : row.by = c

TypeOK ==
  /\ Conf!TypeOK
  /\ Guard!TypeOK
  /\ CallsTypeOK
  /\ hires \in 0..MaxHires
  /\ rows \subseteq Row
  /\ shown \in [Nonces -> Preview \cup {NotShown}]
  /\ reference \in [Commits -> Nonces \cup {NotShown}]
  /\ stashed \in [Commits -> Payload \cup {NoStash}]
  /\ tool \in [Commits -> Operations \cup {"none"}]
  /\ acknowledged \in [Commits -> BOOLEAN]
  /\ reported \in [Commits -> Row \cup {NotShown}]

\* The prepare did not come to this employee, of more than a scan can hold.
Overlooked(prepared, row) ==
  /\ row \notin prepared.scanned
  /\ ~Holds(EmployeesScanned, prepared.existing)

\* FR-015: whom an employee created without an acknowledgement resembles, of
\* those who were in Jisr when the creation was prepared, by whatever commit,
\* late request or hand, its scan had overlooked.  In an organization that the
\* scan holds there is nobody.
UnacknowledgedIsNew ==
  \A c \in Commits :
    (/\ Written(c)
     /\ stashed[c].submission.operation = "createEmployee"
     /\ ~acknowledged[c])
    => LET prepared == shown[reference[c]]
       IN  \A row \in prepared.existing :
             (\/ row.code = stashed[c].submission.code
              \/ row.label = stashed[c].submission.label)
             => Overlooked(prepared, row)

\* SC-004: the record that an unacknowledged creation of an employee reports
\* as created was not in Jisr when the creation was prepared, although it is
\* looked for by its code alone: only where the scan had overlooked somebody
\* with that code may it be that employee.
ReportsNewRecord ==
  \A c \in Commits :
    (/\ reported[c] # NotShown
     /\ stashed[c].submission.operation = "createEmployee"
     /\ ~acknowledged[c])
    => LET prepared == shown[reference[c]]
       IN  reported[c] \in prepared.existing
           => Overlooked(prepared, reported[c])

\* Of two commits of one process that send the same bytes within the window,
\* one was acknowledged.
RepeatIsAcknowledged ==
  \A c, d \in Commits :
    (/\ c # d
     /\ passed[c] # NoPass /\ passed[d] # NoPass
     /\ passed[c].key = passed[d].key
     /\ passed[c].epoch = passed[d].epoch)
    => \/ passed[c].at > passed[d].at + Window
       \/ passed[d].at > passed[c].at + Window
       \/ acknowledged[c] \/ acknowledged[d]

\* An answer that says that nothing was written is true, and stays true.
RefusalWritesNothing ==
  \A c \in Commits :
    SaysNothingWritten(c) => ~Written(c) /\ reply[c] \notin UnderWay

\* A reference creates a record through its own tool only, and the record is
\* the one its prepare was asked for.
CreatesWhatWasPrepared ==
  \A c \in Commits, row \in rows :
    row.by = c =>
      /\ Subject(shown[reference[c]].input) = Subject(row)
      /\ \A d \in Commits : (d # c /\ Written(d))
                            => reference[d] # reference[c]

MayStep(c) == Awaiting(c) => ENABLED <<CommitSteps(c)>>_vars

\* No step of a commit is left without a next one of its own.
CanStep == \A c \in Commits : MayStep(c)

-----------------------------------------------------------------------------
\* Seen from its two ends, either service is a controlled write: a reference
\* is an offer, and spending it and creating a record are what a commit does.
Promise == INSTANCE ControlledWrite WITH
  Handles <- Nonces,
  Targets <- [operation : Operations, code : Codes, label : Labels],
  offered <- {[handle |-> r.nonce,
               target |-> Subject(shown[r.nonce].input)] : r \in issued},
  spent   <- {[by |-> c, handle |-> reference[c]] :
                c \in {d \in Commits : reference[d] # NotShown}},
  request <- [c \in Commits |-> RequestOf(c)],
  made    <- {[by |-> row.by, target |-> Subject(row)] :
                row \in {r \in rows : r.by \in Commits}},
  told    <- [c \in Commits |-> ToldOf(c)]

\* From preview to answer, through restarts and late answers: a commit sends
\* only what it has spent a preview for, no preview is spent twice, only what
\* was asked for at the preview is created, by its own tool, and a refusal is
\* true for good.
ImplementsControlledWrite == Promise!Spec

-----------------------------------------------------------------------------
\* Spec 002, FR-007: "a duplicate commit MUST be detected and refused by the
\* server itself": two punches of one employee at one time, committed by one
\* process within the window and neither acknowledged.
NoSilentDoublePunch ==
  \A c, d \in Commits :
    (/\ c # d /\ Written(c) /\ Written(d)
     /\ stashed[c].submission.operation = "createAttendanceLogs"
     /\ stashed[c].submission.code = stashed[d].submission.code
     /\ stashed[c].submission.label = stashed[d].submission.label
     /\ stashed[d].submission.operation = "createAttendanceLogs"
     /\ passed[c].epoch = passed[d].epoch
     /\ passed[c].at <= passed[d].at
     /\ passed[d].at <= passed[c].at + Window)
    => acknowledged[c] \/ acknowledged[d]
=============================================================================
