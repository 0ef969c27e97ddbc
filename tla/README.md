# jisr-mcp in TLA+

jisr-mcp is a Model Context Protocol server over the Jisr HR Open API. It
reads employees, attendance, leave and payroll, and since feature 002 it can
write three things: create an employee, record an attendance punch, delete a
payroll transaction. This directory holds TLA+ models of the part where
mistakes are expensive and tests reach least: the two-step write protocol, the
guard against duplicate writes, the upstream client, and how they run together
when tool calls interleave, Jisr answers late, people edit the same records and
the process restarts; what the audit trail says of it afterwards; and the
reading side, where callers page through lists that change, within what their
profile allows.

Paths below are relative to the repository (`src/core/...` is the code; where
`PROJECT.json` says `src/src/core/...` the first `src` is the checkout).

## The system

One Node process serves one organization and one configured principal over
stdio. There are no threads: concurrency is asynchronous tool calls that
interleave at every `await`. All state is in memory, so a restart loses it.
Jisr itself is outside: other people use it, and a request may be carried out
after the client stopped waiting for it.

| Component | Source | State | Operations | What is hard | What makes it correct |
|---|---|---|---|---|---|
| Confirmation references | core/writes/confirmation.ts | `consumed`, `pending`, the signing key | issueReference, consumeReference | replay, restart, expiry boundary, sweeps by other callers | one use; the owner is never refused without reason; what is released is what was previewed |
| Duplicate guard | core/writes/duplicate-guard.ts | `seen` | assertNotDuplicate | sweep and test in one call, window boundary, restart | no unacknowledged repeat within the window |
| Outcome and codes | core/writes/outcome.ts, core/jisr/errors.ts, core/errors.ts | none | submitGuarded, mapUpstreamStatus | which failures are ambiguous | nothing definite is said that may be false |
| Jisr client, token cache | core/jisr/client.ts, core/jisr/authentication.ts | `#tokens`, `#lastSuccess`, `#lastError` | request, authenticate, getToken | one cache for concurrent calls, revoked tokens, one retry, lost and late answers | one write per call; own key only; a stale token never surfaces; every call ends |
| Payroll deletion | core/services/payroll-delete-service.ts | locals across four awaits | prepare, commit | the target changes between preview, second read and deletion | only what was prepared is deleted, once by each reference; a refusal deletes nothing |
| Employee creation | core/services/employees-write-service.ts | locals | prepare, commit | the duplicate warning is older than the commit; the re-read goes by the code; both scan five pages at most | unacknowledged means new, as far as a scan sees; a repeat needs an acknowledgement; the id reported is the new record's |
| Punch creation | core/services/attendance-write-service.ts | locals | prepare, commit | the same punch prepared twice | a repeat needs an acknowledgement |
| Tool invocation, audit | adapters/shared.ts, observability/ | metrics, the trail on stderr | invokeTool | errors after success; raw errors; redaction that may drop a line | one line per answered call; what the trail says of a write is true; the counters agree with it |
| Authorization | core/authorization/ | none after start-up | authorizeTool, isToolDiscoverable, scopeToReachable | several gates, two decision paths for writes | listed means callable; the capability report agrees with the decision |
| Cursors, pagination | core/cursor.ts, core/jisr/pagination.ts | signed tokens | encodeCursor, decodeCursor, nextPageFrom | the list changes under the traversal | a traversal of a stable list returns each record once |
| Read services | core/services/*-service.ts | locals across the batches | one list or summary each | page by page, batch by batch, partial results | no silent truncation |
| Field policy, mappers | core/authorization/field-policy.ts, core/jisr/mappers/ | none | filtering and renaming of fields | two classifications, two maps, seven profiles | no field outside the groups the tool declares |
| Configuration, flags | config/ | none after start-up | loadConfig | | |
| Registry, adapters, entry point | core/tools/registry.ts, adapters/, bin/ | the tool map | register, listFor | | the listed tools are the authorized ones |
| Manifest, schemas | core/jisr/endpoint-manifest.ts, core/jisr/schemas/ | none | static data, parsing | | pinned by the repository's snapshot tests |

How they interact: an adapter calls `invokeTool`, which runs a handler; a write
handler is authorized, then calls confirmation.ts, the guard and, through
`submitGuarded`, the client; the client calls Jisr with a token of the shared
cache. Everything between two awaits is atomic; `confirmation.ts` and
`duplicate-guard.ts` are synchronous, so each of their functions is one step.

## The modules

| Module | Models | Kind |
|---|---|---|
| `PreviewedWrite` | what spec 002 promises of a prepare and a commit | abstract specification |
| `ControlledWrite` | what spec 002 promises of a write from its preview to Jisr and to the caller | abstract specification |
| `Confirmation` | core/writes/confirmation.ts | component; refines `PreviewedWrite` |
| `DuplicateGuard` | core/writes/duplicate-guard.ts | component |
| `RequestOutcome` | core/errors.ts, core/jisr/errors.ts, core/writes/outcome.ts | operators |
| `WriteCall` | the common end of the three commits | operators and variables the services extend |
| `Submission` | what a commit relies on while it awaits a guarded submission | abstract specification |
| `JisrClient` | core/jisr/client.ts, core/jisr/authentication.ts | component; refines `Submission` |
| `PayrollDelete`, `MCPayrollDelete` | payroll-delete-service.ts with `Confirmation` and `DuplicateGuard` | composition, and its instance for TLC; refines `ControlledWrite` |
| `RecordCreate` | employees-write-service.ts and attendance-write-service.ts in one process | composition of `WriteCall` and the stores; refines `ControlledWrite` |
| `Invocation`, `MCInvocation` | adapters/shared.ts and observability/ around `RecordCreate` and other calls | composition, and its instance for TLC |
| `Authorization` | config/environment.ts, core/authorization/, the manifest's profiles, the registry's list | operators over the settings of a process |
| `FieldPolicy` | core/authorization/field-policy.ts, core/jisr/mappers/, the field groups of core/tools/ | operators |
| `Traversal`, `MCTraversal` | core/cursor.ts, core/jisr/pagination.ts and the list services, under `Authorization` | composition, and its instance for TLC |
| `Reading`, `MCReading` | `Traversal` with leave-service.ts and `FieldPolicy` | composition, and its instance for TLC |
| `ConfirmationProofs`, `DuplicateGuardProofs`, `JisrClientProofs`, `WriteCallProofs`, `PayrollDeleteProofs`, `CreateProofs`, `TraversalProofs`, `ReadingProofs` | | theorems |

### Confirmation

A reference is a record of what its token says: nonce, binding, expiry, and the
process (`epoch`) whose key signed it. Nonces are drawn from a set and never
twice (96 random bits). `consumed` and `pending` are the two tables of the
code. `issued` and `released` record what was returned; only properties read
them, and so does the choice of a token to present, since any token once
returned may be presented at any time. `Verdict` is the list of checks in the
code's order. `hashTarget` is a member of `Hashes` here. The clock may be set
back (`SetBack`): `Date.now()` is the wall clock.

Tokens that no process issued are left out: their HMAC does not verify, which
is the first check, as for a token of an earlier process.

### DuplicateGuard

`AssertNotDuplicate` is the whole function: read, sweep, test, stamp. The clock
of this module only advances. With a clock that jumps forward the window is
shorter in real time, and one that is set back refuses more; both are
properties of `Date.now()` and no code here could change them.

### RequestOutcome, JisrClient

A call is a sequence of awaits: authenticate, send, and once more both. `Begin`
to `Unreachable` are what the code does from one await to the next. The network
is the pair `attempts`: each send is unsent, travelling, or has a status. The
status is what Jisr decided; the client may read it (`Receive`) or give up
first (`Unreachable`). `written` counts how often Jisr carried the call's write
out. A 2xx body may fail its schema (JISR_RESPONSE_INVALID) or not be JSON (a
raw error). Jisr may revoke any token at any time (`Revoke`).

External behaviour is assumed in two places: a 4xx answer means that nothing
was written, and a 2xx that it was; a 5xx or an unexpected status may mean
either.

The services do not contain the client. They contain what it looks like from
outside, `WriteCall`: a request that leaves (`Sends`), is answered by Jisr
(`Replied`) or not, and ends in one of the ways that fit what the network has
done with it (`Ends`). A 401 on the first send leaves the request `rejected`,
from where it is sent once more or ends with what the authentication throws.
`Submission` is that part of `WriteCall` as a specification of its own, with no
token, no cache and no other call in it, and `ImplementsSubmission` says that
every call of `JisrClient` is one: its two sends are one request (`Request`), its
end is what the commit answers (`AnswerOf`), and everything that happens on the
token cache is a stutter. So what is shown of the services with
`Sends` and `SubmitEnds` holds with the client in their place, and a code that
the client learned to throw would show as a broken refinement.

### WriteCall, PayrollDelete, RecordCreate

`at[c]` is the await at which commit `c` stands. Each action runs from an
await's answer to the next await; a read takes effect when Jisr answers it and
its result is used in a later step (`Revalidates`, then `Decides`), so an edit
may come in between. `reply[c]` is the write request as the network sees it.
An answer is a step and a code: two refusals may share a code and differ in
their words. `SaysNothingWritten` names the answers whose words say that
nothing was written.

In `PayrollDelete` a transaction has a part that `hashTarget` sees (`hashed`)
and one that it drops but the preview shows (`detail`), because the code passes
the target's own property names to `JSON.stringify` as a filter. The reason and
the pay period of a preparation are left out; both pass through unchanged.
`findTransaction` reads pages: `Scan` returns the transaction, and with
`ScanMayMiss` it may also overlook it. The tool takes the id as a string or a
number, so a preparation has a `spelling`: `findTransaction` and the request go
by the id's text, that is by the transaction, and the guard's key, the JSON of
the payload, by the id as it was given. `7` and `"7"` are one transaction and
two keys.

In `RecordCreate` employees and punches share the store and the guard, as in
the process. A label stands for an employee's name or for the time of a punch;
the employee and the punch tools differ in `ToSubmission` (the punch gets the
second of its preparation as an id), in what a preparation looks for (an
employee like this one; the employee of the punch) and in the duplicate
warning, which only employees have. The target hash of a flat submission covers
it whole, so the hash is the submission. A code has a `spelling` here as well: a
new employee's is submitted, hashed and kept by the guard as it was given, a
punch's as Jisr lists it (`ListedAs`), and records are compared by its text
(`Subject`).

Lists are read up to a limit (`Reads`): the scan for duplicates, the search for a
punch's employee and the re-read of an employee stop after five pages of 100
(`EmployeesScanned`), a limitation that the code names (research W5); the re-read
of a punch is one page of its minute (`PunchesRead`). A list that the pages hold
is read whole; of a longer one any part may be read, for Jisr orders it and
others add to it meanwhile. `PrepareReads` keeps both, the employees there were
(`existing`) and those that the scan came to (`scanned`). A list that is read
whole is read at one instant, and nobody removes an employee.

A record says which commit's request put it there (`by`): the re-read reports the
first employee with the code, which is any of those it finds (`Rereads`).

Left out because they can only refuse a preparation, which changes nothing: the
resolution of lookup ids, the zone and month of a punch, the checks of the
reason's text.

Restarts end every call in progress (`CallsDie`); what was sent travels on.

### ControlledWrite

`ControlledWrite` is both services seen from their two ends, without clock,
store, guard or network. A preview offers a target. A commit spends an offer
that no other commit has spent, and only then sends. Jisr carries out the
target offered, once, perhaps after the answer. The answer is "unwritten",
"handled" or "unknown", and who is told "unwritten" is told the truth for good:
from then on nothing is sent for this commit and nothing is made. A restart
ends what was not sent.

`ImplementsControlledWrite` maps each service to it. The offers are the
references issued, each with what its prepare was asked for; the spent ones are
the commits' `reference`; what was made is `removed` or the `rows` that carry a
commit's name; the request is `RequestOf`, which joins the two sends of the
client into one that may be returned in between; the word told is `ToldOf`,
which sorts the answers by what they say of the write. Reads, edits in Jisr,
the clock, the guard and the re-reads are stutters, and so is an expired or
swept stash: a commit that finds none spends its offer and refuses.

### Invocation

`invokeTool` awaits its handler and nothing else, so the last step of a call and
the record of its end are one step (`CreationStep`): what `RecordCreate` answers
becomes one of three ends (`Ending`), a line of the trail and a count. The
write's context is on the record only when the call succeeded. Calls of other
tools, and prepares that are refused, are `OtherCall`; a call of a tool that is
not registered (`UnknownTool`) leaves no record. As a bound, each takes the
place of a prepare.

A text is the number of its pieces that have the shape of a secret: the patterns
of redaction.ts have no `g` flag, so `RedactString` takes one piece away, and
`AssertNoSecrets` finds what is left. A line that is still unsafe is dropped
(`Emitted`). The `end` of a record is what the call adds; the fields that are the
same for every call of a process (organization, principal, versions) are left
out, as are durations, the depth limit of `redact` and the keys whose names
look like secrets. logger.ts puts its lines through the same two functions.

### Authorization, Traversal

`Authorization` holds the decisions, which keep no state: `LoadConfig` says
which settings a process starts with, `AuthorizeTool` decides a call and
`ListFor` the tools listed, `ResolveCapability` is what the capability report
says, `KeepsRow` is `scopeToReachable` on the row of one person. The code
decides a write by WRITE_TOOL_GATES when it is listed or called and by the
manifest when it is reported, so both tables are translated, each from its own
lines. Two gates stand open: `disabledDomains` and the observed permissions of
the key, which no process that `bin/` starts ever fills.

`Traversal` follows callers through a list. A list call is one step: its input
is bound before its one await, it shares nothing, and Jisr answers for one
instant. A cursor is a record of what it says, with the process that signed
it; one process serves one organization, so the organization is implied by the
key, and ORGANIZATION_MISMATCH cannot arise. `Start` is a call without cursor,
`Continue` passes the last one back, `Mistake` passes one of another request.
All the lists share the one course `Verdict`, `Serve`; they differ in what they
hash (`HashFilters`), whether and by what their rows are scoped (`ScopedTools`,
`Identify`) and who may use them. A row stands for a record and is named by a
person. Jisr is outside: it orders the rows of a filter, sends pages by number
and gives the page it was asked for as `current_page`, with which pagination.ts
compares `next_page`. After the last page `next_page` may be absent or name any
page, one already passed or one past the end (up to `MaxNamed`, a bound): the
code follows the latter, each time it is named. A UUID never equals a code, and Jisr's
`line_manager` is taken for a UUID, which the code notes as an open dependency
(reachability.ts:47-51). `expected` and `got` are read by properties only: what a
traversal ought to return is fixed at its start from the definition of the
profiles, `Reaches`, and not from the code's comparison.

### FieldPolicy, Reading

`FieldPolicy` holds the two classifications, the maps of the two mappers and the
groups that the tools declare, each copied from its own table in the code, and
`ApplyFieldPolicy` as the code computes it: a field passes if an allowed class
has it, whether anybody maps it is decided later, and a field nobody classified
is withheld and reported. A record is the set of its fields with a value.

`Reading` adds the leave summary to the traversals. A summary is several
requests, one for each batch of at most `LEAVE_SUMMARY_MAX_CODES` codes
(`LeaveBatch`), and Jisr's list may change between them. Each request asks for
the first page only, of the page size the caller gave. A process serves either
traversals or summaries at a time: they share nothing but Jisr's list.
`expected`, read by properties only, is fixed when the summary is asked for and
loses the records that go.

## The runs

| Run | Checks | Distinct states |
|---|---|---|
| `confirmation` | SingleUse, OwnerCanCommit, ImplementsPreviewedWrite | 594,580 |
| `duplicate_guard` | NoUnacknowledgedRepeat | 131,340 |
| `jisr_client` | TypeOK, AtMostOneWrite, DefiniteAnswersTrue, OwnKeyOnly, StaleTokenNeverSurfaces, CanSettle, ImplementsSubmission, EveryCallAnswered | 312,396 |
| `payroll_delete` | TypeOK, DeletesWhatWasPrepared, RefusalDeletesNothing, ConfirmedGoneIsGone, SubmissionsApart, CanStep, EveryCommitAnswered, ImplementsControlledWrite | 551,416 |
| `record_create` | InvocationTypeOK, UnacknowledgedIsNew, ReportsNewRecord, RepeatIsAcknowledged, RefusalWritesNothing, CanStep, AuditedUnlessUnsafe, TrailIsTrue, CommitsFollowPrepares, CountsAgree, ImplementsControlledWrite | 1,609,379 |
| `traversal` | ReadingTypeOK, WalkIsWhole, EachCallAdvances, OnlyReachableRows, GatesAgree, MissingIsSaid, SummaryIsWhole, DeclaredFieldsOnly, OwnCursorHonoured | 142,276 |

What they show, beyond the names. `SubmissionsApart` is about one spelling of the
id; two spellings pass the guard together, and the run contains that.
`UnacknowledgedIsNew` and `ReportsNewRecord` say that whoever an unacknowledged
creation resembles, or reports in place of the new employee, was not in Jisr at
the prepare, or belongs to a list longer than a scan, which overlooked them. In
an organization that a scan holds, the exception falls away. `TrailIsTrue` says
which readings of a commit's line are safe: a success was accepted by Jisr for
the target it names; a refusal by a code that no read fails with was followed by
no write, then or later. Of the other denials nothing is claimed
(`MayHideAWrite`): a landed write is recorded like them, see below.
`CommitsFollowPrepares` is what a reader of the
trail alone may conclude. `CountsAgree` says that the counters show the lines
that were dropped. `MissingIsSaid` is the promise never to truncate silently,
over scope, page size and changes between batches; `SummaryIsWhole` says when a
summary is not short at all. `DeclaredFieldsOnly` relates three tables that
nothing in the code compares. `CanSettle` and `CanStep` say that at every await
something the runtime is bound to do can end it, whatever Jisr withholds; the
liveness theorems rest on them. `ImplementsControlledWrite` joins the two ends of a write over
all of its interleavings, for each service.

Three properties that earlier runs checked are theorems only, since what they
say is contained in what is checked: `OneSubmissionPerPreview` and
`CreatesWhatWasPrepared` in `ImplementsControlledWrite`, the type invariant of
`Confirmation` in that of `PayrollDelete`, which instantiates it.

Every property has a mutant: a definition with a plausible slip (the definitions
under "Mutant:" comments), with which TLC finds the property violated.

Bounds, and why they are enough to make the interesting cases happen:

- `confirmation`: two nonces, two organizations, principals and hashes, a
  lifetime of one tick on a clock of three, two processes. A reference expires,
  is swept by the other's issue, is replayed, outlives its process, and the
  clock returns to before its expiry.
- `duplicate_guard`: two keys, three commits, a window of two ticks on a clock
  of five, two processes: first, repeat, repeat after the repeat, with the
  boundary and a sweep by the other key.
- `jisr_client`: two calls, both keys, every status: two calls race for one
  slot or use different ones, each with up to two authentications and sends.
  Nothing else is bounded.
- `payroll_delete`: one transaction with two contents, two prepares, two
  commits, one edit, a clock of two instants with a lifetime and a window of
  zero, so that a reference and a guard mark each have an instant inside and one
  outside, one restart. Two commits meet at every pair of awaits, and one may
  use the other's reference. Scans overlook nothing here (`ScanMayMiss` is
  FALSE): with pages by number a row can slip past a scan, and then
  ConfirmedGoneIsGone fails whatever the code does. Jisr answers with success,
  a 401 or a server error: carried out, rejected and sent again, unknown. An id
  may be given in either spelling. Commits, prepares, hashes and spellings are
  interchangeable, so `FirstNamesFirst` leaves the behaviours in which the first
  of each has the first name; unlike SYMMETRY this is sound for liveness too.
- `record_create` (MCInvocation.cfg): one code in one spelling and two names or
  times, two prepares and two commits, one hire by others, one restart, a window
  and a lifetime of zero on a clock of two instants, so that two equal writes
  fall inside and outside the window and a reference may expire. A scan and the
  re-read of a punch hold one row: with none or one there they are whole, with
  two anything may be overlooked. A read fails with the code that a refused
  submission has too, as in the code. One prepare's reason has one piece that
  looks like a secret and the other's has two, so a line is cleaned and a line is
  dropped; the former is the first prepare to be read (`FirstPrepareFirst`), which
  makes no difference to employees. Jisr answers with success or a refusal, late
  or never; the resend after a 401 is in `payroll_delete`. Symmetry is used
  on commits and names, so only safety and `CanStep` are checked there; that
  every commit is answered is proved from them for creations.
- `traversal` (Reading.cfg): three people, one managed by another who is managed by the
  third, page sizes one and two of at most two (and three, to be refused), two
  filters, two lists to start from, one change, a lifetime of one tick on a
  clock of two, one restart, every accepted deployment of the seven profiles.
  A list scoped by UUID, one keyed by code, a financial one and one without
  filters: up to three pages, with an insertion before, in or behind the page
  reached. After the last page Jisr names either of the first two, the second of
  which may lie past the end. One caller suffices, since calls share nothing but the list and the
  clock; what others hold comes in through `Mistake`. Summaries
  have batches of two codes and at most three codes: none, one batch, two
  batches, a code twice, one code too many; with pages of one row a batch does
  not fit, with pages of two it does.

Deadlock checking is off where a bounded system stops (all calls answered, all
clocks at their bound).

Fairness: `JisrClient!FairSpec` assumes weak fairness of what follows an await:
every fetch settles. `send` sets `AbortSignal.timeout`, and for `authenticate`,
which sets none, the runtime's own limits are relied upon. Jisr is not fair: it
need never answer. `PayrollDelete!FairSpec` and `RecordCreate!FairSpec` assume the
same for a commit. It is
assumed of each call by itself (`Fair`), as a promise settles by itself.

## Where the code and its documents disagree

Six runs expect a violation.

- `write_landed`: the second send and `response.json()` in client.ts throw raw
  errors, which pass `submitGuarded` and are answered JISR_RESPONSE_INVALID
  ("The request could not be completed."), where outcome.ts:4-6 and FR-009
  promise that an ambiguous outcome is reported as one.
- `payroll_retry`: a failed re-read after a deletion is answered with a code
  marked retryable, which core/errors.ts:73-74 says must not be.
- `payroll_shown`: parts of the preview are not covered by the target's hash,
  so a changed target may be deleted, against FR-017.
- `double_punch`: a punch prepared twice has two ids and so two guard keys;
  duplicate-guard.ts:7-8 and the spec's scenario 5 promise to catch it.
- `payables_cursor`: the monthly payables list hashes its whole input as its
  filters, the cursor included, so the cursor it hands out is always refused
  when passed back (finance-service.ts:41), against tools/finance/index.ts:30.
- `own_row`: rows that carry an employee code are compared with a subject that
  must be a UUID, so employees never get their own attendance row, against
  FR-018a. `WalkIsWhole` therefore promises nothing of these lists to callers
  who are scoped by person (`NamesItsRows`).

Met while reading, not run:

- Every audit record of a write carries `reference.slice(0, 8)`, to correlate a
  prepare with its commit (audit.ts:37). The reference begins with the base64url
  of `{"organizationId"`, so these eight characters are the same for all
  references (confirmation.ts:64-77).
- A commit that is refused, of unknown outcome, or fails at its re-read is
  audited as deny/refused without target and reason (shared.ts:107-122), even
  where the write landed, against FR-010, FR-019 and SC-007. Where the re-read
  fails with JISR_RATE_LIMITED, say, the line is the one of a refused submission:
  nothing in the trail tells a write that landed from one that was refused.
  `TrailIsTrue` states what may be concluded from the other lines.
- A deletion prepared once as `7` and once as `"7"` has two keys
  (payroll-delete.ts:26-27, payroll-delete-service.ts:189-194,
  duplicate-guard.ts:18-21) and passes the guard twice within the window, against
  duplicate-guard.ts:7-8 and FR-007. Between the two stands only the second
  read, which finds the transaction gone if the first has been carried out.
  Employee codes are taken in both spellings too, as `1` and `"1"`.
- A `next_page` beyond the end of the list is followed, and the next one too
  (pagination.ts:66-68): no call ends such a traversal.
- A reason with two secret-shaped pieces drops the whole line of its prepare and
  of its commit (`AuditedUnlessUnsafe`): FR-029 is kept at the cost of FR-038. A
  call of an unknown tool leaves no line either.
- `authorizationDenials` counts every refusal and `upstreamErrors` the denials
  too (`CountsAgree` says so), against the words of FR-040.
- The data catalog asks `resolveAllCapabilities`, which knows the manifest's
  tools only: the prepare tools and the two discovery tools, which are listed,
  are missing from it. The attendance summary declares internal fields only but
  returns a name.
- Leave: rows beyond the first page of a batch, and codes given twice, are
  reported as SCOPE_NARROWED, a scope that nobody narrowed (leave-service.ts:6-7
  and FR-034). The tool's rows are named by code, so callers scoped by person get
  none.
- envelope.ts:32 announces that withheld fields are said; the webhook mapper
  drops secrets without FIELDS_REDACTED, and classified fields nobody maps are
  dropped without a word.
- `from > to` of the attendance logs compares zoned timestamps as strings.
- The month of a punch is its local one, compared with the month in UTC
  (attendance-write-service.ts:59-65), where FR-013a asks for the organization's
  time: in the first hours of a month a punch of the present moment is refused
  east of Greenwich.
- Pages are scoped after Jisr has cut them (employees-service.ts:105), so a
  scoped caller may be handed empty pages and a count of removed rows, where
  FR-018a asks for the scope before pagination.
- The capability report says FINANCE_ACCESS_REQUIRED of the deletion where the
  call says JISR_PERMISSION_DENIED. A response without `pagination` ends a
  traversal silently (pagination.ts:66).
- The refusal for an employee warning tells the caller to commit again with an
  acknowledgement although the reference has been consumed. A refused submission
  keeps its guard mark, and for deletions nothing can acknowledge it.
- `toolListCacheScope` (registry.ts:158) does not contain the write flags.

## What is proved

The theorems hold for every value of the constants under the modules' named
assumptions: `ConfirmationAssumption`, `DuplicateGuardAssumption`,
`JisrClientAssumption`, `WriteCallAssumption`, `PayrollDeleteAssumption`,
`RecordCreateAssumption`, `InvocationAssumption`, `AuthorizationAssumption`,
`IdentifierAssumption`, `TraversalAssumption`, `NoCursorAssumption`,
`ReadingAssumption`. They say that bounds are naturals, that the employees are
finitely many, that the "absent" values are no ordinary values (`Null` is no
identifier), that nobody has two rows in a list, and that the tools under
traversal are reads. TLC evaluates them in the runs. Every invariant and action
property of the passing runs is proved but `CanSettle` and `CanStep`, and so
are their four refinements; the liveness properties are proved from these two
invariants; two more proofs have a condition, named below.

- `ConfirmationProofs`: `TypeCorrect`, `SingleUseHolds`, `OwnerCanCommitHolds`
  and `Refinement` (`Spec => ImplementsPreviewedWrite`), all from one inductive
  invariant, `IInv`. SingleUse alone is not inductive: a released reference of
  this process must be known to be in `consumed`, and one of an earlier process
  to carry another epoch than the one running; OwnerCanCommit needs that an
  unreleased, unexpired reference of this process has exactly its preview in
  `pending`; the refinement needs that a nonce names one reference.
- `DuplicateGuardProofs`: `TypeCorrect` and `NoRepeatHolds`. The invariant says
  that for every pass of this process either its key's stamp is at least as
  late, or the pass is already more than the window old, and that no stamp is
  in the future.
- `JisrClientProofs`: `TypeCorrect`, `AtMostOneWriteHolds`,
  `DefiniteAnswersTrueHolds`, `OwnKeyOnlyHolds`, `StaleTokenNeverSurfacesHolds`,
  `Refinement` (`Spec => ImplementsSubmission`) and `EveryCallAnsweredHolds`. The
  invariant orders the two sends (the
  second only after a 401 of the first), ties `written` to the last send, ties
  the outcome to it, and says that a slot of the cache only holds tokens of its
  own key. The refinement is proved action by action: what happens on the cache
  is a stutter, and the order of the sends gives the rest.
- `WriteCallProofs` has one lemma for each step the commits share: it keeps
  `CallsInv`, which says that a request that has left belongs to a commit that
  got as far as sending it, that an answer denying the write is true, and that a
  commit re-reads only what Jisr has accepted (`RereadIsAccepted`). Then come the
  two arguments that do not depend on the service, each stated once: that a
  commit which stays at no await is answered (`LeavesEveryAwait`, `AwaitsEnd`),
  and to which step of `ControlledWrite` each step of a commit maps (`AnswerTells`,
  `SendsOpens`, `GotoUnseen`, `RepliesSettle`, `DieStops`).
- `PayrollDeleteProofs` and `CreateProofs` instantiate the proofs of the two
  stores (`Store`, `Marks`): every step of the composition is a step of each
  store or leaves it alone (`StoresRefined`), so their invariants need no second
  proof, and what is promised of a store alone is kept among concurrent commits:
  `KeepsPreviewedWrite`, `OwnerCanCommitKept`, `NoRepeatKept` are proved for the
  deletions and for the creations. No run states these three of the
  compositions; they follow from what the stores' own runs and theorems state.
  What is new is between the parts. For deletions (`DeleteInv`): what a commit holds is
  what its reference's prepare has shown; no two commits have spent one
  reference; a deletion is sent only after the second read found the target
  unchanged; and what that read found stands until somebody edits it, so
  what is removed is what was read, or was edited in between (`stale`). For
  creations (`CreateInv`): a preview warns exactly of what its prepare has read;
  what is sent has passed the warning; a record put there by a commit is the one
  that commit held, under its own tool. `UnacknowledgedIsNewHolds` and
  `ReportsNewRecordHolds` are for any length of a scan and any list: a scan that
  could hold the list has seen everybody in it. `SubmissionsApartHolds` is about
  submissions with one key, that is, one spelling. `ConfirmedGoneHolds` has the
  condition `~ScanMayMiss`: otherwise the property is false, see the bounds.
- `ControlledWriteRefinement`, in both modules, proves `Spec => Promise!Spec`
  action by action. Most actions are a stutter or one step. Two are not obvious.
  A commit's beginning may spend its offer, refuse without one, or do both at
  once; that the offer is free comes from the store's invariant, that what it
  accepts was never released, and from `ReferencesInv`, that a commit's reference
  was. An answer after the submission must tell what is
  so: `CallsInv` gives that a denial has no open request and no write behind it,
  `RereadIsAccepted` that "handled" is said only of a request Jisr has answered.
  So what the parts promise separately, one use, the target, a true refusal, is
  proved of the whole, restarts and late answers included.
- The second half of `CreateProofs` is about `Invocation` and rests on
  `TrailInv`: a line belongs to the call and the process that made it and says
  how that call ended. `TrailIsTrueHolds` joins it to what the commits' end
  guarantees: `RefusalWritesNothing` for a refusal, and `RereadIsAccepted` for a
  success. `CommitsFollowPreparesHolds` maps every successful commit
  line to the prepare line of its reference and shows that the map is
  one-to-one, because a reference is spent once.
- `TraversalProofs`: `EachCallAdvancesHolds`, `OnlyReachableRowsHolds`,
  `GatesAgreeHolds`, and `CursorsHonoured` of every list but that of the payables,
  where it is false; `OwnCursorHonouredHolds` is its consequence for sets of
  tools without that list. The invariant says of every traversal under
  way that it was authorized and that its cursor points beyond the page reached
  and is bound to its own request; the step from it is that bindings of
  different requests differ (`BindingsDiffer`), so a mistaken cursor never moves
  a traversal. `KeptIsReached` and `CommitsAgree` compare the code's two
  decisions with each other and with the definition of the profiles.
- `ReadingProofs`: `WalkIsWholeHolds`, from the invariant that a row expected
  was returned already or lies behind the pages read (`Behind`). Each page
  returns the rows at its ranks, a rank being the number of the filter's rows up
  to a place of the list; an insertion never lowers the rank of a row that is
  there. (When a row goes, nothing more is promised, see `Leaves`.)
  `MissingIsSaidHolds` and `SummaryIsWholeHolds` rest on an account of the batches
  done (`SInv`): a batch brings at most one row for each of its codes, so a
  summary with as many rows as codes has them all. Three theorems say what a
  traversal cannot do (`LInv`): ask for more pages than the organization's people
  fill, as long as Jisr names none beyond them (`CallsAreBounded`, under
  `[]NamesWithinReach`, for the code would follow it); get beyond the first
  page of the payables (`PayablesEndAtPageOne`); or bring a scoped caller a row of
  a list keyed by code (`CodeListsBringNothing`). The last two say of every
  organization what the runs `payables_cursor` and `own_row` show by example. `DeclaredFieldsOnlyHolds` goes
  through the classes: those a caller of a tool may have are declared by it.

Liveness is proved up to `ENABLED`, for which the prover has no rule.
`EveryCallAnsweredHolds` and, for deletions and for creations,
`EveryCommitAnsweredHolds` say

    FairSpec /\ []CanSettle => EveryCallAnswered
    FairSpec /\ []CanStep   => EveryCommitAnswered

for any number of calls and commits. `CanSettle` and `CanStep` are where
`ENABLED` stands: no await is without an exit. The runs check them as
invariants in every reachable state of their instances. From there the argument is a proof:
nothing but the call itself moves it, each of its steps leads to a place further
on in a chain without cycles (`Onward`; `Progress`, `After`), so it stays at none
of them for ever (`AwaitEnds`) and comes to the last (`OneCallAnswered`,
`OneCommitAnswered`). The proof treats one call, for its own fairness, whatever
the others do.

Model-checked only: `CanSettle` and `CanStep`, and the six runs that expect a
violation. What a recursive definition computes for every input is out of this
prover's reach too; no module here declares a RECURSIVE operator.

## Not modelled

`PROJECT.json` lists the components with what is left out of each. What remains
has no state that outlives a call and no order of steps, and unit or snapshot
tests reach it:

- URL building, query and body encoding, headers (endpoint-manifest.ts,
  client.ts): pinned by the repository's snapshot tests. A body that fails its
  schema is an outcome of `JisrClient`; which bodies do is left out.
- The checks of input text: dates, zones and the month of a punch, the reason's
  length, lookup ids. They refuse a call before it changes anything.
- The reads of one record and the mapping of rows other than employees and
  webhooks: one request, one check, and a copy of fields.
- The data catalog, summary texts, the tools' descriptions and input shapes.
- logger.ts beyond the redaction it shares with the audit sink.
- The adapters' calls of the two SDKs, the entry point, and the reading of
  environment variables: they pass values on to code that is modelled or external.
- scripts/: documentation generators and repository checks, no part of the server.

The limits of the models: the clock of the guard only advances; a list is read
at one instant except by `findTransaction` (`ScanMayMiss`), by scans of more
employees than they hold (`Reads`), and by the paged and batched reads of
`Traversal` and `Reading`; two employees added during one scan, the first missed
and the second seen, are therefore left out; Jisr's 2xx and 4xx are taken to be
true; and what two processes at once would do is left out, since state is in
memory and one process serves one principal.
