------------------------------- MODULE Reading -------------------------------
(***************************************************************************)
(* The reading side of a process: the traversals of Traversal, the leave   *)
(* summary (src/core/services/leave-service.ts) and the fields that        *)
(* records are returned with.  A leave summary is asked for by employee    *)
(* codes and is put together from several requests, one for each batch of  *)
(* codes, while Jisr's records change between them.  A row of Jisr's list  *)
(* is then the leave record of the person it is named by.                  *)
(***************************************************************************)
EXTENDS Traversal, FieldPolicy

CONSTANTS
  CodeLists,       \* the lists of employee codes asked for
  MaxCodes,        \* MAX_RECORDS_PER_INVOCATION
  BatchSize        \* LEAVE_SUMMARY_MAX_CODES

ASSUME ReadingAssumption ==
  /\ CodeLists \subseteq Seq(People)
  /\ MaxCodes \in Nat
  /\ BatchSize \in Nat \ {0}

VARIABLE summary   \* the leave summary that is being put together

readingVars == <<config, epoch, clock, rows, changes, walk, summary>>

LeaveTool == "jisr_employee_leave_summary_get"

\* Its status or the code it was refused with, the codes and the page size
\* asked for, how many of the codes have been asked of Jisr, the rows that
\* came back (how many, and whose), the warnings of the answer, and the
\* people whose record was there all along and is the caller's to see.
NoSummary == [status |-> "idle", codes |-> <<>>, size |-> 0, asked |-> 0,
              count |-> 0, got |-> {}, warnings |-> {}, expected |-> {}]

Asking == summary.status = "asking"

\* The checks of getLeaveSummary before its first request, in their order.
LeaveVerdict(codes, size) ==
  LET authorization == AuthorizeTool(LeaveTool, config)
  IN  CASE authorization # "available" -> authorization
        [] authorization = "available" /\ codes = <<>> -> "INVALID_FILTER"
        [] /\ authorization = "available" /\ codes # <<>>
           /\ Len(codes) > MaxCodes -> "BULK_LIMIT_EXCEEDED"
        [] /\ authorization = "available" /\ codes # <<>>
           /\ Len(codes) <= MaxCodes /\ ~ValidPageSize(size)
             -> "PAGE_SIZE_EXCEEDED"
        [] OTHER -> "accepted"

\* getLeaveSummary up to its first request.  Bound: a process serves either
\* traversals or summaries, which share nothing but Jisr's list.
AskLeave(codes, size) ==
  /\ ~Asking
  /\ \A w \in Walks : walk[w] = NoWalk
  /\ LET verdict == LeaveVerdict(codes, size)
     IN  summary' =
           IF verdict = "accepted"
           THEN [NoSummary EXCEPT !.status = "asking", !.codes = codes,
                  !.size = size,
                  !.expected = {p \in ToSet(codes) \cap ToSet(rows) :
                                  Reaches(config, p)}]
           ELSE [NoSummary EXCEPT !.status = verdict]
  /\ UNCHANGED vars

\* Mutant: slice(i, size).
SliceToSize(codes, asked) ==
  SubSeq(codes, asked + 1,
         IF BatchSize <= Len(codes) THEN BatchSize ELSE Len(codes))

\* chunk: where the batch after the first `asked` codes ends, and the batch.
BatchEnd(asked, total) ==
  IF asked + BatchSize <= total THEN asked + BatchSize ELSE total

Batch(codes, asked) == SubSeq(codes, asked + 1, BatchEnd(asked, Len(codes)))

\* External: the first page of the leave records of a batch.  The request
\* carries no page number, so it is the only page there is.
LeavePage(batch, size) == UpstreamPage(ToSet(batch), 1, size)

\* Mutant: only an empty answer is called narrowed.
WarnsWhenEmpty(total, asked, count) ==
  {w \in {"BULK_REQUEST_SPLIT"} : asked > BatchSize}
  \cup {w \in {"SCOPE_NARROWED"} : count = 0}

\* The warnings of the answer: it took several requests, or it has fewer rows
\* than codes were asked for.
LeaveWarnings(total, asked, count) ==
  {w \in {"BULK_REQUEST_SPLIT"} : total > BatchSize}
  \cup {w \in {"SCOPE_NARROWED"} : count < total}

\* One batch: Jisr's answer is scoped and added to the rows; after the last
\* one the summary is answered.
LeaveBatch ==
  /\ Asking
  /\ LET total == Len(summary.codes)
         end   == BatchEnd(summary.asked, total)
         kept  == {p \in LeavePage(Batch(summary.codes, summary.asked),
                                   summary.size) :
                     KeepsRow(LeaveTool, p, config)}
         count == summary.count + Cardinality(kept)
     IN  summary' =
           [summary EXCEPT
              !.asked = end,
              !.count = count,
              !.got = @ \cup kept,
              !.status = IF end = total THEN "answered" ELSE "asking",
              !.warnings = IF end = total
                           THEN LeaveWarnings(total, end, count) ELSE {}]
  /\ UNCHANGED vars

\* A request fails: the whole summary does.
LeaveFails ==
  /\ Asking
  /\ summary' = [NoSummary EXCEPT !.status = "failed"]
  /\ UNCHANGED vars

\* A step of a traversal or of Jisr.  A record that goes is not expected any
\* more, and a summary dies with its process.
OtherStep ==
  /\ Next
  /\ walk' # walk => summary = NoSummary
  /\ summary' = IF Asking /\ epoch' # epoch THEN NoSummary
                ELSE [summary EXCEPT !.expected = @ \cap ToSet(rows')]

ReadingInit == Init /\ summary = NoSummary

ReadingNext ==
  \/ \E codes \in CodeLists, size \in Sizes : AskLeave(codes, size)
  \/ LeaveBatch
  \/ LeaveFails
  \/ OtherStep

ReadingSpec == ReadingInit /\ [][ReadingNext]_readingVars
-----------------------------------------------------------------------------
ReadingTypeOK ==
  /\ TypeOK
  /\ summary.status \in {"idle", "asking", "answered", "failed",
                         "INVALID_FILTER", "BULK_LIMIT_EXCEEDED"} \cup Refusals
  /\ summary.codes \in Seq(People)
  /\ summary.size \in Int
  /\ summary.asked \in 0..Len(summary.codes)
  /\ summary.count \in Nat
  /\ summary.got \subseteq People /\ summary.expected \subseteq People
  /\ summary.warnings \subseteq {"BULK_REQUEST_SPLIT", "SCOPE_NARROWED"}

\* leave-service.ts:6-7, "It never silently truncates": whatever the pages,
\* the scope and the changes between the batches have cost, a summary that
\* does not say SCOPE_NARROWED has the row of everybody asked for.
MissingIsSaid ==
  summary.status = "answered" /\ "SCOPE_NARROWED" \notin summary.warnings
  => ToSet(summary.codes) \subseteq summary.got

\* FR-034, FR-018a: a summary whose pages hold its batches has the row of
\* everybody asked for whose record was there all along and who is the
\* caller's to see.  With a smaller page it has not: the rest of a batch is
\* never asked for.  (Of callers scoped by person, see NamesItsRows.)
SummaryIsWhole ==
  /\ summary.status = "answered"
  /\ NamesItsRows(LeaveTool)
  /\ summary.size >= BatchEnd(0, Len(summary.codes))
  => summary.expected \subseteq summary.got

\* FR-028, FR-025, FR-026: whatever fields Jisr sends, a tool that the caller
\* may call returns only fields of the groups that the tool declares.
DeclaredFieldsOnly ==
  \A tool \in MappedTools :
    AuthorizeTool(tool, config) = "available" =>
      \A record \in {Classified(RegistryOf(tool)) \cup {"undocumented"}} :
        \A fields \in ReturnedPage(tool, {record}, config).records :
          fields \subseteq
            UNION {RegistryOf(tool)[class] :
                     class \in DeclaredFieldGroups(tool)
                               \cap DOMAIN RegistryOf(tool)}
=============================================================================
