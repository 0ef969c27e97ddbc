------------------------------ MODULE Traversal ------------------------------
(***************************************************************************)
(* Callers that page through Jisr's lists: the list services               *)
(* (src/core/services), the cursors they hand out (src/core/cursor.ts),    *)
(* the translation of upstream pages (src/core/jisr/pagination.ts) and, on *)
(* every page, the authorization and the scope.  Meanwhile Jisr's list     *)
(* changes, cursors expire and the process restarts.                       *)
(*                                                                         *)
(* One call is one step: its input is bound before its only await, nothing *)
(* it has read is shared, and Jisr answers for one instant.  A call that   *)
(* fails upstream changes nothing here and may be repeated.  A row stands  *)
(* for a record, of reference data too, and is named by a person it would  *)
(* belong to.                                                              *)
(***************************************************************************)
EXTENDS Authorization, Integers, Sequences, FiniteSets, SequencesExt

CONSTANTS
  Walks,           \* the callers, each with one traversal at a time
  Tools,           \* the list tools they use
  Filters,         \* the approved filter sets
  Unfiltered,      \* the one without filters
  Matching,        \* External: the people whose row a filter selects
  Sizes,           \* the page sizes asked for
  MaxPageSize,     \* UPSTREAM_MAX_PAGE_SIZE
  NoCursor,        \* nextCursor: null, and an input without a cursor
  TTL,             \* DEFAULT_TTL_MS
  Deployments,     \* the settings a process is started with
  Lists,           \* the contents of the list to start from
  MaxClock, MaxEpoch, MaxChanges, \* bounds
  MaxNamed         \* bound on the pages Jisr names after the last one

ASSUME TraversalAssumption ==
  /\ IsFiniteSet(People) /\ Null \notin Nat
  /\ Matching \in [Filters -> SUBSET People]
  /\ Unfiltered \in Filters
  /\ Sizes \subseteq Int /\ MaxPageSize \in Nat \ {0}
  /\ {TTL, MaxClock, MaxEpoch, MaxChanges, MaxNamed} \subseteq Nat
  /\ Deployments \subseteq Settings
  /\ Tools \cap WriteTools = {}
  /\ \A list \in Lists : list \in Seq(People) /\ IsInjective(list)

VARIABLES
  config,   \* the settings of this deployment
  epoch,    \* the process; each has a SIGNING_KEY of its own
  clock,    \* Date.now()
  rows,     \* Jisr's list
  changes,  \* how often it was changed
  walk      \* each caller's traversal

vars == <<config, epoch, clock, rows, changes, walk>>

\* Lists that take nothing but a page size and a cursor.
TakesNoFilter == LookupTools \cup {"jisr_paygroups_list", "jisr_webhooks_list",
                                   "jisr_gl_transaction_types_list"}

Request == {r \in [tool : Tools, filter : Filters, size : Sizes] :
              r.tool \in TakesNoFilter => r.filter = Unfiltered}

\* A traversal: its status, or the code it was refused with, the cursor it
\* goes on with, the page it came to in how many calls, the people whose rows
\* it returned, and those whose rows it ought to return.
NoWalk == [request |-> Null, status |-> "idle", cursor |-> NoCursor,
           page |-> 0, calls |-> 0, got |-> {}, expected |-> {}]

-----------------------------------------------------------------------------
(* Cursors.                                                                *)

\* Mutant: the page size is not part of the filter set.
HashWithoutSize(request, cursor) ==
  IF request.tool = "jisr_employee_monthly_payables_list"
  THEN <<request.filter, request.size, cursor>>
  ELSE <<request.filter>>

\* hashFilters, of what each service hashes.  listMonthlyPayables spreads its
\* whole input, the cursor included; an absent one is dropped.
HashFilters(request, cursor) ==
  IF request.tool = "jisr_employee_monthly_payables_list"
  THEN <<request.filter, request.size, cursor>>
  ELSE <<request.filter, request.size>>

CursorBinding(request, cursor) ==
  [operation |-> request.tool, filters |-> HashFilters(request, cursor)]

\* An absent cursor is no cursor.
ASSUME NoCursorAssumption ==
  NoCursor \notin [key : Nat, page : Nat, e : Nat,
                  binding : {CursorBinding(r, NoCursor) : r \in Request}]

\* encodeCursor.  One process serves one organization, so the organization is
\* implied by the key.
EncodeCursor(binding, page) ==
  [key |-> epoch, binding |-> binding, page |-> page, e |-> clock + TTL]

\* Mutant: a cursor that is due counts as expired.
ExpiredWhenDue(cursor) == clock >= cursor.e

Expired(cursor) == clock > cursor.e

\* decodeCursor: signature, expiry, binding.
DecodeCursor(cursor, expected) ==
  CASE cursor.key # epoch -> "INVALID_CURSOR"
    [] cursor.key = epoch /\ Expired(cursor) -> "CURSOR_EXPIRED"
    [] /\ cursor.key = epoch /\ ~Expired(cursor)
       /\ cursor.binding # expected -> "INVALID_CURSOR"
    [] OTHER -> "accepted"

-----------------------------------------------------------------------------
(* Pages.                                                                  *)

\* validatePageSize
ValidPageSize(size) == size \in 1..MaxPageSize

\* External: which row of `who` the j-th row of the list is, one page of their
\* rows, and the next_page that goes with it.  After the last page Jisr may
\* send null or name any page, one that has been passed or one past the end.
Rank(who, j) == Cardinality({k \in 1..j : rows[k] \in who})

UpstreamPage(who, page, size) ==
  {rows[j] : j \in {k \in DOMAIN rows : /\ rows[k] \in who
                                       /\ (page - 1) * size < Rank(who, k)
                                       /\ Rank(who, k) <= page * size}}

UpstreamNext(who, page, size) ==
  IF page * size < Rank(who, Len(rows)) THEN {page + 1}
  ELSE {Null} \cup 1..MaxNamed

\* Mutants: Jisr's next_page is followed wherever it leads, and there is
\* always a number.
NextAsTold(next, page) == next

NextOrZero(next, page) == IF next # Null /\ next > page THEN next ELSE 0

\* nextPageFrom
NextPageFrom(next, page) ==
  CASE next = Null -> Null
    [] next # Null /\ next > page -> next
    [] OTHER -> Null

\* What a traversal that ends ought to have returned: the rows there at its
\* start that its caller reaches by the definition of the profiles.
Reaches(s, p) ==
  CASE ReachableScopeFor(s.profile) = "organization" -> TRUE
    [] ReachableScopeFor(s.profile) = "self" -> s.subject = Id(p)
    [] ReachableScopeFor(s.profile) = "direct_reports" ->
         \/ s.subject = Id(p)
         \/ ManagerOf[p] # Null /\ s.subject = Id(ManagerOf[p])
    [] OTHER -> FALSE

Expected(request) ==
  {p \in ToSet(rows) \cap Matching[request.filter] :
     request.tool \in ScopedTools => Reaches(config, p)}

-----------------------------------------------------------------------------
Init ==
  /\ config \in {s \in Deployments : LoadConfig(s)}
  /\ epoch = 0
  /\ clock = 0
  /\ rows \in Lists
  /\ changes = 0
  /\ walk = [w \in Walks |-> NoWalk]

Refusals == {"INVALID_CURSOR", "CURSOR_EXPIRED", "PAGE_SIZE_EXCEEDED",
             "TOOL_NOT_ENABLED", "FINANCE_ACCESS_REQUIRED",
             "JISR_PERMISSION_DENIED"}

\* The rest of a list call from its request to Jisr on: scope the page, and
\* hand out a cursor if there is a next one.
Serve(w, request, cursor, page, before) ==
  LET who == Matching[request.filter]
      kept == {p \in UpstreamPage(who, page, request.size) :
                 request.tool \in ScopedTools
                 => KeepsRow(request.tool, p, config)}
  IN  \E next \in UpstreamNext(who, page, request.size) :
        LET nextPage == NextPageFrom(next, page)
        IN  walk' = [walk EXCEPT ![w] =
              [request  |-> request,
               status   |-> IF nextPage = Null THEN "ended" ELSE "going",
               cursor   |-> IF nextPage = Null THEN NoCursor
                            ELSE EncodeCursor(CursorBinding(request, cursor),
                                              nextPage),
               page     |-> page,
               calls    |-> before.calls + 1,
               got      |-> before.got \cup kept,
               expected |-> before.expected]]

\* The checks of a list call before its request to Jisr, in their order.
Verdict(request, cursor) ==
  LET authorization == AuthorizeTool(request.tool, config)
  IN  CASE authorization # "available" -> authorization
        [] /\ authorization = "available"
           /\ ~ValidPageSize(request.size) -> "PAGE_SIZE_EXCEEDED"
        [] OTHER -> IF cursor = NoCursor THEN "accepted"
                    ELSE DecodeCursor(cursor, CursorBinding(request, cursor))

\* A call without a cursor, at any time: callers may begin anew.
Start(w) ==
  /\ \E request \in Request :
       LET verdict == Verdict(request, NoCursor)
       IN  IF verdict = "accepted"
           THEN Serve(w, request, NoCursor, 1,
                      [NoWalk EXCEPT !.expected = Expected(request)])
           ELSE walk' = [walk EXCEPT ![w] = [NoWalk EXCEPT
                           !.request = request, !.status = verdict]]
  /\ UNCHANGED <<config, epoch, clock, rows, changes>>

\* A call of w with its request and some cursor.
Present(w, cursor) ==
  LET request == walk[w].request
      verdict == Verdict(request, cursor)
  IN  IF verdict = "accepted"
      THEN Serve(w, request, cursor, cursor.page, walk[w])
      ELSE walk' = [walk EXCEPT ![w].status = verdict,
                                ![w].cursor = NoCursor]

\* The cursor of the last answer is passed back unchanged.
Continue(w) ==
  /\ walk[w].status = "going"
  /\ Present(w, walk[w].cursor)
  /\ UNCHANGED <<config, epoch, clock, rows, changes>>

\* The cursor of another request is passed by mistake: any that some other
\* traversal in this process may hold.  Bound: for a page that the people of
\* the organization can come to fill.
Mistake(w) ==
  /\ walk[w].status = "going"
  /\ \E other \in Request \ {walk[w].request}, page \in 2..Cardinality(People),
        e \in clock..clock + TTL :
       /\ ValidPageSize(other.size)
       /\ (page - 1) * other.size < Cardinality(People)
       /\ Present(w, [key |-> epoch, binding |-> CursorBinding(other, NoCursor),
                      page |-> page, e |-> e])
  /\ UNCHANGED <<config, epoch, clock, rows, changes>>

\* External: a row appears anywhere in the list.
Arrives ==
  /\ changes < MaxChanges
  /\ changes' = changes + 1
  /\ \E p \in People \ ToSet(rows), i \in 1..Len(rows) + 1 :
       rows' = InsertAt(rows, i, p)
  /\ UNCHANGED <<config, epoch, clock, walk>>

\* External: a row goes.  The rows behind it move up, and one of them may
\* move to a page that was read already: from here on nothing is promised to
\* the traversals under way.
Leaves ==
  /\ changes < MaxChanges
  /\ changes' = changes + 1
  /\ \E i \in DOMAIN rows : rows' = RemoveAt(rows, i)
  /\ walk' = [w \in Walks |-> IF walk[w].status = "going"
                              THEN [walk[w] EXCEPT !.expected = {}]
                              ELSE walk[w]]
  /\ UNCHANGED <<config, epoch, clock>>

Tick ==
  /\ clock < MaxClock
  /\ clock' = clock + 1
  /\ UNCHANGED <<config, epoch, rows, changes, walk>>

\* A new process with the same settings and a new key.
Restart ==
  /\ epoch < MaxEpoch
  /\ epoch' = epoch + 1
  /\ UNCHANGED <<config, clock, rows, changes, walk>>

Next ==
  \/ \E w \in Walks : Start(w) \/ Continue(w) \/ Mistake(w)
  \/ Arrives \/ Leaves \/ Tick \/ Restart

Spec == Init /\ [][Next]_vars
-----------------------------------------------------------------------------
TypeOK ==
  /\ config \in Deployments
  /\ epoch \in 0..MaxEpoch
  /\ clock \in 0..MaxClock
  /\ changes \in 0..MaxChanges
  /\ rows \in Seq(People)
  /\ \A w \in Walks :
       /\ walk[w].request \in Request \cup {Null}
       /\ walk[w].status \in {"idle", "going", "ended"} \cup Refusals
       /\ IF walk[w].status = "going"
          THEN /\ walk[w].cursor.key \in 0..epoch
               /\ walk[w].cursor.page \in Nat \ {0}
               /\ walk[w].cursor.e \in 0..MaxClock + TTL
          ELSE walk[w].cursor = NoCursor
       /\ walk[w].page \in Nat /\ walk[w].calls \in Nat
       /\ walk[w].got \subseteq People
       /\ walk[w].expected \subseteq People

\* Lists that tell a scoped caller whose rows they are: all but those that
\* name their employee by code, of which a caller known by its UUID gets none.
NamesItsRows(tool) ==
  tool \in KeyedByCode => ReachableScopeFor(config.profile) = "organization"

\* Spec 001, scenario 2 of the first story, and FR-033: a traversal that
\* passes its cursors back and ends has returned every row of its caller that
\* was there all along, although rows were added, cursors of other requests
\* were presented and the process was restarted meanwhile.
WalkIsWhole ==
  \A w \in Walks :
    /\ walk[w].status = "ended"
    /\ NamesItsRows(walk[w].request.tool)
    => walk[w].expected \subseteq walk[w].got

\* A traversal does not come to a page twice, whatever Jisr names as the next
\* one and echoes the page it was asked for.  It need not end: a page named
\* past the end is followed.
EachCallAdvances == \A w \in Walks : walk[w].calls <= walk[w].page

\* FR-018a, FR-023a: a caller only gets rows it reaches, and financial rows
\* only with the finance profile and the surface enabled.
OnlyReachableRows ==
  \A w \in Walks :
    walk[w].got # {} =>
      LET tool == walk[w].request.tool
      IN  /\ tool \in ScopedTools
             => \A p \in walk[w].got : Reaches(config, p)
          /\ tool \in FinanceReads
             => config.profile = "finance" /\ config.finance

\* FR-033: a cursor that its caller passes back unchanged, within its lifetime
\* and to the process that issued it, continues the traversal.
Fresh(w) == /\ walk[w].status = "going"
            /\ walk[w].cursor.key = epoch
            /\ walk[w].cursor.e >= clock

OwnCursorHonoured ==
  [][\A w \in Walks : Fresh(w) /\ Continue(w)
                      => walk'[w].status \notin Refusals]_vars

\* FR-016, FR-018: the capability report says "available" of exactly the
\* tools that are listed and can be called, although other code decides.
GatesAgree ==
  \A tool \in ManifestTools :
    tool \in ListFor(config)
    <=> ResolveCapability(tool, config) = "available"

-----------------------------------------------------------------------------
\* Spec 001, FR-018a: the reachable set of employee_self is "its own records";
\* a traversal that ends has returned the caller's own row.
OwnRowReturned ==
  \A w \in Walks :
    walk[w].status = "ended"
    => \A p \in walk[w].expected :
         config.subject = Id(p) => p \in walk[w].got
=============================================================================
