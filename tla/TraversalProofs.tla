--------------------------- MODULE TraversalProofs ---------------------------
(***************************************************************************)
(* Proofs about traversals, for every organization, every list and every   *)
(* way it changes, every deployment and any number of callers.             *)
(***************************************************************************)
EXTENDS Traversal, FiniteSetTheorems, TLAPS

Payables == "jisr_employee_monthly_payables_list"

\* Every traversal is a record of these fields; only some of them are typed.
Shaped(w) ==
  walk[w] = [request  |-> walk[w].request,  status |-> walk[w].status,
             cursor   |-> walk[w].cursor,   page   |-> walk[w].page,
             calls    |-> walk[w].calls,    got    |-> walk[w].got,
             expected |-> walk[w].expected]

\* Every call has come to a page of its own.
Counted(w) ==
  /\ walk[w].page \in Nat
  /\ walk[w].calls \in Nat
  /\ walk[w].calls <= walk[w].page

\* What a traversal returned is its caller's to see.
Permitted(w) ==
  /\ walk[w].request.tool \in ScopedTools
       => \A p \in walk[w].got : Reaches(config, p)
  /\ walk[w].got # {} /\ walk[w].request.tool \in FinanceReads
       => config.profile = "finance" /\ config.finance

\* A traversal under way was authorized, and holds a cursor to a page further
\* on, which its own request will find bound to itself.
Resumable(w) ==
  walk[w].status = "going" =>
    /\ walk[w].request \in Request
    /\ AuthorizeTool(walk[w].request.tool, config) = "available"
    /\ ValidPageSize(walk[w].request.size)
    /\ walk[w].cursor.page \in Nat
    /\ walk[w].cursor.page > walk[w].page
    /\ walk[w].cursor.e \in Nat
    /\ walk[w].request.tool # Payables =>
         walk[w].cursor.binding = CursorBinding(walk[w].request, NoCursor)

Process ==
  /\ config \in Settings
  /\ epoch \in Nat
  /\ clock \in Nat

IInv ==
  /\ Process
  /\ walk = [w \in Walks |-> walk[w]]
  /\ \A w \in Walks : Shaped(w) /\ Counted(w) /\ Permitted(w) /\ Resumable(w)

-----------------------------------------------------------------------------
\* The comparison of identifiers in scopeToReachable keeps no row beyond the
\* definition of the profile: a code never matches a subject, which is a UUID.
LEMMA KeptIsReached ==
  ASSUME NEW tool \in ScopedTools, NEW p, NEW s \in Settings,
         KeepsRow(tool, p, s)
  PROVE  Reaches(s, p)
<1> DEFINE who == Identify(tool, p)
<1>1. s.profile \in ROLE_PROFILES
  BY DEF Settings
<1>2. ReachableScopeFor(s.profile)
        \in {"organization", "self", "direct_reports", "none"}
  BY <1>1 DEF ROLE_PROFILES, ReachableScopeFor
<1>3. CASE ReachableScopeFor(s.profile) = "organization"
  BY <1>3 DEF Reaches
<1>4. CASE ReachableScopeFor(s.profile) # "organization"
  <2>1. /\ ReachableScopeFor(s.profile) # "none"
        /\ s.subject # Null
        /\ \/ SameIdentifier(who.employeeId, s.subject)
           \/ SameIdentifier(who.employeeCode, s.subject)
           \/ /\ ReachableScopeFor(s.profile) = "direct_reports"
              /\ SameIdentifier(who.lineManagerId, s.subject)
    BY <1>4 DEF KeepsRow
  <2>2. PICK q \in People : s.subject = Id(q)
    BY <2>1 DEF Settings
  <2>3. who.employeeCode = Code(p)
    BY DEF Identify
  <2>4. ~SameIdentifier(who.employeeCode, s.subject)
    BY <2>2, <2>3 DEF SameIdentifier, Code, Id
  <2>5. who.employeeId \in {Null, Id(p)}
    BY DEF Identify
  <2>6. \/ who.lineManagerId = Null
        \/ ManagerOf[p] # Null /\ who.lineManagerId = Id(ManagerOf[p])
    BY DEF Identify
  <2>7. \/ s.subject = Id(p)
        \/ /\ ReachableScopeFor(s.profile) = "direct_reports"
           /\ ManagerOf[p] # Null
           /\ s.subject = Id(ManagerOf[p])
    BY <2>1, <2>4, <2>5, <2>6 DEF SameIdentifier
  <2> QED
    BY <1>2, <1>4, <2>1, <2>7 DEF Reaches
<1> QED
  BY <1>3, <1>4

\* The gates let a financial read pass with the finance profile and the
\* enabled surface only.
LEMMA FinanceIsGated ==
  ASSUME NEW tool \in FinanceReads, NEW s \in Settings,
         AuthorizeTool(tool, s) = "available"
  PROVE  s.profile = "finance" /\ s.finance
<1>1. tool \notin WriteTools /\ tool \notin DISCOVERY_TOOLS
  BY DEF FinanceReads, WriteTools, PunchTools, HireTools, DeleteTools,
         DISCOVERY_TOOLS
<1>2. ResolveCapability(tool, s) = "available"
  BY <1>1 DEF AuthorizeTool
<1>3. FinancialConfidential(tool)
  BY DEF FinancialConfidential
<1>4. NotEnabled(tool) # "available"
  BY DEF NotEnabled
<1>5. ConfigurationEnables(tool, s) /\ s.profile \in RequiredProfiles(tool)
  BY <1>2, <1>4 DEF ResolveCapability
<1>6. ConfigurationEnables(tool, s) = s.finance
  BY <1>1, <1>3 DEF ConfigurationEnables, WriteTools, Settings
<1>7. /\ tool \notin LookupTools /\ tool \notin PersonReads
      /\ tool \notin {"jisr_employees_list", "jisr_audit_events_list",
                     "jisr_webhooks_list"}
  BY DEF FinanceReads, LookupTools, PersonReads
<1>8. RequiredProfiles(tool) = {"finance"}
  BY <1>7 DEF RequiredProfiles
<1> QED
  BY <1>5, <1>6, <1>8

\* A decision is "available" or one of the codes.
LEMMA Decisions ==
  ASSUME NEW tool, NEW s \in Settings
  PROVE  AuthorizeTool(tool, s) \in
           {"available", "DESTRUCTIVE_ACTION_DISABLED", "WRITE_NOT_ENABLED",
            "TOOL_NOT_ENABLED", "JISR_PERMISSION_DENIED",
            "FINANCE_ACCESS_REQUIRED"}
<1>1. NotEnabled(tool) \in {"DESTRUCTIVE_ACTION_DISABLED",
                            "WRITE_NOT_ENABLED", "TOOL_NOT_ENABLED"}
  BY DEF NotEnabled
<1>2. WriteCapability(tool, s) \in
        {"available", "JISR_PERMISSION_DENIED", NotEnabled(tool)}
  BY DEF WriteCapability
<1>3. ResolveCapability(tool, s) \in
        {"available", "JISR_PERMISSION_DENIED", "FINANCE_ACCESS_REQUIRED",
         NotEnabled(tool)}
  BY DEF ResolveCapability
<1>4. AuthorizeTool(tool, s) \in
        {"available", WriteCapability(tool, s), ResolveCapability(tool, s)}
  BY DEF AuthorizeTool
<1> QED
  BY <1>1, <1>2, <1>3, <1>4

\* What stands before a request to Jisr either refuses it with a code or has
\* accepted the request and, if there is one, the cursor.
LEMMA Verdicts ==
  ASSUME Process, NEW request \in Request, NEW cursor
  PROVE  /\ Verdict(request, cursor) \notin {"idle", "going", "ended"}
         /\ Verdict(request, cursor) = "accepted" =>
              /\ AuthorizeTool(request.tool, config) = "available"
              /\ ValidPageSize(request.size)
              /\ \/ cursor = NoCursor
                 \/ cursor.binding = CursorBinding(request, cursor)
<1> DEFINE authorization == AuthorizeTool(request.tool, config)
           decoded == DecodeCursor(cursor, CursorBinding(request, cursor))
<1>1. authorization \in
        {"available", "DESTRUCTIVE_ACTION_DISABLED", "WRITE_NOT_ENABLED",
         "TOOL_NOT_ENABLED", "JISR_PERMISSION_DENIED",
         "FINANCE_ACCESS_REQUIRED"}
  BY Decisions DEF Process
<1>2. decoded \in {"INVALID_CURSOR", "CURSOR_EXPIRED", "accepted"}
  BY DEF DecodeCursor
<1>3. decoded = "accepted" => cursor.binding = CursorBinding(request, cursor)
  BY DEF DecodeCursor
<1>4. CASE authorization # "available"
  <2>1. Verdict(request, cursor) = authorization
    BY <1>4 DEF Verdict
  <2> QED
    BY <1>1, <2>1
<1>5. CASE authorization = "available" /\ ~ValidPageSize(request.size)
  <2>1. Verdict(request, cursor) = "PAGE_SIZE_EXCEEDED"
    BY <1>5 DEF Verdict
  <2> QED
    BY <2>1
<1>6. CASE authorization = "available" /\ ValidPageSize(request.size)
  <2>1. Verdict(request, cursor) =
          IF cursor = NoCursor THEN "accepted" ELSE decoded
    BY <1>6 DEF Verdict
  <2> QED
    BY <1>2, <1>3, <1>6, <2>1
<1> QED
  BY <1>4, <1>5, <1>6

\* Two requests that differ are bound differently, so the cursor of one is
\* refused by the other.
LEMMA BindingsDiffer ==
  ASSUME NEW request \in Request, NEW other \in Request, NEW cursor,
         CursorBinding(other, NoCursor) = CursorBinding(request, cursor)
  PROVE  other = request
<1>1. other.tool = request.tool
  BY DEF CursorBinding
<1>2. HashFilters(other, NoCursor) = HashFilters(request, cursor)
  BY DEF CursorBinding
<1>3. other.filter = request.filter /\ other.size = request.size
  BY <1>1, <1>2 DEF HashFilters
<1> QED
  BY <1>1, <1>3 DEF Request

LEMMA OtherCursorRefused ==
  ASSUME Process, NEW request \in Request, NEW other \in Request \ {request},
         NEW page \in Nat, NEW key \in Nat, NEW e \in Nat
  PROVE  Verdict(request, [key |-> key, page |-> page, e |-> e,
                           binding |-> CursorBinding(other, NoCursor)])
           # "accepted"
<1> DEFINE cursor == [key |-> key, page |-> page, e |-> e,
                      binding |-> CursorBinding(other, NoCursor)]
<1>1. cursor # NoCursor
  BY NoCursorAssumption
<1>2. cursor.binding = CursorBinding(other, NoCursor)
  OBVIOUS
<1>3. cursor.binding # CursorBinding(request, cursor)
  BY <1>2, BindingsDiffer
<1> QED
  BY <1>1, <1>3, Verdicts

\* A next page that is followed is beyond the present one, whatever Jisr says.
LEMMA NextPageIsBeyond ==
  ASSUME NEW who, NEW size, NEW page \in Nat,
         NEW next \in UpstreamNext(who, page, size),
         NextPageFrom(next, page) # Null
  PROVE  /\ NextPageFrom(next, page) \in Nat
         /\ NextPageFrom(next, page) > page
<1>1. next \in Nat \cup {Null}
  BY DEF UpstreamNext
<1> QED
  BY <1>1 DEF NextPageFrom

-----------------------------------------------------------------------------
(* The steps of one traversal.                                             *)

\* What a call needs to find, from its verdict on.
Served(w, request, cursor, page, before) ==
  /\ AuthorizeTool(request.tool, config) = "available"
  /\ ValidPageSize(request.size)
  /\ page \in Nat
  /\ before.calls \in Nat /\ before.calls < page
  /\ request.tool \in ScopedTools
       => \A p \in before.got : Reaches(config, p)
  /\ Serve(w, request, cursor, page, before)

LEMMA ServeKeeps ==
  ASSUME IInv, UNCHANGED <<config, epoch, clock>>,
         NEW w \in Walks, NEW request \in Request, NEW cursor, NEW page,
         NEW before, Served(w, request, cursor, page, before)
  PROVE  /\ IInv'
         /\ walk'[w].status \in {"going", "ended"}
<1> USE DEF Process
<1>1. PICK kept, nextPage :
        /\ \E next \in UpstreamNext(Matching[request.filter], page,
                                  request.size) :
             nextPage = NextPageFrom(next, page)
        /\ kept = {p \in UpstreamPage(Matching[request.filter], page,
                                     request.size) :
                     request.tool \in ScopedTools
                     => KeepsRow(request.tool, p, config)}
        /\ walk' = [walk EXCEPT ![w] =
             [request  |-> request,
              status   |-> IF nextPage = Null THEN "ended" ELSE "going",
              cursor   |-> IF nextPage = Null THEN NoCursor
                           ELSE EncodeCursor(CursorBinding(request, cursor),
                                             nextPage),
              page     |-> page,
              calls    |-> before.calls + 1,
              got      |-> before.got \cup kept,
              expected |-> before.expected]]
  BY DEF Served, Serve
<1>2. walk = [v \in Walks |-> walk[v]]
  BY DEF IInv
<1>3. /\ walk' = [v \in Walks |-> walk'[v]]
      /\ \A v \in Walks \ {w} : walk'[v] = walk[v]
  BY <1>1, <1>2
<1>4. walk'[w] =
        [request  |-> request,
         status   |-> IF nextPage = Null THEN "ended" ELSE "going",
         cursor   |-> IF nextPage = Null THEN NoCursor
                      ELSE EncodeCursor(CursorBinding(request, cursor),
                                        nextPage),
         page     |-> page,
         calls    |-> before.calls + 1,
         got      |-> before.got \cup kept,
         expected |-> before.expected]
  BY <1>1, <1>2
<1>5. Shaped(w)'
  BY <1>4 DEF Shaped
<1>6. Counted(w)'
  BY <1>4 DEF Counted, Served
<1>7. Permitted(w)'
  <2>1. ASSUME request.tool \in ScopedTools, NEW p \in kept
        PROVE  Reaches(config, p)
    BY <1>1, <2>1, KeptIsReached DEF IInv
  <2>2. request.tool \in FinanceReads
        => config.profile = "finance" /\ config.finance
    BY FinanceIsGated DEF IInv, Served
  <2>3. walk'[w].request = request /\ walk'[w].got = before.got \cup kept
    BY <1>4
  <2>4. request.tool \in ScopedTools
        => \A p \in before.got \cup kept : Reaches(config, p)
    BY <2>1 DEF Served
  <2>5. Permitted(w)' <=>
          /\ walk'[w].request.tool \in ScopedTools
               => \A p \in walk'[w].got : Reaches(config, p)'
          /\ walk'[w].got # {} /\ walk'[w].request.tool \in FinanceReads
               => config'.profile = "finance" /\ config'.finance
    BY DEF Permitted
  <2>6. \A p : Reaches(config, p)' <=> Reaches(config, p)
    BY DEF Reaches
  <2> QED
    BY <2>2, <2>3, <2>4, <2>5, <2>6
<1>8. Resumable(w)'
  <2>1. CASE nextPage = Null
    BY <1>4, <2>1 DEF Resumable
  <2>2. CASE nextPage # Null
    <3>1. nextPage \in Nat /\ nextPage > page
      BY <1>1, <2>2, NextPageIsBeyond DEF Served
    <3>2. /\ walk'[w].request = request
          /\ walk'[w].page = page
          /\ walk'[w].cursor = EncodeCursor(CursorBinding(request, cursor),
                                            nextPage)
      BY <1>4, <2>2
    <3>3. /\ walk'[w].cursor.page = nextPage
          /\ walk'[w].cursor.binding = CursorBinding(request, cursor)
          /\ walk'[w].cursor.e = clock + TTL
      BY <3>2 DEF EncodeCursor
    <3>4. request.tool # Payables =>
            CursorBinding(request, cursor) = CursorBinding(request, NoCursor)
      BY DEF CursorBinding, HashFilters, Payables
    <3>5. AuthorizeTool(request.tool, config)' = "available"
      BY DEF Served
    <3>6. ValidPageSize(walk'[w].request.size)
      BY <3>2 DEF Served
    <3>7. clock + TTL \in Nat
      BY TraversalAssumption DEF IInv
    <3> QED
      BY <3>1, <3>2, <3>3, <3>4, <3>5, <3>6, <3>7
      DEF Resumable, CursorBinding, HashFilters, ValidPageSize
  <2> QED
    BY <2>1, <2>2
<1>9. ASSUME NEW v \in Walks \ {w}
      PROVE  Shaped(v)' /\ Counted(v)' /\ Permitted(v)' /\ Resumable(v)'
  BY <1>3, <1>9 DEF IInv, Shaped, Counted, Permitted, Resumable,
     CursorBinding, HashFilters, ValidPageSize, Reaches
<1>10. walk'[w].status \in {"going", "ended"}
  BY <1>4
<1> QED
  BY <1>3, <1>5, <1>6, <1>7, <1>8, <1>9, <1>10 DEF IInv

\* A refused call ends the traversal with its code and leaves what it
\* returned.
LEMMA RefusalKeeps ==
  ASSUME IInv, UNCHANGED <<config, epoch, clock>>,
         NEW w \in Walks, NEW cursor,
         NEW verdict, verdict \notin {"idle", "going", "ended"},
         walk' = [walk EXCEPT ![w].status = verdict, ![w].cursor = cursor]
  PROVE  IInv'
<1> USE DEF Process
<1>1. walk = [v \in Walks |-> walk[v]]
  BY DEF IInv
<1>2. /\ walk' = [v \in Walks |-> walk'[v]]
      /\ \A v \in Walks \ {w} : walk'[v] = walk[v]
      /\ walk'[w] = [walk[w] EXCEPT !.status = verdict, !.cursor = cursor]
  BY <1>1
<1>3. Shaped(w)
  BY DEF IInv
<1>4. walk'[w] = [request  |-> walk[w].request, status |-> verdict,
                  cursor   |-> cursor,          page   |-> walk[w].page,
                  calls    |-> walk[w].calls,   got    |-> walk[w].got,
                  expected |-> walk[w].expected]
  BY <1>2, <1>3 DEF Shaped
<1>5. Shaped(w)' /\ Counted(w)' /\ Resumable(w)'
  BY <1>4 DEF IInv, Shaped, Counted, Resumable
<1>6. Permitted(w)'
  BY <1>4 DEF IInv, Permitted, Reaches
<1>7. ASSUME NEW v \in Walks \ {w}
      PROVE  Shaped(v)' /\ Counted(v)' /\ Permitted(v)' /\ Resumable(v)'
  BY <1>2, <1>7 DEF IInv, Shaped, Counted, Permitted, Resumable,
     CursorBinding, HashFilters, ValidPageSize, Reaches
<1> QED
  BY <1>2, <1>5, <1>6, <1>7 DEF IInv

LEMMA StartKeeps ==
  ASSUME IInv, NEW w \in Walks, Start(w)
  PROVE  IInv'
<1>1. PICK request \in Request :
        IF Verdict(request, NoCursor) = "accepted"
        THEN Serve(w, request, NoCursor, 1,
                   [NoWalk EXCEPT !.expected = Expected(request)])
        ELSE walk' = [walk EXCEPT ![w] = [NoWalk EXCEPT
                        !.request = request,
                        !.status = Verdict(request, NoCursor)]]
  BY DEF Start
<1>2. UNCHANGED <<config, epoch, clock>>
  BY DEF Start
<1>3. Process
  BY DEF IInv
<1>4. CASE Verdict(request, NoCursor) = "accepted"
  <2> DEFINE before == [NoWalk EXCEPT !.expected = Expected(request)]
  <2>1. before.calls = 0 /\ before.got = {}
    BY DEF NoWalk
  <2>2. Served(w, request, NoCursor, 1, before)
    BY <1>1, <1>3, <1>4, <2>1, Verdicts DEF Served
  <2> QED
    BY <1>2, <2>2, ServeKeeps
<1>5. CASE Verdict(request, NoCursor) # "accepted"
  <2> DEFINE verdict == Verdict(request, NoCursor)
  <2>1. walk = [v \in Walks |-> walk[v]]
    BY DEF IInv
  <2>2. walk' = [walk EXCEPT ![w] = [NoWalk EXCEPT !.request = request,
                                                  !.status = verdict]]
    BY <1>1, <1>5
  <2>3. walk'[w] = [request |-> request, status |-> verdict,
                    cursor |-> NoCursor, page |-> 0, calls |-> 0,
                    got |-> {}, expected |-> {}]
    BY <2>1, <2>2 DEF NoWalk
  <2>4. /\ walk' = [v \in Walks |-> walk'[v]]
        /\ \A v \in Walks \ {w} : walk'[v] = walk[v]
    BY <2>1, <2>2
  <2>5. verdict # "going"
    BY <1>3, Verdicts
  <2> HIDE DEF verdict
  <2>6. Shaped(w)' /\ Counted(w)' /\ Permitted(w)' /\ Resumable(w)'
    BY <2>3, <2>5 DEF Shaped, Counted, Permitted, Resumable
  <2>7. ASSUME NEW v \in Walks \ {w}
        PROVE  Shaped(v)' /\ Counted(v)' /\ Permitted(v)' /\ Resumable(v)'
    BY <1>2, <2>4, <2>7 DEF IInv, Shaped, Counted, Permitted, Resumable,
       CursorBinding, HashFilters, ValidPageSize, Reaches
  <2> QED
    BY <1>2, <1>3, <2>4, <2>6, <2>7 DEF IInv, Process
<1> QED
  BY <1>4, <1>5

\* The cursor of the last answer.
LEMMA ContinueKeeps ==
  ASSUME IInv, NEW w \in Walks, Continue(w)
  PROVE  IInv'
<1> DEFINE request == walk[w].request
           cursor == walk[w].cursor
<1>1. /\ walk[w].status = "going"
      /\ UNCHANGED <<config, epoch, clock>>
      /\ Present(w, cursor)
  BY DEF Continue
<1>2. Process /\ Counted(w) /\ Permitted(w) /\ Resumable(w)
  BY DEF IInv
<1>3. request \in Request
  BY <1>1, <1>2 DEF Resumable
<1>4. CASE Verdict(request, cursor) = "accepted"
  <2>1. Serve(w, request, cursor, cursor.page, walk[w])
    BY <1>1, <1>4 DEF Present
  <2>2. cursor.page \in Nat /\ walk[w].calls < cursor.page
    BY <1>1, <1>2 DEF Resumable, Counted
  <2>3. Served(w, request, cursor, cursor.page, walk[w])
    BY <1>1, <1>2, <2>1, <2>2 DEF Served, Counted, Permitted, Resumable
  <2> QED
    BY <1>1, <1>3, <2>3, ServeKeeps
<1>5. CASE Verdict(request, cursor) # "accepted"
  <2>1. walk' = [walk EXCEPT ![w].status = Verdict(request, cursor),
                             ![w].cursor = NoCursor]
    BY <1>1, <1>5 DEF Present
  <2>2. Verdict(request, cursor) \notin {"idle", "going", "ended"}
    BY <1>2, <1>3, Verdicts
  <2> QED
    BY <1>1, <2>1, <2>2, RefusalKeeps
<1> QED
  BY <1>4, <1>5

\* The cursor of another request is always refused.
LEMMA MistakeKeeps ==
  ASSUME IInv, NEW w \in Walks, Mistake(w)
  PROVE  IInv'
<1> DEFINE request == walk[w].request
<1>1. PICK other \in Request \ {request}, page \in 2..Cardinality(People),
           e \in clock..clock + TTL :
        Present(w, [key |-> epoch, binding |-> CursorBinding(other, NoCursor),
                    page |-> page, e |-> e])
  BY DEF Mistake
<1> DEFINE cursor == [key |-> epoch, page |-> page, e |-> e,
                      binding |-> CursorBinding(other, NoCursor)]
<1>2. /\ Process /\ UNCHANGED <<config, epoch, clock>>
      /\ request \in Request
  BY DEF IInv, Mistake, Resumable
<1>3. page \in Nat /\ e \in Nat /\ epoch \in Nat
  BY <1>2, FS_CardinalityType, TraversalAssumption DEF Process
<1>4. Verdict(request, cursor) # "accepted"
  BY <1>2, <1>3, OtherCursorRefused
<1>5. walk' = [walk EXCEPT ![w].status = Verdict(request, cursor),
                           ![w].cursor = NoCursor]
  BY <1>1, <1>4 DEF Present
<1>6. Verdict(request, cursor) \notin {"idle", "going", "ended"}
  BY <1>2, Verdicts
<1> HIDE DEF request, cursor
<1> QED
  BY <1>2, <1>5, <1>6, RefusalKeeps

\* What Jisr, the clock and a restart do takes nothing from a traversal.
LEMMA SurroundingsKeep ==
  ASSUME IInv, UNCHANGED config, epoch' \in Nat, clock' \in Nat,
         walk' = [w \in Walks |-> walk'[w]],
         \A w \in Walks :
           walk'[w] \in {walk[w], [walk[w] EXCEPT !.expected = {}]}
  PROVE  IInv'
<1>1. ASSUME NEW w \in Walks
      PROVE  Shaped(w)' /\ Counted(w)' /\ Permitted(w)' /\ Resumable(w)'
  <2>1. Shaped(w) /\ Counted(w) /\ Permitted(w) /\ Resumable(w)
    BY DEF IInv
  <2>2. \E expected :
          walk'[w] = [request  |-> walk[w].request,
                      status   |-> walk[w].status,
                      cursor   |-> walk[w].cursor,
                      page     |-> walk[w].page,
                      calls    |-> walk[w].calls,
                      got      |-> walk[w].got,
                      expected |-> expected]
    <3>1. CASE walk'[w] = walk[w]
      BY <2>1, <3>1 DEF Shaped
    <3>2. CASE walk'[w] = [walk[w] EXCEPT !.expected = {}]
      BY <2>1, <3>2 DEF Shaped
    <3> QED
      BY <3>1, <3>2
  <2>3. Shaped(w)' /\ Counted(w)'
    BY <2>1, <2>2 DEF Shaped, Counted
  <2>4. Permitted(w)'
    BY <2>1, <2>2 DEF Permitted, Reaches
  <2>5. Resumable(w)'
    BY <2>1, <2>2
    DEF Resumable, CursorBinding, HashFilters, ValidPageSize
  <2> QED
    BY <2>3, <2>4, <2>5
<1> QED
  BY <1>1 DEF IInv, Process

LEMMA InitHolds == Init => IInv
<1> SUFFICES ASSUME Init PROVE IInv
  OBVIOUS
<1>1. Process
  BY TraversalAssumption DEF Init, Process
<1>2. walk = [w \in Walks |-> NoWalk]
  BY DEF Init
<1>3. ASSUME NEW w \in Walks
      PROVE  Shaped(w) /\ Counted(w) /\ Permitted(w) /\ Resumable(w)
  BY <1>2 DEF NoWalk, Shaped, Counted, Permitted, Resumable
<1> QED
  BY <1>1, <1>2, <1>3 DEF IInv

LEMMA StepHolds == IInv /\ [Next]_vars => IInv'
<1> SUFFICES ASSUME IInv, [Next]_vars PROVE IInv'
  OBVIOUS
<1>1. walk = [w \in Walks |-> walk[w]] /\ epoch \in Nat /\ clock \in Nat
  BY DEF IInv, Process
<1>2. ASSUME NEW w \in Walks, Start(w) PROVE IInv'
  BY <1>2, StartKeeps
<1>3. ASSUME NEW w \in Walks, Continue(w) PROVE IInv'
  BY <1>3, ContinueKeeps
<1>4. ASSUME NEW w \in Walks, Mistake(w) PROVE IInv'
  BY <1>4, MistakeKeeps
<1>5. CASE Arrives
  BY <1>1, <1>5, SurroundingsKeep DEF Arrives
<1>6. CASE Leaves
  <2>1. walk' = [w \in Walks |-> IF walk[w].status = "going"
                                 THEN [walk[w] EXCEPT !.expected = {}]
                                 ELSE walk[w]]
    BY <1>6 DEF Leaves
  <2>2. UNCHANGED <<config, epoch, clock>>
    BY <1>6 DEF Leaves
  <2> QED
    BY <1>1, <2>1, <2>2, SurroundingsKeep
<1>7. CASE Tick
  BY <1>1, <1>7, SurroundingsKeep DEF Tick
<1>8. CASE Restart
  BY <1>1, <1>8, SurroundingsKeep DEF Restart
<1>9. CASE UNCHANGED vars
  BY <1>1, <1>9, SurroundingsKeep DEF vars
<1> QED
  BY <1>2, <1>3, <1>4, <1>5, <1>6, <1>7, <1>8, <1>9 DEF Next

LEMMA IInvHolds == Spec => []IInv
  BY InitHolds, StepHolds, PTL DEF Spec

-----------------------------------------------------------------------------
\* No traversal comes to a page twice, whatever pages Jisr names, however its
\* list changes, and for any number of calls, restarts and mistaken cursors
\* (nextPageFrom, decodeCursor).
THEOREM EachCallAdvancesHolds == Spec => []EachCallAdvances
<1>1. IInv => EachCallAdvances
  BY DEF IInv, Counted, EachCallAdvances
<1> QED
  BY <1>1, IInvHolds, PTL

\* In every accepted deployment, for every chain of managers, a caller is only
\* given rows that its profile reaches, and financial rows only with the
\* finance profile and the surface enabled (scopeToReachable, authorizeTool).
THEOREM OnlyReachableRowsHolds == Spec => []OnlyReachableRows
<1>1. IInv => OnlyReachableRows
  BY DEF IInv, Permitted, OnlyReachableRows
<1> QED
  BY <1>1, IInvHolds, PTL

\* On every list but that of the payables, a cursor passed back unchanged
\* within its lifetime, to the process that issued it, continues the
\* traversal, whatever other lists are read beside it (encodeCursor,
\* decodeCursor and what the services hash).
THEOREM CursorsHonoured ==
  Spec => [][\A w \in Walks :
               /\ walk[w].request.tool # Payables
               /\ Fresh(w) /\ Continue(w)
               => walk'[w].status \notin Refusals]_vars
<1>1. IInv => \A w \in Walks : /\ walk[w].request.tool # Payables
                               /\ Fresh(w) /\ Continue(w)
                               => walk'[w].status \notin Refusals
  <2> SUFFICES ASSUME IInv, NEW w \in Walks, Fresh(w), Continue(w),
                      walk[w].request.tool # Payables
               PROVE  walk'[w].status \notin Refusals
    OBVIOUS
  <2> DEFINE request == walk[w].request
             cursor == walk[w].cursor
  <2>1. /\ walk[w].status = "going"
        /\ UNCHANGED <<config, epoch, clock>>
        /\ Present(w, cursor)
    BY DEF Continue
  <2>2. Process /\ Counted(w) /\ Permitted(w) /\ Resumable(w)
    BY DEF IInv
  <2>3. request \in Request /\ request.tool # Payables
    BY <2>1, <2>2 DEF Resumable
  <2>4. cursor.binding = CursorBinding(request, cursor)
    BY <2>1, <2>2, <2>3 DEF Resumable, CursorBinding, HashFilters, Payables
  <2>5. cursor.key = epoch /\ ~Expired(cursor)
    BY <2>1, <2>2 DEF Fresh, Expired, Resumable, Process
  <2>6. DecodeCursor(cursor, CursorBinding(request, cursor)) = "accepted"
    BY <2>4, <2>5 DEF DecodeCursor
  <2>7. Verdict(request, cursor) = "accepted"
    BY <2>1, <2>2, <2>6 DEF Verdict, Resumable
  <2>8. Serve(w, request, cursor, cursor.page, walk[w])
    BY <2>1, <2>7 DEF Present
  <2>9. Served(w, request, cursor, cursor.page, walk[w])
    BY <2>1, <2>2, <2>8 DEF Served, Counted, Permitted, Resumable
  <2>10. walk'[w].status \in {"going", "ended"}
    BY <2>1, <2>3, <2>9, ServeKeeps
  <2> QED
    BY <2>10 DEF Refusals
<1> QED
  BY <1>1, IInvHolds, PTL

\* So where the payables are not among the lists read, every such cursor does.
THEOREM OwnCursorHonouredHolds ==
  ASSUME Payables \notin Tools
  PROVE  Spec => OwnCursorHonoured
<1>1. IInv => \A w \in Walks : walk[w].status = "going"
                               => walk[w].request.tool # Payables
  BY DEF IInv, Resumable, Request
<1>2. /\ IInv
      /\ \A w \in Walks : /\ walk[w].request.tool # Payables
                          /\ Fresh(w) /\ Continue(w)
                          => walk'[w].status \notin Refusals
      => \A w \in Walks : Fresh(w) /\ Continue(w)
                           => walk'[w].status \notin Refusals
  BY <1>1 DEF Fresh
<1> QED
  BY <1>2, IInvHolds, CursorsHonoured, PTL DEF OwnCursorHonoured

-----------------------------------------------------------------------------
\* A commit is judged alike by the two tables.
LEMMA CommitsAgree ==
  ASSUME NEW tool \in WriteTools \cap ManifestTools, NEW s \in Settings
  PROVE  WriteCapability(tool, s) = "available"
         <=> ResolveCapability(tool, s) = "available"
<1>1. tool \in {"jisr_attendance_punch_create_commit",
                "jisr_employee_create_commit",
                "jisr_payroll_transaction_delete_commit"}
  BY DEF WriteTools, PunchTools, HireTools, DeleteTools, ManifestTools,
         WritePairs, LookupTools, FinanceReads, PersonReads
<1>2. /\ s.profile \in ROLE_PROFILES /\ s.finance \in BOOLEAN
      /\ s.writeAttendance \in BOOLEAN /\ s.writeEmployees \in BOOLEAN
      /\ s.writePayrollDelete \in BOOLEAN
  BY DEF Settings
<1>3. NotEnabled(tool) # "available"
  BY DEF NotEnabled
<1>4. /\ WriteGate(tool, s).enabled \in BOOLEAN
      /\ WriteGate(tool, s).enabled = ConfigurationEnables(tool, s)
      /\ RequiredProfiles(tool) = {WriteGate(tool, s).profile}
  <2>1. CASE tool = "jisr_attendance_punch_create_commit"
    BY <1>2, <2>1 DEF WriteGate, ConfigurationEnables, RequiredProfiles,
       PunchTools, HireTools, DeleteTools, LookupTools, PersonReads,
       FinanceReads
  <2>2. CASE tool = "jisr_employee_create_commit"
    BY <1>2, <2>2 DEF WriteGate, ConfigurationEnables, RequiredProfiles,
       PunchTools, HireTools, DeleteTools, LookupTools, PersonReads,
       FinanceReads
  <2>3. CASE tool = "jisr_payroll_transaction_delete_commit"
    BY <1>2, <2>3 DEF WriteGate, ConfigurationEnables, RequiredProfiles,
       PunchTools, HireTools, DeleteTools, LookupTools, PersonReads,
       FinanceReads
  <2> QED
    BY <1>1, <2>1, <2>2, <2>3
<1>5. WriteCapability(tool, s) = "available"
      <=> WriteGate(tool, s).enabled /\ s.profile = WriteGate(tool, s).profile
  BY <1>3, <1>4 DEF WriteCapability
<1>6. ResolveCapability(tool, s) = "available"
      <=> ConfigurationEnables(tool, s) /\ s.profile \in RequiredProfiles(tool)
  BY <1>3, <1>4 DEF ResolveCapability
<1> QED
  BY <1>4, <1>5, <1>6

\* With any settings, the capability report says "available" of exactly the
\* tools that are listed and can be called (authorizeTool, resolveCapability,
\* listFor).
THEOREM GatesAgreeHolds == Spec => []GatesAgree
<1>1. IInv => GatesAgree
  <2> SUFFICES ASSUME IInv PROVE GatesAgree
    OBVIOUS
  <2>1. config \in Settings
    BY DEF IInv, Process
  <2>2. ASSUME NEW tool \in ManifestTools
        PROVE  tool \in ListFor(config)
               <=> ResolveCapability(tool, config) = "available"
    <3>1. tool \notin DISCOVERY_TOOLS
      BY DEF ManifestTools, DISCOVERY_TOOLS, WritePairs, LookupTools,
             FinanceReads, PersonReads
    <3>2. tool \in ListFor(config)
          <=> AuthorizeTool(tool, config) = "available"
      BY DEF ListFor
    <3>3. CASE tool \in WriteTools
      <4>1. AuthorizeTool(tool, config) = WriteCapability(tool, config)
        BY <3>1, <3>3 DEF AuthorizeTool
      <4> QED
        BY <2>1, <3>2, <3>3, <4>1, CommitsAgree
    <3>4. CASE tool \notin WriteTools
      BY <3>1, <3>2, <3>4 DEF AuthorizeTool
    <3> QED
      BY <3>3, <3>4
  <2> QED
    BY <2>2 DEF GatesAgree
<1> QED
  BY <1>1, IInvHolds, PTL
=============================================================================
