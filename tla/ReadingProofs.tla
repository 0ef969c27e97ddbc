---------------------------- MODULE ReadingProofs ----------------------------
(***************************************************************************)
(* Proofs about whole traversals and leave summaries, for every            *)
(* organization, every list, page size and number of batches: what a       *)
(* caller ought to get is either there or still ahead, since rows that are *)
(* added push the others back and never forward.                           *)
(***************************************************************************)
EXTENDS Reading, TraversalProofs, SequenceTheorems

-----------------------------------------------------------------------------
(* Lists and the places in them.                                           *)

\* The places up to the j-th that the rows of `who` have in a list, and how
\* many they are: of Jisr's list, their Rank.
Places(list, who, j) == {k \in 1..j : list[k] \in who}

CountIn(list, who, j) == Cardinality(Places(list, who, j))

\* A list with one element more (InsertAt), place by place.
LEMMA Inserted ==
  ASSUME NEW S, NEW list \in Seq(S), NEW i \in 1..Len(list) + 1, NEW p \in S
  PROVE  /\ InsertAt(list, i, p) \in Seq(S)
         /\ Len(InsertAt(list, i, p)) = Len(list) + 1
         /\ \A k \in 1..Len(list) + 1 :
              InsertAt(list, i, p)[k] = IF k < i THEN list[k]
                                        ELSE IF k = i THEN p ELSE list[k - 1]
<1> DEFINE before == SubSeq(list, 1, i - 1)
           behind == SubSeq(list, i, Len(list))
<1>1. /\ Len(list) \in Nat /\ i \in Int
      /\ \A k \in 1..Len(list) : list[k] \in S
  BY LenProperties
<1>2. /\ before \in Seq(S) /\ Len(before) = i - 1
      /\ \A k \in 1..i - 1 : before[k] = list[k]
  <2>1. \A k \in 1..i - 1 : list[k] \in S
    BY <1>1
  <2> HIDE DEF before
  <2>2. /\ before \in Seq(S)
        /\ Len(before) = IF 1 <= i - 1 THEN i - 1 - 1 + 1 ELSE 0
        /\ \A k \in 1..i - 1 - 1 + 1 : before[k] = list[1 + k - 1]
    BY <1>1, <2>1, SubSeqProperties DEF before
  <2> QED
    BY <1>1, <2>2
<1>3. /\ behind \in Seq(S) /\ Len(behind) = Len(list) - i + 1
      /\ \A k \in 1..Len(list) - i + 1 : behind[k] = list[i + k - 1]
  <2>1. \A k \in i..Len(list) : list[k] \in S
    BY <1>1
  <2> HIDE DEF behind
  <2>2. /\ behind \in Seq(S)
        /\ Len(behind) = IF i <= Len(list) THEN Len(list) - i + 1 ELSE 0
        /\ \A k \in 1..Len(list) - i + 1 : behind[k] = list[i + k - 1]
    BY <1>1, <2>1, SubSeqProperties DEF behind
  <2> QED
    BY <1>1, <2>2
<1>4. InsertAt(list, i, p) = (before \o <<p>>) \o behind
  BY DEF InsertAt
<1> HIDE DEF before, behind
<1>5. /\ before \o <<p>> \in Seq(S) /\ Len(before \o <<p>>) = i
      /\ \A k \in 1..i : (before \o <<p>>)[k] = IF k < i THEN list[k] ELSE p
  <2>1. <<p>> \in Seq(S) /\ Len(<<p>>) = 1 /\ <<p>>[1] = p
    OBVIOUS
  <2>2. /\ before \o <<p>> \in Seq(S)
        /\ Len(before \o <<p>>) = Len(before) + Len(<<p>>)
        /\ \A k \in 1..Len(before) + Len(<<p>>) : (before \o <<p>>)[k] =
             IF k <= Len(before) THEN before[k] ELSE <<p>>[k - Len(before)]
    BY <1>2, <2>1, ConcatProperties
  <2> QED
    BY <1>1, <1>2, <2>1, <2>2
<1> DEFINE front == before \o <<p>>
<1>7. /\ front \in Seq(S) /\ Len(front) = i
      /\ \A k \in 1..i : front[k] = IF k < i THEN list[k] ELSE p
      /\ InsertAt(list, i, p) = front \o behind
  BY <1>4, <1>5
<1> HIDE DEF front
<1>6. /\ front \o behind \in Seq(S)
      /\ Len(front \o behind) = Len(front) + Len(behind)
      /\ \A k \in 1..Len(front) + Len(behind) : (front \o behind)[k] =
           IF k <= Len(front) THEN front[k] ELSE behind[k - Len(front)]
  BY <1>3, <1>7, ConcatProperties
<1> QED
  BY <1>1, <1>3, <1>7, <1>6

\* A list with one element less (RemoveAt), place by place.
LEMMA Removed ==
  ASSUME NEW S, NEW list \in Seq(S), NEW i \in DOMAIN list
  PROVE  /\ RemoveAt(list, i) \in Seq(S)
         /\ Len(RemoveAt(list, i)) = Len(list) - 1
         /\ \A k \in 1..Len(list) - 1 :
              RemoveAt(list, i)[k] = IF k < i THEN list[k] ELSE list[k + 1]
<1> DEFINE before == SubSeq(list, 1, i - 1)
           behind == SubSeq(list, i + 1, Len(list))
<1>1. /\ Len(list) \in Nat /\ i \in 1..Len(list)
      /\ \A k \in 1..Len(list) : list[k] \in S
  BY LenProperties
<1>2. /\ before \in Seq(S) /\ Len(before) = i - 1
      /\ \A k \in 1..i - 1 : before[k] = list[k]
  <2>1. \A k \in 1..i - 1 : list[k] \in S
    BY <1>1
  <2> HIDE DEF before
  <2>2. /\ before \in Seq(S)
        /\ Len(before) = IF 1 <= i - 1 THEN i - 1 - 1 + 1 ELSE 0
        /\ \A k \in 1..i - 1 - 1 + 1 : before[k] = list[1 + k - 1]
    BY <1>1, <2>1, SubSeqProperties DEF before
  <2> QED
    BY <1>1, <2>2
<1>3. /\ behind \in Seq(S) /\ Len(behind) = Len(list) - i
      /\ \A k \in 1..Len(list) - i : behind[k] = list[i + k]
  <2>1. \A k \in i + 1..Len(list) : list[k] \in S
    BY <1>1
  <2> HIDE DEF behind
  <2>2. /\ behind \in Seq(S)
        /\ Len(behind) = IF i + 1 <= Len(list)
                         THEN Len(list) - (i + 1) + 1 ELSE 0
        /\ \A k \in 1..Len(list) - (i + 1) + 1 :
             behind[k] = list[(i + 1) + k - 1]
    BY <1>1, <2>1, SubSeqProperties DEF behind
  <2> QED
    BY <1>1, <2>2
<1>4. RemoveAt(list, i) = before \o behind
  BY DEF RemoveAt
<1> HIDE DEF before, behind
<1>5. /\ before \o behind \in Seq(S)
      /\ Len(before \o behind) = Len(before) + Len(behind)
      /\ \A k \in 1..Len(before) + Len(behind) : (before \o behind)[k] =
           IF k <= Len(before) THEN before[k] ELSE behind[k - Len(before)]
  BY <1>2, <1>3, ConcatProperties
<1>6. Len(before) + Len(behind) = Len(list) - 1
  BY <1>1, <1>2, <1>3
<1>7. ASSUME NEW k \in 1..Len(list) - 1
      PROVE  (before \o behind)[k] = IF k < i THEN list[k] ELSE list[k + 1]
  <2>1. CASE k < i
    BY <1>1, <1>2, <1>5, <1>6, <2>1
  <2>2. CASE ~(k < i)
    <3>1. /\ k - Len(before) \in 1..Len(list) - i
          /\ i + (k - Len(before)) = k + 1
      BY <1>1, <1>2, <2>2
    <3>2. (before \o behind)[k] = behind[k - Len(before)]
      BY <1>1, <1>2, <1>5, <1>6, <2>2
    <3>3. behind[k - Len(before)] = list[k + 1]
      BY <1>3, <3>1
    <3> QED
      BY <2>2, <3>2, <3>3
  <2> QED
    BY <2>1, <2>2
<1> QED
  BY <1>4, <1>5, <1>6, <1>7

\* The rows of `who` up to a place are finitely many.
LEMMA CountFinite ==
  ASSUME NEW list, NEW who, NEW j \in Int
  PROVE  /\ IsFiniteSet(Places(list, who, j))
         /\ CountIn(list, who, j) \in Nat
<1>1. IsFiniteSet(1..j)
  BY FS_Interval
<1>2. Places(list, who, j) \in SUBSET (1..j)
  BY DEF Places
<1>3. IsFiniteSet(Places(list, who, j))
  BY <1>1, <1>2, FS_Subset
<1> QED
  BY <1>3, FS_CardinalityType DEF CountIn

\* A row of theirs is at least the first of them.
LEMMA CountPositive ==
  ASSUME NEW list, NEW who, NEW j \in Nat \ {0}, list[j] \in who
  PROVE  CountIn(list, who, j) >= 1
<1>1. j \in Places(list, who, j)
  BY DEF Places
<1>2. /\ IsFiniteSet(Places(list, who, j))
      /\ Cardinality(Places(list, who, j)) \in Nat
  BY CountFinite DEF CountIn
<1>3. Cardinality(Places(list, who, j)) # 0
  BY <1>1, <1>2, FS_EmptySet
<1> QED
  BY <1>2, <1>3 DEF CountIn

\* Further down a list there are no fewer of them.
LEMMA CountMonotone ==
  ASSUME NEW list, NEW who, NEW j \in Int, NEW m \in Int, j <= m
  PROVE  CountIn(list, who, j) <= CountIn(list, who, m)
<1>1. Places(list, who, j) \in SUBSET Places(list, who, m)
  BY DEF Places
<1> QED
  BY <1>1, CountFinite, FS_Subset DEF CountIn

\* A row that is added puts no row before the place it had.
LEMMA CountGrows ==
  ASSUME NEW S, NEW list \in Seq(S), NEW i \in 1..Len(list) + 1, NEW p \in S,
         NEW who, NEW j \in 1..Len(list)
  PROVE  CountIn(list, who, j)
         <= CountIn(InsertAt(list, i, p), who, IF j < i THEN j ELSE j + 1)
<1> DEFINE new == InsertAt(list, i, p)
           m == IF j < i THEN j ELSE j + 1
           A == Places(list, who, j)
           B == Places(new, who, m)
           f == [k \in A |-> IF k < i THEN k ELSE k + 1]
<1>1. Len(list) \in Nat /\ i \in Nat /\ j \in Nat
  BY LenProperties
<1>2. \A k \in 1..Len(list) + 1 :
        new[k] = IF k < i THEN list[k] ELSE IF k = i THEN p ELSE list[k - 1]
  BY Inserted
<1> HIDE DEF new
<1>3. ASSUME NEW k \in A
      PROVE  (IF k < i THEN k ELSE k + 1) \in B
  <2>1. k \in 1..j /\ list[k] \in who
    BY <1>3 DEF Places
  <2>2. CASE k < i
    <3>1. k \in 1..m /\ new[k] = list[k]
      BY <1>1, <1>2, <2>1, <2>2
    <3> QED
      BY <2>1, <2>2, <3>1 DEF Places
  <2>3. CASE ~(k < i)
    <3>1. k + 1 \in 1..m /\ k + 1 \in 1..Len(list) + 1
      BY <1>1, <2>1, <2>3
    <3>2. new[k + 1] = list[(k + 1) - 1] /\ (k + 1) - 1 = k
      BY <1>1, <1>2, <2>1, <2>3, <3>1
    <3> QED
      BY <2>1, <2>3, <3>1, <3>2 DEF Places
  <2> QED
    BY <2>2, <2>3
<1>4. f \in Injection(A, B)
  <2>1. f \in [A -> B]
    BY <1>3
  <2>2. ASSUME NEW a \in A, NEW b \in A, f[a] = f[b] PROVE a = b
    <3>1. a \in Nat /\ b \in Nat
      BY <1>1, <2>2 DEF Places
    <3> QED
      BY <1>1, <2>2, <3>1
  <2> QED
    BY <2>1, <2>2 DEF Injection, IsInjective
<1>5. IsFiniteSet(B)
  <2>1. m \in Int
    BY <1>1
  <2> QED
    BY <2>1, CountFinite
<1> HIDE DEF A, B, f
<1>6. Cardinality(A) <= Cardinality(B)
  BY <1>4, <1>5, FS_Injection
<1> QED
  BY <1>6 DEF A, B, CountIn, new

\* Of a list that has nobody twice, no more rows of `who` than people in it.
LEMMA CountBounded ==
  ASSUME NEW S, NEW list \in Seq(S), IsInjective(list),
         NEW who, IsFiniteSet(who), NEW j \in 0..Len(list)
  PROVE  CountIn(list, who, j) <= Cardinality(who)
<1> DEFINE A == Places(list, who, j)
           f == [k \in A |-> list[k]]
<1>1. DOMAIN list = 1..Len(list) /\ Len(list) \in Nat
  BY LenProperties
<1>2. f \in Injection(A, who)
  BY <1>1 DEF Injection, IsInjective, Places
<1>3. Cardinality(A) <= Cardinality(who)
  BY <1>2, FS_Injection
<1> QED
  BY <1>3 DEF CountIn

\* A list that has nobody twice has nobody twice with somebody new.
LEMMA InsertKeepsApart ==
  ASSUME NEW S, NEW list \in Seq(S), IsInjective(list),
         NEW i \in 1..Len(list) + 1, NEW p \in S \ ToSet(list)
  PROVE  IsInjective(InsertAt(list, i, p))
<1> DEFINE new == InsertAt(list, i, p)
<1>1. PICK n \in Nat : n = Len(list) /\ DOMAIN list = 1..n
  BY LenProperties
<1>2. /\ new \in Seq(S) /\ Len(new) = n + 1
      /\ \A k \in 1..n + 1 :
           new[k] = IF k < i THEN list[k] ELSE IF k = i THEN p ELSE list[k - 1]
  BY <1>1, Inserted
<1> HIDE DEF new
<1>3. DOMAIN new = 1..n + 1
  BY <1>2, LenProperties
<1>4. /\ \A k \in 1..n : list[k] # p
      /\ \A a, b \in 1..n : list[a] = list[b] => a = b
  BY <1>1 DEF ToSet, IsInjective
<1> DEFINE old(k) == IF k < i THEN k ELSE k - 1
<1>5. \A k \in (1..n + 1) \ {i} : old(k) \in 1..n /\ new[k] = list[old(k)]
  BY <1>1, <1>2
<1>6. \A a, b \in (1..n + 1) \ {i} : old(a) = old(b) => a = b
  BY <1>1
<1>7. new[i] = p
  BY <1>1, <1>2
<1> HIDE DEF old
<1>8. ASSUME NEW a \in 1..n + 1, NEW b \in 1..n + 1, new[a] = new[b]
      PROVE  a = b
  BY <1>4, <1>5, <1>6, <1>7, <1>8
<1> QED
  BY <1>3, <1>8 DEF IsInjective, new

\* Nor with somebody less.
LEMMA RemoveKeepsApart ==
  ASSUME NEW S, NEW list \in Seq(S), IsInjective(list), NEW i \in DOMAIN list
  PROVE  IsInjective(RemoveAt(list, i))
<1> DEFINE new == RemoveAt(list, i)
<1>1. PICK n \in Nat : n = Len(list) /\ DOMAIN list = 1..n
  BY LenProperties
<1>2. /\ new \in Seq(S) /\ Len(new) = n - 1
      /\ \A k \in 1..n - 1 :
           new[k] = IF k < i THEN list[k] ELSE list[k + 1]
  BY <1>1, Removed
<1> HIDE DEF new
<1>3. DOMAIN new = 1..n - 1
  BY <1>2, LenProperties
<1>4. \A a, b \in 1..n : list[a] = list[b] => a = b
  BY <1>1 DEF IsInjective
<1> DEFINE old(k) == IF k < i THEN k ELSE k + 1
<1>5. \A k \in 1..n - 1 : old(k) \in 1..n /\ new[k] = list[old(k)]
  BY <1>1, <1>2
<1>6. \A a, b \in 1..n - 1 : old(a) = old(b) => a = b
  BY <1>1
<1> HIDE DEF old
<1>7. ASSUME NEW a \in 1..n - 1, NEW b \in 1..n - 1, new[a] = new[b]
      PROVE  a = b
  BY <1>4, <1>5, <1>6, <1>7
<1> QED
  BY <1>3, <1>7 DEF IsInjective, new
-----------------------------------------------------------------------------
(* One traversal.                                                          *)

\* NamesItsRows and Expected, of a deployment and a list that they name.
Named(tool, s) ==
  tool \in KeyedByCode => ReachableScopeFor(s.profile) = "organization"

Owed(request, list, s) ==
  {p \in ToSet(list) \cap Matching[request.filter] :
     request.tool \in ScopedTools => Reaches(s, p)}

\* What the pages from the one after `page` on still have to bring: the rows
\* that were promised and have not come are all behind that page.
Behind(request, page, got, expected, list) ==
  \A j \in DOMAIN list :
    list[j] \in expected \ got =>
      page * request.size < CountIn(list, Matching[request.filter], j)

\* What a traversal under way was promised is still there, and what has not
\* come is on the page it goes on with or behind it.
Onward(w) ==
  walk[w].status = "going" =>
    /\ walk[w].expected \subseteq Owed(walk[w].request, rows, config)
    /\ Named(walk[w].request.tool, config) =>
         Behind(walk[w].request, walk[w].cursor.page - 1, walk[w].got,
                walk[w].expected, rows)

Complete(w) ==
  walk[w].status = "ended" /\ Named(walk[w].request.tool, config)
  => walk[w].expected \subseteq walk[w].got

Typed(w) ==
  /\ walk[w].request \in Request \cup {Null}
  /\ walk[w].status \in {"idle", "going", "ended"} \cup Refusals
  /\ IF walk[w].status = "going"
     THEN /\ walk[w].cursor.key \in 0..epoch
          /\ walk[w].cursor.page \in Nat \ {0}
          /\ walk[w].cursor.e \in 0..MaxClock + TTL
     ELSE walk[w].cursor = NoCursor
  /\ walk[w].page \in Nat /\ walk[w].calls \in Nat
  /\ walk[w].got \subseteq People
  /\ walk[w].expected \subseteq People

\* Jisr's list and the process, apart from the traversals.
Surroundings ==
  /\ config \in Deployments
  /\ epoch \in 0..MaxEpoch
  /\ clock \in 0..MaxClock
  /\ changes \in 0..MaxChanges
  /\ rows \in Seq(People)
  /\ IsInjective(rows)

WInv ==
  /\ IInv
  /\ Surroundings
  /\ \A w \in Walks : Typed(w) /\ Onward(w) /\ Complete(w)

\* The other half of KeptIsReached: of the lists that name their rows' owners,
\* a caller keeps every row that its profile reaches.
LEMMA ReachedIsKept ==
  ASSUME NEW tool, NEW p \in People, NEW s \in Settings,
         Named(tool, s), Reaches(s, p)
  PROVE  KeepsRow(tool, p, s)
<1> DEFINE who == Identify(tool, p)
<1>1. CASE ReachableScopeFor(s.profile) = "organization"
  BY <1>1 DEF KeepsRow
<1>2. CASE ReachableScopeFor(s.profile) # "organization"
  <2>1. who = [employeeId |-> Id(p), employeeCode |-> Code(p),
               lineManagerId |-> IF ManagerOf[p] = Null THEN Null
                                 ELSE Id(ManagerOf[p])]
    BY <1>2 DEF Named, Identify
  <2>2. /\ ReachableScopeFor(s.profile) \in {"self", "direct_reports"}
        /\ \/ s.subject = Id(p)
           \/ /\ ReachableScopeFor(s.profile) = "direct_reports"
              /\ ManagerOf[p] # Null /\ s.subject = Id(ManagerOf[p])
    BY <1>2 DEF Reaches, ReachableScopeFor
  <2>3. ManagerOf[p] # Null => ManagerOf[p] \in People
    BY AuthorizationAssumption
  <2>4. s.subject # Null
    BY <2>2, <2>3, IdentifierAssumption
  <2>5. \/ SameIdentifier(who.employeeId, s.subject)
        \/ /\ ReachableScopeFor(s.profile) = "direct_reports"
           /\ SameIdentifier(who.lineManagerId, s.subject)
    BY <2>1, <2>2, <2>4 DEF SameIdentifier
  <2> QED
    BY <2>2, <2>4, <2>5 DEF KeepsRow
<1> QED
  BY <1>1, <1>2

\* A read tool is refused with one of the codes of Refusals.
LEMMA ReadRefused ==
  ASSUME NEW tool, tool \notin WriteTools, NEW s \in Settings
  PROVE  AuthorizeTool(tool, s) \in {"available"} \cup Refusals
<1>1. NotEnabled(tool) = "TOOL_NOT_ENABLED"
  BY DEF NotEnabled, WriteTools
<1>2. ResolveCapability(tool, s) \in
        {"available", "JISR_PERMISSION_DENIED", "FINANCE_ACCESS_REQUIRED",
         "TOOL_NOT_ENABLED"}
  BY <1>1 DEF ResolveCapability
<1>3. AuthorizeTool(tool, s) \in {"available", ResolveCapability(tool, s)}
  BY DEF AuthorizeTool
<1> QED
  BY <1>2, <1>3 DEF Refusals

\* A list call is accepted or refused with a code of Refusals.
LEMMA VerdictIsRefusal ==
  ASSUME config \in Settings, NEW request \in Request, NEW cursor
  PROVE  Verdict(request, cursor) \in {"accepted"} \cup Refusals
<1> DEFINE authorization == AuthorizeTool(request.tool, config)
           decoded == DecodeCursor(cursor, CursorBinding(request, cursor))
<1>1. request.tool \notin WriteTools
  BY TraversalAssumption DEF Request
<1>2. authorization \in {"available"} \cup Refusals
  BY <1>1, ReadRefused
<1>3. decoded \in {"INVALID_CURSOR", "CURSOR_EXPIRED", "accepted"}
  BY DEF DecodeCursor
<1>4. Verdict(request, cursor)
        \in {authorization, "PAGE_SIZE_EXCEEDED", "accepted", decoded}
      /\ (authorization = "available" => Verdict(request, cursor) \in
            {"PAGE_SIZE_EXCEEDED", "accepted", decoded})
  BY DEF Verdict
<1> HIDE DEF authorization, decoded
<1> QED
  BY <1>2, <1>3, <1>4 DEF Refusals

\* What is left of a call's page once it is scoped, and what Serve leaves of
\* the traversal.
Kept(request, page) ==
  {p \in UpstreamPage(Matching[request.filter], page, request.size) :
     request.tool \in ScopedTools => KeepsRow(request.tool, p, config)}

Answered(w, request, cursor, page, before) ==
  \E next \in UpstreamNext(Matching[request.filter], page, request.size) :
    walk'[w] =
      [request  |-> request,
       status   |-> IF NextPageFrom(next, page) = Null
                    THEN "ended" ELSE "going",
       cursor   |-> IF NextPageFrom(next, page) = Null THEN NoCursor
                    ELSE EncodeCursor(CursorBinding(request, cursor),
                                      NextPageFrom(next, page)),
       page     |-> page,
       calls    |-> before.calls + 1,
       got      |-> before.got \cup Kept(request, page),
       expected |-> before.expected]

\* What a call builds on.
Promise(request, page, before) ==
  /\ request \in Request
  /\ ValidPageSize(request.size)
  /\ page \in Nat \ {0}
  /\ before.calls \in Nat
  /\ before.got \subseteq People
  /\ before.expected \subseteq Owed(request, rows, config)
  /\ Named(request.tool, config) =>
       Behind(request, page - 1, before.got, before.expected, rows)

\* Rank counts places in Jisr's list.
LEMMA RankIsCount ==
  ASSUME NEW who, NEW j
  PROVE  Rank(who, j) = CountIn(rows, who, j)
BY DEF Rank, CountIn, Places

\* The page of a call brings every promised row on it, so the rest is behind
\* it; and if there is no next page, there is no rest.
LEMMA PageBringsItsRows ==
  ASSUME Surroundings, config \in Settings,
         NEW request, NEW page, NEW before,
         Promise(request, page, before), Named(request.tool, config)
  PROVE  Behind(request, page, before.got \cup Kept(request, page),
                before.expected, rows)
<1> DEFINE who == Matching[request.filter]
           size == request.size
<1> SUFFICES ASSUME NEW j \in DOMAIN rows,
                    rows[j] \in before.expected,
                    rows[j] \notin before.got \cup Kept(request, page),
                    ~(page * size < CountIn(rows, who, j))
             PROVE  FALSE
  BY DEF Behind
<1>1. j \in 1..Len(rows) /\ Len(rows) \in Nat /\ rows[j] \in People
  BY LenProperties DEF Surroundings
<1>2. size \in Int /\ page \in Nat
  BY TraversalAssumption DEF Promise, ValidPageSize
<1>3. CountIn(rows, who, j) \in Nat
  BY <1>1, CountFinite
<1>4. rows[j] \in who /\ (request.tool \in ScopedTools
                          => Reaches(config, rows[j]))
  BY DEF Promise, Owed
<1>5. (page - 1) * size < CountIn(rows, who, j)
  BY DEF Promise, Behind
<1>6. CountIn(rows, who, j) <= page * size
  BY <1>2, <1>3
<1>7. rows[j] \in UpstreamPage(who, page, size)
  BY <1>4, <1>5, <1>6, RankIsCount DEF UpstreamPage
<1>8. request.tool \in ScopedTools => KeepsRow(request.tool, rows[j], config)
  BY <1>1, <1>4, ReachedIsKept
<1> QED
  BY <1>7, <1>8 DEF Kept

\* An accepted call leaves its traversal typed, and complete or going on.
LEMMA AnsweredKeeps ==
  ASSUME IInv, Surroundings, UNCHANGED <<config, epoch, clock, rows>>,
         NEW w, NEW request, NEW cursor, NEW page, NEW before,
         Promise(request, page, before),
         Answered(w, request, cursor, page, before)
  PROVE  Typed(w)' /\ Onward(w)' /\ Complete(w)'
<1> DEFINE who == Matching[request.filter]
           size == request.size
           got == before.got \cup Kept(request, page)
<1>1. PICK next \in UpstreamNext(who, page, size) :
        walk'[w] =
          [request  |-> request,
           status   |-> IF NextPageFrom(next, page) = Null
                        THEN "ended" ELSE "going",
           cursor   |-> IF NextPageFrom(next, page) = Null THEN NoCursor
                        ELSE EncodeCursor(CursorBinding(request, cursor),
                                          NextPageFrom(next, page)),
           page     |-> page,
           calls    |-> before.calls + 1,
           got      |-> got,
           expected |-> before.expected]
  BY DEF Answered
<1> DEFINE nextPage == NextPageFrom(next, page)
<1>2. config \in Settings
  BY DEF IInv, Process
<1>3. page \in Nat \ {0} /\ size \in Int
  BY TraversalAssumption DEF Promise, ValidPageSize
<1>4. /\ nextPage \in Nat \cup {Null}
      /\ nextPage # Null => nextPage > page
      /\ page * size < CountIn(rows, who, Len(rows)) => nextPage = page + 1
  <2>1. CASE page * size < Rank(who, Len(rows))
    <3>1. next = page + 1
      BY <2>1 DEF UpstreamNext
    <3> QED
      BY <1>3, <3>1, TraversalAssumption DEF NextPageFrom
  <2>2. CASE ~(page * size < Rank(who, Len(rows)))
    <3>1. next \in {Null} \cup 1..MaxNamed
      BY <2>2 DEF UpstreamNext
    <3> QED
      BY <1>3, <2>2, <3>1, RankIsCount, TraversalAssumption DEF NextPageFrom
  <2> QED
    BY <2>1, <2>2
<1> HIDE DEF nextPage
<1>5. /\ walk'[w].request = request
      /\ walk'[w].page = page
      /\ walk'[w].calls = before.calls + 1
      /\ walk'[w].got = got
      /\ walk'[w].expected = before.expected
      /\ nextPage = Null => walk'[w].status = "ended"
                            /\ walk'[w].cursor = NoCursor
      /\ nextPage # Null =>
           /\ walk'[w].status = "going"
           /\ walk'[w].cursor =
                EncodeCursor(CursorBinding(request, cursor), nextPage)
  BY <1>1 DEF nextPage
<1>6. ASSUME nextPage # Null
      PROVE  /\ walk'[w].cursor.key = epoch
             /\ walk'[w].cursor.page = nextPage
             /\ walk'[w].cursor.e = clock + TTL
  BY <1>5, <1>6 DEF EncodeCursor
<1>7. Kept(request, page) \subseteq People
  <2>1. \A j \in DOMAIN rows : rows[j] \in People
    BY LenProperties DEF Surroundings
  <2> QED
    BY <2>1 DEF Kept, UpstreamPage
<1>8. before.expected \subseteq People
  <2>1. ToSet(rows) \subseteq People
    BY LenProperties DEF Surroundings, ToSet
  <2> QED
    BY <2>1 DEF Promise, Owed
<1>9. Named(request.tool, config) =>
        Behind(request, page, got, before.expected, rows)
  BY <1>2, PageBringsItsRows
<1> HIDE DEF got
<1>10. ASSUME Named(request.tool, config), NEW j \in DOMAIN rows,
              rows[j] \in before.expected \ got
       PROVE  nextPage = page + 1
  <2>1. page * size < CountIn(rows, who, j)
    BY <1>9, <1>10 DEF Behind
  <2>2. j \in 1..Len(rows) /\ Len(rows) \in Nat
    BY LenProperties DEF Surroundings
  <2>3. /\ CountIn(rows, who, j) <= CountIn(rows, who, Len(rows))
        /\ CountIn(rows, who, j) \in Nat
        /\ CountIn(rows, who, Len(rows)) \in Nat
    BY <2>2, CountMonotone, CountFinite
  <2>4. page * size \in Int
    BY <1>3
  <2> QED
    BY <1>4, <2>1, <2>3, <2>4
<1>11. Typed(w)'
  <2>1. /\ got \subseteq People
        /\ request \in Request /\ before.calls + 1 \in Nat
    BY <1>7 DEF Promise, got
  <2>2. /\ epoch' = epoch /\ epoch \in Nat
        /\ clock \in 0..MaxClock /\ TTL \in Nat /\ MaxClock \in Nat
    BY TraversalAssumption DEF Surroundings, IInv, Process
  <2>3. CASE nextPage = Null
    BY <1>3, <1>5, <1>8, <2>1, <2>3 DEF Typed
  <2>4. CASE nextPage # Null
    <3>1. /\ walk'[w].cursor.key \in 0..epoch'
          /\ walk'[w].cursor.page \in Nat \ {0}
          /\ walk'[w].cursor.e \in 0..MaxClock + TTL
      BY <1>3, <1>4, <1>6, <2>2, <2>4
    <3> QED
      BY <1>3, <1>5, <1>8, <2>1, <2>4, <3>1 DEF Typed
  <2> QED
    BY <2>3, <2>4
<1>12. Onward(w)'
  <2>1. before.expected \subseteq Owed(request, rows, config)
    BY DEF Promise
  <2>2. CASE nextPage = Null
    BY <1>5, <2>2 DEF Onward
  <2>3. CASE nextPage # Null
    <3>1. ASSUME Named(request.tool, config)
          PROVE  Behind(request, nextPage - 1, got, before.expected, rows)
      <4> SUFFICES ASSUME NEW j \in DOMAIN rows,
                          rows[j] \in before.expected \ got
                   PROVE  (nextPage - 1) * size < CountIn(rows, who, j)
        BY DEF Behind
      <4>1. nextPage = page + 1 /\ nextPage - 1 = page
        BY <1>3, <1>10, <3>1
      <4> QED
        BY <1>9, <3>1, <4>1 DEF Behind
    <3> QED
      BY <1>5, <1>6, <2>1, <2>3, <3>1 DEF Onward
  <2> QED
    BY <2>2, <2>3
<1>13. Complete(w)'
  <2> SUFFICES ASSUME walk'[w].status = "ended", Named(request.tool, config)
               PROVE  before.expected \subseteq got
    BY <1>5 DEF Complete
  <2>1. nextPage = Null
    BY <1>5
  <2> SUFFICES ASSUME NEW p \in before.expected, p \notin got
               PROVE  FALSE
    OBVIOUS
  <2>2. PICK j \in DOMAIN rows : rows[j] = p
    BY DEF Promise, Owed, ToSet
  <2>3. nextPage = page + 1
    BY <1>10, <2>2
  <2> QED
    BY <1>3, <2>1, <2>3, TraversalAssumption
<1> QED
  BY <1>11, <1>12, <1>13
\* Serve answers one traversal.
LEMMA ServeAnswers ==
  ASSUME IInv, NEW w \in Walks, NEW request, NEW cursor, NEW page, NEW before,
         Serve(w, request, cursor, page, before)
  PROVE  /\ Answered(w, request, cursor, page, before)
         /\ \A v \in Walks \ {w} : walk'[v] = walk[v]
<1>1. walk = [v \in Walks |-> walk[v]]
  BY DEF IInv
<1>2. PICK next \in UpstreamNext(Matching[request.filter], page,
                                 request.size) :
        walk' = [walk EXCEPT ![w] =
          [request  |-> request,
           status   |-> IF NextPageFrom(next, page) = Null
                        THEN "ended" ELSE "going",
           cursor   |-> IF NextPageFrom(next, page) = Null THEN NoCursor
                        ELSE EncodeCursor(CursorBinding(request, cursor),
                                          NextPageFrom(next, page)),
           page     |-> page,
           calls    |-> before.calls + 1,
           got      |-> before.got \cup Kept(request, page),
           expected |-> before.expected]]
  BY DEF Serve, Kept
<1> QED
  BY <1>1, <1>2 DEF Answered

\* A traversal that a step leaves alone stays as it was.
LEMMA OthersKeep ==
  ASSUME UNCHANGED <<config, epoch, rows>>, NEW w, walk'[w] = walk[w],
         Typed(w) /\ Onward(w) /\ Complete(w)
  PROVE  Typed(w)' /\ Onward(w)' /\ Complete(w)'
BY DEF Typed, Onward, Complete

\* A call that is refused ends its traversal and owes it nothing.
LEMMA RefusedOwesNothing ==
  ASSUME NEW w, walk'[w].status \in Refusals, walk'[w].cursor = NoCursor,
         walk'[w].request \in Request \cup {Null},
         walk'[w].page \in Nat, walk'[w].calls \in Nat,
         walk'[w].got \subseteq People, walk'[w].expected \subseteq People
  PROVE  Typed(w)' /\ Onward(w)' /\ Complete(w)'
<1>1. walk'[w].status \notin {"going", "ended"}
  BY DEF Refusals
<1>2. Typed(w)'
  BY <1>1 DEF Typed
<1>3. Onward(w)' /\ Complete(w)'
  BY <1>1 DEF Onward, Complete
<1> QED
  BY <1>2, <1>3

\* A traversal that begins is promised what is there.
LEMMA StartOwes ==
  ASSUME WInv, NEW w \in Walks, Start(w)
  PROVE  \A v \in Walks : Typed(v)' /\ Onward(v)' /\ Complete(v)'
<1>1. PICK request \in Request :
        IF Verdict(request, NoCursor) = "accepted"
        THEN Serve(w, request, NoCursor, 1,
                   [NoWalk EXCEPT !.expected = Expected(request)])
        ELSE walk' = [walk EXCEPT ![w] = [NoWalk EXCEPT
                        !.request = request,
                        !.status = Verdict(request, NoCursor)]]
  BY DEF Start
<1>2. UNCHANGED <<config, epoch, clock, rows>>
  BY DEF Start
<1>3. /\ Process /\ IInv /\ Surroundings /\ config \in Settings
      /\ walk = [v \in Walks |-> walk[v]]
  BY DEF WInv, IInv, Process
<1>4. ASSUME \A v \in Walks \ {w} : walk'[v] = walk[v]
      PROVE  \A v \in Walks \ {w} : Typed(v)' /\ Onward(v)' /\ Complete(v)'
  BY <1>2, <1>4, OthersKeep DEF WInv
<1>5. CASE Verdict(request, NoCursor) = "accepted"
  <2> DEFINE before == [NoWalk EXCEPT !.expected = Expected(request)]
  <2>1. /\ before.calls = 0 /\ before.got = {}
        /\ before.expected = Expected(request)
    BY DEF NoWalk
  <2>2. Serve(w, request, NoCursor, 1, before)
    BY <1>1, <1>5
  <2> HIDE DEF before
  <2>3. Expected(request) = Owed(request, rows, config)
    BY DEF Expected, Owed
  <2>4. ValidPageSize(request.size) /\ request.size \in Int
    BY <1>3, <1>5, Verdicts, TraversalAssumption DEF Request
  <2>5. Behind(request, 1 - 1, before.got, before.expected, rows)
    <3> SUFFICES ASSUME NEW j \in DOMAIN rows, rows[j] \in before.expected
                 PROVE  0 < CountIn(rows, Matching[request.filter], j)
      BY <2>4 DEF Behind
    <3>1. j \in Nat \ {0}
      BY <1>3, LenProperties DEF Surroundings
    <3>2. rows[j] \in Matching[request.filter]
      BY <2>1, <2>3 DEF Owed
    <3>3. /\ CountIn(rows, Matching[request.filter], j) \in Nat
          /\ CountIn(rows, Matching[request.filter], j) >= 1
      BY <3>1, <3>2, CountPositive, CountFinite
    <3> QED
      BY <3>3
  <2>6. Promise(request, 1, before)
    BY <2>1, <2>3, <2>4, <2>5 DEF Promise
  <2>7. /\ Answered(w, request, NoCursor, 1, before)
        /\ \A v \in Walks \ {w} : walk'[v] = walk[v]
    BY <1>3, <2>2, ServeAnswers
  <2>8. Typed(w)' /\ Onward(w)' /\ Complete(w)'
    BY <1>2, <1>3, <2>6, <2>7, AnsweredKeeps
  <2> QED
    BY <1>4, <2>7, <2>8
<1>6. CASE Verdict(request, NoCursor) # "accepted"
  <2> DEFINE verdict == Verdict(request, NoCursor)
  <2>1. walk' = [walk EXCEPT ![w] = [NoWalk EXCEPT !.request = request,
                                                  !.status = verdict]]
    BY <1>1, <1>6
  <2>2. verdict \in Refusals
    BY <1>3, <1>6, VerdictIsRefusal
  <2> HIDE DEF verdict
  <2>3. /\ walk'[w].status = verdict /\ walk'[w].cursor = NoCursor
        /\ walk'[w].request = request
        /\ walk'[w].page = 0 /\ walk'[w].calls = 0
        /\ walk'[w].got = {} /\ walk'[w].expected = {}
        /\ \A v \in Walks \ {w} : walk'[v] = walk[v]
    BY <1>3, <2>1 DEF NoWalk
  <2>4. Typed(w)' /\ Onward(w)' /\ Complete(w)'
    BY <2>2, <2>3, RefusedOwesNothing
  <2> QED
    BY <1>4, <2>3, <2>4
<1> QED
  BY <1>5, <1>6

\* A call with a cursor, the right one or a wrong one, that is refused.
LEMMA RefusedKeeps ==
  ASSUME WInv, NEW w \in Walks, UNCHANGED <<config, epoch, clock, rows>>,
         NEW verdict \in Refusals,
         walk' = [walk EXCEPT ![w].status = verdict, ![w].cursor = NoCursor]
  PROVE  \A v \in Walks : Typed(v)' /\ Onward(v)' /\ Complete(v)'
<1>1. walk = [v \in Walks |-> walk[v]] /\ Shaped(w) /\ Typed(w)
  BY DEF WInv, IInv
<1>2. /\ walk'[w].status = verdict /\ walk'[w].cursor = NoCursor
      /\ walk'[w].request = walk[w].request
      /\ walk'[w].page = walk[w].page /\ walk'[w].calls = walk[w].calls
      /\ walk'[w].got = walk[w].got
      /\ walk'[w].expected = walk[w].expected
      /\ \A v \in Walks \ {w} : walk'[v] = walk[v]
  BY <1>1 DEF Shaped
<1>3. Typed(w)' /\ Onward(w)' /\ Complete(w)'
  BY <1>1, <1>2, RefusedOwesNothing DEF Typed
<1>4. \A v \in Walks \ {w} : Typed(v)' /\ Onward(v)' /\ Complete(v)'
  BY <1>2, OthersKeep DEF WInv
<1> QED
  BY <1>3, <1>4

\* The traversal's own cursor leads to the next page.
LEMMA ContinueOwes ==
  ASSUME WInv, NEW w \in Walks, Continue(w)
  PROVE  \A v \in Walks : Typed(v)' /\ Onward(v)' /\ Complete(v)'
<1> DEFINE request == walk[w].request
           cursor == walk[w].cursor
<1>1. /\ walk[w].status = "going"
      /\ UNCHANGED <<config, epoch, clock, rows>>
      /\ Present(w, cursor)
  BY DEF Continue
<1>2. /\ IInv /\ Surroundings /\ config \in Settings
      /\ Typed(w) /\ Onward(w) /\ Resumable(w)
  BY DEF WInv, IInv, Process
<1>3. request \in Request
  BY <1>1, <1>2 DEF Resumable
<1>4. CASE Verdict(request, cursor) = "accepted"
  <2>1. Serve(w, request, cursor, cursor.page, walk[w])
    BY <1>1, <1>4 DEF Present
  <2>3. Promise(request, cursor.page, walk[w])
    BY <1>1, <1>2, <1>3 DEF Promise, Onward, Typed, Resumable
  <2>4. /\ Answered(w, request, cursor, cursor.page, walk[w])
        /\ \A v \in Walks \ {w} : walk'[v] = walk[v]
    BY <1>2, <2>1, ServeAnswers
  <2>5. Typed(w)' /\ Onward(w)' /\ Complete(w)'
    BY <1>1, <1>2, <2>3, <2>4, AnsweredKeeps
  <2>6. \A v \in Walks \ {w} : Typed(v)' /\ Onward(v)' /\ Complete(v)'
    BY <1>1, <2>4, OthersKeep DEF WInv
  <2> QED
    BY <2>5, <2>6
<1>5. CASE Verdict(request, cursor) # "accepted"
  <2>1. walk' = [walk EXCEPT ![w].status = Verdict(request, cursor),
                             ![w].cursor = NoCursor]
    BY <1>1, <1>5 DEF Present
  <2>2. Verdict(request, cursor) \in Refusals
    BY <1>2, <1>3, <1>5, VerdictIsRefusal
  <2> QED
    BY <1>1, <2>1, <2>2, RefusedKeeps
<1> QED
  BY <1>4, <1>5

\* A cursor of another request is refused.
LEMMA MistakeOwes ==
  ASSUME WInv, NEW w \in Walks, Mistake(w)
  PROVE  \A v \in Walks : Typed(v)' /\ Onward(v)' /\ Complete(v)'
<1> DEFINE request == walk[w].request
<1>1. PICK other \in Request \ {request}, page \in 2..Cardinality(People),
           e \in clock..clock + TTL :
        Present(w, [key |-> epoch, binding |-> CursorBinding(other, NoCursor),
                    page |-> page, e |-> e])
  BY DEF Mistake
<1> DEFINE cursor == [key |-> epoch, page |-> page, e |-> e,
                      binding |-> CursorBinding(other, NoCursor)]
<1>2. /\ Process /\ UNCHANGED <<config, epoch, clock, rows>>
      /\ request \in Request /\ config \in Settings
  BY DEF WInv, IInv, Mistake, Resumable, Process
<1>3. page \in Nat /\ e \in Nat /\ epoch \in Nat
  BY <1>2, FS_CardinalityType, TraversalAssumption DEF Process
<1>4. Verdict(request, cursor) # "accepted"
  BY <1>2, <1>3, OtherCursorRefused
<1>5. walk' = [walk EXCEPT ![w].status = Verdict(request, cursor),
                           ![w].cursor = NoCursor]
  BY <1>1, <1>4 DEF Present
<1>6. Verdict(request, cursor) \in Refusals
  BY <1>2, <1>4, VerdictIsRefusal
<1> HIDE DEF request, cursor
<1> QED
  BY <1>2, <1>5, <1>6, RefusedKeeps

\* A row that is added is promised to nobody and puts no promised row before
\* the pages that are still to come.
LEMMA ArrivesOwes ==
  ASSUME WInv, Arrives
  PROVE  /\ Surroundings'
         /\ \A v \in Walks : Typed(v)' /\ Onward(v)' /\ Complete(v)'
<1>1. PICK p \in People \ ToSet(rows) :
        \E i \in 1..Len(rows) + 1 : rows' = InsertAt(rows, i, p)
  BY DEF Arrives
<1>2. PICK i \in 1..Len(rows) + 1 : rows' = InsertAt(rows, i, p)
  BY <1>1
<1>3. /\ UNCHANGED <<config, epoch, clock, walk>>
      /\ changes < MaxChanges /\ changes' = changes + 1
  BY DEF Arrives
<1>4. Surroundings /\ rows \in Seq(People) /\ IsInjective(rows)
  BY DEF WInv, Surroundings
<1>5. /\ rows' \in Seq(People)
      /\ Len(rows') = Len(rows) + 1
      /\ \A k \in 1..Len(rows) + 1 :
           rows'[k] = IF k < i THEN rows[k]
                      ELSE IF k = i THEN p ELSE rows[k - 1]
  BY <1>2, <1>4, Inserted
<1>6. IsInjective(rows')
  BY <1>2, <1>4, InsertKeepsApart
<1>7. Len(rows) \in Nat /\ DOMAIN rows = 1..Len(rows)
      /\ DOMAIN rows' = 1..Len(rows) + 1
  BY <1>4, <1>5, LenProperties
<1>8. Surroundings'
  <2>1. changes' \in 0..MaxChanges
    BY <1>3, <1>4, TraversalAssumption DEF Surroundings
  <2> QED
    BY <1>3, <1>4, <1>5, <1>6, <2>1 DEF Surroundings
<1>9. ToSet(rows) \subseteq ToSet(rows')
  <2> SUFFICES ASSUME NEW k \in 1..Len(rows)
               PROVE  rows[k] \in ToSet(rows')
    BY <1>7 DEF ToSet
  <2>1. CASE k < i
    <3>1. k \in 1..Len(rows) + 1 /\ rows'[k] = rows[k]
      BY <1>5, <1>7, <2>1
    <3> QED
      BY <1>7, <3>1 DEF ToSet
  <2>2. CASE ~(k < i)
    <3>1. k + 1 \in 1..Len(rows) + 1 /\ (k + 1) - 1 = k
      BY <1>7
    <3>2. rows'[k + 1] = rows[k]
      BY <1>5, <1>7, <2>2, <3>1
    <3> QED
      BY <1>7, <3>1, <3>2 DEF ToSet
  <2> QED
    BY <2>1, <2>2
<1>10. ASSUME NEW w \in Walks PROVE Typed(w)' /\ Onward(w)' /\ Complete(w)'
  <2>1. Typed(w) /\ Onward(w) /\ Complete(w)
    BY DEF WInv
  <2>2. Typed(w)' /\ Complete(w)'
    BY <1>3, <2>1 DEF Typed, Complete
  <2>3. ASSUME walk[w].status = "going" PROVE Onward(w)'
    <3> DEFINE request == walk[w].request
               who == Matching[request.filter]
               before == walk[w].cursor.page - 1
    <3>1. walk[w].expected \subseteq Owed(request, rows, config)
      BY <2>1, <2>3 DEF Onward
    <3>2. walk[w].expected \subseteq Owed(request, rows', config)
      BY <1>9, <3>1 DEF Owed
    <3>3. ASSUME Named(request.tool, config)
          PROVE  Behind(request, before, walk[w].got, walk[w].expected,
                        rows')
      <4> SUFFICES ASSUME NEW m \in 1..Len(rows) + 1,
                          rows'[m] \in walk[w].expected \ walk[w].got
                   PROVE  before * request.size < CountIn(rows', who, m)
        BY <1>7 DEF Behind
      <4>1. rows'[m] \in ToSet(rows)
        BY <3>1 DEF Owed
      <4>2. m # i
        BY <1>1, <1>5, <4>1
      <4> DEFINE j == IF m < i THEN m ELSE m - 1
      <4>3. /\ j \in 1..Len(rows) /\ rows'[m] = rows[j]
            /\ m = IF j < i THEN j ELSE j + 1
        BY <1>5, <1>7, <4>2
      <4> HIDE DEF j
      <4>4. before * request.size < CountIn(rows, who, j)
        BY <1>7, <2>1, <2>3, <3>3, <4>3 DEF Onward, Behind
      <4>5. CountIn(rows, who, j) <= CountIn(rows', who, m)
        BY <1>2, <1>4, <4>3, CountGrows
      <4>6. /\ CountIn(rows, who, j) \in Nat /\ CountIn(rows', who, m) \in Nat
        BY <1>7, <4>3, CountFinite
      <4>7. before * request.size \in Int
        <5>1. request \in Request /\ walk[w].cursor.page \in Nat
          BY <2>1, <2>3 DEF WInv, IInv, Resumable, Typed
        <5>2. request.size \in Int
          BY <5>1, TraversalAssumption DEF Request
        <5> QED
          BY <5>1, <5>2
      <4> QED
        BY <4>4, <4>5, <4>6, <4>7
    <3> QED
      BY <1>3, <2>1, <2>3, <3>2, <3>3 DEF Onward
  <2>4. ASSUME walk[w].status # "going" PROVE Onward(w)'
    BY <1>3, <2>4 DEF Onward
  <2> QED
    BY <2>2, <2>3, <2>4
<1> QED
  BY <1>8, <1>10

\* Once a row has gone, a traversal under way is promised nothing.
LEMMA LeavesOwes ==
  ASSUME WInv, Leaves
  PROVE  /\ Surroundings'
         /\ \A v \in Walks : Typed(v)' /\ Onward(v)' /\ Complete(v)'
<1>1. PICK i \in DOMAIN rows : rows' = RemoveAt(rows, i)
  BY DEF Leaves
<1>2. /\ UNCHANGED <<config, epoch, clock>>
      /\ changes < MaxChanges /\ changes' = changes + 1
      /\ walk' = [w \in Walks |-> IF walk[w].status = "going"
                                  THEN [walk[w] EXCEPT !.expected = {}]
                                  ELSE walk[w]]
  BY DEF Leaves
<1>3. Surroundings /\ rows \in Seq(People) /\ IsInjective(rows)
  BY DEF WInv, Surroundings
<1>4. rows' \in Seq(People) /\ IsInjective(rows')
  BY <1>1, <1>3, Removed, RemoveKeepsApart
<1>5. Surroundings'
  <2>1. changes' \in 0..MaxChanges
    BY <1>2, <1>3, TraversalAssumption DEF Surroundings
  <2> QED
    BY <1>2, <1>3, <1>4, <2>1 DEF Surroundings
<1>6. ASSUME NEW w \in Walks PROVE Typed(w)' /\ Onward(w)' /\ Complete(w)'
  <2>1. Typed(w) /\ Onward(w) /\ Complete(w) /\ Shaped(w)
    BY DEF WInv, IInv
  <2>2. CASE walk[w].status # "going"
    <3>1. walk'[w] = walk[w]
      BY <1>2, <2>2
    <3> QED
      BY <1>2, <2>1, <2>2, <3>1 DEF Typed, Onward, Complete
  <2>3. CASE walk[w].status = "going"
    <3>1. walk'[w] = [walk[w] EXCEPT !.expected = {}]
      BY <1>2, <2>3
    <3>2. walk'[w] = [request  |-> walk[w].request,
                      status   |-> walk[w].status,
                      cursor   |-> walk[w].cursor,
                      page     |-> walk[w].page,
                      calls    |-> walk[w].calls,
                      got      |-> walk[w].got,
                      expected |-> {}]
      BY <2>1, <3>1 DEF Shaped
    <3>3. Typed(w)'
      BY <1>2, <2>1, <2>3, <3>2 DEF Typed
    <3>4. Onward(w)'
      BY <2>1, <2>3, <3>2 DEF Onward, Behind
    <3>5. Complete(w)'
      BY <2>3, <3>2 DEF Complete
    <3> QED
      BY <3>3, <3>4, <3>5
  <2> QED
    BY <2>2, <2>3
<1> QED
  BY <1>5, <1>6

\* The invariant holds at first.
LEMMA WholeInit == Init => WInv
<1> SUFFICES ASSUME Init PROVE WInv
  OBVIOUS
<1>1. IInv
  BY InitHolds
<1>2. Surroundings
  BY TraversalAssumption DEF Init, Surroundings
<1>3. ASSUME NEW w \in Walks PROVE Typed(w) /\ Onward(w) /\ Complete(w)
  <2>1. walk[w] = NoWalk
    BY DEF Init
  <2> QED
    BY <2>1 DEF NoWalk, Typed, Onward, Complete
<1> QED
  BY <1>1, <1>2, <1>3 DEF WInv

\* Every step keeps it.
LEMMA WholeStep == WInv /\ [Next]_vars => WInv'
<1> SUFFICES ASSUME WInv, [Next]_vars PROVE WInv'
  OBVIOUS
<1>1. IInv'
  BY StepHolds DEF WInv
<1>2. Surroundings /\ \A w \in Walks : Typed(w) /\ Onward(w) /\ Complete(w)
  BY DEF WInv
<1>3. ASSUME UNCHANGED <<config, epoch, clock, rows, changes>>
      PROVE  Surroundings'
  BY <1>2, <1>3 DEF Surroundings
<1>4. ASSUME NEW w \in Walks, Start(w) PROVE WInv'
  BY <1>1, <1>3, <1>4, StartOwes DEF WInv, Start
<1>5. ASSUME NEW w \in Walks, Continue(w) PROVE WInv'
  BY <1>1, <1>3, <1>5, ContinueOwes DEF WInv, Continue
<1>6. ASSUME NEW w \in Walks, Mistake(w) PROVE WInv'
  BY <1>1, <1>3, <1>6, MistakeOwes DEF WInv, Mistake
<1>7. CASE Arrives
  BY <1>1, <1>7, ArrivesOwes DEF WInv
<1>8. CASE Leaves
  BY <1>1, <1>8, LeavesOwes DEF WInv
<1>9. CASE Tick
  <2>1. UNCHANGED <<config, epoch, rows, changes, walk>>
        /\ clock' \in 0..MaxClock
    BY <1>2, <1>9, TraversalAssumption DEF Tick, Surroundings
  <2>2. \A w \in Walks : Typed(w)' /\ Onward(w)' /\ Complete(w)'
    BY <1>2, <2>1, OthersKeep
  <2>3. Surroundings'
    BY <1>2, <2>1 DEF Surroundings
  <2> QED
    BY <1>1, <2>2, <2>3 DEF WInv
<1>10. CASE Restart
  <2>1. UNCHANGED <<config, clock, rows, changes, walk>>
        /\ epoch' \in 0..MaxEpoch /\ epoch \in Nat /\ epoch' = epoch + 1
    BY <1>2, <1>10, TraversalAssumption DEF Restart, Surroundings
  <2>2. ASSUME NEW w \in Walks PROVE Typed(w)' /\ Onward(w)' /\ Complete(w)'
    <3>1. 0..epoch \subseteq 0..epoch'
      BY <2>1
    <3>2. Typed(w)'
      BY <1>2, <2>1, <3>1 DEF Typed
    <3> QED
      BY <1>2, <2>1, <3>2 DEF Onward, Complete
  <2>3. Surroundings'
    BY <1>2, <2>1 DEF Surroundings
  <2> QED
    BY <1>1, <2>2, <2>3 DEF WInv
<1>11. CASE UNCHANGED vars
  <2>1. UNCHANGED <<config, epoch, clock, rows, changes, walk>>
    BY <1>11 DEF vars
  <2> QED
    BY <1>1, <1>2, <1>3, <2>1, OthersKeep DEF WInv
<1> QED
  BY <1>4, <1>5, <1>6, <1>7, <1>8, <1>9, <1>10, <1>11 DEF Next

\* So it always holds.
LEMMA WInvHolds == Spec => []WInv
  BY WholeInit, WholeStep, PTL DEF Spec

\* The state of a traversal is typed as the model says, for any organization.
THEOREM TypeCorrect == Spec => []TypeOK
<1>1. WInv => TypeOK
  BY DEF WInv, Surroundings, Typed, TypeOK
<1> QED
  BY <1>1, WInvHolds, PTL

\* A traversal that ends has returned every row of its caller that was there
\* all along, for every list, every page size, filter, profile and chain of
\* managers, however many rows are added before, on or behind the pages
\* already read, and whatever cursors are presented by mistake (the list
\* services, nextPageFrom, decodeCursor, scopeToReachable).
THEOREM WalkIsWholeHolds == Spec => []WalkIsWhole
<1>1. WInv => WalkIsWhole
  <2>1. \A tool : NamesItsRows(tool) <=> Named(tool, config)
    BY DEF NamesItsRows, Named
  <2> QED
    BY <2>1 DEF WInv, Complete, WalkIsWhole
<1> QED
  BY <1>1, WInvHolds, PTL

-----------------------------------------------------------------------------
(* What a traversal cannot do.                                             *)

\* What an accepted call leaves of its traversal.
LEMMA AnsweredFacts ==
  ASSUME Surroundings, NEW w, NEW request \in Request, NEW cursor,
         NEW page \in Nat \ {0}, NEW before, request.size \in Int,
         Answered(w, request, cursor, page, before)
  PROVE  /\ walk'[w].request = request /\ walk'[w].page = page
         /\ walk'[w].calls = before.calls + 1
         /\ walk'[w].got = before.got \cup Kept(request, page)
         /\ walk'[w].status = "going" =>
              \E next \in Nat :
                walk'[w].cursor =
                  EncodeCursor(CursorBinding(request, cursor), next)
<1> DEFINE who == Matching[request.filter]
           size == request.size
<1>1. PICK next \in UpstreamNext(who, page, size) :
        walk'[w] =
          [request  |-> request,
           status   |-> IF NextPageFrom(next, page) = Null
                        THEN "ended" ELSE "going",
           cursor   |-> IF NextPageFrom(next, page) = Null THEN NoCursor
                        ELSE EncodeCursor(CursorBinding(request, cursor),
                                          NextPageFrom(next, page)),
           page     |-> page,
           calls    |-> before.calls + 1,
           got      |-> before.got \cup Kept(request, page),
           expected |-> before.expected]
  BY DEF Answered
<1>2. NextPageFrom(next, page) \in Nat \cup {Null}
  BY NextPageIsBeyond
<1> QED
  BY <1>1, <1>2

\* A list that does not name its rows' owners leaves a scoped caller nothing:
\* a code is never a UUID.
LEMMA UnnamedIsDropped ==
  ASSUME config \in Settings, NEW request, NEW page,
         ~Named(request.tool, config)
  PROVE  Kept(request, page) = {}
<1> SUFFICES ASSUME NEW p, KeepsRow(request.tool, p, config)
             PROVE  FALSE
  BY DEF Kept, Named, ScopedTools
<1>1. /\ request.tool \in KeyedByCode
      /\ ReachableScopeFor(config.profile) # "organization"
  BY DEF Named
<1>2. SameIdentifier(Code(p), config.subject)
  BY <1>1 DEF KeepsRow, Identify, SameIdentifier
<1>3. config.subject \in {Id(q) : q \in People} \cup {Null}
  BY DEF Settings
<1> QED
  BY <1>2, <1>3 DEF SameIdentifier, Id, Code

\* The cursor that a request without one was answered with.
OwnCursors(request) ==
  [key : Nat, page : Nat, e : Nat, binding : {CursorBinding(request, NoCursor)}]

\* No traversal of the payables gets beyond its first page, and none of a list
\* that does not say whose its rows are brings a scoped caller anything.
Limits(w) ==
  /\ walk[w].status = "going" => walk[w].cursor \in OwnCursors(walk[w].request)
  /\ walk[w].page > 1 => walk[w].request.tool # Payables
  /\ ~Named(walk[w].request.tool, config) => walk[w].got = {}

LInv == WInv /\ \A w \in Walks : Limits(w)

LEMMA AnsweredLimits ==
  ASSUME IInv, Surroundings, UNCHANGED <<config, epoch, clock>>,
         NEW w, NEW request \in Request, NEW cursor,
         NEW page \in Nat \ {0}, NEW before, request.size \in Nat,
         Answered(w, request, cursor, page, before),
         ~Named(request.tool, config) => before.got = {},
         CursorBinding(request, cursor) = CursorBinding(request, NoCursor),
         page > 1 => request.tool # Payables
  PROVE  Limits(w)'
<1>1. /\ walk'[w].request = request /\ walk'[w].page = page
      /\ walk'[w].got = before.got \cup Kept(request, page)
      /\ walk'[w].status = "going" =>
           \E next \in Nat :
             walk'[w].cursor =
               EncodeCursor(CursorBinding(request, cursor), next)
  BY AnsweredFacts
<1>2. /\ epoch \in Nat /\ clock \in Nat /\ clock + TTL \in Nat
      /\ config \in Settings
  BY TraversalAssumption DEF IInv, Process
<1>3. ASSUME walk'[w].status = "going"
      PROVE  walk'[w].cursor \in OwnCursors(request)
  <2>1. PICK next \in Nat :
          walk'[w].cursor = EncodeCursor(CursorBinding(request, cursor), next)
    BY <1>1, <1>3
  <2> QED
    BY <1>2, <2>1 DEF EncodeCursor, OwnCursors
<1>4. ~Named(request.tool, config) => walk'[w].got = {}
  BY <1>1, <1>2, UnnamedIsDropped
<1> QED
  BY <1>1, <1>3, <1>4 DEF Limits, Named, OwnCursors, CursorBinding, HashFilters

\* A traversal that goes on as it was, or was refused, is within its limits.
LEMMA LimitsStay ==
  ASSUME NEW w, Limits(w), UNCHANGED config,
         walk'[w].page = walk[w].page /\ walk'[w].got = walk[w].got,
         walk'[w].request = walk[w].request,
         walk'[w].status = "going" =>
           walk[w].status = "going" /\ walk'[w].cursor = walk[w].cursor
  PROVE  Limits(w)'
BY DEF Limits, Named, OwnCursors, CursorBinding, HashFilters

LEMMA StartLimits ==
  ASSUME LInv, NEW w \in Walks, Start(w)
  PROVE  \A v \in Walks : Limits(v)'
<1>1. PICK request \in Request :
        IF Verdict(request, NoCursor) = "accepted"
        THEN Serve(w, request, NoCursor, 1,
                   [NoWalk EXCEPT !.expected = Expected(request)])
        ELSE walk' = [walk EXCEPT ![w] = [NoWalk EXCEPT
                        !.request = request,
                        !.status = Verdict(request, NoCursor)]]
  BY DEF Start
<1>2. /\ UNCHANGED <<config, epoch, clock, rows>>
      /\ Process /\ IInv /\ Surroundings
      /\ walk = [v \in Walks |-> walk[v]]
  BY DEF Start, LInv, WInv, IInv
<1>3. ASSUME \A v \in Walks \ {w} : walk'[v] = walk[v]
      PROVE  \A v \in Walks \ {w} : Limits(v)'
  BY <1>2, <1>3, LimitsStay DEF LInv
<1>4. CASE Verdict(request, NoCursor) = "accepted"
  <2> DEFINE before == [NoWalk EXCEPT !.expected = Expected(request)]
  <2>1. before.got = {}
    BY DEF NoWalk
  <2>2. Serve(w, request, NoCursor, 1, before)
    BY <1>1, <1>4
  <2> HIDE DEF before
  <2>3. request.size \in Nat /\ 1 \in Nat \ {0} /\ ~(1 > 1)
    BY <1>2, <1>4, Verdicts, TraversalAssumption DEF ValidPageSize
  <2>4. /\ Answered(w, request, NoCursor, 1, before)
        /\ \A v \in Walks \ {w} : walk'[v] = walk[v]
    BY <1>2, <2>2, ServeAnswers
  <2>5. Limits(w)'
    BY <1>2, <2>1, <2>3, <2>4, AnsweredLimits
  <2> QED
    BY <1>3, <2>4, <2>5
<1>5. CASE Verdict(request, NoCursor) # "accepted"
  <2> DEFINE verdict == Verdict(request, NoCursor)
  <2>1. walk' = [walk EXCEPT ![w] = [NoWalk EXCEPT !.request = request,
                                                  !.status = verdict]]
    BY <1>1, <1>5
  <2>2. verdict # "going"
    BY <1>2, Verdicts
  <2> HIDE DEF verdict
  <2>3. /\ walk'[w].status = verdict /\ walk'[w].page = 0
        /\ walk'[w].got = {}
        /\ \A v \in Walks \ {w} : walk'[v] = walk[v]
    BY <1>2, <2>1 DEF NoWalk
  <2>4. Limits(w)'
    BY <2>2, <2>3 DEF Limits
  <2> QED
    BY <1>3, <2>3, <2>4
<1> QED
  BY <1>4, <1>5

\* A call with some cursor that is refused.
LEMMA RefusedLimits ==
  ASSUME LInv, NEW w \in Walks, UNCHANGED config,
         NEW verdict, verdict # "going",
         walk' = [walk EXCEPT ![w].status = verdict, ![w].cursor = NoCursor]
  PROVE  \A v \in Walks : Limits(v)'
<1>1. walk = [v \in Walks |-> walk[v]] /\ Shaped(w)
  BY DEF LInv, WInv, IInv
<1>2. /\ walk'[w].status = verdict
      /\ walk'[w].request = walk[w].request
      /\ walk'[w].page = walk[w].page /\ walk'[w].got = walk[w].got
      /\ \A v \in Walks \ {w} : walk'[v] = walk[v]
  BY <1>1 DEF Shaped
<1> QED
  BY <1>2, LimitsStay DEF LInv

LEMMA ContinueLimits ==
  ASSUME LInv, NEW w \in Walks, Continue(w)
  PROVE  \A v \in Walks : Limits(v)'
<1> DEFINE request == walk[w].request
           cursor == walk[w].cursor
<1>1. /\ walk[w].status = "going"
      /\ UNCHANGED <<config, epoch, clock, rows>>
      /\ Present(w, cursor)
  BY DEF Continue
<1>2. /\ Process /\ IInv /\ Surroundings /\ Onward(w) /\ Limits(w)
      /\ Typed(w) /\ Resumable(w)
  BY DEF LInv, WInv, IInv
<1>3. request \in Request /\ request.size \in Nat
  BY <1>1, <1>2, TraversalAssumption DEF Resumable, ValidPageSize
<1>4. /\ cursor # NoCursor
      /\ cursor.binding = CursorBinding(request, NoCursor)
  BY <1>1, <1>2, <1>3, NoCursorAssumption DEF Limits, OwnCursors
<1>5. CASE Verdict(request, cursor) = "accepted"
  <2>1. Serve(w, request, cursor, cursor.page, walk[w])
    BY <1>1, <1>5 DEF Present
  <2>2. CursorBinding(request, cursor) = CursorBinding(request, NoCursor)
    BY <1>2, <1>3, <1>4, <1>5, Verdicts
  <2>3. request.tool # Payables
    BY <1>4, <2>2 DEF CursorBinding, HashFilters, Payables
  <2>4. cursor.page \in Nat \ {0}
    BY <1>1, <1>2 DEF Typed
  <2>6. /\ Answered(w, request, cursor, cursor.page, walk[w])
        /\ \A v \in Walks \ {w} : walk'[v] = walk[v]
    BY <1>2, <2>1, ServeAnswers
  <2>7. ~Named(request.tool, config) => walk[w].got = {}
    BY <1>2 DEF Limits
  <2>8. Limits(w)'
    <3> HIDE DEF request, cursor
    <3> QED
      BY <1>1, <1>2, <1>3, <2>2, <2>3, <2>4, <2>6, <2>7, AnsweredLimits
  <2>9. \A v \in Walks \ {w} : Limits(v)'
    BY <1>1, <2>6, LimitsStay DEF LInv
  <2> QED
    BY <2>8, <2>9
<1>6. CASE Verdict(request, cursor) # "accepted"
  <2>1. walk' = [walk EXCEPT ![w].status = Verdict(request, cursor),
                             ![w].cursor = NoCursor]
    BY <1>1, <1>6 DEF Present
  <2>2. Verdict(request, cursor) # "going"
    BY <1>2, <1>3, Verdicts
  <2> QED
    BY <1>1, <2>1, <2>2, RefusedLimits
<1> QED
  BY <1>5, <1>6

LEMMA MistakeLimits ==
  ASSUME LInv, NEW w \in Walks, Mistake(w)
  PROVE  \A v \in Walks : Limits(v)'
<1> DEFINE request == walk[w].request
<1>1. PICK other \in Request \ {request}, page \in 2..Cardinality(People),
           e \in clock..clock + TTL :
        Present(w, [key |-> epoch, binding |-> CursorBinding(other, NoCursor),
                    page |-> page, e |-> e])
  BY DEF Mistake
<1> DEFINE cursor == [key |-> epoch, page |-> page, e |-> e,
                      binding |-> CursorBinding(other, NoCursor)]
<1>2. Process /\ UNCHANGED config /\ request \in Request
  BY DEF LInv, WInv, IInv, Mistake, Resumable
<1>3. page \in Nat /\ e \in Nat /\ epoch \in Nat
  BY <1>2, FS_CardinalityType, TraversalAssumption DEF Process
<1>4. /\ Verdict(request, cursor) # "accepted"
      /\ Verdict(request, cursor) # "going"
  BY <1>2, <1>3, OtherCursorRefused, Verdicts
<1>5. walk' = [walk EXCEPT ![w].status = Verdict(request, cursor),
                           ![w].cursor = NoCursor]
  BY <1>1, <1>4 DEF Present
<1> HIDE DEF request, cursor
<1> QED
  BY <1>2, <1>4, <1>5, RefusedLimits

LEMMA LimitsHold == Spec => []LInv
<1>1. Init => LInv
  <2> SUFFICES ASSUME Init PROVE \A w \in Walks : Limits(w)
    BY WholeInit DEF LInv
  <2>1. \A w \in Walks : walk[w] = NoWalk
    BY DEF Init
  <2> QED
    BY <2>1 DEF NoWalk, Limits
<1>2. LInv /\ [Next]_vars => LInv'
  <2> SUFFICES ASSUME LInv, [Next]_vars PROVE \A w \in Walks : Limits(w)'
    BY WholeStep DEF LInv
  <2>1. ASSUME UNCHANGED <<config, walk>>
        PROVE  \A w \in Walks : Limits(w)'
    BY <2>1, LimitsStay DEF LInv
  <2>2. CASE Leaves
    <3>1. /\ UNCHANGED config
          /\ walk' = [w \in Walks |-> IF walk[w].status = "going"
                                      THEN [walk[w] EXCEPT !.expected = {}]
                                      ELSE walk[w]]
      BY <2>2 DEF Leaves
    <3>2. ASSUME NEW w \in Walks
          PROVE  /\ walk'[w].page = walk[w].page /\ walk'[w].got = walk[w].got
                 /\ walk'[w].request = walk[w].request
                 /\ walk'[w].status = walk[w].status
                 /\ walk'[w].cursor = walk[w].cursor
      BY <3>1 DEF LInv, WInv, IInv, Shaped
    <3> QED
      BY <3>1, <3>2, LimitsStay DEF LInv
  <2> QED
    BY <2>1, <2>2, StartLimits, ContinueLimits, MistakeLimits
    DEF Next, Arrives, Tick, Restart, vars
<1> QED
  BY <1>1, <1>2, PTL DEF Spec

\* Jisr names no page that the organization's people, were they all on the
\* list, would not come to.
NamesWithinReach ==
  \A w \in Walks : walk[w].status = "going" =>
    (walk[w].cursor.page - 1) * walk[w].request.size < Cardinality(People)

\* A traversal that has come to a second page has come to one within reach.
Filled(w) ==
  walk[w].page > 1 =>
    /\ walk[w].request.size \in Nat
    /\ (walk[w].page - 1) * walk[w].request.size < Cardinality(People)

\* A step leads a traversal to its first page, to the page its cursor names,
\* or leaves it where it is.
LEMMA FilledStep ==
  ASSUME LInv, NamesWithinReach, NEW w \in Walks, Filled(w), [Next]_vars
  PROVE  Filled(w)'
<1>1. /\ IInv /\ walk = [v \in Walks |-> walk[v]]
      /\ \A v \in Walks : Shaped(v) /\ Resumable(v)
  BY DEF LInv, WInv, IInv
<1>2. ASSUME walk'[w].page = walk[w].page,
             walk'[w].request = walk[w].request
      PROVE  Filled(w)'
  BY <1>2 DEF Filled
<1>3. ASSUME NEW v \in Walks, Start(v) PROVE Filled(w)'
  <2>1. CASE v # w
    <3>1. walk'[w] = walk[w]
      BY <1>1, <1>3, <2>1 DEF Start, Serve
    <3> QED
      BY <1>2, <3>1
  <2>2. CASE v = w
    <3>1. PICK request \in Request :
            IF Verdict(request, NoCursor) = "accepted"
            THEN Serve(w, request, NoCursor, 1,
                       [NoWalk EXCEPT !.expected = Expected(request)])
            ELSE walk' = [walk EXCEPT ![w] = [NoWalk EXCEPT
                            !.request = request,
                            !.status = Verdict(request, NoCursor)]]
      BY <1>3, <2>2 DEF Start
    <3> DEFINE verdict == Verdict(request, NoCursor)
    <3> HIDE DEF verdict
    <3>2. CASE verdict = "accepted"
      <4>1. Serve(w, request, NoCursor, 1,
                  [NoWalk EXCEPT !.expected = Expected(request)])
        BY <3>1, <3>2 DEF verdict
      <4> QED
        BY <1>1, <4>1 DEF Serve, Filled
    <3>3. CASE verdict # "accepted"
      <4>1. walk' = [walk EXCEPT ![w] = [NoWalk EXCEPT
                       !.request = request, !.status = verdict]]
        BY <3>1, <3>3 DEF verdict
      <4>2. walk'[w].page = 0
        BY <1>1, <4>1 DEF NoWalk
      <4> QED
        BY <4>2 DEF Filled
    <3> QED
      BY <3>2, <3>3
  <2> QED
    BY <2>1, <2>2
<1>4. ASSUME NEW v \in Walks, walk[v].status = "going", NEW cursor,
             Present(v, cursor),
             Verdict(walk[v].request, cursor) = "accepted"
               => cursor = walk[v].cursor
      PROVE  Filled(w)'
  <2>1. CASE v # w
    <3>1. walk'[w] = walk[w]
      BY <1>1, <1>4, <2>1 DEF Present, Serve
    <3> QED
      BY <1>2, <3>1
  <2>2. CASE v = w /\ Verdict(walk[w].request, cursor) = "accepted"
    <3>1. /\ walk'[w].page = walk[w].cursor.page
          /\ walk'[w].request = walk[w].request
      BY <1>1, <1>4, <2>2 DEF Present, Serve
    <3>2. walk[w].request.size \in Nat
      BY <1>1, <1>4, <2>2, TraversalAssumption DEF Resumable, ValidPageSize
    <3> QED
      BY <1>4, <2>2, <3>1, <3>2 DEF Filled, NamesWithinReach
  <2>3. CASE v = w /\ Verdict(walk[w].request, cursor) # "accepted"
    <3> DEFINE verdict == Verdict(walk[w].request, cursor)
    <3>1. walk' = [walk EXCEPT ![w].status = verdict, ![w].cursor = NoCursor]
      BY <1>4, <2>3 DEF Present
    <3> HIDE DEF verdict
    <3>2. walk'[w].page = walk[w].page /\ walk'[w].request = walk[w].request
      BY <1>1, <3>1 DEF Shaped
    <3> QED
      BY <1>2, <3>2
  <2> QED
    BY <2>1, <2>2, <2>3
<1>5. ASSUME NEW v \in Walks, Continue(v) PROVE Filled(w)'
  BY <1>4, <1>5 DEF Continue
<1>6. ASSUME NEW v \in Walks, Mistake(v) PROVE Filled(w)'
  <2> DEFINE request == walk[v].request
  <2>1. PICK other \in Request \ {request}, page \in 2..Cardinality(People),
             e \in clock..clock + TTL :
          Present(v, [key |-> epoch, binding |-> CursorBinding(other, NoCursor),
                      page |-> page, e |-> e])
    BY <1>6 DEF Mistake
  <2> DEFINE cursor == [key |-> epoch, page |-> page, e |-> e,
                        binding |-> CursorBinding(other, NoCursor)]
  <2>2. Process /\ request \in Request /\ walk[v].status = "going"
    BY <1>1, <1>6 DEF IInv, Mistake, Resumable
  <2>3. page \in Nat /\ e \in Nat /\ epoch \in Nat
    BY <2>2, FS_CardinalityType, TraversalAssumption DEF Process
  <2>4. Verdict(request, cursor) # "accepted"
    BY <2>2, <2>3, OtherCursorRefused
  <2>5. Present(v, cursor)
    BY <2>1
  <2> HIDE DEF cursor
  <2> QED
    BY <1>4, <2>2, <2>4, <2>5
<1>7. CASE Leaves
  <2>1. walk' = [v \in Walks |-> IF walk[v].status = "going"
                                 THEN [walk[v] EXCEPT !.expected = {}]
                                 ELSE walk[v]]
    BY <1>7 DEF Leaves
  <2>2. walk'[w].page = walk[w].page /\ walk'[w].request = walk[w].request
    BY <1>1, <2>1 DEF Shaped
  <2> QED
    BY <1>2, <2>2
<1>8. CASE UNCHANGED walk
  BY <1>2, <1>8
<1> QED
  BY <1>3, <1>5, <1>6, <1>7, <1>8 DEF Next, Arrives, Tick, Restart, vars

\* As long as Jisr names no page that the organization's people would not come
\* to, a traversal makes no more calls than they can fill pages, however the
\* list grows meanwhile (nextPageFrom and the list services).  A page that is
\* named past the end is followed, so without that there is no bound.
THEOREM CallsAreBounded ==
  Spec /\ []NamesWithinReach
    => [](\A w \in Walks : walk[w].calls > 1 =>
            (walk[w].calls - 1) * walk[w].request.size
              < Cardinality(People))
<1>1. ASSUME NEW n \in Nat, NEW m \in Nat, n <= m, NEW size \in Nat
      PROVE  n * size <= m * size
  <2> DEFINE d == m - n
  <2>1. d \in Nat /\ m = n + d
    BY <1>1
  <2> HIDE DEF d
  <2>2. d * size \in Nat
    BY <2>1
  <2>3. (n + d) * size = n * size + d * size /\ n * size \in Int
    BY <2>1
  <2> QED
    BY <2>1, <2>2, <2>3
<1>2. LInv /\ (\A w \in Walks : Filled(w)) =>
              \A w \in Walks : walk[w].calls > 1 =>
                (walk[w].calls - 1) * walk[w].request.size
                  < Cardinality(People)
  <2> SUFFICES ASSUME LInv, NEW w \in Walks, Filled(w),
                      walk[w].calls > 1
               PROVE  (walk[w].calls - 1) * walk[w].request.size
                        < Cardinality(People)
    OBVIOUS
  <2> DEFINE n == walk[w].calls - 1
             m == walk[w].page - 1
             size == walk[w].request.size
  <2>1. n \in Nat /\ m \in Nat /\ n <= m /\ walk[w].page > 1
    BY DEF LInv, WInv, IInv, Counted
  <2>2. size \in Nat /\ m * size < Cardinality(People)
    BY <2>1 DEF Filled
  <2>3. Cardinality(People) \in Nat
    BY TraversalAssumption, FS_CardinalityType
  <2> HIDE DEF n, m, size
  <2>4. n * size <= m * size /\ n * size \in Int /\ m * size \in Int
    BY <1>1, <2>1, <2>2
  <2>5. n * size < Cardinality(People)
    BY <2>2, <2>3, <2>4
  <2> QED
    BY <2>5 DEF n, size
<1>3. Init => \A w \in Walks : Filled(w)
  BY DEF Init, NoWalk, Filled
<1>4. LInv /\ NamesWithinReach /\ (\A w \in Walks : Filled(w)) /\ [Next]_vars
      => (\A w \in Walks : Filled(w))'
  BY FilledStep
<1> QED
  BY <1>2, <1>3, <1>4, LimitsHold, PTL DEF Spec

\* The list of monthly payables cannot be read beyond its first page, by any
\* sequence of calls: its cursor is bound to an input that had none
\* (listMonthlyPayables hashes its whole input).
THEOREM PayablesEndAtPageOne ==
  Spec => [](\A w \in Walks : walk[w].request.tool = Payables
                              => walk[w].page <= 1)
<1>1. LInv => \A w \in Walks : walk[w].request.tool = Payables
                               => walk[w].page <= 1
  BY DEF LInv, WInv, IInv, Counted, Limits
<1> QED
  BY <1>1, LimitsHold, PTL

\* A caller whose profile is scoped gets no row at all, not even its own, of
\* the lists that are keyed by employee code (scopeToReachable compares codes
\* with a subject that is a UUID).
THEOREM CodeListsBringNothing ==
  Spec => [](\A w \in Walks : ~NamesItsRows(walk[w].request.tool)
                              => walk[w].got = {})
<1>1. LInv => \A w \in Walks : ~NamesItsRows(walk[w].request.tool)
                               => walk[w].got = {}
  BY DEF LInv, Limits, Named, NamesItsRows
<1> QED
  BY <1>1, LimitsHold, PTL
-----------------------------------------------------------------------------
(* Leave summaries.                                                        *)

\* The codes that have been asked of Jisr.
Asked(codes, asked) == {codes[i] : i \in 1..asked}

\* No batch has brought more rows than it has codes, and when all of them have
\* brought as many, everybody asked for is there.
Accounted ==
  /\ summary.count <= summary.asked
  /\ summary.count = summary.asked
     => Asked(summary.codes, summary.asked) \subseteq summary.got

\* The people promised are there and reachable; if a page holds a batch, those
\* among them whose code has been asked have come.
Brought ==
  /\ summary.expected \subseteq ToSet(summary.codes) \cap ToSet(rows)
  /\ \A p \in summary.expected : Reaches(config, p)
  /\ /\ Named(LeaveTool, config)
     /\ summary.size >= BatchEnd(0, Len(summary.codes))
     => summary.expected \cap Asked(summary.codes, summary.asked)
          \subseteq summary.got

SummaryTyped ==
  /\ summary = [status |-> summary.status, codes |-> summary.codes,
                size |-> summary.size, asked |-> summary.asked,
                count |-> summary.count, got |-> summary.got,
                warnings |-> summary.warnings,
                expected |-> summary.expected]
  /\ summary.status \in {"idle", "asking", "answered", "failed",
                         "INVALID_FILTER", "BULK_LIMIT_EXCEEDED"} \cup Refusals
  /\ summary.codes \in Seq(People)
  /\ summary.size \in Int
  /\ summary.asked \in 0..Len(summary.codes)
  /\ summary.count \in Nat
  /\ summary.got \subseteq People /\ summary.expected \subseteq People
  /\ summary.warnings \subseteq {"BULK_REQUEST_SPLIT", "SCOPE_NARROWED"}

SInv ==
  /\ SummaryTyped
  /\ summary.status \in {"asking", "answered"} => Accounted /\ Brought
  /\ summary.status = "answered" =>
       /\ summary.asked = Len(summary.codes)
       /\ summary.warnings = LeaveWarnings(Len(summary.codes), summary.asked,
                                           summary.count)

\* A summary under way does not hold up or change what others do, so what is
\* proved of traversals holds in this process too.
THEOREM ReadingTraverses == ReadingSpec => Spec
<1>1. ReadingInit => Init
  BY DEF ReadingInit
<1>2. [ReadingNext]_readingVars => [Next]_vars
  BY DEF ReadingNext, AskLeave, LeaveBatch, LeaveFails, OtherStep,
         readingVars, vars
<1> QED
  BY <1>1, <1>2, PTL DEF ReadingSpec, Spec

\* A sequence has no more elements than places.
LEMMA SetOfSequence ==
  ASSUME NEW S, NEW list \in Seq(S)
  PROVE  /\ IsFiniteSet(ToSet(list))
         /\ Cardinality(ToSet(list)) <= Len(list)
         /\ ToSet(list) \subseteq S
<1>1. /\ Len(list) \in Nat /\ DOMAIN list = 1..Len(list)
      /\ list \in [1..Len(list) -> S]
  BY LenProperties
<1>2. list \in Surjection(1..Len(list), ToSet(list))
  BY <1>1 DEF Surjection, ToSet
<1>3. IsFiniteSet(1..Len(list)) /\ Cardinality(1..Len(list)) = Len(list)
  <2>1. /\ IsFiniteSet(1..Len(list))
        /\ Cardinality(1..Len(list))
           = IF 1 > Len(list) THEN 0 ELSE Len(list) - 1 + 1
    BY <1>1, FS_Interval
  <2> QED
    BY <1>1, <2>1
<1>4. /\ IsFiniteSet(ToSet(list))
      /\ Cardinality(ToSet(list)) <= Cardinality(1..Len(list))
  BY <1>2, <1>3, FS_Surjection
<1> QED
  BY <1>1, <1>3, <1>4 DEF ToSet

\* A batch is the codes from the next one on, at most BatchSize of them.
LEMMA BatchProperties ==
  ASSUME NEW codes \in Seq(People), NEW asked \in 0..Len(codes)
  PROVE  LET end == BatchEnd(asked, Len(codes))
         IN  /\ end \in asked..Len(codes)
             /\ end - asked <= BatchEnd(0, Len(codes))
             /\ Batch(codes, asked) \in Seq(People)
             /\ Len(Batch(codes, asked)) = end - asked
             /\ Asked(codes, end)
                = Asked(codes, asked) \cup ToSet(Batch(codes, asked))
<1> DEFINE end == BatchEnd(asked, Len(codes))
           batch == Batch(codes, asked)
<1>1. /\ Len(codes) \in Nat /\ asked \in Nat /\ asked <= Len(codes)
      /\ BatchSize \in Nat \ {0}
      /\ \A k \in 1..Len(codes) : codes[k] \in People
  BY LenProperties, ReadingAssumption
<1>2. /\ end \in asked..Len(codes)
      /\ end - asked <= BatchEnd(0, Len(codes))
  BY <1>1 DEF BatchEnd
<1>3. batch = SubSeq(codes, asked + 1, end)
  BY DEF Batch
<1> HIDE DEF end, batch
<1>4. /\ batch \in Seq(People)
      /\ Len(batch) = end - asked
      /\ \A k \in 1..end - asked : batch[k] = codes[asked + k]
  <2>1. \A k \in asked + 1..end : codes[k] \in People
    BY <1>1, <1>2
  <2>2. /\ batch \in Seq(People)
        /\ Len(batch) = IF asked + 1 <= end THEN end - (asked + 1) + 1 ELSE 0
        /\ \A k \in 1..end - (asked + 1) + 1 :
             batch[k] = codes[(asked + 1) + k - 1]
    BY <1>1, <1>2, <1>3, <2>1, SubSeqProperties
  <2> QED
    BY <1>1, <1>2, <2>2
<1>5. DOMAIN batch = 1..end - asked
  BY <1>4, LenProperties
<1>6. ASSUME NEW k \in 1..end
      PROVE  codes[k] \in Asked(codes, asked) \cup ToSet(batch)
  <2>1. CASE k <= asked
    BY <1>1, <2>1 DEF Asked
  <2>2. CASE k > asked
    <3>1. k - asked \in 1..end - asked /\ asked + (k - asked) = k
      BY <1>1, <1>2, <2>2
    <3>2. batch[k - asked] = codes[k]
      BY <1>4, <3>1
    <3> QED
      BY <1>5, <3>1, <3>2 DEF ToSet
  <2> QED
    BY <1>1, <1>2, <2>1, <2>2
<1>7. ASSUME NEW k \in 1..end - asked
      PROVE  batch[k] \in Asked(codes, end)
  <2>1. asked + k \in 1..end /\ batch[k] = codes[asked + k]
    BY <1>1, <1>2, <1>4
  <2> QED
    BY <2>1 DEF Asked
<1>8. Asked(codes, asked) \subseteq Asked(codes, end)
  BY <1>1, <1>2 DEF Asked
<1>9. Asked(codes, end) = Asked(codes, asked) \cup ToSet(batch)
  <2>1. Asked(codes, end) \subseteq Asked(codes, asked) \cup ToSet(batch)
    BY <1>6 DEF Asked
  <2>2. ToSet(batch) \subseteq Asked(codes, end)
    BY <1>5, <1>7 DEF ToSet
  <2> QED
    BY <1>8, <2>1, <2>2
<1> QED
  BY <1>2, <1>4, <1>9 DEF end, batch

\* Jisr's first page of a batch that it holds has everybody of it who has a
\* record: there are no more rows than codes.
LEMMA PageHoldsBatch ==
  ASSUME Surroundings, NEW batch \in Seq(People), NEW size \in Int,
         Len(batch) <= size
  PROVE  ToSet(batch) \cap ToSet(rows) \subseteq LeavePage(batch, size)
<1> DEFINE who == ToSet(batch)
<1>1. /\ IsFiniteSet(who) /\ Cardinality(who) <= Len(batch)
      /\ Cardinality(who) \in Nat /\ Len(batch) \in Nat
  BY SetOfSequence, FS_CardinalityType, LenProperties
<1> HIDE DEF who
<1> SUFFICES ASSUME NEW j \in DOMAIN rows, rows[j] \in who
             PROVE  rows[j] \in UpstreamPage(who, 1, size)
  BY DEF LeavePage, ToSet, who
<1>2. j \in 1..Len(rows) /\ Len(rows) \in Nat
  BY LenProperties DEF Surroundings
<1>3. /\ CountIn(rows, who, j) \in Nat
      /\ CountIn(rows, who, j) >= 1
      /\ CountIn(rows, who, j) <= Cardinality(who)
  BY <1>1, <1>2, CountFinite, CountPositive, CountBounded DEF Surroundings
<1>4. (1 - 1) * size < Rank(who, j) /\ Rank(who, j) <= 1 * size
  BY <1>1, <1>3, RankIsCount
<1> QED
  BY <1>4 DEF UpstreamPage

\* How a code list is accepted.
LEMMA LeaveVerdictIs ==
  ASSUME config \in Settings, NEW codes, NEW size
  PROVE  LeaveVerdict(codes, size) \in
           {"accepted", "INVALID_FILTER", "BULK_LIMIT_EXCEEDED"} \cup Refusals
<1>1. LeaveTool \notin WriteTools
  BY DEF LeaveTool, WriteTools, PunchTools, HireTools, DeleteTools
<1>2. AuthorizeTool(LeaveTool, config) \in {"available"} \cup Refusals
  BY <1>1, ReadRefused
<1>3. LeaveVerdict(codes, size) \in
        {"accepted", "INVALID_FILTER", "BULK_LIMIT_EXCEEDED",
         "PAGE_SIZE_EXCEEDED"}
      \/ /\ LeaveVerdict(codes, size) = AuthorizeTool(LeaveTool, config)
         /\ AuthorizeTool(LeaveTool, config) # "available"
  BY DEF LeaveVerdict
<1> QED
  BY <1>2, <1>3 DEF Refusals

\* A summary that is asked for starts with nothing asked and nothing brought.
LEMMA AskKeeps ==
  ASSUME WInv, SInv, NEW codes \in CodeLists, NEW size \in Sizes,
         AskLeave(codes, size)
  PROVE  SInv'
<1> DEFINE verdict == LeaveVerdict(codes, size)
           promised == {p \in ToSet(codes) \cap ToSet(rows) :
                          Reaches(config, p)}
<1>1. /\ UNCHANGED <<config, rows>>
      /\ summary' = IF verdict = "accepted"
           THEN [NoSummary EXCEPT !.status = "asking", !.codes = codes,
                  !.size = size, !.expected = promised]
           ELSE [NoSummary EXCEPT !.status = verdict]
  BY DEF AskLeave, vars
<1>2. verdict \in
        {"accepted", "INVALID_FILTER", "BULK_LIMIT_EXCEEDED"} \cup Refusals
  BY LeaveVerdictIs DEF WInv, IInv, Process
<1>3. codes \in Seq(People) /\ size \in Int /\ <<>> \in Seq(People)
  BY ReadingAssumption, TraversalAssumption
<1>4. promised \subseteq People
  BY <1>3, SetOfSequence
<1> HIDE DEF verdict, promised
<1>5. CASE verdict = "accepted"
  <2>1. summary' = [status |-> "asking", codes |-> codes, size |-> size,
                    asked |-> 0, count |-> 0, got |-> {}, warnings |-> {},
                    expected |-> promised]
    BY <1>1, <1>5 DEF NoSummary
  <2>2. Len(codes) \in Nat
    BY <1>3, LenProperties
  <2>3. SummaryTyped'
    BY <1>3, <1>4, <2>1, <2>2 DEF SummaryTyped
  <2>4. Asked(codes, 0) = {}
    BY DEF Asked
  <2>5. Accounted'
    BY <2>1, <2>4 DEF Accounted
  <2>6. /\ promised \subseteq ToSet(codes) \cap ToSet(rows)
        /\ \A p \in promised : Reaches(config, p)
    BY DEF promised
  <2>7. \A p : Reaches(config, p)' <=> Reaches(config, p)
    BY <1>1 DEF Reaches
  <2>8. Brought'
    <3>1. /\ summary'.expected = promised /\ summary'.codes = codes
          /\ summary'.asked = 0
      BY <2>1
    <3>2. /\ summary'.expected \subseteq ToSet(summary'.codes) \cap ToSet(rows')
          /\ \A p \in summary'.expected : Reaches(config, p)'
      BY <1>1, <2>6, <2>7, <3>1
    <3>3. summary'.expected \cap Asked(summary'.codes, summary'.asked)
            \subseteq summary'.got
      BY <2>4, <3>1
    <3> QED
      BY <3>2, <3>3 DEF Brought
  <2> QED
    BY <2>1, <2>3, <2>5, <2>8 DEF SInv
<1>6. CASE verdict # "accepted"
  <2>1. summary' = [status |-> verdict, codes |-> <<>>, size |-> 0,
                    asked |-> 0, count |-> 0, got |-> {}, warnings |-> {},
                    expected |-> {}]
    BY <1>1, <1>6 DEF NoSummary
  <2>2. verdict \notin {"accepted", "asking", "answered"}
    BY <1>2, <1>6 DEF Refusals
  <2>3. SummaryTyped'
    BY <1>2, <1>3, <1>6, <2>1 DEF SummaryTyped
  <2> QED
    BY <2>1, <2>2, <2>3 DEF SInv
<1> QED
  BY <1>5, <1>6

\* A batch keeps the accounts, and brings its people if its page holds them.
LEMMA BatchKeeps ==
  ASSUME WInv, SInv, LeaveBatch
  PROVE  SInv'
<1> DEFINE codes == summary.codes
           total == Len(codes)
           asked == summary.asked
           end   == BatchEnd(asked, total)
           batch == Batch(codes, asked)
           kept  == {p \in LeavePage(batch, summary.size) :
                       KeepsRow(LeaveTool, p, config)}
           count == summary.count + Cardinality(kept)
<1>1. /\ UNCHANGED <<config, rows>> /\ Asking
      /\ summary' =
           [summary EXCEPT
              !.asked = end,
              !.count = count,
              !.got = @ \cup kept,
              !.status = IF end = total THEN "answered" ELSE "asking",
              !.warnings = IF end = total
                           THEN LeaveWarnings(total, end, count) ELSE {}]
  BY DEF LeaveBatch, vars
<1>2. SummaryTyped /\ Accounted /\ Brought
  BY <1>1 DEF SInv, Asking
<1>3. summary' =
        [status |-> IF end = total THEN "answered" ELSE "asking",
         codes |-> codes, size |-> summary.size, asked |-> end,
         count |-> count, got |-> summary.got \cup kept,
         warnings |-> IF end = total
                      THEN LeaveWarnings(total, end, count) ELSE {},
         expected |-> summary.expected]
  BY <1>1, <1>2 DEF SummaryTyped
<1>4. /\ codes \in Seq(People) /\ asked \in 0..total /\ total \in Nat
      /\ summary.count \in Nat /\ summary.size \in Int
      /\ summary.got \subseteq People
  BY <1>2, LenProperties DEF SummaryTyped
<1>5. /\ end \in asked..total
      /\ end - asked <= BatchEnd(0, total)
      /\ batch \in Seq(People)
      /\ Len(batch) = end - asked
      /\ Asked(codes, end) = Asked(codes, asked) \cup ToSet(batch)
  BY <1>4, BatchProperties
<1>6. /\ IsFiniteSet(ToSet(batch))
      /\ Cardinality(ToSet(batch)) <= end - asked
      /\ ToSet(batch) \subseteq People
  BY <1>5, SetOfSequence
<1>7. kept \subseteq ToSet(batch)
  BY DEF LeavePage, UpstreamPage
<1> HIDE DEF batch, kept, end
<1>8. /\ IsFiniteSet(kept)
      /\ Cardinality(kept) \in Nat
      /\ Cardinality(ToSet(batch)) \in Nat
      /\ Cardinality(kept) <= Cardinality(ToSet(batch))
      /\ Cardinality(kept) = Cardinality(ToSet(batch)) => kept = ToSet(batch)
  BY <1>6, <1>7, FS_Subset, FS_CardinalityType
<1>9. /\ count <= end
      /\ count = end => Asked(codes, end) \subseteq summary.got \cup kept
  <2>1. /\ summary.count <= asked
        /\ summary.count = asked => Asked(codes, asked) \subseteq summary.got
    BY <1>2 DEF Accounted
  <2>2. count \in Nat /\ end \in Nat /\ asked \in Nat /\ count <= end
    BY <1>4, <1>5, <1>6, <1>8, <2>1
  <2>3. ASSUME count = end
        PROVE  Asked(codes, end) \subseteq summary.got \cup kept
    <3>1. summary.count = asked /\ Cardinality(kept) = end - asked
      BY <1>4, <1>5, <1>6, <1>8, <2>1, <2>2, <2>3
    <3>2. kept = ToSet(batch)
      BY <1>4, <1>5, <1>6, <1>8, <2>2, <3>1
    <3> QED
      BY <1>5, <2>1, <3>1, <3>2
  <2> QED
    BY <2>2, <2>3
<1>10. ASSUME Named(LeaveTool, config), summary.size >= BatchEnd(0, total)
       PROVE  summary.expected \cap Asked(codes, end)
                \subseteq summary.got \cup kept
  <2>1. summary.expected \cap Asked(codes, asked) \subseteq summary.got
    BY <1>2, <1>10 DEF Brought
  <2>2. /\ summary.expected \subseteq ToSet(rows) \cap People
        /\ \A p \in summary.expected : Reaches(config, p)
    BY <1>2 DEF Brought, SummaryTyped
  <2>3. Len(batch) <= summary.size
    <3>1. BatchEnd(0, total) \in Int
      BY <1>4, ReadingAssumption DEF BatchEnd
    <3> QED
      BY <1>4, <1>5, <1>10, <3>1
  <2>4. ToSet(batch) \cap ToSet(rows) \subseteq LeavePage(batch, summary.size)
    BY <1>4, <1>5, <2>3, PageHoldsBatch DEF WInv
  <2>5. config \in Settings
    BY DEF WInv, IInv, Process
  <2>6. summary.expected \cap ToSet(batch) \subseteq kept
    BY <1>10, <2>2, <2>4, <2>5, ReachedIsKept DEF kept
  <2> QED
    BY <1>5, <2>1, <2>6
<1> HIDE DEF count
<1>11. SummaryTyped'
  <2>1. LeaveWarnings(total, end, count)
          \subseteq {"BULK_REQUEST_SPLIT", "SCOPE_NARROWED"}
    BY DEF LeaveWarnings
  <2>2. count \in Nat
    BY <1>4, <1>8 DEF count
  <2>3. end \in 0..total
    BY <1>4, <1>5
  <2>4. summary.got \cup kept \subseteq People
    BY <1>4, <1>6, <1>7
  <2>5. summary.expected \subseteq People
    BY <1>2 DEF SummaryTyped
  <2> QED
    BY <1>3, <1>4, <2>1, <2>2, <2>3, <2>4, <2>5 DEF SummaryTyped
<1>12. Accounted'
  BY <1>3, <1>9 DEF Accounted
<1>13. Brought'
  <2>1. \A p : Reaches(config, p)' <=> Reaches(config, p)
    BY <1>1 DEF Reaches
  <2> QED
    BY <1>1, <1>2, <1>3, <1>10, <2>1 DEF Brought
<1> QED
  BY <1>3, <1>11, <1>12, <1>13 DEF SInv

\* What is not a step of the summary takes a promise away at most.
LEMMA OtherKeeps ==
  ASSUME SInv, UNCHANGED config,
         summary' = [summary EXCEPT !.expected = @ \cap ToSet(rows')]
  PROVE  SInv'
<1>1. SummaryTyped
  BY DEF SInv
<1>2. summary' = [status |-> summary.status, codes |-> summary.codes,
                  size |-> summary.size, asked |-> summary.asked,
                  count |-> summary.count, got |-> summary.got,
                  warnings |-> summary.warnings,
                  expected |-> summary.expected \cap ToSet(rows')]
  BY <1>1 DEF SummaryTyped
<1>3. SummaryTyped'
  BY <1>1, <1>2 DEF SummaryTyped
<1>4. Accounted => Accounted'
  BY <1>2 DEF Accounted
<1>5. Brought => Brought'
  <2>1. \A p : Reaches(config, p)' <=> Reaches(config, p)
    BY DEF Reaches
  <2> QED
    BY <1>2, <2>1 DEF Brought
<1> QED
  BY <1>2, <1>3, <1>4, <1>5 DEF SInv

\* A summary that is given up says nothing.
LEMMA NoSummaryKeeps ==
  ASSUME NEW status \in {"idle", "failed"},
         summary' = [NoSummary EXCEPT !.status = status]
  PROVE  SInv'
<1>1. summary' = [status |-> status, codes |-> <<>>, size |-> 0,
                  asked |-> 0, count |-> 0, got |-> {}, warnings |-> {},
                  expected |-> {}]
  BY DEF NoSummary
<1>2. <<>> \in Seq(People) /\ Len(<<>>) = 0
  OBVIOUS
<1>3. SummaryTyped'
  <2>1. /\ summary'.codes = <<>> /\ summary'.size = 0
        /\ summary'.asked = 0 /\ summary'.count = 0
        /\ summary'.got = {} /\ summary'.expected = {}
        /\ summary'.warnings = {} /\ summary'.status = status
    BY <1>1
  <2>2. summary'.codes \in Seq(People) /\ Len(summary'.codes) = 0
    BY <1>2, <2>1
  <2>3. summary'.asked \in 0..Len(summary'.codes)
    BY <2>1, <2>2
  <2>4. summary' = [status |-> summary'.status, codes |-> summary'.codes,
                    size |-> summary'.size, asked |-> summary'.asked,
                    count |-> summary'.count, got |-> summary'.got,
                    warnings |-> summary'.warnings,
                    expected |-> summary'.expected]
    BY <1>1
  <2> QED
    BY <2>1, <2>2, <2>3, <2>4 DEF SummaryTyped
<1> QED
  BY <1>1, <1>3 DEF SInv

\* Every step of the reading side keeps the summary's invariant.
LEMMA SummaryStep ==
  WInv /\ WInv' /\ SInv /\ [ReadingNext]_readingVars => SInv'
<1> SUFFICES ASSUME WInv, SInv, [ReadingNext]_readingVars PROVE SInv'
  OBVIOUS
<1>1. ASSUME NEW codes \in CodeLists, NEW size \in Sizes,
             AskLeave(codes, size)
      PROVE  SInv'
  BY <1>1, AskKeeps
<1>2. CASE LeaveBatch
  BY <1>2, BatchKeeps
<1>3. CASE LeaveFails
  BY <1>3, NoSummaryKeeps DEF LeaveFails
<1>4. CASE OtherStep
  <2>1. UNCHANGED config
    BY <1>4 DEF OtherStep, Next, Start, Continue, Mistake, Arrives, Leaves,
                Tick, Restart
  <2>2. CASE Asking /\ epoch' # epoch
    <3>1. summary' = [NoSummary EXCEPT !.status = "idle"]
      BY <1>4, <2>2 DEF OtherStep, NoSummary
    <3> QED
      BY <3>1, NoSummaryKeeps
  <2>3. CASE ~(Asking /\ epoch' # epoch)
    BY <1>4, <2>1, <2>3, OtherKeeps DEF OtherStep
  <2> QED
    BY <2>2, <2>3
<1>5. CASE UNCHANGED readingVars
  <2>1. UNCHANGED <<config, rows, summary>>
    BY <1>5 DEF readingVars
  <2>2. \A p : Reaches(config, p)' <=> Reaches(config, p)
    BY <2>1 DEF Reaches
  <2>3. SummaryTyped' <=> SummaryTyped
    BY <2>1 DEF SummaryTyped
  <2>4. Accounted' <=> Accounted
    BY <2>1 DEF Accounted
  <2>5. Brought' <=> Brought
    BY <2>1, <2>2 DEF Brought
  <2> QED
    BY <2>1, <2>3, <2>4, <2>5 DEF SInv
<1> QED
  BY <1>1, <1>2, <1>3, <1>4, <1>5 DEF ReadingNext

\* Both invariants hold in the process that serves both.
LEMMA ReadingInvHolds == ReadingSpec => [](WInv /\ SInv)
<1>1. ReadingInit => SInv
  <2> SUFFICES ASSUME summary = NoSummary PROVE SInv
    BY DEF ReadingInit
  <2>1. <<>> \in Seq(People) /\ Len(<<>>) = 0
    OBVIOUS
  <2> QED
    BY <2>1 DEF SInv, SummaryTyped, NoSummary
<1> QED
  BY <1>1, SummaryStep, ReadingTraverses, WInvHolds, PTL DEF ReadingSpec

\* The state of the reading side is typed as the model says.
THEOREM ReadingTypeCorrect == ReadingSpec => []ReadingTypeOK
<1>1. WInv /\ SInv => ReadingTypeOK
  BY DEF WInv, Surroundings, Typed, TypeOK, SInv, SummaryTyped, ReadingTypeOK
<1> QED
  BY <1>1, ReadingInvHolds, PTL

\* A leave summary that lacks somebody asked for says SCOPE_NARROWED, for any
\* number of codes, batches and pages, repeated codes included, and however
\* Jisr's records change between the batches (getLeaveSummary).
THEOREM MissingIsSaidHolds == ReadingSpec => []MissingIsSaid
<1>1. SInv => MissingIsSaid
  <2> SUFFICES ASSUME SInv, summary.status = "answered",
                      "SCOPE_NARROWED" \notin summary.warnings
               PROVE  ToSet(summary.codes) \subseteq summary.got
    BY DEF MissingIsSaid
  <2>1. /\ summary.asked = Len(summary.codes) /\ Accounted /\ SummaryTyped
        /\ summary.warnings = LeaveWarnings(Len(summary.codes),
                                            summary.asked, summary.count)
    BY DEF SInv
  <2>2. ~(summary.count < Len(summary.codes))
    BY <2>1 DEF LeaveWarnings
  <2>3. /\ DOMAIN summary.codes = 1..Len(summary.codes)
        /\ Len(summary.codes) \in Nat /\ summary.count \in Nat
    BY <2>1, LenProperties DEF SummaryTyped
  <2>4. summary.count = summary.asked
    BY <2>1, <2>2, <2>3 DEF Accounted
  <2> QED
    BY <2>1, <2>3, <2>4 DEF Accounted, Asked, ToSet
<1> QED
  BY <1>1, ReadingInvHolds, PTL

\* A leave summary whose pages hold its batches has the row of everybody asked
\* for whose record was there all along and who is the caller's to see, for
\* any number of batches (chunk, getLeaveSummary, scopeToReachable).
THEOREM SummaryIsWholeHolds == ReadingSpec => []SummaryIsWhole
<1>1. SInv => SummaryIsWhole
  <2> SUFFICES ASSUME SInv, summary.status = "answered",
                      NamesItsRows(LeaveTool),
                      summary.size >= BatchEnd(0, Len(summary.codes))
               PROVE  summary.expected \subseteq summary.got
    BY DEF SummaryIsWhole
  <2>1. /\ summary.asked = Len(summary.codes) /\ Brought /\ SummaryTyped
        /\ Named(LeaveTool, config)
    BY DEF SInv, NamesItsRows, Named
  <2>2. DOMAIN summary.codes = 1..Len(summary.codes)
    BY <2>1, LenProperties DEF SummaryTyped
  <2>3. ToSet(summary.codes) = Asked(summary.codes, summary.asked)
    BY <2>1, <2>2 DEF Asked, ToSet
  <2> QED
    BY <2>1, <2>3 DEF Brought
<1> QED
  BY <1>1, ReadingInvHolds, PTL

-----------------------------------------------------------------------------
(* Fields.                                                                 *)

\* A tool that returns records field by field is called by profiles to which
\* no class of field beyond those it declares is open.
LEMMA DeclaredCoversAllowed ==
  ASSUME NEW tool \in MappedTools, NEW s \in Settings,
         AuthorizeTool(tool, s) = "available"
  PROVE  AllowedClassifications(s) \cap DOMAIN RegistryOf(tool)
           \subseteq DeclaredFieldGroups(tool)
<1>1. /\ tool \notin WriteTools /\ tool \notin DISCOVERY_TOOLS
      /\ tool \notin LookupTools /\ tool \notin FinanceReads \cup DeleteTools
  BY DEF MappedTools, WriteTools, PunchTools, HireTools, DeleteTools,
         DISCOVERY_TOOLS, LookupTools, FinanceReads
<1>2. s.profile \in RequiredProfiles(tool)
  <2>1. NotEnabled(tool) # "available"
    BY DEF NotEnabled
  <2>2. ResolveCapability(tool, s) = "available"
    BY <1>1 DEF AuthorizeTool
  <2> QED
    BY <2>1, <2>2 DEF ResolveCapability
<1>3. CASE tool = "jisr_webhooks_list"
  <2>1. tool \notin PersonReads
    BY <1>3 DEF PersonReads
  <2>2. RequiredProfiles(tool) = {"integration_admin"}
    BY <1>1, <1>3, <2>1 DEF RequiredProfiles
  <2>3. AllowedClassifications(s)
          = {"public_reference", "internal_operational"}
    BY <1>2, <2>2 DEF AllowedClassifications
  <2>4. DOMAIN RegistryOf(tool)
          = {"internal_operational", "employee_personal",
             "employee_sensitive", "financial_confidential",
             "authentication_secret"}
    BY <1>3 DEF RegistryOf, WEBHOOK_FIELD_CLASSIFICATIONS
  <2> QED
    BY <1>3, <2>3, <2>4 DEF DeclaredFieldGroups
<1>4. CASE tool # "jisr_webhooks_list"
  <2>1. tool \in {"jisr_employees_list", "jisr_employee_basic_info_get"}
    BY <1>4 DEF MappedTools
  <2>2. tool \in PersonReads <=> tool = "jisr_employee_basic_info_get"
    BY <2>1 DEF PersonReads
  <2>3. RequiredProfiles(tool)
          \subseteq {"hr_operations", "manager", "employee_self"}
    BY <1>1, <2>1, <2>2 DEF RequiredProfiles
  <2>4. AllowedClassifications(s)
          = {"public_reference", "internal_operational", "employee_personal"}
    BY <1>2, <2>3 DEF AllowedClassifications
  <2>5. DOMAIN RegistryOf(tool)
          = {"internal_operational", "employee_personal",
             "employee_sensitive", "financial_confidential",
             "authentication_secret"}
    BY <1>4 DEF RegistryOf, EMPLOYEE_FIELD_CLASSIFICATIONS
  <2> QED
    BY <1>4, <2>4, <2>5 DEF DeclaredFieldGroups
<1> QED
  BY <1>3, <1>4

\* In every deployment that accepts the call, a record is returned with fields
\* of the declared groups only: no salary, document number or webhook secret,
\* whatever Jisr sends (allowedClassifications, applyFieldPolicy, the mappers).
THEOREM DeclaredFieldsOnlyHolds == ReadingSpec => []DeclaredFieldsOnly
<1>1. IInv => DeclaredFieldsOnly
  <2> SUFFICES ASSUME IInv, NEW tool \in MappedTools,
                      AuthorizeTool(tool, config) = "available",
                      NEW record,
                      NEW fields \in
                        ReturnedPage(tool, {record}, config).records
               PROVE  fields \subseteq
                        UNION {RegistryOf(tool)[class] :
                                 class \in DeclaredFieldGroups(tool)
                                           \cap DOMAIN RegistryOf(tool)}
    BY DEF DeclaredFieldsOnly
  <2> DEFINE allowed == AllowedClassifications(config)
             registry == RegistryOf(tool)
  <2>1. PICK map, says : ReturnedPage(tool, {record}, config)
          = MapPage({record}, registry, map, says, allowed)
    <3>1. CASE tool = "jisr_webhooks_list"
      BY <3>1 DEF ReturnedPage, RegistryOf
    <3>2. CASE tool # "jisr_webhooks_list"
      BY <3>2 DEF ReturnedPage, RegistryOf
    <3> QED
      BY <3>1, <3>2
  <2> HIDE DEF allowed, registry
  <2>2. fields = ApplyFieldPolicy(record, registry, allowed).record \cap map
    BY <2>1 DEF MapPage
  <2>3. fields \subseteq {f \in record : \E class \in allowed \cap
                            DOMAIN registry : f \in registry[class]}
    BY <2>2 DEF ApplyFieldPolicy
  <2>4. allowed \cap DOMAIN registry \subseteq DeclaredFieldGroups(tool)
    BY DeclaredCoversAllowed DEF IInv, Process, allowed, registry
  <2> QED
    BY <2>3, <2>4 DEF registry
<1> QED
  BY <1>1, IInvHolds, ReadingTraverses, PTL
=============================================================================
