------------------------- MODULE DuplicateGuardProofs -------------------------
(***************************************************************************)
(* Proofs about the duplicate-write guard, for every set of keys and       *)
(* commits, every window and every bound.                                  *)
(***************************************************************************)
EXTENDS DuplicateGuard, TLAPS

\* The clock does not go back, so no stamp is in the future.
PassesPast == \A d \in Commits : passed[d] # NoPass => passed[d].at <= now

StampsPast == \A k \in Keys : seen[k] # NotSeen => seen[k] <= now

\* Every commit of this process that still counts has left a mark on its
\* key that is at least as young: no sweep removes it, and only a later
\* identical commit overwrites it.
RecentMarked ==
  \A d \in Commits :
    (passed[d] # NoPass /\ passed[d].epoch = epoch
       /\ Recent(now, passed[d].at))
    => /\ seen[passed[d].key] # NotSeen
       /\ passed[d].at <= seen[passed[d].key]

EpochsPast == \A d \in Commits : passed[d] # NoPass => passed[d].epoch <= epoch

GInv ==
  /\ TypeOK
  /\ EpochsPast
  /\ PassesPast
  /\ StampsPast
  /\ RecentMarked

-----------------------------------------------------------------------------
\* A pass has the fields of a pass.
LEMMA PassFields ==
  ASSUME TypeOK, NEW d \in Commits, passed[d] # NoPass
  PROVE  /\ passed[d].key \in Keys
         /\ passed[d].at \in Nat
         /\ passed[d].epoch \in Nat
BY DEF TypeOK, Pass

\* The sweep keeps the shape of the map and every stamp inside the window.
LEMMA SweptKeepsRecent ==
  ASSUME TypeOK
  PROVE  /\ Swept(seen) \in [Keys -> Nat \cup {NotSeen}]
         /\ \A k \in Keys : Swept(seen)[k] \in {seen[k], NotSeen}
         /\ \A k \in Keys : (seen[k] # NotSeen /\ Recent(now, seen[k]))
                            => Swept(seen)[k] = seen[k]
BY DEF TypeOK, Swept

LEMMA InitInv == Init => GInv
BY DEF Init, GInv, TypeOK, EpochsPast, PassesPast, StampsPast, RecentMarked

LEMMA AssertInv ==
  ASSUME GInv, NEW c \in Commits, NEW key \in Keys, NEW ack \in BOOLEAN,
         AssertNotDuplicate(c, key, ack)
  PROVE  GInv'
<1> DEFINE pass == [key |-> key, at |-> now, acknowledged |-> ack,
                    epoch |-> epoch]
<1>1. /\ TypeOK /\ now \in Nat /\ epoch \in Nat /\ now' = now /\ epoch' = epoch
      /\ passed[c] = NoPass
  BY DEF GInv, TypeOK, AssertNotDuplicate
<1>2. \A k \in Keys : seen[k] # NotSeen => seen[k] \in Nat
  BY <1>1 DEF TypeOK
<1>3. \A d \in Commits : passed[d] # NoPass =>
        /\ passed[d].key \in Keys /\ passed[d].at \in Nat
  BY <1>1, PassFields
\* A commit that still counts keeps its mark through the sweep.
<1>4. \A d \in Commits :
        (passed[d] # NoPass /\ passed[d].epoch = epoch
           /\ Recent(now, passed[d].at))
        => /\ Swept(seen)[passed[d].key] # NotSeen
           /\ passed[d].at <= Swept(seen)[passed[d].key]
  <2>1. SUFFICES ASSUME NEW d \in Commits, passed[d] # NoPass,
                        passed[d].epoch = epoch, Recent(now, passed[d].at)
                 PROVE  /\ Swept(seen)[passed[d].key] # NotSeen
                        /\ passed[d].at <= Swept(seen)[passed[d].key]
    OBVIOUS
  <2>2. /\ seen[passed[d].key] # NotSeen
        /\ passed[d].at <= seen[passed[d].key]
    BY <2>1 DEF GInv, RecentMarked
  <2>3. Recent(now, seen[passed[d].key])
    BY <2>1, <2>2, <1>1, <1>2, <1>3, DuplicateGuardAssumption DEF Recent
  <2>4. QED
    BY <2>1, <2>2, <2>3, <1>1, <1>3, SweptKeepsRecent
<1>5. CASE Suspected(key, ack)
  <2>1. seen' = Swept(seen) /\ passed' = passed
    BY <1>5 DEF AssertNotDuplicate
  <2>2. TypeOK' /\ EpochsPast' /\ PassesPast'
    BY <2>1, <1>1, SweptKeepsRecent DEF GInv, TypeOK, EpochsPast, PassesPast
  <2>3. StampsPast'
    BY <2>1, <1>1, SweptKeepsRecent DEF GInv, StampsPast
  <2>4. RecentMarked'
    BY <2>1, <1>1, <1>4 DEF RecentMarked, Recent
  <2>5. QED
    BY <2>2, <2>3, <2>4 DEF GInv
<1>6. CASE ~Suspected(key, ack)
  <2>1. /\ seen' = [Swept(seen) EXCEPT ![key] = now]
        /\ passed' = [passed EXCEPT ![c] = pass]
    BY <1>6 DEF AssertNotDuplicate
  <2>2. /\ seen' \in [Keys -> Nat \cup {NotSeen}]
        /\ seen'[key] = now
        /\ \A k \in Keys \ {key} : seen'[k] = Swept(seen)[k]
    BY <2>1, <1>1, SweptKeepsRecent
  <2>3. /\ pass \in Pass
        /\ passed' \in [Commits -> Pass \cup {NoPass}]
        /\ passed'[c] = pass
        /\ \A d \in Commits \ {c} : passed'[d] = passed[d]
    BY <2>1, <1>1 DEF TypeOK, Pass
  <2>4. TypeOK'
    BY <2>2, <2>3, <1>1 DEF TypeOK
  <2>5. EpochsPast' /\ PassesPast'
    BY <2>3, <1>1 DEF GInv, EpochsPast, PassesPast
  <2>6. StampsPast'
    BY <2>2, <1>1, SweptKeepsRecent DEF GInv, StampsPast
  <2>7. RecentMarked'
    <3>1. SUFFICES ASSUME NEW d \in Commits, passed'[d] # NoPass,
                          passed'[d].epoch = epoch,
                          Recent(now, passed'[d].at)
                   PROVE  /\ seen'[passed'[d].key] # NotSeen
                          /\ passed'[d].at <= seen'[passed'[d].key]
      BY <1>1 DEF RecentMarked, Recent
    <3>2. CASE d = c
      BY <3>2, <2>2, <2>3, <1>1, DuplicateGuardAssumption
    <3>3. CASE d # c
      <4>1. passed'[d] = passed[d]
        BY <3>3, <2>3
      <4>2. /\ Swept(seen)[passed[d].key] # NotSeen
            /\ passed[d].at <= Swept(seen)[passed[d].key]
        BY <3>1, <4>1, <1>4
      <4>3. CASE passed[d].key = key
        BY <3>1, <4>1, <4>3, <2>2, <1>1, DuplicateGuardAssumption
        DEF GInv, PassesPast
      <4>4. CASE passed[d].key # key
        BY <3>1, <4>1, <4>2, <4>4, <2>2, <1>3
      <4>5. QED
        BY <4>3, <4>4
    <3>4. QED
      BY <3>2, <3>3
  <2>8. QED
    BY <2>4, <2>5, <2>6, <2>7 DEF GInv
<1>7. QED
  BY <1>5, <1>6

LEMMA RestartInv == GInv /\ Restart => GInv'
<1> SUFFICES ASSUME GInv, Restart PROVE GInv'
  OBVIOUS
<1>1. /\ epoch' = epoch + 1 /\ epoch \in Nat
      /\ seen' = [k \in Keys |-> NotSeen]
      /\ now' = now /\ passed' = passed
  BY DEF Restart, GInv, TypeOK
<1>2. \A d \in Commits : passed[d] # NoPass =>
        /\ passed[d].epoch \in Nat /\ passed[d].epoch <= epoch
  BY PassFields DEF GInv, EpochsPast
<1>3. TypeOK' /\ PassesPast' /\ StampsPast'
  BY <1>1 DEF GInv, TypeOK, PassesPast, StampsPast
<1>4. EpochsPast' /\ RecentMarked'
  BY <1>1, <1>2 DEF EpochsPast, RecentMarked
<1>5. QED
  BY <1>3, <1>4 DEF GInv

LEMMA TickInv == GInv /\ Tick => GInv'
<1> SUFFICES ASSUME GInv, Tick PROVE GInv'
  OBVIOUS
<1>1. /\ now' = now + 1 /\ now \in Nat
      /\ epoch' = epoch /\ seen' = seen /\ passed' = passed
  BY DEF Tick, GInv, TypeOK
<1>2. /\ \A d \in Commits : passed[d] # NoPass => passed[d].at \in Nat
      /\ \A k \in Keys : seen[k] # NotSeen => seen[k] \in Nat
  BY PassFields DEF GInv, TypeOK
<1>3. TypeOK' /\ EpochsPast' /\ PassesPast' /\ StampsPast'
  BY <1>1, <1>2 DEF GInv, TypeOK, EpochsPast, PassesPast, StampsPast
<1>4. \A d \in Commits : (passed[d] # NoPass /\ Recent(now', passed[d].at))
                         => Recent(now, passed[d].at)
  BY <1>1, <1>2, DuplicateGuardAssumption DEF Recent
<1>5. RecentMarked'
  BY <1>1, <1>4 DEF GInv, RecentMarked, Recent
<1>6. QED
  BY <1>3, <1>5 DEF GInv

LEMMA StepInv == GInv /\ [Next]_vars => GInv'
<1> SUFFICES ASSUME GInv, [Next]_vars PROVE GInv'
  OBVIOUS
<1>1. CASE \E c \in Commits, k \in Keys, ack \in BOOLEAN :
             AssertNotDuplicate(c, k, ack)
  BY <1>1, AssertInv
<1>2. CASE Restart
  BY <1>2, RestartInv
<1>3. CASE Tick
  BY <1>3, TickInv
<1>4. CASE UNCHANGED vars
  BY <1>4 DEF vars, GInv, TypeOK, EpochsPast, PassesPast, StampsPast,
     RecentMarked, Recent
<1>5. QED
  BY <1>1, <1>2, <1>3, <1>4 DEF Next

LEMMA Invariance == Spec => []GInv
BY InitInv, StepInv, PTL DEF Spec

-----------------------------------------------------------------------------
\* The map and the record of passes keep their shape
\* (duplicate-guard.ts, `seen`).
THEOREM TypeCorrect == Spec => []TypeOK
<1>1. GInv => TypeOK
  BY DEF GInv
<1>2. QED
  BY <1>1, Invariance, PTL

\* Whatever the sweeps of other keys have removed, a step lets no
\* unacknowledged repeat through within the window.
LEMMA RepeatRefused ==
  ASSUME GInv, Next
  PROVE  RepeatsNothingRecent
<1>1. SUFFICES ASSUME NEW c \in Commits, NEW d \in Commits,
                      passed[c] = NoPass, passed'[c] # NoPass,
                      ~passed'[c].acknowledged, passed[d] # NoPass,
                      passed[d].key = passed'[c].key,
                      passed[d].epoch = epoch
               PROVE  now - passed[d].at > Window
  BY DEF RepeatsNothingRecent
<1>2. PICK e \in Commits, key \in Keys, ack \in BOOLEAN :
        AssertNotDuplicate(e, key, ack)
  BY <1>1 DEF Next, Restart, Tick
<1>3. /\ ~Suspected(key, ack)
      /\ passed' = [passed EXCEPT
           ![e] = [key |-> key, at |-> now, acknowledged |-> ack,
                   epoch |-> epoch]]
  BY <1>1, <1>2 DEF AssertNotDuplicate
<1>4. e = c /\ passed'[c].key = key /\ passed'[c].acknowledged = ack
  BY <1>1, <1>3 DEF GInv, TypeOK
<1>5. seen[key] = NotSeen \/ ~Recent(now, seen[key])
  BY <1>1, <1>3, <1>4 DEF Suspected
<1>6. /\ passed[d].at \in Nat /\ now \in Nat
      /\ seen[key] # NotSeen => seen[key] \in Nat
  BY <1>1, PassFields DEF GInv, TypeOK
<1>7. ~Recent(now, passed[d].at)
  <2>1. SUFFICES ASSUME Recent(now, passed[d].at) PROVE FALSE
    OBVIOUS
  <2>2. seen[key] # NotSeen /\ passed[d].at <= seen[key]
    BY <1>1, <1>4, <2>1 DEF GInv, RecentMarked
  <2>3. Recent(now, seen[key])
    BY <1>6, <2>1, <2>2, DuplicateGuardAssumption DEF Recent
  <2>4. QED
    BY <1>5, <2>2, <2>3
<1>8. QED
  BY <1>6, <1>7, DuplicateGuardAssumption DEF Recent

\* assertNotDuplicate lets no unacknowledged repeat through inside the window
\* of one process.
THEOREM NoRepeatHolds == Spec => NoUnacknowledgedRepeat
<1>1. GInv /\ [Next]_vars => [RepeatsNothingRecent]_vars
  BY RepeatRefused
<1>2. QED
  BY <1>1, Invariance, PTL DEF Spec, NoUnacknowledgedRepeat
=============================================================================
