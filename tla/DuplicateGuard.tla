---------------------------- MODULE DuplicateGuard ----------------------------
(***************************************************************************)
(* The duplicate-write guard (src/core/writes/duplicate-guard.ts): a map   *)
(* from the key of a write (organization, operation, payload) to the time  *)
(* of its last commit.  The mark is set before the write is submitted and  *)
(* is never taken back.                                                    *)
(***************************************************************************)
EXTENDS Naturals

CONSTANTS
  Keys,            \* keyFor(organization, operation, payload)
  Commits,         \* identities of the commits that reach the guard
  NotSeen,         \* Map.get of an absent key: undefined
  NoPass,          \* a commit the guard has not let through
  Window,          \* DUPLICATE_WINDOW_MS, in ticks
  MaxClock,        \* bound on the clock
  MaxEpoch         \* bound on restarts

ASSUME DuplicateGuardAssumption ==
  /\ Window \in Nat
  /\ MaxClock \in Nat
  /\ MaxEpoch \in Nat
  /\ NotSeen \notin Nat
  /\ NoPass \notin [key : Keys, at : Nat, acknowledged : BOOLEAN,
                    epoch : Nat]

VARIABLES
  now,             \* Date.now()
  epoch,           \* which process runs
  seen,
  passed           \* the commits let through: kept for the properties only

vars == <<now, epoch, seen, passed>>

Pass == [key : Keys, at : Nat, acknowledged : BOOLEAN, epoch : Nat]

\* Mutant: the window test with the wrong comparison.
RecentExclusive(at, stamp) == at - stamp < Window

Recent(at, stamp) == at - stamp <= Window

\* The map after the opportunistic expiry of old entries.
Swept(stamps) ==
  [k \in Keys |-> IF stamps[k] # NotSeen /\ ~Recent(now, stamps[k])
                  THEN NotSeen ELSE stamps[k]]

\* firstSeen is read before the sweep, so the window is tested again on it.
Suspected(key, acknowledged) ==
  /\ seen[key] # NotSeen
  /\ Recent(now, seen[key])
  /\ ~acknowledged

-----------------------------------------------------------------------------
Init ==
  /\ now = 0
  /\ epoch = 0
  /\ seen = [k \in Keys |-> NotSeen]
  /\ passed = [c \in Commits |-> NoPass]

\* assertNotDuplicate: every call sweeps; a suspected one throws before the
\* key is stamped.
AssertNotDuplicate(c, key, acknowledged) ==
  /\ passed[c] = NoPass
  /\ IF Suspected(key, acknowledged)
     THEN /\ seen' = Swept(seen)
          /\ UNCHANGED passed
     ELSE /\ seen' = [Swept(seen) EXCEPT ![key] = now]
          /\ passed' = [passed EXCEPT
               ![c] = [key |-> key, at |-> now,
                       acknowledged |-> acknowledged, epoch |-> epoch]]
  /\ UNCHANGED <<now, epoch>>

\* A new process starts with an empty map.
Restart ==
  /\ epoch < MaxEpoch
  /\ epoch' = epoch + 1
  /\ seen' = [k \in Keys |-> NotSeen]
  /\ UNCHANGED <<now, passed>>

Tick ==
  /\ now < MaxClock
  /\ now' = now + 1
  /\ UNCHANGED <<epoch, seen, passed>>

Next ==
  \/ \E c \in Commits, k \in Keys, ack \in BOOLEAN :
       AssertNotDuplicate(c, k, ack)
  \/ Restart
  \/ Tick

Spec == Init /\ [][Next]_vars

-----------------------------------------------------------------------------
TypeOK ==
  /\ now \in Nat
  /\ epoch \in Nat
  /\ seen \in [Keys -> Nat \cup {NotSeen}]
  /\ passed \in [Commits -> Pass \cup {NoPass}]

\* A commit let through without an acknowledgement in this step repeats no
\* write of this process that is at most the window old.
RepeatsNothingRecent ==
  \A c, d \in Commits :
    (/\ passed[c] = NoPass
     /\ passed'[c] # NoPass
     /\ ~passed'[c].acknowledged
     /\ passed[d] # NoPass
     /\ passed[d].key = passed'[c].key
     /\ passed[d].epoch = epoch)
    => now - passed[d].at > Window

\* Within one process, as long as the clock does not go back, an
\* unacknowledged write is let through only when every earlier identical
\* write, acknowledged or not, is more than the window old: the sweep, which
\* other keys' commits run too, never forgets a write that still counts, and
\* an acknowledged repeat starts the window again.
NoUnacknowledgedRepeat == [][RepeatsNothingRecent]_vars
=============================================================================
