--------------------------- MODULE MCPayrollDelete ---------------------------
(***************************************************************************)
(* PayrollDelete for TLC.  Commits, prepares, hashes and spellings are     *)
(* interchangeable, so it is enough to look at the behaviours in which the *)
(* first of each has the first name.  That holds of whole behaviours, so   *)
(* liveness may be checked too, which SYMMETRY would not allow.            *)
(***************************************************************************)
EXTENDS PayrollDelete

CONSTANTS c1, c2, n1, n2, h1

FirstNamesFirst ==
  /\ at[c2] # "idle" => at[c1] # "idle"
  /\ shown[n2] # NotShown => shown[n1] # NotShown
  /\ shown[n1] # NotShown => shown[n1].spelling = "number"
  /\ edits = 0 => \A t \in Transactions :
                    record[t] # Absent => record[t].hashed = h1
=============================================================================
