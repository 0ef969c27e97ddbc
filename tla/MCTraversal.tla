----------------------------- MODULE MCTraversal -----------------------------
(* Three people, one of whom manages another, for TLC.                     *)
EXTENDS Traversal

CONSTANTS p1, p2, p3, Profiles

MCPeople == {p1, p2, p3}
MCManagerOf == [p \in MCPeople |-> IF p = p2 THEN p1
                                   ELSE IF p = p3 THEN p2 ELSE Null]
MCMatching == [f \in {"all", "some"} |->
                 IF f = "all" THEN MCPeople ELSE {p2, p3}]
MCLists == {<<p1, p2, p3>>, <<p3, p2>>}

\* The flags that matter to each profile, in every combination; the person,
\* where there is one, is p1.
MCDeployments ==
  {s \in Settings : /\ s.profile \in Profiles
                    /\ s.subject \in {Id(p1), Null}
                    /\ ~s.financeKey /\ ~s.financeSecret
                    /\ s.profile # "hr_operations"
                       => ~s.writeAttendance /\ ~s.writeEmployees
                    /\ s.profile # "finance" => ~s.writePayrollDelete}
=============================================================================
