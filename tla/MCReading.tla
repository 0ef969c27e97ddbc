------------------------------ MODULE MCReading ------------------------------
(* Requests for leave summaries, for TLC: none, one batch or two, a code      *)
(* twice, and one code too many.                                              *)
EXTENDS MCTraversal, Reading

MCCodeLists == {<<>>, <<p1>>, <<p3, p2>>, <<p1, p2, p3>>, <<p2, p2, p1>>,
                <<p1, p2, p3, p1>>}
=============================================================================
