--------------------------- MODULE MCEventProcess ---------------------------
(***************************************************************************)
(* Model checking of EventProcess: a release, its successor, one that      *)
(* changed a text, and one whose list is out of order.                     *)
(***************************************************************************)
EXTENDS EventProcess

A == [version |-> 1, sql |-> "a"]
B == [version |-> 2, sql |-> "b"]
A2 == [version |-> 1, sql |-> "a2"]

MCLists == {<<A>>, <<A, B>>, <<A2>>, <<B, A>>}
=============================================================================
