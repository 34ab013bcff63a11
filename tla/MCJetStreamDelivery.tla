------------------------ MODULE MCJetStreamDelivery ------------------------
(***************************************************************************)
(* Model checking of JetStreamDelivery.                                    *)
(***************************************************************************)
EXTENDS JetStreamDelivery, TLC

Symmetry == Permutations(Transfers) \cup Permutations(Contents)
=============================================================================
