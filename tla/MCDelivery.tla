----------------------------- MODULE MCDelivery -----------------------------
(* Instances of Delivery for TLC.                                          *)
EXTENDS Delivery, TLC

\* Outputs are interchangeable in the safety properties.
Symmetry == Permutations(Outputs)
=============================================================================
