------------------------- MODULE MCAuthoringRuntime -------------------------
(* AuthoringRuntime for TLC.                                               *)
EXTENDS AuthoringRuntime, TLC

(* The author's edits are alike.                                           *)
Symmetry == Permutations(Own)

=============================================================================
