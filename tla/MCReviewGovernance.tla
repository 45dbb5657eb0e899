------------------------- MODULE MCReviewGovernance -------------------------
(***************************************************************************)
(* Instances of ReviewGovernance for TLC.  Handlers are interchangeable,   *)
(* which is sound for the invariants of the concurrent run; the runs with  *)
(* action properties use no symmetry.                                      *)
(***************************************************************************)
EXTENDS ReviewGovernance, TLC

HandlerSymmetry == Permutations(Handlers)

=============================================================================
