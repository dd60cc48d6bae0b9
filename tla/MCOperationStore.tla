-------------------------- MODULE MCOperationStore --------------------------
(***************************************************************************)
(* Instances of OperationStore for TLC.                                    *)
(***************************************************************************)
EXTENDS OperationStore, TLC

CONSTANTS b1, b2, b3, p1, p2, x1, d1

\* Two bundles that lead to different plans and one that asks for no action.
PlansOrNone == b1 :> p1 @@ b2 :> p2 @@ b3 :> NoValue

\* One condition that a scan can detect.
OneDraft == d1 :> x1

\* Ids are interchangeable (safety runs only).
IdSymmetry ==
    Permutations(Signals) \cup Permutations(Operations) \cup Permutations(Approvers)
=============================================================================
