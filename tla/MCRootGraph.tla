---------------------------- MODULE MCRootGraph ----------------------------
(***************************************************************************)
(* Instances of RootGraph for TLC.                                         *)
(***************************************************************************)
EXTENDS RootGraph, TLC

CONSTANTS b1, b2, b3, b4, p1, p2, x1, d1

\* Two readings of the same facts, one of other facts, one that asks for no
\* action.
FourReadings == b1 :> p1 @@ b2 :> p1 @@ b3 :> p2 @@ b4 :> NoValue

\* The empty function, for an instance without signals.
NoDrafts == [d \in {} |-> x1]

\* One condition that a scan can detect.
OneDraft == d1 :> x1
=============================================================================
