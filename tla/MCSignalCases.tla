--------------------------- MODULE MCSignalCases ---------------------------
(***************************************************************************)
(* SignalCases for TLC: two conditions of one object, which a change of    *)
(* its facts between two scans leads to.                                   *)
(***************************************************************************)
EXTENDS SignalCases

CONSTANTS b1, x1, d1, d2

OneObject == d1 :> x1 @@ d2 :> x1
NoAction == b1 :> NoValue

IdSymmetry == Permutations(Signals) \cup Permutations(Operations) \cup Permutations(Users)
=============================================================================
