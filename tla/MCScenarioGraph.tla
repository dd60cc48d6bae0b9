-------------------------- MODULE MCScenarioGraph --------------------------
(***************************************************************************)
(* Instances of ScenarioGraph for TLC.                                     *)
(***************************************************************************)
EXTENDS ScenarioGraph, TLC

CONSTANTS b1, b2, b3, b4, p1, p2, x1, x2, x3

\* Two readings of the same facts, one of other facts, one that asks for no
\* action.
FourReadings == b1 :> p1 @@ b2 :> p1 @@ b3 :> p2 @@ b4 :> NoValue

\* One object of each type, and one object alone.
EachScenario == x1 :> "inventory" @@ x2 :> "equipment" @@ x3 :> "task"

NoDrafts == [d \in {} |-> x1]
=============================================================================
