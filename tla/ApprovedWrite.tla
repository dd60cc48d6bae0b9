--------------------------- MODULE ApprovedWrite ---------------------------
(***************************************************************************)
(* What OperCerta promises of an operation that may write: a plan is       *)
(* proposed, the proposal is decided at most once, a new proposal needs a  *)
(* new decision, and at most one write happens, of exactly the plan whose  *)
(* approval is in force.  Nothing happens to a closed operation.           *)
(*                                                                         *)
(* The graphs, their checkpoints, crashes, retries and the tables are not  *)
(* part of the promise; RootGraph, ScenarioGraph and ReliabilityGraph are  *)
(* shown to keep it.                                                       *)
(***************************************************************************)
CONSTANTS Operations, Plans, NoValue

VARIABLES
    proposed,       \* the plan an approver is asked about
    decision,       \* what was decided about it
    written,        \* the plan of the work order
    closed          \* the operations that have ended

promiseVars == <<proposed, decision, written, closed>>

Init ==
    /\ proposed = [o \in Operations |-> NoValue]
    /\ decision = [o \in Operations |-> "none"]
    /\ written = [o \in Operations |-> NoValue]
    /\ closed = {}

\* A first proposal, or a new one in place of an approved one.
Propose(o, p) ==
    /\ o \notin closed
    /\ written[o] = NoValue
    /\ proposed[o] = NoValue \/ decision[o] = "approved"
    /\ proposed' = [proposed EXCEPT ![o] = p]
    /\ decision' = [decision EXCEPT ![o] = "none"]
    /\ UNCHANGED <<written, closed>>

Decide(o, d) ==
    /\ o \notin closed
    /\ proposed[o] # NoValue
    /\ decision[o] = "none"
    /\ decision' = [decision EXCEPT ![o] = d]
    /\ UNCHANGED <<proposed, written, closed>>

Write(o, p) ==
    /\ o \notin closed
    /\ decision[o] = "approved"
    /\ written[o] = NoValue
    /\ written' = [written EXCEPT ![o] = p]
    /\ UNCHANGED <<proposed, decision, closed>>

Close(o) ==
    /\ o \notin closed
    /\ closed' = closed \cup {o}
    /\ UNCHANGED <<proposed, decision, written>>

Next ==
    \E o \in Operations :
        \/ \E p \in Plans : Propose(o, p)
        \/ \E d \in {"approved", "rejected"} : Decide(o, d)
        \/ Write(o, proposed[o])
        \/ Close(o)

Spec == Init /\ [][Next]_promiseVars
=============================================================================
