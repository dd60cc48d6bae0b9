------------------------------ MODULE ToolPolicy ------------------------------
(***************************************************************************)
(* What the model may ask for: the read tools of one goal, each with the   *)
(* only arguments it may have, each at most once, within the budgets of    *)
(* the harness.  The history of calls is the caller's.                     *)
(***************************************************************************)
EXTENDS Naturals, Sequences, FiniteSets

CONSTANTS
    Offered,        \* the tools of the goal: subject, policy, knowledge if enabled
    Required,       \* the tools whose answers the policy needs
    Foreign,        \* read tools of other scenarios
    CallIds,        \* the identifiers a model may give to its calls
    MaxModelCalls,  \* AgentBudget.max_model_calls
    MaxToolCalls,   \* AgentBudget.max_tool_calls
    MaxCallsPerTurn \* bound on the calls of one turn

ASSUME ToolPolicyAssumption ==
    /\ IsFiniteSet(Offered) /\ Required \subseteq Offered /\ Required # {}
    /\ Foreign \cap Offered = {}
    /\ {MaxModelCalls, MaxToolCalls, MaxCallsPerTurn} \subseteq Nat \ {0}

\* Arguments are the expected ones or not: another object, another query.
Calls == [id : CallIds, tool : Offered \cup Foreign, arguments : {"expected", "other"}]

within_budget(prior) == Len(prior) < MaxToolCalls
expected_call(call) == call.tool \in Offered /\ call.arguments = "expected"

duplicate_call(call, prior) ==
    \E n \in DOMAIN prior :
        \/ prior[n].id = call.id
        \/ prior[n].tool = call.tool /\ prior[n].arguments = call.arguments

authorize(call, prior) ==
    within_budget(prior) /\ expected_call(call) /\ ~ duplicate_call(call, prior)

\* The calls of one turn are authorized in order, each with those before it.
authorize_all(calls, prior) ==
    \A n \in DOMAIN calls : authorize(calls[n], prior \o SubSeq(calls, 1, n - 1))

\* A turn of calls must fit in what is left of the budget.
validate_turn(calls, model_call_count, prior) ==
    /\ model_call_count <= MaxModelCalls
    /\ Len(prior) + Len(calls) <= MaxToolCalls

Turns == UNION {[1 .. n -> Calls] : n \in 1 .. MaxCallsPerTurn}
=============================================================================
