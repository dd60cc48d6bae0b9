------------------------------- MODULE AgentLoop -------------------------------
(***************************************************************************)
(* The investigation part of the root graph: the model is asked what to do *)
(* next until it gives its final analysis, the read tools it asks for are  *)
(* authorized and executed, and the policy is applied to what they         *)
(* answered.  The detail of RootGraph's step investigate.                  *)
(*                                                                         *)
(* The budgets are counted in the graph's state, which is saved after a    *)
(* node or not before the process dies: a restarted run repeats the model  *)
(* calls and the reads of the nodes that were not saved.                   *)
(***************************************************************************)
EXTENDS ToolPolicy

CONSTANTS
    MaxCrashes      \* bound on crashes of the API process

ASSUME LoopAssumption == MaxCrashes \in Nat

VARIABLES
    state,          \* the graph's state, with the node that runs next
    ckpt,           \* the last saved state
    spent,          \* model calls that were really made
    reads,          \* read tools that were really called
    crashes

loopVars == <<state, ckpt, spent, reads, crashes>>

Nodes == {"encode_goal", "begin_operation", "model_decide", "authorize_tools",
          "execute_read_tools", "validate_final_analysis", "calculate_policy"}
Outcomes == {"persist_policy_result", "mark_failed", "raised"}

\* The turn of a model: no turn, a sequence of calls, or a final analysis that
\* claims its evidence to be complete or not.
NoTurn == [kind |-> "none"]
FinalAnalyses == [kind : {"final_analysis"}, missing_evidence : BOOLEAN]
ToolDecisions == [kind : {"tool_calls"}, calls : Turns]

initial_state == [node |-> "encode_goal", model_call_count |-> 0, turn |-> NoTurn,
                  authorized |-> <<>>, observed |-> <<>>, error |-> "none"]

\* The end of a node: its state is saved, or lost if the process dies first.
finish(next) ==
    /\ state' = next
    /\ ckpt' \in {ckpt, next}

fail(code) == finish([initial_state EXCEPT !.node = "mark_failed", !.error = code])

\* An exception that no node catches ends the run; its start marks it failed.
raised ==
    /\ state' = [initial_state EXCEPT !.node = "raised"]
    /\ UNCHANGED ckpt

Init ==
    /\ state = initial_state
    /\ ckpt = initial_state
    /\ spent = 0
    /\ reads = 0
    /\ crashes = 0

-----------------------------------------------------------------------------
\* The model restates the trusted intent, or the run fails.
encode_goal ==
    /\ state.node = "encode_goal"
    /\ spent' = spent + 1
    /\ \/ finish([state EXCEPT !.node = "begin_operation", !.model_call_count = 1])
       \/ fail("trusted_goal_mismatch")
       \/ raised
    /\ UNCHANGED <<reads, crashes>>

begin_operation ==
    /\ state.node = "begin_operation"
    /\ finish([state EXCEPT !.node = "model_decide"]) \/ fail("dependency_unavailable")
    /\ UNCHANGED <<spent, reads, crashes>>

\* Mutant: the budget of turns ends one call early.
mutant_model_decide_early ==
    /\ state.node = "model_decide"
    /\ LET count == state.model_call_count + 1
       IN \/ count >= MaxModelCalls /\ fail("model_budget_exceeded") /\ UNCHANGED spent
          \/ /\ count < MaxModelCalls
             /\ \/ \E turn \in FinalAnalyses :
                    finish([state EXCEPT !.node = "validate_final_analysis", !.turn = turn,
                                         !.model_call_count = count])
                \/ \E turn \in ToolDecisions :
                    IF validate_turn(turn.calls, count, state.authorized)
                    THEN finish([state EXCEPT !.node = "authorize_tools", !.turn = turn,
                                              !.model_call_count = count])
                    ELSE fail("tool_budget_exceeded")
             /\ spent' = spent + 1
    /\ UNCHANGED <<reads, crashes>>

\* Mutant: a turn that gives nothing usable is asked for again and not counted.
mutant_model_decide_again ==
    /\ state.node = "model_decide"
    /\ \/ \E turn \in FinalAnalyses :
            finish([state EXCEPT !.node = "validate_final_analysis", !.turn = turn])
       \/ finish([state EXCEPT !.node = "begin_operation"])
    /\ UNCHANGED <<spent, reads, crashes>>

\* Turns are counted before the model is asked; a batch that does not fit what
\* is left of the budgets ends the run.
model_decide ==
    /\ state.node = "model_decide"
    /\ LET count == state.model_call_count + 1
       IN \/ count > MaxModelCalls /\ fail("model_budget_exceeded") /\ UNCHANGED spent
          \/ /\ count <= MaxModelCalls
             /\ \/ \E turn \in FinalAnalyses :
                    finish([state EXCEPT !.node = "validate_final_analysis", !.turn = turn,
                                         !.model_call_count = count])
                \/ \E turn \in ToolDecisions :
                    IF validate_turn(turn.calls, count, state.authorized)
                    THEN finish([state EXCEPT !.node = "authorize_tools", !.turn = turn,
                                              !.model_call_count = count])
                    ELSE fail("tool_budget_exceeded")
                \/ fail("model_output_invalid")
                \/ raised
             /\ spent' = spent + 1
    /\ UNCHANGED <<reads, crashes>>

authorize_tools ==
    /\ state.node = "authorize_tools"
    /\ IF authorize_all(state.turn.calls, state.authorized)
       THEN finish([state EXCEPT !.node = "execute_read_tools",
                                 !.authorized = @ \o state.turn.calls])
       ELSE fail("tool_policy_violation")
    /\ UNCHANGED <<spent, reads, crashes>>

\* Mutant: calls that have an observation are made again.
mutant_execute_read_tools ==
    /\ state.node = "execute_read_tools"
    /\ LET ids == {state.authorized[n].id : n \in DOMAIN state.authorized}
           open == ids
       IN /\ \/ \E answers \in [open -> {"ok", "error"}] :
                finish([state EXCEPT !.node = "model_decide", !.turn = NoTurn,
                                     !.observed = [id \in ids |-> IF id \in open THEN answers[id]
                                                                  ELSE state.observed[id]]])
             \/ raised
          /\ reads' = reads + Cardinality(open)
    /\ UNCHANGED <<spent, crashes>>

\* Every authorized call without an observation is made; an expected failure
\* is an observation too, any other exception ends the run.
execute_read_tools ==
    /\ state.node = "execute_read_tools"
    /\ LET ids == {state.authorized[n].id : n \in DOMAIN state.authorized}
           open == ids \ DOMAIN state.observed
       IN /\ \/ \E answers \in [open -> {"ok", "error"}] :
                finish([state EXCEPT !.node = "model_decide", !.turn = NoTurn,
                                     !.observed = [id \in ids |-> IF id \in open THEN answers[id]
                                                                  ELSE state.observed[id]]])
             \/ raised
          /\ reads' = reads + Cardinality(open)
    /\ UNCHANGED <<spent, crashes>>

successful ==
    {state.authorized[n].tool : n \in {m \in DOMAIN state.authorized :
        state.observed[state.authorized[m].id] = "ok"}}

\* Mutant: the model's word that nothing is missing is enough.
mutant_validate_final_analysis ==
    /\ state.node = "validate_final_analysis"
    /\ IF ~ state.turn.missing_evidence
       THEN finish([state EXCEPT !.node = "calculate_policy", !.turn = NoTurn])
       ELSE fail("required_evidence_incomplete")
    /\ UNCHANGED <<spent, reads, crashes>>

\* Every required tool must have been read with success, whatever the model says.
validate_final_analysis ==
    /\ state.node = "validate_final_analysis"
    /\ IF Required \subseteq successful /\ ~ state.turn.missing_evidence
       THEN finish([state EXCEPT !.node = "calculate_policy", !.turn = NoTurn])
       ELSE fail("required_evidence_incomplete")
    /\ UNCHANGED <<spent, reads, crashes>>

\* The policy accepts the evidence, or refuses it as stale or out of policy.
calculate_policy ==
    /\ state.node = "calculate_policy"
    /\ finish([state EXCEPT !.node = "persist_policy_result"]) \/ fail("policy_guard_failed")
    /\ UNCHANGED <<spent, reads, crashes>>

\* The process dies inside a node, after any part of its calls was made, and
\* recovery resumes from what was saved.
crash ==
    /\ state.node \in Nodes
    /\ crashes < MaxCrashes
    /\ crashes' = crashes + 1
    /\ spent' \in IF state.node \in {"encode_goal", "model_decide"}
                     /\ state.model_call_count < MaxModelCalls
                  THEN {spent, spent + 1} ELSE {spent}
    /\ reads' \in IF state.node = "execute_read_tools"
                  THEN reads .. reads + Len(state.authorized) - Cardinality(DOMAIN state.observed)
                  ELSE {reads}
    /\ state' = ckpt
    /\ UNCHANGED ckpt

step ==
    \/ encode_goal \/ begin_operation \/ model_decide \/ authorize_tools
    \/ execute_read_tools \/ validate_final_analysis \/ calculate_policy

Next == step \/ crash

\* The graph's coroutine is scheduled until it ends: every call it awaits
\* returns or times out.
LoopSpec == Init /\ [][Next]_loopVars /\ WF_loopVars(step)

-----------------------------------------------------------------------------
(* Properties *)

Observations == UNION {[ids -> {"ok", "error"}] : ids \in SUBSET CallIds}
ErrorCodes == {"none", "trusted_goal_mismatch", "dependency_unavailable", "model_budget_exceeded",
               "tool_budget_exceeded", "model_output_invalid", "tool_policy_violation",
               "required_evidence_incomplete", "policy_guard_failed"}
States == [node : Nodes \cup Outcomes, model_call_count : 0 .. MaxModelCalls,
           turn : {NoTurn} \cup FinalAnalyses \cup ToolDecisions,
           authorized : Seq(Calls), observed : Observations, error : ErrorCodes]

\* Type invariant: the running and the saved state are states of the graph.
LoopTypeOK ==
    /\ {state, ckpt} \subseteq States
    /\ {spent, reads} \subseteq Nat
    /\ crashes \in 0 .. MaxCrashes

\* What the policy is applied to is complete: every required tool answered,
\* in this run and not only before a crash, and every answer is to a call
\* about the operation's own object with the expected arguments.
EvidenceIsComplete ==
    state.node \in {"calculate_policy", "persist_policy_result"} =>
        /\ Required \subseteq successful
        /\ \A n \in DOMAIN state.authorized : expected_call(state.authorized[n])

\* No tool is read twice in a run, a failed one included; a crash repeats at
\* most one run's worth of model calls and reads.
SpendIsBounded ==
    /\ spent <= MaxModelCalls * (crashes + 1)
    /\ reads <= Cardinality(Offered) * (crashes + 1)

\* A budget of one model call per offered tool, one for the goal and one for
\* the final analysis is enough: however the model spreads its calls over its
\* turns, and wherever a run is resumed, the run does not end for want of
\* model calls.
BudgetNeverStarves ==
    MaxModelCalls >= Cardinality(Offered) + 2 => state.error # "model_budget_exceeded"

\* The loop comes to an end: a result of the policy or a failure.
LoopTerminates == <>(state.node \in Outcomes)
=============================================================================
