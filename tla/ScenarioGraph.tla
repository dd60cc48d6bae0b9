---------------------------- MODULE ScenarioGraph ----------------------------
(***************************************************************************)
(* The three scenario graphs (replenishment, equipment maintenance, task   *)
(* recovery) behind ControlledActionGraph, with OperationRunner and        *)
(* ReplenishmentRecoveryCoordinator, on top of the tables of               *)
(* OperationStore and the evidence table.                                  *)
(*                                                                         *)
(* The graphs have the same nodes under partly different names.  A graph   *)
(* is a table from a node's name to its role, and a table of its edges; a  *)
(* role is one action, written after the replenishment graph.              *)
(*                                                                         *)
(* Unlike RootGraph, most nodes let an exception end the run, every commit *)
(* of a node is a node of its own except for the two of gather_evidence,   *)
(* and an operation without a checkpoint is rebuilt from its row.          *)
(***************************************************************************)
EXTENDS OperationStore

CONSTANTS
    ScenarioOf,     \* the object type of an object
    ApprovalTtl,    \* approval_ttl_seconds
    MaxLag,         \* bound on the checkpoints that are not saved yet
    MaxFaults,      \* bound on failing calls to a dependency
    MaxCrashes      \* bound on crashes of the process

Scenarios == {"inventory", "equipment", "task"}

ASSUME ScenarioAssumption ==
    /\ ScenarioOf \in [Objects -> Scenarios]
    /\ ApprovalTtl \in Nat \ {0}
    /\ MaxTime + ApprovalTtl <= MaxDeadline
    /\ MaxLag \in Nat
    /\ MaxFaults \in Nat
    /\ MaxCrashes \in Nat

VARIABLES
    evidence,       \* the evidence table: the bundles saved for each operation
    agent,          \* whether an agent model gateway is configured
    run,            \* the coroutine that runs the graph of each operation
    ckpt,           \* the last saved checkpoint of each operation's thread
    lag,            \* how many later checkpoints are not saved
    decided,        \* the approval that submit_approval is about to resume with
    capturing,      \* operations whose start is recording the outcome
    boot,           \* the phase of the process
    todo,           \* the operations that recover_all has not visited
    faults,         \* failing calls so far
    crashes,        \* crashes so far
    setBack         \* operations whose thread has lost three or more checkpoints at once

scenarioVars == <<storeVars, evidence, agent, run, ckpt, lag, decided, capturing, boot, todo,
                  faults, crashes, setBack>>

-----------------------------------------------------------------------------
(* The graphs *)

\* An edge leads from a node under a route to the next node; where the code
\* has a plain edge the route is "continue".
replenishment_edges ==
    [parse_request                  |-> [continue |-> "mark_gathering", failure |-> "mark_failed"],
     mark_gathering                 |-> [continue |-> "gather_evidence"],
     gather_evidence                |-> [continue |-> "calculate_assessment", failure |-> "mark_failed"],
     calculate_assessment           |-> [query |-> "record_query_assessment", normal |-> "record_normal_plan",
                                         low |-> "explain_plan", failure |-> "mark_failed"],
     record_normal_plan             |-> [continue |-> "mark_reporting"],
     record_query_assessment        |-> [continue |-> "mark_reporting"],
     mark_reporting                 |-> [continue |-> "complete_without_replenishment"],
     complete_without_replenishment |-> [continue |-> "END"],
     explain_plan                   |-> [continue |-> "build_and_validate_plan"],
     build_and_validate_plan        |-> [continue |-> "record_low_plan", failure |-> "mark_failed"],
     record_low_plan                |-> [continue |-> "prepare_approval"],
     prepare_approval               |-> [continue |-> "request_approval"],
     request_approval               |-> [approved |-> "revalidate_evidence", rejected |-> "mark_rejected",
                                         failure |-> "mark_failed"],
     mark_rejected                  |-> [continue |-> "END"],
     revalidate_evidence            |-> [proceed |-> "mark_executing", abort |-> "mark_verifier_aborted",
                                         reapproval |-> "mark_needs_reapproval", failure |-> "mark_failed"],
     mark_verifier_aborted          |-> [continue |-> "END"],
     mark_needs_reapproval          |-> [continue |-> "request_reapproval"],
     request_reapproval             |-> [approved |-> "revalidate_evidence", rejected |-> "mark_rejected",
                                         failure |-> "mark_failed"],
     mark_executing                 |-> [continue |-> "execute_work_order"],
     execute_work_order             |-> [continue |-> "mark_verifying", failure |-> "mark_failed"],
     mark_verifying                 |-> [continue |-> "verify_work_order"],
     verify_work_order              |-> [continue |-> "mark_completed", failure |-> "mark_failed"],
     mark_completed                 |-> [continue |-> "END"],
     mark_failed                    |-> [continue |-> "END"]]

maintenance_edges ==
    [parse_request                |-> [continue |-> "mark_gathering", failure |-> "mark_failed"],
     mark_gathering               |-> [continue |-> "gather_evidence"],
     gather_evidence              |-> [continue |-> "calculate_assessment", failure |-> "mark_failed"],
     calculate_assessment         |-> [query |-> "record_query_assessment", normal |-> "record_normal_plan",
                                       repair |-> "explain_plan", failure |-> "mark_failed"],
     record_normal_plan           |-> [continue |-> "mark_reporting"],
     record_query_assessment      |-> [continue |-> "mark_reporting"],
     mark_reporting               |-> [continue |-> "complete_without_maintenance"],
     complete_without_maintenance |-> [continue |-> "END"],
     explain_plan                 |-> [continue |-> "build_and_validate_plan"],
     build_and_validate_plan      |-> [continue |-> "record_repair_plan", failure |-> "mark_failed"],
     record_repair_plan           |-> [continue |-> "prepare_approval"],
     prepare_approval             |-> [continue |-> "request_approval"],
     request_approval             |-> [approved |-> "revalidate_evidence", rejected |-> "mark_rejected",
                                       failure |-> "mark_failed"],
     mark_rejected                |-> [continue |-> "END"],
     revalidate_evidence          |-> [proceed |-> "mark_executing", abort |-> "mark_verifier_aborted",
                                       reapproval |-> "mark_needs_reapproval", failure |-> "mark_failed"],
     mark_verifier_aborted        |-> [continue |-> "END"],
     mark_needs_reapproval        |-> [continue |-> "request_reapproval"],
     request_reapproval           |-> [approved |-> "revalidate_evidence", rejected |-> "mark_rejected",
                                       failure |-> "mark_failed"],
     mark_executing               |-> [continue |-> "execute_work_order"],
     execute_work_order           |-> [continue |-> "mark_verifying", failure |-> "mark_failed"],
     mark_verifying               |-> [continue |-> "verify_work_order"],
     verify_work_order            |-> [continue |-> "mark_completed", failure |-> "mark_failed"],
     mark_completed               |-> [continue |-> "END"],
     mark_failed                  |-> [continue |-> "END"]]

task_recovery_edges ==
    [parse_request             |-> [continue |-> "mark_gathering", failure |-> "fail"],
     mark_gathering            |-> [continue |-> "gather_evidence"],
     gather_evidence           |-> [continue |-> "calculate_assessment", failure |-> "fail"],
     calculate_assessment      |-> [query |-> "record_query_assessment", normal |-> "record_normal_plan",
                                    recover |-> "explain_plan", failure |-> "fail"],
     record_normal_plan        |-> [continue |-> "mark_reporting"],
     record_query_assessment   |-> [continue |-> "mark_reporting"],
     mark_reporting            |-> [continue |-> "complete_without_recovery"],
     complete_without_recovery |-> [continue |-> "END"],
     explain_plan              |-> [continue |-> "build_plan"],
     build_plan                |-> [continue |-> "record_recovery_plan", failure |-> "fail"],
     record_recovery_plan      |-> [continue |-> "prepare_approval"],
     prepare_approval          |-> [continue |-> "request_approval"],
     request_approval          |-> [approved |-> "revalidate", rejected |-> "mark_rejected",
                                    failure |-> "fail"],
     mark_rejected             |-> [continue |-> "END"],
     revalidate                |-> [proceed |-> "mark_executing", abort |-> "mark_verifier_aborted",
                                    reapproval |-> "mark_needs_reapproval", failure |-> "fail"],
     mark_verifier_aborted     |-> [continue |-> "END"],
     mark_needs_reapproval     |-> [continue |-> "request_reapproval"],
     request_reapproval        |-> [approved |-> "revalidate", rejected |-> "mark_rejected",
                                    failure |-> "fail"],
     mark_executing            |-> [continue |-> "execute"],
     execute                   |-> [continue |-> "mark_verifying", failure |-> "fail"],
     mark_verifying            |-> [continue |-> "verify"],
     verify                    |-> [continue |-> "complete", failure |-> "fail"],
     complete                  |-> [continue |-> "END"],
     fail                      |-> [continue |-> "END"]]

\* The role of each node: which node of the replenishment graph it has the
\* body of.  First the nodes that investigate and plan, then those that decide
\* and write.
planning_nodes == {"parse_request", "mark_gathering", "gather_evidence", "calculate_assessment",
                   "record_normal_plan", "record_query_assessment", "mark_reporting",
                   "explain_plan", "prepare_approval"}
writing_nodes == {"request_approval", "mark_rejected", "mark_needs_reapproval",
                  "request_reapproval", "mark_verifier_aborted", "mark_executing",
                  "mark_verifying"}

maintenance_planning ==
    [n \in planning_nodes \cup {"build_and_validate_plan", "complete_without_maintenance",
                               "record_repair_plan"} |->
        CASE n = "complete_without_maintenance" -> "complete_without_replenishment"
          [] n = "record_repair_plan" -> "record_low_plan"
          [] OTHER -> n]

maintenance_writing ==
    [n \in writing_nodes \cup {"revalidate_evidence", "execute_work_order", "verify_work_order",
                               "mark_completed", "mark_failed"} |-> n]

task_recovery_planning ==
    [n \in planning_nodes \cup {"complete_without_recovery", "build_plan",
                               "record_recovery_plan"} |->
        CASE n = "complete_without_recovery" -> "complete_without_replenishment"
          [] n = "build_plan" -> "build_and_validate_plan"
          [] n = "record_recovery_plan" -> "record_low_plan"
          [] OTHER -> n]

task_recovery_writing ==
    [n \in writing_nodes \cup {"revalidate", "execute", "verify", "complete", "fail"} |->
        CASE n = "revalidate" -> "revalidate_evidence"
          [] n = "execute" -> "execute_work_order"
          [] n = "verify" -> "verify_work_order"
          [] n = "complete" -> "mark_completed"
          [] n = "fail" -> "mark_failed"
          [] OTHER -> n]

\* ControlledActionGraph._graph: the graph of an operation's object type.
graph_edges(o) ==
    CASE ScenarioOf[request[o].object] = "inventory" -> replenishment_edges
      [] ScenarioOf[request[o].object] = "equipment" -> maintenance_edges
      [] ScenarioOf[request[o].object] = "task"      -> task_recovery_edges

graph_roles(o) ==
    CASE ScenarioOf[request[o].object] = "inventory" ->
            [n \in DOMAIN replenishment_edges |-> n]
      [] ScenarioOf[request[o].object] = "equipment" ->
            [n \in DOMAIN maintenance_edges |->
                IF n \in DOMAIN maintenance_planning THEN maintenance_planning[n]
                                                     ELSE maintenance_writing[n]]
      [] ScenarioOf[request[o].object] = "task" ->
            [n \in DOMAIN task_recovery_edges |->
                IF n \in DOMAIN task_recovery_planning THEN task_recovery_planning[n]
                                                       ELSE task_recovery_writing[n]]

\* What the assessment asks for, in the words of each graph's route_assessment.
required_route(o) ==
    CASE ScenarioOf[request[o].object] = "inventory" -> "low"
      [] ScenarioOf[request[o].object] = "equipment" -> "repair"
      [] ScenarioOf[request[o].object] = "task"      -> "recover"

-----------------------------------------------------------------------------
(* Graph state, checkpoints and exceptions *)

\* Where a coroutine is besides the nodes of its graph: in the agent
\* investigation that comes first, between the two commits of
\* gather_evidence, before the resume of a rebuilt decision, or unwinding an
\* exception (RecoveryStateConflict or another one).
Positions == {"agent_investigation", "record_evidence", "resume_decision", "END",
              "conflict", "raised"}
Nodes == DOMAIN replenishment_edges \cup DOMAIN maintenance_edges \cup DOMAIN task_recovery_edges

GraphStates == [evidence : Bundles \cup {NoValue},
                plan     : Plans \cup {NoValue},
                binding  : Bindings \cup {NoValue},
                approval : ApprovalRows \cup {NoValue},
                work     : WorkOrderRows \cup {NoValue}]
initial_state == [evidence |-> NoValue, plan |-> NoValue, binding |-> NoValue,
                  approval |-> NoValue, work |-> NoValue]

\* An interrupted checkpoint waits in request_approval or request_reapproval.
Checkpoints == [node : Nodes \cup {"END"}, interrupted : BOOLEAN, state : GraphStates]
Callers == {"start", "submit", "recover", "rebuild_decision"}
Runs == [by : Callers, node : Nodes \cup Positions, state : GraphStates]

\* None is told from every coroutine, every checkpoint and every approval.
ASSUME NoThreadAssumption == NoValue \notin Runs \cup Checkpoints \cup ApprovalRows

at(o, role) ==
    /\ run[o] # NoValue
    /\ IF run[o].node \in Positions THEN run[o].node = role
       ELSE graph_roles(o)[run[o].node] = role

interrupted(o) == ckpt[o] # NoValue /\ ckpt[o].interrupted

checkpoint(node, state) == [node |-> node, interrupted |-> FALSE, state |-> state]

\* A checkpoint is saved, with those before it, or it is left behind and lost
\* if the process dies.
save(o, node, state) ==
    \/ ckpt' = [ckpt EXCEPT ![o] = checkpoint(node, state)] /\ lag' = [lag EXCEPT ![o] = 0]
    \/ lag[o] < MaxLag /\ lag' = [lag EXCEPT ![o] = @ + 1] /\ UNCHANGED ckpt

\* The end of a node: the graph goes on along an edge.
leave(o, route, state) ==
    LET next == graph_edges(o)[run[o].node][route] IN
    /\ run' = [run EXCEPT ![o].node = next, ![o].state = state]
    /\ save(o, next, state)

fail(o) == leave(o, "failure", run[o].state)

\* An exception that the node does not catch: the checkpoints on their way
\* are saved before ainvoke raises it.
raise(o, kind) ==
    /\ run' = [run EXCEPT ![o].node = kind]
    /\ ckpt' = [ckpt EXCEPT ![o] = checkpoint(run[o].node, run[o].state)]
    /\ lag' = [lag EXCEPT ![o] = 0]

fault == faults < MaxFaults /\ faults' = faults + 1

processVars == <<agent, decided, capturing, boot, todo, crashes, setBack>>

\* A node that is one transition of the operation's row: it commits, finds
\* its own earlier commit or raises; and the database may fail before or
\* after the commit.
Transition(o, from, target, located, transaction, type, payload, state) ==
    LET allowed == located /\ status[o] = from
        replay == replayed(o, target, type, payload)
    IN  /\ \/ allowed /\ transaction /\ leave(o, "continue", state) /\ UNCHANGED faults
           \/ replay /\ UNCHANGED storeVars /\ leave(o, "continue", state) /\ UNCHANGED faults
           \/ /\ ~ allowed /\ ~ replay
              /\ raise(o, IF ~ located \/ status[o] = target THEN "conflict" ELSE "raised")
              /\ UNCHANGED <<storeVars, faults>>
           \/ /\ fault
              /\ UNCHANGED storeVars \/ (allowed /\ transaction)
              /\ raise(o, "raised")
        /\ UNCHANGED <<evidence, processVars>>

\* A node that reads: it goes on or catches an exception.
Reading(o, proceed) ==
    /\ proceed \/ fail(o)
    /\ UNCHANGED <<storeVars, evidence, faults, processVars>>

-----------------------------------------------------------------------------
(* Investigation and plan *)

\* ControlledActionGraph.ainvoke before the scenario graph: an investigation
\* that fails ends the operation here.
agent_investigation(o) ==
    /\ at(o, "agent_investigation")
    /\ \/ /\ run' = [run EXCEPT ![o].node = "parse_request"]
          /\ save(o, "parse_request", initial_state)
          /\ UNCHANGED <<storeVars, faults>>
       \/ /\ \E e \in Errors : mark_failed(o, e)
          /\ run' = [run EXCEPT ![o].node = "END"]
          /\ UNCHANGED <<ckpt, lag, faults>>
       \/ /\ fault
          /\ run' = [run EXCEPT ![o].node = "raised"]
          /\ UNCHANGED <<storeVars, ckpt, lag>>
    /\ UNCHANGED <<evidence, processVars>>

\* The request was validated when it was created.
parse_request(o) ==
    /\ at(o, "parse_request")
    /\ leave(o, "continue", run[o].state)
    /\ UNCHANGED <<storeVars, evidence, faults, processVars>>

mark_gathering(o) ==
    /\ at(o, "mark_gathering")
    /\ Transition(o, "received", "gathering_evidence", TRUE, mark_gathering_evidence(o),
                  "evidence_gathering_started", NoValue, run[o].state)

\* EvidenceRepository.save_bundle and save_refresh insert what is not there.
save_bundle(o, bundle) == evidence' = [evidence EXCEPT ![o] = @ \cup {bundle}]

\* The evidence is read, possibly from the cache, and saved; then, in another
\* transaction of the same node, recorded in the operation.
gather_evidence(o) ==
    /\ at(o, "gather_evidence")
    /\ \/ \E b \in Bundles :
            /\ save_bundle(o, b)
            /\ run' = [run EXCEPT ![o].node = "record_evidence", ![o].state.evidence = b]
            /\ UNCHANGED <<ckpt, lag>>
       \/ fail(o) /\ UNCHANGED evidence
    /\ UNCHANGED <<storeVars, faults, processVars>>

gather_record_evidence(o) ==
    LET b == run[o].state.evidence
        end(route, state) ==
            LET next == graph_edges(o)["gather_evidence"][route] IN
            /\ run' = [run EXCEPT ![o].node = next, ![o].state = state]
            /\ save(o, next, state)
        failed == end("failure", [run[o].state EXCEPT !.evidence = NoValue])
        allowed == status[o] = "gathering_evidence"
    IN  /\ at(o, "record_evidence")
        /\ \/ /\ allowed /\ record_evidence(o, b)
              /\ end("continue", run[o].state) /\ UNCHANGED faults
           \/ /\ ~ allowed /\ UNCHANGED storeVars /\ UNCHANGED faults
              /\ IF replayed(o, "planning", "evidence_recorded", b)
                 THEN end("continue", run[o].state) ELSE failed
           \/ fault /\ (UNCHANGED storeVars \/ (allowed /\ record_evidence(o, b))) /\ failed
        /\ UNCHANGED <<evidence, processVars>>

route_assessment(o) ==
    CASE request[o].action = "query" -> "query"
      [] request[o].action # "query" /\ PlanOf[run[o].state.evidence] = NoValue -> "normal"
      [] OTHER -> required_route(o)

\* The evidence may be stale by now, or ask for what the policy forbids.
calculate_assessment(o) ==
    /\ at(o, "calculate_assessment")
    /\ Reading(o, leave(o, route_assessment(o), run[o].state))

record_normal_plan(o) ==
    LET b == run[o].state.evidence IN
    /\ at(o, "record_normal_plan")
    /\ Transition(o, "planning", "validating", TRUE, record_validated_plan(o, b, NoValue),
                  "plan_validated", b, run[o].state)

graph_record_query_assessment(o) ==
    LET b == run[o].state.evidence IN
    /\ at(o, "record_query_assessment")
    /\ Transition(o, "planning", "validating", TRUE, record_query_assessment(o, b),
                  "query_assessed", b, run[o].state)

graph_mark_reporting(o) ==
    /\ at(o, "mark_reporting")
    /\ Transition(o, "validating", "reporting", TRUE, mark_reporting(o),
                  "reporting_started", NoValue, run[o].state)

graph_complete_without_replenishment(o) ==
    LET outcome == IF request[o].action = "query" THEN "query_completed" ELSE "not_required" IN
    /\ at(o, "complete_without_replenishment")
    /\ Transition(o, "reporting", "completed", TRUE, complete_without_replenishment(o, outcome),
                  "operation_completed", [outcome |-> outcome], run[o].state)

\* An explanation that fails leaves build_and_validate_plan without one.
explain_plan(o) ==
    /\ at(o, "explain_plan")
    /\ leave(o, "continue", run[o].state)
    /\ UNCHANGED <<storeVars, evidence, faults, processVars>>

build_and_validate_plan(o) ==
    /\ at(o, "build_and_validate_plan")
    /\ Reading(o, leave(o, "continue",
                        [run[o].state EXCEPT !.plan = PlanOf[run[o].state.evidence]]))

record_low_plan(o) ==
    LET st == run[o].state IN
    /\ at(o, "record_low_plan")
    /\ Transition(o, "planning", "validating", TRUE,
                  record_validated_plan(o, st.evidence, st.plan), "plan_validated", st.evidence,
                  [st EXCEPT !.binding = build_approval_binding(st.evidence, st.plan)])

-----------------------------------------------------------------------------
(* Approval *)

prepare_approval(o) ==
    LET binding == run[o].state.binding
        deadline == now + ApprovalTtl
    IN  /\ at(o, "prepare_approval")
        /\ Transition(o, "validating", "awaiting_approval", TRUE,
                      mark_awaiting_approval(o, binding, deadline), "approval_requested",
                      [binding |-> binding, deadline |-> deadline], run[o].state)

\* interrupt(): everything is saved, the checkpoint is marked, and ainvoke
\* returns to its caller.  A rebuild of a decided operation resumes next.
interrupt(o) ==
    /\ ckpt' = [ckpt EXCEPT ![o] = [checkpoint(run[o].node, run[o].state)
                                       EXCEPT !.interrupted = TRUE]]
    /\ lag' = [lag EXCEPT ![o] = 0]
    /\ run' = IF run[o].by = "rebuild_decision"
              THEN [run EXCEPT ![o].node = "resume_decision"] ELSE [run EXCEPT ![o] = NoValue]
    /\ capturing' = IF run[o].by = "start" THEN capturing \cup {o} ELSE capturing

\* The node reads the deadline from the operation before it stops.
request_approval(o) ==
    /\ at(o, "request_approval") \/ at(o, "request_reapproval")
    /\ \/ load_detail_succeeds(o) /\ expires[o] # NoValue /\ interrupt(o) /\ UNCHANGED faults
       \/ /\ load_detail_succeeds(o) /\ expires[o] = NoValue /\ fail(o)
          /\ UNCHANGED <<capturing, faults>>
       \/ ~ load_detail_succeeds(o) /\ raise(o, "conflict") /\ UNCHANGED <<capturing, faults>>
       \/ fault /\ raise(o, "raised") /\ UNCHANGED capturing
    /\ UNCHANGED <<storeVars, evidence, agent, decided, boot, todo, crashes, setBack>>

\* ainvoke(Command(resume=...)) on an interrupted thread: the node runs again,
\* returns the decision and route_approval follows it.
resume(o, a, by) ==
    LET node == graph_edges(o)[ckpt[o].node][a.decision]
        state == [ckpt[o].state EXCEPT !.approval = a]
    IN  /\ run' = [run EXCEPT ![o] = [by |-> by, node |-> node, state |-> state]]
        /\ save(o, node, state)

graph_mark_rejected(o) ==
    LET a == run[o].state.approval IN
    /\ at(o, "mark_rejected")
    /\ Transition(o, "resuming", "rejected", approval_locator(o, a, "rejected"),
                  mark_rejected(o, a), "operation_rejected", a, run[o].state)

\* The verifier model may abort or escalate; the facts overrule it when they
\* no longer match.
choose_verification_route(verdict, binding_matches) ==
    CASE verdict = "abort" -> "abort"
      [] verdict # "abort" /\ (verdict = "escalate" \/ ~ binding_matches) -> "reapproval"
      [] OTHER -> "proceed"

\* Without a verifier the facts alone decide, and a change ends the operation.
verification_route(plan, verdict, binding_matches) ==
    IF agent
    THEN IF plan = NoValue THEN "abort" ELSE choose_verification_route(verdict, binding_matches)
    ELSE IF plan # NoValue /\ binding_matches THEN "proceed" ELSE "failure"

\* Mutant: the refreshed evidence is saved only when the write goes ahead.
mutant_revalidate_evidence(o) ==
    LET st == run[o].state IN
    /\ at(o, "revalidate_evidence")
    /\ \E b \in Bundles \ {st.evidence}, verdict \in {"proceed", "abort", "escalate"} :
        LET plan == PlanOf[b]
            route == verification_route(plan, verdict, plan = st.binding.plan)
            refreshed == [st EXCEPT !.evidence = b, !.plan = plan,
                                    !.binding = build_approval_binding(b, plan)]
        IN  /\ route = "reapproval" => cycle[o] < MaxCycle
            /\ IF route = "proceed" THEN save_bundle(o, b) ELSE UNCHANGED evidence
            /\ leave(o, route, IF route = "reapproval" THEN refreshed ELSE st)
    /\ UNCHANGED <<storeVars, faults, processVars>>

\* The evidence is read again past the cache, so its ids are new, and saved
\* before it is assessed.  Only a re-approval takes it into the graph's state.
revalidate_evidence(o) ==
    LET st == run[o].state IN
    /\ at(o, "revalidate_evidence")
    /\ \/ \E b \in Bundles \ {st.evidence}, verdict \in {"proceed", "abort", "escalate"} :
            LET plan == PlanOf[b]
                binding == build_approval_binding(b, plan)
                route == verification_route(plan, verdict,
                                            binding_facts(binding) = binding_facts(st.binding))
                refreshed == [st EXCEPT !.evidence = b, !.plan = plan, !.binding = binding]
            IN  /\ route = "reapproval" => cycle[o] < MaxCycle
                /\ save_bundle(o, b)
                /\ leave(o, route, IF route = "reapproval" THEN refreshed ELSE st)
       \/ /\ UNCHANGED evidence \/ \E b \in Bundles \ {st.evidence} : save_bundle(o, b)
          /\ fail(o)
    /\ UNCHANGED <<storeVars, faults, processVars>>

graph_mark_needs_reapproval(o) ==
    LET st == run[o].state IN
    /\ at(o, "mark_needs_reapproval")
    /\ Transition(o, "resuming", "needs_reapproval", approval_locator(o, st.approval, "approved"),
                  mark_needs_reapproval(o, st.approval, st.evidence, st.plan, st.binding,
                                        now + ApprovalTtl),
                  "reapproval_requested", [approval |-> st.approval, binding |-> st.binding],
                  [st EXCEPT !.approval = NoValue])

graph_mark_verifier_aborted(o) ==
    LET a == run[o].state.approval IN
    /\ at(o, "mark_verifier_aborted")
    /\ Transition(o, "resuming", "aborted", approval_locator(o, a, "approved"),
                  mark_verifier_aborted(o, a), "verification_aborted", a, run[o].state)

-----------------------------------------------------------------------------
(* Controlled write *)

graph_mark_executing(o) ==
    LET a == run[o].state.approval IN
    /\ at(o, "mark_executing")
    /\ Transition(o, "resuming", "executing", approval_locator(o, a, "approved"),
                  mark_executing(o, a), "execution_started", a, run[o].state)

\* Mutant: the write takes the plan of the evidence at hand.
mutant_execute_work_order(o) ==
    LET written == [op |-> o, payload |-> run[o].state.plan] IN
    /\ at(o, "execute_work_order")
    /\ \E p \in Plans : create_or_get(o, p)
    /\ leave(o, "continue", [run[o].state EXCEPT !.work = written])
    /\ UNCHANGED <<evidence, faults, processVars>>

\* The plan's parameters and hash become the work order.
execute_work_order(o) ==
    LET payload == run[o].state.plan
        written == [op |-> o, payload |-> payload]
        allowed == work_order_of(o) = {} /\ write_authorized(o)
    IN  /\ at(o, "execute_work_order")
        /\ \/ /\ allowed /\ create_or_get(o, payload)
              /\ leave(o, "continue", [run[o].state EXCEPT !.work = written])
              /\ UNCHANGED faults
           \/ /\ ~ allowed /\ UNCHANGED <<storeVars, faults>>
              /\ IF create_or_get_replayed(o, payload)
                 THEN leave(o, "continue", [run[o].state EXCEPT !.work = written]) ELSE fail(o)
           \/ fault /\ (UNCHANGED storeVars \/ (allowed /\ create_or_get(o, payload))) /\ fail(o)
        /\ UNCHANGED <<evidence, processVars>>

graph_mark_verifying(o) ==
    LET w == run[o].state.work IN
    /\ at(o, "mark_verifying")
    /\ Transition(o, "executing", "verifying", work_order_locator(o, w),
                  mark_verifying(o, w), "verification_started", w, run[o].state)

\* The row read back must be the row that was written.
verify_work_order(o) ==
    /\ at(o, "verify_work_order")
    /\ Reading(o, IF run[o].state.work \in workOrders
                  THEN leave(o, "continue", run[o].state) ELSE fail(o))

graph_mark_completed(o) ==
    LET w == run[o].state.work IN
    /\ at(o, "mark_completed")
    /\ Transition(o, "verifying", "completed", work_order_locator(o, w), mark_completed(o, w),
                  "operation_completed", [outcome |-> "work_order_completed"], run[o].state)

\* Nothing catches an exception of mark_failed.
graph_mark_failed(o) ==
    /\ at(o, "mark_failed")
    /\ \/ (\E e \in Errors : mark_failed(o, e)) /\ leave(o, "continue", run[o].state)
          /\ UNCHANGED faults
       \/ status[o] \notin Active /\ raise(o, "raised") /\ UNCHANGED <<storeVars, faults>>
       \/ fault /\ raise(o, "raised") /\ UNCHANGED storeVars
    /\ UNCHANGED <<evidence, processVars>>

\* ainvoke returns once every checkpoint is saved.
graph_end(o) ==
    /\ at(o, "END")
    /\ ckpt' = IF ckpt[o] = NoValue THEN ckpt
               ELSE [ckpt EXCEPT ![o] = checkpoint("END", run[o].state)]
    /\ lag' = [lag EXCEPT ![o] = 0]
    /\ run' = [run EXCEPT ![o] = NoValue]
    /\ capturing' = IF run[o].by = "start" THEN capturing \cup {o} ELSE capturing
    /\ UNCHANGED <<storeVars, evidence, agent, decided, boot, todo, faults, crashes, setBack>>

-----------------------------------------------------------------------------
(* OperationRunner *)

\* A graph starts with the agent investigation when there is an agent.
enter(o, by) ==
    IF agent
    THEN /\ run' = [run EXCEPT ![o] = [by |-> by, node |-> "agent_investigation",
                                       state |-> initial_state]]
         /\ UNCHANGED <<ckpt, lag>>
    ELSE /\ run' = [run EXCEPT ![o] = [by |-> by, node |-> "parse_request",
                                       state |-> initial_state]]
         /\ save(o, "parse_request", initial_state)

start(o, req) ==
    /\ boot = "serving"
    /\ create(o, req)
    /\ run' = [run EXCEPT ![o] = [by |-> "start",
                                  node |-> IF agent THEN "agent_investigation" ELSE "parse_request",
                                  state |-> initial_state]]
    /\ UNCHANGED <<evidence, ckpt, lag, faults, processVars>>

\* mark_failed from a handler.  The operation may have ended meanwhile, and
\* what made the call fail may also defeat mark_failed, whose exception start
\* logs and swallows.
mark_start_failed(o) ==
    \/ \E e \in Errors : mark_failed(o, e)
    \/ (status[o] \notin Active \/ faults' > 0) /\ UNCHANGED storeVars

\* Who called ainvoke handles its exception: start fails the operation,
\* recover_all fails it after a RecoveryStateConflict and otherwise defers it
\* to the next startup, submit_approval passes the exception on.  Nothing is
\* left unsaved once ainvoke has raised.
handle_exception(o) ==
    /\ at(o, "raised") \/ at(o, "conflict")
    /\ run' = [run EXCEPT ![o] = NoValue]
    /\ lag' = [lag EXCEPT ![o] = 0]
    /\ UNCHANGED <<evidence, ckpt, faults, processVars>>
    /\ CASE run[o].by = "start" -> mark_start_failed(o)
         [] run[o].by = "submit" -> UNCHANGED storeVars
         [] OTHER -> IF run[o].node = "conflict" THEN mark_start_failed(o)
                                                 ELSE UNCHANGED storeVars

\* ainvoke records the outcome after the graph has returned to it, which may
\* be while the approval is already being submitted; a failure reaches the
\* handler of start.
capture_operation_outcome(o) ==
    /\ o \in capturing
    /\ capturing' = capturing \ {o}
    /\ \/ UNCHANGED <<storeVars, faults>>
       \/ fault /\ mark_start_failed(o)
    /\ UNCHANGED <<evidence, agent, run, ckpt, lag, decided, boot, todo, crashes, setBack>>

\* submit_approval up to its await on the graph.  The approver acts on an
\* operation whose graph has stopped in the interrupt.
submit_approval(o) ==
    /\ boot = "serving"
    /\ interrupted(o)
    /\ run[o] = NoValue
    /\ \/ \E r \in Approvers, d \in Decisions, b \in Bindings :
            /\ submit_bound_once(o, r, d, b, now)
            /\ decided' = [decided EXCEPT ![o] =
                              [op |-> o, cycle |-> cycle[o], approver |-> r,
                               decision |-> d, binding |-> b, at |-> now]]
       \/ submit_bound_once_expired(o, now) /\ UNCHANGED decided
    /\ UNCHANGED <<evidence, agent, run, ckpt, lag, capturing, boot, todo, faults, crashes,
                   setBack>>

submit_approval_resume(o) ==
    /\ decided[o] # NoValue
    /\ decided' = [decided EXCEPT ![o] = NoValue]
    /\ \/ resume(o, decided[o], "submit") /\ UNCHANGED faults
       \/ fault /\ UNCHANGED <<run, ckpt, lag>>
    /\ UNCHANGED <<storeVars, evidence, agent, capturing, boot, todo, crashes, setBack>>

-----------------------------------------------------------------------------
(* Crash and recovery *)

\* Threads that would lose three or more checkpoints now.
far_behind == {o \in Operations : lag[o] > 2}

crash ==
    /\ boot # "down"
    /\ crashes < MaxCrashes
    /\ crashes' = crashes + 1
    /\ boot' = "down"
    /\ run' = [o \in Operations |-> NoValue]
    /\ decided' = [o \in Operations |-> NoValue]
    /\ capturing' = {}
    /\ todo' = {}
    /\ lag' = [o \in Operations |-> 0]
    /\ setBack' = setBack \cup far_behind
    /\ UNCHANGED <<storeVars, evidence, agent, ckpt, faults>>

\* While the process was down its checkpoints may have been lost: they are in
\* a schema of their own.
restart ==
    /\ boot = "down"
    /\ boot' = "expiring"
    /\ ckpt' \in {ckpt, [o \in Operations |-> NoValue]}
    /\ UNCHANGED <<storeVars, evidence, agent, run, lag, decided, capturing, todo, faults, crashes,
                   setBack>>

due(o) == status[o] \in AwaitingDecision /\ expires[o] # NoValue /\ expires[o] <= now

expire_due(o) ==
    /\ boot = "expiring"
    /\ due(o)
    /\ mark_expired(o, now)
    /\ UNCHANGED <<evidence, run, ckpt, lag, faults, processVars>>

list_recoverable ==
    /\ boot = "expiring"
    /\ \A o \in Operations : ~ due(o)
    /\ boot' = "recovering"
    /\ todo' = {o \in Operations : status[o] \in Active}
    /\ UNCHANGED <<storeVars, evidence, agent, run, ckpt, lag, decided, capturing, faults, crashes,
                   setBack>>

\* Mutant: the stored binding, approval and work order are not restored.
mutant_state_from_detail(o) ==
    [evidence |-> snapshot[o].evidence,
     plan     |-> snapshot[o].plan,
     binding  |-> IF status[o] = "validating" /\ snapshot[o].plan # NoValue
                  THEN build_approval_binding(snapshot[o].evidence, snapshot[o].plan)
                  ELSE NoValue,
     approval |-> NoValue,
     work     |-> NoValue]

\* The state of a graph, from the operation's row alone.
state_from_detail(o) ==
    [evidence |-> snapshot[o].evidence,
     plan     |-> snapshot[o].plan,
     binding  |-> IF status[o] = "validating" /\ snapshot[o].plan # NoValue
                  THEN build_approval_binding(snapshot[o].evidence, snapshot[o].plan)
                  ELSE snapshot[o].binding,
     approval |-> IF detail_approval(o) = {} THEN NoValue
                  ELSE CHOOSE a \in detail_approval(o) : TRUE,
     work     |-> IF work_order_of(o) = {} THEN NoValue
                  ELSE CHOOSE w \in work_order_of(o) : TRUE]

\* Mutant: an operation in execution is taken for one whose write is under way.
mutant_completed_node_for(o) ==
    CASE status[o] = "gathering_evidence" -> "mark_gathering"
      [] status[o] = "planning" -> "gather_evidence"
      [] status[o] = "validating" ->
            IF snapshot[o].plan # NoValue THEN "record_low_plan" ELSE "record_normal_plan"
      [] status[o] = "reporting" -> "mark_reporting"
      [] status[o] \in {"awaiting_approval", "resuming"} -> "prepare_approval"
      [] status[o] = "needs_reapproval" -> "mark_needs_reapproval"
      [] status[o] \in {"executing", "verifying"} -> "mark_verifying"

\* The node that must have completed for the row to be in its status.
completed_node_for(o) ==
    CASE status[o] = "gathering_evidence" -> "mark_gathering"
      [] status[o] = "planning" -> "gather_evidence"
      [] status[o] = "validating" ->
            IF snapshot[o].plan # NoValue THEN "record_low_plan" ELSE "record_normal_plan"
      [] status[o] = "reporting" -> "mark_reporting"
      [] status[o] \in {"awaiting_approval", "resuming"} -> "prepare_approval"
      [] status[o] = "needs_reapproval" -> "mark_needs_reapproval"
      [] status[o] = "executing" -> "mark_executing"
      [] status[o] = "verifying" -> "mark_verifying"

\* choose_recovery_action; the three ways to continue a saved checkpoint are
\* the same call.
recovery_action(o) ==
    IF ~ load_detail_succeeds(o) THEN "conflict"
    ELSE IF status[o] \in Terminal THEN "no_op"
    ELSE IF ckpt[o] = NoValue THEN "rebuild_from_business_facts"
    ELSE IF ~ interrupted(o) THEN "continue_checkpoint"
    ELSE IF detail_approval(o) # {} THEN "resume_decision" ELSE "keep_waiting"

\* A plan of another scenario cannot be rebuilt between its validation and
\* the request for approval.
rebuild_conflict(o) ==
    /\ status[o] = "validating"
    /\ snapshot[o].plan # NoValue
    /\ ScenarioOf[request[o].object] # "inventory"

\* Mutant: a decided operation is rebuilt up to its interrupt and left there.
mutant_rebuild_from_business_facts(o) ==
    \/ status[o] = "received" /\ enter(o, "recover") /\ UNCHANGED storeVars
    \/ /\ status[o] # "received"
       /\ ~ rebuild_conflict(o)
       /\ LET node == graph_edges(o)[completed_node_for(o)]["continue"]
          IN  /\ run' = [run EXCEPT ![o] = [by |-> "recover", node |-> node,
                                            state |-> state_from_detail(o)]]
              /\ ckpt' = [ckpt EXCEPT ![o] = checkpoint(node, state_from_detail(o))]
       /\ UNCHANGED <<storeVars, lag>>

\* Mutant: an operation that has not reached its first checkpoint is left alone.
mutant_rebuild_skips_received(o) ==
    \/ status[o] = "received" /\ UNCHANGED <<storeVars, run, ckpt, lag>>
    \/ /\ rebuild_conflict(o)
       /\ \E e \in Errors : mark_failed(o, e)
       /\ UNCHANGED <<run, ckpt, lag>>
    \/ /\ status[o] # "received"
       /\ ~ rebuild_conflict(o)
       /\ LET node == graph_edges(o)[completed_node_for(o)]["continue"]
              by == IF status[o] = "resuming" THEN "rebuild_decision" ELSE "recover"
          IN  /\ run' = [run EXCEPT ![o] = [by |-> by, node |-> node,
                                            state |-> state_from_detail(o)]]
              /\ ckpt' = [ckpt EXCEPT ![o] = checkpoint(node, state_from_detail(o))]
       /\ UNCHANGED <<storeVars, lag>>

\* aupdate_state saves the rebuilt state as the work of the completed node,
\* and ainvoke goes on after it.
rebuild_from_business_facts(o) ==
    \/ status[o] = "received" /\ enter(o, "recover") /\ UNCHANGED storeVars
    \/ /\ rebuild_conflict(o)
       /\ \E e \in Errors : mark_failed(o, e)
       /\ UNCHANGED <<run, ckpt, lag>>
    \/ /\ status[o] # "received"
       /\ ~ rebuild_conflict(o)
       /\ LET node == graph_edges(o)[completed_node_for(o)]["continue"]
              by == IF status[o] = "resuming" THEN "rebuild_decision" ELSE "recover"
          IN  /\ run' = [run EXCEPT ![o] = [by |-> by, node |-> node,
                                            state |-> state_from_detail(o)]]
              /\ ckpt' = [ckpt EXCEPT ![o] = checkpoint(node, state_from_detail(o))]
       /\ UNCHANGED <<storeVars, lag>>

\* The calls that recover makes for its action.
take_recovery_action(o) ==
    \/ /\ recovery_action(o) = "conflict"
       /\ \E e \in Errors : mark_failed(o, e)
       /\ UNCHANGED <<run, ckpt, lag>>
    \/ /\ recovery_action(o) \in {"no_op", "keep_waiting"}
       /\ UNCHANGED <<storeVars, run, ckpt, lag>>
    \/ /\ recovery_action(o) = "rebuild_from_business_facts"
       /\ rebuild_from_business_facts(o)
    \/ /\ recovery_action(o) = "resume_decision"
       /\ \E a \in detail_approval(o) : resume(o, a, "recover")
       /\ UNCHANGED storeVars
    \/ /\ recovery_action(o) = "continue_checkpoint"
       /\ run' = [run EXCEPT ![o] = [by |-> "recover", node |-> ckpt[o].node,
                                     state |-> ckpt[o].state]]
       /\ UNCHANGED <<storeVars, ckpt, lag>>

\* A call that fails defers the operation to the next startup.
recover(o) ==
    /\ boot = "recovering"
    /\ o \in todo
    /\ \A q \in Operations : run[q] = NoValue
    /\ todo' = todo \ {o}
    /\ \/ take_recovery_action(o) /\ UNCHANGED faults
       \/ fault /\ UNCHANGED <<storeVars, run, ckpt, lag>>
    /\ UNCHANGED <<evidence, agent, decided, capturing, boot, crashes, setBack>>

\* The second half of a rebuild in status resuming.
resume_persisted_decision(o) ==
    /\ at(o, "resume_decision")
    /\ \/ (\E a \in detail_approval(o) : resume(o, a, "recover")) /\ UNCHANGED faults
       \/ fault /\ run' = [run EXCEPT ![o].node = "raised"] /\ UNCHANGED <<ckpt, lag>>
    /\ UNCHANGED <<storeVars, evidence, processVars>>

serve ==
    /\ boot = "recovering"
    /\ todo = {}
    /\ \A o \in Operations : run[o] = NoValue
    /\ boot' = "serving"
    /\ UNCHANGED <<storeVars, evidence, agent, run, ckpt, lag, decided, capturing, todo, faults,
                   crashes, setBack>>

-----------------------------------------------------------------------------
(* Specification *)

ScenarioInit ==
    /\ Init
    /\ evidence = [o \in Operations |-> {}]
    /\ agent \in BOOLEAN
    /\ run = [o \in Operations |-> NoValue]
    /\ ckpt = [o \in Operations |-> NoValue]
    /\ lag = [o \in Operations |-> 0]
    /\ decided = [o \in Operations |-> NoValue]
    /\ capturing = {}
    /\ boot = "serving"
    /\ todo = {}
    /\ faults = 0
    /\ crashes = 0
    /\ setBack = {}

GraphStep(o) ==
    \/ agent_investigation(o) \/ parse_request(o) \/ mark_gathering(o)
    \/ gather_evidence(o) \/ gather_record_evidence(o) \/ calculate_assessment(o)
    \/ record_normal_plan(o) \/ graph_record_query_assessment(o) \/ graph_mark_reporting(o)
    \/ graph_complete_without_replenishment(o) \/ explain_plan(o) \/ build_and_validate_plan(o)
    \/ record_low_plan(o) \/ prepare_approval(o) \/ request_approval(o)
    \/ graph_mark_rejected(o) \/ revalidate_evidence(o) \/ graph_mark_needs_reapproval(o)
    \/ graph_mark_verifier_aborted(o) \/ graph_mark_executing(o) \/ execute_work_order(o)
    \/ graph_mark_verifying(o) \/ verify_work_order(o) \/ graph_mark_completed(o)
    \/ graph_mark_failed(o) \/ graph_end(o) \/ handle_exception(o)
    \/ resume_persisted_decision(o)

Startup ==
    \/ restart
    \/ \E o \in Operations : expire_due(o)
    \/ list_recoverable
    \/ \E o \in Operations : recover(o)
    \/ serve

\* The clock stands still while expire_due works through its list.
Clock ==
    /\ boot # "expiring"
    /\ Tick
    /\ UNCHANGED <<evidence, run, ckpt, lag, faults, processVars>>

ScenarioNext ==
    \/ \E o \in Operations :
        \/ \E req \in Requests : start(o, req)
        \/ GraphStep(o)
        \/ capture_operation_outcome(o)
        \/ submit_approval(o)
        \/ submit_approval_resume(o)
    \/ crash
    \/ Startup
    \/ Clock

\* What the program does unasked: the event loop runs a started coroutine to its
\* end and a crashed process is started again.
Progress ==
    \/ \E o \in Operations : GraphStep(o) \/ submit_approval_resume(o)
    \/ Startup

ScenarioSpec == ScenarioInit /\ [][ScenarioNext]_scenarioVars /\ WF_scenarioVars(Progress)

-----------------------------------------------------------------------------
(* Properties *)

\* Every variable of the process has its type; a coroutine is at a node of
\* its own graph, which a rebuild must find by name.
ScenarioTypeOK ==
    /\ evidence \in [Operations -> SUBSET Bundles]
    /\ agent \in BOOLEAN
    /\ run \in [Operations -> Runs \cup {NoValue}]
    /\ ckpt \in [Operations -> Checkpoints \cup {NoValue}]
    /\ lag \in [Operations -> 0 .. MaxLag]
    /\ \A o \in Operations :
        run[o] # NoValue => run[o].node \in DOMAIN graph_edges(o) \cup Positions
    /\ decided \in [Operations -> ApprovalRows \cup {NoValue}]
    /\ capturing \subseteq Operations
    /\ boot \in {"serving", "down", "expiring", "recovering"}
    /\ todo \subseteq Operations
    /\ faults \in 0 .. MaxFaults
    /\ crashes \in 0 .. MaxCrashes
    /\ setBack \subseteq Operations

\* The evidence an operation is built on, and the evidence of every decision,
\* is in the evidence table, although it is saved and recorded in different
\* transactions and a crash may fall between them.
RecordedEvidenceIsSaved ==
    \A o \in Operations :
        /\ snapshot[o].evidence # NoValue => snapshot[o].evidence \in evidence[o]
        /\ \A a \in approvals : a.op = o => a.binding.evidence \in evidence[o]

\* A graph that waits in an interrupt waits with the facts of the row: the
\* decision the approver makes on the row's binding is the decision the graph
\* goes on with, also when the graph was rebuilt, in any cycle.  Only a thread
\* that has lost three checkpoints at once may wait with other facts, and then
\* with some that were approved before.
InterruptHoldsRowFacts ==
    \A o \in Operations :
        interrupted(o) /\ status[o] \in AwaitingDecision \cup {"resuming"} /\ run[o] = NoValue =>
            \/ /\ ckpt[o].state.binding = snapshot[o].binding
               /\ ckpt[o].state.plan = snapshot[o].plan
            \/ /\ o \in setBack
               /\ approval_of(o, ckpt[o].state.binding)

\* The row with which a node, named by its role, and the next transition after
\* it go through, for the first time or again.
Standing ==
    [parse_request                  |-> {"received", "gathering_evidence"},
     mark_gathering                 |-> {"received", "gathering_evidence"},
     gather_evidence                |-> {"gathering_evidence", "planning"},
     calculate_assessment           |-> {"planning", "validating"},
     record_normal_plan             |-> {"planning", "validating"},
     record_query_assessment        |-> {"planning", "validating"},
     explain_plan                   |-> {"planning", "validating"},
     build_and_validate_plan        |-> {"planning", "validating"},
     record_low_plan                |-> {"planning", "validating"},
     mark_reporting                 |-> {"validating", "reporting"},
     complete_without_replenishment |-> {"reporting"},
     prepare_approval               |-> {"validating"},
     request_approval               |-> {"resuming"},
     request_reapproval             |-> {"resuming"},
     mark_rejected                  |-> {"resuming"},
     revalidate_evidence            |-> {"resuming"},
     mark_needs_reapproval          |-> {"resuming"},
     mark_verifier_aborted          |-> {"resuming"},
     mark_executing                 |-> {"resuming", "executing"},
     execute_work_order             |-> {"executing", "verifying"},
     mark_verifying                 |-> {"executing", "verifying"},
     verify_work_order              |-> {"verifying"},
     mark_completed                 |-> {"verifying"},
     mark_failed                    |-> Active]

\* The graph is at work on an operation whose row its newest saved checkpoint
\* does not fit.
stranded(o) ==
    /\ status[o] \in Active \ AwaitingDecision
    /\ ckpt[o] # NoValue
    /\ ckpt[o].node \in Nodes
    /\ status[o] \notin Standing[graph_roles(o)[ckpt[o].node]]

\* Without a failing dependency every started operation comes to rest, in a
\* terminal status or waiting for a decision, or its thread is stranded for
\* good: recover_all defers the refused transition at every restart.
ScenarioComesToRest ==
    [](faults = 0) =>
        \A o \in Operations :
            \/ status[o] \in Active \ AwaitingDecision
                  ~> status[o] \in Terminal \cup AwaitingDecision
            \/ <>[]stranded(o)

\* Only a thread that runs with two checkpoints unsaved becomes stranded, for a
\* crash that takes both.  A crash that takes one, the loss of all of them, a
\* rebuild and a replay leave the graph where the row lets it go on.
StrandedOnlyFarBehind ==
    [][\A o \in Operations :
          faults' = 0 /\ ~ stranded(o) /\ stranded(o)' => lag'[o] > 1]_scenarioVars

\* Restarting after the decision was recorded continues with that decision,
\* as the recovery rules of the replenishment design state: once the process
\* serves again after one crash, no decided operation is left in status
\* resuming.
RestartUsesDecision ==
    \A o \in Operations :
        boot = "serving" /\ faults = 0 /\ crashes <= 1 /\ status[o] = "resuming" =>
            run[o] # NoValue \/ decided[o] # NoValue

\* The scenario graphs keep the same promise, with recovery that rebuilds a
\* graph from the operation's row: a write waits for an approval in force and
\* is of its plan or, where a thread has been set back, of one approved before.
ScenarioKeepsApprovedWrite ==
    Promise!Init /\ [][Promise!Next \/ WritesEarlierPlan(setBack)]_(Promise!promiseVars)
=============================================================================
