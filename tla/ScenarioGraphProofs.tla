------------------------ MODULE ScenarioGraphProofs ------------------------
(***************************************************************************)
(* Theorems about ScenarioGraph, for every set of operations, signals,     *)
(* bundles, plans and approvers, any number of crashes and failing calls,  *)
(* and any lag of the checkpointer; the one about restarts is of the first *)
(* crash, with no dependency failing, as the property itself says.         *)
(*                                                                         *)
(* The three graphs are one graph under three sets of names.  The lemmas   *)
(* about the tables say so once, in roles; everything after them speaks of *)
(* the role of a node.                                                     *)
(***************************************************************************)
EXTENDS ScenarioGraph, OperationStoreProofs

-----------------------------------------------------------------------------
(* The graphs *)

\* The role of a node, or the position itself.
Role(o, n) == IF n \in Positions THEN n ELSE graph_roles(o)[n]

\* The nodes of the graph of o.
NodesOf(o) == DOMAIN graph_edges(o)

\* The edge from node n under a route leads to a node of the role.
Leads(o, n, route, role) ==
    /\ graph_edges(o)[n][route] \in NodesOf(o) \cup {"END"}
    /\ Role(o, graph_edges(o)[n][route]) = role

\* Every edge of a node, in the words of the replenishment graph.
Edges(o, n) ==
    /\ Role(o, n) = "parse_request" =>
        Leads(o, n, "continue", "mark_gathering") /\ Leads(o, n, "failure", "mark_failed")
    /\ Role(o, n) = "mark_gathering" => Leads(o, n, "continue", "gather_evidence")
    /\ Role(o, n) = "gather_evidence" =>
        Leads(o, n, "continue", "calculate_assessment") /\ Leads(o, n, "failure", "mark_failed")
    /\ Role(o, n) = "calculate_assessment" =>
        /\ Leads(o, n, "query", "record_query_assessment")
        /\ Leads(o, n, "normal", "record_normal_plan")
        /\ Leads(o, n, required_route(o), "explain_plan")
        /\ Leads(o, n, "failure", "mark_failed")
    /\ Role(o, n) \in {"record_normal_plan", "record_query_assessment"} =>
        Leads(o, n, "continue", "mark_reporting")
    /\ Role(o, n) = "mark_reporting" => Leads(o, n, "continue", "complete_without_replenishment")
    /\ Role(o, n) = "explain_plan" => Leads(o, n, "continue", "build_and_validate_plan")
    /\ Role(o, n) = "build_and_validate_plan" =>
        Leads(o, n, "continue", "record_low_plan") /\ Leads(o, n, "failure", "mark_failed")
    /\ Role(o, n) = "record_low_plan" => Leads(o, n, "continue", "prepare_approval")
    /\ Role(o, n) = "prepare_approval" => Leads(o, n, "continue", "request_approval")
    /\ Role(o, n) \in {"request_approval", "request_reapproval"} =>
        /\ Leads(o, n, "approved", "revalidate_evidence")
        /\ Leads(o, n, "rejected", "mark_rejected")
        /\ Leads(o, n, "failure", "mark_failed")
    /\ Role(o, n) = "revalidate_evidence" =>
        /\ Leads(o, n, "proceed", "mark_executing")
        /\ Leads(o, n, "abort", "mark_verifier_aborted")
        /\ Leads(o, n, "reapproval", "mark_needs_reapproval")
        /\ Leads(o, n, "failure", "mark_failed")
    /\ Role(o, n) = "mark_needs_reapproval" => Leads(o, n, "continue", "request_reapproval")
    /\ Role(o, n) = "mark_executing" => Leads(o, n, "continue", "execute_work_order")
    /\ Role(o, n) = "execute_work_order" =>
        Leads(o, n, "continue", "mark_verifying") /\ Leads(o, n, "failure", "mark_failed")
    /\ Role(o, n) = "mark_verifying" => Leads(o, n, "continue", "verify_work_order")
    /\ Role(o, n) = "verify_work_order" =>
        Leads(o, n, "continue", "mark_completed") /\ Leads(o, n, "failure", "mark_failed")
    /\ Role(o, n) \in {"complete_without_replenishment", "mark_rejected", "mark_verifier_aborted",
                       "mark_completed", "mark_failed"} => Leads(o, n, "continue", "END")

\* The roles, and the nodes that have the same name in the three graphs and
\* that a recovery looks up by name.
Roles == DOMAIN replenishment_edges
NamedNodes == {"parse_request", "mark_gathering", "gather_evidence", "record_normal_plan",
               "mark_reporting", "prepare_approval", "mark_needs_reapproval", "mark_executing",
               "mark_verifying"}

\* The graph of o is the replenishment graph under its own names.
TableOK(o) ==
    /\ NodesOf(o) \subseteq Nodes
    /\ NodesOf(o) \cap Positions = {}
    /\ \A n \in NodesOf(o) : Role(o, n) \in Roles /\ Edges(o, n)
    /\ \A n \in NamedNodes : n \in NodesOf(o) /\ Role(o, n) = n

\* The roles, one by one.
LEMMA RoleNames ==
    Roles = {"parse_request", "mark_gathering", "gather_evidence", "calculate_assessment",
             "record_normal_plan", "record_query_assessment", "mark_reporting",
             "complete_without_replenishment", "explain_plan", "build_and_validate_plan",
             "record_low_plan", "prepare_approval", "request_approval", "mark_rejected",
             "revalidate_evidence", "mark_verifier_aborted", "mark_needs_reapproval",
             "request_reapproval", "mark_executing", "execute_work_order", "mark_verifying",
             "verify_work_order", "mark_completed", "mark_failed"}
BY DEF Roles, replenishment_edges

\* The replenishment graph, read off its tables.
LEMMA ReplenishmentTable ==
    ASSUME NEW o, ScenarioOf[request[o].object] = "inventory"
    PROVE  TableOK(o)
<1>1. graph_edges(o) = replenishment_edges /\ required_route(o) = "low"
  BY DEF graph_edges, required_route
<1>2. NodesOf(o) = {"parse_request", "mark_gathering", "gather_evidence",
                    "calculate_assessment", "record_normal_plan", "record_query_assessment",
                    "mark_reporting", "complete_without_replenishment", "explain_plan",
                    "build_and_validate_plan", "record_low_plan", "prepare_approval",
                    "request_approval", "mark_rejected", "revalidate_evidence",
                    "mark_verifier_aborted", "mark_needs_reapproval", "request_reapproval",
                    "mark_executing", "execute_work_order", "mark_verifying",
                    "verify_work_order", "mark_completed", "mark_failed"}
  BY <1>1 DEF NodesOf, replenishment_edges
<1>3. /\ graph_edges(o)["parse_request"]["continue"] = "mark_gathering"
      /\ graph_edges(o)["parse_request"]["failure"] = "mark_failed"
      /\ graph_edges(o)["mark_gathering"]["continue"] = "gather_evidence"
      /\ graph_edges(o)["gather_evidence"]["continue"] = "calculate_assessment"
      /\ graph_edges(o)["gather_evidence"]["failure"] = "mark_failed"
      /\ graph_edges(o)["calculate_assessment"]["query"] = "record_query_assessment"
      /\ graph_edges(o)["calculate_assessment"]["normal"] = "record_normal_plan"
      /\ graph_edges(o)["calculate_assessment"]["low"] = "explain_plan"
      /\ graph_edges(o)["calculate_assessment"]["failure"] = "mark_failed"
      /\ graph_edges(o)["record_normal_plan"]["continue"] = "mark_reporting"
      /\ graph_edges(o)["record_query_assessment"]["continue"] = "mark_reporting"
      /\ graph_edges(o)["mark_reporting"]["continue"] = "complete_without_replenishment"
      /\ graph_edges(o)["complete_without_replenishment"]["continue"] = "END"
      /\ graph_edges(o)["explain_plan"]["continue"] = "build_and_validate_plan"
  BY <1>1 DEF replenishment_edges
<1>4. /\ graph_edges(o)["build_and_validate_plan"]["continue"] = "record_low_plan"
      /\ graph_edges(o)["build_and_validate_plan"]["failure"] = "mark_failed"
      /\ graph_edges(o)["record_low_plan"]["continue"] = "prepare_approval"
      /\ graph_edges(o)["prepare_approval"]["continue"] = "request_approval"
      /\ graph_edges(o)["request_approval"]["approved"] = "revalidate_evidence"
      /\ graph_edges(o)["request_approval"]["rejected"] = "mark_rejected"
      /\ graph_edges(o)["request_approval"]["failure"] = "mark_failed"
      /\ graph_edges(o)["mark_rejected"]["continue"] = "END"
      /\ graph_edges(o)["revalidate_evidence"]["proceed"] = "mark_executing"
      /\ graph_edges(o)["revalidate_evidence"]["abort"] = "mark_verifier_aborted"
      /\ graph_edges(o)["revalidate_evidence"]["reapproval"] = "mark_needs_reapproval"
      /\ graph_edges(o)["revalidate_evidence"]["failure"] = "mark_failed"
      /\ graph_edges(o)["mark_verifier_aborted"]["continue"] = "END"
  BY <1>1 DEF replenishment_edges
<1>5. /\ graph_edges(o)["mark_needs_reapproval"]["continue"] = "request_reapproval"
      /\ graph_edges(o)["request_reapproval"]["approved"] = "revalidate_evidence"
      /\ graph_edges(o)["request_reapproval"]["rejected"] = "mark_rejected"
      /\ graph_edges(o)["request_reapproval"]["failure"] = "mark_failed"
      /\ graph_edges(o)["mark_executing"]["continue"] = "execute_work_order"
      /\ graph_edges(o)["execute_work_order"]["continue"] = "mark_verifying"
      /\ graph_edges(o)["execute_work_order"]["failure"] = "mark_failed"
      /\ graph_edges(o)["mark_verifying"]["continue"] = "verify_work_order"
      /\ graph_edges(o)["verify_work_order"]["continue"] = "mark_completed"
      /\ graph_edges(o)["verify_work_order"]["failure"] = "mark_failed"
      /\ graph_edges(o)["mark_completed"]["continue"] = "END"
      /\ graph_edges(o)["mark_failed"]["continue"] = "END"
  BY <1>1 DEF replenishment_edges
<1>6. \A m \in NodesOf(o) : Role(o, m) = m
  BY <1>2 DEF Role, Positions, graph_roles, NodesOf, graph_edges
<1>7. Role(o, "END") = "END"
  BY DEF Role, Positions
<1>8. \A n \in NodesOf(o) : Edges(o, n)
  BY <1>1, <1>2, <1>3, <1>4, <1>5, <1>6, <1>7 DEF Edges, Leads
<1>9. \A n \in NodesOf(o) : Role(o, n) \in Roles
  BY <1>2, <1>6, RoleNames
<1>10. \A n \in NamedNodes : n \in NodesOf(o) /\ Role(o, n) = n
  BY <1>2, <1>6 DEF NamedNodes
<1>11. NodesOf(o) \cap Positions = {}
  BY <1>2 DEF Positions
<1>12. NodesOf(o) \subseteq Nodes
  BY <1>1 DEF NodesOf, Nodes
<1> QED
  BY <1>8, <1>9, <1>10, <1>11, <1>12 DEF TableOK

\* The maintenance graph, read off its tables.
LEMMA MaintenanceTable ==
    ASSUME NEW o, ScenarioOf[request[o].object] = "equipment"
    PROVE  TableOK(o)
<1>1. graph_edges(o) = maintenance_edges /\ required_route(o) = "repair"
  BY DEF graph_edges, required_route
<1>2. NodesOf(o) = {"parse_request", "mark_gathering", "gather_evidence",
                    "calculate_assessment", "record_normal_plan", "record_query_assessment",
                    "mark_reporting", "complete_without_maintenance", "explain_plan",
                    "build_and_validate_plan", "record_repair_plan", "prepare_approval",
                    "request_approval", "mark_rejected", "revalidate_evidence",
                    "mark_verifier_aborted", "mark_needs_reapproval", "request_reapproval",
                    "mark_executing", "execute_work_order", "mark_verifying",
                    "verify_work_order", "mark_completed", "mark_failed"}
  BY <1>1 DEF NodesOf, maintenance_edges
<1>3. /\ graph_edges(o)["parse_request"]["continue"] = "mark_gathering"
      /\ graph_edges(o)["parse_request"]["failure"] = "mark_failed"
      /\ graph_edges(o)["mark_gathering"]["continue"] = "gather_evidence"
      /\ graph_edges(o)["gather_evidence"]["continue"] = "calculate_assessment"
      /\ graph_edges(o)["gather_evidence"]["failure"] = "mark_failed"
      /\ graph_edges(o)["calculate_assessment"]["query"] = "record_query_assessment"
      /\ graph_edges(o)["calculate_assessment"]["normal"] = "record_normal_plan"
      /\ graph_edges(o)["calculate_assessment"]["repair"] = "explain_plan"
      /\ graph_edges(o)["calculate_assessment"]["failure"] = "mark_failed"
      /\ graph_edges(o)["record_normal_plan"]["continue"] = "mark_reporting"
      /\ graph_edges(o)["record_query_assessment"]["continue"] = "mark_reporting"
      /\ graph_edges(o)["mark_reporting"]["continue"] = "complete_without_maintenance"
      /\ graph_edges(o)["complete_without_maintenance"]["continue"] = "END"
      /\ graph_edges(o)["explain_plan"]["continue"] = "build_and_validate_plan"
  BY <1>1 DEF maintenance_edges
<1>4. /\ graph_edges(o)["build_and_validate_plan"]["continue"] = "record_repair_plan"
      /\ graph_edges(o)["build_and_validate_plan"]["failure"] = "mark_failed"
      /\ graph_edges(o)["record_repair_plan"]["continue"] = "prepare_approval"
      /\ graph_edges(o)["prepare_approval"]["continue"] = "request_approval"
      /\ graph_edges(o)["request_approval"]["approved"] = "revalidate_evidence"
      /\ graph_edges(o)["request_approval"]["rejected"] = "mark_rejected"
      /\ graph_edges(o)["request_approval"]["failure"] = "mark_failed"
      /\ graph_edges(o)["mark_rejected"]["continue"] = "END"
      /\ graph_edges(o)["revalidate_evidence"]["proceed"] = "mark_executing"
      /\ graph_edges(o)["revalidate_evidence"]["abort"] = "mark_verifier_aborted"
      /\ graph_edges(o)["revalidate_evidence"]["reapproval"] = "mark_needs_reapproval"
      /\ graph_edges(o)["revalidate_evidence"]["failure"] = "mark_failed"
      /\ graph_edges(o)["mark_verifier_aborted"]["continue"] = "END"
  BY <1>1 DEF maintenance_edges
<1>5. /\ graph_edges(o)["mark_needs_reapproval"]["continue"] = "request_reapproval"
      /\ graph_edges(o)["request_reapproval"]["approved"] = "revalidate_evidence"
      /\ graph_edges(o)["request_reapproval"]["rejected"] = "mark_rejected"
      /\ graph_edges(o)["request_reapproval"]["failure"] = "mark_failed"
      /\ graph_edges(o)["mark_executing"]["continue"] = "execute_work_order"
      /\ graph_edges(o)["execute_work_order"]["continue"] = "mark_verifying"
      /\ graph_edges(o)["execute_work_order"]["failure"] = "mark_failed"
      /\ graph_edges(o)["mark_verifying"]["continue"] = "verify_work_order"
      /\ graph_edges(o)["verify_work_order"]["continue"] = "mark_completed"
      /\ graph_edges(o)["verify_work_order"]["failure"] = "mark_failed"
      /\ graph_edges(o)["mark_completed"]["continue"] = "END"
      /\ graph_edges(o)["mark_failed"]["continue"] = "END"
  BY <1>1 DEF maintenance_edges
<1>6. /\ Role(o, "complete_without_maintenance") = "complete_without_replenishment"
      /\ Role(o, "record_repair_plan") = "record_low_plan"
      /\ \A m \in {"parse_request", "mark_gathering", "gather_evidence", "calculate_assessment",
                  "record_normal_plan", "record_query_assessment", "mark_reporting",
                  "explain_plan", "build_and_validate_plan", "prepare_approval",
                  "request_approval", "mark_rejected", "revalidate_evidence",
                  "mark_verifier_aborted", "mark_needs_reapproval", "request_reapproval",
                  "mark_executing", "execute_work_order", "mark_verifying",
                  "verify_work_order", "mark_completed", "mark_failed"} :
            Role(o, m) = m
  BY <1>1, <1>2 DEF Role, Positions, graph_roles, maintenance_edges, maintenance_planning, maintenance_writing,
       planning_nodes, writing_nodes
<1>7. Role(o, "END") = "END"
  BY DEF Role, Positions
<1>8. \A n \in NodesOf(o) : Edges(o, n)
  BY <1>1, <1>2, <1>3, <1>4, <1>5, <1>6, <1>7 DEF Edges, Leads
<1>9. \A n \in NodesOf(o) : Role(o, n) \in Roles
  BY <1>2, <1>6, RoleNames
<1>10. \A n \in NamedNodes : n \in NodesOf(o) /\ Role(o, n) = n
  BY <1>2, <1>6 DEF NamedNodes
<1>11. NodesOf(o) \cap Positions = {}
  BY <1>2 DEF Positions
<1>12. NodesOf(o) \subseteq Nodes
  BY <1>1 DEF NodesOf, Nodes
<1> QED
  BY <1>8, <1>9, <1>10, <1>11, <1>12 DEF TableOK

\* The task recovery graph, read off its tables.
LEMMA RecoveryTable ==
    ASSUME NEW o, ScenarioOf[request[o].object] = "task"
    PROVE  TableOK(o)
<1>1. graph_edges(o) = task_recovery_edges /\ required_route(o) = "recover"
  BY DEF graph_edges, required_route
<1>2. NodesOf(o) = {"parse_request", "mark_gathering", "gather_evidence",
                    "calculate_assessment", "record_normal_plan", "record_query_assessment",
                    "mark_reporting", "complete_without_recovery", "explain_plan",
                    "build_plan", "record_recovery_plan", "prepare_approval",
                    "request_approval", "mark_rejected", "revalidate", "mark_verifier_aborted",
                    "mark_needs_reapproval", "request_reapproval", "mark_executing", "execute",
                    "mark_verifying", "verify", "complete", "fail"}
  BY <1>1 DEF NodesOf, task_recovery_edges
<1>3. /\ graph_edges(o)["parse_request"]["continue"] = "mark_gathering"
      /\ graph_edges(o)["parse_request"]["failure"] = "fail"
      /\ graph_edges(o)["mark_gathering"]["continue"] = "gather_evidence"
      /\ graph_edges(o)["gather_evidence"]["continue"] = "calculate_assessment"
      /\ graph_edges(o)["gather_evidence"]["failure"] = "fail"
      /\ graph_edges(o)["calculate_assessment"]["query"] = "record_query_assessment"
      /\ graph_edges(o)["calculate_assessment"]["normal"] = "record_normal_plan"
      /\ graph_edges(o)["calculate_assessment"]["recover"] = "explain_plan"
      /\ graph_edges(o)["calculate_assessment"]["failure"] = "fail"
      /\ graph_edges(o)["record_normal_plan"]["continue"] = "mark_reporting"
      /\ graph_edges(o)["record_query_assessment"]["continue"] = "mark_reporting"
      /\ graph_edges(o)["mark_reporting"]["continue"] = "complete_without_recovery"
      /\ graph_edges(o)["complete_without_recovery"]["continue"] = "END"
      /\ graph_edges(o)["explain_plan"]["continue"] = "build_plan"
  BY <1>1 DEF task_recovery_edges
<1>4. /\ graph_edges(o)["build_plan"]["continue"] = "record_recovery_plan"
      /\ graph_edges(o)["build_plan"]["failure"] = "fail"
      /\ graph_edges(o)["record_recovery_plan"]["continue"] = "prepare_approval"
      /\ graph_edges(o)["prepare_approval"]["continue"] = "request_approval"
      /\ graph_edges(o)["request_approval"]["approved"] = "revalidate"
      /\ graph_edges(o)["request_approval"]["rejected"] = "mark_rejected"
      /\ graph_edges(o)["request_approval"]["failure"] = "fail"
      /\ graph_edges(o)["mark_rejected"]["continue"] = "END"
      /\ graph_edges(o)["revalidate"]["proceed"] = "mark_executing"
      /\ graph_edges(o)["revalidate"]["abort"] = "mark_verifier_aborted"
      /\ graph_edges(o)["revalidate"]["reapproval"] = "mark_needs_reapproval"
      /\ graph_edges(o)["revalidate"]["failure"] = "fail"
      /\ graph_edges(o)["mark_verifier_aborted"]["continue"] = "END"
  BY <1>1 DEF task_recovery_edges
<1>5. /\ graph_edges(o)["mark_needs_reapproval"]["continue"] = "request_reapproval"
      /\ graph_edges(o)["request_reapproval"]["approved"] = "revalidate"
      /\ graph_edges(o)["request_reapproval"]["rejected"] = "mark_rejected"
      /\ graph_edges(o)["request_reapproval"]["failure"] = "fail"
      /\ graph_edges(o)["mark_executing"]["continue"] = "execute"
      /\ graph_edges(o)["execute"]["continue"] = "mark_verifying"
      /\ graph_edges(o)["execute"]["failure"] = "fail"
      /\ graph_edges(o)["mark_verifying"]["continue"] = "verify"
      /\ graph_edges(o)["verify"]["continue"] = "complete"
      /\ graph_edges(o)["verify"]["failure"] = "fail"
      /\ graph_edges(o)["complete"]["continue"] = "END"
      /\ graph_edges(o)["fail"]["continue"] = "END"
  BY <1>1 DEF task_recovery_edges
<1>6. /\ Role(o, "complete_without_recovery") = "complete_without_replenishment"
      /\ Role(o, "build_plan") = "build_and_validate_plan"
      /\ Role(o, "record_recovery_plan") = "record_low_plan"
      /\ Role(o, "revalidate") = "revalidate_evidence"
      /\ Role(o, "execute") = "execute_work_order"
      /\ Role(o, "verify") = "verify_work_order"
      /\ Role(o, "complete") = "mark_completed"
      /\ Role(o, "fail") = "mark_failed"
      /\ \A m \in {"parse_request", "mark_gathering", "gather_evidence", "calculate_assessment",
                  "record_normal_plan", "record_query_assessment", "mark_reporting",
                  "explain_plan", "prepare_approval", "request_approval", "mark_rejected",
                  "mark_verifier_aborted", "mark_needs_reapproval", "request_reapproval",
                  "mark_executing", "mark_verifying"} :
            Role(o, m) = m
  BY <1>1, <1>2 DEF Role, Positions, graph_roles, task_recovery_edges, task_recovery_planning, task_recovery_writing,
       planning_nodes, writing_nodes
<1>7. Role(o, "END") = "END"
  BY DEF Role, Positions
<1>8. \A n \in NodesOf(o) : Edges(o, n)
  BY <1>1, <1>2, <1>3, <1>4, <1>5, <1>6, <1>7 DEF Edges, Leads
<1>9. \A n \in NodesOf(o) : Role(o, n) \in Roles
  BY <1>2, <1>6, RoleNames
<1>10. \A n \in NamedNodes : n \in NodesOf(o) /\ Role(o, n) = n
  BY <1>2, <1>6 DEF NamedNodes
<1>11. NodesOf(o) \cap Positions = {}
  BY <1>2 DEF Positions
<1>12. NodesOf(o) \subseteq Nodes
  BY <1>1 DEF NodesOf, Nodes
<1> QED
  BY <1>8, <1>9, <1>10, <1>11, <1>12 DEF TableOK

\* The tables of an operation that has a request.
LEMMA Table ==
    ASSUME NEW o, request[o] \in Requests
    PROVE  TableOK(o)
<1>1. ScenarioOf[request[o].object] \in Scenarios
  BY ScenarioAssumption DEF Requests
<1> QED
  BY <1>1, ReplenishmentTable, MaintenanceTable, RecoveryTable DEF Scenarios

-----------------------------------------------------------------------------
(* The inductive invariant for any lag *)

EvidenceRoles == {"record_evidence", "calculate_assessment", "record_normal_plan",
                  "record_query_assessment", "explain_plan", "build_and_validate_plan",
                  "record_low_plan"}
PlannedRoles == {"explain_plan", "build_and_validate_plan"}
StopRoles == {"request_approval", "request_reapproval"}
DecidedRoles == {"mark_rejected", "revalidate_evidence", "mark_verifier_aborted", "mark_executing"}
ExecutionRoles == {"execute_work_order", "mark_verifying", "verify_work_order", "mark_completed"}
BoundRoles == StopRoles \cup DecidedRoles \cup ExecutionRoles
                  \cup {"prepare_approval", "mark_needs_reapproval"}

\* The state, or the row, holds a binding of its own evidence and plan.
IsBound(st) ==
    /\ st.evidence \in Bundles
    /\ st.plan \in Plans
    /\ st.binding = build_approval_binding(st.evidence, st.plan)

\* What a place of role r promises when its operation has status s.
PlaceOK(r, st, s) ==
    /\ st \in GraphStates
    /\ s # "absent"
    /\ r = "agent_investigation" => st = initial_state
    /\ r \in EvidenceRoles => st.evidence \in Bundles
    /\ r \in PlannedRoles => PlanOf[st.evidence] \in Plans
    /\ r = "record_low_plan" => st.plan \in Plans
    /\ r \in BoundRoles => IsBound(st)
    /\ r \in ExecutionRoles => s \in AfterExecution

\* The evidence of a state or a row is among the saved bundles E.
Saved(st, E) == st.evidence \in E \cup {NoValue}

RunOK(o) ==
    run[o] # NoValue =>
        /\ run[o].node \in NodesOf(o) \cup Positions
        /\ PlaceOK(Role(o, run[o].node), run[o].state, status[o])
        /\ Saved(run[o].state, evidence[o])
        /\ run[o].node = "resume_decision" => interrupted(o)

CkptOK(o) ==
    ckpt[o] # NoValue =>
        /\ ckpt[o].node \in NodesOf(o) \cup {"END"}
        /\ PlaceOK(Role(o, ckpt[o].node), ckpt[o].state, status[o])
        /\ Saved(ckpt[o].state, evidence[o])
        /\ ckpt[o].interrupted => Role(o, ckpt[o].node) \in StopRoles

\* A decision about to be handed to the graph finds it interrupted.
DecidedOK(o) == decided[o] # NoValue => boot = "serving" /\ run[o] = NoValue /\ interrupted(o)

\* What the row of an operation holds by its status: the facts from which a
\* lost graph is rebuilt.
RowOK(o) ==
    /\ status[o] # "absent" => request[o] \in Requests
    /\ status[o] \in {"planning", "validating"} => snapshot[o].evidence \in Bundles
    /\ status[o] \in AwaitingDecision \cup {"resuming", "executing", "verifying"} =>
           snapshot[o].binding # NoValue
    /\ snapshot[o].binding # NoValue => IsBound(snapshot[o])

\* Whatever waits for a decision, or has one, has a deadline.
DeadlineOK(o) ==
    status[o] \in AwaitingDecision \cup {"resuming"} => expires[o] # NoValue

\* The facts of the row and of every decision were saved before they were
\* recorded.
FactsSaved(o) ==
    /\ Saved(snapshot[o], evidence[o])
    /\ \A a \in approvals : a.op = o => a.binding.evidence \in evidence[o]

\* Nothing runs while the process is down, or expires what is due, and a
\* recovery visits operations that exist.
ProcessOK ==
    /\ boot \in {"down", "expiring"} => \A o \in Operations : run[o] = NoValue
    /\ \A o \in todo : status[o] # "absent"

GraphInv ==
    /\ TypeOK /\ DecisionInv /\ now <= MaxTime
    /\ ScenarioTypeOK
    /\ OrdersAfterExecution /\ ProcessOK
    /\ \A o \in Operations :
        /\ RowOK(o) /\ DeadlineOK(o) /\ ResultOK(o) /\ FactsSaved(o)
        /\ RunOK(o) /\ CkptOK(o) /\ DecidedOK(o)

-----------------------------------------------------------------------------
(* How the rows move *)

\* A request is written once.
LEMMA RequestKept ==
    ASSUME TypeOK, [Next]_storeVars, NEW q \in Operations, status[q] # "absent"
    PROVE  request'[q] = request[q]
<1>1. ASSUME NEW o \in Operations, InvestigationNext(o) PROVE request'[q] = request[q]
  <2>1. CASE \E req \in Requests : create(o, req)
    BY <2>1 DEF create, create_allowed, TypeOK
  <2>2. CASE \/ mark_gathering_evidence(o)
             \/ \E b \in Bundles : record_evidence(o, b)
             \/ \E b \in Bundles, p \in Plans \cup {NoValue} : record_validated_plan(o, b, p)
             \/ \E b \in Bundles : record_query_assessment(o, b)
             \/ mark_reporting(o)
             \/ \E outcome \in NoActionOutcomes : complete_without_replenishment(o, outcome)
    BY <2>2 DEF mark_gathering_evidence, record_evidence, record_validated_plan,
                record_query_assessment, mark_reporting, complete_without_replenishment, transition
  <2> QED
    BY <1>1, <2>1, <2>2 DEF InvestigationNext
<1>2. ASSUME NEW o \in Operations, DecisionNext(o) PROVE request' = request
  <2>1. CASE \/ \E b \in Bindings, d \in 1..MaxDeadline : mark_awaiting_approval(o, b, d)
             \/ \E t \in 0..now : mark_expired(o, t)
             \/ \E t \in 0..now : submit_bound_once_expired(o, t)
             \/ \E a \in approvals : mark_rejected(o, a)
             \/ \E a \in approvals : mark_verifier_aborted(o, a)
    BY <2>1 DEF mark_awaiting_approval, mark_expired, submit_bound_once_expired, mark_rejected,
                mark_verifier_aborted, transition
  <2>2. CASE \E r \in Approvers, d \in Decisions, b \in Bindings, t \in 0..now :
                 submit_bound_once(o, r, d, b, t)
    BY <2>2 DEF submit_bound_once
  <2>3. CASE \E a \in approvals, b \in Bundles, p \in Plans, g \in Bindings, d \in 1..MaxDeadline :
                 mark_needs_reapproval(o, a, b, p, g, d)
    BY <2>3 DEF mark_needs_reapproval, transition
  <2> QED
    BY <1>2, <2>1, <2>2, <2>3 DEF DecisionNext
<1>3. ASSUME NEW o \in Operations, ExecutionNext(o) PROVE request' = request
  BY <1>3 DEF ExecutionNext, mark_executing, create_or_get, mark_verifying, mark_completed,
              mark_failed, transition
<1>4. SignalNext \/ Tick \/ UNCHANGED storeVars => request' = request
  BY DEF SignalNext, upsert_detected, create_successor, reconcile_terminal_links, Tick,
         storeVars, opVars
<1> QED
  BY <1>1, <1>2, <1>3, <1>4 DEF Next

\* A transaction leaves the rows of the other operations alone.
LEMMA RowOthers ==
    ASSUME NEW q \in Operations, RowOK(q),
           status'[q] = status[q], snapshot'[q] = snapshot[q],
           status[q] # "absent" => request'[q] = request[q]
    PROVE  RowOK(q)'
BY DEF RowOK, IsBound

\* Every transaction leaves a row from which its graph can be rebuilt.
LEMMA RowStep ==
    ASSUME TypeOK, DecisionInv, [Next]_storeVars, NEW q \in Operations, RowOK(q)
    PROVE  RowOK(q)'
<1>0. status[q] # "absent" => request'[q] = request[q]
  BY RequestKept
<1>1. CASE status'[q] = status[q] /\ snapshot'[q] = snapshot[q]
  BY <1>0, <1>1, RowOthers
<1>2. ASSUME status[q] # "absent", status'[q] \notin {"planning", "validating"},
             snapshot'[q] = snapshot[q],
             status'[q] \in AwaitingDecision \cup {"resuming", "executing", "verifying"} =>
                 snapshot[q].binding # NoValue
      PROVE  RowOK(q)'
  BY <1>0, <1>2 DEF RowOK, IsBound
<1>3. ASSUME NEW o \in Operations, InvestigationNext(o) PROVE RowOK(q)'
  <2> USE DEF TypeOK, transition
  <2>1. CASE \E req \in Requests : create(o, req)
    <3>1. PICK req \in Requests : create(o, req)
      BY <2>1
    <3>2. CASE q = o
      <4>1. status'[o] = "received" /\ request'[o] = req /\ snapshot'[o] = snapshot[o]
            /\ status[o] = "absent"
        BY <3>1 DEF create, create_allowed
      <4>2. snapshot[o].binding = NoValue
        BY <4>1 DEF DecisionInv, CycleFollowsStatus, Investigating
      <4> QED
        BY <3>2, <4>1, <4>2 DEF RowOK, AwaitingDecision
    <3> QED
      BY <1>1, <3>1, <3>2 DEF create, create_allowed
  <2>2. CASE mark_gathering_evidence(o) \/ mark_reporting(o)
    <3>1. status[o] # "absent" /\ status'[o] \in {"gathering_evidence", "reporting"}
          /\ snapshot' = snapshot
          /\ \A x \in Operations : x # o => status'[x] = status[x]
      BY <2>2 DEF mark_gathering_evidence, mark_reporting
    <3> QED
      BY <1>1, <1>2, <3>1 DEF AwaitingDecision
  <2>3. CASE \E b \in Bundles : record_evidence(o, b)
    <3>1. PICK b \in Bundles : record_evidence(o, b)
      BY <2>3
    <3>2. /\ status[o] = "gathering_evidence" /\ status'[o] = "planning"
          /\ snapshot'[o].evidence = b /\ snapshot'[o].binding = snapshot[o].binding
          /\ \A x \in Operations : x # o => status'[x] = status[x] /\ snapshot'[x] = snapshot[x]
      BY <3>1 DEF record_evidence, Snapshots
    <3>3. snapshot[o].binding = NoValue
      BY <3>2 DEF DecisionInv, CycleFollowsStatus, Investigating
    <3> QED
      BY <1>0, <1>1, <3>2, <3>3 DEF RowOK, AwaitingDecision
  <2>4. ASSUME NEW b \in Bundles, NEW p \in Plans \cup {NoValue},
               record_validated_plan(o, b, p) \/ record_query_assessment(o, b)
        PROVE  RowOK(q)'
    <3>1. /\ status[o] = "planning" /\ status'[o] = "validating"
          /\ snapshot'[o].evidence = snapshot[o].evidence
          /\ snapshot'[o].binding = snapshot[o].binding
          /\ \A x \in Operations : x # o => status'[x] = status[x] /\ snapshot'[x] = snapshot[x]
      BY <2>4 DEF record_validated_plan, record_query_assessment, Snapshots
    <3>2. snapshot[o].binding = NoValue
      BY <3>1 DEF DecisionInv, CycleFollowsStatus, Investigating
    <3> QED
      BY <1>0, <1>1, <3>1, <3>2 DEF RowOK, AwaitingDecision
  <2>5. CASE \E outcome \in NoActionOutcomes : complete_without_replenishment(o, outcome)
    <3>1. status[o] # "absent" /\ status'[o] = "completed" /\ snapshot' = snapshot
          /\ \A x \in Operations : x # o => status'[x] = status[x]
      BY <2>5 DEF complete_without_replenishment
    <3> QED
      BY <1>1, <1>2, <3>1 DEF AwaitingDecision
  <2> QED
    BY <1>3, <2>1, <2>2, <2>3, <2>4, <2>5 DEF InvestigationNext
<1>4. ASSUME NEW o \in Operations, DecisionNext(o) PROVE RowOK(q)'
  <2> USE DEF TypeOK, transition
  <2>1. CASE \E b \in Bindings, d \in 1..MaxDeadline : mark_awaiting_approval(o, b, d)
    <3>1. PICK b \in Bindings, d \in 1..MaxDeadline : mark_awaiting_approval(o, b, d)
      BY <2>1
    <3>2. /\ status[o] = "validating" /\ status'[o] = "awaiting_approval"
          /\ snapshot'[o].evidence = snapshot[o].evidence /\ snapshot'[o].plan = snapshot[o].plan
          /\ snapshot'[o].binding = b /\ binding_matches_snapshot(snapshot[o], b)
          /\ snapshot[o] \in Snapshots
          /\ \A x \in Operations : x # o => status'[x] = status[x] /\ snapshot'[x] = snapshot[x]
      BY <3>1 DEF mark_awaiting_approval, Snapshots
    <3>3. IsBound(snapshot'[o])
      BY <3>2 DEF IsBound, binding_matches_snapshot, Snapshots
    <3>4. b # NoValue
      BY NullAssumption
    <3> QED
      BY <1>0, <1>1, <3>2, <3>3, <3>4 DEF RowOK
  <2>2. CASE \/ \E t \in 0..now : mark_expired(o, t)
             \/ \E t \in 0..now : submit_bound_once_expired(o, t)
             \/ \E a \in approvals : mark_rejected(o, a)
             \/ \E a \in approvals : mark_verifier_aborted(o, a)
    <3>1. status[o] # "absent" /\ status'[o] \in {"expired", "rejected", "aborted"}
          /\ snapshot' = snapshot
          /\ \A x \in Operations : x # o => status'[x] = status[x]
      BY <2>2 DEF mark_expired, submit_bound_once_expired, decision_open, mark_rejected,
                  mark_verifier_aborted, AwaitingDecision
    <3> QED
      BY <1>1, <1>2, <3>1 DEF AwaitingDecision
  <2>3. CASE \E r \in Approvers, d \in Decisions, b \in Bindings, t \in 0..now :
                 submit_bound_once(o, r, d, b, t)
    <3>1. status[o] \in AwaitingDecision /\ status'[o] = "resuming" /\ snapshot' = snapshot
          /\ \A x \in Operations : x # o => status'[x] = status[x]
      BY <2>3 DEF submit_bound_once, decision_open
    <3> QED
      BY <1>1, <1>2, <3>1 DEF RowOK, AwaitingDecision
  <2>4. CASE \E a \in approvals, b \in Bundles, p \in Plans, g \in Bindings, d \in 1..MaxDeadline :
                 mark_needs_reapproval(o, a, b, p, g, d)
    <3>1. PICK a \in approvals, b \in Bundles, p \in Plans, g \in Bindings, d \in 1..MaxDeadline :
                 mark_needs_reapproval(o, a, b, p, g, d)
      BY <2>4
    <3>2. /\ status[o] = "resuming" /\ status'[o] = "needs_reapproval"
          /\ snapshot'[o].evidence = b /\ snapshot'[o].plan = p /\ snapshot'[o].binding = g
          /\ g = build_approval_binding(b, p)
          /\ \A x \in Operations : x # o => status'[x] = status[x] /\ snapshot'[x] = snapshot[x]
      BY <3>1 DEF mark_needs_reapproval
    <3>3. IsBound(snapshot'[o]) /\ g # NoValue
      BY <3>2, NullAssumption DEF IsBound
    <3> QED
      BY <1>0, <1>1, <3>2, <3>3 DEF RowOK
  <2> QED
    BY <1>4, <2>1, <2>2, <2>3, <2>4 DEF DecisionNext
<1>5. ASSUME NEW o \in Operations, ExecutionNext(o) PROVE RowOK(q)'
  <2> USE DEF TypeOK, transition
  <2>1. CASE \E p \in Plans : create_or_get(o, p)
    BY <1>1, <2>1 DEF create_or_get
  <2>2. CASE (\E a \in approvals : mark_executing(o, a)) \/ (\E w \in workOrders : mark_verifying(o, w))
    <3>1. status[o] \in {"resuming", "executing"} /\ status'[o] \in {"executing", "verifying"}
          /\ snapshot' = snapshot
          /\ \A x \in Operations : x # o => status'[x] = status[x]
      BY <2>2 DEF mark_executing, mark_verifying
    <3> QED
      BY <1>1, <1>2, <3>1 DEF RowOK
  <2>3. CASE (\E w \in workOrders : mark_completed(o, w)) \/ (\E e \in Errors : mark_failed(o, e))
    <3>1. status[o] # "absent" /\ status'[o] \in {"completed", "failed"} /\ snapshot' = snapshot
          /\ \A x \in Operations : x # o => status'[x] = status[x]
      BY <2>3 DEF mark_completed, mark_failed, Active
    <3> QED
      BY <1>1, <1>2, <3>1 DEF AwaitingDecision
  <2> QED
    BY <1>5, <2>1, <2>2, <2>3 DEF ExecutionNext
<1>6. CASE SignalNext \/ Tick \/ UNCHANGED storeVars
  BY <1>1, <1>6 DEF SignalNext, upsert_detected, create_successor, reconcile_terminal_links,
                    Tick, storeVars, opVars
<1> QED
  BY <1>3, <1>4, <1>5, <1>6 DEF Next

\* The deadline is written with the request for a decision, and is dropped
\* only when the operation ends.
LEMMA DeadlineStep ==
    ASSUME TypeOK, [Next]_storeVars, NEW q \in Operations, DeadlineOK(q)
    PROVE  DeadlineOK(q)'
<1> USE DEF DeadlineOK, AwaitingDecision
<1>1. ASSUME NEW o \in Operations, InvestigationNext(o) PROVE DeadlineOK(q)'
  BY <1>1 DEF TypeOK, transition, InvestigationNext, create, mark_gathering_evidence,
     record_evidence, record_validated_plan, record_query_assessment, mark_reporting,
     complete_without_replenishment
<1>2. ASSUME NEW o \in Operations, DecisionNext(o) PROVE DeadlineOK(q)'
  <2>1. CASE \E b \in Bindings, d \in 1..MaxDeadline : mark_awaiting_approval(o, b, d)
    BY <2>1, DeadlineAssumption DEF TypeOK, transition, mark_awaiting_approval
  <2>2. CASE \E a \in approvals, b \in Bundles, p \in Plans, g \in Bindings, d \in 1..MaxDeadline :
                 mark_needs_reapproval(o, a, b, p, g, d)
    BY <2>2, DeadlineAssumption DEF TypeOK, transition, mark_needs_reapproval
  <2>3. CASE \/ \E t \in 0..now : mark_expired(o, t)
             \/ \E t \in 0..now : submit_bound_once_expired(o, t)
             \/ \E a \in approvals : mark_rejected(o, a)
             \/ \E a \in approvals : mark_verifier_aborted(o, a)
    BY <2>3 DEF TypeOK, transition, mark_expired, submit_bound_once_expired, mark_rejected,
       mark_verifier_aborted
  <2>4. CASE \E r \in Approvers, d \in Decisions, b \in Bindings, t \in 0..now :
                 submit_bound_once(o, r, d, b, t)
    BY <2>4 DEF TypeOK, submit_bound_once, decision_open
  <2> QED
    BY <1>2, <2>1, <2>2, <2>3, <2>4 DEF DecisionNext
<1>3. ASSUME NEW o \in Operations, ExecutionNext(o) PROVE DeadlineOK(q)'
  BY <1>3 DEF TypeOK, transition, ExecutionNext, create_or_get, mark_executing, mark_verifying,
     mark_completed, mark_failed
<1>4. CASE SignalNext \/ Tick \/ UNCHANGED storeVars
  BY <1>4 DEF SignalNext, upsert_detected, create_successor, reconcile_terminal_links,
     Tick, storeVars, opVars
<1> QED
  BY <1>1, <1>2, <1>3, <1>4 DEF Next

-----------------------------------------------------------------------------
(* The steps of a graph *)

\* The transactions that concern operation o only, or none.
OpStep(o) == InvestigationNext(o) \/ DecisionNext(o) \/ ExecutionNext(o) \/ UNCHANGED storeVars

\* They are steps of the store, and leave the other rows alone.
LEMMA OpFrame ==
    ASSUME TypeOK, NEW o \in Operations, OpStep(o)
    PROVE  /\ [Next]_storeVars
           /\ \A q \in Operations : q # o => status'[q] = status[q] /\ snapshot'[q] = snapshot[q]
<1>1. [Next]_storeVars
  BY DEF OpStep, Next
<1> USE DEF TypeOK, transition
<1>2. CASE InvestigationNext(o)
  BY <1>1, <1>2 DEF InvestigationNext, create, mark_gathering_evidence, record_evidence,
       record_validated_plan, record_query_assessment, mark_reporting,
       complete_without_replenishment
<1>3. CASE DecisionNext(o)
  <2>1. CASE \/ \E b \in Bindings, d \in 1..MaxDeadline : mark_awaiting_approval(o, b, d)
             \/ \E t \in 0..now : mark_expired(o, t) \/ submit_bound_once_expired(o, t)
             \/ \E a \in approvals : mark_rejected(o, a) \/ mark_verifier_aborted(o, a)
    BY <1>1, <2>1 DEF mark_awaiting_approval, mark_expired, submit_bound_once_expired,
         mark_rejected, mark_verifier_aborted
  <2>2. CASE \E r \in Approvers, d \in Decisions, b \in Bindings, t \in 0..now :
                 submit_bound_once(o, r, d, b, t)
    BY <1>1, <2>2 DEF submit_bound_once
  <2>3. CASE \E a \in approvals, b \in Bundles, p \in Plans, g \in Bindings, d \in 1..MaxDeadline :
                 mark_needs_reapproval(o, a, b, p, g, d)
    BY <1>1, <2>3 DEF mark_needs_reapproval
  <2> QED
    BY <1>3, <2>1, <2>2, <2>3 DEF DecisionNext
<1>4. CASE ExecutionNext(o)
  BY <1>1, <1>4 DEF ExecutionNext, mark_executing, create_or_get, mark_verifying, mark_completed,
       mark_failed
<1>5. CASE UNCHANGED storeVars
  BY <1>1, <1>5 DEF storeVars, opVars
<1> QED
  BY <1>2, <1>3, <1>4, <1>5 DEF OpStep

\* The transactions of a node: each one takes its facts from the state.
NodeTransaction(o, st) ==
    \/ mark_gathering_evidence(o)
    \/ st.evidence \in Bundles /\ record_evidence(o, st.evidence)
    \/ /\ st.evidence \in Bundles
       /\ \E p \in {st.plan, NoValue} :
              p \in Plans \cup {NoValue} /\ record_validated_plan(o, st.evidence, p)
    \/ st.evidence \in Bundles /\ record_query_assessment(o, st.evidence)
    \/ mark_reporting(o)
    \/ \E outcome \in NoActionOutcomes : complete_without_replenishment(o, outcome)
    \/ mark_awaiting_approval(o, st.binding, now + ApprovalTtl)
    \/ mark_rejected(o, st.approval)
    \/ mark_verifier_aborted(o, st.approval)
    \/ /\ IsBound(st)
       /\ mark_needs_reapproval(o, st.approval, st.evidence, st.plan, st.binding,
                                now + ApprovalTtl)
    \/ mark_executing(o, st.approval)
    \/ mark_verifying(o, st.work)
    \/ mark_completed(o, st.work)
    \/ \E e \in Errors : mark_failed(o, e)
    \/ UNCHANGED storeVars

\* What the transactions of a node leave alone.
LEMMA NodeTransactionFrame ==
    ASSUME TypeOK, now <= MaxTime, NEW o \in Operations, NEW st, NodeTransaction(o, st)
    PROVE  /\ OpStep(o)
           /\ UNCHANGED <<approvals, workOrders>>
           /\ snapshot'[o].evidence \in {snapshot[o].evidence, st.evidence}
<1>0. now + ApprovalTtl \in 1..MaxDeadline
  BY StoreAssumption, ScenarioAssumption DEF TypeOK
<1> USE DEF TypeOK, transition
<1>1. CASE \/ mark_gathering_evidence(o)
           \/ mark_reporting(o)
           \/ \E outcome \in NoActionOutcomes : complete_without_replenishment(o, outcome)
  BY <1>1 DEF OpStep, InvestigationNext, mark_gathering_evidence, mark_reporting,
       complete_without_replenishment
<1>2. CASE \/ st.evidence \in Bundles /\ record_evidence(o, st.evidence)
           \/ st.evidence \in Bundles /\ record_query_assessment(o, st.evidence)
  <2>1. OpStep(o)
    BY <1>2 DEF OpStep, InvestigationNext
  <2>2. snapshot[o] \in Snapshots
    OBVIOUS
  <2> QED
    BY <1>2, <2>1, <2>2 DEF record_evidence, record_query_assessment, Snapshots
<1>3. CASE /\ st.evidence \in Bundles
           /\ \E p \in {st.plan, NoValue} :
                  p \in Plans \cup {NoValue} /\ record_validated_plan(o, st.evidence, p)
  <2>1. PICK p \in Plans \cup {NoValue} : record_validated_plan(o, st.evidence, p)
    BY <1>3
  <2>2. OpStep(o)
    BY <1>3, <2>1 DEF OpStep, InvestigationNext
  <2>3. snapshot[o] \in Snapshots
    OBVIOUS
  <2> QED
    BY <2>1, <2>2, <2>3 DEF record_validated_plan, Snapshots
<1>4. CASE mark_awaiting_approval(o, st.binding, now + ApprovalTtl)
  <2>1. PICK d \in 1..MaxDeadline : d = now + ApprovalTtl
    BY <1>0
  <2>2. snapshot[o] \in Snapshots
    OBVIOUS
  <2>3. mark_awaiting_approval(o, st.binding, d)
    BY <1>4, <2>1
  <2>4. st.binding \in Bindings
    BY <2>2, <2>3 DEF mark_awaiting_approval, binding_matches_snapshot, build_approval_binding,
         Bindings, Snapshots
  <2>5. OpStep(o)
    BY <2>1, <2>3, <2>4 DEF OpStep, DecisionNext
  <2> QED
    BY <2>2, <2>3, <2>5 DEF mark_awaiting_approval, Snapshots
<1>5. CASE /\ IsBound(st)
           /\ mark_needs_reapproval(o, st.approval, st.evidence, st.plan, st.binding,
                                    now + ApprovalTtl)
  <2>1. PICK d \in 1..MaxDeadline : d = now + ApprovalTtl
    BY <1>0
  <2>2. mark_needs_reapproval(o, st.approval, st.evidence, st.plan, st.binding, d)
    BY <1>5, <2>1
  <2>3. st.approval \in approvals
    BY <2>2 DEF mark_needs_reapproval, approval_locator
  <2>4. st.evidence \in Bundles /\ st.plan \in Plans /\ st.binding \in Bindings
    BY <1>5 DEF IsBound, build_approval_binding, Bindings
  <2>5. OpStep(o)
    BY <2>1, <2>2, <2>3, <2>4 DEF OpStep, DecisionNext
  <2> QED
    BY <2>2, <2>5 DEF mark_needs_reapproval
<1>6. CASE mark_rejected(o, st.approval) \/ mark_verifier_aborted(o, st.approval)
  <2>1. OpStep(o)
    BY <1>6 DEF OpStep, DecisionNext, mark_rejected, mark_verifier_aborted, approval_locator
  <2> QED
    BY <1>6, <2>1 DEF mark_rejected, mark_verifier_aborted
<1>7. CASE \/ mark_executing(o, st.approval)
           \/ mark_verifying(o, st.work)
           \/ mark_completed(o, st.work)
           \/ \E e \in Errors : mark_failed(o, e)
  <2>1. OpStep(o)
    BY <1>7 DEF OpStep, ExecutionNext, mark_executing, mark_verifying, mark_completed,
         approval_locator, work_order_locator
  <2> QED
    BY <1>7, <2>1 DEF mark_executing, mark_verifying, mark_completed, mark_failed
<1>8. CASE UNCHANGED storeVars
  BY <1>8 DEF OpStep, storeVars, opVars
<1> QED
  BY <1>1, <1>2, <1>3, <1>4, <1>5, <1>6, <1>7, <1>8 DEF NodeTransaction

\* A step moves the thread of o, and no other.
ThreadMoves(o) ==
    /\ run' \in [Operations -> Runs \cup {NoValue}]
    /\ ckpt' \in [Operations -> Checkpoints \cup {NoValue}]
    /\ lag' \in [Operations -> 0 .. MaxLag]
    /\ \A q \in Operations : q # o => run'[q] = run[q] /\ ckpt'[q] = ckpt[q] /\ lag'[q] = lag[q]

\* The checkpoint of a new place is saved, or left behind.
Saves(o, n, st) ==
    \/ ckpt'[o] = checkpoint(n, st) /\ lag'[o] = 0
    \/ ckpt'[o] = ckpt[o] /\ lag[o] < MaxLag /\ lag'[o] = lag[o] + 1

\* The coroutine of o goes to a node of a role with a state.
Stands(o, n, st) ==
    run'[o] # NoValue /\ run'[o].by = run[o].by /\ run'[o].node = n /\ run'[o].state = st

Goes(o, role, st) ==
    /\ ThreadMoves(o)
    /\ \E n \in NodesOf(o) \cup {"END"} :
        Role(o, n) = role /\ Stands(o, n, st) /\ Saves(o, n, st)

\* An exception: the checkpoint of the node it came from is saved.
Raises(o) ==
    /\ ThreadMoves(o)
    /\ \E n \in {"raised", "conflict"} : Stands(o, n, run[o].state)
    /\ run[o].node \in NodesOf(o)
    /\ ckpt'[o] = checkpoint(run[o].node, run[o].state) /\ lag'[o] = 0

\* A place of a graph belongs to the graph, and is a node or the end.
LEMMA PlaceNode ==
    ASSUME NEW o, TableOK(o), NEW n \in NodesOf(o) \cup {"END"}
    PROVE  n \in Nodes \cup {"END"} /\ (n \in Positions => n = "END") /\ Role(o, "END") = "END"
BY DEF TableOK, Role, Positions

\* A new place is of the right type: the node is set first, then the state.
LEMMA StandsType ==
    ASSUME ScenarioTypeOK, NEW o \in Operations, run[o] # NoValue,
           NEW n \in Nodes \cup Positions, NEW st \in GraphStates,
           NEW f, f = [run EXCEPT ![o].node = n], run' = [f EXCEPT ![o].state = st]
    PROVE  /\ run' \in [Operations -> Runs \cup {NoValue}]
           /\ Stands(o, n, st)
           /\ \A q \in Operations : q # o => run'[q] = run[q]
<1>1. run[o] \in Runs
  BY DEF ScenarioTypeOK
<1>2. PICK r : r = [run[o] EXCEPT !.node = n]
  OBVIOUS
<1>3. r \in Runs /\ r.by = run[o].by /\ r.node = n /\ f = [run EXCEPT ![o] = r]
  BY <1>1, <1>2 DEF Runs
<1>4. /\ f \in [Operations -> Runs \cup {NoValue}] /\ f[o] = r
      /\ \A q \in Operations : q # o => f[q] = run[q]
  BY <1>2, <1>3 DEF ScenarioTypeOK
<1>5. PICK s : s = [r EXCEPT !.state = st]
  OBVIOUS
<1>6. s \in Runs /\ s.by = r.by /\ s.node = n /\ s.state = st
  BY <1>3, <1>5 DEF Runs
<1>7. run' = [f EXCEPT ![o] = s]
  BY <1>4, <1>5
<1>8. s # NoValue
  BY <1>6, NoThreadAssumption
<1> QED
  BY <1>3, <1>4, <1>6, <1>7, <1>8 DEF Stands

\* A new place with the state of the one before.
LEMMA StandsHere ==
    ASSUME ScenarioTypeOK, NEW o \in Operations, run[o] # NoValue,
           NEW n \in Nodes \cup Positions, run' = [run EXCEPT ![o].node = n]
    PROVE  /\ run' \in [Operations -> Runs \cup {NoValue}]
           /\ Stands(o, n, run[o].state)
           /\ \A q \in Operations : q # o => run'[q] = run[q]
<1>1. run[o] \in Runs
  BY DEF ScenarioTypeOK
<1>2. PICK r : r = [run[o] EXCEPT !.node = n]
  OBVIOUS
<1>3. r \in Runs /\ r.by = run[o].by /\ r.node = n /\ r.state = run[o].state
  BY <1>1, <1>2 DEF Runs
<1>4. run' = [run EXCEPT ![o] = r]
  BY <1>2 DEF ScenarioTypeOK
<1> QED
  BY <1>3, <1>4, NoThreadAssumption DEF ScenarioTypeOK, Stands

\* A checkpoint is of the right type.
LEMMA CheckpointType ==
    ASSUME NEW n \in Nodes \cup {"END"}, NEW st \in GraphStates
    PROVE  checkpoint(n, st) \in Checkpoints
BY DEF checkpoint, Checkpoints

\* The checkpoint of a new place is of the right type.
LEMMA SavesType ==
    ASSUME ScenarioTypeOK, NEW o \in Operations, NEW n \in Nodes \cup {"END"},
           NEW st \in GraphStates, save(o, n, st)
    PROVE  /\ ckpt' \in [Operations -> Checkpoints \cup {NoValue}]
           /\ lag' \in [Operations -> 0 .. MaxLag]
           /\ Saves(o, n, st)
           /\ \A q \in Operations : q # o => ckpt'[q] = ckpt[q] /\ lag'[q] = lag[q]
<1>1. PICK c : c = checkpoint(n, st)
  OBVIOUS
<1>2. c \in Checkpoints
  BY <1>1, CheckpointType
<1>3. lag[o] \in Nat /\ MaxLag \in Nat /\ 0 \in 0 .. MaxLag
  BY ScenarioAssumption DEF ScenarioTypeOK
<1>4. CASE ckpt' = [ckpt EXCEPT ![o] = checkpoint(n, st)] /\ lag' = [lag EXCEPT ![o] = 0]
  BY <1>1, <1>2, <1>3, <1>4 DEF ScenarioTypeOK, Saves
<1>5. CASE lag[o] < MaxLag /\ lag' = [lag EXCEPT ![o] = @ + 1] /\ UNCHANGED ckpt
  <2>1. lag[o] + 1 \in 0 .. MaxLag
    BY <1>3, <1>5
  <2> QED
    BY <1>5, <2>1 DEF ScenarioTypeOK, Saves
<1> QED
  BY <1>4, <1>5 DEF save

\* The coroutine goes along an edge of a node m.
LEMMA EdgeGoes ==
    ASSUME ScenarioTypeOK, NEW o \in Operations, TableOK(o), run[o] # NoValue,
           NEW m, NEW route, NEW role, Leads(o, m, route, role),
           NEW n, n = graph_edges(o)[m][route], NEW st \in GraphStates,
           NEW f, f = [run EXCEPT ![o].node = n], run' = [f EXCEPT ![o].state = st],
           save(o, n, st)
    PROVE  Goes(o, role, st)
<1>1. n \in NodesOf(o) \cup {"END"} /\ Role(o, n) = role
  BY DEF Leads
<1>2. n \in Nodes \cup {"END"} /\ n \in Nodes \cup Positions
  BY <1>1, PlaceNode DEF Positions
<1>5. /\ run' \in [Operations -> Runs \cup {NoValue}] /\ Stands(o, n, st)
      /\ \A q \in Operations : q # o => run'[q] = run[q]
  BY <1>2, StandsType
<1>6. /\ ckpt' \in [Operations -> Checkpoints \cup {NoValue}]
      /\ lag' \in [Operations -> 0 .. MaxLag]
      /\ Saves(o, n, st)
      /\ \A q \in Operations : q # o => ckpt'[q] = ckpt[q] /\ lag'[q] = lag[q]
  BY <1>2, SavesType
<1> QED
  BY <1>1, <1>5, <1>6 DEF Goes, ThreadMoves

\* A node ends along an edge.
LEMMA LeaveGoes ==
    ASSUME ScenarioTypeOK, NEW o \in Operations, TableOK(o), run[o] # NoValue,
           NEW route, NEW role, Leads(o, run[o].node, route, role),
           NEW st \in GraphStates, leave(o, route, st)
    PROVE  Goes(o, role, st)
<1>1. PICK n : n = graph_edges(o)[run[o].node][route]
  OBVIOUS
<1>2. PICK f : f = [run EXCEPT ![o].node = n]
  OBVIOUS
<1>3. run' = [f EXCEPT ![o].state = st] /\ save(o, n, st)
  BY <1>1, <1>2 DEF leave
<1> QED
  BY <1>1, <1>2, <1>3, EdgeGoes

\* A node raises.
LEMMA RaiseRaises ==
    ASSUME ScenarioTypeOK, NEW o \in Operations, TableOK(o), run[o] # NoValue,
           run[o].node \in NodesOf(o), NEW kind \in {"raised", "conflict"}, raise(o, kind)
    PROVE  Raises(o)
<1>1. run[o] \in Runs /\ run[o].node \in Nodes
  BY DEF ScenarioTypeOK, TableOK
<1>2. PICK m, st, c : m = run[o].node /\ st = run[o].state /\ c = checkpoint(m, st)
  OBVIOUS
<1>3. kind \in Nodes \cup Positions /\ run' = [run EXCEPT ![o].node = kind]
  BY DEF Positions, raise
<1>4. c \in Checkpoints
  <2>1. m \in Nodes \cup {"END"} /\ st \in GraphStates
    BY <1>1, <1>2 DEF Runs
  <2> QED
    BY <1>2, <2>1, CheckpointType
<1>5. ckpt' = [ckpt EXCEPT ![o] = c] /\ lag' = [lag EXCEPT ![o] = 0]
  BY <1>2 DEF raise
<1>8. /\ ckpt' \in [Operations -> Checkpoints \cup {NoValue}]
      /\ lag' \in [Operations -> 0 .. MaxLag]
      /\ \A q \in Operations : q # o => ckpt'[q] = ckpt[q] /\ lag'[q] = lag[q]
  BY <1>4, <1>5, ScenarioAssumption DEF ScenarioTypeOK
<1>6. ThreadMoves(o) /\ Stands(o, kind, run[o].state)
  BY <1>3, <1>8, StandsHere DEF ThreadMoves
<1>7. ckpt'[o] = c /\ lag'[o] = 0
  BY <1>5 DEF ScenarioTypeOK
<1> QED
  BY <1>2, <1>6, <1>7 DEF Raises

\* Where a coroutine stands that is at a node of a role.
LEMMA RunningPlace ==
    ASSUME GraphInv, NEW o \in Operations, NEW role, at(o, role)
    PROVE  /\ run[o] # NoValue /\ TableOK(o) /\ ScenarioTypeOK
           /\ Role(o, run[o].node) = role
           /\ PlaceOK(role, run[o].state, status[o])
           /\ Saved(run[o].state, evidence[o])
           /\ run[o].state \in GraphStates
           /\ role \in Roles => run[o].node \in NodesOf(o) /\ Edges(o, run[o].node)
<1>1. run[o] # NoValue /\ Role(o, run[o].node) = role
  BY DEF at, Role
<1>2. RunOK(o) /\ RowOK(o) /\ ScenarioTypeOK
  BY DEF GraphInv
<1>3. PlaceOK(role, run[o].state, status[o]) /\ Saved(run[o].state, evidence[o])
      /\ run[o].node \in NodesOf(o) \cup Positions
  BY <1>1, <1>2 DEF RunOK
<1>4. status[o] # "absent" /\ run[o].state \in GraphStates
  BY <1>3 DEF PlaceOK
<1>5. TableOK(o)
  BY <1>2, <1>4, Table DEF RowOK
<1>6. ASSUME role \in Roles PROVE run[o].node \in NodesOf(o) /\ Edges(o, run[o].node)
  <2>1. role \notin Positions
    BY <1>6, RoleNames DEF Positions
  <2>2. run[o].node \notin Positions
    BY <1>1, <2>1 DEF Role
  <2> QED
    BY <1>3, <1>5, <2>2 DEF TableOK
<1> QED
  BY <1>1, <1>2, <1>3, <1>4, <1>5, <1>6

-----------------------------------------------------------------------------
(* The invariant for any lag is preserved *)

\* A graph keeps its tables.
LEMMA TableKept ==
    ASSUME NEW q, request'[q] = request[q]
    PROVE  /\ graph_edges(q)' = graph_edges(q) /\ graph_roles(q)' = graph_roles(q)
           /\ NodesOf(q)' = NodesOf(q)
<1>1. graph_edges(q)' = graph_edges(q)
  BY DEF graph_edges
<1>2. graph_roles(q)' = graph_roles(q)
  BY DEF graph_roles
<1> QED
  BY <1>1, <1>2 DEF NodesOf

\* The tables of a new operation have the node that a graph begins with.
LEMMA FirstNode ==
    ASSUME NEW o, request'[o] \in Requests
    PROVE  "parse_request" \in NodesOf(o)' /\ graph_roles(o)'["parse_request"] = "parse_request"
<1>1. ScenarioOf[request'[o].object] \in Scenarios
  BY ScenarioAssumption DEF Requests
<1>2. CASE ScenarioOf[request'[o].object] = "inventory"
  BY <1>2 DEF NodesOf, graph_edges, graph_roles, replenishment_edges
<1>3. CASE ScenarioOf[request'[o].object] = "equipment"
  BY <1>3 DEF NodesOf, graph_edges, graph_roles, maintenance_edges, maintenance_planning,
       maintenance_writing, planning_nodes, writing_nodes
<1>4. CASE ScenarioOf[request'[o].object] = "task"
  BY <1>4 DEF NodesOf, graph_edges, graph_roles, task_recovery_edges, task_recovery_planning,
       task_recovery_writing, planning_nodes, writing_nodes
<1> QED
  BY <1>1, <1>2, <1>3, <1>4 DEF Scenarios

\* What a place owes after a step, in the words of the tables before it.
PlaceNext(q, n, st) ==
    /\ PlaceOK(Role(q, n), st, status'[q])
    /\ Saved(st, evidence'[q])

RunNext(q) ==
    run'[q] # NoValue =>
        /\ run'[q].node \in NodesOf(q) \cup Positions
        /\ PlaceNext(q, run'[q].node, run'[q].state)
        /\ run'[q].node = "resume_decision" => ckpt'[q] # NoValue /\ ckpt'[q].interrupted

CkptNext(q) ==
    ckpt'[q] # NoValue =>
        /\ ckpt'[q].node \in NodesOf(q) \cup {"END"}
        /\ PlaceNext(q, ckpt'[q].node, ckpt'[q].state)
        /\ ckpt'[q].interrupted => Role(q, ckpt'[q].node) \in StopRoles

\* What a step owes to the thread of q.
ThreadOK(q) ==
    /\ RunOK(q)' /\ CkptOK(q)'
    /\ run'[q] # NoValue => run'[q].node \in DOMAIN graph_edges(q)' \cup Positions

\* The two readings agree, because a request is written once.
LEMMA ThreadNext ==
    ASSUME TypeOK, [Next]_storeVars, NEW q \in Operations, RunNext(q), CkptNext(q),
           run'[q] # NoValue \/ ckpt'[q] # NoValue => status[q] # "absent"
    PROVE  ThreadOK(q)
<1>1. CASE run'[q] = NoValue /\ ckpt'[q] = NoValue
  BY <1>1 DEF ThreadOK, RunOK, CkptOK
<1>2. CASE status[q] # "absent"
  <2>1. NodesOf(q)' = NodesOf(q) /\ graph_roles(q)' = graph_roles(q)
        /\ graph_edges(q)' = graph_edges(q)
    BY <1>2, RequestKept, TableKept
  <2>2. RunOK(q)'
    BY <2>1 DEF RunOK, RunNext, Role, PlaceNext, interrupted
  <2>3. CkptOK(q)'
    BY <2>1 DEF CkptOK, CkptNext, Role, PlaceNext
  <2> QED
    BY <2>1, <2>2, <2>3 DEF ThreadOK, RunNext, NodesOf
<1> QED
  BY <1>1, <1>2

\* A place keeps its promises while the tables move on.
LEMMA PlaceStays ==
    ASSUME NEW q, StoreMoves(q), evidence[q] \subseteq evidence'[q],
           NEW n, NEW st, PlaceOK(Role(q, n), st, status[q]), Saved(st, evidence[q])
    PROVE  PlaceNext(q, n, st)
BY DEF StoreMoves, PlaceOK, PlaceNext, Saved

LEMMA RunStays ==
    ASSUME NEW q, StoreMoves(q), evidence[q] \subseteq evidence'[q], RunOK(q),
           run'[q] = run[q],
           run[q] # NoValue /\ run[q].node = "resume_decision" => ckpt'[q] = ckpt[q]
    PROVE  RunNext(q)
BY PlaceStays DEF RunOK, RunNext, interrupted

LEMMA CkptStays ==
    ASSUME NEW q, StoreMoves(q), evidence[q] \subseteq evidence'[q], CkptOK(q),
           ckpt'[q] = ckpt[q]
    PROVE  CkptNext(q)
BY PlaceStays DEF CkptOK, CkptNext

\* A thread that a step leaves alone.
LEMMA ThreadKept ==
    ASSUME GraphInv, [Next]_storeVars, NEW q \in Operations,
           evidence[q] \subseteq evidence'[q], run'[q] = run[q], ckpt'[q] = ckpt[q]
    PROVE  ThreadOK(q)
<1>1. TypeOK /\ StoreMoves(q) /\ RunOK(q) /\ CkptOK(q)
  BY NextMoves DEF GraphInv
<1>2. RunNext(q) /\ CkptNext(q)
  BY <1>1, RunStays, CkptStays
<1>3. run[q] # NoValue \/ ckpt[q] # NoValue => status[q] # "absent"
  BY <1>1 DEF RunOK, CkptOK, PlaceOK
<1> QED
  BY <1>1, <1>2, <1>3, ThreadNext

\* A step that changes the threads, and the types of the rest of the process.
TypesNext ==
    /\ evidence' \in [Operations -> SUBSET Bundles]
    /\ agent' \in BOOLEAN
    /\ run' \in [Operations -> Runs \cup {NoValue}]
    /\ ckpt' \in [Operations -> Checkpoints \cup {NoValue}]
    /\ lag' \in [Operations -> 0 .. MaxLag]
    /\ decided' \in [Operations -> ApprovalRows \cup {NoValue}]
    /\ capturing' \subseteq Operations
    /\ boot' \in {"serving", "down", "expiring", "recovering"}
    /\ todo' \subseteq Operations
    /\ faults' \in 0 .. MaxFaults
    /\ crashes' \in 0 .. MaxCrashes
    /\ setBack' \subseteq Operations

\* What a step has to show to preserve the invariant.
LEMMA InvStep ==
    ASSUME GraphInv, [Next]_storeVars, TypesNext,
           \A q \in Operations : ThreadOK(q) /\ DecidedOK(q)' /\ FactsSaved(q)',
           OrdersAfterExecution', ProcessOK'
    PROVE  GraphInv'
<1>1. TypeOK' /\ DecisionInv' /\ now' <= MaxTime
  BY NextType, NextDecision, TimeStep DEF GraphInv
<1>2. ScenarioTypeOK'
  BY DEF TypesNext, ThreadOK, ScenarioTypeOK
<1>3. ASSUME NEW q \in Operations PROVE RowOK(q)' /\ DeadlineOK(q)' /\ ResultOK(q)'
  <2>1. RowOK(q)' /\ DeadlineOK(q)'
    BY RowStep, DeadlineStep DEF GraphInv
  <2>2. ResultOK(q)'
    BY ResultStep DEF GraphInv, OrdersAfterExecution
  <2> QED
    BY <2>1, <2>2
<1> QED
  BY <1>1, <1>2, <1>3 DEF GraphInv, ThreadOK

\* The facts of a row were saved before, or are saved by now.
LEMMA FactsStay ==
    ASSUME NEW q, FactsSaved(q), evidence[q] \subseteq evidence'[q],
           Saved(snapshot'[q], evidence'[q]),
           \A a \in approvals' : a.op = q => a \in approvals
    PROVE  FactsSaved(q)'
BY DEF FactsSaved, Saved

\* A work order stays behind the beginning of its execution.
LEMMA OrdersStay ==
    ASSUME GraphInv, [Next]_storeVars,
           \/ workOrders' = workOrders
           \/ \E o \in Operations : (\E p : create_or_get(o, p)) /\ status[o] \in AfterExecution
    PROVE  OrdersAfterExecution'
<1> SUFFICES ASSUME NEW q \in Operations, NEW w \in workOrders', w.op = q
             PROVE  status'[q] \in AfterExecution
  BY DEF OrdersAfterExecution, work_order_of
<1>1. StoreMoves(q)
  BY NextMoves DEF GraphInv
<1>2. CASE w \in workOrders
  BY <1>1, <1>2 DEF GraphInv, OrdersAfterExecution, work_order_of, StoreMoves
<1>3. CASE w \notin workOrders
  <2>1. PICK o \in Operations : (\E p : create_or_get(o, p)) /\ status[o] \in AfterExecution
    BY <1>3
  <2>2. w.op = o
    BY <1>3, <2>1 DEF create_or_get
  <2> QED
    BY <1>1, <2>1, <2>2 DEF StoreMoves
<1> QED
  BY <1>2, <1>3

-----------------------------------------------------------------------------
(* The nodes *)

\* What the step of a node leaves alone.
NodeStep(o) ==
    /\ run[o] # NoValue
    /\ OpStep(o)
    /\ approvals' = approvals
    /\ snapshot'[o].evidence \in {snapshot[o].evidence, run[o].state.evidence}
    /\ \/ workOrders' = workOrders
       \/ Role(o, run[o].node) = "execute_work_order" /\ create_or_get(o, run[o].state.plan)
    /\ UNCHANGED processVars
    /\ faults' \in faults .. MaxFaults
    /\ evidence' \in [Operations -> SUBSET Bundles]
    /\ \A q \in Operations : evidence[q] \subseteq evidence'[q]

\* The coroutine moves within a node, or around the graph, where no
\* checkpoint is written.
Slips(o, n, st) ==
    /\ Role(o, run[o].node) \in {"agent_investigation", "gather_evidence"}
    /\ ThreadMoves(o)
    /\ Stands(o, n, st)
    /\ n \in Positions \ {"resume_decision"}
    /\ Role(o, run[o].node) = "gather_evidence" => n = "record_evidence"
    /\ ckpt'[o] = ckpt[o] /\ lag'[o] = lag[o]

\* Where a node leads: to a place that keeps its promises, or to an exception.
Sound(o, role, st) == PlaceOK(role, st, status'[o]) /\ Saved(st, evidence'[o])

NodeLands(o) ==
    \/ Raises(o)
    \/ \E role : \E st : Goes(o, role, st) /\ Sound(o, role, st)
    \/ \E n : \E st : Slips(o, n, st) /\ Sound(o, n, st)

\* Roles that promise nothing: only the state must be one.
FreeRoles == (Roles \cup {"END", "raised", "conflict"})
                 \ (EvidenceRoles \cup BoundRoles)

\* The state of the node before is good enough for the place after it.
LEMMA SoundState ==
    ASSUME GraphInv, NEW o \in Operations, NodeStep(o)
    PROVE  /\ status'[o] # "absent" /\ Saved(run[o].state, evidence'[o])
           /\ run[o].state \in GraphStates
           /\ status[o] \in AfterExecution => status'[o] \in AfterExecution
           /\ \A role \in FreeRoles : Sound(o, role, run[o].state)
<1>1. TypeOK /\ RunOK(o)
  BY DEF GraphInv
<1>2. StoreMoves(o)
  BY <1>1, OpFrame, NextMoves DEF NodeStep
<1>3. status[o] # "absent" /\ run[o].state \in GraphStates /\ Saved(run[o].state, evidence[o])
  BY <1>1 DEF RunOK, PlaceOK, NodeStep
<1>4. Saved(run[o].state, evidence'[o])
  BY <1>3 DEF Saved, NodeStep
<1>5. \A role \in FreeRoles : role \notin EvidenceRoles \cup BoundRoles \cup PlannedRoles
                     \cup ExecutionRoles \cup {"record_low_plan", "agent_investigation"}
  BY RoleNames DEF FreeRoles, PlannedRoles, BoundRoles, EvidenceRoles
<1> QED
  BY <1>2, <1>3, <1>4, <1>5 DEF StoreMoves, Sound, PlaceOK

\* The step of a node preserves the invariant.
LEMMA NodeKeeps ==
    ASSUME GraphInv, NEW o \in Operations, NodeStep(o), NodeLands(o)
    PROVE  [Next]_storeVars /\ GraphInv'
<1>1. /\ TypeOK /\ ScenarioTypeOK /\ [Next]_storeVars /\ StoreMoves(o)
      /\ run[o] # NoValue /\ RunOK(o) /\ CkptOK(o) /\ DecidedOK(o) /\ RowOK(o)
      /\ \A q \in Operations : q # o => snapshot'[q] = snapshot[q]
      /\ \A q \in Operations : evidence[q] \subseteq evidence'[q]
  BY OpFrame, NextMoves DEF GraphInv, NodeStep
<1>2. status[o] # "absent"
  BY <1>1 DEF RunOK, PlaceOK
<1>3. TableOK(o)
  BY <1>1, <1>2, Table DEF RowOK
<1>4. ThreadMoves(o)
  BY DEF NodeLands, Raises, Goes, Slips
<1>5. UNCHANGED <<decided, boot>>
  BY DEF NodeStep, processVars
<1>6. RunNext(o) /\ CkptNext(o)
  <2>1. CASE Raises(o)
    <3>1. PICK n \in {"raised", "conflict"} : Stands(o, n, run[o].state)
      BY <2>1 DEF Raises
    <3>2. PICK m, st : m = run[o].node /\ st = run[o].state
      OBVIOUS
    <3>3. /\ m \in NodesOf(o) /\ ckpt'[o].node = m /\ ckpt'[o].state = st
          /\ ~ ckpt'[o].interrupted
      BY <2>1, <3>2 DEF Raises, checkpoint
    <3>4. PlaceOK(Role(o, m), st, status[o]) /\ Saved(st, evidence[o])
      BY <1>1, <3>2 DEF RunOK
    <3>5. PlaceNext(o, m, st)
      BY <1>1, <3>4, PlaceStays
    <3>6. n \in FreeRoles /\ n \in Positions /\ Role(o, n) = n /\ n # "resume_decision"
      BY DEF FreeRoles, EvidenceRoles, BoundRoles, StopRoles, DecidedRoles, ExecutionRoles,
             Positions, Role
    <3>7. PlaceNext(o, n, st)
      BY <3>2, <3>6, SoundState DEF Sound, PlaceNext
    <3> QED
      BY <3>1, <3>2, <3>3, <3>5, <3>6, <3>7 DEF RunNext, CkptNext, Stands
  <2>2. CASE \E role : \E st : Goes(o, role, st) /\ Sound(o, role, st)
    <3>1. PICK role, st : Goes(o, role, st) /\ Sound(o, role, st)
      BY <2>2
    <3>2. PICK n \in NodesOf(o) \cup {"END"} :
              Role(o, n) = role /\ Stands(o, n, st) /\ Saves(o, n, st)
      BY <3>1 DEF Goes
    <3>3. PlaceNext(o, n, st)
      BY <3>1, <3>2 DEF Sound, PlaceNext
    <3>4. RunNext(o)
      BY <3>2, <3>3, <1>3, PlaceNode DEF RunNext, Stands, Positions
    <3>5. CASE ckpt'[o] = checkpoint(n, st)
      BY <3>2, <3>3, <3>4, <3>5 DEF CkptNext, checkpoint
    <3>6. CASE ckpt'[o] = ckpt[o]
      BY <1>1, <3>4, <3>6, CkptStays
    <3> QED
      BY <3>2, <3>5, <3>6 DEF Saves
  <2>3. CASE \E n : \E st : Slips(o, n, st) /\ Sound(o, n, st)
    <3>1. PICK n, st : Slips(o, n, st) /\ Sound(o, n, st)
      BY <2>3
    <3>2. Role(o, n) = n /\ n \in Positions /\ n # "resume_decision"
      BY <3>1 DEF Slips, Role
    <3>3. PlaceNext(o, n, st)
      BY <3>1, <3>2 DEF Sound, PlaceNext
    <3>4. RunNext(o)
      BY <3>1, <3>2, <3>3 DEF RunNext, Slips, Stands
    <3>5. CkptNext(o)
      BY <1>1, <3>1, CkptStays DEF Slips
    <3> QED
      BY <3>4, <3>5
  <2> QED
    BY <2>1, <2>2, <2>3 DEF NodeLands
<1>7. ASSUME NEW q \in Operations PROVE ThreadOK(q) /\ DecidedOK(q)' /\ FactsSaved(q)'
  <2>1. CASE q = o
    <3>1. ThreadOK(o)
      BY <1>1, <1>2, <1>6, ThreadNext
    <3>2. decided'[o] = NoValue
      BY <1>1, <1>5 DEF DecidedOK
    <3>3. Saved(snapshot'[o], evidence'[o])
      <4>1. Saved(run[o].state, evidence'[o])
        BY SoundState
      <4>2. Saved(snapshot[o], evidence[o])
        BY DEF GraphInv, FactsSaved
      <4> QED
        BY <1>1, <4>1, <4>2 DEF Saved, NodeStep
    <3>4. FactsSaved(o)'
      BY <1>1, <3>3, FactsStay DEF GraphInv, NodeStep
    <3> QED
      BY <2>1, <3>1, <3>2, <3>4 DEF DecidedOK
  <2>2. CASE q # o
    <3>1. run'[q] = run[q] /\ ckpt'[q] = ckpt[q] /\ snapshot'[q] = snapshot[q]
      BY <1>1, <1>4, <2>2 DEF ThreadMoves
    <3>2. ThreadOK(q)
      BY <1>1, <3>1, ThreadKept
    <3>3. DecidedOK(q)'
      BY <1>5, <3>1 DEF GraphInv, DecidedOK, interrupted
    <3>4. Saved(snapshot'[q], evidence'[q])
      BY <1>1, <3>1 DEF GraphInv, FactsSaved, Saved
    <3>5. FactsSaved(q)'
      BY <1>1, <3>4, FactsStay DEF GraphInv, NodeStep
    <3> QED
      BY <3>2, <3>3, <3>5
  <2> QED
    BY <2>1, <2>2
<1>8. OrdersAfterExecution'
  <2>1. CASE workOrders' = workOrders
    BY <1>1, <2>1, OrdersStay
  <2>2. CASE Role(o, run[o].node) = "execute_work_order" /\ create_or_get(o, run[o].state.plan)
    <3>1. status[o] \in AfterExecution
      BY <1>1, <2>2 DEF RunOK, PlaceOK, ExecutionRoles
    <3> QED
      BY <1>1, <2>2, <3>1, OrdersStay
  <2> QED
    BY <2>1, <2>2 DEF NodeStep
<1>9. ProcessOK'
  <2>1. UNCHANGED <<boot, todo>>
    BY DEF NodeStep, processVars
  <2>2. \A q \in todo : status'[q] # "absent"
    <3> SUFFICES ASSUME NEW q \in todo PROVE status'[q] # "absent"
      OBVIOUS
    <3>1. q \in Operations /\ status[q] # "absent"
      BY <1>1 DEF ScenarioTypeOK, GraphInv, ProcessOK
    <3>2. StoreMoves(q)
      BY <1>1, <3>1, NextMoves
    <3> QED
      BY <3>1, <3>2 DEF StoreMoves
  <2>3. boot \notin {"down", "expiring"}
    BY <1>1 DEF GraphInv, ProcessOK
  <2> QED
    BY <2>1, <2>2, <2>3 DEF ProcessOK
<1>10. TypesNext
  BY <1>1, <1>4 DEF TypesNext, ScenarioTypeOK, NodeStep, processVars, ThreadMoves
<1> QED
  BY <1>1, <1>7, <1>8, <1>9, <1>10, InvStep

\* A transaction of the node makes its step.
LEMMA TransactionStep ==
    ASSUME GraphInv, NEW o \in Operations, run[o] # NoValue,
           NodeTransaction(o, run[o].state),
           UNCHANGED processVars, faults' = faults \/ fault,
           evidence' = evidence \/ \E b \in Bundles : save_bundle(o, b)
    PROVE  NodeStep(o)
<1>1. TypeOK /\ now <= MaxTime /\ ScenarioTypeOK
  BY DEF GraphInv
<1>2. /\ OpStep(o) /\ UNCHANGED <<approvals, workOrders>>
      /\ snapshot'[o].evidence \in {snapshot[o].evidence, run[o].state.evidence}
  BY <1>1, NodeTransactionFrame
<1>3. faults' \in faults .. MaxFaults
  BY <1>1, ScenarioAssumption DEF ScenarioTypeOK, fault
<1>4. evidence' \in [Operations -> SUBSET Bundles]
      /\ \A q \in Operations : evidence[q] \subseteq evidence'[q]
  BY <1>1 DEF ScenarioTypeOK, save_bundle
<1> QED
  BY <1>2, <1>3, <1>4 DEF NodeStep

\* A node ends along an edge, in mark_failed, or with an exception.
LEMMA Landing ==
    ASSUME GraphInv, NEW o \in Operations, NodeStep(o), NEW role \in Roles, at(o, role),
           NEW route, NEW next, NEW st \in GraphStates,
           \/ /\ leave(o, route, st)
              /\ Leads(o, run[o].node, route, next) /\ Sound(o, next, st)
           \/ fail(o) /\ Leads(o, run[o].node, "failure", "mark_failed")
           \/ raise(o, "raised") \/ raise(o, "conflict")
    PROVE  NodeLands(o)
<1>1. ScenarioTypeOK /\ TableOK(o) /\ run[o] # NoValue /\ run[o].node \in NodesOf(o)
      /\ run[o].state \in GraphStates
  BY RunningPlace
<1>2. CASE leave(o, route, st) /\ Leads(o, run[o].node, route, next) /\ Sound(o, next, st)
  <2>1. Goes(o, next, st)
    BY <1>1, <1>2, LeaveGoes
  <2> QED
    BY <1>2, <2>1 DEF NodeLands
<1>3. CASE fail(o) /\ Leads(o, run[o].node, "failure", "mark_failed")
  <2>1. Goes(o, "mark_failed", run[o].state)
    BY <1>1, <1>3, LeaveGoes DEF fail
  <2>2. "mark_failed" \in FreeRoles
    BY RoleNames DEF FreeRoles, EvidenceRoles, BoundRoles, StopRoles, DecidedRoles,
       ExecutionRoles
  <2>3. Sound(o, "mark_failed", run[o].state)
    BY <2>2, SoundState
  <2> QED
    BY <2>1, <2>3 DEF NodeLands
<1>4. CASE raise(o, "raised") \/ raise(o, "conflict")
  BY <1>1, <1>4, RaiseRaises DEF NodeLands
<1> QED
  BY <1>2, <1>3, <1>4

\* The roles that promise nothing, one by one.
LEMMA FreeRoleNames ==
    {"parse_request", "mark_gathering", "gather_evidence", "mark_reporting",
     "complete_without_replenishment", "mark_failed", "END", "raised", "conflict"}
        \subseteq FreeRoles
BY RoleNames DEF FreeRoles, EvidenceRoles, BoundRoles, StopRoles, DecidedRoles, ExecutionRoles

\* A node whose successor promises nothing.
LEMMA FreeLanding ==
    ASSUME GraphInv, NEW o \in Operations, NodeStep(o), NEW role \in Roles, at(o, role),
           NEW next \in FreeRoles, Leads(o, run[o].node, "continue", next),
           leave(o, "continue", run[o].state) \/ raise(o, "raised") \/ raise(o, "conflict")
    PROVE  NodeLands(o)
<1>1. Sound(o, next, run[o].state) /\ run[o].state \in GraphStates
  BY SoundState
<1> QED
  BY <1>1, Landing

\* The nodes that go on to a node that promises nothing.
LEMMA FreeNodes ==
    ASSUME GraphInv, NEW o \in Operations,
           \/ parse_request(o) \/ mark_gathering(o)
           \/ record_normal_plan(o) \/ graph_record_query_assessment(o)
           \/ graph_mark_reporting(o) \/ graph_complete_without_replenishment(o)
           \/ graph_mark_rejected(o) \/ graph_mark_verifier_aborted(o)
           \/ graph_mark_completed(o) \/ graph_mark_failed(o)
    PROVE  NodeStep(o) /\ NodeLands(o)
<1> DEFINE st == run[o].state
<1> DEFINE Ended == leave(o, "continue", st) \/ raise(o, "raised") \/ raise(o, "conflict")
<1> DEFINE Around == UNCHANGED processVars /\ (faults' = faults \/ fault) /\ evidence' = evidence
<1>1. ASSUME NEW role \in Roles, at(o, role), NEW next \in FreeRoles,
             Edges(o, run[o].node) => Leads(o, run[o].node, "continue", next),
             NodeTransaction(o, run[o].state), Ended, Around
      PROVE  NodeStep(o) /\ NodeLands(o)
  <2>1. run[o] # NoValue /\ Edges(o, run[o].node)
    BY <1>1, RunningPlace
  <2>2. NodeStep(o)
    BY <1>1, <2>1, TransactionStep
  <2> QED
    BY <1>1, <2>1, <2>2, FreeLanding
<1>2. CASE parse_request(o)
  <2>1. at(o, "parse_request") /\ UNCHANGED storeVars /\ Ended /\ Around
    BY <1>2 DEF parse_request
  <2>2. Role(o, run[o].node) = "parse_request"
    BY <2>1, RunningPlace
  <2> QED
    BY <1>1, <2>1, <2>2, FreeRoleNames, RoleNames DEF NodeTransaction, Edges
<1>3. CASE mark_gathering(o)
  <2>1. at(o, "mark_gathering") /\ Around
    BY <1>3 DEF mark_gathering, Transition
  <2>2. Ended /\ (mark_gathering_evidence(o) \/ UNCHANGED storeVars)
    BY <1>3, Zenon DEF mark_gathering, Transition
  <2>3. Role(o, run[o].node) = "mark_gathering"
    BY <2>1, RunningPlace
  <2> QED
    BY <1>1, <2>1, <2>2, <2>3, FreeRoleNames, RoleNames DEF NodeTransaction, Edges
<1>4. CASE record_normal_plan(o)
  <2>1. at(o, "record_normal_plan") /\ Around
    BY <1>4 DEF record_normal_plan, Transition
  <2>2. Ended /\ (record_validated_plan(o, st.evidence, NoValue) \/ UNCHANGED storeVars)
    BY <1>4, Zenon DEF record_normal_plan, Transition
  <2>3. Role(o, run[o].node) = "record_normal_plan" /\ st.evidence \in Bundles
    BY <2>1, RunningPlace DEF PlaceOK, EvidenceRoles
  <2>4. NodeTransaction(o, st)
    BY <2>2, <2>3 DEF NodeTransaction
  <2> QED
    BY <1>1, <2>1, <2>2, <2>3, <2>4, FreeRoleNames, RoleNames DEF Edges
<1>5. CASE graph_record_query_assessment(o)
  <2>1. at(o, "record_query_assessment") /\ Around
    BY <1>5 DEF graph_record_query_assessment, Transition
  <2>2. Ended /\ (record_query_assessment(o, st.evidence) \/ UNCHANGED storeVars)
    BY <1>5, Zenon DEF graph_record_query_assessment, Transition
  <2>3. Role(o, run[o].node) = "record_query_assessment" /\ st.evidence \in Bundles
    BY <2>1, RunningPlace DEF PlaceOK, EvidenceRoles
  <2>4. NodeTransaction(o, st)
    BY <2>2, <2>3 DEF NodeTransaction
  <2> QED
    BY <1>1, <2>1, <2>2, <2>3, <2>4, FreeRoleNames, RoleNames DEF Edges
<1>6. CASE graph_mark_reporting(o)
  <2>1. at(o, "mark_reporting") /\ Around
    BY <1>6 DEF graph_mark_reporting, Transition
  <2>2. Ended /\ (mark_reporting(o) \/ UNCHANGED storeVars)
    BY <1>6, Zenon DEF graph_mark_reporting, Transition
  <2>3. Role(o, run[o].node) = "mark_reporting"
    BY <2>1, RunningPlace
  <2>4. NodeTransaction(o, st)
    BY <2>2 DEF NodeTransaction
  <2> QED
    BY <1>1, <2>1, <2>2, <2>3, <2>4, FreeRoleNames, RoleNames DEF Edges
<1>7. CASE graph_complete_without_replenishment(o)
  <2>1. at(o, "complete_without_replenishment") /\ Around
    BY <1>7 DEF graph_complete_without_replenishment, Transition
  <2>2. Ended
        /\ \/ \E outcome \in NoActionOutcomes : complete_without_replenishment(o, outcome)
           \/ UNCHANGED storeVars
    <3>1. PICK outcome : outcome = IF request[o].action = "query" THEN "query_completed"
                                   ELSE "not_required"
      OBVIOUS
    <3>2. outcome \in NoActionOutcomes
      BY <3>1 DEF NoActionOutcomes
    <3>3. Ended /\ (complete_without_replenishment(o, outcome) \/ UNCHANGED storeVars)
      BY <1>7, <3>1, Zenon DEF graph_complete_without_replenishment, Transition
    <3> QED
      BY <3>2, <3>3
  <2>3. Role(o, run[o].node) = "complete_without_replenishment"
    BY <2>1, RunningPlace
  <2>4. NodeTransaction(o, st)
    BY <2>2 DEF NodeTransaction
  <2> QED
    BY <1>1, <2>1, <2>2, <2>3, <2>4, FreeRoleNames, RoleNames DEF Edges
<1>8. CASE graph_mark_rejected(o)
  <2>1. at(o, "mark_rejected") /\ Around
    BY <1>8 DEF graph_mark_rejected, Transition
  <2>2. Ended /\ (mark_rejected(o, st.approval) \/ UNCHANGED storeVars)
    BY <1>8, Zenon DEF graph_mark_rejected, Transition
  <2>3. Role(o, run[o].node) = "mark_rejected"
    BY <2>1, RunningPlace
  <2>4. NodeTransaction(o, st)
    BY <2>2 DEF NodeTransaction
  <2> QED
    BY <1>1, <2>1, <2>2, <2>3, <2>4, FreeRoleNames, RoleNames DEF Edges
<1>9. CASE graph_mark_verifier_aborted(o)
  <2>1. at(o, "mark_verifier_aborted") /\ Around
    BY <1>9 DEF graph_mark_verifier_aborted, Transition
  <2>2. Ended /\ (mark_verifier_aborted(o, st.approval) \/ UNCHANGED storeVars)
    BY <1>9, Zenon DEF graph_mark_verifier_aborted, Transition
  <2>3. Role(o, run[o].node) = "mark_verifier_aborted"
    BY <2>1, RunningPlace
  <2>4. NodeTransaction(o, st)
    BY <2>2 DEF NodeTransaction
  <2> QED
    BY <1>1, <2>1, <2>2, <2>3, <2>4, FreeRoleNames, RoleNames DEF Edges
<1>10. CASE graph_mark_completed(o)
  <2>1. at(o, "mark_completed") /\ Around
    BY <1>10 DEF graph_mark_completed, Transition
  <2>2. Ended /\ (mark_completed(o, st.work) \/ UNCHANGED storeVars)
    BY <1>10, Zenon DEF graph_mark_completed, Transition
  <2>3. Role(o, run[o].node) = "mark_completed"
    BY <2>1, RunningPlace
  <2>4. NodeTransaction(o, st)
    BY <2>2 DEF NodeTransaction
  <2> QED
    BY <1>1, <2>1, <2>2, <2>3, <2>4, FreeRoleNames, RoleNames DEF Edges
<1>11. CASE graph_mark_failed(o)
  <2>1. at(o, "mark_failed") /\ Around
    BY <1>11 DEF graph_mark_failed
  <2>2. Ended /\ ((\E e \in Errors : mark_failed(o, e)) \/ UNCHANGED storeVars)
    BY <1>11, Zenon DEF graph_mark_failed
  <2>3. Role(o, run[o].node) = "mark_failed"
    BY <2>1, RunningPlace
  <2>4. NodeTransaction(o, st)
    BY <2>2 DEF NodeTransaction
  <2> QED
    BY <1>1, <2>1, <2>2, <2>3, <2>4, FreeRoleNames, RoleNames DEF Edges
<1> QED
  BY <1>2, <1>3, <1>4, <1>5, <1>6, <1>7, <1>8, <1>9, <1>10, <1>11

\* A coroutine that slips into a position.
LEMMA SlipsHere ==
    ASSUME GraphInv, NEW o \in Operations, NodeStep(o),
           Role(o, run[o].node) = "agent_investigation",
           NEW n \in {"END", "raised"}, run' = [run EXCEPT ![o].node = n], UNCHANGED <<ckpt, lag>>
    PROVE  NodeLands(o)
<1>1. ScenarioTypeOK /\ run[o] # NoValue
  BY DEF GraphInv, NodeStep
<1>2. n \in Nodes \cup Positions /\ n \in Positions \ {"resume_decision"} /\ n \in FreeRoles
  BY FreeRoleNames DEF Positions
<1>3. ThreadMoves(o) /\ Stands(o, n, run[o].state)
  BY <1>1, <1>2, StandsHere DEF ThreadMoves, ScenarioTypeOK
<1>4. Slips(o, n, run[o].state)
  BY <1>2, <1>3 DEF Slips
<1>5. Sound(o, n, run[o].state)
  BY <1>2, SoundState
<1> QED
  BY <1>4, <1>5 DEF NodeLands

\* Before the graph: an investigation of the agent leads to the first node,
\* or around the graph.
LEMMA AgentNode ==
    ASSUME GraphInv, NEW o \in Operations, agent_investigation(o)
    PROVE  NodeStep(o) /\ NodeLands(o)
<1>0. at(o, "agent_investigation") /\ Role(o, run[o].node) = "agent_investigation"
  BY RunningPlace DEF agent_investigation
<1>1. /\ run[o] # NoValue /\ TableOK(o) /\ ScenarioTypeOK /\ run[o].state \in GraphStates
      /\ UNCHANGED processVars /\ (faults' = faults \/ fault) /\ evidence' = evidence
      /\ UNCHANGED storeVars \/ \E e \in Errors : mark_failed(o, e)
  BY RunningPlace DEF agent_investigation
<1>2. NodeTransaction(o, run[o].state)
  BY <1>1 DEF NodeTransaction
<1>3. NodeStep(o)
  BY <1>1, <1>2, TransactionStep
<1>4. CASE /\ run' = [run EXCEPT ![o].node = "parse_request"]
           /\ save(o, "parse_request", initial_state)
  <2>1. run[o].state = initial_state
    BY RunningPlace DEF agent_investigation, PlaceOK
  <2>2. "parse_request" \in NodesOf(o) /\ Role(o, "parse_request") = "parse_request"
        /\ "parse_request" \in Nodes
    BY <1>1 DEF TableOK, NamedNodes
  <2>3. ThreadMoves(o) /\ Stands(o, "parse_request", run[o].state)
    BY <1>1, <1>4, <2>1, <2>2, StandsHere, SavesType DEF ThreadMoves
  <2>4. Saves(o, "parse_request", run[o].state)
    BY <1>1, <1>4, <2>1, <2>2, SavesType
  <2>5. Goes(o, "parse_request", run[o].state)
    BY <2>2, <2>3, <2>4 DEF Goes
  <2>6. Sound(o, "parse_request", run[o].state)
    BY <1>3, SoundState, FreeRoleNames
  <2> QED
    BY <1>3, <2>5, <2>6 DEF NodeLands
<1>5. CASE \E n \in {"END", "raised"} :
               run' = [run EXCEPT ![o].node = n] /\ UNCHANGED <<ckpt, lag>>
  BY <1>0, <1>3, <1>5, SlipsHere
<1> QED
  BY <1>4, <1>5 DEF agent_investigation

\* The evidence is saved before it is recorded.
LEMMA GatherNode ==
    ASSUME GraphInv, NEW o \in Operations, gather_evidence(o)
    PROVE  NodeStep(o) /\ NodeLands(o)
<1>1. at(o, "gather_evidence") /\ "gather_evidence" \in Roles
  BY RoleNames DEF gather_evidence
<1>2. /\ run[o] # NoValue /\ ScenarioTypeOK /\ run[o].state \in GraphStates
      /\ Leads(o, run[o].node, "failure", "mark_failed")
      /\ Role(o, run[o].node) = "gather_evidence"
  BY <1>1, RunningPlace DEF Edges
<1>3. /\ UNCHANGED processVars /\ faults' = faults /\ UNCHANGED storeVars
      /\ evidence' = evidence \/ \E b \in Bundles : save_bundle(o, b)
  BY DEF gather_evidence
<1>4. NodeTransaction(o, run[o].state)
  BY <1>3 DEF NodeTransaction
<1>5. NodeStep(o)
  BY <1>2, <1>3, <1>4, TransactionStep
<1>6. CASE fail(o)
  BY <1>1, <1>2, <1>5, <1>6, Landing
<1>7. CASE \E b \in Bundles :
               /\ save_bundle(o, b)
               /\ run' = [run EXCEPT ![o].node = "record_evidence", ![o].state.evidence = b]
               /\ UNCHANGED <<ckpt, lag>>
  <2>1. PICK b \in Bundles :
               /\ save_bundle(o, b)
               /\ run' = [run EXCEPT ![o].node = "record_evidence", ![o].state.evidence = b]
               /\ UNCHANGED <<ckpt, lag>>
    BY <1>7
  <2>2. PICK st : st = [run[o].state EXCEPT !.evidence = b]
    OBVIOUS
  <2>3. st \in GraphStates /\ st.evidence = b
    BY <1>2, <2>2 DEF GraphStates
  <2>4. PICK f : f = [run EXCEPT ![o].node = "record_evidence"]
    OBVIOUS
  <2>11. run' = [f EXCEPT ![o].state = st]
    <3>1. f[o].state = run[o].state
      BY <1>2, <2>4 DEF ScenarioTypeOK, Runs
    <3>2. run' = [f EXCEPT ![o].state.evidence = b]
      BY <2>1, <2>4
    <3>3. st = [f[o].state EXCEPT !.evidence = b]
      BY <2>2, <3>1
    <3> QED
      BY <3>2, <3>3
  <2>5. "record_evidence" \in Nodes \cup Positions
    BY DEF Positions
  <2>12. ckpt' \in [Operations -> Checkpoints \cup {NoValue}] /\ lag' \in [Operations -> 0 .. MaxLag]
    BY <1>2, <2>1 DEF ScenarioTypeOK
  <2>6. ThreadMoves(o) /\ Stands(o, "record_evidence", st)
    <3>1. /\ run' \in [Operations -> Runs \cup {NoValue}]
          /\ Stands(o, "record_evidence", st)
          /\ \A q \in Operations : q # o => run'[q] = run[q]
      BY <1>2, <2>3, <2>4, <2>5, <2>11, StandsType
    <3> QED
      BY <2>1, <2>12, <3>1 DEF ThreadMoves
  <2>7. Slips(o, "record_evidence", st)
    BY <1>2, <2>1, <2>6 DEF Slips, Positions
  <2>8. Saved(st, evidence'[o])
    BY <1>2, <2>1, <2>3 DEF Saved, save_bundle, ScenarioTypeOK
  <2>9. status'[o] # "absent"
    BY <1>5, SoundState
  <2>10. Sound(o, "record_evidence", st)
    BY <2>1, <2>3, <2>8, <2>9 DEF Sound, PlaceOK, EvidenceRoles, PlannedRoles, BoundRoles, StopRoles,
           DecidedRoles, ExecutionRoles
  <2> QED
    BY <1>5, <2>7, <2>10 DEF NodeLands
<1> QED
  BY <1>6, <1>7 DEF gather_evidence

\* What a state must hold for the places that promise something.
LEMMA SoundPlaces ==
    ASSUME NEW o, NEW st \in GraphStates, status'[o] # "absent", Saved(st, evidence'[o])
    PROVE  /\ st.evidence \in Bundles =>
                  /\ Sound(o, "calculate_assessment", st)
                  /\ Sound(o, "record_normal_plan", st)
                  /\ Sound(o, "record_query_assessment", st)
           /\ st.evidence \in Bundles /\ PlanOf[st.evidence] \in Plans =>
                  Sound(o, "explain_plan", st) /\ Sound(o, "build_and_validate_plan", st)
           /\ st.evidence \in Bundles /\ st.plan \in Plans => Sound(o, "record_low_plan", st)
           /\ \A role \in BoundRoles \ ExecutionRoles : IsBound(st) => Sound(o, role, st)
           /\ \A role \in ExecutionRoles :
                  IsBound(st) /\ status'[o] \in AfterExecution => Sound(o, role, st)
<1>1. st.evidence \in Bundles =>
          /\ Sound(o, "calculate_assessment", st)
          /\ Sound(o, "record_normal_plan", st)
          /\ Sound(o, "record_query_assessment", st)
  BY DEF Sound, PlaceOK, PlannedRoles, BoundRoles, StopRoles, DecidedRoles, ExecutionRoles
<1>2. st.evidence \in Bundles /\ PlanOf[st.evidence] \in Plans =>
          Sound(o, "explain_plan", st) /\ Sound(o, "build_and_validate_plan", st)
  BY DEF Sound, PlaceOK, BoundRoles, StopRoles, DecidedRoles, ExecutionRoles
<1>3. st.evidence \in Bundles /\ st.plan \in Plans => Sound(o, "record_low_plan", st)
  BY DEF Sound, PlaceOK, PlannedRoles, BoundRoles, StopRoles, DecidedRoles, ExecutionRoles
<1>4. \A role \in BoundRoles : role \notin EvidenceRoles \cup PlannedRoles
                                       \cup {"record_low_plan", "agent_investigation"}
  BY DEF EvidenceRoles, PlannedRoles, BoundRoles, StopRoles, DecidedRoles, ExecutionRoles
<1>5. \A role \in BoundRoles \ ExecutionRoles : IsBound(st) => Sound(o, role, st)
  BY <1>4 DEF Sound, PlaceOK
<1>6. \A role \in ExecutionRoles :
          IsBound(st) /\ status'[o] \in AfterExecution => Sound(o, role, st)
  BY <1>4 DEF Sound, PlaceOK, BoundRoles
<1> QED
  BY <1>1, <1>2, <1>3, <1>5, <1>6

\* The recorded evidence is that of the state; when it cannot be recorded
\* the graph fails without it.
LEMMA GatherRecordNode ==
    ASSUME GraphInv, NEW o \in Operations, gather_record_evidence(o)
    PROVE  NodeStep(o) /\ NodeLands(o)
<1> DEFINE st == run[o].state
           edge(route) == graph_edges(o)["gather_evidence"][route]
           end(route, s) == /\ run' = [run EXCEPT ![o].node = edge(route), ![o].state = s]
                            /\ save(o, edge(route), s)
<1>1. at(o, "record_evidence")
  BY DEF gather_record_evidence
<1>2. /\ run[o] # NoValue /\ TableOK(o) /\ ScenarioTypeOK /\ st \in GraphStates
      /\ st.evidence \in Bundles
  BY <1>1, RunningPlace DEF PlaceOK, EvidenceRoles
<1>3. Role(o, "gather_evidence") = "gather_evidence" /\ Edges(o, "gather_evidence")
  BY <1>2 DEF TableOK, NamedNodes
<1>4. /\ Leads(o, "gather_evidence", "continue", "calculate_assessment")
      /\ Leads(o, "gather_evidence", "failure", "mark_failed")
  BY <1>3 DEF Edges
<1>5. UNCHANGED processVars /\ evidence' = evidence /\ (faults' = faults \/ fault)
  BY DEF gather_record_evidence
<1>6. PICK failed : failed = [st EXCEPT !.evidence = NoValue]
  OBVIOUS
<1>7. /\ record_evidence(o, st.evidence) \/ UNCHANGED storeVars
      /\ end("continue", st) \/ end("failure", failed)
  BY <1>6, Zenon DEF gather_record_evidence
<1>8. NodeTransaction(o, st)
  BY <1>2, <1>7 DEF NodeTransaction
<1>9. NodeStep(o)
  BY <1>2, <1>5, <1>8, TransactionStep
<1>10. status'[o] # "absent" /\ Saved(st, evidence'[o])
  BY <1>9, SoundState
<1>11. CASE end("continue", st)
  <2>1. PICK n, f : n = edge("continue") /\ f = [run EXCEPT ![o].node = n]
    OBVIOUS
  <2>5. run' = [f EXCEPT ![o].state = st] /\ save(o, n, st)
    BY <1>11, <2>1
  <2>2. Goes(o, "calculate_assessment", st)
    BY <1>2, <1>4, <2>1, <2>5, EdgeGoes
  <2>3. Sound(o, "calculate_assessment", st)
    BY <1>2, <1>10, SoundPlaces
  <2> QED
    BY <1>9, <2>2, <2>3 DEF NodeLands
<1>12. CASE end("failure", failed)
  <2>1. PICK n, f : n = edge("failure") /\ f = [run EXCEPT ![o].node = n]
    OBVIOUS
  <2>5. run' = [f EXCEPT ![o].state = failed] /\ save(o, n, failed)
    BY <1>12, <2>1
  <2>2. failed \in GraphStates /\ failed.evidence = NoValue
    BY <1>2, <1>6 DEF GraphStates
  <2>3. Goes(o, "mark_failed", failed)
    BY <1>2, <1>4, <2>1, <2>2, <2>5, EdgeGoes
  <2>4. Sound(o, "mark_failed", failed)
    BY <1>10, <2>2 DEF Sound, PlaceOK, Saved, EvidenceRoles, PlannedRoles, BoundRoles, StopRoles,
         DecidedRoles, ExecutionRoles
  <2> QED
    BY <1>9, <2>3, <2>4 DEF NodeLands
<1> QED
  BY <1>7, <1>11, <1>12

\* The assessment goes on with the evidence of the state, and to a plan only
\* where that evidence asks for one.
LEMMA AssessmentNode ==
    ASSUME GraphInv, NEW o \in Operations, calculate_assessment(o)
    PROVE  NodeStep(o) /\ NodeLands(o)
<1> DEFINE st == run[o].state
<1>1. at(o, "calculate_assessment") /\ "calculate_assessment" \in Roles
  BY RoleNames DEF calculate_assessment
<1>2. /\ run[o] # NoValue /\ st \in GraphStates /\ st.evidence \in Bundles
      /\ Role(o, run[o].node) = "calculate_assessment" /\ Edges(o, run[o].node)
  BY <1>1, RunningPlace DEF PlaceOK, EvidenceRoles
<1>3. /\ Leads(o, run[o].node, "query", "record_query_assessment")
      /\ Leads(o, run[o].node, "normal", "record_normal_plan")
      /\ Leads(o, run[o].node, required_route(o), "explain_plan")
      /\ Leads(o, run[o].node, "failure", "mark_failed")
  BY <1>2 DEF Edges
<1>4. /\ UNCHANGED processVars /\ evidence' = evidence /\ faults' = faults /\ UNCHANGED storeVars
      /\ leave(o, route_assessment(o), st) \/ fail(o)
  BY DEF calculate_assessment, Reading
<1>5. NodeTransaction(o, st)
  BY <1>4 DEF NodeTransaction
<1>6. NodeStep(o)
  BY <1>2, <1>4, <1>5, TransactionStep
<1>7. status'[o] # "absent" /\ Saved(st, evidence'[o])
  BY <1>6, SoundState
<1>8. PICK route : route = route_assessment(o)
  OBVIOUS
<1>9. \/ route = "query" \/ route = "normal"
      \/ route = required_route(o) /\ PlanOf[st.evidence] \in Plans
  BY <1>2, <1>8, StoreAssumption DEF route_assessment
<1>10. \E next : Leads(o, run[o].node, route, next) /\ Sound(o, next, st)
  BY <1>2, <1>3, <1>7, <1>9, SoundPlaces
<1> QED
  BY <1>1, <1>2, <1>3, <1>4, <1>6, <1>8, <1>10, Landing

\* The explanation and the plan, whose evidence asks for one.
LEMMA PlanNodes ==
    ASSUME GraphInv, NEW o \in Operations, explain_plan(o) \/ build_and_validate_plan(o)
    PROVE  NodeStep(o) /\ NodeLands(o)
<1> DEFINE st == run[o].state
<1>1. PICK role \in {"explain_plan", "build_and_validate_plan"} :
          /\ at(o, role)
          /\ role = "explain_plan" => explain_plan(o)
          /\ role = "build_and_validate_plan" => build_and_validate_plan(o)
  BY DEF explain_plan, build_and_validate_plan
<1>2. /\ run[o] # NoValue /\ st \in GraphStates /\ role \in Roles
      /\ st.evidence \in Bundles /\ PlanOf[st.evidence] \in Plans
      /\ Role(o, run[o].node) = role /\ Edges(o, run[o].node)
  BY <1>1, RunningPlace, RoleNames DEF PlaceOK, EvidenceRoles, PlannedRoles
<1>3. UNCHANGED processVars /\ evidence' = evidence /\ faults' = faults /\ UNCHANGED storeVars
  BY <1>1 DEF explain_plan, build_and_validate_plan, Reading
<1>4. NodeTransaction(o, st)
  BY <1>3 DEF NodeTransaction
<1>5. NodeStep(o)
  BY <1>2, <1>3, <1>4, TransactionStep
<1>6. status'[o] # "absent" /\ Saved(st, evidence'[o])
  BY <1>5, SoundState
<1>7. CASE role = "explain_plan"
  <2>1. leave(o, "continue", st) /\ Leads(o, run[o].node, "continue", "build_and_validate_plan")
    BY <1>1, <1>2, <1>7 DEF explain_plan, Edges
  <2>2. Sound(o, "build_and_validate_plan", st)
    BY <1>2, <1>6, SoundPlaces
  <2> QED
    BY <1>1, <1>2, <1>5, <2>1, <2>2, Landing
<1>8. CASE role = "build_and_validate_plan"
  <2>1. /\ Leads(o, run[o].node, "continue", "record_low_plan")
        /\ Leads(o, run[o].node, "failure", "mark_failed")
    BY <1>2, <1>8 DEF Edges
  <2>2. PICK ps : ps = [st EXCEPT !.plan = PlanOf[st.evidence]]
    OBVIOUS
  <2>3. leave(o, "continue", ps) \/ fail(o)
    BY <1>1, <1>8, <2>2, Zenon DEF build_and_validate_plan, Reading
  <2>4. ps \in GraphStates /\ ps.evidence = st.evidence /\ ps.plan \in Plans
    BY <1>2, <2>2 DEF GraphStates
  <2>5. Sound(o, "record_low_plan", ps)
    BY <1>2, <1>6, <2>4, SoundPlaces DEF Saved
  <2> QED
    BY <1>1, <1>2, <1>5, <2>1, <2>3, <2>4, <2>5, Landing
<1> QED
  BY <1>7, <1>8

\* The recorded plan is bound to its evidence, and the approval is asked for
\* with that binding.
LEMMA BindingNodes ==
    ASSUME GraphInv, NEW o \in Operations, record_low_plan(o) \/ prepare_approval(o)
    PROVE  NodeStep(o) /\ NodeLands(o)
<1> DEFINE st == run[o].state
<1> DEFINE Around == UNCHANGED processVars /\ (faults' = faults \/ fault) /\ evidence' = evidence
<1>1. CASE record_low_plan(o)
  <2>1. at(o, "record_low_plan") /\ Around /\ "record_low_plan" \in Roles
    BY <1>1, RoleNames DEF record_low_plan, Transition
  <2>2. /\ run[o] # NoValue /\ st \in GraphStates
        /\ st.evidence \in Bundles /\ st.plan \in Plans
        /\ Role(o, run[o].node) = "record_low_plan" /\ Edges(o, run[o].node)
    BY <2>1, RunningPlace DEF PlaceOK, EvidenceRoles
  <2>3. PICK bs : bs = [st EXCEPT !.binding = build_approval_binding(st.evidence, st.plan)]
    OBVIOUS
  <2>4. /\ record_validated_plan(o, st.evidence, st.plan) \/ UNCHANGED storeVars
        /\ leave(o, "continue", bs) \/ raise(o, "raised") \/ raise(o, "conflict")
    BY <1>1, <2>3, Zenon DEF record_low_plan, Transition
  <2>5. NodeTransaction(o, st)
    BY <2>2, <2>4 DEF NodeTransaction
  <2>6. NodeStep(o)
    BY <2>1, <2>2, <2>5, TransactionStep
  <2>7. status'[o] # "absent" /\ Saved(st, evidence'[o])
    BY <2>6, SoundState
  <2>8. PICK g : g = build_approval_binding(st.evidence, st.plan)
    OBVIOUS
  <2>9. g \in Bindings
    BY <2>2, <2>8 DEF build_approval_binding, Bindings
  <2>10. /\ bs \in GraphStates /\ bs.binding = g
         /\ bs.evidence = st.evidence /\ bs.plan = st.plan
    BY <2>2, <2>3, <2>8, <2>9 DEF GraphStates
  <2>11. IsBound(bs) /\ Saved(bs, evidence'[o])
    BY <2>2, <2>7, <2>8, <2>10 DEF IsBound, Saved
  <2>12. Sound(o, "prepare_approval", bs)
    BY <2>7, <2>10, <2>11, SoundPlaces DEF BoundRoles, ExecutionRoles
  <2>13. Leads(o, run[o].node, "continue", "prepare_approval")
    BY <2>2 DEF Edges
  <2> QED
    BY <2>1, <2>4, <2>6, <2>10, <2>12, <2>13, Landing
<1>2. CASE prepare_approval(o)
  <2>1. at(o, "prepare_approval") /\ Around /\ "prepare_approval" \in Roles
    BY <1>2, RoleNames DEF prepare_approval, Transition
  <2>2. /\ run[o] # NoValue /\ st \in GraphStates /\ IsBound(st)
        /\ Role(o, run[o].node) = "prepare_approval" /\ Edges(o, run[o].node)
    BY <2>1, RunningPlace DEF PlaceOK, BoundRoles
  <2>3. /\ mark_awaiting_approval(o, st.binding, now + ApprovalTtl) \/ UNCHANGED storeVars
        /\ leave(o, "continue", st) \/ raise(o, "raised") \/ raise(o, "conflict")
    BY <1>2, Zenon DEF prepare_approval, Transition
  <2>4. NodeTransaction(o, st)
    BY <2>3 DEF NodeTransaction
  <2>5. NodeStep(o)
    BY <2>1, <2>2, <2>4, TransactionStep
  <2>6. status'[o] # "absent" /\ Saved(st, evidence'[o])
    BY <2>5, SoundState
  <2>7. Sound(o, "request_approval", st)
    BY <2>2, <2>6, SoundPlaces DEF BoundRoles, StopRoles, ExecutionRoles
  <2>8. Leads(o, run[o].node, "continue", "request_approval")
    BY <2>2 DEF Edges
  <2> QED
    BY <2>1, <2>2, <2>3, <2>5, <2>7, <2>8, Landing
<1> QED
  BY <1>1, <1>2

\* The refreshed evidence is saved whatever the verdict, and only a plan takes
\* it into the state.
LEMMA RevalidateNode ==
    ASSUME GraphInv, NEW o \in Operations, revalidate_evidence(o)
    PROVE  NodeStep(o) /\ NodeLands(o)
<1> DEFINE st == run[o].state
<1>1. at(o, "revalidate_evidence") /\ "revalidate_evidence" \in Roles
  BY RoleNames DEF revalidate_evidence
<1>2. /\ run[o] # NoValue /\ st \in GraphStates /\ IsBound(st) /\ ScenarioTypeOK
      /\ Role(o, run[o].node) = "revalidate_evidence" /\ Edges(o, run[o].node)
  BY <1>1, RunningPlace DEF PlaceOK, BoundRoles, DecidedRoles
<1>3. /\ Leads(o, run[o].node, "proceed", "mark_executing")
      /\ Leads(o, run[o].node, "abort", "mark_verifier_aborted")
      /\ Leads(o, run[o].node, "reapproval", "mark_needs_reapproval")
      /\ Leads(o, run[o].node, "failure", "mark_failed")
  BY <1>2 DEF Edges
<1>4. /\ UNCHANGED processVars /\ faults' = faults /\ UNCHANGED storeVars
      /\ evidence' = evidence \/ \E b \in Bundles : save_bundle(o, b)
  BY Zenon DEF revalidate_evidence
<1>5. NodeTransaction(o, st)
  BY <1>4 DEF NodeTransaction
<1>6. NodeStep(o)
  BY <1>2, <1>4, <1>5, TransactionStep
<1>7. status'[o] # "absent" /\ Saved(st, evidence'[o])
  BY <1>6, SoundState
<1>8. CASE fail(o)
  BY <1>1, <1>2, <1>3, <1>6, <1>8, Landing
<1>9. CASE ~ fail(o)
  <2>5. PICK b \in Bundles, verdict \in {"proceed", "abort", "escalate"} :
            LET plan == PlanOf[b]
                binding == build_approval_binding(b, plan)
                route == verification_route(plan, verdict,
                                            binding_facts(binding) = binding_facts(st.binding))
                refreshed == [st EXCEPT !.evidence = b, !.plan = plan, !.binding = binding]
            IN  /\ save_bundle(o, b)
                /\ leave(o, route, IF route = "reapproval" THEN refreshed ELSE st)
    BY <1>9, Zenon DEF revalidate_evidence
  <2>6. PICK plan, binding, matches, route, refreshed :
            /\ plan = PlanOf[b] /\ binding = build_approval_binding(b, plan)
            /\ matches = (binding_facts(binding) = binding_facts(st.binding))
            /\ route = verification_route(plan, verdict, matches)
            /\ refreshed = [st EXCEPT !.evidence = b, !.plan = plan, !.binding = binding]
    OBVIOUS
  <2>1. /\ plan = PlanOf[b] /\ binding = build_approval_binding(b, plan)
        /\ route = verification_route(plan, verdict, matches)
        /\ refreshed = [st EXCEPT !.evidence = b, !.plan = plan, !.binding = binding]
        /\ save_bundle(o, b)
        /\ leave(o, route, IF route = "reapproval" THEN refreshed ELSE st)
    BY <2>5, <2>6
  <2>2. /\ route \in {"abort", "reapproval", "proceed", "failure"}
        /\ route = "reapproval" => plan # NoValue
    BY <2>1 DEF verification_route, choose_verification_route
  <2>3. CASE route = "reapproval"
    <3>1. plan \in Plans
      BY <2>1, <2>2, <2>3, StoreAssumption
    <3>2. binding \in Bindings
      BY <2>1, <3>1 DEF build_approval_binding, Bindings
    <3>3. /\ refreshed \in GraphStates /\ refreshed.evidence = b /\ refreshed.plan = plan
          /\ refreshed.binding = binding
      BY <1>2, <2>1, <3>1, <3>2 DEF GraphStates
    <3>4. IsBound(refreshed)
      BY <2>1, <3>1, <3>3 DEF IsBound
    <3>5. Saved(refreshed, evidence'[o])
      BY <1>2, <2>1, <3>3 DEF Saved, save_bundle, ScenarioTypeOK
    <3>6. Sound(o, "mark_needs_reapproval", refreshed)
      BY <1>7, <3>3, <3>4, <3>5, SoundPlaces DEF BoundRoles, ExecutionRoles
    <3>7. leave(o, route, refreshed)
      BY <2>1, <2>3
    <3> QED
      BY <1>1, <1>3, <1>6, <2>3, <3>3, <3>6, <3>7, Landing
  <2>4. CASE route # "reapproval"
    <3>1. leave(o, route, st)
      BY <2>1, <2>4
    <3>2. Sound(o, "mark_executing", st) /\ Sound(o, "mark_verifier_aborted", st)
      BY <1>2, <1>7, SoundPlaces DEF BoundRoles, DecidedRoles, ExecutionRoles
    <3>3. Sound(o, "mark_failed", st)
      BY <1>6, SoundState, FreeRoleNames
    <3>4. \E next : Leads(o, run[o].node, route, next) /\ Sound(o, next, st)
      BY <1>3, <2>2, <2>4, <3>2, <3>3
    <3> QED
      BY <1>1, <1>2, <1>6, <3>1, <3>4, Landing
  <2> QED
    BY <2>3, <2>4
<1> QED
  BY <1>8, <1>9

\* Another approval is asked for with the refreshed binding.
LEMMA ReapprovalNode ==
    ASSUME GraphInv, NEW o \in Operations, graph_mark_needs_reapproval(o)
    PROVE  NodeStep(o) /\ NodeLands(o)
<1> DEFINE st == run[o].state
<1> DEFINE Around == UNCHANGED processVars /\ (faults' = faults \/ fault) /\ evidence' = evidence
<1>1. at(o, "mark_needs_reapproval") /\ Around /\ "mark_needs_reapproval" \in Roles
  BY RoleNames DEF graph_mark_needs_reapproval, Transition
<1>2. /\ run[o] # NoValue /\ st \in GraphStates /\ IsBound(st)
      /\ Role(o, run[o].node) = "mark_needs_reapproval" /\ Edges(o, run[o].node)
  BY <1>1, RunningPlace DEF PlaceOK, BoundRoles
<1>3. PICK open : open = [st EXCEPT !.approval = NoValue]
  OBVIOUS
<1>4. /\ \/ mark_needs_reapproval(o, st.approval, st.evidence, st.plan, st.binding,
                                  now + ApprovalTtl)
         \/ UNCHANGED storeVars
      /\ leave(o, "continue", open) \/ raise(o, "raised") \/ raise(o, "conflict")
  BY <1>3, Zenon DEF graph_mark_needs_reapproval, Transition
<1>5. NodeTransaction(o, st)
  BY <1>2, <1>4 DEF NodeTransaction
<1>6. NodeStep(o)
  BY <1>1, <1>2, <1>5, TransactionStep
<1>7. status'[o] # "absent" /\ Saved(st, evidence'[o])
  BY <1>6, SoundState
<1>8. /\ open \in GraphStates /\ open.evidence = st.evidence /\ open.plan = st.plan
      /\ open.binding = st.binding
  BY <1>2, <1>3 DEF GraphStates
<1>9. IsBound(open) /\ Saved(open, evidence'[o])
  BY <1>2, <1>7, <1>8 DEF IsBound, Saved
<1>10. Sound(o, "request_reapproval", open)
  BY <1>7, <1>8, <1>9, SoundPlaces DEF BoundRoles, StopRoles, ExecutionRoles
<1>11. Leads(o, run[o].node, "continue", "request_reapproval")
  BY <1>2 DEF Edges
<1> QED
  BY <1>1, <1>4, <1>6, <1>8, <1>10, <1>11, Landing

\* The execution begins with its commit.
LEMMA ExecutingNode ==
    ASSUME GraphInv, NEW o \in Operations, graph_mark_executing(o)
    PROVE  NodeStep(o) /\ NodeLands(o)
<1> DEFINE st == run[o].state
<1> DEFINE Around == UNCHANGED processVars /\ (faults' = faults \/ fault) /\ evidence' = evidence
<1>1. at(o, "mark_executing") /\ Around /\ "mark_executing" \in Roles
  BY RoleNames DEF graph_mark_executing, Transition
<1>2. /\ run[o] # NoValue /\ st \in GraphStates /\ IsBound(st)
      /\ Role(o, run[o].node) = "mark_executing" /\ Edges(o, run[o].node)
  BY <1>1, RunningPlace DEF PlaceOK, BoundRoles, DecidedRoles
<1>3. /\ mark_executing(o, st.approval) \/ UNCHANGED storeVars
      /\ \/ /\ leave(o, "continue", st)
            /\ \/ mark_executing(o, st.approval)
               \/ status[o] = "executing" /\ UNCHANGED storeVars
         \/ raise(o, "raised") \/ raise(o, "conflict")
  BY Zenon DEF graph_mark_executing, Transition, replayed
<1>4. NodeTransaction(o, st)
  BY <1>3 DEF NodeTransaction
<1>5. NodeStep(o)
  BY <1>1, <1>2, <1>4, TransactionStep
<1>6. status'[o] # "absent" /\ Saved(st, evidence'[o])
  BY <1>5, SoundState
<1>7. Leads(o, run[o].node, "continue", "execute_work_order")
  BY <1>2 DEF Edges
<1>8. CASE leave(o, "continue", st) /\ mark_executing(o, st.approval)
  <2>1. status'[o] \in AfterExecution
    BY <1>8 DEF mark_executing, transition, AfterExecution, GraphInv, TypeOK
  <2>2. Sound(o, "execute_work_order", st)
    BY <1>2, <1>6, <2>1, SoundPlaces DEF ExecutionRoles
  <2> QED
    BY <1>1, <1>2, <1>5, <1>7, <1>8, <2>2, Landing
<1>9. CASE leave(o, "continue", st) /\ status[o] = "executing" /\ UNCHANGED storeVars
  <2>1. status'[o] \in AfterExecution
    BY <1>9 DEF AfterExecution, storeVars, opVars
  <2>2. Sound(o, "execute_work_order", st)
    BY <1>2, <1>6, <2>1, SoundPlaces DEF ExecutionRoles
  <2> QED
    BY <1>1, <1>2, <1>5, <1>7, <1>9, <2>2, Landing
<1>10. CASE raise(o, "raised") \/ raise(o, "conflict")
  BY <1>1, <1>2, <1>5, <1>10, Landing
<1> QED
  BY <1>3, <1>8, <1>9, <1>10

\* The controlled write, of the plan of the state.
LEMMA WriteNode ==
    ASSUME GraphInv, NEW o \in Operations, execute_work_order(o)
    PROVE  NodeStep(o) /\ NodeLands(o)
<1> DEFINE st == run[o].state
<1>1. at(o, "execute_work_order") /\ "execute_work_order" \in Roles
  BY RoleNames DEF execute_work_order
<1>2. /\ run[o] # NoValue /\ st \in GraphStates /\ IsBound(st) /\ status[o] \in AfterExecution
      /\ Role(o, run[o].node) = "execute_work_order" /\ Edges(o, run[o].node)
      /\ ScenarioTypeOK
  BY <1>1, RunningPlace DEF PlaceOK, BoundRoles, ExecutionRoles
<1>3. PICK written, done : /\ written = [op |-> o, payload |-> st.plan]
                           /\ done = [st EXCEPT !.work = written]
  OBVIOUS
<1>4. /\ UNCHANGED processVars /\ evidence' = evidence
      /\ faults' = faults \/ fault
      /\ create_or_get(o, st.plan) \/ UNCHANGED storeVars
      /\ leave(o, "continue", done) \/ fail(o)
  BY <1>3, Zenon DEF execute_work_order
<1>5. OpStep(o)
  BY <1>2, <1>4 DEF OpStep, ExecutionNext, IsBound
<1>6. /\ approvals' = approvals /\ snapshot'[o].evidence = snapshot[o].evidence
      /\ workOrders' = workOrders \/ create_or_get(o, st.plan)
  BY <1>4 DEF create_or_get, storeVars, opVars
<1>7. faults' \in faults .. MaxFaults
  BY <1>2, <1>4, ScenarioAssumption DEF ScenarioTypeOK, fault
<1>8. NodeStep(o)
  BY <1>2, <1>4, <1>5, <1>6, <1>7 DEF NodeStep, ScenarioTypeOK
<1>9. status'[o] # "absent" /\ Saved(st, evidence'[o]) /\ status'[o] \in AfterExecution
  BY <1>2, <1>8, SoundState
<1>10. written \in WorkOrderRows
  BY <1>2, <1>3 DEF IsBound, WorkOrderRows
<1>11. /\ done \in GraphStates /\ done.evidence = st.evidence /\ done.plan = st.plan
       /\ done.binding = st.binding
  BY <1>2, <1>3, <1>10 DEF GraphStates
<1>12. IsBound(done) /\ Saved(done, evidence'[o])
  BY <1>2, <1>9, <1>11 DEF IsBound, Saved
<1>13. Sound(o, "mark_verifying", done)
  BY <1>9, <1>11, <1>12, SoundPlaces DEF ExecutionRoles
<1>14. /\ Leads(o, run[o].node, "continue", "mark_verifying")
       /\ Leads(o, run[o].node, "failure", "mark_failed")
  BY <1>2 DEF Edges
<1> QED
  BY <1>1, <1>4, <1>8, <1>11, <1>13, <1>14, Landing

\* What follows the write.
LEMMA VerifyNodes ==
    ASSUME GraphInv, NEW o \in Operations, graph_mark_verifying(o) \/ verify_work_order(o)
    PROVE  NodeStep(o) /\ NodeLands(o)
<1> DEFINE st == run[o].state
<1> DEFINE Around == UNCHANGED processVars /\ (faults' = faults \/ fault) /\ evidence' = evidence
<1>1. CASE graph_mark_verifying(o)
  <2>1. at(o, "mark_verifying") /\ Around /\ "mark_verifying" \in Roles
    BY <1>1, RoleNames DEF graph_mark_verifying, Transition
  <2>2. /\ run[o] # NoValue /\ st \in GraphStates /\ IsBound(st) /\ status[o] \in AfterExecution
        /\ Role(o, run[o].node) = "mark_verifying" /\ Edges(o, run[o].node)
    BY <2>1, RunningPlace DEF PlaceOK, BoundRoles, ExecutionRoles
  <2>3. /\ mark_verifying(o, st.work) \/ UNCHANGED storeVars
        /\ leave(o, "continue", st) \/ raise(o, "raised") \/ raise(o, "conflict")
    BY <1>1, Zenon DEF graph_mark_verifying, Transition
  <2>4. NodeTransaction(o, st)
    BY <2>3 DEF NodeTransaction
  <2>5. NodeStep(o)
    BY <2>1, <2>2, <2>4, TransactionStep
  <2>6. status'[o] # "absent" /\ Saved(st, evidence'[o]) /\ status'[o] \in AfterExecution
    BY <2>2, <2>5, SoundState
  <2>7. Sound(o, "verify_work_order", st)
    BY <2>2, <2>6, SoundPlaces DEF ExecutionRoles
  <2>8. Leads(o, run[o].node, "continue", "verify_work_order")
    BY <2>2 DEF Edges
  <2> QED
    BY <2>1, <2>2, <2>3, <2>5, <2>7, <2>8, Landing
<1>2. CASE verify_work_order(o)
  <2>1. at(o, "verify_work_order") /\ Around /\ "verify_work_order" \in Roles
        /\ UNCHANGED storeVars
    BY <1>2, RoleNames DEF verify_work_order, Reading
  <2>2. /\ run[o] # NoValue /\ st \in GraphStates /\ IsBound(st) /\ status[o] \in AfterExecution
        /\ Role(o, run[o].node) = "verify_work_order" /\ Edges(o, run[o].node)
    BY <2>1, RunningPlace DEF PlaceOK, BoundRoles, ExecutionRoles
  <2>3. leave(o, "continue", st) \/ fail(o)
    BY <1>2, Zenon DEF verify_work_order, Reading
  <2>4. NodeTransaction(o, st)
    BY <2>1 DEF NodeTransaction
  <2>5. NodeStep(o)
    BY <2>1, <2>2, <2>4, TransactionStep
  <2>6. status'[o] # "absent" /\ Saved(st, evidence'[o]) /\ status'[o] \in AfterExecution
    BY <2>2, <2>5, SoundState
  <2>7. Sound(o, "mark_completed", st)
    BY <2>2, <2>6, SoundPlaces DEF ExecutionRoles
  <2>8. /\ Leads(o, run[o].node, "continue", "mark_completed")
        /\ Leads(o, run[o].node, "failure", "mark_failed")
    BY <2>2 DEF Edges
  <2> QED
    BY <2>1, <2>2, <2>3, <2>5, <2>7, <2>8, Landing
<1> QED
  BY <1>1, <1>2

\* A node that does not end its coroutine.
NodeAction(o) ==
    \/ agent_investigation(o) \/ parse_request(o) \/ mark_gathering(o)
    \/ gather_evidence(o) \/ gather_record_evidence(o) \/ calculate_assessment(o)
    \/ record_normal_plan(o) \/ graph_record_query_assessment(o)
    \/ graph_mark_reporting(o) \/ graph_complete_without_replenishment(o)
    \/ explain_plan(o) \/ build_and_validate_plan(o) \/ record_low_plan(o)
    \/ prepare_approval(o) \/ graph_mark_rejected(o) \/ revalidate_evidence(o)
    \/ graph_mark_needs_reapproval(o) \/ graph_mark_verifier_aborted(o)
    \/ graph_mark_executing(o) \/ execute_work_order(o) \/ graph_mark_verifying(o)
    \/ verify_work_order(o) \/ graph_mark_completed(o) \/ graph_mark_failed(o)

LEMMA NodesLand ==
    ASSUME GraphInv, NEW o \in Operations, NodeAction(o)
    PROVE  NodeStep(o) /\ NodeLands(o)
BY FreeNodes, AgentNode, GatherNode, GatherRecordNode, AssessmentNode, PlanNodes,
   BindingNodes, RevalidateNode, ReapprovalNode, ExecutingNode, WriteNode, VerifyNodes
   DEF NodeAction

\* Every node preserves the invariant.
LEMMA NodesKeep ==
    ASSUME GraphInv, NEW o \in Operations, NodeAction(o)
    PROVE  [Next]_storeVars /\ GraphInv'
BY NodesLand, NodeKeeps

-----------------------------------------------------------------------------
(* The rest of the process *)

\* Facts that stay where they are stay saved.
LEMMA FactsKept ==
    ASSUME NEW q, FactsSaved(q), evidence' = evidence, approvals' = approvals,
           snapshot'[q].evidence = snapshot[q].evidence
    PROVE  FactsSaved(q)'
BY DEF FactsSaved, Saved

\* Operations that exist go on existing.
LEMMA ProcessStep ==
    ASSUME GraphInv, [Next]_storeVars, todo' \subseteq todo,
           boot' \in {"down", "expiring"} => \A q \in Operations : run'[q] = NoValue
    PROVE  ProcessOK'
<1> SUFFICES ASSUME NEW q \in todo' PROVE status'[q] # "absent"
  BY DEF ProcessOK
<1>1. q \in Operations /\ status[q] # "absent" /\ TypeOK
  BY DEF GraphInv, ScenarioTypeOK, ProcessOK
<1>2. StoreMoves(q)
  BY <1>1, NextMoves
<1> QED
  BY <1>1, <1>2 DEF StoreMoves

\* A step of the process outside the nodes: it may move the threads, and one
\* row, but saves no evidence and writes no work order.
LEMMA OutsideStep ==
    ASSUME GraphInv, [Next]_storeVars, TypesNext, ProcessOK',
           evidence' = evidence, workOrders' = workOrders,
           \A q \in Operations : ThreadOK(q) /\ DecidedOK(q)' /\ FactsSaved(q)'
    PROVE  GraphInv'
BY InvStep, OrdersStay

\* A step that moves the thread of o only, in an unchanged phase.
LEMMA OneThread ==
    ASSUME GraphInv, NEW o \in Operations, [Next]_storeVars,
           run' \in [Operations -> Runs \cup {NoValue}],
           ckpt' \in [Operations -> Checkpoints \cup {NoValue}],
           lag' \in [Operations -> 0 .. MaxLag],
           decided' \in [Operations -> ApprovalRows \cup {NoValue}],
           capturing' \subseteq Operations, faults' \in 0 .. MaxFaults,
           UNCHANGED <<evidence, workOrders, agent, boot, crashes, setBack>>, todo' \subseteq todo,
           ThreadOK(o), DecidedOK(o)', FactsSaved(o)',
           \A q \in Operations : q # o =>
               /\ run'[q] = run[q] /\ ckpt'[q] = ckpt[q] /\ decided'[q] = decided[q]
               /\ FactsSaved(q)',
           boot \in {"down", "expiring"} => run'[o] = NoValue
    PROVE  GraphInv'
<1>1. TypesNext
  BY DEF TypesNext, GraphInv, ScenarioTypeOK
<1>2. ProcessOK'
  BY ProcessStep DEF GraphInv, ProcessOK
<1>3. ASSUME NEW q \in Operations PROVE ThreadOK(q) /\ DecidedOK(q)' /\ FactsSaved(q)'
  <2>1. CASE q = o
    BY <2>1
  <2>2. CASE q # o
    <3>1. ThreadOK(q)
      BY <2>2, ThreadKept
    <3>2. DecidedOK(q)'
      BY <2>2 DEF GraphInv, DecidedOK, interrupted
    <3> QED
      BY <2>2, <3>1, <3>2
  <2> QED
    BY <2>1, <2>2
<1> QED
  BY <1>1, <1>2, <1>3, OutsideStep

\* A step that leaves the threads alone and takes a transaction that keeps
\* the evidence of the rows.
LEMMA RowsOnly ==
    ASSUME GraphInv, [Next]_storeVars, UNCHANGED <<evidence, workOrders, approvals, run, ckpt, lag>>,
           \A q \in Operations : snapshot'[q].evidence = snapshot[q].evidence,
           UNCHANGED <<agent, decided, boot, crashes, setBack>>, todo' \subseteq todo,
           capturing' \subseteq Operations, faults' \in 0 .. MaxFaults
    PROVE  GraphInv'
<1>1. TypesNext
  BY DEF TypesNext, GraphInv, ScenarioTypeOK
<1>2. ProcessOK'
  BY ProcessStep DEF GraphInv, ProcessOK
<1>3. ASSUME NEW q \in Operations PROVE ThreadOK(q) /\ DecidedOK(q)' /\ FactsSaved(q)'
  <2>1. ThreadOK(q)
    BY ThreadKept
  <2>2. DecidedOK(q)'
    BY DEF GraphInv, DecidedOK, interrupted
  <2>3. FactsSaved(q)'
    BY FactsKept DEF GraphInv
  <2> QED
    BY <2>1, <2>2, <2>3
<1> QED
  BY <1>1, <1>2, <1>3, OutsideStep

\* The end of an operation by hand of a caller.
LEMMA FailedStep ==
    ASSUME TypeOK, NEW o \in Operations,
           (\E e \in Errors : mark_failed(o, e)) \/ mark_start_failed(o) \/ UNCHANGED storeVars
    PROVE  /\ [Next]_storeVars
           /\ UNCHANGED <<workOrders, approvals>>
           /\ \A q \in Operations : snapshot'[q].evidence = snapshot[q].evidence
<1>1. (\E e \in Errors : mark_failed(o, e)) \/ UNCHANGED storeVars
  BY DEF mark_start_failed
<1>2. [Next]_storeVars
  BY <1>1 DEF Next, ExecutionNext
<1> QED
  BY <1>1, <1>2 DEF mark_failed, transition, storeVars, opVars

\* load_detail returns for every operation that exists.
LEMMA InvLoads ==
    ASSUME GraphInv, NEW o \in Operations, status[o] # "absent"
    PROVE  load_detail_succeeds(o)
<1>1. approval_view_valid(o)
  BY DEF GraphInv, DecisionInv, DecisionBindsSnapshot, approval_view_valid, detail_approval,
         current_approval
<1>2. ResultOK(o) /\ (work_order_of(o) # {} => status[o] \in AfterExecution)
  BY DEF GraphInv, OrdersAfterExecution
<1>3. terminal_payloads_valid(o)
  BY <1>2 DEF ResultOK, AfterExecution, terminal_payloads_valid
<1> QED
  BY <1>1, <1>3 DEF load_detail_succeeds


\* The graph stops in the interrupt, or does not come so far: the node is then
\* one that fails or raises.  With its row in order only a failing call keeps
\* it from the interrupt.
Stops(o) ==
    /\ at(o, "request_approval") \/ at(o, "request_reapproval")
    /\ interrupt(o)
    /\ UNCHANGED <<storeVars, evidence, agent, decided, boot, todo, faults, crashes, setBack>>

LEMMA RequestCases ==
    ASSUME GraphInv, NEW o \in Operations, request_approval(o)
    PROVE  \/ Stops(o)
           \/ /\ NodeStep(o) /\ NodeLands(o) /\ UNCHANGED storeVars
              /\ Raises(o) \/ Goes(o, "mark_failed", run[o].state)
              /\ faults' = faults \/ fault
              /\ status[o] \in AwaitingDecision \cup {"resuming"} => fault
<1>1. PICK role \in StopRoles : at(o, role)
  BY DEF request_approval, StopRoles
<1>2. role \in Roles
  BY <1>1, RoleNames DEF StopRoles
<1>3. /\ run[o] # NoValue /\ TableOK(o) /\ ScenarioTypeOK /\ run[o].node \in NodesOf(o)
      /\ Role(o, run[o].node) = role /\ run[o].state \in GraphStates
      /\ PlaceOK(role, run[o].state, status[o]) /\ Edges(o, run[o].node)
  BY <1>1, <1>2, RunningPlace
<1>4. Leads(o, run[o].node, "failure", "mark_failed")
  BY <1>1, <1>3 DEF Edges, StopRoles
<1>5. load_detail_succeeds(o)
  BY <1>3, InvLoads DEF PlaceOK
<1>6. CASE /\ \/ expires[o] = NoValue /\ fail(o) /\ UNCHANGED faults
              \/ fault /\ raise(o, "raised")
           /\ UNCHANGED capturing
  <2>1. UNCHANGED storeVars /\ UNCHANGED processVars /\ evidence' = evidence
    BY <1>6 DEF request_approval, processVars
  <2>2. faults' = faults \/ fault
    BY <1>6
  <2>3. NodeTransaction(o, run[o].state)
    BY <2>1 DEF NodeTransaction
  <2>4. NodeStep(o)
    BY <1>3, <2>1, <2>2, <2>3, TransactionStep
  <2>5. NodeLands(o)
    BY <1>1, <1>2, <1>3, <1>4, <1>6, <2>4, Landing
  <2>6. Raises(o) \/ Goes(o, "mark_failed", run[o].state)
    BY <1>3, <1>4, <1>6, RaiseRaises, LeaveGoes DEF fail
  <2>7. status[o] \in AwaitingDecision \cup {"resuming"} => fault
    BY <1>6 DEF GraphInv, DeadlineOK
  <2> QED
    BY <2>1, <2>2, <2>4, <2>5, <2>6, <2>7
<1> QED
  BY <1>5, <1>6 DEF request_approval, Stops

\* The interrupt: the place is the last saved one.
LEMMA InterruptPlace ==
    ASSUME GraphInv, NEW o \in Operations, Stops(o)
    PROVE  /\ run[o] # NoValue /\ run[o].node \in NodesOf(o)
           /\ Role(o, run[o].node) \in StopRoles
           /\ run' \in [Operations -> Runs \cup {NoValue}]
           /\ ckpt' \in [Operations -> Checkpoints \cup {NoValue}]
           /\ lag' \in [Operations -> 0 .. MaxLag]
           /\ \A q \in Operations : q # o =>
                 run'[q] = run[q] /\ ckpt'[q] = ckpt[q] /\ lag'[q] = lag[q]
           /\ ckpt'[o] # NoValue /\ ckpt'[o].interrupted /\ lag'[o] = 0
           /\ ckpt'[o].node = run[o].node /\ ckpt'[o].state = run[o].state
           /\ run'[o] # NoValue =>
                 run'[o].node = "resume_decision" /\ run'[o].state = run[o].state
<1>1. PICK role \in StopRoles : at(o, role)
  BY DEF Stops, StopRoles
<1>2. role \in Roles
  BY <1>1, RoleNames DEF StopRoles
<1>3. /\ run[o] # NoValue /\ TableOK(o) /\ ScenarioTypeOK /\ run[o].node \in NodesOf(o)
      /\ Role(o, run[o].node) = role /\ run[o].state \in GraphStates
  BY <1>1, <1>2, RunningPlace
<1>4. PICK n, st : n = run[o].node /\ st = run[o].state
  OBVIOUS
<1>5. PICK c, d : c = checkpoint(n, st) /\ d = [c EXCEPT !.interrupted = TRUE]
  OBVIOUS
<1>6. c \in Checkpoints /\ c.node = n /\ c.state = st
  BY <1>3, <1>4, <1>5, CheckpointType DEF TableOK, checkpoint
<1>7. d \in Checkpoints /\ d.node = n /\ d.state = st /\ d.interrupted /\ d # NoValue
  BY <1>5, <1>6, NoThreadAssumption DEF Checkpoints
<1>8. ckpt' = [ckpt EXCEPT ![o] = d] /\ lag' = [lag EXCEPT ![o] = 0]
  BY <1>4, <1>5 DEF Stops, interrupt
<1>9. /\ ckpt' \in [Operations -> Checkpoints \cup {NoValue}]
      /\ lag' \in [Operations -> 0 .. MaxLag] /\ ckpt'[o] = d /\ lag'[o] = 0
      /\ \A q \in Operations : q # o => ckpt'[q] = ckpt[q] /\ lag'[q] = lag[q]
  BY <1>3, <1>7, <1>8, ScenarioAssumption DEF ScenarioTypeOK
<1>10. /\ run' \in [Operations -> Runs \cup {NoValue}]
       /\ \A q \in Operations : q # o => run'[q] = run[q]
       /\ run'[o] # NoValue => run'[o].node = "resume_decision" /\ run'[o].state = st
  <2>1. CASE run' = [run EXCEPT ![o].node = "resume_decision"]
    <3>1. "resume_decision" \in Nodes \cup Positions
      BY DEF Positions
    <3> QED
      BY <1>3, <1>4, <2>1, <3>1, StandsHere DEF Stands
  <2>2. CASE run' = [run EXCEPT ![o] = NoValue]
    BY <1>3, <2>2 DEF ScenarioTypeOK
  <2> QED
    BY <2>1, <2>2 DEF Stops, interrupt
<1> QED
  BY <1>1, <1>3, <1>4, <1>7, <1>9, <1>10

LEMMA StopKeeps ==
    ASSUME GraphInv, NEW o \in Operations, Stops(o)
    PROVE  [Next]_storeVars /\ GraphInv'
<1>1. PICK role \in StopRoles : at(o, role)
  BY DEF Stops, StopRoles
<1>2. /\ run[o] # NoValue /\ TableOK(o) /\ ScenarioTypeOK
      /\ Role(o, run[o].node) = role /\ PlaceOK(role, run[o].state, status[o])
      /\ Saved(run[o].state, evidence[o])
  BY <1>1, RunningPlace
<1>3. PICK n, st : n = run[o].node /\ st = run[o].state
  OBVIOUS
<1>4. UNCHANGED storeVars
  BY DEF Stops
<1>5. /\ n \in NodesOf(o) /\ ckpt' \in [Operations -> Checkpoints \cup {NoValue}]
      /\ lag' \in [Operations -> 0 .. MaxLag] /\ ckpt'[o] # NoValue
      /\ ckpt'[o].node = n /\ ckpt'[o].state = st /\ ckpt'[o].interrupted
      /\ \A q \in Operations : q # o => ckpt'[q] = ckpt[q]
  BY <1>3, InterruptPlace
<1>6. /\ run' \in [Operations -> Runs \cup {NoValue}]
      /\ \A q \in Operations : q # o => run'[q] = run[q]
      /\ run'[o] # NoValue => run'[o].node = "resume_decision" /\ run'[o].state = st
  BY <1>3, InterruptPlace
<1>7. Role(o, "resume_decision") = "resume_decision" /\ "resume_decision" \in Positions
  BY DEF Role, Positions
<1>8. UNCHANGED <<status, evidence, approvals, snapshot, workOrders>>
  BY <1>4 DEF storeVars, opVars, Stops
<1>9. PlaceNext(o, n, st) /\ PlaceNext(o, "resume_decision", st)
  BY <1>2, <1>3, <1>7, <1>8 DEF PlaceNext, PlaceOK, EvidenceRoles, PlannedRoles, BoundRoles,
       StopRoles, DecidedRoles, ExecutionRoles
<1>10. RunNext(o) /\ CkptNext(o)
  BY <1>1, <1>2, <1>3, <1>5, <1>6, <1>7, <1>9 DEF RunNext, CkptNext
<1>11. status[o] # "absent" /\ TypeOK
  BY <1>2 DEF PlaceOK, GraphInv
<1>12. ThreadOK(o)
  BY <1>4, <1>10, <1>11, ThreadNext
<1>13. decided[o] = NoValue /\ UNCHANGED <<decided, boot, todo, faults, agent, crashes, setBack>>
       /\ capturing' \subseteq Operations
  BY <1>2 DEF Stops, interrupt, GraphInv, DecidedOK, ScenarioTypeOK
<1>14. DecidedOK(o)'
  BY <1>13 DEF DecidedOK
<1>15. \A q \in Operations : FactsSaved(q)'
  BY <1>8, FactsKept DEF GraphInv
<1>16. boot \notin {"down", "expiring"}
  BY <1>2 DEF GraphInv, ProcessOK
<1>17. decided' \in [Operations -> ApprovalRows \cup {NoValue}] /\ faults' \in 0 .. MaxFaults
  BY <1>2, <1>13 DEF ScenarioTypeOK
<1> QED
  BY <1>4, <1>5, <1>6, <1>8, <1>12, <1>13, <1>14, <1>15, <1>16, <1>17, OneThread

LEMMA InterruptKeeps ==
    ASSUME GraphInv, NEW o \in Operations, request_approval(o)
    PROVE  [Next]_storeVars /\ GraphInv'
BY RequestCases, StopKeeps, NodeKeeps

\* The end of a graph: its last checkpoint is saved, if it has one at all.
LEMMA EndKeeps ==
    ASSUME GraphInv, NEW o \in Operations, graph_end(o)
    PROVE  [Next]_storeVars /\ GraphInv'
<1>1. /\ run[o] # NoValue /\ TableOK(o) /\ ScenarioTypeOK
      /\ PlaceOK("END", run[o].state, status[o])
      /\ Saved(run[o].state, evidence[o]) /\ run[o].state \in GraphStates
  BY RunningPlace DEF graph_end
<1>2. PICK st, c : st = run[o].state /\ c = checkpoint("END", st)
  OBVIOUS
<1>3. c \in Checkpoints /\ c.node = "END" /\ c.state = st /\ ~ c.interrupted
  BY <1>1, <1>2, CheckpointType DEF checkpoint
<1>4. ckpt' = ckpt \/ ckpt' = [ckpt EXCEPT ![o] = c]
  BY <1>2 DEF graph_end
<1>5. run' = [run EXCEPT ![o] = NoValue] /\ lag' = [lag EXCEPT ![o] = 0] /\ UNCHANGED storeVars
  BY DEF graph_end
<1>6. /\ run' \in [Operations -> Runs \cup {NoValue}] /\ run'[o] = NoValue
      /\ \A q \in Operations : q # o => run'[q] = run[q]
      /\ lag' \in [Operations -> 0 .. MaxLag]
  BY <1>1, <1>5, ScenarioAssumption DEF ScenarioTypeOK
<1>7. /\ ckpt' \in [Operations -> Checkpoints \cup {NoValue}]
      /\ ckpt'[o] = ckpt[o] \/ ckpt'[o] = c
      /\ \A q \in Operations : q # o => ckpt'[q] = ckpt[q]
  BY <1>1, <1>3, <1>4 DEF ScenarioTypeOK
<1>8. UNCHANGED <<status, evidence, approvals, snapshot, workOrders>>
  BY <1>5 DEF storeVars, opVars, graph_end
<1>9. Role(o, "END") = "END"
  BY DEF Role, Positions
<1>10. PlaceNext(o, "END", st)
  BY <1>1, <1>2, <1>8, <1>9 DEF PlaceNext
<1>11. StoreMoves(o) /\ TypeOK /\ CkptOK(o)
  BY <1>5, NextMoves DEF GraphInv
<1>12. CkptNext(o)
  <2>1. CASE ckpt'[o] = ckpt[o]
    BY <1>8, <1>11, <2>1, CkptStays
  <2>2. CASE ckpt'[o] = c
    BY <1>3, <1>10, <2>2 DEF CkptNext
  <2> QED
    BY <1>7, <2>1, <2>2
<1>13. RunNext(o)
  BY <1>6 DEF RunNext
<1>14. status[o] # "absent"
  BY <1>1 DEF PlaceOK
<1>15. ThreadOK(o)
  BY <1>5, <1>11, <1>12, <1>13, <1>14, ThreadNext
<1>16. decided[o] = NoValue /\ UNCHANGED <<decided, boot, todo, faults, agent, crashes, setBack>>
       /\ capturing' \subseteq Operations
  BY <1>1 DEF graph_end, GraphInv, DecidedOK, ScenarioTypeOK
<1>17. DecidedOK(o)'
  BY <1>16 DEF DecidedOK
<1>18. \A q \in Operations : FactsSaved(q)'
  BY <1>8, FactsKept DEF GraphInv
<1>19. decided' \in [Operations -> ApprovalRows \cup {NoValue}] /\ faults' \in 0 .. MaxFaults
  BY <1>1, <1>16 DEF ScenarioTypeOK
<1> QED
  BY <1>5, <1>6, <1>7, <1>8, <1>15, <1>16, <1>17, <1>18, <1>19, OneThread

\* The exception reaches the caller, who ends the operation or lets it be.
LEMMA ExceptionKeeps ==
    ASSUME GraphInv, NEW o \in Operations, handle_exception(o)
    PROVE  [Next]_storeVars /\ GraphInv'
<1>1. run[o] # NoValue /\ TypeOK /\ ScenarioTypeOK /\ RunOK(o) /\ CkptOK(o)
  BY DEF handle_exception, at, GraphInv
<1>2. mark_start_failed(o) \/ UNCHANGED storeVars
  BY DEF handle_exception
<1>3. /\ [Next]_storeVars /\ UNCHANGED <<workOrders, approvals>>
      /\ \A q \in Operations : snapshot'[q].evidence = snapshot[q].evidence
  BY <1>1, <1>2, FailedStep
<1>4. /\ UNCHANGED <<evidence, ckpt, faults, agent, decided, capturing, boot, todo, crashes,
                     setBack>>
      /\ run' = [run EXCEPT ![o] = NoValue] /\ lag' = [lag EXCEPT ![o] = 0]
  BY DEF handle_exception, processVars
<1>5. /\ run' \in [Operations -> Runs \cup {NoValue}] /\ run'[o] = NoValue
      /\ \A q \in Operations : q # o => run'[q] = run[q]
  BY <1>1, <1>4 DEF ScenarioTypeOK
<1>6. status[o] # "absent"
  BY <1>1 DEF RunOK, PlaceOK
<1>7. StoreMoves(o)
  BY <1>1, <1>3, NextMoves
<1>8. RunNext(o) /\ CkptNext(o)
  BY <1>1, <1>4, <1>5, <1>7, CkptStays DEF RunNext
<1>9. ThreadOK(o)
  BY <1>1, <1>3, <1>6, <1>8, ThreadNext
<1>10. DecidedOK(o)'
  BY <1>1, <1>4 DEF GraphInv, DecidedOK
<1>11. \A q \in Operations : FactsSaved(q)'
  BY <1>3, <1>4, FactsKept DEF GraphInv
<1>12. /\ ckpt' \in [Operations -> Checkpoints \cup {NoValue}] /\ lag' \in [Operations -> 0 .. MaxLag]
       /\ decided' \in [Operations -> ApprovalRows \cup {NoValue}] /\ faults' \in 0 .. MaxFaults
       /\ capturing' \subseteq Operations
  BY <1>1, <1>4, ScenarioAssumption DEF ScenarioTypeOK
<1> QED
  BY <1>3, <1>4, <1>5, <1>9, <1>10, <1>11, <1>12, OneThread

\* A coroutine begins at a node with a state.
LEMMA RunType ==
    ASSUME NEW by \in Callers, NEW n \in Nodes \cup Positions, NEW st \in GraphStates
    PROVE  /\ [by |-> by, node |-> n, state |-> st] \in Runs
           /\ [by |-> by, node |-> n, state |-> st] # NoValue
BY NoThreadAssumption DEF Runs

\* A thread that is resumed goes on from its interrupt, with the decision.
LEMMA ResumeThread ==
    ASSUME GraphInv, NEW o \in Operations, interrupted(o),
           NEW a \in ApprovalRows, NEW by \in Callers, resume(o, a, by)
    PROVE  /\ ThreadMoves(o) /\ status[o] # "absent"
           /\ run'[o] # NoValue /\ run'[o].node \in NodesOf(o)
           /\ \E role \in {"mark_rejected", "revalidate_evidence"} : \E st \in GraphStates :
                /\ Role(o, run'[o].node) = role /\ run'[o].state = st /\ run'[o].by = by
                /\ role = "revalidate_evidence" <=> a.decision = "approved"
                /\ st.approval = a /\ st.binding = ckpt[o].state.binding
                /\ st.plan = ckpt[o].state.plan /\ st.evidence = ckpt[o].state.evidence
                /\ PlaceOK(role, st, status[o]) /\ Saved(st, evidence[o])
                /\ Saves(o, run'[o].node, st)
<1>1. CkptOK(o) /\ ckpt[o] # NoValue /\ ScenarioTypeOK /\ RowOK(o)
  BY DEF GraphInv, interrupted
<1>2. /\ ckpt[o].node \in NodesOf(o) \cup {"END"} /\ Role(o, ckpt[o].node) \in StopRoles
      /\ PlaceOK(Role(o, ckpt[o].node), ckpt[o].state, status[o])
      /\ Saved(ckpt[o].state, evidence[o])
  BY <1>1 DEF CkptOK, interrupted
<1>3. status[o] # "absent" /\ ckpt[o].state \in GraphStates /\ IsBound(ckpt[o].state)
  BY <1>2 DEF PlaceOK, BoundRoles
<1>4. TableOK(o)
  BY <1>1, <1>3, Table DEF RowOK
<1>5. ckpt[o].node \in NodesOf(o) /\ Edges(o, ckpt[o].node)
  BY <1>2, <1>4, PlaceNode DEF TableOK, StopRoles
<1>6. /\ Leads(o, ckpt[o].node, "approved", "revalidate_evidence")
      /\ Leads(o, ckpt[o].node, "rejected", "mark_rejected")
  BY <1>2, <1>5 DEF Edges, StopRoles
<1>7. PICK n, st, r : /\ n = graph_edges(o)[ckpt[o].node][a.decision]
                      /\ st = [ckpt[o].state EXCEPT !.approval = a]
                      /\ r = [by |-> by, node |-> n, state |-> st]
  OBVIOUS
<1>8. a.decision \in {"approved", "rejected"}
  BY DEF ApprovalRows, Decisions
<1>9. PICK role \in {"mark_rejected", "revalidate_evidence"} :
          /\ Leads(o, ckpt[o].node, a.decision, role)
          /\ role = "revalidate_evidence" <=> a.decision = "approved"
  BY <1>6, <1>8
<1>10. n \in NodesOf(o) /\ Role(o, n) = role
  BY <1>4, <1>7, <1>9, PlaceNode DEF Leads
<1>11. n \in Nodes /\ n \in Nodes \cup {"END"} /\ n \in Nodes \cup Positions
  BY <1>4, <1>10 DEF TableOK
<1>12. /\ st \in GraphStates /\ st.approval = a /\ st.binding = ckpt[o].state.binding
       /\ st.plan = ckpt[o].state.plan /\ st.evidence = ckpt[o].state.evidence
  BY <1>3, <1>7 DEF GraphStates
<1>13. r \in Runs /\ r # NoValue /\ r.node = n /\ r.state = st /\ r.by = by
  BY <1>7, <1>11, <1>12, RunType
<1>14. run' = [run EXCEPT ![o] = r] /\ save(o, n, st)
  BY <1>7 DEF resume
<1>15. /\ run' \in [Operations -> Runs \cup {NoValue}] /\ run'[o] = r
       /\ \A q \in Operations : q # o => run'[q] = run[q]
  BY <1>1, <1>13, <1>14 DEF ScenarioTypeOK
<1>16. /\ ckpt' \in [Operations -> Checkpoints \cup {NoValue}]
       /\ lag' \in [Operations -> 0 .. MaxLag]
       /\ Saves(o, n, st)
       /\ \A q \in Operations : q # o => ckpt'[q] = ckpt[q] /\ lag'[q] = lag[q]
  BY <1>1, <1>11, <1>12, <1>14, SavesType
<1>17. ThreadMoves(o)
  BY <1>15, <1>16 DEF ThreadMoves
<1>18. IsBound(st) /\ Saved(st, evidence[o])
  BY <1>2, <1>3, <1>12 DEF IsBound, Saved
<1>19. PlaceOK(role, st, status[o])
  BY <1>3, <1>12, <1>18 DEF PlaceOK, EvidenceRoles, PlannedRoles, ExecutionRoles
<1> QED
  BY <1>3, <1>9, <1>10, <1>12, <1>13, <1>15, <1>16, <1>17, <1>18, <1>19

\* What it owes is there.
LEMMA ResumeSound ==
    ASSUME GraphInv, NEW o \in Operations, interrupted(o),
           NEW a \in ApprovalRows, NEW by \in Callers, resume(o, a, by),
           UNCHANGED storeVars, evidence' = evidence
    PROVE  ThreadOK(o) /\ ThreadMoves(o)
<1>1. /\ ThreadMoves(o) /\ status[o] # "absent"
      /\ run'[o] # NoValue /\ run'[o].node \in NodesOf(o)
  BY ResumeThread
<1>2. PICK role, st :
          /\ Role(o, run'[o].node) = role /\ run'[o].state = st
          /\ PlaceOK(role, st, status[o]) /\ Saved(st, evidence[o])
          /\ Saves(o, run'[o].node, st)
  BY ResumeThread
<1>3. PICK n : n = run'[o].node
  OBVIOUS
<1>4. status' = status /\ TypeOK /\ RowOK(o) /\ CkptOK(o)
  BY DEF storeVars, opVars, GraphInv
<1>5. PlaceNext(o, n, st)
  BY <1>2, <1>3, <1>4 DEF PlaceNext
<1>6. TableOK(o)
  BY <1>1, <1>4, Table DEF RowOK
<1>7. n \notin Positions
  BY <1>1, <1>3, <1>6 DEF TableOK
<1>8. RunNext(o)
  BY <1>1, <1>2, <1>3, <1>5, <1>7 DEF RunNext, Positions
<1>9. CkptNext(o)
  <2>1. CASE ckpt'[o] = checkpoint(n, st)
    BY <1>1, <1>3, <1>5, <2>1 DEF CkptNext, checkpoint
  <2>2. CASE ckpt'[o] = ckpt[o]
    <3>1. StoreMoves(o)
      BY <1>4, NextMoves
    <3> QED
      BY <1>4, <2>2, <3>1, CkptStays
  <2> QED
    BY <1>2, <1>3, <2>1, <2>2 DEF Saves
<1> QED
  BY <1>1, <1>4, <1>8, <1>9, ThreadNext

\* A call that fails before the thread is resumed leaves its checkpoint.
LEMMA ResumeRaises ==
    ASSUME GraphInv, NEW o \in Operations, run[o] # NoValue, run[o].node = "resume_decision",
           run' = [run EXCEPT ![o].node = "raised"], UNCHANGED <<ckpt, lag>>,
           UNCHANGED storeVars, evidence' = evidence
    PROVE  ThreadOK(o) /\ ThreadMoves(o) /\ Stands(o, "raised", run[o].state)
<1>1. TypeOK /\ ScenarioTypeOK /\ StoreMoves(o) /\ RunOK(o) /\ CkptOK(o)
  BY NextMoves DEF GraphInv
<1>2. UNCHANGED status
  BY DEF storeVars, opVars
<1>3. "raised" \in Nodes \cup Positions /\ Role(o, "raised") = "raised"
      /\ Role(o, "resume_decision") = "resume_decision" /\ "raised" \in Positions
  BY DEF Positions, Role
<1>4. /\ Stands(o, "raised", run[o].state) /\ run' \in [Operations -> Runs \cup {NoValue}]
      /\ \A q \in Operations : q # o => run'[q] = run[q]
  BY <1>1, <1>3, StandsHere
<1>5. PICK st : st = run[o].state
  OBVIOUS
<1>6. PlaceOK("resume_decision", st, status[o]) /\ Saved(st, evidence[o])
  BY <1>1, <1>3, <1>5 DEF RunOK
<1>7. PlaceNext(o, "raised", st)
  BY <1>2, <1>3, <1>6 DEF PlaceNext, PlaceOK, EvidenceRoles, PlannedRoles, BoundRoles,
     StopRoles, DecidedRoles, ExecutionRoles
<1>8. RunNext(o)
  BY <1>3, <1>4, <1>5, <1>7 DEF RunNext, Stands
<1>9. CkptNext(o)
  BY <1>1, CkptStays
<1>10. status[o] # "absent"
  BY <1>6 DEF PlaceOK
<1> QED
  BY <1>1, <1>4, <1>8, <1>9, <1>10, ThreadNext DEF ThreadMoves, ScenarioTypeOK

\* The decision of a rebuilt operation is handed to its graph.
LEMMA ResumeKeeps ==
    ASSUME GraphInv, NEW o \in Operations, resume_persisted_decision(o)
    PROVE  [Next]_storeVars /\ GraphInv'
<1>1. run[o] # NoValue /\ run[o].node = "resume_decision"
  <2>1. /\ run[o] # NoValue /\ TableOK(o) /\ RunOK(o)
        /\ Role(o, run[o].node) = "resume_decision"
    BY RunningPlace DEF resume_persisted_decision, GraphInv
  <2>2. run[o].node \notin NodesOf(o)
    BY <2>1, RoleNames DEF TableOK
  <2> QED
    BY <2>1, <2>2 DEF RunOK, Role
<1>2. interrupted(o) /\ ScenarioTypeOK /\ TypeOK
  BY <1>1 DEF GraphInv, RunOK
<1>5. /\ UNCHANGED storeVars
      /\ UNCHANGED <<evidence, agent, decided, capturing, boot, todo, crashes, setBack>>
      /\ faults' = faults \/ fault
  BY DEF resume_persisted_decision, processVars
<1>7. UNCHANGED <<status, snapshot, approvals, workOrders>>
  BY <1>5 DEF storeVars, opVars
<1>6. ThreadOK(o) /\ ThreadMoves(o)
  <2>1. CASE \E a \in detail_approval(o) : resume(o, a, "recover")
    <3>1. PICK a \in detail_approval(o) : resume(o, a, "recover")
      BY <2>1
    <3>2. a \in ApprovalRows /\ "recover" \in Callers
      BY <1>2, <3>1 DEF detail_approval, TypeOK, Callers
    <3> QED
      BY <1>2, <1>5, <3>1, <3>2, ResumeSound
  <2>2. CASE run' = [run EXCEPT ![o].node = "raised"] /\ UNCHANGED <<ckpt, lag>>
    BY <1>1, <1>5, <2>2, ResumeRaises
  <2> QED
    BY <2>1, <2>2 DEF resume_persisted_decision
<1>8. \A q \in Operations : FactsSaved(q)'
  BY <1>5, <1>7, FactsKept DEF GraphInv
<1>9. decided[o] = NoValue /\ boot \notin {"down", "expiring"}
  BY <1>1 DEF GraphInv, DecidedOK, ProcessOK
<1>10. DecidedOK(o)'
  BY <1>5, <1>9 DEF DecidedOK
<1>11. /\ decided' \in [Operations -> ApprovalRows \cup {NoValue}] /\ faults' \in 0 .. MaxFaults
       /\ capturing' \subseteq Operations
  BY <1>2, <1>5, ScenarioAssumption DEF ScenarioTypeOK, fault
<1> QED
  BY <1>5, <1>6, <1>7, <1>8, <1>9, <1>10, <1>11, OneThread DEF ThreadMoves

\* A new operation begins with the investigation or the first node.
LEMMA StartKeeps ==
    ASSUME GraphInv, NEW o \in Operations, NEW req \in Requests, start(o, req)
    PROVE  [Next]_storeVars /\ GraphInv'
<1>1. /\ create(o, req) /\ boot = "serving" /\ TypeOK /\ ScenarioTypeOK
      /\ UNCHANGED <<evidence, ckpt, lag, faults, agent, decided, capturing, boot, todo, crashes, setBack>>
  BY DEF start, processVars, GraphInv
<1>2. [Next]_storeVars
  BY <1>1 DEF Next, InvestigationNext
<1>3. /\ status[o] = "absent" /\ status'[o] = "received" /\ request'[o] = req
      /\ UNCHANGED <<snapshot, approvals, workOrders>>
  BY <1>1 DEF create, create_allowed, TypeOK
<1>4. ckpt[o] = NoValue /\ decided[o] = NoValue
  BY <1>3 DEF GraphInv, CkptOK, DecidedOK, PlaceOK, interrupted
<1>5. PICK n, r : /\ n = (IF agent THEN "agent_investigation" ELSE "parse_request")
                  /\ r = [by |-> "start", node |-> n, state |-> initial_state]
  OBVIOUS
<1>6. "parse_request" \in NodesOf(o)' /\ graph_roles(o)'["parse_request"] = "parse_request"
  BY <1>3, FirstNode
<1>7. n \in Nodes \cup Positions /\ "start" \in Callers
  BY <1>5 DEF Positions, Callers, Nodes, replenishment_edges
<1>8. initial_state \in GraphStates /\ initial_state.evidence = NoValue
  BY DEF initial_state, GraphStates
<1>9. r \in Runs /\ r # NoValue /\ r.node = n /\ r.state = initial_state
  BY <1>5, <1>7, <1>8, RunType
<1>10. run' = [run EXCEPT ![o] = r]
  BY <1>5 DEF start
<1>11. /\ run' \in [Operations -> Runs \cup {NoValue}] /\ run'[o] = r
       /\ \A q \in Operations : q # o => run'[q] = run[q]
  BY <1>1, <1>9, <1>10 DEF ScenarioTypeOK
<1>12. Role(o, n)' \in {"agent_investigation", "parse_request"}
  BY <1>5, <1>6 DEF Role, Positions
<1>13. PlaceOK(Role(o, n)', initial_state, status'[o])
  BY <1>3, <1>8, <1>12 DEF PlaceOK, EvidenceRoles, PlannedRoles, BoundRoles, StopRoles,
       DecidedRoles, ExecutionRoles
<1>14. n \in NodesOf(o)' \cup Positions /\ n # "resume_decision"
  BY <1>5, <1>6 DEF Positions
<1>15. RunOK(o)'
  <2>1. run'[o].node \in NodesOf(o)' \cup Positions /\ run'[o].node # "resume_decision"
    BY <1>9, <1>11, <1>14
  <2>2. PlaceOK(Role(o, run[o].node)', run'[o].state, status'[o])
    BY <1>9, <1>11, <1>13 DEF Role
  <2>3. Saved(run'[o].state, evidence'[o])
    BY <1>8, <1>9, <1>11 DEF Saved
  <2> QED
    BY <2>1, <2>2, <2>3 DEF RunOK
<1>16. CkptOK(o)' /\ DecidedOK(o)'
  BY <1>1, <1>4 DEF CkptOK, DecidedOK
<1>17. ThreadOK(o)
  BY <1>9, <1>11, <1>14, <1>15, <1>16 DEF ThreadOK, NodesOf
<1>18. \A q \in Operations : FactsSaved(q)'
  BY <1>1, <1>3, FactsKept DEF GraphInv
<1>19. /\ ckpt' \in [Operations -> Checkpoints \cup {NoValue}] /\ lag' \in [Operations -> 0 .. MaxLag]
       /\ decided' \in [Operations -> ApprovalRows \cup {NoValue}] /\ faults' \in 0 .. MaxFaults
       /\ capturing' \subseteq Operations
  BY <1>1 DEF ScenarioTypeOK
<1> QED
  BY <1>1, <1>2, <1>3, <1>11, <1>16, <1>17, <1>18, <1>19, OneThread

\* Recording the outcome touches no graph.
LEMMA CaptureKeeps ==
    ASSUME GraphInv, NEW o \in Operations, capture_operation_outcome(o)
    PROVE  [Next]_storeVars /\ GraphInv'
<1>1. TypeOK /\ ScenarioTypeOK
  BY DEF GraphInv
<1>2. mark_start_failed(o) \/ UNCHANGED storeVars
  BY DEF capture_operation_outcome
<1>3. /\ [Next]_storeVars /\ UNCHANGED <<workOrders, approvals>>
      /\ \A q \in Operations : snapshot'[q].evidence = snapshot[q].evidence
  BY <1>1, <1>2, FailedStep
<1>4. /\ UNCHANGED <<evidence, agent, run, ckpt, lag, decided, boot, todo, crashes, setBack>>
      /\ faults' = faults \/ fault
  BY DEF capture_operation_outcome
<1>5. faults' \in 0 .. MaxFaults /\ capturing' \subseteq Operations
  BY <1>1, <1>4, ScenarioAssumption DEF ScenarioTypeOK, fault, capture_operation_outcome
<1> QED
  BY <1>3, <1>4, <1>5, RowsOnly

\* A decision is about saved evidence, and is handed to an interrupted graph.
LEMMA SubmitKeeps ==
    ASSUME GraphInv, NEW o \in Operations, submit_approval(o)
    PROVE  [Next]_storeVars /\ GraphInv'
<1>1. /\ boot = "serving" /\ interrupted(o) /\ run[o] = NoValue
      /\ UNCHANGED <<evidence, agent, run, ckpt, lag, capturing, boot, todo, faults, crashes, setBack>>
      /\ TypeOK /\ ScenarioTypeOK /\ RowOK(o) /\ FactsSaved(o)
  BY DEF submit_approval, GraphInv
<1>2. now \in 0 .. now
  BY <1>1 DEF TypeOK
<1>3. CASE submit_bound_once_expired(o, now) /\ UNCHANGED decided
  <2>1. [Next]_storeVars
    BY <1>2, <1>3 DEF Next, DecisionNext
  <2>2. UNCHANGED <<snapshot, approvals, workOrders>>
    BY <1>3 DEF submit_bound_once_expired
  <2> QED
    BY <1>1, <1>3, <2>1, <2>2, RowsOnly DEF ScenarioTypeOK
<1>4. CASE \E r \in Approvers, d \in Decisions, b \in Bindings :
              /\ submit_bound_once(o, r, d, b, now)
              /\ decided' = [decided EXCEPT ![o] =
                              [op |-> o, cycle |-> cycle[o], approver |-> r,
                               decision |-> d, binding |-> b, at |-> now]]
  <2>1. PICK r \in Approvers, d \in Decisions, b \in Bindings :
              /\ submit_bound_once(o, r, d, b, now)
              /\ decided' = [decided EXCEPT ![o] =
                              [op |-> o, cycle |-> cycle[o], approver |-> r,
                               decision |-> d, binding |-> b, at |-> now]]
    BY <1>4
  <2>2. [Next]_storeVars
    BY <1>2, <2>1 DEF Next, DecisionNext
  <2>3. PICK a : a = [op |-> o, cycle |-> cycle[o], approver |-> r,
                      decision |-> d, binding |-> b, at |-> now]
    OBVIOUS
  <2>4. a \in ApprovalRows /\ a.op = o /\ a.binding = b
    BY <1>1, <2>3 DEF TypeOK, ApprovalRows
  <2>5. /\ decision_open(o) /\ b = snapshot[o].binding /\ approvals' = approvals \cup {a}
        /\ UNCHANGED <<snapshot, workOrders>>
    BY <2>1, <2>3 DEF submit_bound_once
  <2>6. IsBound(snapshot[o])
    BY <1>1, <2>5 DEF RowOK, decision_open
  <2>7. a.binding.evidence \in evidence[o]
    <3>1. snapshot[o].evidence \in evidence[o]
      BY <1>1, <2>6, StoreAssumption DEF FactsSaved, Saved, IsBound
    <3>2. snapshot[o].binding.evidence = snapshot[o].evidence
      BY <2>6 DEF IsBound, build_approval_binding
    <3> QED
      BY <2>4, <2>5, <3>1, <3>2
  <2>8. ASSUME NEW q \in Operations PROVE FactsSaved(q)'
    <3>1. FactsSaved(q)
      BY DEF GraphInv
    <3> QED
      BY <1>1, <2>4, <2>5, <2>7, <3>1 DEF FactsSaved, Saved
  <2>9. ThreadOK(o)
    BY <1>1, <2>2, ThreadKept
  <2>10. DecidedOK(o)'
    BY <1>1 DEF DecidedOK, interrupted
  <2>11. decided' = [decided EXCEPT ![o] = a]
    BY <2>1, <2>3
  <2>12. /\ decided' \in [Operations -> ApprovalRows \cup {NoValue}]
         /\ \A q \in Operations : q # o => decided'[q] = decided[q]
    BY <1>1, <2>4, <2>11 DEF ScenarioTypeOK
  <2>13. /\ run' \in [Operations -> Runs \cup {NoValue}]
         /\ ckpt' \in [Operations -> Checkpoints \cup {NoValue}]
         /\ lag' \in [Operations -> 0 .. MaxLag] /\ faults' \in 0 .. MaxFaults
         /\ capturing' \subseteq Operations
    BY <1>1 DEF ScenarioTypeOK
  <2> QED
    BY <1>1, <2>2, <2>5, <2>8, <2>9, <2>10, <2>12, <2>13, OneThread
<1> QED
  BY <1>3, <1>4 DEF submit_approval

\* The second half of submit_approval.
LEMMA SubmitResumeKeeps ==
    ASSUME GraphInv, NEW o \in Operations, submit_approval_resume(o)
    PROVE  [Next]_storeVars /\ GraphInv'
<1>1. /\ decided[o] # NoValue /\ decided' = [decided EXCEPT ![o] = NoValue]
      /\ UNCHANGED storeVars /\ UNCHANGED <<evidence, agent, capturing, boot, todo, crashes, setBack>>
      /\ TypeOK /\ ScenarioTypeOK
  BY DEF submit_approval_resume, GraphInv
<1>2. boot = "serving" /\ run[o] = NoValue /\ interrupted(o)
  BY <1>1 DEF GraphInv, DecidedOK
<1>3. PICK a : a = decided[o]
  OBVIOUS
<1>4. a \in ApprovalRows /\ "submit" \in Callers
  BY <1>1, <1>3 DEF ScenarioTypeOK, Callers
<1>5. UNCHANGED <<status, snapshot, approvals, workOrders>>
  BY <1>1 DEF storeVars, opVars
<1>6. /\ ThreadOK(o) /\ faults' \in 0 .. MaxFaults
      /\ run' \in [Operations -> Runs \cup {NoValue}]
      /\ ckpt' \in [Operations -> Checkpoints \cup {NoValue}]
      /\ lag' \in [Operations -> 0 .. MaxLag]
      /\ \A q \in Operations : q # o => run'[q] = run[q] /\ ckpt'[q] = ckpt[q]
  <2>1. CASE resume(o, decided[o], "submit") /\ UNCHANGED faults
    <3>1. ThreadOK(o) /\ ThreadMoves(o)
      BY <1>1, <1>2, <1>3, <1>4, <2>1, ResumeSound
    <3> QED
      BY <1>1, <2>1, <3>1 DEF ThreadMoves, ScenarioTypeOK
  <2>2. CASE fault /\ UNCHANGED <<run, ckpt, lag>>
    <3>1. ThreadOK(o)
      BY <1>1, <2>2, ThreadKept
    <3> QED
      BY <1>1, <2>2, <3>1, ScenarioAssumption DEF fault, ScenarioTypeOK
  <2> QED
    BY <2>1, <2>2 DEF submit_approval_resume
<1>7. \A q \in Operations : FactsSaved(q)'
  BY <1>1, <1>5, FactsKept DEF GraphInv
<1>8. /\ decided' \in [Operations -> ApprovalRows \cup {NoValue}] /\ decided'[o] = NoValue
      /\ \A q \in Operations : q # o => decided'[q] = decided[q]
  BY <1>1 DEF ScenarioTypeOK
<1>9. DecidedOK(o)' /\ capturing' \subseteq Operations
  BY <1>1, <1>8 DEF DecidedOK, ScenarioTypeOK
<1> QED
  BY <1>1, <1>2, <1>5, <1>6, <1>7, <1>8, <1>9, OneThread

\* A crash ends every coroutine; the checkpoints and the tables stay.
LEMMA CrashKeeps ==
    ASSUME GraphInv, crash
    PROVE  [Next]_storeVars /\ GraphInv'
<1>1. /\ UNCHANGED storeVars /\ UNCHANGED <<evidence, agent, ckpt, faults>>
      /\ run' = [q \in Operations |-> NoValue] /\ decided' = [q \in Operations |-> NoValue]
      /\ lag' = [q \in Operations |-> 0] /\ capturing' = {} /\ todo' = {} /\ boot' = "down"
      /\ crashes < MaxCrashes /\ crashes' = crashes + 1 /\ setBack' \subseteq Operations
      /\ TypeOK /\ ScenarioTypeOK
  BY DEF crash, far_behind, GraphInv, ScenarioTypeOK
<1>2. UNCHANGED <<status, snapshot, approvals, workOrders>>
  BY <1>1 DEF storeVars, opVars
<1>3. TypesNext
  BY <1>1, ScenarioAssumption DEF TypesNext, ScenarioTypeOK
<1>4. ProcessOK'
  BY <1>1, ProcessStep
<1>5. ASSUME NEW q \in Operations PROVE ThreadOK(q) /\ DecidedOK(q)' /\ FactsSaved(q)'
  <2>1. StoreMoves(q) /\ CkptOK(q)
    BY <1>1, NextMoves DEF GraphInv
  <2>2. CkptNext(q) /\ RunNext(q)
    BY <1>1, <2>1, CkptStays DEF RunNext
  <2>3. run'[q] # NoValue \/ ckpt'[q] # NoValue => status[q] # "absent"
    BY <1>1, <2>1 DEF CkptOK, PlaceOK
  <2>4. ThreadOK(q)
    BY <1>1, <2>2, <2>3, ThreadNext
  <2>5. DecidedOK(q)'
    BY <1>1 DEF DecidedOK
  <2> QED
    BY <1>1, <1>2, <2>4, <2>5, FactsKept DEF GraphInv
<1> QED
  BY <1>1, <1>2, <1>3, <1>4, <1>5, OutsideStep

\* The checkpoints may be lost while the process is down.
LEMMA RestartKeeps ==
    ASSUME GraphInv, restart
    PROVE  [Next]_storeVars /\ GraphInv'
<1>1. /\ boot = "down" /\ boot' = "expiring"
      /\ UNCHANGED storeVars
      /\ UNCHANGED <<evidence, agent, run, lag, decided, capturing, todo, faults, crashes, setBack>>
      /\ ckpt' = ckpt \/ ckpt' = [q \in Operations |-> NoValue]
      /\ TypeOK /\ ScenarioTypeOK
  BY DEF restart, GraphInv
<1>2. UNCHANGED <<status, snapshot, approvals, workOrders>>
  BY <1>1 DEF storeVars, opVars
<1>3. TypesNext
  BY <1>1 DEF TypesNext, ScenarioTypeOK
<1>4. \A q \in Operations : run[q] = NoValue /\ run'[q] = NoValue /\ decided'[q] = NoValue
  BY <1>1 DEF GraphInv, ProcessOK, DecidedOK
<1>5. ProcessOK'
  BY <1>1, <1>4, ProcessStep
<1>6. ASSUME NEW q \in Operations PROVE ThreadOK(q) /\ DecidedOK(q)' /\ FactsSaved(q)'
  <2>1. StoreMoves(q) /\ CkptOK(q)
    BY <1>1, NextMoves DEF GraphInv
  <2>2. ckpt'[q] = ckpt[q] \/ ckpt'[q] = NoValue
    BY <1>1
  <2>3. CkptNext(q) /\ RunNext(q)
    BY <1>1, <1>4, <2>1, <2>2, CkptStays DEF RunNext, CkptNext
  <2>4. run'[q] # NoValue \/ ckpt'[q] # NoValue => status[q] # "absent"
    BY <1>4, <2>1, <2>2 DEF CkptOK, PlaceOK
  <2>5. ThreadOK(q)
    BY <1>1, <2>3, <2>4, ThreadNext
  <2>6. DecidedOK(q)'
    BY <1>4 DEF DecidedOK
  <2> QED
    BY <1>1, <1>2, <2>5, <2>6, FactsKept DEF GraphInv
<1> QED
  BY <1>1, <1>2, <1>3, <1>5, <1>6, OutsideStep

\* What is due expires before anything is recovered.
LEMMA ExpireKeeps ==
    ASSUME GraphInv, NEW o \in Operations, expire_due(o)
    PROVE  [Next]_storeVars /\ GraphInv'
<1>1. /\ mark_expired(o, now) /\ TypeOK /\ ScenarioTypeOK /\ now \in 0 .. now
      /\ UNCHANGED <<evidence, run, ckpt, lag, faults, agent, decided, capturing, boot, todo,
                     crashes, setBack>>
  BY DEF expire_due, processVars, GraphInv, TypeOK
<1>2. [Next]_storeVars
  BY <1>1 DEF Next, DecisionNext
<1>3. UNCHANGED <<snapshot, approvals, workOrders>>
  BY <1>1 DEF mark_expired, transition
<1> QED
  BY <1>1, <1>2, <1>3, RowsOnly DEF ScenarioTypeOK

\* The recovery lists what is active, and the process serves when it is done.
LEMMA PhaseKeeps ==
    ASSUME GraphInv, list_recoverable \/ serve
    PROVE  [Next]_storeVars /\ GraphInv'
<1>1. /\ UNCHANGED storeVars
      /\ UNCHANGED <<evidence, agent, run, ckpt, lag, decided, capturing, faults, crashes, setBack>>
      /\ boot \in {"expiring", "recovering"} /\ boot' \in {"recovering", "serving"}
      /\ TypeOK /\ ScenarioTypeOK
      /\ todo' = {q \in Operations : status[q] \in Active} \/ todo' = todo
  BY DEF list_recoverable, serve, GraphInv
<1>2. UNCHANGED <<status, snapshot, approvals, workOrders>>
  BY <1>1 DEF storeVars, opVars
<1>3. TypesNext
  BY <1>1 DEF TypesNext, ScenarioTypeOK
<1>4. ProcessOK'
  BY <1>1, <1>2 DEF GraphInv, ProcessOK, Active
<1>5. ASSUME NEW q \in Operations PROVE ThreadOK(q) /\ DecidedOK(q)' /\ FactsSaved(q)'
  <2>1. ThreadOK(q)
    BY <1>1, ThreadKept
  <2>2. DecidedOK(q)'
    BY <1>1 DEF GraphInv, DecidedOK
  <2> QED
    BY <1>1, <1>2, <2>1, <2>2, FactsKept DEF GraphInv
<1> QED
  BY <1>1, <1>2, <1>3, <1>4, <1>5, OutsideStep

\* The clock.
LEMMA ClockKeeps ==
    ASSUME GraphInv, Clock
    PROVE  [Next]_storeVars /\ GraphInv'
<1>1. /\ Tick /\ ScenarioTypeOK
      /\ UNCHANGED <<evidence, run, ckpt, lag, faults, agent, decided, capturing, boot, todo,
                     crashes, setBack>>
  BY DEF Clock, processVars, GraphInv
<1>2. [Next]_storeVars /\ UNCHANGED <<snapshot, approvals, workOrders>>
  BY <1>1 DEF Next, Tick, opVars
<1> QED
  BY <1>1, <1>2, RowsOnly DEF ScenarioTypeOK

\* The state of a graph from the row, field by field.
LEMMA DetailState ==
    ASSUME GraphInv, NEW o \in Operations, NEW st, st = state_from_detail(o)
    PROVE  /\ st \in GraphStates /\ Saved(st, evidence[o])
           /\ st.evidence = snapshot[o].evidence /\ st.plan = snapshot[o].plan
           /\ st.binding = IF status[o] = "validating" /\ snapshot[o].plan # NoValue
                           THEN build_approval_binding(snapshot[o].evidence, snapshot[o].plan)
                           ELSE snapshot[o].binding
<1>1. TypeOK /\ RowOK(o) /\ FactsSaved(o)
  BY DEF GraphInv
<1>2. /\ snapshot[o].evidence \in Bundles \cup {NoValue}
      /\ snapshot[o].plan \in Plans \cup {NoValue}
      /\ snapshot[o].binding \in Bindings \cup {NoValue}
  BY <1>1 DEF TypeOK, Snapshots
<1>3. PICK g : g = IF status[o] = "validating" /\ snapshot[o].plan # NoValue
                   THEN build_approval_binding(snapshot[o].evidence, snapshot[o].plan)
                   ELSE snapshot[o].binding
  OBVIOUS
<1>4. g \in Bindings \cup {NoValue}
  <2>1. CASE status[o] = "validating" /\ snapshot[o].plan # NoValue
    <3>1. snapshot[o].evidence \in Bundles /\ snapshot[o].plan \in Plans
      BY <1>1, <1>2, <2>1 DEF RowOK
    <3> QED
      BY <1>3, <2>1, <3>1 DEF build_approval_binding, Bindings
  <2>2. CASE ~ (status[o] = "validating" /\ snapshot[o].plan # NoValue)
    BY <1>2, <1>3, <2>2
  <2> QED
    BY <2>1, <2>2
<1>5. PICK a : a = IF detail_approval(o) = {} THEN NoValue
                   ELSE CHOOSE x \in detail_approval(o) : TRUE
  OBVIOUS
<1>6. a \in ApprovalRows \cup {NoValue}
  <2>1. CASE detail_approval(o) = {}
    BY <1>5, <2>1
  <2>2. CASE detail_approval(o) # {}
    <3>1. a \in detail_approval(o)
      BY <1>5, <2>2, Zenon
    <3> QED
      BY <1>1, <3>1 DEF detail_approval, TypeOK
  <2> QED
    BY <2>1, <2>2
<1>7. PICK w : w = IF work_order_of(o) = {} THEN NoValue
                   ELSE CHOOSE x \in work_order_of(o) : TRUE
  OBVIOUS
<1>8. w \in WorkOrderRows \cup {NoValue}
  <2>1. CASE work_order_of(o) = {}
    BY <1>7, <2>1
  <2>2. CASE work_order_of(o) # {}
    <3>1. w \in work_order_of(o)
      BY <1>7, <2>2, Zenon
    <3> QED
      BY <1>1, <3>1 DEF work_order_of, TypeOK
  <2> QED
    BY <2>1, <2>2
<1>9. st = [evidence |-> snapshot[o].evidence, plan |-> snapshot[o].plan, binding |-> g,
            approval |-> a, work |-> w]
  BY <1>3, <1>5, <1>7, Zenon DEF state_from_detail
<1>10. st \in GraphStates
  BY <1>2, <1>4, <1>6, <1>8, <1>9 DEF GraphStates
<1> QED
  BY <1>1, <1>3, <1>9, <1>10 DEF FactsSaved, Saved

\* The name that only the replenishment graph has.
LEMMA LowPlanNode ==
    ASSUME NEW o, ScenarioOf[request[o].object] = "inventory"
    PROVE  "record_low_plan" \in NodesOf(o) /\ Role(o, "record_low_plan") = "record_low_plan"
BY DEF NodesOf, Role, Positions, graph_edges, graph_roles, replenishment_edges

\* A graph rebuilt from the row goes on where the row says, with what that
\* place needs.
LEMMA RebuiltPlace ==
    ASSUME GraphInv, NEW o \in Operations, status[o] \in Active \ {"received"},
           ~ rebuild_conflict(o), NEW n, n = graph_edges(o)[completed_node_for(o)]["continue"],
           NEW st, st = state_from_detail(o)
    PROVE  /\ n \in NodesOf(o) /\ n \notin Positions
           /\ PlaceOK(Role(o, n), st, status[o])
           /\ status[o] = "gathering_evidence" => Role(o, n) = "gather_evidence"
           /\ status[o] = "planning" => Role(o, n) = "calculate_assessment"
           /\ status[o] = "validating" => Role(o, n) \in {"prepare_approval", "mark_reporting"}
           /\ status[o] = "reporting" => Role(o, n) = "complete_without_replenishment"
           /\ status[o] \in {"awaiting_approval", "resuming"} => Role(o, n) = "request_approval"
           /\ status[o] = "needs_reapproval" => Role(o, n) = "request_reapproval"
           /\ status[o] = "executing" => Role(o, n) = "execute_work_order"
           /\ status[o] = "verifying" => Role(o, n) = "verify_work_order"
<1>1. TypeOK /\ RowOK(o)
  BY DEF GraphInv
<1>2. TableOK(o)
  BY <1>1, Table DEF RowOK, Active
<1>3. /\ st \in GraphStates /\ st.evidence = snapshot[o].evidence /\ st.plan = snapshot[o].plan
      /\ st.binding = IF status[o] = "validating" /\ snapshot[o].plan # NoValue
                      THEN build_approval_binding(snapshot[o].evidence, snapshot[o].plan)
                      ELSE snapshot[o].binding
  BY DetailState
<1>4. ASSUME NEW m \in NodesOf(o), NEW role, m = completed_node_for(o),
             Leads(o, m, "continue", role), role \in Roles
      PROVE  n \in NodesOf(o) /\ n \notin Positions /\ Role(o, n) = role
  BY <1>2, <1>4, PlaceNode, RoleNames DEF Leads, TableOK
<1>5. ASSUME NEW m \in NamedNodes, NEW role, m = completed_node_for(o),
             Edges(o, m) /\ Role(o, m) = m => Leads(o, m, "continue", role), role \in Roles
      PROVE  n \in NodesOf(o) /\ n \notin Positions /\ Role(o, n) = role
  <2>1. m \in NodesOf(o) /\ Edges(o, m) /\ Role(o, m) = m
    BY <1>2 DEF TableOK
  <2> QED
    BY <1>4, <1>5, <2>1
<1>6. CASE status[o] = "gathering_evidence"
  <2>1. completed_node_for(o) = "mark_gathering"
    BY <1>6 DEF completed_node_for
  <2>2. n \in NodesOf(o) /\ n \notin Positions /\ Role(o, n) = "gather_evidence"
    BY <1>5, <2>1, RoleNames DEF NamedNodes, Edges
  <2> QED
    BY <1>3, <1>6, <2>2 DEF PlaceOK, EvidenceRoles, PlannedRoles, BoundRoles, StopRoles,
       DecidedRoles, ExecutionRoles
<1>7. CASE status[o] = "planning"
  <2>1. completed_node_for(o) = "gather_evidence"
    BY <1>7 DEF completed_node_for
  <2>2. n \in NodesOf(o) /\ n \notin Positions /\ Role(o, n) = "calculate_assessment"
    BY <1>5, <2>1, RoleNames DEF NamedNodes, Edges
  <2>3. st.evidence \in Bundles
    BY <1>1, <1>3, <1>7 DEF RowOK
  <2> QED
    BY <1>3, <1>7, <2>2, <2>3 DEF PlaceOK, PlannedRoles, BoundRoles, StopRoles,
       DecidedRoles, ExecutionRoles
<1>8. CASE status[o] = "validating" /\ snapshot[o].plan = NoValue
  <2>1. completed_node_for(o) = "record_normal_plan"
    BY <1>8 DEF completed_node_for
  <2>2. n \in NodesOf(o) /\ n \notin Positions /\ Role(o, n) = "mark_reporting"
    BY <1>5, <2>1, RoleNames DEF NamedNodes, Edges
  <2> QED
    BY <1>3, <1>8, <2>2 DEF PlaceOK, EvidenceRoles, PlannedRoles, BoundRoles, StopRoles,
       DecidedRoles, ExecutionRoles
<1>9. CASE status[o] = "validating" /\ snapshot[o].plan # NoValue
  <2>1. completed_node_for(o) = "record_low_plan"
    BY <1>9 DEF completed_node_for
  <2>2. /\ "record_low_plan" \in NodesOf(o) /\ Edges(o, "record_low_plan")
        /\ Role(o, "record_low_plan") = "record_low_plan"
    BY <1>2, <1>9, LowPlanNode DEF rebuild_conflict, TableOK
  <2>3. Leads(o, "record_low_plan", "continue", "prepare_approval")
    BY <2>2 DEF Edges
  <2>4. n \in NodesOf(o) /\ n \notin Positions /\ Role(o, n) = "prepare_approval"
    BY <1>4, <2>1, <2>2, <2>3, RoleNames
  <2>5. st.evidence \in Bundles /\ st.plan \in Plans
    BY <1>1, <1>3, <1>9 DEF RowOK, TypeOK, Snapshots
  <2>6. IsBound(st)
    BY <1>3, <1>9, <2>5 DEF IsBound
  <2> QED
    BY <1>3, <1>9, <2>4, <2>6 DEF PlaceOK, EvidenceRoles, PlannedRoles, ExecutionRoles
<1>10. CASE status[o] = "reporting"
  <2>1. completed_node_for(o) = "mark_reporting"
    BY <1>10 DEF completed_node_for
  <2>2. n \in NodesOf(o) /\ n \notin Positions /\ Role(o, n) = "complete_without_replenishment"
    BY <1>5, <2>1, RoleNames DEF NamedNodes, Edges
  <2> QED
    BY <1>3, <1>10, <2>2 DEF PlaceOK, EvidenceRoles, PlannedRoles, BoundRoles, StopRoles,
       DecidedRoles, ExecutionRoles
<1>11. CASE status[o] \in AwaitingDecision \cup {"resuming", "executing", "verifying"}
  <2>1. IsBound(snapshot[o]) /\ st.binding = snapshot[o].binding
    BY <1>1, <1>3, <1>11 DEF RowOK, AwaitingDecision
  <2>2. IsBound(st)
    BY <1>3, <2>1 DEF IsBound
  <2>3. PICK m, role :
            /\ m = completed_node_for(o) /\ m \in NamedNodes
            /\ \/ /\ status[o] \in {"awaiting_approval", "resuming"}
                  /\ m = "prepare_approval" /\ role = "request_approval"
               \/ /\ status[o] = "needs_reapproval"
                  /\ m = "mark_needs_reapproval" /\ role = "request_reapproval"
               \/ status[o] = "executing" /\ m = "mark_executing" /\ role = "execute_work_order"
               \/ status[o] = "verifying" /\ m = "mark_verifying" /\ role = "verify_work_order"
    <3>1. CASE status[o] \in {"awaiting_approval", "resuming"}
      BY <3>1 DEF completed_node_for, NamedNodes
    <3>2. CASE status[o] = "needs_reapproval"
      BY <3>2 DEF completed_node_for, NamedNodes
    <3>3. CASE status[o] = "executing"
      BY <3>3 DEF completed_node_for, NamedNodes
    <3>4. CASE status[o] = "verifying"
      BY <3>4 DEF completed_node_for, NamedNodes
    <3> QED
      BY <1>11, <3>1, <3>2, <3>3, <3>4 DEF AwaitingDecision
  <2>4. role \in Roles /\ (Edges(o, m) /\ Role(o, m) = m => Leads(o, m, "continue", role))
    BY <2>3, RoleNames DEF Edges
  <2>5. n \in NodesOf(o) /\ n \notin Positions /\ Role(o, n) = role
    BY <1>5, <2>3, <2>4
  <2>6. PlaceOK(role, st, status[o])
    BY <1>3, <1>11, <2>2, <2>3 DEF PlaceOK, EvidenceRoles, PlannedRoles, ExecutionRoles,
       AfterExecution
  <2> QED
    BY <2>3, <2>5, <2>6
<1> QED
  BY <1>6, <1>7, <1>8, <1>9, <1>10, <1>11 DEF Active, AwaitingDecision

\* What becomes of the checkpoint of a thread that begins at n with st.
Begins(o, n, st) ==
    /\ ckpt' \in [Operations -> Checkpoints \cup {NoValue}]
    /\ lag' \in [Operations -> 0 .. MaxLag]
    /\ \A q \in Operations : q # o => ckpt'[q] = ckpt[q] /\ lag'[q] = lag[q]
    /\ ckpt'[o] = ckpt[o] \/ (n \in NodesOf(o) /\ ckpt'[o] = checkpoint(n, st))

LEMMA BeginsCkpt ==
    ASSUME ScenarioTypeOK, NEW o \in Operations, TableOK(o), NEW n, NEW st \in GraphStates
    PROVE  /\ UNCHANGED <<ckpt, lag>> => Begins(o, n, st)
           /\ (n \in NodesOf(o) /\ save(o, n, st)) => Begins(o, n, st)
           /\ (/\ n \in NodesOf(o) /\ UNCHANGED lag
               /\ ckpt' = [ckpt EXCEPT ![o] = checkpoint(n, st)]) => Begins(o, n, st)
<1>1. CASE UNCHANGED <<ckpt, lag>>
  BY <1>1 DEF ScenarioTypeOK, Begins
<1>2. CASE n \in NodesOf(o) /\ save(o, n, st)
  <2>1. n \in Nodes \cup {"END"}
    BY <1>2 DEF TableOK
  <2> QED
    BY <1>2, <2>1, SavesType DEF Saves, Begins
<1>3. CASE n \in NodesOf(o) /\ UNCHANGED lag
           /\ ckpt' = [ckpt EXCEPT ![o] = checkpoint(n, st)]
  <2>1. PICK c : c = checkpoint(n, st)
    OBVIOUS
  <2>2. n \in Nodes \cup {"END"}
    BY <1>3 DEF TableOK
  <2>3. c \in Checkpoints
    BY <2>1, <2>2, CheckpointType
  <2> QED
    BY <1>3, <2>1, <2>3 DEF ScenarioTypeOK, Begins
<1> QED
  BY <1>1, <1>2, <1>3

\* A thread that begins again at a node n with a state st.
LEMMA BeginsThread ==
    ASSUME GraphInv, NEW o \in Operations, status[o] # "absent", run[o] = NoValue,
           NEW n, NEW st, NEW by \in Callers,
           n \in NodesOf(o) \cup {"END", "agent_investigation"},
           PlaceOK(Role(o, n), st, status[o]), Saved(st, evidence[o]),
           run' = [run EXCEPT ![o] = [by |-> by, node |-> n, state |-> st]],
           Begins(o, n, st), UNCHANGED storeVars, evidence' = evidence
    PROVE  /\ ThreadMoves(o) /\ ThreadOK(o)
           /\ run'[o] # NoValue /\ run'[o].by = by /\ run'[o].node = n /\ run'[o].state = st
<1>1. TypeOK /\ ScenarioTypeOK /\ RowOK(o) /\ CkptOK(o) /\ StoreMoves(o)
  BY NextMoves DEF GraphInv
<1>2. TableOK(o)
  BY <1>1, Table DEF RowOK
<1>3. n \in Nodes \cup Positions /\ n # "resume_decision" /\ st \in GraphStates
  BY <1>2 DEF TableOK, Positions, PlaceOK
<1>4. PICK r : r = [by |-> by, node |-> n, state |-> st]
  OBVIOUS
<1>5. r \in Runs /\ r # NoValue /\ r.by = by /\ r.node = n /\ r.state = st
  BY <1>3, <1>4, RunType
<1>6. /\ run' \in [Operations -> Runs \cup {NoValue}] /\ run'[o] = r
      /\ \A q \in Operations : q # o => run'[q] = run[q]
  BY <1>1, <1>4, <1>5 DEF ScenarioTypeOK
<1>7. /\ ckpt' \in [Operations -> Checkpoints \cup {NoValue}]
      /\ lag' \in [Operations -> 0 .. MaxLag]
      /\ \A q \in Operations : q # o => ckpt'[q] = ckpt[q] /\ lag'[q] = lag[q]
      /\ ckpt'[o] = ckpt[o] \/ (n \in NodesOf(o) /\ ckpt'[o] = checkpoint(n, st))
  BY DEF Begins
<1>8. PlaceNext(o, n, st)
  BY DEF PlaceNext, storeVars, opVars
<1>9. RunNext(o)
  BY <1>3, <1>5, <1>6, <1>8 DEF RunNext, Positions
<1>10. CkptNext(o)
  <2>1. CASE ckpt'[o] = ckpt[o]
    BY <1>1, <2>1, CkptStays
  <2>2. CASE n \in NodesOf(o) /\ ckpt'[o] = checkpoint(n, st)
    BY <1>8, <2>2 DEF CkptNext, checkpoint
  <2> QED
    BY <1>7, <2>1, <2>2
<1>11. ThreadOK(o)
  BY <1>1, <1>9, <1>10, ThreadNext
<1> QED
  BY <1>5, <1>6, <1>7, <1>11 DEF ThreadMoves

\* What the recovery of an operation does, case by case.
LEMMA RecoverCases ==
    ASSUME NEW o \in Operations, recover(o)
    PROVE  /\ boot = "recovering" /\ o \in todo /\ run[o] = NoValue /\ todo' = todo \ {o}
           /\ UNCHANGED <<evidence, agent, decided, capturing, boot, crashes, setBack>>
           /\ (faults' = faults \/ fault)
           /\ \/ fault /\ UNCHANGED <<storeVars, run, ckpt, lag>>
              \/ /\ (\E e \in Errors : mark_failed(o, e)) \/ UNCHANGED storeVars
                 /\ UNCHANGED <<run, ckpt, lag>>
                 /\ (status[o] = "resuming" /\ load_detail_succeeds(o)) =>
                        interrupted(o) /\ detail_approval(o) = {}
              \/ /\ status[o] \notin Terminal /\ ckpt[o] = NoValue
                 /\ rebuild_from_business_facts(o)
              \/ /\ interrupted(o) /\ UNCHANGED storeVars
                 /\ \E a \in detail_approval(o) : resume(o, a, "recover")
              \/ /\ ckpt[o] # NoValue /\ ~ interrupted(o)
                 /\ UNCHANGED <<storeVars, ckpt, lag>>
                 /\ run' = [run EXCEPT ![o] = [by |-> "recover", node |-> ckpt[o].node,
                                               state |-> ckpt[o].state]]
<1>1. /\ boot = "recovering" /\ o \in todo /\ run[o] = NoValue /\ todo' = todo \ {o}
      /\ UNCHANGED <<evidence, agent, decided, capturing, boot, crashes, setBack>>
      /\ (faults' = faults \/ fault)
  BY DEF recover
<1>2. CASE /\ recovery_action(o) \in {"conflict", "no_op", "keep_waiting"}
           /\ (\E e \in Errors : mark_failed(o, e)) \/ UNCHANGED storeVars
           /\ UNCHANGED <<run, ckpt, lag>>
  <2>1. (status[o] = "resuming" /\ load_detail_succeeds(o)) =>
            interrupted(o) /\ detail_approval(o) = {}
    BY <1>2 DEF recovery_action, Terminal
  <2> QED
    BY <1>1, <1>2, <2>1
<1>3. CASE recovery_action(o) = "rebuild_from_business_facts" /\ rebuild_from_business_facts(o)
  <2>1. status[o] \notin Terminal /\ ckpt[o] = NoValue
    BY <1>3 DEF recovery_action
  <2> QED
    BY <1>1, <1>3, <2>1
<1>4. CASE /\ recovery_action(o) = "resume_decision" /\ UNCHANGED storeVars
           /\ \E a \in detail_approval(o) : resume(o, a, "recover")
  <2>1. interrupted(o)
    BY <1>4 DEF recovery_action
  <2> QED
    BY <1>1, <1>4, <2>1
<1>5. CASE /\ recovery_action(o) = "continue_checkpoint" /\ UNCHANGED <<storeVars, ckpt, lag>>
           /\ run' = [run EXCEPT ![o] = [by |-> "recover", node |-> ckpt[o].node,
                                         state |-> ckpt[o].state]]
  <2>1. ckpt[o] # NoValue /\ ~ interrupted(o)
    BY <1>5 DEF recovery_action
  <2> QED
    BY <1>1, <1>5, <2>1
<1>6. \/ fault /\ UNCHANGED <<storeVars, run, ckpt, lag>>
      \/ /\ recovery_action(o) \in {"conflict", "no_op", "keep_waiting"}
         /\ (\E e \in Errors : mark_failed(o, e)) \/ UNCHANGED storeVars
         /\ UNCHANGED <<run, ckpt, lag>>
      \/ recovery_action(o) = "rebuild_from_business_facts" /\ rebuild_from_business_facts(o)
      \/ /\ recovery_action(o) = "resume_decision" /\ UNCHANGED storeVars
         /\ \E a \in detail_approval(o) : resume(o, a, "recover")
      \/ /\ recovery_action(o) = "continue_checkpoint" /\ UNCHANGED <<storeVars, ckpt, lag>>
         /\ run' = [run EXCEPT ![o] = [by |-> "recover", node |-> ckpt[o].node,
                                       state |-> ckpt[o].state]]
  BY DEF recover, take_recovery_action
<1> QED
  BY <1>1, <1>2, <1>3, <1>4, <1>5, <1>6

\* A rebuild begins where the row says, or ends the operation.
LEMMA RebuildCases ==
    ASSUME GraphInv, NEW o \in Operations, run[o] = NoValue, ckpt[o] = NoValue,
           status[o] \notin Terminal \cup {"absent"},
           rebuild_from_business_facts(o), evidence' = evidence
    PROVE  \/ /\ rebuild_conflict(o) /\ (\E e \in Errors : mark_failed(o, e))
              /\ UNCHANGED <<run, ckpt, lag>>
           \/ /\ UNCHANGED storeVars /\ ThreadMoves(o) /\ ThreadOK(o)
              /\ run'[o] # NoValue /\ ckpt'[o] \in {NoValue, checkpoint(run'[o].node, run'[o].state)}
              /\ run'[o].node = "parse_request" \/ lag' = lag
              /\ \/ /\ status[o] = "received"
                    /\ run'[o].node \in {"agent_investigation", "parse_request"}
                    /\ run'[o].state = initial_state
                 \/ /\ status[o] # "received" /\ ~ rebuild_conflict(o)
                    /\ run'[o].node = graph_edges(o)[completed_node_for(o)]["continue"]
                    /\ run'[o].state = state_from_detail(o)
                    /\ run'[o].by = IF status[o] = "resuming" THEN "rebuild_decision"
                                    ELSE "recover"
                    /\ ckpt'[o] = checkpoint(run'[o].node, run'[o].state)
<1>1. TypeOK /\ RowOK(o) /\ ScenarioTypeOK /\ status[o] \in Active
  BY DEF GraphInv, TypeOK, Statuses
<1>2. TableOK(o)
  BY <1>1, Table DEF RowOK
<1>3. initial_state \in GraphStates /\ initial_state.evidence = NoValue
  BY DEF initial_state, GraphStates
<1>4. "recover" \in Callers /\ "rebuild_decision" \in Callers
  BY DEF Callers
<1>5. CASE status[o] = "received" /\ enter(o, "recover") /\ UNCHANGED storeVars
  <2>1. PICK n :
            /\ n = "agent_investigation" \/ n = "parse_request"
            /\ run' = [run EXCEPT ![o] = [by |-> "recover", node |-> n, state |-> initial_state]]
            /\ \/ UNCHANGED <<ckpt, lag>>
               \/ n = "parse_request" /\ save(o, n, initial_state)
    BY <1>5 DEF enter
  <2>2. "parse_request" \in NodesOf(o) /\ Role(o, "parse_request") = "parse_request"
        /\ Role(o, "agent_investigation") = "agent_investigation"
    BY <1>2 DEF TableOK, NamedNodes, Role, Positions
  <2>3. PlaceOK(Role(o, n), initial_state, status[o]) /\ Saved(initial_state, evidence[o])
    BY <1>3, <1>5, <2>1, <2>2 DEF PlaceOK, Saved, EvidenceRoles, PlannedRoles, BoundRoles,
         StopRoles, DecidedRoles, ExecutionRoles
  <2>4. n \in NodesOf(o) \cup {"END", "agent_investigation"}
    BY <2>1, <2>2
  <2>6. UNCHANGED <<ckpt, lag>> \/ (n \in NodesOf(o) /\ save(o, n, initial_state))
    BY <2>1, <2>2
  <2>7. status[o] # "absent" /\ UNCHANGED storeVars
        /\ run' = [run EXCEPT ![o] = [by |-> "recover", node |-> n, state |-> initial_state]]
    BY <1>5, <2>1
  <2>9. PICK by, st : by = "recover" /\ st = initial_state
    OBVIOUS
  <2>10. /\ n \in NodesOf(o) \cup {"END", "agent_investigation"} /\ by \in Callers
         /\ PlaceOK(Role(o, n), st, status[o]) /\ Saved(st, evidence[o])
         /\ status[o] # "absent" /\ UNCHANGED storeVars /\ evidence' = evidence
         /\ run' = [run EXCEPT ![o] = [by |-> by, node |-> n, state |-> st]]
    BY <1>4, <2>3, <2>4, <2>7, <2>9
  <2>5. /\ ThreadMoves(o) /\ ThreadOK(o)
        /\ run'[o] # NoValue /\ run'[o].by = by /\ run'[o].node = n /\ run'[o].state = st
        /\ ckpt'[o] = ckpt[o] \/ ckpt'[o] = checkpoint(n, st)
    <3>1. UNCHANGED storeVars
      BY <2>10
    <3>2. evidence' = evidence
      BY <2>10
    <3>3. /\ n \in NodesOf(o) \cup {"END", "agent_investigation"} /\ by \in Callers
          /\ PlaceOK(Role(o, n), st, status[o]) /\ Saved(st, evidence[o])
          /\ status[o] # "absent"
          /\ run' = [run EXCEPT ![o] = [by |-> by, node |-> n, state |-> st]]
      BY <2>10
    <3>4. Begins(o, n, st)
      BY <1>1, <1>2, <1>3, <2>6, <2>9, BeginsCkpt
    <3>5. /\ ThreadMoves(o) /\ ThreadOK(o)
          /\ run'[o] # NoValue /\ run'[o].by = by /\ run'[o].node = n /\ run'[o].state = st
      BY <3>1, <3>2, <3>3, <3>4, BeginsThread
    <3>6. ckpt'[o] = ckpt[o] \/ ckpt'[o] = checkpoint(n, st)
      BY <3>4 DEF Begins
    <3> QED
      BY <3>5, <3>6
  <2>11. run'[o].node = "parse_request" \/ lag' = lag
    BY <2>1, <2>5
  <2> QED
    BY <1>5, <2>1, <2>5, <2>9, <2>11
<1>6. CASE rebuild_conflict(o) /\ (\E e \in Errors : mark_failed(o, e))
           /\ UNCHANGED <<run, ckpt, lag>>
  BY <1>6
<1>7. CASE /\ status[o] # "received" /\ ~ rebuild_conflict(o) /\ UNCHANGED <<storeVars, lag>>
           /\ run' = [run EXCEPT ![o] =
                         [by |-> IF status[o] = "resuming" THEN "rebuild_decision" ELSE "recover",
                          node |-> graph_edges(o)[completed_node_for(o)]["continue"],
                          state |-> state_from_detail(o)]]
           /\ ckpt' = [ckpt EXCEPT ![o] =
                          checkpoint(graph_edges(o)[completed_node_for(o)]["continue"],
                                     state_from_detail(o))]
  <2>1. PICK n, st, by :
            /\ n = graph_edges(o)[completed_node_for(o)]["continue"]
            /\ st = state_from_detail(o)
            /\ by = (IF status[o] = "resuming" THEN "rebuild_decision" ELSE "recover")
    OBVIOUS
  <2>2. /\ run' = [run EXCEPT ![o] = [by |-> by, node |-> n, state |-> st]]
        /\ ckpt' = [ckpt EXCEPT ![o] = checkpoint(n, st)]
        /\ UNCHANGED storeVars /\ UNCHANGED lag
    BY <1>7, <2>1
  <2>3. status[o] \in Active \ {"received"}
    BY <1>1, <1>7
  <2>4. n \in NodesOf(o) /\ PlaceOK(Role(o, n), st, status[o])
    BY <1>7, <2>1, <2>3, RebuiltPlace
  <2>5. Saved(st, evidence[o])
    BY <2>1, DetailState
  <2>6. n \in NodesOf(o) \cup {"END", "agent_investigation"} /\ by \in Callers
    BY <2>1, <2>4 DEF Callers
  <2>9. status[o] # "absent"
    BY <1>1 DEF Active
  <2>10. Begins(o, n, st)
    <3>1. n \in NodesOf(o) /\ UNCHANGED lag /\ ckpt' = [ckpt EXCEPT ![o] = checkpoint(n, st)]
      BY <2>2, <2>4
    <3>2. st \in GraphStates
      BY <2>4 DEF PlaceOK
    <3> QED
      BY <1>1, <1>2, <3>1, <3>2, BeginsCkpt
  <2>7. /\ ThreadMoves(o) /\ ThreadOK(o)
        /\ run'[o] # NoValue /\ run'[o].by = by /\ run'[o].node = n /\ run'[o].state = st
    BY <2>2, <2>4, <2>5, <2>6, <2>9, <2>10, BeginsThread
  <2>8. ckpt'[o] = checkpoint(n, st)
    BY <1>1, <2>2 DEF ScenarioTypeOK
  <2> QED
    BY <1>7, <2>1, <2>2, <2>7, <2>8
<1> QED
  BY <1>5, <1>6, <1>7, Zenon DEF rebuild_from_business_facts

\* The recovery of an operation.
LEMMA RecoverKeeps ==
    ASSUME GraphInv, NEW o \in Operations, recover(o)
    PROVE  [Next]_storeVars /\ GraphInv'
<1>1. /\ boot = "recovering" /\ o \in todo /\ run[o] = NoValue /\ todo' = todo \ {o}
      /\ UNCHANGED <<evidence, agent, decided, capturing, boot, crashes, setBack>>
      /\ (faults' = faults \/ fault)
  BY RecoverCases
<1>2. TypeOK /\ ScenarioTypeOK /\ status[o] # "absent" /\ DecidedOK(o)
  BY <1>1 DEF GraphInv, ProcessOK
<1>3. decided[o] = NoValue
  BY <1>1, <1>2 DEF DecidedOK
<1>4. /\ decided' \in [Operations -> ApprovalRows \cup {NoValue}] /\ faults' \in 0 .. MaxFaults
      /\ capturing' \subseteq Operations
  BY <1>1, <1>2, ScenarioAssumption DEF ScenarioTypeOK, fault
<1>5. CASE /\ (\E e \in Errors : mark_failed(o, e)) \/ UNCHANGED storeVars
           /\ UNCHANGED <<run, ckpt, lag>>
  <2>1. /\ [Next]_storeVars /\ UNCHANGED <<workOrders, approvals>>
        /\ \A q \in Operations : snapshot'[q].evidence = snapshot[q].evidence
    BY <1>2, <1>5, FailedStep
  <2> QED
    BY <1>1, <1>4, <1>5, <2>1, RowsOnly
<1>6. CASE UNCHANGED storeVars /\ ThreadMoves(o) /\ ThreadOK(o)
  <2>1. UNCHANGED <<status, snapshot, approvals, workOrders>>
    BY <1>6 DEF storeVars, opVars
  <2>2. \A q \in Operations : FactsSaved(q)'
    BY <1>1, <2>1, FactsKept DEF GraphInv
  <2>3. DecidedOK(o)'
    BY <1>1, <1>3 DEF DecidedOK
  <2> QED
    BY <1>1, <1>4, <1>6, <2>1, <2>2, <2>3, OneThread DEF ThreadMoves
<1>7. CASE /\ status[o] \notin Terminal /\ ckpt[o] = NoValue
           /\ rebuild_from_business_facts(o)
  <2>1. \/ (\E e \in Errors : mark_failed(o, e)) /\ UNCHANGED <<run, ckpt, lag>>
        \/ UNCHANGED storeVars /\ ThreadMoves(o) /\ ThreadOK(o)
    BY <1>1, <1>2, <1>7, RebuildCases
  <2> QED
    BY <1>5, <1>6, <2>1
<1>8. CASE /\ interrupted(o) /\ UNCHANGED storeVars
           /\ \E a \in detail_approval(o) : resume(o, a, "recover")
  <2>1. PICK a \in detail_approval(o) : resume(o, a, "recover")
    BY <1>8
  <2>2. a \in ApprovalRows /\ "recover" \in Callers
    BY <1>2 DEF detail_approval, TypeOK, Callers
  <2>3. ThreadOK(o) /\ ThreadMoves(o)
    BY <1>1, <1>8, <2>1, <2>2, ResumeSound
  <2> QED
    BY <1>6, <1>8, <2>3
<1>9. CASE /\ ckpt[o] # NoValue /\ ~ interrupted(o)
           /\ UNCHANGED <<storeVars, ckpt, lag>>
           /\ run' = [run EXCEPT ![o] = [by |-> "recover", node |-> ckpt[o].node,
                                         state |-> ckpt[o].state]]
  <2>1. PICK n, st : n = ckpt[o].node /\ st = ckpt[o].state
    OBVIOUS
  <2>2. /\ n \in NodesOf(o) \cup {"END"} /\ PlaceOK(Role(o, n), st, status[o])
        /\ Saved(st, evidence[o])
    BY <1>9, <2>1 DEF GraphInv, CkptOK
  <2>3. n \in NodesOf(o) \cup {"END", "agent_investigation"} /\ "recover" \in Callers
    BY <2>2 DEF Callers
  <2>4. /\ run' = [run EXCEPT ![o] = [by |-> "recover", node |-> n, state |-> st]]
        /\ UNCHANGED <<ckpt, lag>> /\ UNCHANGED storeVars
    BY <1>9, <2>1
  <2>6. Begins(o, n, st)
    BY <2>4 DEF GraphInv, ScenarioTypeOK, Begins
  <2>5. ThreadMoves(o) /\ ThreadOK(o)
    BY <1>1, <1>2, <2>2, <2>3, <2>4, <2>6, BeginsThread
  <2> QED
    BY <1>6, <2>4, <2>5
<1> QED
  BY <1>5, <1>7, <1>8, <1>9, RecoverCases

-----------------------------------------------------------------------------
(* Theorems for any lag *)

\* Every step preserves the invariant and is a step of the tables.
LEMMA ScenarioNextKeeps ==
    ASSUME GraphInv, [ScenarioNext]_scenarioVars
    PROVE  [Next]_storeVars /\ GraphInv'
<1>1. CASE UNCHANGED scenarioVars
  <2>1. UNCHANGED storeVars
        /\ UNCHANGED <<evidence, agent, run, ckpt, lag, decided, capturing, boot, todo, faults,
                       crashes, setBack>>
    BY <1>1 DEF scenarioVars
  <2>2. UNCHANGED <<snapshot, approvals, workOrders>>
    BY <2>1 DEF storeVars, opVars
  <2> QED
    BY <2>1, <2>2, RowsOnly DEF GraphInv, ScenarioTypeOK
<1>2. ASSUME NEW o \in Operations, GraphStep(o) PROVE [Next]_storeVars /\ GraphInv'
  BY <1>2, NodesKeep, InterruptKeeps, EndKeeps, ExceptionKeeps, ResumeKeeps DEF GraphStep,
     NodeAction
<1>3. ASSUME NEW o \in Operations,
             \/ \E req \in Requests : start(o, req)
             \/ capture_operation_outcome(o) \/ submit_approval(o) \/ submit_approval_resume(o)
      PROVE  [Next]_storeVars /\ GraphInv'
  BY <1>3, StartKeeps, CaptureKeeps, SubmitKeeps, SubmitResumeKeeps
<1>4. CASE crash \/ Startup \/ Clock
  BY <1>4, CrashKeeps, RestartKeeps, ExpireKeeps, PhaseKeeps, RecoverKeeps, ClockKeeps DEF Startup
<1> QED
  BY <1>1, <1>2, <1>3, <1>4 DEF ScenarioNext

\* The invariant holds in the beginning.
LEMMA ScenarioInitInv == ScenarioInit => GraphInv
<1> SUFFICES ASSUME ScenarioInit PROVE GraphInv
  OBVIOUS
<1>1. Init /\ TypeOK /\ DecisionInv
  BY InitType, InitDecision DEF ScenarioInit
<1>2. ScenarioTypeOK
  BY ScenarioAssumption DEF ScenarioInit, ScenarioTypeOK
<1>3. now <= MaxTime /\ OrdersAfterExecution
  BY <1>1, StoreAssumption DEF Init, OrdersAfterExecution, work_order_of
<1>4. ProcessOK
  BY DEF ProcessOK, ScenarioInit
<1>5. ASSUME NEW o \in Operations
      PROVE  /\ RowOK(o) /\ DeadlineOK(o) /\ ResultOK(o) /\ FactsSaved(o)
             /\ RunOK(o) /\ CkptOK(o) /\ DecidedOK(o)
  <2>1. RowOK(o) /\ DeadlineOK(o) /\ FactsSaved(o)
    BY <1>1 DEF Init, RowOK, DeadlineOK, FactsSaved, Saved, EmptySnapshot, AwaitingDecision
  <2>2. ResultOK(o)
    BY <1>1 DEF Init, ResultOK, work_order_of
  <2>3. RunOK(o) /\ CkptOK(o) /\ DecidedOK(o)
    BY DEF ScenarioInit, RunOK, CkptOK, DecidedOK
  <2> QED
    BY <2>1, <2>2, <2>3
<1> QED
  BY <1>1, <1>2, <1>3, <1>4, <1>5 DEF GraphInv

\* The invariant of the graphs, their recovery and the tables, for any lag of
\* the checkpointer.
THEOREM ScenarioInvariant == ScenarioSpec => []GraphInv
<1>1. GraphInv /\ [ScenarioNext]_scenarioVars => GraphInv'
  BY ScenarioNextKeeps
<1> QED
  BY <1>1, ScenarioInitInv, PTL DEF ScenarioSpec

\* The variables of the process have their types, and a coroutine stands at a
\* node of its own graph, also when the node was looked up by name from the
\* row: every step and every rebuild of the three graphs finds its edge.
THEOREM ScenarioTypes == ScenarioSpec => []ScenarioTypeOK
<1>1. GraphInv => ScenarioTypeOK
  BY DEF GraphInv
<1> QED
  BY <1>1, ScenarioInvariant, PTL

\* The evidence an operation is built on, and the evidence of every decision,
\* is in the evidence table, whatever is lost between the transaction that
\* saves it and the one that records it.
THEOREM ScenarioEvidenceSaved == ScenarioSpec => []RecordedEvidenceIsSaved
<1>1. GraphInv => RecordedEvidenceIsSaved
  BY DEF GraphInv, FactsSaved, Saved, RecordedEvidenceIsSaved
<1> QED
  BY <1>1, ScenarioInvariant, PTL

\* The three graphs, their failures, crashes and rebuilds move the tables only
\* by the repositories' transactions: what is proved of OperationStore holds
\* of them.
THEOREM ScenarioImplementsStore == ScenarioSpec => Spec
<1>1. ScenarioInit => Init
  BY DEF ScenarioInit
<1>2. GraphInv /\ [ScenarioNext]_scenarioVars => [Next]_storeVars
  BY ScenarioNextKeeps
<1> QED
  BY <1>1, <1>2, ScenarioInvariant, PTL DEF ScenarioSpec, Spec

\* Every operation that exists can be read.
RowsLoad == \A o \in Operations : status[o] # "absent" => load_detail_succeeds(o)

\* No operation is stuck behind a row that its recovery refuses: load_detail
\* returns whatever was lost, repeated or rebuilt.
THEOREM ScenarioDetailLoads == ScenarioSpec => []RowsLoad
<1>1. GraphInv => RowsLoad
  BY InvLoads DEF RowsLoad
<1> QED
  BY <1>1, ScenarioInvariant, PTL

-----------------------------------------------------------------------------
(* A restart uses the decision *)

ApprovedRoles == {"revalidate_evidence", "mark_verifier_aborted", "mark_executing",
                  "mark_needs_reapproval"}

\* A place that a decision of the current cycle leads to.
Follows(o, n, st) ==
    /\ n \in NodesOf(o)
    /\ \/ Role(o, n) = "mark_failed"
       \/ Role(o, n) = "mark_rejected" /\ approval_locator(o, st.approval, "rejected")
       \/ Role(o, n) \in ApprovedRoles /\ approval_locator(o, st.approval, "approved")

\* A decided operation runs on, or waits for its recovery, which finds no
\* checkpoint, the interrupt, or a place that the decision led to.
ResumingRun(o) ==
    /\ run[o] # NoValue
    /\ \/ Follows(o, run[o].node, run[o].state)
       \/ run[o].node = "resume_decision"
       \/ run[o].by = "rebuild_decision" /\ Role(o, run[o].node) \in StopRoles

ResumingCkpt(o) ==
    ckpt[o] = NoValue \/ interrupted(o) \/ Follows(o, ckpt[o].node, ckpt[o].state)

Waiting(o) ==
    run[o] = NoValue /\ (boot \in {"down", "expiring"} \/ (boot = "recovering" /\ o \in todo))

Resuming(o) == faults = 0 /\ crashes <= 1 /\ status[o] = "resuming"

Resumes(o) ==
    Resuming(o) =>
        /\ \/ ResumingRun(o)
           \/ Waiting(o)
           \/ decided[o] # NoValue /\ decided[o] \in detail_approval(o)
        /\ (crashes = 0 \/ Waiting(o)) => ResumingCkpt(o)

ResumeInv ==
    /\ boot # "serving" => crashes > 0
    /\ \A o \in Operations : Resumes(o)

\* While an operation is resuming, the decision that it follows stands.
LEMMA ResumingFrame ==
    ASSUME GraphInv, [Next]_storeVars, NEW o \in Operations,
           status[o] = "resuming", status'[o] = "resuming"
    PROVE  /\ cycle'[o] = cycle[o] /\ approvals \subseteq approvals'
           /\ NodesOf(o)' = NodesOf(o) /\ graph_roles(o)' = graph_roles(o)
           /\ \A a \in detail_approval(o) : a \in detail_approval(o)'
<1>1. StoreMoves(o) /\ request'[o] = request[o]
  BY NextMoves, RequestKept DEF GraphInv
<1>2. NodesOf(o)' = NodesOf(o) /\ graph_roles(o)' = graph_roles(o)
  BY <1>1, TableKept
<1>3. cycle'[o] = cycle[o] /\ approvals \subseteq approvals'
  BY <1>1 DEF StoreMoves, AwaitingDecision
<1> QED
  BY <1>2, <1>3 DEF detail_approval

LEMMA FollowsNext ==
    ASSUME GraphInv, [Next]_storeVars, NEW o \in Operations,
           status[o] = "resuming", status'[o] = "resuming", NEW n, NEW st, Follows(o, n, st)
    PROVE  Follows(o, n, st)'
<1>1. /\ cycle'[o] = cycle[o] /\ approvals \subseteq approvals'
      /\ NodesOf(o)' = NodesOf(o) /\ graph_roles(o)' = graph_roles(o)
  BY ResumingFrame
<1> QED
  BY <1>1 DEF Follows, Role, approval_locator

\* Only a recorded decision makes an operation resume.
LEMMA ResumesByDecision ==
    ASSUME GraphInv, [Next]_storeVars, NEW q \in Operations, approvals' = approvals,
           status'[q] = "resuming"
    PROVE  status[q] = "resuming"
<1> USE DEF GraphInv, TypeOK, transition
<1>1. ASSUME NEW o \in Operations, InvestigationNext(o) PROVE status[q] = "resuming"
  BY <1>1 DEF InvestigationNext, create, mark_gathering_evidence, record_evidence,
     record_validated_plan, record_query_assessment, mark_reporting, complete_without_replenishment
<1>2. ASSUME NEW o \in Operations, DecisionNext(o) PROVE status[q] = "resuming"
  <2>1. CASE \/ \E b \in Bindings, d \in 1..MaxDeadline : mark_awaiting_approval(o, b, d)
             \/ \E t \in 0..now : mark_expired(o, t) \/ submit_bound_once_expired(o, t)
             \/ \E a \in approvals : mark_rejected(o, a) \/ mark_verifier_aborted(o, a)
    BY <2>1 DEF mark_awaiting_approval, mark_expired, submit_bound_once_expired,
         mark_rejected, mark_verifier_aborted
  <2>2. CASE \E r \in Approvers, d \in Decisions, b \in Bindings, t \in 0..now :
                 submit_bound_once(o, r, d, b, t)
    <3>1. PICK r \in Approvers, d \in Decisions, b \in Bindings, t \in 0..now :
              submit_bound_once(o, r, d, b, t)
      BY <2>2
    <3>2. PICK a : a = [op |-> o, cycle |-> cycle[o], approver |-> r, decision |-> d,
                        binding |-> b, at |-> t]
      OBVIOUS
    <3>3. a \in approvals /\ a.op = o /\ a.cycle = cycle[o]
      BY <3>1, <3>2 DEF submit_bound_once
    <3>4. status[o] \in AwaitingDecision
      BY <3>1 DEF submit_bound_once, decision_open
    <3> QED
      BY <3>3, <3>4 DEF DecisionInv, CycleFollowsStatus, current_approval
  <2>3. CASE \E a \in approvals, b \in Bundles, p \in Plans, g \in Bindings, d \in 1..MaxDeadline :
                 mark_needs_reapproval(o, a, b, p, g, d)
    BY <2>3 DEF mark_needs_reapproval
  <2> QED
    BY <1>2, <2>1, <2>2, <2>3 DEF DecisionNext
<1>3. ASSUME NEW o \in Operations, ExecutionNext(o) PROVE status[q] = "resuming"
  BY <1>3 DEF ExecutionNext, mark_executing, create_or_get, mark_verifying, mark_completed,
       mark_failed
<1>4. SignalNext \/ Tick \/ UNCHANGED storeVars => status' = status
  BY DEF SignalNext, upsert_detected, create_successor, reconcile_terminal_links, Tick,
         storeVars, opVars
<1> QED
  BY <1>1, <1>2, <1>3, <1>4 DEF Next

\* A step that leaves the thread of o where it is, or loses its checkpoint.
LEMMA ResumesKept ==
    ASSUME GraphInv, [Next]_storeVars, NEW o \in Operations, Resumes(o),
           Resuming(o)' => Resuming(o),
           run'[o] = run[o], decided'[o] = decided[o], ckpt'[o] \in {ckpt[o], NoValue},
           Resuming(o) => (Waiting(o) => Waiting(o)'),
           Resuming(o) => (crashes' = 0 \/ Waiting(o)' => crashes = 0 \/ Waiting(o))
    PROVE  Resumes(o)'
<1> SUFFICES ASSUME Resuming(o)' PROVE
        /\ ResumingRun(o)' \/ Waiting(o)' \/ (decided'[o] # NoValue /\ decided'[o] \in detail_approval(o)')
        /\ (crashes' = 0 \/ Waiting(o)') => ResumingCkpt(o)'
  BY DEF Resumes
<1>1. Resuming(o) /\ status[o] = "resuming" /\ status'[o] = "resuming"
  BY DEF Resuming
<1>2. /\ ResumingRun(o) \/ Waiting(o) \/ (decided[o] # NoValue /\ decided[o] \in detail_approval(o))
      /\ (crashes = 0 \/ Waiting(o)) => ResumingCkpt(o)
  BY <1>1 DEF Resumes
<1>3. /\ NodesOf(o)' = NodesOf(o) /\ graph_roles(o)' = graph_roles(o)
      /\ \A a \in detail_approval(o) : a \in detail_approval(o)'
  BY <1>1, ResumingFrame
<1>4. PICK r, c : r = run[o] /\ c = ckpt[o]
  OBVIOUS
<1>5. ResumingRun(o) => ResumingRun(o)'
  <2>1. Follows(o, r.node, r.state) => Follows(o, r.node, r.state)'
    BY <1>1, FollowsNext
  <2> QED
    BY <1>3, <1>4, <2>1 DEF ResumingRun, Role, Follows
<1>6. ResumingCkpt(o) => ResumingCkpt(o)'
  <2>1. Follows(o, c.node, c.state) => Follows(o, c.node, c.state)'
    BY <1>1, FollowsNext
  <2> QED
    BY <1>3, <1>4, <2>1 DEF ResumingCkpt, interrupted, Follows
<1> QED
  BY <1>1, <1>2, <1>3, <1>5, <1>6

\* Where a coroutine stands while its operation is resuming.
LEMMA ResumingRole ==
    ASSUME NEW o, NEW role, at(o, role), ResumingRun(o)
    PROVE  \/ /\ role \in {"mark_failed", "mark_rejected"} \cup ApprovedRoles
              /\ Follows(o, run[o].node, run[o].state)
           \/ role = "resume_decision"
           \/ role \in StopRoles /\ run[o].by = "rebuild_decision"
BY DEF at, Role, ResumingRun, Follows, Positions

LEMMA ResumingHere ==
    ASSUME GraphInv, NEW o \in Operations, Resumes(o), Resuming(o), run[o] # NoValue
    PROVE  ResumingRun(o) /\ (crashes = 0 => ResumingCkpt(o))
BY DEF GraphInv, DecidedOK, Resumes, Waiting

\* A step after which the coroutine stands at a place that follows the decision.
LEMMA ResumesAlong ==
    ASSUME GraphInv, [Next]_storeVars, NEW o \in Operations, NEW n, NEW st,
           run'[o] # NoValue, run'[o].node = n, run'[o].state = st,
           Resuming(o)' =>
               /\ status[o] = "resuming" /\ Follows(o, n, st)
               /\ \/ ckpt'[o] = checkpoint(n, st)
                  \/ ckpt'[o] = ckpt[o] /\ (crashes' = 0 => ResumingCkpt(o))
    PROVE  Resumes(o)'
<1> SUFFICES ASSUME Resuming(o)' PROVE ResumingRun(o)' /\ (crashes' = 0 => ResumingCkpt(o)')
  BY DEF Resumes, Waiting
<1>1. status[o] = "resuming" /\ status'[o] = "resuming" /\ Follows(o, n, st)
  BY DEF Resuming
<1>2. Follows(o, n, st)'
  BY <1>1, FollowsNext
<1>3. ResumingRun(o)'
  BY <1>2 DEF ResumingRun, Follows, Role
<1>4. ASSUME crashes' = 0 PROVE ResumingCkpt(o)'
  <2>1. CASE ckpt'[o] = checkpoint(n, st)
    BY <1>2, <2>1 DEF ResumingCkpt, checkpoint, Follows, Role
  <2>2. CASE ckpt'[o] = ckpt[o] /\ ResumingCkpt(o)
    <3>1. PICK c : c = ckpt[o]
      OBVIOUS
    <3>2. Follows(o, c.node, c.state) => Follows(o, c.node, c.state)'
      BY <1>1, FollowsNext
    <3> QED
      BY <2>2, <3>1, <3>2 DEF ResumingCkpt, interrupted, Follows, Role
  <2> QED
    BY <1>4, <2>1, <2>2
<1> QED
  BY <1>3, <1>4

\* A node that settles a decided operation leaves status resuming, or fails.
LEMMA NodeSettles ==
    ASSUME GraphInv, NEW o \in Operations, status[o] = "resuming",
           \/ graph_mark_failed(o)
           \/ /\ graph_mark_rejected(o)
              /\ approval_locator(o, run[o].state.approval, "rejected")
           \/ /\ graph_mark_verifier_aborted(o) \/ graph_mark_needs_reapproval(o)
                     \/ graph_mark_executing(o)
              /\ approval_locator(o, run[o].state.approval, "approved")
    PROVE  status'[o] # "resuming" \/ fault
<1> DEFINE st == run[o].state
<1>1. TypeOK
  BY DEF GraphInv
<1>2. CASE graph_mark_failed(o)
  <2>1. (\E e \in Errors : mark_failed(o, e)) \/ status[o] \notin Active \/ fault
    BY <1>2, Zenon DEF graph_mark_failed
  <2> QED
    BY <1>1, <2>1 DEF mark_failed, transition, Active, TypeOK
<1>3. CASE graph_mark_rejected(o) /\ approval_locator(o, st.approval, "rejected")
  <2>1. mark_rejected(o, st.approval) \/ fault \/ status[o] = "rejected"
    BY <1>3, Zenon DEF graph_mark_rejected, Transition, replayed
  <2> QED
    BY <1>1, <2>1 DEF mark_rejected, transition, TypeOK
<1>4. CASE graph_mark_verifier_aborted(o) /\ approval_locator(o, st.approval, "approved")
  <2>1. mark_verifier_aborted(o, st.approval) \/ fault \/ status[o] = "aborted"
    BY <1>4, Zenon DEF graph_mark_verifier_aborted, Transition, replayed
  <2> QED
    BY <1>1, <2>1 DEF mark_verifier_aborted, transition, TypeOK
<1>5. CASE graph_mark_needs_reapproval(o) /\ approval_locator(o, st.approval, "approved")
  <2>1. \/ mark_needs_reapproval(o, st.approval, st.evidence, st.plan, st.binding,
                                 now + ApprovalTtl)
        \/ fault \/ status[o] = "needs_reapproval"
    BY <1>5, Zenon DEF graph_mark_needs_reapproval, Transition, replayed
  <2> QED
    BY <1>1, <2>1 DEF mark_needs_reapproval, transition, TypeOK
<1>6. CASE graph_mark_executing(o) /\ approval_locator(o, st.approval, "approved")
  <2>1. mark_executing(o, st.approval) \/ fault \/ status[o] = "executing"
    BY <1>6, Zenon DEF graph_mark_executing, Transition, replayed
  <2> QED
    BY <1>1, <2>1 DEF mark_executing, transition, TypeOK
<1> QED
  BY <1>2, <1>3, <1>4, <1>5, <1>6

\* Where the revalidation of a decided operation leads, its approval in hand.
LEMMA RevalidateLeads ==
    ASSUME GraphInv, NEW o \in Operations, revalidate_evidence(o)
    PROVE  \E role \in ApprovedRoles \cup {"mark_failed"} : \E st \in GraphStates :
               /\ role # "revalidate_evidence"
               /\ Goes(o, role, st) /\ st.approval = run[o].state.approval
               /\ role = "mark_executing" => st = run[o].state
<1> DEFINE st == run[o].state
<1>1. at(o, "revalidate_evidence") /\ "revalidate_evidence" \in Roles
  BY RoleNames DEF revalidate_evidence
<1>2. /\ run[o] # NoValue /\ st \in GraphStates /\ ScenarioTypeOK /\ TableOK(o)
      /\ Role(o, run[o].node) = "revalidate_evidence" /\ Edges(o, run[o].node)
  BY <1>1, RunningPlace
<1>3. /\ Leads(o, run[o].node, "proceed", "mark_executing")
      /\ Leads(o, run[o].node, "abort", "mark_verifier_aborted")
      /\ Leads(o, run[o].node, "reapproval", "mark_needs_reapproval")
      /\ Leads(o, run[o].node, "failure", "mark_failed")
  BY <1>2 DEF Edges
<1>4. CASE fail(o)
  <2>1. leave(o, "failure", st)
    BY <1>4 DEF fail
  <2>2. Goes(o, "mark_failed", st)
    BY <1>2, <1>3, <2>1, LeaveGoes
  <2> QED
    BY <1>2, <2>2
<1>5. CASE ~ fail(o)
  <2>1. PICK b \in Bundles, verdict \in {"proceed", "abort", "escalate"} :
            LET plan == PlanOf[b]
                binding == build_approval_binding(b, plan)
                route == verification_route(plan, verdict,
                                            binding_facts(binding) = binding_facts(st.binding))
                refreshed == [st EXCEPT !.evidence = b, !.plan = plan, !.binding = binding]
            IN  leave(o, route, IF route = "reapproval" THEN refreshed ELSE st)
    BY <1>5, Zenon DEF revalidate_evidence
  <2>2. PICK plan, binding, matches, route, refreshed, next :
            /\ plan = PlanOf[b] /\ binding = build_approval_binding(b, plan)
            /\ matches = (binding_facts(binding) = binding_facts(st.binding))
            /\ route = verification_route(plan, verdict, matches)
            /\ refreshed = [st EXCEPT !.evidence = b, !.plan = plan, !.binding = binding]
            /\ next = IF route = "reapproval" THEN refreshed ELSE st
    OBVIOUS
  <2>3. leave(o, route, next)
    BY <2>1, <2>2
  <2>4. /\ route \in {"abort", "reapproval", "proceed", "failure"}
        /\ route = "reapproval" => plan # NoValue
    BY <2>2 DEF verification_route, choose_verification_route
  <2>5. next \in GraphStates /\ next.approval = st.approval
    <3>1. CASE route = "reapproval"
      <4>1. plan \in Plans
        BY <2>2, <2>4, <3>1, StoreAssumption
      <4>2. binding \in Bindings
        BY <2>2, <4>1 DEF build_approval_binding, Bindings
      <4> QED
        BY <1>2, <2>2, <3>1, <4>1, <4>2 DEF GraphStates
    <3>2. CASE route # "reapproval"
      BY <1>2, <2>2, <3>2
    <3> QED
      BY <3>1, <3>2
  <2>6. PICK role \in {"mark_executing", "mark_verifier_aborted", "mark_needs_reapproval",
                       "mark_failed"} :
            Leads(o, run[o].node, route, role) /\ (role = "mark_executing" => route = "proceed")
    BY <1>3, <2>4
  <2>7. Goes(o, role, next)
    BY <1>2, <2>3, <2>5, <2>6, LeaveGoes
  <2>8. role = "mark_executing" => next = st
    BY <2>2, <2>6
  <2> QED
    BY <2>5, <2>6, <2>7, <2>8 DEF ApprovedRoles
<1> QED
  BY <1>4, <1>5

\* While it is resuming, a fault or a later status would show.
LEMMA ResumingBefore ==
    ASSUME GraphInv, [Next]_storeVars, NEW q \in Operations, approvals' = approvals,
           crashes' = crashes, faults' \in faults .. MaxFaults, Resuming(q)'
    PROVE  Resuming(q) /\ faults' = faults /\ ~ fault
<1>1. faults' = 0 /\ crashes' <= 1 /\ status'[q] = "resuming" /\ faults \in 0 .. MaxFaults
  BY DEF Resuming, GraphInv, ScenarioTypeOK
<1>2. faults = 0 /\ ~ fault
  BY <1>1, ScenarioAssumption DEF fault
<1> QED
  BY <1>1, <1>2, ResumesByDecision DEF Resuming

\* The step of a node leaves the other operations as they are.
LEMMA NodeResumesOthers ==
    ASSUME GraphInv, NEW o \in Operations, NodeAction(o),
           NEW q \in Operations, q # o, Resumes(q)
    PROVE  Resumes(q)'
<1>1. [Next]_storeVars /\ NodeStep(o) /\ NodeLands(o)
  BY NodesKeep, NodesLand
<1>2. run'[q] = run[q] /\ ckpt'[q] = ckpt[q]
  BY <1>1 DEF NodeLands, Raises, Goes, Slips, ThreadMoves
<1>3. /\ approvals' = approvals /\ UNCHANGED <<agent, decided, capturing, boot, todo, crashes>>
      /\ faults' \in faults .. MaxFaults
  BY <1>1 DEF NodeStep, processVars
<1>4. Resuming(q)' => Resuming(q)
  BY <1>1, <1>3, ResumingBefore
<1>5. /\ Waiting(q)' <=> Waiting(q)
      /\ decided'[q] = decided[q] /\ crashes' = crashes
  BY <1>2, <1>3 DEF Waiting
<1> QED
  BY <1>1, <1>2, <1>4, <1>5, ResumesKept

\* The step of a node of a decided operation follows the decision.
LEMMA NodeResumes ==
    ASSUME GraphInv, NEW o \in Operations, NodeAction(o), Resumes(o)
    PROVE  Resumes(o)'
<1>1. [Next]_storeVars /\ NodeStep(o)
  BY NodesKeep, NodesLand
<1>2. /\ run[o] # NoValue /\ approvals' = approvals /\ crashes' = crashes
      /\ faults' \in faults .. MaxFaults
  BY <1>1 DEF NodeStep, processVars
<1>3. ASSUME Resuming(o)'
      PROVE  /\ status[o] = "resuming" /\ status'[o] = "resuming" /\ ~ fault
             /\ ResumingRun(o) /\ (crashes' = 0 => ResumingCkpt(o))
  <2>1. Resuming(o) /\ ~ fault
    BY <1>1, <1>2, <1>3, ResumingBefore
  <2> QED
    BY <1>2, <1>3, <2>1, ResumingHere DEF Resuming
<1>4. CASE revalidate_evidence(o)
  <2>1. PICK role \in ApprovedRoles \cup {"mark_failed"}, st \in GraphStates :
            /\ role # "revalidate_evidence"
            /\ Goes(o, role, st) /\ st.approval = run[o].state.approval
    BY <1>4, RevalidateLeads
  <2>2. PICK n \in NodesOf(o) \cup {"END"} :
            Role(o, n) = role /\ Stands(o, n, st) /\ Saves(o, n, st)
    BY <2>1 DEF Goes
  <2>3. run'[o] # NoValue /\ run'[o].node = n /\ run'[o].state = st
        /\ (ckpt'[o] = checkpoint(n, st) \/ ckpt'[o] = ckpt[o])
    BY <2>2 DEF Stands, Saves
  <2>4. ASSUME Resuming(o)' PROVE Follows(o, n, st)
    <3>1. at(o, "revalidate_evidence") /\ ResumingRun(o)
      BY <1>3, <1>4, <2>4 DEF revalidate_evidence
    <3>2. Follows(o, run[o].node, run[o].state) /\ Role(o, run[o].node) = "revalidate_evidence"
      BY <3>1, ResumingRole, RunningPlace DEF StopRoles
    <3>3. approval_locator(o, st.approval, "approved")
      BY <2>1, <3>2 DEF Follows
    <3>4. n \in NodesOf(o)
      BY <2>1, <2>2 DEF Role, Positions, ApprovedRoles
    <3> QED
      BY <2>1, <2>2, <3>3, <3>4 DEF Follows
  <2> QED
    BY <1>1, <1>3, <2>3, <2>4, ResumesAlong
<1>5. CASE ~ revalidate_evidence(o)
  <2> SUFFICES ASSUME Resuming(o)' PROVE FALSE
    BY DEF Resumes
  <2>1. /\ status[o] = "resuming" /\ status'[o] = "resuming" /\ ~ fault /\ ResumingRun(o)
    BY <1>3
  <2>2. ASSUME NEW role, at(o, role),
               role \in {"mark_failed", "mark_rejected"} \cup ApprovedRoles
        PROVE  Follows(o, run[o].node, run[o].state) /\ Role(o, run[o].node) = role
    BY <2>1, <2>2, ResumingRole, RunningPlace DEF StopRoles, ApprovedRoles
  <2>3. CASE graph_mark_failed(o)
    BY <2>1, <2>3, NodeSettles
  <2>4. CASE graph_mark_rejected(o)
    <3>1. approval_locator(o, run[o].state.approval, "rejected")
      BY <2>2, <2>4 DEF graph_mark_rejected, Follows, ApprovedRoles
    <3> QED
      BY <2>1, <2>4, <3>1, NodeSettles
  <2>5. CASE graph_mark_verifier_aborted(o) \/ graph_mark_needs_reapproval(o)
             \/ graph_mark_executing(o)
    <3>1. \E role \in ApprovedRoles : at(o, role)
      BY <2>5 DEF graph_mark_verifier_aborted, graph_mark_needs_reapproval,
         graph_mark_executing, ApprovedRoles
    <3>2. approval_locator(o, run[o].state.approval, "approved")
      BY <2>2, <3>1 DEF Follows, ApprovedRoles
    <3> QED
      BY <2>1, <2>5, <3>2, NodeSettles
  <2>6. CASE \E role : /\ at(o, role) /\ role # "resume_decision"
                       /\ role \notin {"mark_failed", "mark_rejected"} \cup ApprovedRoles
                                          \cup StopRoles
    BY <2>1, <2>6, ResumingRole
  <2>7. \/ graph_mark_failed(o) \/ graph_mark_rejected(o) \/ graph_mark_verifier_aborted(o)
        \/ graph_mark_needs_reapproval(o) \/ graph_mark_executing(o)
        \/ at(o, "agent_investigation") \/ at(o, "parse_request") \/ at(o, "mark_gathering")
        \/ at(o, "gather_evidence") \/ at(o, "record_evidence")
        \/ at(o, "calculate_assessment") \/ at(o, "record_normal_plan")
        \/ at(o, "record_query_assessment") \/ at(o, "mark_reporting")
        \/ at(o, "complete_without_replenishment") \/ at(o, "explain_plan")
        \/ at(o, "build_and_validate_plan") \/ at(o, "record_low_plan")
        \/ at(o, "prepare_approval") \/ at(o, "execute_work_order")
        \/ at(o, "mark_verifying") \/ at(o, "verify_work_order") \/ at(o, "mark_completed")
    BY <1>5, Zenon DEF NodeAction, agent_investigation, parse_request, mark_gathering,
       gather_evidence, gather_record_evidence, calculate_assessment, record_normal_plan,
       graph_record_query_assessment, graph_mark_reporting,
       graph_complete_without_replenishment, explain_plan, build_and_validate_plan,
       record_low_plan, prepare_approval, execute_work_order, graph_mark_verifying,
       verify_work_order, graph_mark_completed
  <2> QED
    BY <2>3, <2>4, <2>5, <2>6, <2>7 DEF ApprovedRoles, StopRoles
<1> QED
  BY <1>4, <1>5

\* What a step outside the nodes leaves to the other operations.
LEMMA ResumesOther ==
    ASSUME GraphInv, [Next]_storeVars, NEW o, NEW q \in Operations, q # o, Resumes(q),
           run'[q] = run[q], ckpt'[q] = ckpt[q], decided'[q] = decided[q],
           boot' = boot, crashes' = crashes, todo' = todo \/ todo' = todo \ {o},
           status'[q] = status[q], faults' = faults \/ fault
    PROVE  Resumes(q)'
<1>1. faults' = 0 => faults = 0
  BY ScenarioAssumption DEF fault, GraphInv, ScenarioTypeOK
<1>2. Resuming(q)' => Resuming(q)
  BY <1>1 DEF Resuming
<1>3. Waiting(q)' <=> Waiting(q)
  BY DEF Waiting
<1> QED
  BY <1>2, <1>3, ResumesKept

LEMMA FailedRows ==
    ASSUME TypeOK, NEW o \in Operations,
           (\E e \in Errors : mark_failed(o, e)) \/ mark_start_failed(o) \/ UNCHANGED storeVars
    PROVE  /\ \A q \in Operations : q # o => status'[q] = status[q]
           /\ status'[o] = "resuming" => UNCHANGED storeVars
<1>1. CASE \E e \in Errors : mark_failed(o, e)
  BY <1>1 DEF mark_failed, transition, TypeOK
<1>2. CASE UNCHANGED storeVars
  BY <1>2 DEF storeVars, opVars
<1> QED
  BY <1>1, <1>2 DEF mark_start_failed

\* The decision that is handed over is followed.
LEMMA ResumeFollows ==
    ASSUME GraphInv, NEW o \in Operations, interrupted(o), NEW a \in detail_approval(o),
           NEW by \in Callers, resume(o, a, by), UNCHANGED storeVars
    PROVE  Resumes(o)' /\ \A q \in Operations : q # o => run'[q] = run[q] /\ ckpt'[q] = ckpt[q]
<1>1. a \in ApprovalRows /\ a \in approvals /\ a.op = o /\ a.cycle = cycle[o]
      /\ a.decision \in {"approved", "rejected"}
  BY DEF detail_approval, GraphInv, TypeOK, ApprovalRows, Decisions
<1>2. /\ ThreadMoves(o) /\ run'[o] # NoValue /\ run'[o].node \in NodesOf(o)
      /\ \E role \in {"mark_rejected", "revalidate_evidence"} : \E st \in GraphStates :
                /\ Role(o, run'[o].node) = role /\ run'[o].state = st
                /\ role = "revalidate_evidence" <=> a.decision = "approved"
                /\ st.approval = a
                /\ Saves(o, run'[o].node, st)
  BY <1>1, ResumeThread
<1>3. PICK role, st, n :
          /\ role \in {"mark_rejected", "revalidate_evidence"}
          /\ Role(o, n) = role /\ run'[o].state = st /\ run'[o].node = n
          /\ role = "revalidate_evidence" <=> a.decision = "approved"
          /\ st.approval = a
          /\ Saves(o, n, st)
  BY <1>2
<1>4. approval_locator(o, a, a.decision)
  BY <1>1 DEF approval_locator
<1>5. Follows(o, n, st)
  BY <1>1, <1>2, <1>3, <1>4 DEF Follows, ApprovedRoles
<1>6. ResumingCkpt(o) /\ (ckpt'[o] = checkpoint(n, st) \/ ckpt'[o] = ckpt[o])
  BY <1>3 DEF ResumingCkpt, Saves
<1>7. Resuming(o)' => status[o] = "resuming"
  BY DEF Resuming, storeVars, opVars
<1>8. Resumes(o)'
  BY <1>2, <1>3, <1>5, <1>6, <1>7, ResumesAlong
<1> QED
  BY <1>2, <1>8 DEF ThreadMoves

\* A rebuilt operation that waits for its decision is interrupted.
LEMMA AtDecision ==
    ASSUME GraphInv, NEW o \in Operations, at(o, "resume_decision")
    PROVE  run[o] # NoValue /\ run[o].node = "resume_decision" /\ interrupted(o)
<1>1. /\ run[o] # NoValue /\ TableOK(o) /\ RunOK(o)
      /\ Role(o, run[o].node) = "resume_decision"
  BY RunningPlace DEF GraphInv
<1>2. run[o].node \notin NodesOf(o)
  BY <1>1, RoleNames DEF TableOK
<1> QED
  BY <1>1, <1>2 DEF RunOK, Role

\* The interrupt of a rebuilt operation that was decided: its resume is next.
LEMMA StopResumes ==
    ASSUME GraphInv, NEW o \in Operations, Stops(o), Resumes(o)
    PROVE  Resumes(o)'
<1>1. [Next]_storeVars /\ GraphInv' /\ ScenarioTypeOK
  BY StopKeeps DEF GraphInv
<1>2. PICK role \in StopRoles : at(o, role)
  BY DEF Stops, StopRoles
<1>3. run[o] # NoValue /\ crashes' = crashes /\ faults' = faults /\ status' = status
  BY <1>2 DEF Stops, at, storeVars, opVars
<1>5. ASSUME Resuming(o)' PROVE ResumingRun(o)' /\ ResumingCkpt(o)'
  <2>1. Resuming(o)
    BY <1>3, <1>5 DEF Resuming
  <2>2. run[o].by = "rebuild_decision"
    BY <1>2, <1>3, <2>1, ResumingHere, ResumingRole DEF StopRoles, ApprovedRoles
  <2>3. run' = [run EXCEPT ![o].node = "resume_decision"]
    BY <2>2 DEF Stops, interrupt
  <2>4. run[o] \in Runs /\ "resume_decision" \in Nodes \cup Positions
    BY <1>1, <1>3 DEF ScenarioTypeOK, Positions
  <2>5. run'[o] \in Runs /\ run'[o].node = "resume_decision"
    BY <1>1, <2>3, <2>4 DEF ScenarioTypeOK, Runs
  <2>6. run'[o] # NoValue
    BY <2>5, NoThreadAssumption
  <2>7. interrupted(o)'
    BY <1>1, <2>5, <2>6 DEF GraphInv, RunOK
  <2> QED
    BY <2>5, <2>6, <2>7 DEF ResumingRun, ResumingCkpt
<1> QED
  BY <1>5 DEF Resumes

\* No fault, and the row of a resuming operation in order: it does stop.
LEMMA InterruptResumes ==
    ASSUME GraphInv, NEW o \in Operations, request_approval(o), Resumes(o)
    PROVE  /\ Resumes(o)'
           /\ \A q \in Operations : q # o => run'[q] = run[q] /\ ckpt'[q] = ckpt[q]
<1>1. CASE Stops(o)
  BY <1>1, StopResumes, InterruptPlace
<1>2. CASE /\ NodeLands(o) /\ UNCHANGED storeVars
           /\ status[o] \in AwaitingDecision \cup {"resuming"} => fault
  <2>1. status' = status /\ faults \in Nat
    BY <1>2 DEF storeVars, opVars, GraphInv, ScenarioTypeOK
  <2>2. ~ Resuming(o)'
    BY <1>2, <2>1 DEF Resuming, fault
  <2>3. ThreadMoves(o)
    BY <1>2 DEF NodeLands, Raises, Goes, Slips
  <2> QED
    BY <2>2, <2>3 DEF Resumes, ThreadMoves
<1> QED
  BY <1>1, <1>2, RequestCases

\* A coroutine that ends, or raised an exception, is not resuming.
LEMMA EndResumes ==
    ASSUME GraphInv, NEW o \in Operations, graph_end(o) \/ handle_exception(o), Resumes(o)
    PROVE  /\ Resumes(o)'
           /\ \A q \in Operations : q # o => /\ run'[q] = run[q] /\ ckpt'[q] = ckpt[q]
                                          /\ status'[q] = status[q]
<1>1. TypeOK /\ ScenarioTypeOK
  BY DEF GraphInv
<1>2. /\ crashes' = crashes /\ faults' = faults
      /\ mark_start_failed(o) \/ UNCHANGED storeVars
  BY Zenon DEF graph_end, handle_exception, processVars
<1>3. /\ status'[o] = "resuming" => UNCHANGED storeVars
      /\ \A q \in Operations : q # o => status'[q] = status[q]
  BY <1>1, <1>2, FailedRows
<1>4. \A q \in Operations : q # o => run'[q] = run[q] /\ ckpt'[q] = ckpt[q]
  <2>1. run' = [run EXCEPT ![o] = NoValue]
    BY DEF graph_end, handle_exception
  <2>2. \A q \in Operations : q # o => ckpt'[q] = ckpt[q]
    BY <1>1 DEF graph_end, handle_exception, ScenarioTypeOK
  <2> QED
    BY <1>1, <2>1, <2>2 DEF ScenarioTypeOK
<1>5. ASSUME Resuming(o)' PROVE FALSE
  <2>1. PICK role : at(o, role) /\ (role = "END" \/ role = "raised" \/ role = "conflict")
    BY DEF graph_end, handle_exception
  <2>2. Resuming(o) /\ run[o] # NoValue
    BY <1>2, <1>3, <1>5, <2>1 DEF Resuming, at, storeVars, opVars
  <2> QED
    BY <2>1, <2>2, ResumingHere, ResumingRole DEF StopRoles, ApprovedRoles
<1> QED
  BY <1>3, <1>4, <1>5 DEF Resumes

\* The coroutines that are not in a node.
LEMMA CoroutineResumes ==
    ASSUME GraphInv, ResumeInv, NEW o \in Operations,
           \/ request_approval(o) \/ graph_end(o) \/ handle_exception(o)
           \/ resume_persisted_decision(o)
    PROVE  ResumeInv'
<1>1. [Next]_storeVars
  BY InterruptKeeps, EndKeeps, ExceptionKeeps, ResumeKeeps
<1>2. UNCHANGED <<boot, crashes, todo, decided>> /\ (faults' = faults \/ fault)
  BY Zenon DEF request_approval, graph_end, handle_exception, resume_persisted_decision,
     processVars
<1>3. Resumes(o)
  BY DEF ResumeInv
<1>4. /\ Resumes(o)'
      /\ \A q \in Operations : q # o => /\ run'[q] = run[q] /\ ckpt'[q] = ckpt[q]
                                     /\ status'[q] = status[q]
  <2>1. CASE request_approval(o)
    <3>1. status' = status
      BY <2>1 DEF request_approval, storeVars, opVars
    <3> QED
      BY <1>3, <2>1, <3>1, InterruptResumes
  <2>2. CASE graph_end(o) \/ handle_exception(o)
    BY <1>3, <2>2, EndResumes
  <2>3. CASE resume_persisted_decision(o)
    <3>1. /\ interrupted(o) /\ UNCHANGED storeVars /\ evidence' = evidence
          /\ run[o] # NoValue /\ run[o].node = "resume_decision"
      BY <2>3, AtDecision DEF resume_persisted_decision
    <3>2. status' = status
      BY <3>1 DEF storeVars, opVars
    <3>3. CASE \E a \in detail_approval(o) : resume(o, a, "recover")
      <4>1. PICK a \in detail_approval(o), by \in Callers : resume(o, a, by)
        BY <3>3 DEF Callers
      <4> QED
        BY <3>1, <3>2, <4>1, ResumeFollows
    <3>4. CASE /\ fault /\ run' = [run EXCEPT ![o].node = "raised"]
               /\ UNCHANGED <<ckpt, lag>>
      <4>1. ThreadMoves(o)
        BY <3>1, <3>4, ResumeRaises
      <4>2. ~ Resuming(o)'
        BY <3>4 DEF Resuming, fault, GraphInv, ScenarioTypeOK
      <4> QED
        BY <3>2, <4>1, <4>2 DEF Resumes, ThreadMoves
    <3> QED
      BY <2>3, <3>3, <3>4 DEF resume_persisted_decision
  <2> QED
    BY <2>1, <2>2, <2>3
<1>5. ASSUME NEW q \in Operations, q # o PROVE Resumes(q)'
  <2>1. /\ Resumes(q) /\ run'[q] = run[q] /\ ckpt'[q] = ckpt[q] /\ decided'[q] = decided[q]
        /\ boot' = boot /\ crashes' = crashes /\ todo' = todo /\ status'[q] = status[q]
        /\ (faults' = faults \/ fault)
    BY <1>2, <1>4, <1>5 DEF ResumeInv
  <2> QED
    BY <1>1, <1>5, <2>1, ResumesOther
<1> QED
  BY <1>2, <1>4, <1>5 DEF ResumeInv

\* A start, and a decision.
LEMMA RunnerResumes ==
    ASSUME GraphInv, ResumeInv, NEW o \in Operations,
           \/ \E req \in Requests : start(o, req)
           \/ capture_operation_outcome(o) \/ submit_approval(o) \/ submit_approval_resume(o)
    PROVE  ResumeInv'
<1>1. [Next]_storeVars /\ TypeOK /\ ScenarioTypeOK /\ Resumes(o)
  BY StartKeeps, CaptureKeeps, SubmitKeeps, SubmitResumeKeeps DEF GraphInv, ResumeInv
<1>2. UNCHANGED <<boot, crashes, todo>> /\ (faults' = faults \/ fault)
  BY Zenon DEF start, capture_operation_outcome, submit_approval, submit_approval_resume,
     processVars
<1>3. /\ Resumes(o)'
      /\ \A q \in Operations : q # o => /\ run'[q] = run[q] /\ ckpt'[q] = ckpt[q]
                                     /\ decided'[q] = decided[q] /\ status'[q] = status[q]
  <2>1. CASE \E req \in Requests : start(o, req)
    <3>1. UNCHANGED <<ckpt, decided>> /\ \A q \in Operations : q # o => run'[q] = run[q]
      BY <1>1, <2>1 DEF start, processVars, ScenarioTypeOK
    <3>2. status'[o] = "received" /\ \A q \in Operations : q # o => status'[q] = status[q]
      BY <1>1, <2>1 DEF start, create, TypeOK
    <3> QED
      BY <3>1, <3>2 DEF Resumes, Resuming
  <2>2. CASE capture_operation_outcome(o)
    <3>1. /\ UNCHANGED <<run, ckpt, decided>>
          /\ mark_start_failed(o) \/ UNCHANGED storeVars
      BY <2>2 DEF capture_operation_outcome
    <3>2. /\ status'[o] = "resuming" => UNCHANGED storeVars
          /\ \A q \in Operations : q # o => status'[q] = status[q]
      BY <1>1, <3>1, FailedRows
    <3>3. Resuming(o)' => Resuming(o)
      BY <1>1, <1>2, <3>2, ScenarioAssumption DEF Resuming, fault, storeVars, opVars, ScenarioTypeOK
    <3>4. Waiting(o)' <=> Waiting(o)
      BY <1>2, <3>1 DEF Waiting
    <3>5. Resumes(o)'
      BY <1>1, <1>2, <3>1, <3>3, <3>4, ResumesKept
    <3> QED
      BY <3>1, <3>2, <3>5
  <2>3. CASE submit_approval(o)
    <3>1. /\ interrupted(o) /\ UNCHANGED <<run, ckpt>>
      BY <2>3 DEF submit_approval
    <3>2. CASE submit_bound_once_expired(o, now) /\ UNCHANGED decided
      <4>1. status'[o] = "expired" /\ \A q \in Operations : q # o => status'[q] = status[q]
        BY <1>1, <3>2 DEF submit_bound_once_expired, TypeOK
      <4> QED
        BY <3>1, <3>2, <4>1 DEF Resumes, Resuming
    <3>3. CASE \E r \in Approvers, d \in Decisions, b \in Bindings :
              /\ submit_bound_once(o, r, d, b, now)
              /\ decided' = [decided EXCEPT ![o] =
                              [op |-> o, cycle |-> cycle[o], approver |-> r,
                               decision |-> d, binding |-> b, at |-> now]]
      <4>1. PICK r \in Approvers, d \in Decisions, b \in Bindings :
              /\ submit_bound_once(o, r, d, b, now)
              /\ decided' = [decided EXCEPT ![o] =
                              [op |-> o, cycle |-> cycle[o], approver |-> r,
                               decision |-> d, binding |-> b, at |-> now]]
        BY <3>3
      <4>2. PICK a : a = [op |-> o, cycle |-> cycle[o], approver |-> r,
                          decision |-> d, binding |-> b, at |-> now]
        OBVIOUS
      <4>3. a \in ApprovalRows /\ a.op = o /\ a.cycle = cycle[o]
        BY <1>1, <4>2 DEF TypeOK, ApprovalRows
      <4>4. /\ approvals' = approvals \cup {a} /\ cycle' = cycle
            /\ \A q \in Operations : q # o => status'[q] = status[q]
        BY <1>1, <4>1, <4>2 DEF submit_bound_once, TypeOK
      <4>5. decided' = [decided EXCEPT ![o] = a]
        BY <4>1, <4>2
      <4>6. /\ decided'[o] = a
            /\ \A q \in Operations : q # o => decided'[q] = decided[q]
        BY <1>1, <4>5 DEF ScenarioTypeOK
      <4>7. a # NoValue
        BY <4>3, NoThreadAssumption
      <4>8. decided'[o] # NoValue /\ decided'[o] \in detail_approval(o)'
        BY <4>3, <4>4, <4>6, <4>7 DEF detail_approval
      <4>9. ResumingCkpt(o)'
        BY <3>1 DEF ResumingCkpt, interrupted
      <4> QED
        BY <3>1, <4>4, <4>6, <4>8, <4>9 DEF Resumes
    <3> QED
      BY <2>3, <3>2, <3>3 DEF submit_approval
  <2>4. CASE submit_approval_resume(o)
    <3>1. /\ decided[o] # NoValue /\ UNCHANGED storeVars
          /\ \A q \in Operations : q # o => decided'[q] = decided[q]
          /\ (resume(o, decided[o], "submit") /\ UNCHANGED faults)
             \/ (fault /\ UNCHANGED <<run, ckpt, lag>>)
      BY <1>1, <2>4 DEF submit_approval_resume, ScenarioTypeOK
    <3>2. run[o] = NoValue /\ interrupted(o) /\ boot = "serving"
      BY <3>1 DEF GraphInv, DecidedOK
    <3>3. status' = status
      BY <3>1 DEF storeVars, opVars
    <3>4. CASE fault /\ UNCHANGED <<run, ckpt, lag>>
      <4>1. ~ Resuming(o)'
        BY <1>1, <3>4, ScenarioAssumption DEF fault, Resuming, ScenarioTypeOK
      <4> QED
        BY <3>1, <3>3, <3>4, <4>1 DEF Resumes
    <3>5. CASE resume(o, decided[o], "submit") /\ UNCHANGED faults
      <4>1. ASSUME decided[o] \in detail_approval(o)
            PROVE  Resumes(o)' /\ \A q \in Operations : q # o => run'[q] = run[q] /\ ckpt'[q] = ckpt[q]
        <5>1. PICK a, by : a = decided[o] /\ by = "submit"
          OBVIOUS
        <5>2. a \in detail_approval(o) /\ by \in Callers /\ resume(o, a, by)
          BY <3>5, <4>1, <5>1 DEF Callers
        <5> QED
          BY <3>1, <3>2, <5>2, ResumeFollows
      <4>2. ASSUME decided[o] \notin detail_approval(o) PROVE ~ Resuming(o)'
        <5>1. ~ ResumingRun(o) /\ ~ Waiting(o)
          BY <3>2 DEF ResumingRun, Waiting
        <5>2. ~ Resuming(o)
          BY <1>1, <4>2, <5>1 DEF Resumes
        <5> QED
          BY <1>2, <3>3, <3>5, <5>2 DEF Resuming
      <4>3. \A q \in Operations : q # o => run'[q] = run[q] /\ ckpt'[q] = ckpt[q]
        <5>1. PICK a, by : a = decided[o] /\ by = "submit"
          OBVIOUS
        <5>2. a \in ApprovalRows /\ by \in Callers /\ resume(o, a, by)
          BY <1>1, <3>1, <3>5, <5>1 DEF Callers, ScenarioTypeOK
        <5>3. ThreadMoves(o)
          BY <3>2, <5>2, ResumeThread
        <5> QED
          BY <5>3 DEF ThreadMoves
      <4>4. Resumes(o)'
        BY <4>1, <4>2 DEF Resumes
      <4> QED
        BY <3>1, <3>3, <4>3, <4>4
    <3> QED
      BY <3>1, <3>4, <3>5
  <2> QED
    BY <2>1, <2>2, <2>3, <2>4
<1>4. ASSUME NEW q \in Operations, q # o PROVE Resumes(q)'
  <2>1. /\ Resumes(q) /\ run'[q] = run[q] /\ ckpt'[q] = ckpt[q] /\ decided'[q] = decided[q]
        /\ boot' = boot /\ crashes' = crashes /\ todo' = todo /\ status'[q] = status[q]
    BY <1>2, <1>3, <1>4 DEF ResumeInv
  <2> QED
    BY <1>1, <1>2, <1>4, <2>1, ResumesOther
<1> QED
  BY <1>2, <1>3, <1>4 DEF ResumeInv

\* The phases of a restart, and the clock, leave the threads to the recovery.
LEMMA PhaseResumes ==
    ASSUME GraphInv, ResumeInv,
           \/ restart \/ list_recoverable \/ serve \/ Clock
           \/ \E o \in Operations : expire_due(o)
    PROVE  ResumeInv'
<1>1. [Next]_storeVars /\ ScenarioTypeOK
  BY RestartKeeps, PhaseKeeps, ClockKeeps, ExpireKeeps DEF GraphInv
<1>2. UNCHANGED <<run, decided, crashes, faults>> /\ approvals' = approvals
  BY DEF restart, list_recoverable, serve, Clock, expire_due, processVars, mark_expired,
     transition, Tick, storeVars
<1>3. ASSUME NEW q \in Operations PROVE Resumes(q)'
  <2>1. Resumes(q) /\ ckpt'[q] \in {ckpt[q], NoValue}
    BY <1>1 DEF ResumeInv, restart, list_recoverable, serve, Clock, expire_due
  <2>2. ASSUME Resuming(q)' PROVE Resuming(q)
    <3>1. status'[q] = "resuming"
      BY <2>2 DEF Resuming
    <3>2. status[q] = "resuming"
      BY <1>1, <1>2, <3>1, ResumesByDecision
    <3> QED
      BY <1>2, <2>2, <3>2 DEF Resuming
  <2>3. Resuming(q) => (Waiting(q) => Waiting(q)') /\ (Waiting(q)' => Waiting(q))
    BY <1>2 DEF Waiting, Resuming, restart, list_recoverable, serve, Clock, expire_due,
       processVars, Active
  <2> QED
    BY <1>1, <1>2, <2>1, <2>2, <2>3, ResumesKept
<1>4. boot' # "serving" => crashes' > 0
  BY <1>2 DEF ResumeInv, restart, list_recoverable, serve, Clock, expire_due, processVars
<1> QED
  BY <1>3, <1>4 DEF ResumeInv

\* The first crash leaves what the recovery can go on from.
LEMMA CrashResumes ==
    ASSUME GraphInv, ResumeInv, crash
    PROVE  ResumeInv'
<1>1. /\ UNCHANGED storeVars /\ UNCHANGED <<ckpt, faults>> /\ crashes' = crashes + 1
      /\ run' = [q \in Operations |-> NoValue] /\ boot' = "down" /\ crashes \in Nat
      /\ [Next]_storeVars
  BY CrashKeeps DEF crash, GraphInv, ScenarioTypeOK
<1>2. ASSUME NEW q \in Operations PROVE Resumes(q)'
  <2>1. Waiting(q)'
    BY <1>1 DEF Waiting
  <2>2. ASSUME Resuming(q)' PROVE ResumingCkpt(q)'
    <3>1. /\ status[q] = "resuming" /\ status'[q] = "resuming" /\ crashes = 0 /\ Resuming(q)
      BY <1>1, <2>2 DEF Resuming, storeVars, opVars
    <3>2. ResumingCkpt(q)
      BY <3>1 DEF ResumeInv, Resumes
    <3>3. PICK c : c = ckpt[q]
      OBVIOUS
    <3>4. Follows(q, c.node, c.state) => Follows(q, c.node, c.state)'
      BY <1>1, <3>1, FollowsNext
    <3> QED
      BY <1>1, <3>2, <3>3, <3>4 DEF ResumingCkpt, interrupted, Follows, Role
  <2> QED
    BY <2>1, <2>2 DEF Resumes
<1>3. crashes' > 0
  BY <1>1
<1> QED
  BY <1>2, <1>3 DEF ResumeInv

\* The recovery of a decided operation goes on with its decision.
LEMMA RecoverResumesHere ==
    ASSUME GraphInv, ResumeInv, NEW o \in Operations, recover(o)
    PROVE  /\ Resumes(o)'
           /\ \A q \in Operations : q # o => /\ run'[q] = run[q] /\ ckpt'[q] = ckpt[q]
                                          /\ status'[q] = status[q]
<1>1. /\ boot = "recovering" /\ o \in todo /\ run[o] = NoValue
      /\ UNCHANGED <<evidence, decided, boot, crashes>>
  BY RecoverCases
<1>2. TypeOK /\ ScenarioTypeOK /\ Resumes(o) /\ Waiting(o) /\ crashes > 0 /\ status[o] # "absent"
      /\ [Next]_storeVars
  BY <1>1, RecoverKeeps DEF GraphInv, ResumeInv, Waiting, ProcessOK
<1>3. crashes' # 0 /\ (faults' = 0 => faults = 0)
  <2>1. (faults' = faults \/ fault)
    BY RecoverCases
  <2> QED
    BY <1>1, <1>2, <2>1 DEF fault, ScenarioTypeOK
<1>4. CASE /\ (\E e \in Errors : mark_failed(o, e)) \/ UNCHANGED storeVars
           /\ UNCHANGED <<run, ckpt, lag>>
           /\ (status[o] = "resuming" /\ load_detail_succeeds(o)) =>
                        interrupted(o) /\ detail_approval(o) = {}
  <2>1. /\ \A q \in Operations : q # o => status'[q] = status[q]
        /\ status'[o] = "resuming" => UNCHANGED storeVars
    BY <1>2, <1>4, FailedRows
  <2>2. ASSUME status'[o] = "resuming" PROVE FALSE
    <3>1. status[o] = "resuming"
      BY <2>1, <2>2 DEF storeVars, opVars
    <3>2. detail_approval(o) = {}
      BY <1>2, <1>4, <3>1, InvLoads
    <3> QED
      BY <3>1, <3>2 DEF GraphInv, DecisionInv, CycleFollowsStatus, current_approval,
         detail_approval
  <2> QED
    BY <1>4, <2>1, <2>2 DEF Resumes, Resuming
<1>5. CASE /\ status[o] \notin Terminal /\ ckpt[o] = NoValue
           /\ rebuild_from_business_facts(o)
  <2>1. CASE (\E e \in Errors : mark_failed(o, e)) /\ UNCHANGED <<run, ckpt, lag>>
    <3>1. /\ \A q \in Operations : q # o => status'[q] = status[q]
          /\ status'[o] = "failed"
      BY <1>2, <2>1 DEF mark_failed, transition, TypeOK
    <3> QED
      BY <2>1, <3>1 DEF Resumes, Resuming
  <2>2. CASE /\ UNCHANGED storeVars /\ ThreadMoves(o) /\ run'[o] # NoValue
             /\ \/ status[o] = "received"
                \/ /\ status[o] # "received" /\ ~ rebuild_conflict(o)
                   /\ run'[o].node = graph_edges(o)[completed_node_for(o)]["continue"]
                   /\ run'[o].state = state_from_detail(o)
                   /\ run'[o].by = IF status[o] = "resuming" THEN "rebuild_decision"
                                   ELSE "recover"
    <3>1. status' = status /\ request' = request
      BY <2>2 DEF storeVars, opVars
    <3>2. ASSUME Resuming(o)' PROVE ResumingRun(o)'
      <4>1. status[o] = "resuming"
        BY <3>1, <3>2 DEF Resuming
      <4>2. PICK n, st : n = run'[o].node /\ st = run'[o].state
        OBVIOUS
      <4>3. status[o] \in Active \ {"received"}
        BY <4>1 DEF Active
      <4>4. /\ n = graph_edges(o)[completed_node_for(o)]["continue"]
            /\ st = state_from_detail(o) /\ ~ rebuild_conflict(o)
            /\ run'[o].by = "rebuild_decision"
        BY <2>2, <4>1, <4>2
      <4>5. Role(o, n) = "request_approval"
        BY <4>1, <4>3, <4>4, RebuiltPlace
      <4>6. graph_roles(o)' = graph_roles(o)
        BY <3>1, TableKept
      <4> QED
        BY <2>2, <4>2, <4>4, <4>5, <4>6 DEF ResumingRun, Role, StopRoles
    <3>3. ~ Waiting(o)'
      BY <2>2 DEF Waiting
    <3> QED
      BY <1>3, <2>2, <3>1, <3>2, <3>3 DEF Resumes, ThreadMoves
  <2> QED
    BY <1>1, <1>2, <1>5, <2>1, <2>2, RebuildCases
<1>6. CASE /\ interrupted(o) /\ UNCHANGED storeVars
           /\ \E a \in detail_approval(o) : resume(o, a, "recover")
  <2>1. PICK a \in detail_approval(o), by \in Callers : resume(o, a, by)
    BY <1>6 DEF Callers
  <2>2. status' = status
    BY <1>6 DEF storeVars, opVars
  <2> QED
    BY <1>6, <2>1, <2>2, ResumeFollows
<1>7. CASE /\ ckpt[o] # NoValue /\ ~ interrupted(o)
           /\ UNCHANGED <<storeVars, ckpt, lag>>
           /\ run' = [run EXCEPT ![o] = [by |-> "recover", node |-> ckpt[o].node,
                                         state |-> ckpt[o].state]]
  <2>1. PICK r : r = [by |-> "recover", node |-> ckpt[o].node, state |-> ckpt[o].state]
    OBVIOUS
  <2>2. r \in Runs
    BY <1>2, <1>7, <2>1 DEF ScenarioTypeOK, Checkpoints, Runs, Callers, Positions
  <2>3. /\ run'[o] = r /\ r # NoValue /\ r.node = ckpt[o].node /\ r.state = ckpt[o].state
        /\ \A q \in Operations : q # o => run'[q] = run[q]
    <3>1. run' = [run EXCEPT ![o] = r] /\ run \in [Operations -> Runs \cup {NoValue}]
      BY <1>2, <1>7, <2>1 DEF ScenarioTypeOK
    <3>2. r # NoValue
      BY <2>2, NoThreadAssumption
    <3>3. r.node = ckpt[o].node /\ r.state = ckpt[o].state
      BY <2>1
    <3>4. run'[o] = r /\ \A q \in Operations : q # o => run'[q] = run[q]
      BY <3>1
    <3> QED
      BY <3>2, <3>3, <3>4
  <2>4. status' = status
    BY <1>7 DEF storeVars, opVars
  <2>5. Resuming(o)' => status[o] = "resuming" /\ Follows(o, r.node, r.state)
    BY <1>1, <1>2, <1>3, <1>7, <2>3, <2>4 DEF Resuming, Resumes, ResumingCkpt
  <2>6. PICK n, st : n = r.node /\ st = r.state
    OBVIOUS
  <2>7. /\ run'[o] # NoValue /\ run'[o].node = n /\ run'[o].state = st
        /\ Resuming(o)' =>
               /\ status[o] = "resuming" /\ Follows(o, n, st)
               /\ ckpt'[o] = ckpt[o] /\ (crashes' = 0 => ResumingCkpt(o))
    BY <1>3, <1>7, <2>3, <2>5, <2>6
  <2>8. Resumes(o)'
    BY <1>2, <2>7, ResumesAlong
  <2> QED
    BY <1>7, <2>3, <2>4, <2>8
<1>8. CASE fault /\ UNCHANGED <<storeVars, run, ckpt, lag>>
  <2>1. status' = status
    BY <1>8 DEF storeVars, opVars
  <2>2. ~ Resuming(o)'
    BY <1>2, <1>8 DEF Resuming, fault, ScenarioTypeOK
  <2> QED
    BY <1>8, <2>1, <2>2 DEF Resumes
<1> QED
  BY <1>4, <1>5, <1>6, <1>7, <1>8, RecoverCases

LEMMA RecoverResumes ==
    ASSUME GraphInv, ResumeInv, NEW o \in Operations, recover(o)
    PROVE  ResumeInv'
<1>1. /\ Resumes(o)'
      /\ \A q \in Operations : q # o => /\ run'[q] = run[q] /\ ckpt'[q] = ckpt[q]
                                     /\ status'[q] = status[q]
  BY RecoverResumesHere
<1>2. /\ UNCHANGED <<decided, boot, crashes>> /\ todo' = todo \ {o} /\ [Next]_storeVars
      /\ (faults' = faults \/ fault)
  BY RecoverCases, RecoverKeeps
<1>3. ASSUME NEW q \in Operations, q # o PROVE Resumes(q)'
  <2>1. /\ Resumes(q) /\ run'[q] = run[q] /\ ckpt'[q] = ckpt[q] /\ decided'[q] = decided[q]
        /\ boot' = boot /\ crashes' = crashes /\ status'[q] = status[q]
        /\ (faults' = faults \/ fault)
    BY <1>1, <1>2, <1>3 DEF ResumeInv
  <2> QED
    BY <1>2, <1>3, <2>1, ResumesOther
<1> QED
  BY <1>1, <1>2, <1>3 DEF ResumeInv

\* Every step keeps the decision in use.
LEMMA ScenarioNextResumes ==
    ASSUME GraphInv, ResumeInv, [ScenarioNext]_scenarioVars
    PROVE  ResumeInv'
<1>1. CASE UNCHANGED scenarioVars
  <2>1. UNCHANGED storeVars
        /\ UNCHANGED <<evidence, agent, run, ckpt, lag, decided, capturing, boot, todo, faults,
                       crashes, setBack>>
    BY <1>1 DEF scenarioVars
  <2>2. ASSUME NEW q \in Operations PROVE Resumes(q)'
    <3>1. Resuming(q)' => Resuming(q)
      BY <2>1 DEF Resuming, storeVars, opVars
    <3>2. Waiting(q)' <=> Waiting(q)
      BY <2>1 DEF Waiting
    <3>3. Resumes(q) /\ [Next]_storeVars
      BY <2>1 DEF ResumeInv
    <3> QED
      BY <2>1, <3>1, <3>2, <3>3, ResumesKept
  <2> QED
    BY <2>1, <2>2 DEF ResumeInv
<1>2. ASSUME NEW o \in Operations, NodeAction(o) PROVE ResumeInv'
  <2>1. UNCHANGED <<boot, crashes>>
    BY <1>2, NodesLand DEF NodeStep, processVars
  <2>2. ASSUME NEW q \in Operations PROVE Resumes(q)'
    BY <1>2, NodeResumes, NodeResumesOthers DEF ResumeInv
  <2> QED
    BY <2>1, <2>2 DEF ResumeInv
<1>3. ASSUME NEW o \in Operations, GraphStep(o) PROVE ResumeInv'
  BY <1>2, <1>3, CoroutineResumes DEF GraphStep, NodeAction
<1>4. ASSUME NEW o \in Operations,
             \/ \E req \in Requests : start(o, req)
             \/ capture_operation_outcome(o) \/ submit_approval(o) \/ submit_approval_resume(o)
      PROVE  ResumeInv'
  BY <1>4, RunnerResumes
<1>5. CASE crash \/ Startup \/ Clock
  BY <1>5, CrashResumes, PhaseResumes, RecoverResumes DEF Startup
<1> QED
  BY <1>1, <1>3, <1>4, <1>5 DEF ScenarioNext

\* Restarting after the decision was recorded goes on with that decision: once
\* the process serves again after one crash, and no dependency failed, every
\* operation in status resuming has a coroutine, or the submit_approval that
\* is about to make one, whatever checkpoints the crash took.
THEOREM ScenarioRestartUsesDecision == ScenarioSpec => []RestartUsesDecision
<1>1. ScenarioInit => ResumeInv
  BY DEF ScenarioInit, Init, ResumeInv, Resumes, Resuming
<1>2. GraphInv /\ ResumeInv /\ [ScenarioNext]_scenarioVars => ResumeInv'
  BY ScenarioNextResumes
<1>3. ResumeInv => RestartUsesDecision
  BY DEF ResumeInv, Resumes, Resuming, ResumingRun, Waiting, RestartUsesDecision
<1> QED
  BY <1>1, <1>2, <1>3, ScenarioInvariant, PTL DEF ScenarioSpec

-----------------------------------------------------------------------------
(* The inductive invariant about bindings and plans *)

\* Where a graph can be that has left its interrupt before a checkpoint after
\* it is saved.
LateRoles == StopRoles \cup {"resume_decision", "revalidate_evidence", "mark_rejected",
                 "mark_verifier_aborted", "mark_needs_reapproval", "mark_executing",
                 "mark_failed", "END", "raised", "conflict"}

\* The places that the second invariant speaks of.
BindingRoles == StopRoles \cup ExecutionRoles \cup {"revalidate_evidence", "mark_executing"}

\* Where a coroutine is with every checkpoint saved: before its first one,
\* at its interrupt and while an exception unwinds.
SavedPlaces == {"agent_investigation", "resume_decision", "raised", "conflict"}

\* What every place of role r promises about the cycle c and the binding b of
\* the row and the approvals A.
KeptOK(q, r, st, c, b, A) == r \in BindingRoles => c > 0 /\ Consented(q, st.binding, b, A)

\* What a place of role r promises about the binding b, unless its thread has
\* been set back.
FreshOK(r, st, b) ==
    /\ r \in StopRoles => st.binding = b
    /\ r \in {"revalidate_evidence", "mark_executing"} =>
        st.approval \in ApprovalRows /\ st.approval.binding = st.binding
    /\ r \in ExecutionRoles => st.plan = b.plan

\* Both of them, the second where the place counts.
StandsOK(q, r, st, counts) ==
    /\ KeptOK(q, r, st, cycle[q], snapshot[q].binding, approvals)
    /\ counts => FreshOK(r, st, snapshot[q].binding)

\* A graph that has left its interrupt has saved a checkpoint after it before
\* it asks for another decision: the nodes between the two are unsaved.  With
\* three unsaved, a crash sets the thread back.
LeftOK(o) ==
    /\ run[o] # NoValue /\ ckpt[o] # NoValue /\ lag[o] <= 2
    /\ Role(o, ckpt[o].node) \in StopRoles
    =>
    /\ Role(o, run[o].node) \in LateRoles
    /\ Role(o, run[o].node) = "revalidate_evidence" => lag[o] >= 1
    /\ Role(o, run[o].node) \in {"mark_needs_reapproval", "mark_executing"} => lag[o] >= 2

\* Where nothing is unsaved.
SavedOK(o) == run[o] = NoValue \/ run[o].node \in SavedPlaces => lag[o] = 0

BoundOK(o) ==
    /\ run[o] # NoValue =>
        StandsOK(o, Role(o, run[o].node), run[o].state, o \notin setBack)
    /\ ckpt[o] # NoValue =>
        StandsOK(o, Role(o, ckpt[o].node), ckpt[o].state, o \notin setBack /\ lag[o] <= 2)
    /\ LeftOK(o) /\ SavedOK(o)
    /\ decided[o] # NoValue /\ o \notin setBack => decided[o].binding = ckpt[o].state.binding

BoundInv == \A o \in Operations : EventOK(o) /\ BoundOK(o)

\* A step asks for a decision.
Asks(q) == status'[q] \in AwaitingDecision /\ status[q] \notin AwaitingDecision

\* What a step owes to the thread of q, in the words of the tables before it.
StandsNext(q, r, st, counts) ==
    /\ KeptOK(q, r, st, cycle'[q], snapshot'[q].binding, approvals')
    /\ counts => FreshOK(r, st, snapshot'[q].binding)

LeftNext(q) ==
    /\ run'[q] # NoValue /\ ckpt'[q] # NoValue /\ lag'[q] <= 2
    /\ Role(q, ckpt'[q].node) \in StopRoles
    =>
    /\ Role(q, run'[q].node) \in LateRoles
    /\ Role(q, run'[q].node) = "revalidate_evidence" => lag'[q] >= 1
    /\ Role(q, run'[q].node) \in {"mark_needs_reapproval", "mark_executing"} => lag'[q] >= 2

BoundThread(q) ==
    /\ run'[q] # NoValue =>
        StandsNext(q, Role(q, run'[q].node), run'[q].state, q \notin setBack')
    /\ ckpt'[q] # NoValue =>
        StandsNext(q, Role(q, ckpt'[q].node), ckpt'[q].state, q \notin setBack' /\ lag'[q] <= 2)
    /\ LeftNext(q) /\ SavedOK(q)'
    /\ decided'[q] # NoValue /\ q \notin setBack' => decided'[q].binding = ckpt'[q].state.binding

\* The two readings agree, because a request is written once.
LEMMA BoundNext ==
    ASSUME TypeOK, [Next]_storeVars, NEW q \in Operations, status[q] # "absent", BoundThread(q)
    PROVE  BoundOK(q)'
<1>1. graph_roles(q)' = graph_roles(q)
  BY RequestKept, TableKept
<1>2. LeftOK(q)'
  BY <1>1 DEF BoundThread, LeftNext, LeftOK, Role
<1>3. run'[q] # NoValue =>
          StandsOK(q, Role(q, run[q].node), run[q].state, q \notin setBack)'
  BY <1>1 DEF BoundThread, StandsNext, StandsOK, Role
<1>4. ckpt'[q] # NoValue =>
          StandsOK(q, Role(q, ckpt[q].node), ckpt[q].state, q \notin setBack /\ lag[q] <= 2)'
  BY <1>1 DEF BoundThread, StandsNext, StandsOK, Role
<1> QED
  BY <1>2, <1>3, <1>4 DEF BoundThread, BoundOK

\* What every place promises holds while the tables move on: the binding that
\* a new request replaces has been approved.
LEMMA KeptStays ==
    ASSUME GraphInv, NEW q \in Operations, StoreMoves(q), NEW r, NEW st,
           KeptOK(q, r, st, cycle[q], snapshot[q].binding, approvals)
    PROVE  KeptOK(q, r, st, cycle'[q], snapshot'[q].binding, approvals')
<1>1. DecisionInv
  BY DEF GraphInv
<1> QED
  BY <1>1, ConsentStays DEF KeptOK, StoreMoves

\* A place stays fresh while the tables move on: a new decision is asked for
\* only when no place that counts waits for the old one.
LEMMA FreshStays ==
    ASSUME NEW q \in Operations, StoreMoves(q), NEW r, NEW st,
           PlaceOK(r, st, status[q]), FreshOK(r, st, snapshot[q].binding),
           Asks(q) => r \notin StopRoles
    PROVE  FreshOK(r, st, snapshot'[q].binding)
<1>1. CASE Asks(q)
  <2>1. status[q] \in {"validating", "resuming"}
    BY <1>1 DEF StoreMoves, Asks
  <2>2. r \notin ExecutionRoles
    BY <2>1 DEF PlaceOK, AfterExecution
  <2> QED
    BY <1>1, <2>2 DEF FreshOK
<1>2. CASE ~ Asks(q)
  <2>1. snapshot'[q].binding = snapshot[q].binding
    BY <1>2 DEF StoreMoves, Asks, AwaitingDecision
  <2> QED
    BY <2>1 DEF FreshOK
<1> QED
  BY <1>1, <1>2

\* A place that stays where it is promises what it did.
LEMMA StandsStays ==
    ASSUME GraphInv, NEW q \in Operations, StoreMoves(q), NEW r, NEW st,
           PlaceOK(r, st, status[q]), NEW before \in BOOLEAN, NEW after \in BOOLEAN,
           StandsOK(q, r, st, before), after => before, after /\ Asks(q) => r \notin StopRoles
    PROVE  StandsNext(q, r, st, after)
<1>1. KeptOK(q, r, st, cycle'[q], snapshot'[q].binding, approvals')
  BY KeptStays DEF StandsOK
<1>2. after => FreshOK(r, st, snapshot'[q].binding)
  BY FreshStays DEF StandsOK
<1> QED
  BY <1>1, <1>2 DEF StandsNext

\* A step that leaves the thread of q alone, and asks for no decision.
LEMMA BoundKept ==
    ASSUME GraphInv, BoundInv, [Next]_storeVars, NEW q \in Operations,
           run'[q] = run[q], ckpt'[q] = ckpt[q], lag'[q] = lag[q], q \in setBack => q \in setBack',
           decided'[q] \in {decided[q], NoValue}, ~ Asks(q)
    PROVE  BoundOK(q)'
<1>1. /\ TypeOK /\ StoreMoves(q) /\ RunOK(q) /\ CkptOK(q) /\ DecidedOK(q)
      /\ BoundOK(q) /\ LeftOK(q) /\ SavedOK(q)
  BY NextMoves DEF GraphInv, BoundInv, BoundOK
<1>2. CASE status[q] = "absent"
  <2>1. run[q] = NoValue /\ ckpt[q] = NoValue /\ decided[q] = NoValue
    BY <1>1, <1>2 DEF RunOK, CkptOK, DecidedOK, PlaceOK, interrupted
  <2> QED
    BY <1>1, <2>1 DEF BoundOK, LeftOK, SavedOK
<1>3. CASE status[q] # "absent"
  <2>1. run'[q] # NoValue =>
            StandsNext(q, Role(q, run'[q].node), run'[q].state, q \notin setBack')
    BY <1>1, StandsStays DEF RunOK, BoundOK
  <2>2. ckpt'[q] # NoValue =>
            StandsNext(q, Role(q, ckpt'[q].node), ckpt'[q].state,
                       q \notin setBack' /\ lag'[q] <= 2)
    BY <1>1, StandsStays DEF CkptOK, BoundOK
  <2>3. LeftNext(q) /\ SavedOK(q)'
    BY <1>1 DEF LeftOK, LeftNext, SavedOK
  <2>4. decided'[q] # NoValue /\ q \notin setBack' => decided'[q].binding = ckpt'[q].state.binding
    BY <1>1 DEF BoundOK
  <2>5. BoundThread(q)
    BY <2>1, <2>2, <2>3, <2>4 DEF BoundThread
  <2> QED
    BY <1>1, <1>3, <2>5, BoundNext
<1> QED
  BY <1>2, <1>3

\* What a step has to show to preserve the second invariant.
LEMMA BoundStep ==
    ASSUME GraphInv, BoundInv, [Next]_storeVars, \A q \in Operations : BoundOK(q)'
    PROVE  BoundInv'
<1>1. \A q \in Operations : EventOK(q)'
  BY EventStep DEF GraphInv, BoundInv
<1> QED
  BY <1>1 DEF BoundInv

\* A step that moves the thread and the row of o only.
LEMMA OneBound ==
    ASSUME GraphInv, BoundInv, [Next]_storeVars, NEW o \in Operations, BoundOK(o)',
           setBack' = setBack,
           \A q \in Operations : q # o =>
               /\ run'[q] = run[q] /\ ckpt'[q] = ckpt[q] /\ lag'[q] = lag[q]
               /\ decided'[q] \in {decided[q], NoValue} /\ status'[q] = status[q]
    PROVE  BoundInv'
<1>1. ASSUME NEW q \in Operations, q # o PROVE BoundOK(q)'
  <2>1. ~ Asks(q)
    BY <1>1 DEF Asks
  <2>2. /\ run'[q] = run[q] /\ ckpt'[q] = ckpt[q] /\ lag'[q] = lag[q]
        /\ decided'[q] \in {decided[q], NoValue}
    BY <1>1
  <2> QED
    BY <2>1, <2>2, BoundKept
<1>2. \A q \in Operations : BoundOK(q)'
  BY <1>1
<1> QED
  BY <1>2, BoundStep

\* A step that leaves every thread alone, and asks for no decision.
LEMMA QuietBound ==
    ASSUME GraphInv, BoundInv, [Next]_storeVars, UNCHANGED <<run, ckpt, lag, setBack>>,
           \A q \in Operations : ~ Asks(q) /\ decided'[q] \in {decided[q], NoValue}
    PROVE  BoundInv'
<1>1. \A q \in Operations : BoundOK(q)'
  BY BoundKept
<1> QED
  BY <1>1, BoundStep

\* Where a node leads, in roles.
LEMMA Turn ==
    ASSUME GraphInv, NEW o \in Operations, NEW role \in Roles, at(o, role),
           NEW route, NEW next, NEW st \in GraphStates,
           \/ leave(o, route, st) /\ Leads(o, run[o].node, route, next)
           \/ fail(o) /\ Leads(o, run[o].node, "failure", "mark_failed")
           \/ raise(o, "raised") \/ raise(o, "conflict")
    PROVE  \/ Role(o, run'[o].node) = next /\ run'[o].state = st
           \/ fail(o) /\ Role(o, run'[o].node) = "mark_failed"
           \/ Role(o, run'[o].node) \in {"raised", "conflict"}
<1>1. ScenarioTypeOK /\ TableOK(o) /\ run[o] # NoValue /\ run[o].node \in NodesOf(o)
      /\ run[o].state \in GraphStates
  BY RunningPlace
<1>2. ASSUME NEW r, NEW s, Goes(o, r, s) PROVE Role(o, run'[o].node) = r /\ run'[o].state = s
  BY <1>2 DEF Goes, Stands
<1>3. CASE leave(o, route, st) /\ Leads(o, run[o].node, route, next)
  <2>1. Goes(o, next, st)
    BY <1>1, <1>3, LeaveGoes
  <2> QED
    BY <1>2, <2>1
<1>4. CASE fail(o) /\ Leads(o, run[o].node, "failure", "mark_failed")
  <2>1. Goes(o, "mark_failed", run[o].state)
    BY <1>1, <1>4, LeaveGoes DEF fail
  <2> QED
    BY <1>2, <1>4, <2>1
<1>5. CASE raise(o, "raised") \/ raise(o, "conflict")
  <2>1. Raises(o)
    BY <1>1, <1>5, RaiseRaises
  <2> QED
    BY <2>1 DEF Raises, Stands, Role, Positions
<1> QED
  BY <1>3, <1>4, <1>5

\* What the step of a node owes to the second invariant.
NodeTurns(o) ==
    /\ Role(o, run[o].node) \notin StopRoles \cup {"resume_decision", "END", "raised", "conflict"}
    /\ Role(o, run[o].node) = "revalidate_evidence" =>
           Role(o, run'[o].node) \in LateRoles \ {"revalidate_evidence"}
    /\ Role(o, run[o].node) \in {"mark_rejected", "mark_verifier_aborted", "mark_failed"} =>
           Role(o, run'[o].node) \in {"END", "raised", "conflict"}
    /\ StandsNext(o, Role(o, run'[o].node), run'[o].state, o \notin setBack)

\* A node before the interrupt, or at the end, that leads to another of them.
LEMMA PlainTurn ==
    ASSUME NEW o, NEW role, role = Role(o, run[o].node),
           role \notin StopRoles \cup {"resume_decision", "END", "raised", "conflict",
                                       "revalidate_evidence"},
           Role(o, run'[o].node) \notin BindingRoles,
           role \in {"mark_rejected", "mark_verifier_aborted", "mark_failed"} =>
               Role(o, run'[o].node) \in {"END", "raised", "conflict"}
    PROVE  NodeTurns(o)
<1>1. StandsNext(o, Role(o, run'[o].node), run'[o].state, o \notin setBack)
  BY DEF BindingRoles, StandsNext, KeptOK, FreshOK
<1> QED
  BY <1>1 DEF NodeTurns

\* The nodes with one edge: how they end.
LEMMA FreeEnds ==
    ASSUME NEW o,
           \/ parse_request(o) \/ mark_gathering(o)
           \/ record_normal_plan(o) \/ graph_record_query_assessment(o)
           \/ graph_mark_reporting(o) \/ graph_complete_without_replenishment(o)
           \/ graph_mark_rejected(o) \/ graph_mark_verifier_aborted(o)
           \/ graph_mark_completed(o) \/ graph_mark_failed(o)
    PROVE  /\ \/ leave(o, "continue", run[o].state) \/ raise(o, "raised") \/ raise(o, "conflict")
           /\ \/ at(o, "parse_request") \/ at(o, "mark_gathering")
              \/ at(o, "record_normal_plan") \/ at(o, "record_query_assessment")
              \/ at(o, "mark_reporting") \/ at(o, "complete_without_replenishment")
              \/ at(o, "mark_rejected") \/ at(o, "mark_verifier_aborted")
              \/ at(o, "mark_completed") \/ at(o, "mark_failed")
<1>1. CASE parse_request(o)
  BY <1>1 DEF parse_request
<1>2. CASE mark_gathering(o)
  BY <1>2, Zenon DEF mark_gathering, Transition
<1>3. CASE record_normal_plan(o)
  BY <1>3, Zenon DEF record_normal_plan, Transition
<1>4. CASE graph_record_query_assessment(o)
  BY <1>4, Zenon DEF graph_record_query_assessment, Transition
<1>5. CASE graph_mark_reporting(o)
  BY <1>5, Zenon DEF graph_mark_reporting, Transition
<1>6. CASE graph_complete_without_replenishment(o)
  BY <1>6, Zenon DEF graph_complete_without_replenishment, Transition
<1>7. CASE graph_mark_rejected(o)
  BY <1>7, Zenon DEF graph_mark_rejected, Transition
<1>8. CASE graph_mark_verifier_aborted(o)
  BY <1>8, Zenon DEF graph_mark_verifier_aborted, Transition
<1>9. CASE graph_mark_completed(o)
  BY <1>9, Zenon DEF graph_mark_completed, Transition
<1>10. CASE graph_mark_failed(o)
  BY <1>10, Zenon DEF graph_mark_failed
<1> QED
  BY <1>1, <1>2, <1>3, <1>4, <1>5, <1>6, <1>7, <1>8, <1>9, <1>10

LEMMA FreeTurns ==
    ASSUME GraphInv, NEW o \in Operations,
           \/ parse_request(o) \/ mark_gathering(o)
           \/ record_normal_plan(o) \/ graph_record_query_assessment(o)
           \/ graph_mark_reporting(o) \/ graph_complete_without_replenishment(o)
           \/ graph_mark_rejected(o) \/ graph_mark_verifier_aborted(o)
           \/ graph_mark_completed(o) \/ graph_mark_failed(o)
    PROVE  NodeTurns(o)
<1> DEFINE Ended == leave(o, "continue", run[o].state)
                        \/ raise(o, "raised") \/ raise(o, "conflict")
<1>1. PICK role : /\ at(o, role) /\ Ended
                  /\ \/ role = "parse_request" \/ role = "mark_gathering"
                     \/ role = "record_normal_plan" \/ role = "record_query_assessment"
                     \/ role = "mark_reporting" \/ role = "complete_without_replenishment"
                     \/ role = "mark_rejected" \/ role = "mark_verifier_aborted"
                     \/ role = "mark_completed" \/ role = "mark_failed"
  BY FreeEnds
<1>2. role \in Roles
  BY <1>1, RoleNames
<1>3. /\ run[o].state \in GraphStates /\ role = Role(o, run[o].node)
      /\ Edges(o, run[o].node)
  BY <1>1, <1>2, RunningPlace
<1>4. PICK next :
          /\ Leads(o, run[o].node, "continue", next)
          /\ \/ /\ role \in {"mark_rejected", "mark_verifier_aborted", "mark_completed",
                             "mark_failed", "complete_without_replenishment"}
                /\ next = "END"
             \/ /\ role \notin {"mark_rejected", "mark_verifier_aborted", "mark_failed"}
                /\ next \in {"mark_gathering", "gather_evidence", "mark_reporting",
                             "complete_without_replenishment"}
  BY <1>1, <1>3 DEF Edges
<1>5. Role(o, run'[o].node) = next \/ Role(o, run'[o].node) \in {"raised", "conflict"}
  <2>1. PICK st : st = run[o].state
    OBVIOUS
  <2>2. CASE leave(o, "continue", st)
    <3>1. ScenarioTypeOK /\ TableOK(o) /\ run[o] # NoValue
      BY <1>1, RunningPlace
    <3>2. Goes(o, next, st)
      BY <1>3, <1>4, <2>1, <2>2, <3>1, LeaveGoes
    <3> QED
      BY <3>2 DEF Goes, Stands
  <2>3. CASE raise(o, "raised") \/ raise(o, "conflict")
    <3>1. Raises(o)
      BY <1>1, <1>2, <2>3, RunningPlace, RaiseRaises
    <3> QED
      BY <3>1 DEF Raises, Stands, Role, Positions
  <2> QED
    BY <1>1, <2>1, <2>2, <2>3
<1>6. Role(o, run'[o].node) \notin BindingRoles
  BY <1>4, <1>5 DEF BindingRoles, StopRoles, ExecutionRoles
<1>7. role \notin StopRoles \cup {"resume_decision", "END", "raised", "conflict",
                                 "revalidate_evidence"}
  BY <1>1 DEF StopRoles
<1>8. role \in {"mark_rejected", "mark_verifier_aborted", "mark_failed"} =>
          Role(o, run'[o].node) \in {"END", "raised", "conflict"}
  BY <1>4, <1>5
<1> QED
  BY <1>3, <1>6, <1>7, <1>8, PlainTurn

\* A node that leaves its state to a place that the invariant is silent on.
LEMMA PlainLeave ==
    ASSUME GraphInv, NEW o \in Operations, NEW role \in Roles, at(o, role),
           role \notin StopRoles \cup {"revalidate_evidence", "mark_rejected",
                                       "mark_verifier_aborted", "mark_failed"},
           NEW route, NEW next, next \notin BindingRoles, NEW st \in GraphStates,
           \/ leave(o, route, st) /\ Leads(o, run[o].node, route, next)
           \/ fail(o) /\ Leads(o, run[o].node, "failure", "mark_failed")
           \/ raise(o, "raised") \/ raise(o, "conflict")
    PROVE  NodeTurns(o)
<1>1. \/ Role(o, run'[o].node) = next
      \/ Role(o, run'[o].node) = "mark_failed"
      \/ Role(o, run'[o].node) \in {"raised", "conflict"}
  BY Turn
<1>2. Role(o, run'[o].node) \notin BindingRoles
  BY <1>1 DEF BindingRoles, StopRoles, ExecutionRoles
<1>3. role = Role(o, run[o].node)
  BY RunningPlace
<1>4. role \notin {"resume_decision", "END", "raised", "conflict"}
  BY RoleNames
<1> QED
  BY <1>2, <1>3, <1>4, PlainTurn

\* Around the graph, and within the node that gathers the evidence.
LEMMA GatherTurns ==
    ASSUME GraphInv, NEW o \in Operations,
           agent_investigation(o) \/ gather_evidence(o) \/ gather_record_evidence(o)
    PROVE  NodeTurns(o)
<1>1. CASE agent_investigation(o)
  <2>1. at(o, "agent_investigation")
    BY <1>1 DEF agent_investigation
  <2>2. Role(o, run[o].node) = "agent_investigation" /\ run[o] # NoValue
        /\ TableOK(o) /\ ScenarioTypeOK
    BY <2>1, RunningPlace
  <2>3. PICK n : /\ run' = [run EXCEPT ![o].node = n]
                 /\ n = "parse_request" \/ n = "END" \/ n = "raised"
    BY <1>1 DEF agent_investigation
  <2>4. Role(o, n) = n
    BY <2>2, <2>3 DEF TableOK, NamedNodes, Role, Positions
  <2>5. n \in Nodes \cup Positions
    BY <2>2, <2>3 DEF TableOK, NamedNodes, Positions
  <2>6. run'[o].node = n
    BY <2>2, <2>3, <2>5, StandsHere DEF Stands
  <2>7. Role(o, run'[o].node) \notin BindingRoles
    BY <2>3, <2>4, <2>6 DEF BindingRoles, StopRoles, ExecutionRoles
  <2> QED
    BY <2>2, <2>7, PlainTurn DEF StopRoles
<1>2. CASE gather_evidence(o)
  <2>1. at(o, "gather_evidence") /\ "gather_evidence" \in Roles
    BY <1>2, RoleNames DEF gather_evidence
  <2>2. /\ ScenarioTypeOK /\ run[o] # NoValue /\ Role(o, run[o].node) = "gather_evidence"
        /\ run[o].state \in GraphStates
        /\ Leads(o, run[o].node, "failure", "mark_failed")
    BY <2>1, RunningPlace DEF Edges
  <2>3. CASE fail(o)
    BY <2>1, <2>2, <2>3, PlainLeave DEF BindingRoles, StopRoles, ExecutionRoles
  <2>4. CASE ~ fail(o)
    <3>1. NodeLands(o) /\ NodeStep(o)
      BY <1>2, GatherNode
    <3>2. PICK b \in Bundles :
              run' = [run EXCEPT ![o].node = "record_evidence", ![o].state.evidence = b]
      BY <1>2, <2>4 DEF gather_evidence
    <3>3. PICK f : f = [run EXCEPT ![o].node = "record_evidence"]
      OBVIOUS
    <3>4. run' = [f EXCEPT ![o].state.evidence = b] /\ f \in [Operations -> Runs \cup {NoValue}]
          /\ f[o] \in Runs /\ f[o].node = "record_evidence"
      <4>1. "record_evidence" \in Nodes \cup Positions
        BY DEF Positions
      <4>2. run[o] \in Runs
        BY <2>2 DEF ScenarioTypeOK
      <4>3. PICK r : r = [run[o] EXCEPT !.node = "record_evidence"]
        OBVIOUS
      <4>4. r \in Runs /\ r.node = "record_evidence" /\ f = [run EXCEPT ![o] = r]
        BY <3>3, <4>1, <4>2, <4>3 DEF Runs
      <4> QED
        BY <2>2, <3>2, <3>3, <4>4 DEF ScenarioTypeOK
    <3>5. run'[o].node = "record_evidence"
      BY <3>4 DEF Runs
    <3>6. Role(o, run'[o].node) = "record_evidence"
      BY <3>5 DEF Role, Positions
    <3>7. Role(o, run'[o].node) \notin BindingRoles
      BY <3>6 DEF BindingRoles, StopRoles, ExecutionRoles
    <3> QED
      BY <2>2, <3>7, PlainTurn DEF StopRoles
  <2> QED
    BY <2>3, <2>4
<1>3. CASE gather_record_evidence(o)
  <2> DEFINE edge(route) == graph_edges(o)["gather_evidence"][route]
             end(route, s) == /\ run' = [run EXCEPT ![o].node = edge(route), ![o].state = s]
                              /\ save(o, edge(route), s)
  <2>1. at(o, "record_evidence")
    BY <1>3 DEF gather_record_evidence
  <2>2. /\ run[o] # NoValue /\ TableOK(o) /\ ScenarioTypeOK
        /\ run[o].state \in GraphStates /\ Role(o, run[o].node) = "record_evidence"
    BY <2>1, RunningPlace
  <2>3. PICK failed : failed = [run[o].state EXCEPT !.evidence = NoValue]
    OBVIOUS
  <2>4. failed \in GraphStates
    BY <2>2, <2>3 DEF GraphStates
  <2>5. end("continue", run[o].state) \/ end("failure", failed)
    BY <1>3, <2>3, Zenon DEF gather_record_evidence
  <2>6. PICK route, s : /\ end(route, s) /\ s \in GraphStates
                        /\ route = "continue" \/ route = "failure"
    BY <2>2, <2>4, <2>5
  <2>7. PICK next : /\ Leads(o, "gather_evidence", route, next)
                    /\ next = "calculate_assessment" \/ next = "mark_failed"
    <3>1. Role(o, "gather_evidence") = "gather_evidence" /\ Edges(o, "gather_evidence")
      BY <2>2 DEF TableOK, NamedNodes
    <3> QED
      BY <2>6, <3>1 DEF Edges
  <2>8. PICK n, f : n = edge(route) /\ f = [run EXCEPT ![o].node = n]
    OBVIOUS
  <2>9. run' = [f EXCEPT ![o].state = s] /\ save(o, n, s)
    BY <2>6, <2>8
  <2>10. Goes(o, next, s)
    BY <2>2, <2>6, <2>7, <2>8, <2>9, EdgeGoes
  <2>11. Role(o, run'[o].node) = next
    BY <2>10 DEF Goes, Stands
  <2>12. Role(o, run'[o].node) \notin BindingRoles
    BY <2>7, <2>11 DEF BindingRoles, StopRoles, ExecutionRoles
  <2> QED
    BY <2>2, <2>12, PlainTurn DEF StopRoles
<1> QED
  BY <1>1, <1>2, <1>3

\* From the assessment to the recorded plan.
LEMMA PlanTurns ==
    ASSUME GraphInv, NEW o \in Operations,
           \/ calculate_assessment(o) \/ explain_plan(o)
           \/ build_and_validate_plan(o) \/ record_low_plan(o)
    PROVE  NodeTurns(o)
<1> DEFINE st == run[o].state
<1>1. CASE calculate_assessment(o)
  <2>1. at(o, "calculate_assessment") /\ "calculate_assessment" \in Roles
    BY <1>1, RoleNames DEF calculate_assessment
  <2>2. /\ Role(o, run[o].node) = "calculate_assessment" /\ Edges(o, run[o].node)
        /\ st \in GraphStates
    BY <2>1, RunningPlace
  <2>3. PICK route : route = route_assessment(o)
    OBVIOUS
  <2>4. leave(o, route, st) \/ fail(o)
    BY <1>1, <2>3 DEF calculate_assessment, Reading
  <2>5. route = "query" \/ route = "normal" \/ route = required_route(o)
    BY <2>3 DEF route_assessment
  <2>6. PICK next : /\ Leads(o, run[o].node, route, next)
                    /\ \/ next = "record_query_assessment" \/ next = "record_normal_plan"
                       \/ next = "explain_plan"
    BY <2>2, <2>5 DEF Edges
  <2>7. Leads(o, run[o].node, "failure", "mark_failed")
    BY <2>2 DEF Edges
  <2> QED
    BY <2>1, <2>2, <2>4, <2>6, <2>7, PlainLeave DEF BindingRoles, StopRoles, ExecutionRoles
<1>2. CASE explain_plan(o)
  <2>1. at(o, "explain_plan") /\ "explain_plan" \in Roles /\ leave(o, "continue", st)
    BY <1>2, RoleNames DEF explain_plan
  <2>2. st \in GraphStates /\ Leads(o, run[o].node, "continue", "build_and_validate_plan")
    BY <2>1, RunningPlace DEF Edges
  <2> QED
    BY <2>1, <2>2, PlainLeave DEF BindingRoles, StopRoles, ExecutionRoles
<1>3. CASE build_and_validate_plan(o)
  <2>1. at(o, "build_and_validate_plan") /\ "build_and_validate_plan" \in Roles
    BY <1>3, RoleNames DEF build_and_validate_plan
  <2>2. /\ st \in GraphStates /\ st.evidence \in Bundles /\ PlanOf[st.evidence] \in Plans
        /\ Leads(o, run[o].node, "continue", "record_low_plan")
        /\ Leads(o, run[o].node, "failure", "mark_failed")
    BY <2>1, RunningPlace DEF Edges, PlaceOK, EvidenceRoles, PlannedRoles
  <2>3. PICK ps : ps = [st EXCEPT !.plan = PlanOf[st.evidence]]
    OBVIOUS
  <2>4. ps \in GraphStates
    BY <2>2, <2>3 DEF GraphStates
  <2>5. leave(o, "continue", ps) \/ fail(o)
    BY <1>3, <2>3, Zenon DEF build_and_validate_plan, Reading
  <2>7. "record_low_plan" \notin BindingRoles
        /\ "build_and_validate_plan" \notin StopRoles
    BY DEF BindingRoles, StopRoles, ExecutionRoles
  <2> QED
    BY <2>1, <2>2, <2>4, <2>5, <2>7, PlainLeave
<1>4. CASE record_low_plan(o)
  <2>1. at(o, "record_low_plan") /\ "record_low_plan" \in Roles
    BY <1>4, RoleNames DEF record_low_plan
  <2>2. /\ st \in GraphStates /\ st.evidence \in Bundles /\ st.plan \in Plans
        /\ Leads(o, run[o].node, "continue", "prepare_approval")
    BY <2>1, RunningPlace DEF Edges, PlaceOK, EvidenceRoles
  <2>3. PICK g : g = build_approval_binding(st.evidence, st.plan)
    OBVIOUS
  <2>4. PICK bs : bs = [st EXCEPT !.binding = g]
    OBVIOUS
  <2>5. bs \in GraphStates
    <3>1. g \in Bindings
      BY <2>2, <2>3 DEF build_approval_binding, Bindings
    <3> QED
      BY <2>2, <2>4, <3>1 DEF GraphStates
  <2>6. leave(o, "continue", bs) \/ raise(o, "raised") \/ raise(o, "conflict")
    BY <1>4, <2>3, <2>4, Zenon DEF record_low_plan, Transition
  <2>7. "prepare_approval" \notin BindingRoles
        /\ "record_low_plan" \notin StopRoles
    BY DEF BindingRoles, StopRoles, ExecutionRoles
  <2> QED
    BY <2>1, <2>2, <2>5, <2>6, <2>7, PlainLeave
<1> QED
  BY <1>1, <1>2, <1>3, <1>4

\* A node that leads to a place that keeps its promises.
LEMMA FreshLeave ==
    ASSUME GraphInv, NEW o \in Operations, NEW role \in Roles, at(o, role),
           role \notin StopRoles \cup {"revalidate_evidence", "mark_rejected",
                                       "mark_verifier_aborted", "mark_failed"},
           NEW route, NEW next, NEW st \in GraphStates,
           \/ /\ leave(o, route, st) /\ Leads(o, run[o].node, route, next)
              /\ StandsNext(o, next, st, o \notin setBack)
           \/ fail(o) /\ Leads(o, run[o].node, "failure", "mark_failed")
           \/ raise(o, "raised") \/ raise(o, "conflict")
    PROVE  NodeTurns(o)
<1>1. role = Role(o, run[o].node)
  BY RunningPlace
<1>2. role \notin {"resume_decision", "END", "raised", "conflict"}
  BY RoleNames
<1>3. CASE /\ leave(o, route, st) /\ Leads(o, run[o].node, route, next)
           /\ StandsNext(o, next, st, o \notin setBack)
  <2>1. Goes(o, next, st)
    BY <1>3, RunningPlace, LeaveGoes
  <2>2. Role(o, run'[o].node) = next /\ run'[o].state = st
    BY <2>1 DEF Goes, Stands
  <2>3. StandsNext(o, Role(o, run'[o].node), run'[o].state, o \notin setBack)
    BY <1>3, <2>2
  <2> QED
    BY <1>1, <1>2, <2>3 DEF NodeTurns
<1>4. CASE \/ fail(o) /\ Leads(o, run[o].node, "failure", "mark_failed")
           \/ raise(o, "raised") \/ raise(o, "conflict")
  <2>1. "mark_failed" \notin BindingRoles
    BY DEF BindingRoles, StopRoles, ExecutionRoles
  <2> QED
    BY <1>4, <2>1, PlainLeave
<1> QED
  BY <1>3, <1>4

\* The graph stops with the binding that the row shows, whether this run or
\* an earlier one asked for the decision.
LEMMA StopTurns ==
    ASSUME GraphInv, BoundInv, NEW o \in Operations,
           prepare_approval(o) \/ graph_mark_needs_reapproval(o)
    PROVE  NodeTurns(o)
<1> DEFINE st == run[o].state
<1>1. TypeOK /\ EventOK(o) /\ DecisionInv'
  BY NodesKeep DEF GraphInv, BoundInv, NodeAction
<1>2. ASSUME NEW next \in StopRoles, NEW s, s.binding = snapshot'[o].binding,
             status'[o] \in AwaitingDecision
      PROVE  StandsNext(o, next, s, o \notin setBack)
  <2>1. cycle'[o] > 0
    BY <1>1, <1>2 DEF DecisionInv, CycleFollowsStatus
  <2> QED
    BY <1>2, <2>1 DEF StandsNext, KeptOK, Consented, FreshOK, StopRoles, ExecutionRoles
<1>3. CASE prepare_approval(o)
  <2>1. at(o, "prepare_approval") /\ "prepare_approval" \in Roles
    BY <1>3, RoleNames DEF prepare_approval
  <2>2. st \in GraphStates /\ Leads(o, run[o].node, "continue", "request_approval")
    BY <2>1, RunningPlace DEF Edges
  <2>3. PICK b, d, p : b = st.binding /\ d = now + ApprovalTtl /\ p = [binding |-> b, deadline |-> d]
    OBVIOUS
  <2>4. \/ leave(o, "continue", st) /\ mark_awaiting_approval(o, b, d)
        \/ /\ leave(o, "continue", st) /\ UNCHANGED storeVars
           /\ replayed(o, "awaiting_approval", "approval_requested", p)
        \/ raise(o, "raised") \/ raise(o, "conflict")
    BY <1>3, <2>3, Zenon DEF prepare_approval, Transition
  <2>5. ASSUME leave(o, "continue", st)
        PROVE  \/ b = snapshot'[o].binding /\ status'[o] \in AwaitingDecision
               \/ raise(o, "raised") \/ raise(o, "conflict")
    <3>1. CASE mark_awaiting_approval(o, b, d)
      BY <1>1, <3>1 DEF mark_awaiting_approval, transition, TypeOK, Snapshots, AwaitingDecision
    <3>2. CASE UNCHANGED storeVars /\ replayed(o, "awaiting_approval", "approval_requested", p)
      <4>1. status[o] = "awaiting_approval" /\ matching_event(o, "approval_requested", p)
        BY <3>2 DEF replayed
      <4>2. p.binding = snapshot[o].binding
        BY <1>1, <4>1, MatchingTells DEF EventOK
      <4> QED
        BY <2>3, <3>2, <4>1, <4>2 DEF storeVars, opVars, AwaitingDecision
    <3> QED
      BY <2>4, <3>1, <3>2
  <2>6. \/ leave(o, "continue", st) /\ StandsNext(o, "request_approval", st, o \notin setBack)
        \/ raise(o, "raised") \/ raise(o, "conflict")
    BY <1>2, <2>3, <2>4, <2>5 DEF StopRoles
  <2>7. "prepare_approval" \notin StopRoles
    BY DEF StopRoles
  <2> QED
    BY <2>1, <2>2, <2>6, <2>7, FreshLeave
<1>4. CASE graph_mark_needs_reapproval(o)
  <2>1. at(o, "mark_needs_reapproval") /\ "mark_needs_reapproval" \in Roles
    BY <1>4, RoleNames DEF graph_mark_needs_reapproval
  <2>2. st \in GraphStates /\ Leads(o, run[o].node, "continue", "request_reapproval")
    BY <2>1, RunningPlace DEF Edges
  <2>3. PICK b, d, p, open : /\ b = st.binding /\ d = now + ApprovalTtl
                             /\ p = [approval |-> st.approval, binding |-> b]
                             /\ open = [st EXCEPT !.approval = NoValue]
    OBVIOUS
  <2>4. open \in GraphStates /\ open.binding = b
    BY <2>2, <2>3 DEF GraphStates
  <2>5. \/ /\ leave(o, "continue", open)
           /\ mark_needs_reapproval(o, st.approval, st.evidence, st.plan, b, d)
        \/ /\ leave(o, "continue", open) /\ UNCHANGED storeVars
           /\ replayed(o, "needs_reapproval", "reapproval_requested", p)
        \/ raise(o, "raised") \/ raise(o, "conflict")
    BY <1>4, <2>3, Zenon DEF graph_mark_needs_reapproval, Transition
  <2>6. ASSUME leave(o, "continue", open)
        PROVE  \/ b = snapshot'[o].binding /\ status'[o] \in AwaitingDecision
               \/ raise(o, "raised") \/ raise(o, "conflict")
    <3>1. CASE mark_needs_reapproval(o, st.approval, st.evidence, st.plan, b, d)
      BY <1>1, <3>1 DEF mark_needs_reapproval, transition, TypeOK, AwaitingDecision
    <3>2. CASE UNCHANGED storeVars /\ replayed(o, "needs_reapproval", "reapproval_requested", p)
      <4>1. status[o] = "needs_reapproval" /\ matching_event(o, "reapproval_requested", p)
        BY <3>2 DEF replayed
      <4>2. p.binding = snapshot[o].binding
        BY <1>1, <4>1, MatchingTells DEF EventOK
      <4> QED
        BY <2>3, <3>2, <4>1, <4>2 DEF storeVars, opVars, AwaitingDecision
    <3> QED
      BY <2>5, <3>1, <3>2
  <2>7. \/ leave(o, "continue", open) /\ StandsNext(o, "request_reapproval", open, o \notin setBack)
        \/ raise(o, "raised") \/ raise(o, "conflict")
    BY <1>2, <2>4, <2>5, <2>6 DEF StopRoles
  <2>8. "mark_needs_reapproval" \notin StopRoles
    BY DEF StopRoles
  <2> QED
    BY <2>1, <2>2, <2>4, <2>7, <2>8, FreshLeave
<1> QED
  BY <1>3, <1>4

\* What the place of a running graph promises about the row.
LEMMA RunningFresh ==
    ASSUME GraphInv, BoundInv, NEW o \in Operations, NEW role, at(o, role)
    PROVE  StandsOK(o, role, run[o].state, o \notin setBack)
<1>1. run[o] # NoValue /\ Role(o, run[o].node) = role
  BY RunningPlace
<1> QED
  BY <1>1 DEF BoundInv, BoundOK

\* The revalidation keeps its approval and its binding for the execution.
LEMMA RevalidateTurns ==
    ASSUME GraphInv, BoundInv, NEW o \in Operations, revalidate_evidence(o)
    PROVE  NodeTurns(o)
<1>1. at(o, "revalidate_evidence")
  BY DEF revalidate_evidence
<1>2. /\ Role(o, run[o].node) = "revalidate_evidence"
      /\ StandsOK(o, "revalidate_evidence", run[o].state, o \notin setBack)
      /\ UNCHANGED <<cycle, snapshot, approvals>>
  <2>1. UNCHANGED storeVars
    BY Zenon DEF revalidate_evidence
  <2> QED
    BY <1>1, <2>1, RunningPlace, RunningFresh DEF storeVars, opVars
<1>3. PICK role \in ApprovedRoles \cup {"mark_failed"}, st \in GraphStates :
          /\ role # "revalidate_evidence"
          /\ Goes(o, role, st)
          /\ role = "mark_executing" => st = run[o].state
  BY RevalidateLeads
<1>4. Role(o, run'[o].node) = role /\ run'[o].state = st
  BY <1>3 DEF Goes, Stands
<1>5. StandsNext(o, Role(o, run'[o].node), run'[o].state, o \notin setBack)
  BY <1>2, <1>3, <1>4 DEF StandsOK, StandsNext, KeptOK, FreshOK, ApprovedRoles, BindingRoles,
     StopRoles, ExecutionRoles
<1>6. role \in LateRoles \ {"revalidate_evidence"}
  BY <1>3 DEF ApprovedRoles, LateRoles
<1> QED
  BY <1>2, <1>4, <1>5, <1>6 DEF NodeTurns, StopRoles

\* The execution begins with the plan of the row, because the approval of the
\* current cycle, and the one whose execution has begun, are about the
\* binding of the row.
LEMMA ExecutingTurns ==
    ASSUME GraphInv, BoundInv, NEW o \in Operations, graph_mark_executing(o)
    PROVE  NodeTurns(o)
<1> DEFINE st == run[o].state
<1>1. at(o, "mark_executing") /\ "mark_executing" \in Roles
  BY RoleNames DEF graph_mark_executing
<1>2. /\ st \in GraphStates /\ IsBound(st)
      /\ Leads(o, run[o].node, "continue", "execute_work_order")
  BY <1>1, RunningPlace DEF PlaceOK, BoundRoles, DecidedRoles, Edges
<1>3. /\ o \notin setBack => st.approval.binding = st.binding
      /\ KeptOK(o, "mark_executing", st, cycle[o], snapshot[o].binding, approvals)
  BY <1>1, RunningFresh DEF StandsOK, FreshOK
<1>4. \/ /\ leave(o, "continue", st)
         /\ approval_locator(o, st.approval, "approved") /\ mark_executing(o, st.approval)
      \/ /\ leave(o, "continue", st) /\ UNCHANGED storeVars
         /\ replayed(o, "executing", "execution_started", st.approval)
      \/ raise(o, "raised") \/ raise(o, "conflict")
  BY Zenon DEF graph_mark_executing, Transition
<1>5. ASSUME leave(o, "continue", st)
      PROVE  \/ st.approval.binding = snapshot'[o].binding
             \/ raise(o, "raised") \/ raise(o, "conflict")
  <2>1. CASE approval_locator(o, st.approval, "approved") /\ mark_executing(o, st.approval)
    <3>1. st.approval.binding = snapshot[o].binding
      BY <2>1 DEF approval_locator, GraphInv, DecisionInv, DecisionBindsSnapshot, current_approval
    <3>2. snapshot' = snapshot
      BY <2>1 DEF mark_executing
    <3> QED
      BY <3>1, <3>2
  <2>2. CASE UNCHANGED storeVars /\ replayed(o, "executing", "execution_started", st.approval)
    <3>1. /\ status[o] = "executing" /\ EventOK(o)
          /\ matching_event(o, "execution_started", st.approval)
      BY <2>2 DEF replayed, BoundInv
    <3>2. st.approval.binding = snapshot[o].binding
      BY <3>1, MatchingTells DEF EventOK
    <3> QED
      BY <2>2, <3>2 DEF storeVars, opVars
  <2> QED
    BY <1>4, <2>1, <2>2
<1>6. st.binding = snapshot'[o].binding => st.plan = snapshot'[o].binding.plan
  BY <1>2 DEF IsBound, build_approval_binding
<1>7. KeptOK(o, "mark_executing", st, cycle'[o], snapshot'[o].binding, approvals')
  <2>1. StoreMoves(o)
    BY NodesKeep, NextMoves DEF NodeAction, GraphInv
  <2> QED
    BY <1>3, <2>1, KeptStays
<1>8. \/ leave(o, "continue", st) /\ StandsNext(o, "execute_work_order", st, o \notin setBack)
      \/ raise(o, "raised") \/ raise(o, "conflict")
  BY <1>3, <1>4, <1>5, <1>6, <1>7 DEF StandsNext, KeptOK, FreshOK, BindingRoles, StopRoles
<1>9. "mark_executing" \notin StopRoles
  BY DEF StopRoles
<1> QED
  BY <1>1, <1>2, <1>8, <1>9, FreshLeave

\* During the execution the plan stays that of the row.
LEMMA ExecutionTurns ==
    ASSUME GraphInv, BoundInv, NEW o \in Operations, [Next]_storeVars,
           execute_work_order(o) \/ graph_mark_verifying(o) \/ verify_work_order(o)
    PROVE  NodeTurns(o)
<1> DEFINE st == run[o].state
<1>1. PICK role : /\ at(o, role)
                  /\ \/ role = "execute_work_order" /\ execute_work_order(o)
                     \/ role = "mark_verifying" /\ graph_mark_verifying(o)
                     \/ role = "verify_work_order" /\ verify_work_order(o)
  BY DEF execute_work_order, graph_mark_verifying, verify_work_order
<1>2. role \in Roles /\ role \in ExecutionRoles /\ role \notin StopRoles
  BY <1>1, RoleNames DEF ExecutionRoles, StopRoles
<1>3. /\ st \in GraphStates /\ IsBound(st) /\ status[o] \in AfterExecution
      /\ Role(o, run[o].node) = role /\ Edges(o, run[o].node)
  BY <1>1, <1>2, RunningPlace DEF PlaceOK, BoundRoles
<1>4. StandsOK(o, role, st, o \notin setBack)
  BY <1>1, <1>2, RunningFresh
<1>5. /\ snapshot'[o].binding = snapshot[o].binding
      /\ KeptOK(o, role, st, cycle'[o], snapshot'[o].binding, approvals')
  <2>1. StoreMoves(o)
    BY NextMoves DEF GraphInv
  <2> QED
    BY <1>3, <1>4, <2>1, KeptStays DEF StoreMoves, AfterExecution, StandsOK
<1>6. PICK written, done : /\ written = [op |-> o, payload |-> st.plan]
                           /\ done = [st EXCEPT !.work = written]
  OBVIOUS
<1>7. written \in WorkOrderRows
  BY <1>3, <1>6 DEF IsBound, WorkOrderRows
<1>8. done \in GraphStates /\ done.plan = st.plan /\ done.binding = st.binding
  BY <1>3, <1>6, <1>7 DEF GraphStates
<1>9. ASSUME NEW next \in ExecutionRoles, NEW s, s.plan = st.plan, s.binding = st.binding
      PROVE  StandsNext(o, next, s, o \notin setBack)
  BY <1>2, <1>4, <1>5, <1>9 DEF StandsOK, StandsNext, KeptOK, FreshOK, BindingRoles, StopRoles,
     ExecutionRoles
<1>10. CASE role = "execute_work_order" /\ execute_work_order(o)
  <2>1. leave(o, "continue", done) \/ fail(o)
    BY <1>6, <1>10, Zenon DEF execute_work_order
  <2>2. /\ Leads(o, run[o].node, "continue", "mark_verifying")
        /\ Leads(o, run[o].node, "failure", "mark_failed")
        /\ StandsNext(o, "mark_verifying", done, o \notin setBack)
    BY <1>3, <1>8, <1>9, <1>10 DEF Edges, ExecutionRoles
  <2> QED
    BY <1>1, <1>2, <1>8, <1>10, <2>1, <2>2, FreshLeave
<1>11. CASE role = "mark_verifying" /\ graph_mark_verifying(o)
  <2>1. leave(o, "continue", st) \/ raise(o, "raised") \/ raise(o, "conflict")
    BY <1>11, Zenon DEF graph_mark_verifying, Transition
  <2>2. /\ Leads(o, run[o].node, "continue", "verify_work_order")
        /\ StandsNext(o, "verify_work_order", st, o \notin setBack)
    BY <1>3, <1>9, <1>11 DEF Edges, ExecutionRoles
  <2> QED
    BY <1>1, <1>2, <1>3, <1>11, <2>1, <2>2, FreshLeave
<1>12. CASE role = "verify_work_order" /\ verify_work_order(o)
  <2>1. leave(o, "continue", st) \/ fail(o)
    BY <1>12, Zenon DEF verify_work_order, Reading
  <2>2. /\ Leads(o, run[o].node, "continue", "mark_completed")
        /\ Leads(o, run[o].node, "failure", "mark_failed")
        /\ StandsNext(o, "mark_completed", st, o \notin setBack)
    BY <1>3, <1>9, <1>12 DEF Edges, ExecutionRoles
  <2> QED
    BY <1>1, <1>2, <1>3, <1>12, <2>1, <2>2, FreshLeave
<1> QED
  BY <1>1, <1>10, <1>11, <1>12

\* Two nodes ask for a decision.
LEMMA NodeAsks ==
    ASSUME GraphInv, NEW o \in Operations, NodeAction(o), Asks(o)
    PROVE  Role(o, run[o].node) \in {"prepare_approval", "mark_needs_reapproval"}
<1> DEFINE st == run[o].state
<1>1. TypeOK
  BY DEF GraphInv
<1>2. ASSUME \/ UNCHANGED storeVars
             \/ \E e \in Errors : mark_failed(o, e)
             \/ create_or_get(o, st.plan)
      PROVE  FALSE
  BY <1>1, <1>2 DEF Asks, mark_failed, create_or_get, transition, TypeOK, AwaitingDecision,
                    storeVars, opVars
<1>3. ASSUME \/ mark_gathering_evidence(o) \/ mark_reporting(o)
             \/ record_evidence(o, st.evidence) \/ record_query_assessment(o, st.evidence)
             \/ record_validated_plan(o, st.evidence, st.plan)
             \/ record_validated_plan(o, st.evidence, NoValue)
             \/ \E outcome : complete_without_replenishment(o, outcome)
      PROVE  FALSE
  BY <1>1, <1>3 DEF Asks, mark_gathering_evidence, mark_reporting, record_evidence,
                    record_query_assessment, record_validated_plan,
                    complete_without_replenishment, transition, TypeOK, AwaitingDecision
<1>4. ASSUME \/ mark_rejected(o, st.approval) \/ mark_verifier_aborted(o, st.approval)
             \/ mark_executing(o, st.approval) \/ mark_verifying(o, st.work)
             \/ mark_completed(o, st.work)
      PROVE  FALSE
  BY <1>1, <1>4 DEF Asks, mark_rejected, mark_verifier_aborted, mark_executing, mark_verifying,
                    mark_completed, transition, TypeOK, AwaitingDecision
<1>5. CASE \/ parse_request(o) \/ gather_evidence(o) \/ calculate_assessment(o)
           \/ explain_plan(o) \/ build_and_validate_plan(o) \/ verify_work_order(o)
  BY <1>2, <1>5 DEF parse_request, gather_evidence, calculate_assessment, explain_plan,
                    build_and_validate_plan, verify_work_order, Reading
<1>6. CASE revalidate_evidence(o)
  <2>1. UNCHANGED storeVars
    BY <1>6, Zenon DEF revalidate_evidence
  <2> QED
    BY <1>2, <2>1
<1>7. CASE agent_investigation(o) \/ graph_mark_failed(o) \/ execute_work_order(o)
  <2>1. \/ UNCHANGED storeVars
        \/ \E e \in Errors : mark_failed(o, e)
        \/ create_or_get(o, st.plan)
    BY <1>7, Zenon DEF agent_investigation, graph_mark_failed, execute_work_order
  <2> QED
    BY <1>2, <2>1
<1>8. CASE gather_record_evidence(o)
  <2>1. record_evidence(o, st.evidence) \/ UNCHANGED storeVars
    BY <1>8, Zenon DEF gather_record_evidence
  <2> QED
    BY <1>2, <1>3, <2>1
<1>9. CASE mark_gathering(o)
  <2>1. mark_gathering_evidence(o) \/ UNCHANGED storeVars
    BY <1>9, Zenon DEF mark_gathering, Transition
  <2> QED
    BY <1>2, <1>3, <2>1
<1>10. CASE record_normal_plan(o)
  <2>1. record_validated_plan(o, st.evidence, NoValue) \/ UNCHANGED storeVars
    BY <1>10, Zenon DEF record_normal_plan, Transition
  <2> QED
    BY <1>2, <1>3, <2>1
<1>11. CASE graph_record_query_assessment(o)
  <2>1. record_query_assessment(o, st.evidence) \/ UNCHANGED storeVars
    BY <1>11, Zenon DEF graph_record_query_assessment, Transition
  <2> QED
    BY <1>2, <1>3, <2>1
<1>12. CASE graph_mark_reporting(o)
  <2>1. mark_reporting(o) \/ UNCHANGED storeVars
    BY <1>12, Zenon DEF graph_mark_reporting, Transition
  <2> QED
    BY <1>2, <1>3, <2>1
<1>13. CASE graph_complete_without_replenishment(o)
  <2>1. (\E outcome : complete_without_replenishment(o, outcome)) \/ UNCHANGED storeVars
    BY <1>13, Zenon DEF graph_complete_without_replenishment, Transition
  <2> QED
    BY <1>2, <1>3, <2>1
<1>14. CASE record_low_plan(o)
  <2>1. record_validated_plan(o, st.evidence, st.plan) \/ UNCHANGED storeVars
    BY <1>14, Zenon DEF record_low_plan, Transition
  <2> QED
    BY <1>2, <1>3, <2>1
<1>15. CASE graph_mark_rejected(o)
  <2>1. mark_rejected(o, st.approval) \/ UNCHANGED storeVars
    BY <1>15, Zenon DEF graph_mark_rejected, Transition
  <2> QED
    BY <1>2, <1>4, <2>1
<1>16. CASE graph_mark_verifier_aborted(o)
  <2>1. mark_verifier_aborted(o, st.approval) \/ UNCHANGED storeVars
    BY <1>16, Zenon DEF graph_mark_verifier_aborted, Transition
  <2> QED
    BY <1>2, <1>4, <2>1
<1>17. CASE graph_mark_executing(o)
  <2>1. mark_executing(o, st.approval) \/ UNCHANGED storeVars
    BY <1>17, Zenon DEF graph_mark_executing, Transition
  <2> QED
    BY <1>2, <1>4, <2>1
<1>18. CASE graph_mark_verifying(o)
  <2>1. mark_verifying(o, st.work) \/ UNCHANGED storeVars
    BY <1>18, Zenon DEF graph_mark_verifying, Transition
  <2> QED
    BY <1>2, <1>4, <2>1
<1>19. CASE graph_mark_completed(o)
  <2>1. mark_completed(o, st.work) \/ UNCHANGED storeVars
    BY <1>19, Zenon DEF graph_mark_completed, Transition
  <2> QED
    BY <1>2, <1>4, <2>1
<1>20. CASE prepare_approval(o) \/ graph_mark_needs_reapproval(o)
  <2>1. at(o, "prepare_approval") \/ at(o, "mark_needs_reapproval")
    BY <1>20 DEF prepare_approval, graph_mark_needs_reapproval
  <2> QED
    BY <2>1, RunningPlace
<1> QED
  BY <1>5, <1>6, <1>7, <1>8, <1>9, <1>10, <1>11, <1>12, <1>13, <1>14, <1>15, <1>16, <1>17,
     <1>18, <1>19, <1>20 DEF NodeAction

\* Where every node leads.
LEMMA NodesTurn ==
    ASSUME GraphInv, BoundInv, NEW o \in Operations, NodeAction(o)
    PROVE  NodeTurns(o)
<1>1. [Next]_storeVars
  BY NodesKeep
<1> QED
  BY <1>1, FreeTurns, GatherTurns, PlanTurns, StopTurns, RevalidateTurns, ExecutingTurns,
     ExecutionTurns DEF NodeAction

\* A coroutine leaves nothing unsaved where an exception unwinds: raise has
\* saved it, or the coroutine has not come to its graph.
LEMMA NodeSaves ==
    ASSUME GraphInv, BoundInv, NEW o \in Operations, NodeAction(o)
    PROVE  SavedOK(o)'
<1>1. NodeStep(o) /\ NodeLands(o) /\ run[o] # NoValue /\ RunOK(o) /\ SavedOK(o) /\ RowOK(o)
  BY NodesLand DEF GraphInv, BoundInv, BoundOK, NodeStep
<1>2. TableOK(o)
  BY <1>1, Table DEF RowOK, RunOK, PlaceOK
<1>3. CASE Raises(o)
  BY <1>3 DEF Raises, SavedOK
<1>4. CASE \E role : \E s : Goes(o, role, s)
  <2>1. PICK n \in NodesOf(o) \cup {"END"} : run'[o] # NoValue /\ run'[o].node = n
    BY <1>4 DEF Goes, Stands
  <2>2. n \notin SavedPlaces
    BY <1>2, <2>1 DEF TableOK, SavedPlaces, Positions
  <2> QED
    BY <2>1, <2>2 DEF SavedOK
<1>5. CASE \E n : \E s : Slips(o, n, s)
  <2>1. PICK n, s : Slips(o, n, s)
    BY <1>5
  <2>2. run'[o] # NoValue /\ run'[o].node = n /\ lag'[o] = lag[o]
    BY <2>1 DEF Slips, Stands
  <2>3. CASE Role(o, run[o].node) = "gather_evidence"
    BY <2>1, <2>2, <2>3 DEF Slips, SavedOK, SavedPlaces
  <2>4. CASE Role(o, run[o].node) = "agent_investigation"
    <3>1. run[o].node \notin NodesOf(o)
      BY <1>2, <2>4, RoleNames DEF TableOK
    <3>2. run[o].node = "agent_investigation"
      BY <1>1, <2>4, <3>1 DEF RunOK, Role
    <3>3. lag[o] = 0
      BY <1>1, <3>2 DEF SavedOK, SavedPlaces
    <3> QED
      BY <2>2, <3>3 DEF SavedOK
  <2> QED
    BY <2>1, <2>3, <2>4 DEF Slips
<1> QED
  BY <1>1, <1>3, <1>4, <1>5 DEF NodeLands

\* A graph that has left its interrupt asks for another decision only when a
\* checkpoint after the interrupt is saved, or three are not.
LEMMA AsksOnce ==
    ASSUME GraphInv, BoundInv, NEW o \in Operations, run[o] # NoValue,
           ckpt[o] # NoValue, Role(o, ckpt[o].node) \in StopRoles, lag[o] + 1 <= 2
    PROVE  Role(o, run[o].node) \in LateRoles \ {"mark_needs_reapproval", "mark_executing"}
<1>1. LeftOK(o)
  BY DEF BoundInv, BoundOK
<1>2. lag[o] \in Nat
  BY ScenarioAssumption DEF GraphInv, ScenarioTypeOK
<1>3. ~ (lag[o] >= 2) /\ lag[o] <= 2
  BY <1>2
<1> QED
  BY <1>1, <1>3 DEF LeftOK

\* The checkpoint that a node leaves behind, while it counts.
LEMMA BehindBound ==
    ASSUME GraphInv, BoundInv, NEW o \in Operations, NodeAction(o), NodeTurns(o),
           ckpt'[o] = ckpt[o], ckpt[o] # NoValue,
           lag'[o] = lag[o] \/ lag'[o] = lag[o] + 1, lag'[o] <= 2,
           Role(o, ckpt[o].node) \in StopRoles => lag'[o] = lag[o] + 1
    PROVE  (Asks(o) => Role(o, ckpt[o].node) \notin StopRoles) /\ LeftNext(o)
<1>1. PICK r : r = Role(o, run[o].node)
  OBVIOUS
<1>2. run[o] # NoValue /\ LeftOK(o) /\ lag[o] \in Nat
  BY NodesLand DEF NodeStep, GraphInv, ScenarioTypeOK, BoundInv, BoundOK
<1>3. CASE Role(o, ckpt[o].node) \in StopRoles
  <2>1. lag'[o] = lag[o] + 1 /\ lag[o] <= 2
    BY <1>2, <1>3
  <2>2. r \in LateRoles \ {"mark_needs_reapproval", "mark_executing"}
    BY <1>1, <1>2, <1>3, <2>1, AsksOnce
  <2>3. ~ Asks(o)
    BY <1>1, <2>2, NodeAsks DEF LateRoles, StopRoles
  <2>4. r \notin StopRoles \cup {"resume_decision", "END", "raised", "conflict"}
    BY <1>1 DEF NodeTurns
  <2>5. CASE r = "revalidate_evidence"
    <3>1. lag[o] >= 1
      BY <1>1, <1>2, <1>3, <2>1, <2>5 DEF LeftOK
    <3>2. Role(o, run'[o].node) \in LateRoles \ {"revalidate_evidence"}
      BY <1>1, <2>5 DEF NodeTurns
    <3>3. lag'[o] >= 2
      BY <1>2, <2>1, <3>1
    <3> QED
      BY <2>3, <3>2, <3>3 DEF LeftNext
  <2>6. CASE r \in {"mark_rejected", "mark_verifier_aborted", "mark_failed"}
    <3>1. Role(o, run'[o].node) \in {"END", "raised", "conflict"}
      BY <1>1, <2>6 DEF NodeTurns
    <3> QED
      BY <2>3, <3>1 DEF LeftNext, LateRoles
  <2> QED
    BY <2>2, <2>4, <2>5, <2>6 DEF LateRoles
<1>4. CASE Role(o, ckpt[o].node) \notin StopRoles
  BY <1>4 DEF LeftNext
<1> QED
  BY <1>3, <1>4

\* Every node preserves the second invariant.
LEMMA NodeBound ==
    ASSUME GraphInv, BoundInv, NEW o \in Operations, NodeAction(o)
    PROVE  BoundInv'
<1>1. /\ [Next]_storeVars /\ NodeStep(o) /\ NodeLands(o) /\ NodeTurns(o)
      /\ TypeOK /\ StoreMoves(o) /\ RunOK(o) /\ CkptOK(o) /\ DecidedOK(o) /\ BoundOK(o)
      /\ run[o] # NoValue /\ SavedOK(o)'
  <2>1. [Next]_storeVars /\ NodeStep(o) /\ NodeLands(o) /\ NodeTurns(o) /\ SavedOK(o)'
    BY NodesKeep, NodesLand, NodesTurn, NodeSaves
  <2>2. StoreMoves(o)
    BY <2>1, NextMoves DEF GraphInv
  <2> QED
    BY <2>1, <2>2 DEF GraphInv, BoundInv, NodeStep
<1>2. PICK r, n, st : r = Role(o, run[o].node) /\ n = run[o].node /\ st = run[o].state
  OBVIOUS
<1>3. /\ r \notin StopRoles \cup {"resume_decision", "END", "raised", "conflict"}
      /\ StandsNext(o, Role(o, run'[o].node), run'[o].state, o \notin setBack)
  BY <1>1, <1>2 DEF NodeTurns
<1>4. PlaceOK(r, st, status[o]) /\ status[o] # "absent"
      /\ StandsOK(o, r, st, o \notin setBack)
  BY <1>1, <1>2 DEF RunOK, BoundOK, PlaceOK
<1>5. StandsNext(o, r, st, o \notin setBack)
  BY <1>1, <1>3, <1>4, StandsStays
<1>6. decided'[o] = NoValue /\ decided' = decided /\ setBack' = setBack
  BY <1>1 DEF NodeStep, processVars, DecidedOK
<1>7. ASSUME ckpt'[o] = ckpt[o], ckpt[o] # NoValue,
             lag'[o] <= 2 => lag[o] <= 2 /\ (Asks(o) => Role(o, ckpt[o].node) \notin StopRoles)
      PROVE  StandsNext(o, Role(o, ckpt'[o].node), ckpt'[o].state,
                        o \notin setBack /\ lag'[o] <= 2)
  BY <1>1, <1>7, StandsStays DEF CkptOK, BoundOK
<1>8. /\ ckpt'[o] # NoValue =>
            StandsNext(o, Role(o, ckpt'[o].node), ckpt'[o].state,
                       o \notin setBack /\ lag'[o] <= 2)
      /\ LeftNext(o)
  <2>1. CASE Raises(o)
    <3>1. ckpt'[o].node = n /\ ckpt'[o].state = st
      BY <1>2, <2>1 DEF Raises, checkpoint
    <3> QED
      BY <1>2, <1>3, <1>5, <3>1 DEF LeftNext, StandsNext
  <2>2. CASE \E role : \E s : Goes(o, role, s) /\ Sound(o, role, s)
    <3>1. PICK role, s, m : /\ Role(o, m) = role /\ Stands(o, m, s) /\ Saves(o, m, s)
      BY <2>2 DEF Goes
    <3>2. run'[o].node = m /\ run'[o].state = s
      BY <3>1 DEF Stands
    <3>3. CASE ckpt'[o] = checkpoint(m, s)
      <4>1. ckpt'[o].node = m /\ ckpt'[o].state = s
        BY <3>3 DEF checkpoint
      <4> QED
        BY <1>3, <3>2, <4>1 DEF LeftNext, LateRoles, StopRoles, StandsNext
    <3>4. CASE ckpt'[o] = ckpt[o] /\ lag'[o] = lag[o] + 1
      <4>1. lag[o] \in Nat
        BY DEF GraphInv, ScenarioTypeOK
      <4>2. ASSUME ckpt[o] # NoValue, lag'[o] <= 2
            PROVE  /\ lag[o] <= 2 /\ (Asks(o) => Role(o, ckpt[o].node) \notin StopRoles)
                   /\ LeftNext(o)
        BY <1>1, <3>4, <4>1, <4>2, BehindBound
      <4> QED
        BY <1>7, <3>4, <4>2 DEF LeftNext
    <3> QED
      BY <3>1, <3>3, <3>4 DEF Saves
  <2>3. CASE \E m : \E s : Slips(o, m, s) /\ Sound(o, m, s)
    <3>1. /\ r \in {"agent_investigation", "gather_evidence"}
          /\ ckpt'[o] = ckpt[o] /\ lag'[o] = lag[o]
      BY <1>2, <2>3 DEF Slips
    <3>2. ~ Asks(o)
      BY <1>2, <3>1, NodeAsks
    <3>3. r \notin LateRoles
      BY <3>1 DEF LateRoles, StopRoles
    <3>4. ~ (ckpt[o] # NoValue /\ lag[o] <= 2 /\ Role(o, ckpt[o].node) \in StopRoles)
      BY <1>1, <1>2, <3>3 DEF BoundOK, LeftOK
    <3> QED
      BY <1>7, <3>1, <3>2, <3>4 DEF LeftNext
  <2> QED
    BY <1>1, <2>1, <2>2, <2>3 DEF NodeLands
<1>9. BoundThread(o)
  BY <1>1, <1>3, <1>6, <1>8 DEF BoundThread
<1>10. BoundOK(o)'
  BY <1>1, <1>4, <1>9, BoundNext
<1>11. ASSUME NEW q \in Operations, q # o
       PROVE  /\ run'[q] = run[q] /\ ckpt'[q] = ckpt[q] /\ lag'[q] = lag[q]
              /\ decided'[q] \in {decided[q], NoValue} /\ status'[q] = status[q]
  <2>1. ThreadMoves(o)
    BY <1>1 DEF NodeLands, Raises, Goes, Slips
  <2>2. status'[q] = status[q]
    BY <1>1, <1>11, OpFrame DEF NodeStep
  <2> QED
    BY <1>6, <1>11, <2>1, <2>2 DEF ThreadMoves
<1> QED
  BY <1>1, <1>6, <1>10, <1>11, OneBound

\* A failure asks for no decision.
LEMMA FailureAsksNothing ==
    ASSUME TypeOK, NEW o \in Operations,
           (\E e \in Errors : mark_failed(o, e)) \/ mark_start_failed(o) \/ UNCHANGED storeVars
    PROVE  \A q \in Operations : ~ Asks(q)
<1>1. CASE \E e \in Errors : mark_failed(o, e)
  BY <1>1 DEF mark_failed, transition, Asks, AwaitingDecision, TypeOK
<1>2. CASE UNCHANGED storeVars
  BY <1>2 DEF storeVars, opVars, Asks
<1> QED
  BY <1>1, <1>2 DEF mark_start_failed

\* A thread that rests keeps what its checkpoint promises, unless it is set
\* back now.
LEMMA RestsBound ==
    ASSUME GraphInv, BoundInv, [Next]_storeVars, NEW q \in Operations, run'[q] = NoValue,
           ckpt'[q] = ckpt[q] \/ ckpt'[q] = NoValue, lag'[q] = 0, decided'[q] = NoValue,
           ~ Asks(q), q \in setBack => q \in setBack',
           ckpt[q] = NoValue \/ lag[q] <= 2 \/ q \in setBack'
    PROVE  BoundOK(q)'
<1>1. TypeOK /\ StoreMoves(q) /\ CkptOK(q) /\ BoundOK(q) /\ SavedOK(q)'
  BY NextMoves DEF GraphInv, BoundInv, SavedOK
<1>2. CASE ckpt'[q] = NoValue
  BY <1>1, <1>2 DEF BoundOK, LeftOK
<1>3. CASE ckpt'[q] = ckpt[q] /\ ckpt[q] # NoValue
  <2>1. /\ status[q] # "absent" /\ PlaceOK(Role(q, ckpt[q].node), ckpt[q].state, status[q])
        /\ StandsOK(q, Role(q, ckpt[q].node), ckpt[q].state, q \notin setBack /\ lag[q] <= 2)
    BY <1>1, <1>3 DEF CkptOK, PlaceOK, BoundOK
  <2>2. StandsNext(q, Role(q, ckpt[q].node), ckpt[q].state, q \notin setBack' /\ lag'[q] <= 2)
    BY <1>1, <1>3, <2>1, StandsStays
  <2>3. BoundThread(q)
    BY <1>1, <1>3, <2>2 DEF BoundThread, LeftNext
  <2> QED
    BY <1>1, <2>1, <2>3, BoundNext
<1> QED
  BY <1>2, <1>3

\* The interrupt shows the binding of the row.
LEMMA StopBound ==
    ASSUME GraphInv, BoundInv, NEW o \in Operations, Stops(o)
    PROVE  BoundInv'
<1>1. PICK role \in StopRoles : at(o, role)
  BY DEF Stops, StopRoles
<1>2. PICK n, st : n = run[o].node /\ st = run[o].state
  OBVIOUS
<1>3. /\ run[o] # NoValue /\ Role(o, n) = role /\ PlaceOK(role, st, status[o])
      /\ TypeOK /\ ScenarioTypeOK /\ DecidedOK(o) /\ BoundOK(o)
  BY <1>1, <1>2, RunningPlace DEF GraphInv, BoundInv
<1>4. status[o] # "absent" /\ decided[o] = NoValue
  BY <1>3 DEF PlaceOK, DecidedOK
<1>5. UNCHANGED storeVars /\ decided' = decided /\ setBack' = setBack
  BY DEF Stops
<1>6. \A q \in Operations : ~ Asks(q) /\ status'[q] = status[q]
  BY <1>5 DEF Asks, storeVars, opVars
<1>7. [Next]_storeVars /\ StoreMoves(o)
  BY <1>3, <1>5, NextMoves DEF GraphInv
<1>8. /\ ckpt'[o] # NoValue /\ ckpt'[o].node = n /\ ckpt'[o].state = st /\ lag'[o] = 0
      /\ run'[o] # NoValue => run'[o].node = "resume_decision" /\ run'[o].state = st
      /\ \A q \in Operations : q # o =>
            run'[q] = run[q] /\ ckpt'[q] = ckpt[q] /\ lag'[q] = lag[q]
  BY <1>2, InterruptPlace
<1>9. StandsNext(o, Role(o, n), st, o \notin setBack)
  BY <1>2, <1>3, <1>6, <1>7, StandsStays DEF BoundOK
<1>10. Role(o, "resume_decision") = "resume_decision"
  BY DEF Role, Positions
<1>11. "resume_decision" \in LateRoles /\ "resume_decision" \notin BindingRoles
  BY DEF LateRoles, BindingRoles, StopRoles, ExecutionRoles
<1>12. StandsNext(o, "resume_decision", st, o \notin setBack)
  BY <1>11 DEF StandsNext, KeptOK, FreshOK, BindingRoles
<1>13. LeftNext(o) /\ SavedOK(o)'
  BY <1>8, <1>10, <1>11 DEF LeftNext, SavedOK
<1>14. BoundThread(o)
  BY <1>4, <1>5, <1>8, <1>9, <1>10, <1>12, <1>13 DEF BoundThread, StandsNext
<1>15. BoundOK(o)'
  BY <1>3, <1>4, <1>7, <1>14, BoundNext
<1> QED
  BY <1>5, <1>6, <1>7, <1>8, <1>15, OneBound

\* A node that fails before its interrupt.
LEMMA StopFails ==
    ASSUME GraphInv, BoundInv, NEW o \in Operations, NodeStep(o), UNCHANGED storeVars,
           Role(o, run[o].node) \in StopRoles, Raises(o) \/ Goes(o, "mark_failed", run[o].state)
    PROVE  BoundInv'
<1>1. PICK n, st : n = run[o].node /\ st = run[o].state
  OBVIOUS
<1>2. /\ run[o] # NoValue /\ PlaceOK(Role(o, n), st, status[o]) /\ status[o] # "absent"
      /\ TypeOK /\ ScenarioTypeOK /\ CkptOK(o) /\ DecidedOK(o) /\ BoundOK(o) /\ RowOK(o)
      /\ StandsOK(o, Role(o, n), st, o \notin setBack) /\ lag[o] \in Nat
  BY <1>1 DEF GraphInv, BoundInv, BoundOK, RunOK, PlaceOK, NodeStep, ScenarioTypeOK
<1>3. decided'[o] = NoValue /\ decided' = decided /\ setBack' = setBack
  BY <1>2 DEF NodeStep, processVars, DecidedOK
<1>4. \A q \in Operations : ~ Asks(q) /\ status'[q] = status[q]
  BY DEF Asks, storeVars, opVars
<1>5. [Next]_storeVars /\ StoreMoves(o)
  BY <1>2, NextMoves DEF GraphInv
<1>6. Role(o, run'[o].node) \in {"mark_failed", "raised", "conflict"} /\ run'[o] # NoValue
  BY DEF Raises, Goes, Stands, Role, Positions
<1>7. StandsNext(o, Role(o, run'[o].node), run'[o].state, o \notin setBack)
  BY <1>6 DEF StandsNext, KeptOK, FreshOK, BindingRoles, StopRoles, ExecutionRoles
<1>8. LeftNext(o)
  BY <1>6 DEF LeftNext, LateRoles
<1>9. TableOK(o)
  BY <1>2, Table DEF RowOK
<1>10. CASE Raises(o)
  <2>1. ckpt'[o].node = n /\ ckpt'[o].state = st /\ lag'[o] = 0
    BY <1>1, <1>10 DEF Raises, checkpoint
  <2>2. StandsNext(o, Role(o, n), st, o \notin setBack)
    BY <1>2, <1>4, <1>5, StandsStays
  <2>3. BoundThread(o)
    BY <1>3, <1>7, <1>8, <2>1, <2>2 DEF BoundThread, StandsNext, SavedOK
  <2>4. BoundOK(o)'
    BY <1>2, <1>5, <2>3, BoundNext
  <2> QED
    BY <1>3, <1>4, <1>5, <1>10, <2>4, OneBound DEF Raises, ThreadMoves
<1>11. CASE Goes(o, "mark_failed", st)
  <2>1. PICK m \in NodesOf(o) \cup {"END"} :
            Role(o, m) = "mark_failed" /\ Stands(o, m, st) /\ Saves(o, m, st)
    BY <1>11 DEF Goes
  <2>2. m \notin SavedPlaces /\ run'[o].node = m /\ run'[o].state = st
    BY <1>9, <2>1 DEF TableOK, SavedPlaces, Positions, Stands
  <2>3. ckpt'[o] # NoValue =>
            StandsNext(o, Role(o, ckpt'[o].node), ckpt'[o].state,
                       o \notin setBack /\ lag'[o] <= 2)
    <3>1. CASE ckpt'[o] = checkpoint(m, st)
      <4>1. ckpt'[o].node = m /\ ckpt'[o].state = st
        BY <3>1 DEF checkpoint
      <4> QED
        BY <1>7, <2>2, <4>1 DEF StandsNext
    <3>2. CASE ckpt'[o] = ckpt[o] /\ lag'[o] = lag[o] + 1
      <4>1. lag'[o] <= 2 => lag[o] <= 2
        BY <1>2, <3>2
      <4> QED
        BY <1>2, <1>4, <1>5, <3>2, <4>1, StandsStays DEF CkptOK, BoundOK
    <3> QED
      BY <2>1, <3>1, <3>2 DEF Saves
  <2>4. BoundThread(o)
    BY <1>3, <1>6, <1>7, <1>8, <2>2, <2>3 DEF BoundThread, SavedOK
  <2>5. BoundOK(o)'
    BY <1>2, <1>5, <2>4, BoundNext
  <2> QED
    BY <1>3, <1>4, <1>5, <1>11, <2>5, OneBound DEF Goes, ThreadMoves
<1> QED
  BY <1>1, <1>10, <1>11

LEMMA InterruptBound ==
    ASSUME GraphInv, BoundInv, NEW o \in Operations, request_approval(o)
    PROVE  BoundInv'
<1>1. Role(o, run[o].node) \in StopRoles
  BY RunningPlace DEF request_approval, StopRoles
<1> QED
  BY <1>1, RequestCases, StopBound, StopFails

\* The end of a graph.
LEMMA EndBound ==
    ASSUME GraphInv, BoundInv, NEW o \in Operations, graph_end(o)
    PROVE  BoundInv'
<1>1. /\ run[o] # NoValue /\ PlaceOK("END", run[o].state, status[o])
      /\ TypeOK /\ ScenarioTypeOK /\ DecidedOK(o)
  BY RunningPlace DEF graph_end, GraphInv
<1>2. PICK c : c = checkpoint("END", run[o].state)
  OBVIOUS
<1>3. c.node = "END" /\ status[o] # "absent" /\ decided[o] = NoValue
  BY <1>1, <1>2 DEF checkpoint, PlaceOK, DecidedOK
<1>4. /\ run' = [run EXCEPT ![o] = NoValue] /\ lag' = [lag EXCEPT ![o] = 0]
      /\ ckpt' = ckpt \/ ckpt' = [ckpt EXCEPT ![o] = c]
      /\ ckpt[o] # NoValue => ckpt' = [ckpt EXCEPT ![o] = c]
      /\ UNCHANGED storeVars /\ decided' = decided /\ setBack' = setBack
  BY <1>2 DEF graph_end
<1>5. /\ run'[o] = NoValue /\ decided'[o] = NoValue /\ lag'[o] = 0
      /\ (ckpt'[o] = ckpt[o] /\ ckpt[o] = NoValue) \/ ckpt'[o] = c
      /\ \A q \in Operations : q # o =>
            run'[q] = run[q] /\ ckpt'[q] = ckpt[q] /\ lag'[q] = lag[q]
  BY <1>1, <1>3, <1>4 DEF ScenarioTypeOK
<1>6. \A q \in Operations : ~ Asks(q) /\ status'[q] = status[q]
  BY <1>4 DEF Asks, storeVars, opVars
<1>7. [Next]_storeVars
  BY <1>4
<1>8. BoundOK(o)'
  <2>1. CASE ckpt'[o] = ckpt[o] /\ ckpt[o] = NoValue
    BY <1>4, <1>5, <1>6, <1>7, <2>1, RestsBound
  <2>2. CASE ckpt'[o] = c
    <3>1. Role(o, "END") = "END" /\ "END" \notin BindingRoles
      BY DEF Role, Positions, BindingRoles, StopRoles, ExecutionRoles
    <3>2. StandsNext(o, Role(o, ckpt'[o].node), ckpt'[o].state,
                     o \notin setBack' /\ lag'[o] <= 2)
      BY <1>3, <2>2, <3>1 DEF StandsNext, KeptOK, FreshOK, BindingRoles
    <3>3. BoundThread(o)
      BY <1>5, <3>2 DEF BoundThread, LeftNext, SavedOK
    <3> QED
      BY <1>1, <1>3, <1>7, <3>3, BoundNext
  <2> QED
    BY <1>5, <2>1, <2>2
<1> QED
  BY <1>4, <1>5, <1>6, <1>7, <1>8, OneBound

\* An exception ends the coroutine.
LEMMA ExceptionBound ==
    ASSUME GraphInv, BoundInv, NEW o \in Operations, handle_exception(o)
    PROVE  BoundInv'
<1>1. TypeOK /\ ScenarioTypeOK /\ run[o] # NoValue /\ DecidedOK(o)
  BY DEF handle_exception, at, GraphInv
<1>2. mark_start_failed(o) \/ UNCHANGED storeVars
  BY DEF handle_exception
<1>3. [Next]_storeVars
  BY <1>1, <1>2, FailedStep
<1>4. \A q \in Operations : ~ Asks(q)
  BY <1>1, <1>2, FailureAsksNothing
<1>5. \A q \in Operations : q # o => status'[q] = status[q]
  BY <1>1, <1>2, FailedRows
<1>6. /\ UNCHANGED <<ckpt, decided, setBack>>
      /\ run' = [run EXCEPT ![o] = NoValue] /\ lag' = [lag EXCEPT ![o] = 0]
  BY DEF handle_exception, processVars
<1>7. /\ run'[o] = NoValue /\ lag'[o] = 0
      /\ \A q \in Operations : q # o => run'[q] = run[q] /\ lag'[q] = lag[q]
  BY <1>1, <1>6 DEF ScenarioTypeOK
<1>8. decided'[o] = NoValue
  BY <1>1, <1>6 DEF DecidedOK
<1>9. lag[o] = 0
  <2>1. run[o].node \in SavedPlaces
    <3>1. /\ TableOK(o) /\ RunOK(o) /\ Role(o, run[o].node) \in {"raised", "conflict"}
      BY RunningPlace DEF handle_exception, GraphInv
    <3>2. run[o].node \notin NodesOf(o)
      BY <3>1, RoleNames DEF TableOK
    <3> QED
      BY <1>1, <3>1, <3>2 DEF RunOK, Role, SavedPlaces
  <2> QED
    BY <2>1 DEF BoundInv, BoundOK, SavedOK
<1>10. BoundOK(o)'
  BY <1>3, <1>4, <1>6, <1>7, <1>8, <1>9, RestsBound
<1> QED
  BY <1>3, <1>5, <1>6, <1>7, <1>10, OneBound

\* A new operation has no checkpoint, and nothing to show yet.
LEMMA StartBound ==
    ASSUME GraphInv, BoundInv, NEW o \in Operations, NEW req \in Requests, start(o, req)
    PROVE  BoundInv'
<1>1. /\ create(o, req) /\ TypeOK /\ ScenarioTypeOK
      /\ UNCHANGED <<ckpt, lag, decided, setBack>>
  BY DEF start, processVars, GraphInv
<1>2. [Next]_storeVars
  BY <1>1 DEF Next, InvestigationNext
<1>3. /\ status[o] = "absent" /\ request'[o] = req
      /\ \A q \in Operations : q # o => status'[q] = status[q]
  BY <1>1 DEF create, create_allowed, TypeOK
<1>4. ckpt'[o] = NoValue /\ decided'[o] = NoValue /\ lag'[o] = 0
  <2>1. run[o] = NoValue
    BY <1>3 DEF GraphInv, RunOK, PlaceOK
  <2> QED
    BY <1>1, <1>3, <2>1 DEF GraphInv, CkptOK, DecidedOK, PlaceOK, interrupted, BoundInv, BoundOK,
       SavedOK
<1>5. PICK n, r : /\ n = (IF agent THEN "agent_investigation" ELSE "parse_request")
                  /\ r = [by |-> "start", node |-> n, state |-> initial_state]
  OBVIOUS
<1>6. run' = [run EXCEPT ![o] = r] /\ r.node = n
  BY <1>5 DEF start
<1>7. run'[o] = r /\ \A q \in Operations : q # o => run'[q] = run[q]
  BY <1>1, <1>6 DEF ScenarioTypeOK
<1>8. graph_roles(o)'["parse_request"] = "parse_request"
  BY <1>3, FirstNode
<1>9. Role(o, n)' \in {"agent_investigation", "parse_request"}
  BY <1>5, <1>8 DEF Role, Positions
<1>10. Role(o, n)' \notin BindingRoles
  BY <1>9 DEF BindingRoles, StopRoles, ExecutionRoles
<1>11. Role(o, run[o].node)' \notin BindingRoles
  BY <1>6, <1>7, <1>10 DEF Role
<1>12. BoundOK(o)'
  BY <1>4, <1>11 DEF BoundOK, LeftOK, SavedOK, StandsOK, KeptOK, FreshOK, BindingRoles
<1> QED
  BY <1>1, <1>2, <1>3, <1>7, <1>12, OneBound

\* start records the outcome.
LEMMA CaptureBound ==
    ASSUME GraphInv, BoundInv, NEW o \in Operations, capture_operation_outcome(o)
    PROVE  BoundInv'
<1>1. TypeOK /\ (mark_start_failed(o) \/ UNCHANGED storeVars)
  BY DEF capture_operation_outcome, GraphInv
<1>2. [Next]_storeVars
  BY <1>1, FailedStep
<1>3. \A q \in Operations : ~ Asks(q)
  BY <1>1, FailureAsksNothing
<1>4. UNCHANGED <<run, ckpt, lag, decided, setBack>>
  BY DEF capture_operation_outcome
<1> QED
  BY <1>2, <1>3, <1>4, QuietBound

\* The checkpoint of an interrupted graph shows the binding of the row or, where
\* its thread has been set back, one approved before.
LEMMA InterruptedBinding ==
    ASSUME GraphInv, BoundInv, NEW o \in Operations, interrupted(o), lag[o] = 0
    PROVE  /\ cycle[o] > 0
           /\ Consented(o, ckpt[o].state.binding, snapshot[o].binding, approvals)
           /\ o \notin setBack => ckpt[o].state.binding = snapshot[o].binding
<1>1. Role(o, ckpt[o].node) \in StopRoles
  BY DEF interrupted, GraphInv, CkptOK
<1>2. StandsOK(o, Role(o, ckpt[o].node), ckpt[o].state, o \notin setBack /\ lag[o] <= 2)
  BY DEF interrupted, BoundInv, BoundOK
<1> QED
  BY <1>1, <1>2 DEF StandsOK, KeptOK, FreshOK, BindingRoles

\* submit_approval: the decision is about the binding in the graph's state.
LEMMA SubmitBound ==
    ASSUME GraphInv, BoundInv, NEW o \in Operations, submit_approval(o)
    PROVE  BoundInv'
<1>1. /\ interrupted(o) /\ run[o] = NoValue /\ TypeOK /\ ScenarioTypeOK
      /\ UNCHANGED <<run, ckpt, lag, setBack>> /\ lag[o] = 0 /\ SavedOK(o)
  BY DEF submit_approval, GraphInv, BoundInv, BoundOK, SavedOK
<1>2. now \in 0 .. now
  BY <1>1 DEF TypeOK
<1>3. CASE submit_bound_once_expired(o, now) /\ UNCHANGED decided
  <2>1. [Next]_storeVars
    BY <1>2, <1>3 DEF Next, DecisionNext
  <2>2. \A q \in Operations : ~ Asks(q)
    BY <1>1, <1>3 DEF submit_bound_once_expired, Asks, AwaitingDecision, TypeOK
  <2> QED
    BY <1>1, <1>3, <2>1, <2>2, QuietBound
<1>4. CASE \E r \in Approvers, d \in Decisions, b \in Bindings :
              /\ submit_bound_once(o, r, d, b, now)
              /\ decided' = [decided EXCEPT ![o] =
                              [op |-> o, cycle |-> cycle[o], approver |-> r,
                               decision |-> d, binding |-> b, at |-> now]]
  <2>1. PICK r \in Approvers, d \in Decisions, b \in Bindings :
              /\ submit_bound_once(o, r, d, b, now)
              /\ decided' = [decided EXCEPT ![o] =
                              [op |-> o, cycle |-> cycle[o], approver |-> r,
                               decision |-> d, binding |-> b, at |-> now]]
    BY <1>4
  <2>2. [Next]_storeVars
    BY <1>2, <2>1 DEF Next, DecisionNext
  <2>3. /\ b = snapshot[o].binding /\ snapshot' = snapshot
        /\ \A q \in Operations : ~ Asks(q)
    BY <1>1, <2>1 DEF submit_bound_once, Asks, AwaitingDecision, TypeOK
  <2>4. \A q \in Operations : q # o => status'[q] = status[q] /\ decided'[q] = decided[q]
    BY <1>1, <2>1 DEF submit_bound_once, TypeOK, ScenarioTypeOK
  <2>5. o \notin setBack => decided'[o].binding = ckpt'[o].state.binding
    <3>1. decided'[o].binding = b
      BY <1>1, <2>1 DEF ScenarioTypeOK
    <3> QED
      BY <1>1, <2>3, <3>1, InterruptedBinding
  <2>6. /\ StoreMoves(o) /\ CkptOK(o) /\ BoundOK(o) /\ ckpt[o] # NoValue
    BY <1>1, <2>2, NextMoves DEF GraphInv, BoundInv, interrupted
  <2>7. /\ status[o] # "absent" /\ PlaceOK(Role(o, ckpt[o].node), ckpt[o].state, status[o])
        /\ StandsOK(o, Role(o, ckpt[o].node), ckpt[o].state, o \notin setBack /\ lag[o] <= 2)
    BY <2>6 DEF CkptOK, PlaceOK, BoundOK
  <2>8. StandsNext(o, Role(o, ckpt[o].node), ckpt[o].state, o \notin setBack /\ lag[o] <= 2)
    BY <2>3, <2>6, <2>7, StandsStays
  <2>9. BoundThread(o)
    BY <1>1, <2>5, <2>8 DEF BoundThread, LeftNext, SavedOK
  <2>10. BoundOK(o)'
    BY <1>1, <2>2, <2>7, <2>9, BoundNext
  <2> QED
    BY <1>1, <2>2, <2>3, <2>4, <2>10, OneBound
<1> QED
  BY <1>3, <1>4 DEF submit_approval

\* A graph is resumed with a decision about the binding in its state.
LEMMA ResumeBound ==
    ASSUME GraphInv, BoundInv, NEW o \in Operations, interrupted(o),
           NEW a \in ApprovalRows, NEW by \in Callers, resume(o, a, by), lag[o] = 0,
           o \notin setBack => a.binding = ckpt[o].state.binding, setBack' = setBack,
           UNCHANGED storeVars, decided'[o] = NoValue,
           \A q \in Operations : q # o => decided'[q] = decided[q]
    PROVE  BoundInv'
<1>1. /\ ThreadMoves(o) /\ status[o] # "absent"
      /\ run'[o] # NoValue
  BY ResumeThread
<1>2. PICK role, st, n :
          /\ role \in {"mark_rejected", "revalidate_evidence"}
          /\ Role(o, n) = role /\ run'[o].state = st /\ run'[o].node = n
          /\ st.approval = a /\ st.binding = ckpt[o].state.binding
          /\ Saves(o, n, st)
  BY ResumeThread
<1>3. [Next]_storeVars /\ UNCHANGED <<cycle, snapshot, approvals>>
      /\ \A q \in Operations : ~ Asks(q) /\ status'[q] = status[q]
  BY DEF storeVars, opVars, Asks
<1>4. TypeOK /\ StoreMoves(o) /\ CkptOK(o) /\ BoundOK(o) /\ lag[o] \in Nat
  BY <1>3, NextMoves, ScenarioAssumption DEF GraphInv, BoundInv, ScenarioTypeOK
<1>5. role \notin StopRoles \cup ExecutionRoles \cup {"mark_executing", "mark_needs_reapproval"}
      /\ role \in LateRoles
  BY <1>2 DEF StopRoles, ExecutionRoles, LateRoles
<1>6. StandsNext(o, role, st, o \notin setBack)
  BY <1>2, <1>3, <1>5, InterruptedBinding DEF StandsNext, KeptOK, FreshOK
<1>7. SavedOK(o)'
  BY <1>1, <1>2 DEF SavedOK, SavedPlaces, Role, Positions
<1>8. CASE ckpt'[o] = checkpoint(n, st)
  <2>1. ckpt'[o].node = n /\ ckpt'[o].state = st
    BY <1>8 DEF checkpoint
  <2>2. BoundThread(o)
    BY <1>2, <1>5, <1>6, <1>7, <2>1 DEF BoundThread, LeftNext, StandsNext
  <2>3. BoundOK(o)'
    BY <1>1, <1>3, <1>4, <2>2, BoundNext
  <2> QED
    BY <1>1, <1>3, <2>3, OneBound DEF ThreadMoves
<1>9. CASE ckpt'[o] = ckpt[o] /\ lag'[o] = lag[o] + 1
  <2>1. StandsNext(o, Role(o, ckpt[o].node), ckpt[o].state, o \notin setBack)
    <3>1. /\ PlaceOK(Role(o, ckpt[o].node), ckpt[o].state, status[o])
          /\ StandsOK(o, Role(o, ckpt[o].node), ckpt[o].state, o \notin setBack /\ lag[o] <= 2)
      BY <1>4 DEF CkptOK, BoundOK, interrupted
    <3>2. StandsOK(o, Role(o, ckpt[o].node), ckpt[o].state, o \notin setBack)
      BY <3>1 DEF StandsOK
    <3> QED
      BY <1>3, <3>2 DEF StandsOK, StandsNext
  <2>2. lag'[o] >= 1
    BY <1>4, <1>9
  <2>3. LeftNext(o)
    BY <1>2, <1>5, <2>2 DEF LeftNext
  <2>4. BoundThread(o)
    BY <1>2, <1>6, <1>9, <1>7, <2>1, <2>3 DEF BoundThread, StandsNext
  <2>5. BoundOK(o)'
    BY <1>1, <1>3, <1>4, <2>4, BoundNext
  <2> QED
    BY <1>1, <1>3, <2>5, OneBound DEF ThreadMoves
<1> QED
  BY <1>2, <1>8, <1>9 DEF Saves

\* A decision of the current cycle is about the binding the graph shows.
LEMMA DetailBinding ==
    ASSUME GraphInv, BoundInv, NEW o \in Operations, interrupted(o), lag[o] = 0, NEW a \in detail_approval(o)
    PROVE  a \in ApprovalRows /\ (o \notin setBack => a.binding = ckpt[o].state.binding)
<1>1. a \in ApprovalRows /\ a.binding = snapshot[o].binding
  BY DEF detail_approval, GraphInv, TypeOK, DecisionInv, DecisionBindsSnapshot, current_approval
<1> QED
  BY <1>1, InterruptedBinding

\* The rest of submit_approval.
LEMMA SubmitResumeBound ==
    ASSUME GraphInv, BoundInv, NEW o \in Operations, submit_approval_resume(o)
    PROVE  BoundInv'
<1>1. /\ decided[o] # NoValue /\ decided' = [decided EXCEPT ![o] = NoValue]
      /\ UNCHANGED storeVars /\ setBack' = setBack
      /\ TypeOK /\ ScenarioTypeOK /\ DecidedOK(o) /\ BoundOK(o)
  BY DEF submit_approval_resume, GraphInv, BoundInv
<1>2. /\ interrupted(o) /\ lag[o] = 0
      /\ o \notin setBack => decided[o].binding = ckpt[o].state.binding
  BY <1>1 DEF DecidedOK, BoundOK, SavedOK
<1>3. PICK a : a = decided[o]
  OBVIOUS
<1>4. a \in ApprovalRows /\ "submit" \in Callers
  BY <1>1, <1>3 DEF ScenarioTypeOK, Callers
<1>5. decided'[o] = NoValue /\ \A q \in Operations : q # o => decided'[q] = decided[q]
  BY <1>1 DEF ScenarioTypeOK
<1>6. CASE resume(o, decided[o], "submit")
  <2>1. resume(o, a, "submit") /\ (o \notin setBack => a.binding = ckpt[o].state.binding)
    BY <1>2, <1>3, <1>6
  <2> QED
    BY <1>1, <1>2, <1>4, <1>5, <2>1, ResumeBound
<1>7. CASE UNCHANGED <<run, ckpt, lag>>
  <2>1. [Next]_storeVars /\ \A q \in Operations : ~ Asks(q)
    BY <1>1 DEF storeVars, opVars, Asks
  <2>2. \A q \in Operations : decided'[q] \in {decided[q], NoValue}
    BY <1>5
  <2> QED
    BY <1>1, <1>7, <2>1, <2>2, QuietBound
<1> QED
  BY <1>6, <1>7 DEF submit_approval_resume

\* The decision of a rebuilt operation is about the binding it was rebuilt with.
LEMMA PersistedResumeBound ==
    ASSUME GraphInv, BoundInv, NEW o \in Operations, resume_persisted_decision(o)
    PROVE  BoundInv'
<1>1. /\ run[o] # NoValue /\ run[o].node = "resume_decision" /\ interrupted(o)
      /\ UNCHANGED storeVars /\ UNCHANGED <<evidence, decided, setBack>>
  BY AtDecision DEF resume_persisted_decision, processVars
<1>2. TypeOK /\ BoundOK(o) /\ SavedOK(o) /\ decided'[o] = NoValue /\ CkptOK(o)
  BY <1>1 DEF GraphInv, DecidedOK, BoundInv, BoundOK
<1>3. lag[o] = 0
  BY <1>1, <1>2 DEF SavedOK, SavedPlaces
<1>4. CASE \E a \in detail_approval(o) : resume(o, a, "recover")
  <2>1. PICK a \in detail_approval(o) : resume(o, a, "recover")
    BY <1>4
  <2>2. /\ a \in ApprovalRows /\ "recover" \in Callers
        /\ o \notin setBack => a.binding = ckpt[o].state.binding
    BY <1>1, <1>3, <2>1, DetailBinding DEF Callers
  <2> QED
    BY <1>1, <1>2, <1>3, <2>1, <2>2, ResumeBound
<1>5. CASE run' = [run EXCEPT ![o].node = "raised"] /\ UNCHANGED <<ckpt, lag>>
  <2>1. ThreadMoves(o) /\ run'[o] # NoValue /\ run'[o].node = "raised"
    BY <1>1, <1>5, ResumeRaises DEF Stands
  <2>2. Role(o, "raised") = "raised"
    BY DEF Role, Positions
  <2>3. /\ "raised" \in LateRoles /\ StandsNext(o, "raised", run'[o].state, o \notin setBack)
    BY DEF LateRoles, StandsNext, KeptOK, FreshOK, BindingRoles, StopRoles, ExecutionRoles
  <2>4. /\ [Next]_storeVars /\ StoreMoves(o) /\ ckpt[o] # NoValue
        /\ \A q \in Operations : ~ Asks(q) /\ status'[q] = status[q]
    BY <1>1, NextMoves DEF GraphInv, Asks, storeVars, opVars, interrupted
  <2>5. /\ PlaceOK(Role(o, ckpt[o].node), ckpt[o].state, status[o])
        /\ StandsOK(o, Role(o, ckpt[o].node), ckpt[o].state, o \notin setBack /\ lag[o] <= 2)
    BY <1>2, <2>4 DEF CkptOK, BoundOK
  <2>6. StandsNext(o, Role(o, ckpt[o].node), ckpt[o].state, o \notin setBack /\ lag[o] <= 2)
    BY <2>4, <2>5, StandsStays
  <2>7. BoundThread(o)
    BY <1>1, <1>2, <1>3, <1>5, <2>1, <2>2, <2>3, <2>6 DEF BoundThread, LeftNext, SavedOK
  <2>8. status[o] # "absent"
    BY <2>5 DEF PlaceOK
  <2>9. BoundOK(o)'
    BY <1>2, <2>4, <2>7, <2>8, BoundNext
  <2> QED
    BY <1>1, <1>2, <2>1, <2>4, <2>9, OneBound DEF ThreadMoves
<1> QED
  BY <1>4, <1>5 DEF resume_persisted_decision

\* The process dies, and its checkpoints may be lost while it is down.
LEMMA CrashBound ==
    ASSUME GraphInv, BoundInv, crash \/ restart
    PROVE  BoundInv'
<1>1. UNCHANGED storeVars
  BY DEF crash, restart
<1>2. ASSUME NEW q \in Operations
      PROVE  /\ run'[q] = NoValue /\ decided'[q] = NoValue /\ lag'[q] = 0
             /\ ckpt'[q] = ckpt[q] \/ ckpt'[q] = NoValue
             /\ q \in setBack => q \in setBack'
             /\ lag[q] <= 2 \/ q \in setBack'
  <2>1. CASE crash
    <3>1. lag[q] \in Nat
      BY DEF GraphInv, ScenarioTypeOK
    <3>2. /\ run'[q] = NoValue /\ decided'[q] = NoValue /\ lag'[q] = 0 /\ ckpt'[q] = ckpt[q]
          /\ setBack' = setBack \cup far_behind
      BY <2>1 DEF crash
    <3>3. lag[q] <= 2 \/ q \in far_behind
      BY <3>1 DEF far_behind
    <3> QED
      BY <3>2, <3>3
  <2>2. CASE restart
    <3>1. boot = "down" /\ UNCHANGED <<run, decided, lag, setBack>>
          /\ (ckpt' = ckpt \/ ckpt' = [p \in Operations |-> NoValue])
      BY <2>2 DEF restart
    <3>2. run[q] = NoValue /\ decided[q] = NoValue
      BY <3>1 DEF GraphInv, ProcessOK, DecidedOK
    <3>3. lag[q] = 0
      BY <3>2 DEF BoundInv, BoundOK, SavedOK
    <3> QED
      BY <3>1, <3>2, <3>3
  <2> QED
    BY <2>1, <2>2
<1>3. [Next]_storeVars /\ \A q \in Operations : ~ Asks(q)
  BY <1>1 DEF storeVars, opVars, Asks
<1>4. \A q \in Operations : BoundOK(q)'
  BY <1>2, <1>3, RestsBound
<1> QED
  BY <1>3, <1>4, BoundStep

\* A thread begins, or goes on, from a place that is its checkpoint too.
LEMMA BeginBound ==
    ASSUME GraphInv, BoundInv, NEW o \in Operations, status[o] # "absent", UNCHANGED storeVars,
           ThreadMoves(o), UNCHANGED <<decided, setBack>>, decided[o] = NoValue, SavedOK(o)',
           NEW n, NEW st, run'[o] # NoValue => run'[o].node = n /\ run'[o].state = st,
           ckpt'[o] # NoValue => ckpt'[o].node = n /\ ckpt'[o].state = st,
           StandsOK(o, Role(o, n), st, o \notin setBack)
    PROVE  BoundInv'
<1>1. /\ [Next]_storeVars /\ UNCHANGED <<snapshot, cycle, approvals>> /\ TypeOK
      /\ \A q \in Operations : status'[q] = status[q]
  BY DEF storeVars, opVars, GraphInv
<1>2. StandsNext(o, Role(o, n), st, o \notin setBack)
  BY <1>1 DEF StandsOK, StandsNext
<1>3. Role(o, n) \in StopRoles =>
        /\ Role(o, n) \in LateRoles
        /\ Role(o, n) \notin {"revalidate_evidence", "mark_needs_reapproval", "mark_executing"}
  BY DEF StopRoles, LateRoles
<1>4. LeftNext(o)
  BY <1>3 DEF LeftNext
<1>5. BoundThread(o)
  BY <1>2, <1>4 DEF BoundThread, StandsNext
<1>6. BoundOK(o)'
  BY <1>1, <1>5, BoundNext
<1> QED
  BY <1>1, <1>6, OneBound DEF ThreadMoves

\* The place of a rebuilt graph shows what the row holds.
LEMMA RebuiltStands ==
    ASSUME GraphInv, NEW o \in Operations, status[o] \in Active \ {"received"},
           ~ rebuild_conflict(o), NEW n, n = graph_edges(o)[completed_node_for(o)]["continue"],
           NEW st, st = state_from_detail(o)
    PROVE  StandsOK(o, Role(o, n), st, o \notin setBack)
<1>1. /\ st.plan = snapshot[o].plan
      /\ st.binding = IF status[o] = "validating" /\ snapshot[o].plan # NoValue
                      THEN build_approval_binding(snapshot[o].evidence, snapshot[o].plan)
                      ELSE snapshot[o].binding
      /\ RowOK(o) /\ DecisionInv
  BY DetailState DEF GraphInv
<1>2. status[o] \in AwaitingDecision \cup {"resuming", "executing", "verifying"} => cycle[o] > 0
  <2>1. CycleFollowsStatus /\ ExecutionIsBacked /\ OneDecisionPerCycle /\ cycle[o] \in Nat
    BY <1>1 DEF DecisionInv, GraphInv, TypeOK
  <2>2. (\E a \in approvals : current_approval(o, a)) => cycle[o] > 0
    BY <2>1 DEF OneDecisionPerCycle, current_approval
  <2> QED
    BY <2>1, <2>2 DEF CycleFollowsStatus, ExecutionIsBacked
<1>3. CASE status[o] \in {"gathering_evidence", "planning", "validating", "reporting"}
  <2>1. Role(o, n) \in {"gather_evidence", "calculate_assessment", "prepare_approval",
                        "mark_reporting", "complete_without_replenishment"}
    BY <1>3, RebuiltPlace
  <2> QED
    BY <2>1 DEF StandsOK, KeptOK, FreshOK, BindingRoles, StopRoles, ExecutionRoles
<1>4. CASE status[o] \in {"awaiting_approval", "resuming", "needs_reapproval"}
  <2>1. Role(o, n) \in StopRoles /\ st.binding = snapshot[o].binding
    BY <1>1, <1>4, RebuiltPlace DEF StopRoles
  <2> QED
    BY <1>4, <1>2, <2>1 DEF StandsOK, KeptOK, Consented, FreshOK, BindingRoles, StopRoles,
       ExecutionRoles, AwaitingDecision
<1>5. CASE status[o] \in {"executing", "verifying"}
  <2>1. Role(o, n) \in {"execute_work_order", "verify_work_order"}
    BY <1>5, RebuiltPlace
  <2>2. IsBound(snapshot[o])
    BY <1>1, <1>5 DEF RowOK
  <2>3. snapshot[o].binding.plan = snapshot[o].plan
    BY <2>2 DEF IsBound, build_approval_binding
  <2> QED
    BY <1>1, <1>5, <1>2, <2>1, <2>3 DEF StandsOK, KeptOK, Consented, FreshOK, StopRoles
<1> QED
  BY <1>3, <1>4, <1>5 DEF Active

\* The recovery of one operation.
LEMMA RecoverBound ==
    ASSUME GraphInv, BoundInv, NEW o \in Operations, recover(o)
    PROVE  BoundInv'
<1>1. /\ boot = "recovering" /\ o \in todo /\ run[o] = NoValue
      /\ UNCHANGED <<evidence, decided, setBack>>
  BY RecoverCases
<1>2. /\ TypeOK /\ ScenarioTypeOK /\ status[o] # "absent" /\ decided[o] = NoValue
      /\ lag[o] = 0
  BY <1>1 DEF GraphInv, ProcessOK, DecidedOK, BoundInv, BoundOK, SavedOK
<1>3. CASE /\ (\E e \in Errors : mark_failed(o, e)) \/ UNCHANGED storeVars
           /\ UNCHANGED <<run, ckpt, lag>>
  <2>1. [Next]_storeVars
    BY <1>2, <1>3, FailedStep
  <2>2. \A q \in Operations : ~ Asks(q)
    BY <1>2, <1>3, FailureAsksNothing
  <2> QED
    BY <1>1, <1>3, <2>1, <2>2, QuietBound
<1>4. CASE /\ status[o] \notin Terminal /\ ckpt[o] = NoValue
           /\ rebuild_from_business_facts(o)
  <2>1. \/ /\ rebuild_conflict(o) /\ (\E e \in Errors : mark_failed(o, e))
           /\ UNCHANGED <<run, ckpt, lag>>
        \/ /\ UNCHANGED storeVars /\ ThreadMoves(o)
           /\ ckpt'[o] \in {NoValue, checkpoint(run'[o].node, run'[o].state)}
           /\ run'[o] # NoValue /\ (run'[o].node = "parse_request" \/ lag' = lag)
           /\ \/ /\ status[o] = "received"
                 /\ run'[o].node \in {"agent_investigation", "parse_request"}
              \/ /\ status[o] # "received" /\ ~ rebuild_conflict(o)
                 /\ run'[o].node = graph_edges(o)[completed_node_for(o)]["continue"]
                 /\ run'[o].state = state_from_detail(o)
    BY <1>1, <1>2, <1>4, RebuildCases
  <2>2. CASE /\ UNCHANGED storeVars /\ ThreadMoves(o)
             /\ ckpt'[o] \in {NoValue, checkpoint(run'[o].node, run'[o].state)}
             /\ run'[o] # NoValue /\ (run'[o].node = "parse_request" \/ lag' = lag)
             /\ \/ /\ status[o] = "received"
                   /\ run'[o].node \in {"agent_investigation", "parse_request"}
                \/ /\ status[o] # "received" /\ ~ rebuild_conflict(o)
                   /\ run'[o].node = graph_edges(o)[completed_node_for(o)]["continue"]
                   /\ run'[o].state = state_from_detail(o)
    <3>1. PICK n, st : n = run'[o].node /\ st = run'[o].state
      OBVIOUS
    <3>2. ckpt'[o] # NoValue => ckpt'[o].node = n /\ ckpt'[o].state = st
      BY <2>2, <3>1 DEF checkpoint
    <3>3. SavedOK(o)'
      BY <1>2, <2>2 DEF SavedOK, SavedPlaces
    <3>4. StandsOK(o, Role(o, n), st, o \notin setBack)
      <4>1. CASE n = "agent_investigation" \/ n = "parse_request"
        <5>1. TableOK(o)
          BY <1>2, Table DEF GraphInv, RowOK
        <5>2. Role(o, n) \in {"agent_investigation", "parse_request"}
          BY <4>1, <5>1 DEF TableOK, NamedNodes, Role, Positions
        <5> QED
          BY <5>2 DEF StandsOK, KeptOK, FreshOK, BindingRoles, StopRoles, ExecutionRoles
      <4>2. CASE /\ status[o] # "received" /\ ~ rebuild_conflict(o)
                 /\ n = graph_edges(o)[completed_node_for(o)]["continue"]
                 /\ st = state_from_detail(o)
        <5>1. status[o] \in Active \ {"received"}
          BY <1>2, <1>4, <4>2 DEF TypeOK, Statuses
        <5> QED
          BY <4>2, <5>1, RebuiltStands
      <4> QED
        BY <2>2, <3>1, <4>1, <4>2
    <3> QED
      BY <1>1, <1>2, <2>2, <3>1, <3>2, <3>3, <3>4, BeginBound
  <2> QED
    BY <1>3, <2>1, <2>2
<1>5. CASE /\ interrupted(o) /\ UNCHANGED storeVars
           /\ \E a \in detail_approval(o) : resume(o, a, "recover")
  <2>1. PICK a \in detail_approval(o) : resume(o, a, "recover")
    BY <1>5
  <2>2. /\ a \in ApprovalRows /\ "recover" \in Callers
        /\ o \notin setBack => a.binding = ckpt[o].state.binding
    BY <1>2, <1>5, <2>1, DetailBinding DEF Callers
  <2> QED
    BY <1>1, <1>2, <1>5, <2>1, <2>2, ResumeBound
<1>6. CASE /\ ckpt[o] # NoValue /\ ~ interrupted(o)
           /\ UNCHANGED <<storeVars, ckpt, lag>>
           /\ run' = [run EXCEPT ![o] = [by |-> "recover", node |-> ckpt[o].node,
                                         state |-> ckpt[o].state]]
  <2>1. PICK n, st : n = ckpt[o].node /\ st = ckpt[o].state
    OBVIOUS
  <2>2. /\ n \in NodesOf(o) \cup {"END"} /\ PlaceOK(Role(o, n), st, status[o])
        /\ Saved(st, evidence[o]) /\ StandsOK(o, Role(o, n), st, o \notin setBack)
    BY <1>2, <1>6, <2>1 DEF GraphInv, CkptOK, BoundInv, BoundOK, StandsOK
  <2>3. n \in NodesOf(o) \cup {"END", "agent_investigation"} /\ "recover" \in Callers
    BY <2>2 DEF Callers
  <2>4. /\ run' = [run EXCEPT ![o] = [by |-> "recover", node |-> n, state |-> st]]
        /\ UNCHANGED <<ckpt, lag>> /\ UNCHANGED storeVars
    BY <1>6, <2>1
  <2>5. Begins(o, n, st)
    BY <2>4 DEF GraphInv, ScenarioTypeOK, Begins
  <2>6. ThreadMoves(o) /\ run'[o].node = n /\ run'[o].state = st
    BY <1>1, <1>2, <2>2, <2>3, <2>4, <2>5, BeginsThread
  <2>7. SavedOK(o)'
    BY <1>2, <2>4 DEF SavedOK
  <2> QED
    BY <1>1, <1>2, <1>6, <2>1, <2>2, <2>4, <2>6, <2>7, BeginBound
<1> QED
  BY <1>3, <1>4, <1>5, <1>6, RecoverCases

\* The rest of the startup, and the clock.
LEMMA AroundBound ==
    ASSUME GraphInv, BoundInv,
           \/ \E o \in Operations : expire_due(o)
           \/ list_recoverable \/ serve \/ Clock \/ UNCHANGED scenarioVars
    PROVE  BoundInv'
<1>1. CASE \E o \in Operations : expire_due(o)
  <2>1. PICK o \in Operations : expire_due(o)
    BY <1>1
  <2>2. /\ mark_expired(o, now) /\ TypeOK /\ now \in 0 .. now
        /\ UNCHANGED <<run, ckpt, lag, decided, setBack>>
    BY <2>1 DEF expire_due, processVars, GraphInv, TypeOK
  <2>3. [Next]_storeVars
    BY <2>2 DEF Next, DecisionNext
  <2>4. \A q \in Operations : ~ Asks(q)
    BY <2>2 DEF mark_expired, transition, Asks, AwaitingDecision, TypeOK
  <2> QED
    BY <2>2, <2>3, <2>4, QuietBound
<1>2. CASE list_recoverable \/ serve \/ UNCHANGED scenarioVars
  <2>1. UNCHANGED storeVars /\ UNCHANGED <<run, ckpt, lag, decided, setBack>>
    BY <1>2 DEF list_recoverable, serve, scenarioVars
  <2>2. [Next]_storeVars /\ \A q \in Operations : ~ Asks(q)
    BY <2>1 DEF storeVars, opVars, Asks
  <2> QED
    BY <2>1, <2>2, QuietBound
<1>3. CASE Clock
  <2>1. Tick /\ UNCHANGED <<run, ckpt, lag, decided, setBack>>
    BY <1>3 DEF Clock, processVars
  <2>2. [Next]_storeVars /\ \A q \in Operations : ~ Asks(q)
    BY <2>1 DEF Next, Tick, opVars, Asks
  <2> QED
    BY <2>1, <2>2, QuietBound
<1> QED
  BY <1>1, <1>2, <1>3

\* Every step preserves the second invariant.
LEMMA ScenarioNextBound ==
    ASSUME GraphInv, BoundInv, [ScenarioNext]_scenarioVars
    PROVE  BoundInv'
<1>1. ASSUME NEW o \in Operations, GraphStep(o) PROVE BoundInv'
  BY <1>1, NodeBound, InterruptBound, EndBound, ExceptionBound, PersistedResumeBound
     DEF GraphStep, NodeAction
<1>2. ASSUME NEW o \in Operations,
             \/ \E req \in Requests : start(o, req)
             \/ capture_operation_outcome(o) \/ submit_approval(o) \/ submit_approval_resume(o)
      PROVE  BoundInv'
  BY <1>2, StartBound, CaptureBound, SubmitBound, SubmitResumeBound
<1>3. CASE crash \/ Startup \/ Clock \/ UNCHANGED scenarioVars
  BY <1>3, CrashBound, RecoverBound, AroundBound DEF Startup
<1> QED
  BY <1>1, <1>2, <1>3 DEF ScenarioNext

\* The second invariant holds in the beginning.
LEMMA ScenarioInitBound == ScenarioInit => BoundInv
<1> SUFFICES ASSUME ScenarioInit, NEW o \in Operations
             PROVE  EventOK(o) /\ BoundOK(o)
  BY DEF BoundInv
<1>1. run[o] = NoValue /\ ckpt[o] = NoValue /\ decided[o] = NoValue /\ lag[o] = 0
  BY DEF ScenarioInit
<1>2. status[o] = "absent"
  BY DEF ScenarioInit, Init
<1> QED
  BY <1>1, <1>2 DEF EventOK, BoundOK, LeftOK, SavedOK

\* Both invariants in every behaviour of the scenario graphs.
LEMMA ScenarioBoundInv == ScenarioSpec => [](GraphInv /\ BoundInv)
<1>1. GraphInv /\ BoundInv /\ [ScenarioNext]_scenarioVars => (GraphInv /\ BoundInv)'
  BY ScenarioNextKeeps, ScenarioNextBound
<1>2. ScenarioInit => GraphInv /\ BoundInv
  BY ScenarioInitInv, ScenarioInitBound
<1> QED
  BY <1>1, <1>2, PTL DEF ScenarioSpec

-----------------------------------------------------------------------------
(* What the graphs show and write *)

\* A graph that rests in its interrupt waits with the plan and the binding of
\* the row, for any number of operations, re-approvals, crashes, rebuilds and
\* unsaved checkpoints: the approver decides on what the graph will go on
\* with.  Only a thread that has lost three checkpoints at once may wait with
\* other facts, and then with facts approved before for this operation.
THEOREM ScenarioInterruptHoldsRowFacts == ScenarioSpec => []InterruptHoldsRowFacts
<1>1. GraphInv /\ BoundInv => InterruptHoldsRowFacts
  <2> SUFFICES ASSUME GraphInv, BoundInv, NEW o \in Operations, interrupted(o),
                      status[o] \in AwaitingDecision \cup {"resuming"}, run[o] = NoValue
               PROVE  \/ /\ ckpt[o].state.binding = snapshot[o].binding
                         /\ ckpt[o].state.plan = snapshot[o].plan
                      \/ o \in setBack /\ approval_of(o, ckpt[o].state.binding)
    BY DEF InterruptHoldsRowFacts
  <2>1. lag[o] = 0
    BY DEF BoundInv, BoundOK, SavedOK
  <2>2. /\ Consented(o, ckpt[o].state.binding, snapshot[o].binding, approvals)
        /\ o \notin setBack => ckpt[o].state.binding = snapshot[o].binding
    BY <2>1, InterruptedBinding
  <2>3. CASE ckpt[o].state.binding = snapshot[o].binding
    <3>1. IsBound(ckpt[o].state)
      BY DEF GraphInv, CkptOK, PlaceOK, BoundRoles, interrupted
    <3>2. IsBound(snapshot[o])
      BY DEF GraphInv, RowOK
    <3>3. /\ ckpt[o].state.binding.plan = ckpt[o].state.plan
          /\ snapshot[o].binding.plan = snapshot[o].plan
      BY <3>1, <3>2 DEF IsBound, build_approval_binding
    <3> QED
      BY <2>3, <3>3
  <2>4. CASE ckpt[o].state.binding # snapshot[o].binding
    BY <2>2, <2>4 DEF Consented, approval_of
  <2> QED
    BY <2>3, <2>4
<1> QED
  BY <1>1, ScenarioBoundInv, PTL

\* A work order is written by one node, in one transaction.
LEMMA WhoWrites ==
    ASSUME GraphInv, [ScenarioNext]_scenarioVars
    PROVE  \/ workOrders' = workOrders
           \/ \E o \in Operations :
                 /\ at(o, "execute_work_order") /\ create_or_get(o, run[o].state.plan)
<1>1. ASSUME NEW o \in Operations, NodeAction(o)
      PROVE  \/ workOrders' = workOrders
             \/ at(o, "execute_work_order") /\ create_or_get(o, run[o].state.plan)
  <2>1. NodeStep(o)
    BY <1>1, NodesLand
  <2> QED
    BY <2>1 DEF NodeStep, at, Role
<1>2. CASE \E o \in Operations : GraphStep(o)
  <2>1. PICK o \in Operations : GraphStep(o)
    BY <1>2
  <2>2. CASE NodeAction(o)
    BY <1>1, <2>2
  <2>3. CASE request_approval(o) \/ graph_end(o) \/ resume_persisted_decision(o)
    BY <2>3 DEF request_approval, graph_end, resume_persisted_decision, storeVars
  <2>4. CASE handle_exception(o)
    <3>1. mark_start_failed(o) \/ UNCHANGED storeVars
      BY <2>4 DEF handle_exception
    <3> QED
      BY <3>1, FailedStep DEF GraphInv
  <2> QED
    BY <2>1, <2>2, <2>3, <2>4, Zenon DEF GraphStep, NodeAction
<1>3. CASE \E o \in Operations :
             \/ \E req \in Requests : start(o, req)
             \/ submit_approval(o) \/ submit_approval_resume(o)
  BY <1>3 DEF start, create, submit_approval, submit_bound_once, submit_bound_once_expired,
              submit_approval_resume, storeVars
<1>4. CASE \E o \in Operations : capture_operation_outcome(o)
  <2>1. PICK o \in Operations : mark_start_failed(o) \/ UNCHANGED storeVars
    BY <1>4 DEF capture_operation_outcome
  <2> QED
    BY <2>1, FailedStep DEF GraphInv
<1>5. CASE Startup
  <2>1. CASE restart \/ list_recoverable \/ serve
    BY <2>1 DEF restart, list_recoverable, serve, storeVars
  <2>2. CASE \E o \in Operations : expire_due(o)
    BY <2>2 DEF expire_due, mark_expired, transition
  <2>3. CASE \E o \in Operations : recover(o)
    <3>1. PICK o \in Operations : (\E e \in Errors : mark_failed(o, e)) \/ UNCHANGED storeVars
      BY <2>3 DEF recover, take_recovery_action, rebuild_from_business_facts
    <3> QED
      BY <3>1, FailedStep DEF GraphInv
  <2> QED
    BY <1>5, <2>1, <2>2, <2>3 DEF Startup
<1>6. CASE crash \/ Clock \/ UNCHANGED scenarioVars
  BY <1>6 DEF crash, Clock, Tick, scenarioVars, storeVars
<1> QED
  BY <1>2, <1>3, <1>4, <1>5, <1>6 DEF ScenarioNext

\* The write is of the plan of the binding in force, or of one approved before
\* when the thread has been set back.
LEMMA WritesFollowPlan ==
    ASSUME GraphInv, BoundInv, [ScenarioNext]_scenarioVars, NEW S, S = setBack
    PROVE  OrdersFollowPlan(S)
<1> SUFFICES ASSUME NEW o \in Operations, NEW w \in work_order_of(o)', w \notin workOrders
             PROVE  \/ w.payload = snapshot'[o].binding.plan
                    \/ /\ o \in S
                       /\ \E a \in approvals' :
                             a.op = o /\ a.decision = "approved" /\ a.binding.plan = w.payload
  BY DEF OrdersFollowPlan
<1>1. w \in workOrders' /\ w.op = o
  BY DEF work_order_of
<1>2. PICK q \in Operations :
          at(q, "execute_work_order") /\ create_or_get(q, run[q].state.plan)
  BY <1>1, WhoWrites
<1>3. PICK st : st = run[q].state
  OBVIOUS
<1>4. /\ q = o /\ w.payload = st.plan
      /\ write_authorized(o) /\ UNCHANGED <<snapshot, approvals>>
  BY <1>1, <1>2, <1>3 DEF create_or_get
<1>5. /\ StandsOK(o, "execute_work_order", st, o \notin S)
      /\ PlaceOK("execute_work_order", st, status[o])
  BY <1>2, <1>3, <1>4, RunningFresh, RunningPlace
<1>6. CASE o \notin S
  <2>1. st.plan = snapshot[o].binding.plan
    BY <1>5, <1>6 DEF StandsOK, FreshOK, ExecutionRoles
  <2> QED
    BY <1>4, <2>1
<1>7. CASE o \in S
  <2>1. Consented(o, st.binding, snapshot[o].binding, approvals)
    BY <1>5 DEF StandsOK, KeptOK, BindingRoles, ExecutionRoles
  <2>2. Approved(o) /\ DecisionInv
    BY <1>4 DEF write_authorized, Approved, current_approval, GraphInv
  <2>3. PICK a \in approvals : a.op = o /\ a.decision = "approved" /\ a.binding = st.binding
    BY <2>1, <2>2, ApprovedConsent
  <2>4. a.binding.plan = st.plan
    BY <1>5, <2>3 DEF PlaceOK, BoundRoles, ExecutionRoles, IsBound, build_approval_binding
  <2> QED
    BY <1>4, <1>7, <2>3, <2>4
<1> QED
  BY <1>6, <1>7

\* The three graphs implement ApprovedWrite for any number of operations,
\* cycles, crashes, failing calls and unsaved checkpoints: their transactions
\* propose, decide, write and close as the promise allows, and every write is
\* made under an approval in force and of its plan, or of a plan approved
\* before on a thread that has been set back.
THEOREM ScenarioKeepsPromise == ScenarioSpec => ScenarioKeepsApprovedWrite
<1>1. ScenarioInit => Promise!Init
  BY PromiseInit DEF ScenarioInit
<1>2. /\ GraphInv /\ BoundInv
      /\ [ScenarioNext]_scenarioVars
      => [Promise!Next \/ WritesEarlierPlan(setBack)]_(Promise!promiseVars)
  <2> SUFFICES ASSUME GraphInv, BoundInv, [ScenarioNext]_scenarioVars
               PROVE  [Promise!Next \/ WritesEarlierPlan(setBack)]_(Promise!promiseVars)
    OBVIOUS
  <2>1. PICK S : S = setBack
    OBVIOUS
  <2>2. PromiseReady /\ OrdersFollowPlan(S)
    BY <2>1, WritesFollowPlan DEF GraphInv, PromiseReady, OrdersAfterExecution
  <2>3. [Promise!Next \/ WritesEarlierPlan(S)]_(Promise!promiseVars)
    BY <2>2, ScenarioNextKeeps, StorePromise
  <2> QED
    BY <2>1, <2>3 DEF WritesEarlierPlan
<1> QED
  BY <1>1, <1>2, ScenarioBoundInv, PTL DEF ScenarioSpec, ScenarioKeepsApprovedWrite
=============================================================================
