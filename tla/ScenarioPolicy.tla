--------------------------- MODULE ScenarioPolicy ---------------------------
(***************************************************************************)
(* The deterministic policies of the three scenarios: which readings are   *)
(* well formed, when they ask for an action, with which parameters, and    *)
(* what the human approval of the resulting plan is bound to.              *)
(*                                                                         *)
(* Times and durations are whole ticks.  A reading is [item, captured_at], *)
(* a bundle [kind, subject, policy] one reading of each side.  A digest is *)
(* the tuple of the facts it is computed from; identifiers of objects and  *)
(* of evidence, and the wording of plans, are left out.                    *)
(***************************************************************************)
EXTENDS Integers, FiniteSets

CONSTANT NoValue        \* None

\* None is not the code of an alert.
ASSUME NoneAssumption == NoValue # "STALE_HEARTBEAT"

Kinds == {"inventory", "equipment", "task"}

-----------------------------------------------------------------------------
(* Well-formed readings *)

ValidInventory(i) ==
    /\ {i.on_hand_quantity, i.reserved_quantity} \subseteq Nat
    /\ i.source_version \in Int

ValidInventoryPolicy(p) ==
    /\ {p.reorder_point, p.target_stock, p.maximum_order_quantity} \subseteq Nat
    /\ p.target_stock > p.reorder_point
    /\ p.minimum_order_quantity \in Nat \ {0}
    /\ p.maximum_order_quantity >= p.minimum_order_quantity
    /\ p.evidence_ttl_seconds \in Nat \ {0}

Severities == {"none", "warning", "critical"}
Priorities == {"normal", "high", "urgent"}

priority_rank(p) == CASE p = "normal" -> 0 [] p = "high" -> 1 [] p = "urgent" -> 2

ValidEquipment(i) ==
    /\ i.state \in {"healthy", "degraded", "offline"}
    /\ i.severity \in Severities
    /\ (i.alert_code = NoValue) <=> (i.severity = "none")
    /\ {i.last_heartbeat, i.source_version} \subseteq Int

ValidMaintenancePolicy(p) ==
    /\ p.allowed_alert_levels \in SUBSET {"warning", "critical"} \ {{}}
    /\ p.maximum_heartbeat_age_seconds \in Nat \ {0}
    /\ p.priority_mapping \in [{"warning", "critical", "stale_heartbeat"} -> Priorities]
    /\ priority_rank(p.priority_mapping["critical"]) >= priority_rank(p.priority_mapping["warning"])
    /\ p.evidence_ttl_seconds \in Nat \ {0}

ValidTask(i) ==
    /\ i.state \in {"running", "blocked", "completed"}
    /\ (i.state = "blocked") <=> (i.blocker_code # NoValue)
    /\ {i.due_at, i.last_progress_at, i.source_version} \subseteq Int
    /\ i.retry_count \in Nat

ValidTaskPolicy(p) ==
    /\ p.blocked_states \in SUBSET {"running", "blocked"} \ {{}}
    /\ p.overdue_grace_seconds \in Nat
    /\ p.maximum_retry_count \in Nat
    /\ p.evidence_ttl_seconds \in Nat \ {0}

\* A subject and its policy as the seed files of the tool service give them.
ValidSeed(kind, i, p) ==
    CASE kind = "inventory" -> ValidInventory(i) /\ ValidInventoryPolicy(p)
      [] kind = "equipment" -> ValidEquipment(i) /\ ValidMaintenancePolicy(p)
      [] kind = "task"      -> ValidTask(i) /\ ValidTaskPolicy(p)

\* A snapshot that claims a heartbeat or progress after its own capture is refused.
snapshot_valid(kind, i, captured_at) ==
    /\ kind = "equipment" => i.last_heartbeat <= captured_at
    /\ kind = "task" => i.last_progress_at <= captured_at

-----------------------------------------------------------------------------
(* Assessments: the facts that their digest covers, NoValue for an error *)

expired(bundle, now) ==
    \E reading \in {bundle.subject, bundle.policy} :
        now >= reading.captured_at + bundle.policy.item.evidence_ttl_seconds

\* Mutant: stock at the reorder point is ordered too.
mutant_assess_replenishment(bundle, now) ==
    LET stock == bundle.subject.item
        rule == bundle.policy.item
        available == stock.on_hand_quantity - stock.reserved_quantity
        required == available <= rule.reorder_point
        quantity == rule.target_stock - available
    IN IF required /\ quantity \notin rule.minimum_order_quantity .. rule.maximum_order_quantity
       THEN NoValue
       ELSE [kind |-> "inventory", required |-> required, available_quantity |-> available,
             reorder_point |-> rule.reorder_point, target_stock |-> rule.target_stock,
             recommended_quantity |-> IF required THEN quantity ELSE NoValue]

assess_replenishment(bundle, now) ==
    LET stock == bundle.subject.item
        rule == bundle.policy.item
        available == stock.on_hand_quantity - stock.reserved_quantity
        required == available < rule.reorder_point
        quantity == rule.target_stock - available
    IN IF required /\ quantity \notin rule.minimum_order_quantity .. rule.maximum_order_quantity
       THEN NoValue
       ELSE [kind |-> "inventory", required |-> required, available_quantity |-> available,
             reorder_point |-> rule.reorder_point, target_stock |-> rule.target_stock,
             recommended_quantity |-> IF required THEN quantity ELSE NoValue]

\* Mutant: the age of the heartbeat is part of the facts.
mutant_assess_maintenance(bundle, now) ==
    LET machine == bundle.subject.item
        rule == bundle.policy.item
        stale == now - machine.last_heartbeat > rule.maximum_heartbeat_age_seconds
        alert_allowed == machine.severity \in rule.allowed_alert_levels
        mapping == rule.priority_mapping
        heartbeat_leads == stale /\ (alert_allowed =>
            priority_rank(mapping["stale_heartbeat"]) > priority_rank(mapping[machine.severity]))
    IN [kind |-> "equipment", required |-> stale \/ alert_allowed,
        state |-> machine.state, severity |-> machine.severity,
        source_version |-> machine.source_version,
        last_heartbeat |-> machine.last_heartbeat, heartbeat_age |-> now - machine.last_heartbeat,
        heartbeat_stale |-> stale, alert_allowed |-> alert_allowed,
        reason |-> IF heartbeat_leads THEN "stale_heartbeat"
                   ELSE IF alert_allowed THEN "alert" ELSE NoValue,
        alert_code |-> IF heartbeat_leads THEN "STALE_HEARTBEAT" ELSE machine.alert_code,
        priority |-> IF heartbeat_leads THEN mapping["stale_heartbeat"]
                     ELSE IF alert_allowed THEN mapping[machine.severity] ELSE NoValue]

\* An alert of an allowed level and a stale heartbeat each ask for a repair;
\* the heartbeat speaks for both only when its priority is strictly higher.  Of
\* the three digests this one alone covers the version of the source.
assess_maintenance(bundle, now) ==
    LET machine == bundle.subject.item
        rule == bundle.policy.item
        stale == now - machine.last_heartbeat > rule.maximum_heartbeat_age_seconds
        alert_allowed == machine.severity \in rule.allowed_alert_levels
        mapping == rule.priority_mapping
        heartbeat_leads == stale /\ (alert_allowed =>
            priority_rank(mapping["stale_heartbeat"]) > priority_rank(mapping[machine.severity]))
    IN [kind |-> "equipment", required |-> stale \/ alert_allowed,
        state |-> machine.state, severity |-> machine.severity,
        source_version |-> machine.source_version,
        last_heartbeat |-> machine.last_heartbeat,
        heartbeat_stale |-> stale, alert_allowed |-> alert_allowed,
        reason |-> IF heartbeat_leads THEN "stale_heartbeat"
                   ELSE IF alert_allowed THEN "alert" ELSE NoValue,
        alert_code |-> IF heartbeat_leads THEN "STALE_HEARTBEAT" ELSE machine.alert_code,
        priority |-> IF heartbeat_leads THEN mapping["stale_heartbeat"]
                     ELSE IF alert_allowed THEN mapping[machine.severity] ELSE NoValue]

assess_task_recovery(bundle, now) ==
    LET task == bundle.subject.item
        rule == bundle.policy.item
        blocked == task.state \in rule.blocked_states
        overdue == task.state # "completed" /\ now > task.due_at + rule.overdue_grace_seconds
        required == blocked \/ overdue
    IN IF required /\ task.retry_count > rule.maximum_retry_count
       THEN NoValue
       ELSE [kind |-> "task", required |-> required, state |-> task.state,
             blocker_code |-> task.blocker_code, retry_count |-> task.retry_count,
             reason |-> IF blocked THEN "blocked" ELSE IF overdue THEN "overdue" ELSE NoValue,
             recovery_action |-> IF required THEN "manual_requeue" ELSE NoValue]

assess(bundle, now) ==
    IF expired(bundle, now) THEN NoValue
    ELSE CASE bundle.kind = "inventory" -> assess_replenishment(bundle, now)
           [] bundle.kind = "equipment" -> assess_maintenance(bundle, now)
           [] bundle.kind = "task"      -> assess_task_recovery(bundle, now)

-----------------------------------------------------------------------------
(* Plans, approval bindings and work orders *)

build_replenishment_plan(facts, rule_version) ==
    [facts |-> facts, rule_version |-> rule_version,
     parameters |-> [recommended_quantity |-> facts.recommended_quantity]]

build_maintenance_plan(facts, rule_version) ==
    [facts |-> facts, rule_version |-> rule_version,
     parameters |-> [alert_code |-> facts.alert_code, priority |-> facts.priority]]

build_task_recovery_plan(facts, rule_version) ==
    [facts |-> facts, rule_version |-> rule_version,
     parameters |-> [recovery_action |-> facts.recovery_action]]

\* The plan of an operation that asked for a work order; NoValue when the
\* evidence asks for no action, or when there is no assessment.
scenario_plan(bundle, facts) ==
    IF facts = NoValue \/ ~ facts.required THEN NoValue
    ELSE LET rule_version == bundle.policy.item.rule_version
         IN CASE bundle.kind = "inventory" -> build_replenishment_plan(facts, rule_version)
              [] bundle.kind = "equipment" -> build_maintenance_plan(facts, rule_version)
              [] bundle.kind = "task"      -> build_task_recovery_plan(facts, rule_version)

\* What an approval stands for: the evidence identifiers are not part of it.
binding_facts(kind, plan) == <<kind, plan.rule_version, plan.facts, plan, plan.parameters>>

scenario_work_order_payload(kind, plan) ==
    CASE kind = "inventory" ->
            [quantity |-> plan.parameters.recommended_quantity, approved_plan |-> plan]
      [] kind = "equipment" ->
            [alert_code |-> plan.parameters.alert_code,
             priority |-> plan.parameters.priority, approved_plan |-> plan]
      [] kind = "task" ->
            [blocker_code |-> plan.facts.blocker_code, retry_count |-> plan.facts.retry_count,
             recovery_action |-> plan.parameters.recovery_action, approved_plan |-> plan]
=============================================================================
