--------------------------- MODULE MCEvidenceFlow ---------------------------
(***************************************************************************)
(* Instances of EvidenceFlow for TLC.                                      *)
(***************************************************************************)
EXTENDS EvidenceFlow

CONSTANT a1

stock(on_hand, reserved) == [on_hand_quantity |-> on_hand, reserved_quantity |-> reserved,
                              source_version |-> 1]
stock_rule(version, reorder, maximum) ==
    [reorder_point |-> reorder, target_stock |-> 4, minimum_order_quantity |-> 2,
     maximum_order_quantity |-> maximum, evidence_ttl_seconds |-> 2, rule_version |-> version]

machine(severity, heartbeat, version) ==
    [state |-> "degraded", severity |-> severity,
     alert_code |-> IF severity = "none" THEN NoValue ELSE a1,
     last_heartbeat |-> heartbeat, source_version |-> version]
machine_rule(version, levels, stale) ==
    [allowed_alert_levels |-> levels, maximum_heartbeat_age_seconds |-> 1,
     priority_mapping |-> [warning |-> "normal", critical |-> "urgent", stale_heartbeat |-> stale],
     evidence_ttl_seconds |-> 2, rule_version |-> version]

job(state, due, retries, progress) ==
    [state |-> state, due_at |-> due, retry_count |-> retries,
     last_progress_at |-> progress, source_version |-> 1,
     blocker_code |-> IF state = "blocked" THEN a1 ELSE NoValue]
job_rule(version, states, retries) ==
    [blocked_states |-> states, overdue_grace_seconds |-> 1, maximum_retry_count |-> retries,
     evidence_ttl_seconds |-> 2, rule_version |-> version]

\* Per scenario: two shortages (one more than is on hand is reserved), the
\* reorder point itself; alerts of both levels and none, with early and late
\* heartbeats and a new version of the source; a blocked, an overdue and a
\* finished task, of which one reports progress later.
SomeItems == [inventory |-> {stock(2, 1), stock(1, 2), stock(2, 0)},
              equipment |-> {machine("warning", 0, 1), machine("critical", 2, 1), machine("critical", 2, 2),
                             machine("none", 0, 1)},
              task |-> {job("blocked", 9, 0, 0), job("running", 1, 1, 1), job("completed", 0, 0, 0)}]
SomeRules == [inventory |-> {stock_rule(1, 2, 5), stock_rule(2, 3, 3)},
              equipment |-> {machine_rule(1, {"critical"}, "high"),
                             machine_rule(2, {"warning", "critical"}, "normal")},
              task |-> {job_rule(1, {"blocked"}, 1), job_rule(2, {"blocked", "running"}, 0)}]
=============================================================================
