---------------------------- MODULE MCSignalScan ----------------------------
(***************************************************************************)
(* Instances of SignalScan for TLC.                                        *)
(***************************************************************************)
EXTENDS SignalScan

CONSTANT a1

AllScenarios == <<"inventory", "equipment", "task">>

\* A shortage the policy covers, seeded again with a new version, and one that
\* exceeds the largest order; a machine whose heartbeat becomes too old, with an
\* alert and two versions, and without; a task that becomes overdue, before and
\* after progress that is reported for a later time, and one without retries.
SomeItems == [inventory |-> {[on_hand_quantity |-> 1, reserved_quantity |-> 0, source_version |-> 1],
                             [on_hand_quantity |-> 1, reserved_quantity |-> 0, source_version |-> 2],
                             [on_hand_quantity |-> 0, reserved_quantity |-> 3, source_version |-> 1]},
              equipment |-> {[state |-> "degraded", severity |-> "critical", alert_code |-> a1,
                              last_heartbeat |-> 0, source_version |-> 1],
                             [state |-> "degraded", severity |-> "critical", alert_code |-> a1,
                              last_heartbeat |-> 0, source_version |-> 2],
                             [state |-> "healthy", severity |-> "none", alert_code |-> NoValue,
                              last_heartbeat |-> 1, source_version |-> 1]},
              task |-> {[state |-> "running", due_at |-> 1, retry_count |-> 1, blocker_code |-> NoValue,
                         last_progress_at |-> 0, source_version |-> 1],
                        [state |-> "running", due_at |-> 1, retry_count |-> 1, blocker_code |-> NoValue,
                         last_progress_at |-> 2, source_version |-> 2],
                        [state |-> "blocked", due_at |-> 1, retry_count |-> 2, blocker_code |-> a1,
                         last_progress_at |-> 0, source_version |-> 1]}]
SomeRules == [inventory |-> {[reorder_point |-> 2, target_stock |-> 3, minimum_order_quantity |-> 1,
                              maximum_order_quantity |-> 5, evidence_ttl_seconds |-> 1,
                              rule_version |-> 1]},
              equipment |-> {[allowed_alert_levels |-> {"critical"},
                              maximum_heartbeat_age_seconds |-> 1,
                              priority_mapping |-> [warning |-> "normal", critical |-> "high",
                                                    stale_heartbeat |-> "normal"],
                              evidence_ttl_seconds |-> 1, rule_version |-> 1]},
              task |-> {[blocked_states |-> {"blocked"}, overdue_grace_seconds |-> 0,
                         maximum_retry_count |-> 1, evidence_ttl_seconds |-> 1,
                         rule_version |-> 1]}]
=============================================================================
