----------------------------- MODULE EvidenceFlow -----------------------------
(***************************************************************************)
(* How facts travel from the tool service to a written work order: the     *)
(* catalog that changes underneath, the Redis cache in front of the model- *)
(* visible read tools, the plan a human approves, and the reads after the  *)
(* approval that go past the cache.                                        *)
(*                                                                         *)
(* One object is investigated by one operation after the other.  A read    *)
(* that missed writes to the cache after it has returned from the tool     *)
(* service, so a slow write may follow a later read.                       *)
(***************************************************************************)
EXTENDS ScenarioPolicy

CONSTANTS
    Items,          \* per scenario: what the catalog may say of the object
    Rules,          \* per scenario: the policies that may be deployed for it
    CacheTtl,       \* evidence_cache_ttl_seconds
    MaxTime,        \* bound on the clock
    MaxChanges      \* bound on changes of the catalog

ASSUME FlowAssumption ==
    /\ \A k \in Kinds : \A i \in Items[k], p \in Rules[k] : ValidSeed(k, i, p)
    /\ CacheTtl \in Nat \ {0}
    /\ {MaxTime, MaxChanges} \subseteq Nat

VARIABLES
    clock,
    kind,           \* the scenario of the object
    catalog,        \* what the tool service would answer now, per tool
    changes,        \* changes of the catalog so far
    cache,          \* the entry under each tool's key
    loading,        \* a reading that was loaded and is not in the cache yet
    stage,          \* where the operation is
    seen,           \* the observations of the current round of reads
    plan,           \* the plan that was or is to be approved
    decided_at,     \* when the approval was given
    verified_at,    \* when the reads after the approval were assessed
    order           \* the payload of the work order

flowVars == <<clock, kind, catalog, changes, cache, loading, stage, seen, plan, decided_at, verified_at, order>>
dataVars == <<clock, kind, catalog, changes, cache, loading>>
operationVars == <<stage, seen, plan, decided_at, verified_at, order>>

Tools == {"subject", "policy"}
Stages == {"investigating", "awaiting_approval", "refreshing", "executing",
           "completed", "rejected", "aborted", "failed"}
Ended == {"completed", "rejected", "aborted", "failed"}
nothing_seen == [tool \in Tools |-> NoValue]
all_seen == \A tool \in Tools : seen[tool] # NoValue
bundle == [kind |-> kind, subject |-> seen["subject"], policy |-> seen["policy"]]

Init ==
    /\ clock = 0
    /\ kind \in Kinds
    /\ catalog \in [subject : Items[kind], policy : Rules[kind]]
    /\ changes = 0
    /\ cache = nothing_seen
    /\ loading = nothing_seen
    /\ stage = "investigating"
    /\ seen = nothing_seen
    /\ plan = NoValue
    /\ decided_at = NoValue
    /\ verified_at = NoValue
    /\ order = NoValue

-----------------------------------------------------------------------------
(* The tool service *)

\* Time passes, and Redis drops the entries whose lifetime ends.
Tick ==
    /\ clock < MaxTime
    /\ clock' = clock + 1
    /\ cache' = [tool \in Tools |-> IF cache[tool] # NoValue /\ cache[tool].expires_at <= clock'
                                    THEN NoValue ELSE cache[tool]]
    /\ UNCHANGED <<kind, catalog, changes, loading, operationVars>>

change(tool, values) ==
    /\ changes < MaxChanges
    /\ \E v \in values \ {catalog[tool]} : catalog' = [catalog EXCEPT ![tool] = v]
    /\ changes' = changes + 1
    /\ UNCHANGED <<clock, kind, cache, loading, operationVars>>

replace_item == change("subject", Items[kind])

\* The service starts again with another policy seed.
load_rules == change("policy", Rules[kind])

readable(tool) == tool = "subject" => snapshot_valid(kind, catalog.subject, clock)
snapshot(tool) == [item |-> catalog[tool], captured_at |-> clock]

-----------------------------------------------------------------------------
(* Reads of the model: cache-aside *)

hit(tool) == cache[tool] # NoValue

read_cached(tool) ==
    /\ stage = "investigating" /\ seen[tool] = NoValue
    /\ hit(tool)
    /\ seen' = [seen EXCEPT ![tool] = cache[tool].reading]
    /\ UNCHANGED <<dataVars, stage, plan, decided_at, verified_at, order>>

\* A miss, an entry that does not parse, or a cache that does not answer.
read_loaded(tool) ==
    /\ stage = "investigating" /\ seen[tool] = NoValue
    /\ readable(tool)
    /\ seen' = [seen EXCEPT ![tool] = snapshot(tool)]
    /\ loading' = [loading EXCEPT ![tool] = snapshot(tool)]
    /\ UNCHANGED <<clock, kind, catalog, changes, cache, stage, plan, decided_at, verified_at, order>>

\* RedisEvidenceCache.set: written with its own lifetime, or lost.
cache_set(tool) ==
    /\ loading[tool] # NoValue
    /\ \/ cache' = [cache EXCEPT ![tool] = [reading |-> loading[tool],
                                            expires_at |-> clock + CacheTtl]]
       \/ UNCHANGED cache
    /\ loading' = [loading EXCEPT ![tool] = NoValue]
    /\ UNCHANGED <<clock, kind, catalog, changes, operationVars>>

-----------------------------------------------------------------------------
(* The operation *)

\* The operation leaves nothing behind but its outcome.
end(outcome) ==
    /\ stage' = outcome
    /\ seen' = nothing_seen /\ plan' = NoValue /\ order' = NoValue
    /\ decided_at' = NoValue /\ verified_at' = NoValue

\* A read that raises, a model that misbehaves: fail(...) in any node.
fail ==
    /\ stage \in {"investigating", "refreshing", "executing"}
    /\ end("failed")
    /\ UNCHANGED dataVars

calculate_policy ==
    /\ stage = "investigating" /\ all_seen
    /\ LET facts == assess(bundle, clock)
           next == scenario_plan(bundle, facts)
       IN \/ facts = NoValue /\ end("failed")
          \/ facts # NoValue /\ next = NoValue /\ end("completed")
          \/ /\ next # NoValue
             /\ stage' = "awaiting_approval" /\ plan' = next /\ seen' = nothing_seen
             /\ UNCHANGED <<decided_at, verified_at, order>>
    /\ UNCHANGED dataVars

submit_approval ==
    /\ stage = "awaiting_approval"
    /\ \/ stage' = "refreshing" /\ decided_at' = clock /\ UNCHANGED <<seen, plan, verified_at, order>>
       \/ end("rejected")
    /\ UNCHANGED dataVars

\* The refresh gateway bypasses the cache, and does not write to it.
mutant_refresh(tool) ==
    /\ stage = "refreshing" /\ seen[tool] = NoValue
    /\ readable(tool)
    /\ seen' = [seen EXCEPT ![tool] = IF hit(tool) THEN cache[tool].reading ELSE snapshot(tool)]
    /\ UNCHANGED <<dataVars, stage, plan, decided_at, verified_at, order>>

refresh(tool) ==
    /\ stage = "refreshing" /\ seen[tool] = NoValue
    /\ readable(tool)
    /\ seen' = [seen EXCEPT ![tool] = snapshot(tool)]
    /\ UNCHANGED <<dataVars, stage, plan, decided_at, verified_at, order>>

\* The model says proceed, escalate or abort, and may propose another plan;
\* only an unchanged binding with an unchanged plan may proceed.
choose_verification_route(decision, proposes_other, binding_matches) ==
    IF decision = "abort" THEN "abort"
    ELSE IF decision = "escalate" \/ proposes_other \/ ~ binding_matches THEN "reapproval"
    ELSE "proceed"

verify ==
    /\ stage = "refreshing" /\ all_seen
    /\ LET facts == assess(bundle, clock)
           next == scenario_plan(bundle, facts)
       IN \/ facts = NoValue /\ end("failed")
          \/ facts # NoValue /\ next = NoValue /\ end("aborted")
          \/ /\ next # NoValue
             /\ \E decision \in {"proceed", "escalate", "abort"}, proposes_other \in BOOLEAN :
                 LET route == choose_verification_route(decision, proposes_other,
                                binding_facts(kind, next) = binding_facts(kind, plan))
                 IN \/ route = "abort" /\ end("aborted")
                    \/ /\ route = "reapproval"
                       /\ stage' = "awaiting_approval" /\ plan' = next
                       /\ seen' = nothing_seen /\ decided_at' = NoValue
                       /\ UNCHANGED <<verified_at, order>>
                    \/ /\ route = "proceed"
                       /\ stage' = "executing" /\ verified_at' = clock
                       /\ UNCHANGED <<seen, plan, decided_at, order>>
    /\ UNCHANGED dataVars

execute_work_order ==
    /\ stage = "executing"
    /\ order' = scenario_work_order_payload(kind, plan)
    /\ stage' = "completed"
    /\ UNCHANGED <<dataVars, seen, plan, decided_at, verified_at>>

\* The next operation on the same object.
start ==
    /\ stage \in Ended
    /\ end("investigating")
    /\ UNCHANGED dataVars

Next ==
    \/ Tick \/ replace_item \/ load_rules
    \/ \E tool \in Tools : read_cached(tool) \/ read_loaded(tool) \/ cache_set(tool) \/ refresh(tool)
    \/ fail \/ calculate_policy \/ submit_approval \/ verify \/ execute_work_order \/ start

FlowSpec == Init /\ [][Next]_flowVars

-----------------------------------------------------------------------------
(* Properties *)

Readings(tool) == [item : IF tool = "subject" THEN Items[kind] ELSE Rules[kind],
                   captured_at : 0 .. MaxTime]

\* Type invariant.
FlowTypeOK ==
    /\ clock \in 0 .. MaxTime
    /\ kind \in Kinds
    /\ catalog \in [subject : Items[kind], policy : Rules[kind]]
    /\ stage \in Stages
    /\ \A tool \in Tools :
        /\ loading[tool] \in Readings(tool) \cup {NoValue}
        /\ seen[tool] \in Readings(tool) \cup {NoValue}
        /\ cache[tool] = NoValue \/ (cache[tool].reading \in Readings(tool)
                                    /\ cache[tool].expires_at \in 0 .. MaxTime + CacheTtl)
    /\ {decided_at, verified_at} \subseteq (0 .. MaxTime) \cup {NoValue}

\* Whatever the cache served while the plan was made, and however long the
\* human took: a work order is written only for facts that were read after
\* the decision, and it is the one the policy prescribes for those facts.
OrderFollowsFreshFacts ==
    order # NoValue =>
        /\ \A tool \in Tools : seen[tool].captured_at >= decided_at
        /\ order = scenario_work_order_payload(kind,
                      scenario_plan(bundle, assess(bundle, verified_at)))

\* What a work order asks for is justified by the facts it was verified
\* against: a replenishment brings a stock below its reorder point exactly to
\* the target and within the order limits; a repair names a cause and is as
\* urgent as the most urgent condition of the machine that the policy covers;
\* a recovery is for a task that is not finished and has retries left.
OrderIsJustified ==
    order # NoValue =>
        LET i == seen["subject"].item
            p == seen["policy"].item
            late == verified_at - i.last_heartbeat > p.maximum_heartbeat_age_seconds
        IN CASE kind = "inventory" ->
                  /\ i.on_hand_quantity - i.reserved_quantity < p.reorder_point
                  /\ i.on_hand_quantity - i.reserved_quantity + order.quantity = p.target_stock
                  /\ order.quantity \in p.minimum_order_quantity .. p.maximum_order_quantity
             [] kind = "equipment" ->
                  /\ order.alert_code # NoValue
                  /\ late => priority_rank(order.priority) >=
                             priority_rank(p.priority_mapping["stale_heartbeat"])
                  /\ i.severity \in p.allowed_alert_levels =>
                        priority_rank(order.priority) >= priority_rank(p.priority_mapping[i.severity])
             [] kind = "task" ->
                  /\ i.state # "completed"
                  /\ order.retry_count = i.retry_count /\ i.retry_count <= p.maximum_retry_count
=============================================================================
