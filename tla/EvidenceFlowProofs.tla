-------------------------- MODULE EvidenceFlowProofs --------------------------
(***************************************************************************)
(* Theorems about EvidenceFlow, for every catalog of valid items and       *)
(* rules, every lifetime of the cache and any number of changes.           *)
(***************************************************************************)
EXTENDS EvidenceFlow, TLAPS

-----------------------------------------------------------------------------
(* What the policies prescribe *)

\* A replenishment that is planned brings the stock to its target.
LEMMA ReplenishmentIsJustified ==
    ASSUME NEW b, NEW now, NEW i, NEW p, b.subject.item = i, b.policy.item = p,
           ValidInventory(i), ValidInventoryPolicy(p),
           NEW facts, facts = assess_replenishment(b, now), facts # NoValue, facts.required
    PROVE  LET available == i.on_hand_quantity - i.reserved_quantity IN
           /\ available < p.reorder_point
           /\ available + facts.recommended_quantity = p.target_stock
           /\ facts.recommended_quantity \in p.minimum_order_quantity .. p.maximum_order_quantity
<1> DEFINE available == i.on_hand_quantity - i.reserved_quantity
           quantity == p.target_stock - available
<1>1. /\ available \in Int /\ p.target_stock \in Int /\ quantity \in Int
      /\ available + quantity = p.target_stock
  BY DEF ValidInventory, ValidInventoryPolicy
<1> HIDE DEF available, quantity
<1>2. /\ facts.required = (available < p.reorder_point)
      /\ facts.recommended_quantity = IF facts.required THEN quantity ELSE NoValue
      /\ ~ (facts.required /\ quantity \notin p.minimum_order_quantity .. p.maximum_order_quantity)
  BY DEF assess_replenishment, available, quantity
<1> QED
  BY <1>1, <1>2 DEF available

\* Every priority has a rank.
LEMMA RankIsNumber == \A x \in Priorities : priority_rank(x) \in Nat
BY DEF Priorities, priority_rank

\* A repair that is planned has a cause, and is as urgent as its most urgent
\* condition.
LEMMA MaintenanceIsJustified ==
    ASSUME NEW b, NEW now, NEW i, NEW p, b.subject.item = i, b.policy.item = p,
           ValidEquipment(i), ValidMaintenancePolicy(p),
           NEW facts, facts = assess_maintenance(b, now), facts.required
    PROVE  /\ facts.alert_code # NoValue
           /\ (now - i.last_heartbeat > p.maximum_heartbeat_age_seconds) =>
                 priority_rank(facts.priority) >= priority_rank(p.priority_mapping["stale_heartbeat"])
           /\ i.severity \in p.allowed_alert_levels =>
                 priority_rank(facts.priority) >= priority_rank(p.priority_mapping[i.severity])
<1> DEFINE stale == now - i.last_heartbeat > p.maximum_heartbeat_age_seconds
           allowed == i.severity \in p.allowed_alert_levels
           mapping == p.priority_mapping
           first == priority_rank(mapping["stale_heartbeat"])
           second == priority_rank(mapping[i.severity])
           leads == stale /\ (allowed => first > second)
<1>1. /\ facts.required <=> (stale \/ allowed)
      /\ facts.alert_code = IF leads THEN "STALE_HEARTBEAT" ELSE i.alert_code
      /\ facts.priority = IF leads THEN mapping["stale_heartbeat"]
                          ELSE IF allowed THEN mapping[i.severity] ELSE NoValue
  BY DEF assess_maintenance
<1>2. allowed => i.severity \in {"warning", "critical"} /\ i.alert_code # NoValue
  BY DEF ValidEquipment, ValidMaintenancePolicy
<1>3. mapping["stale_heartbeat"] \in Priorities
  BY DEF ValidMaintenancePolicy
<1>4. allowed => mapping[i.severity] \in Priorities
  BY <1>2 DEF ValidMaintenancePolicy
<1>5. first \in Nat /\ (allowed => second \in Nat)
  BY <1>3, <1>4, RankIsNumber
<1> HIDE DEF stale, allowed, mapping
<1>6. CASE leads
  <2>1. facts.alert_code = "STALE_HEARTBEAT" /\ priority_rank(facts.priority) = first
    BY <1>1, <1>6
  <2>2. allowed => first >= second
    BY <1>5, <1>6
  <2>3. first >= first
    BY <1>5
  <2> HIDE DEF first, second, leads
  <2> QED
    BY <2>1, <2>2, <2>3, NoneAssumption DEF first, second, allowed, mapping
<1>7. CASE ~ leads
  <2>1. allowed /\ (stale => ~ (first > second))
    BY <1>1, <1>7
  <2>2. facts.alert_code # NoValue /\ priority_rank(facts.priority) = second
    BY <1>1, <1>2, <1>7, <2>1
  <2>3. second >= second /\ (stale => second >= first)
    <3> HIDE DEF first, second, leads
    <3> QED
      BY <1>5, <2>1
  <2> HIDE DEF first, second, leads
  <2> QED
    BY <2>2, <2>3 DEF first, second, stale, mapping
<1> QED
  BY <1>6, <1>7

\* A recovery that is planned is for a task that can still be retried.
LEMMA RecoveryIsJustified ==
    ASSUME NEW b, NEW now, NEW i, NEW p, b.subject.item = i, b.policy.item = p,
           ValidTask(i), ValidTaskPolicy(p),
           NEW facts, facts = assess_task_recovery(b, now), facts # NoValue, facts.required
    PROVE  /\ i.state # "completed"
           /\ facts.retry_count = i.retry_count /\ i.retry_count <= p.maximum_retry_count
<1> DEFINE blocked == i.state \in p.blocked_states
           late == i.state # "completed" /\ now > i.due_at + p.overdue_grace_seconds
<1>1. /\ facts.required <=> (blocked \/ late)
      /\ ~ (facts.required /\ i.retry_count > p.maximum_retry_count)
      /\ facts.retry_count = i.retry_count
  BY DEF assess_task_recovery
<1>2. i.state # "completed"
  BY <1>1 DEF ValidTaskPolicy
<1> QED
  BY <1>1, <1>2 DEF ValidTask, ValidTaskPolicy

\* What OrderIsJustified asks of the payload o of a work order of scenario k,
\* for the item i, the rule p and the time of the assessment.
Justified(k, i, p, o, now) ==
    CASE k = "inventory" ->
           /\ i.on_hand_quantity - i.reserved_quantity < p.reorder_point
           /\ i.on_hand_quantity - i.reserved_quantity + o.quantity = p.target_stock
           /\ o.quantity \in p.minimum_order_quantity .. p.maximum_order_quantity
      [] k = "equipment" ->
           /\ o.alert_code # NoValue
           /\ now - i.last_heartbeat > p.maximum_heartbeat_age_seconds =>
                 priority_rank(o.priority) >= priority_rank(p.priority_mapping["stale_heartbeat"])
           /\ i.severity \in p.allowed_alert_levels =>
                 priority_rank(o.priority) >= priority_rank(p.priority_mapping[i.severity])
      [] k = "task" ->
           /\ i.state # "completed"
           /\ o.retry_count = i.retry_count /\ i.retry_count <= p.maximum_retry_count

\* The payload of a plan is justified by the evidence the plan is made from.
LEMMA PlanIsJustified ==
    ASSUME NEW k \in Kinds, NEW b, b.kind = k, NEW now, ValidSeed(k, b.subject.item, b.policy.item),
           NEW pl, pl = scenario_plan(b, assess(b, now)), pl # NoValue
    PROVE  Justified(k, b.subject.item, b.policy.item, scenario_work_order_payload(k, pl), now)
<1>1. PICK facts : facts = assess(b, now)
  OBVIOUS
<1>2. PICK i : i = b.subject.item
  OBVIOUS
<1>3. PICK p : p = b.policy.item
  OBVIOUS
<1>4. PICK o : o = scenario_work_order_payload(k, pl)
  OBVIOUS
<1>5. facts # NoValue /\ facts.required /\ ~ expired(b, now)
  BY <1>1 DEF scenario_plan, assess
<1>6. CASE k = "inventory"
  <2>1. facts = assess_replenishment(b, now)
    BY <1>1, <1>5, <1>6 DEF assess
  <2>2. ValidInventory(i) /\ ValidInventoryPolicy(p)
    BY <1>2, <1>3, <1>6 DEF ValidSeed
  <2>3. o.quantity = facts.recommended_quantity
    BY <1>1, <1>4, <1>5, <1>6 DEF scenario_plan, build_replenishment_plan, scenario_work_order_payload
  <2>4. /\ i.on_hand_quantity - i.reserved_quantity < p.reorder_point
        /\ i.on_hand_quantity - i.reserved_quantity + facts.recommended_quantity = p.target_stock
        /\ facts.recommended_quantity \in p.minimum_order_quantity .. p.maximum_order_quantity
    BY <1>2, <1>3, <1>5, <2>1, <2>2, ReplenishmentIsJustified
  <2>5. Justified(k, i, p, o, now)
    BY <1>6, <2>3, <2>4 DEF Justified
  <2> QED
    BY <1>2, <1>3, <1>4, <2>5
<1>7. CASE k = "equipment"
  <2>1. facts = assess_maintenance(b, now)
    BY <1>1, <1>5, <1>7 DEF assess
  <2>2. ValidEquipment(i) /\ ValidMaintenancePolicy(p)
    BY <1>2, <1>3, <1>7 DEF ValidSeed
  <2>3. o.alert_code = facts.alert_code /\ o.priority = facts.priority
    BY <1>1, <1>4, <1>5, <1>7 DEF scenario_plan, build_maintenance_plan, scenario_work_order_payload
  <2>4. /\ facts.alert_code # NoValue
        /\ (now - i.last_heartbeat > p.maximum_heartbeat_age_seconds) =>
              priority_rank(facts.priority) >= priority_rank(p.priority_mapping["stale_heartbeat"])
        /\ i.severity \in p.allowed_alert_levels =>
              priority_rank(facts.priority) >= priority_rank(p.priority_mapping[i.severity])
    BY <1>2, <1>3, <1>5, <2>1, <2>2, MaintenanceIsJustified
  <2>5. Justified(k, i, p, o, now)
    BY <1>7, <2>3, <2>4 DEF Justified
  <2> QED
    BY <1>2, <1>3, <1>4, <2>5
<1>8. CASE k = "task"
  <2>1. facts = assess_task_recovery(b, now)
    BY <1>1, <1>5, <1>8 DEF assess
  <2>2. ValidTask(i) /\ ValidTaskPolicy(p)
    BY <1>2, <1>3, <1>8 DEF ValidSeed
  <2>3. o.retry_count = facts.retry_count
    BY <1>1, <1>4, <1>5, <1>8 DEF scenario_plan, build_task_recovery_plan, scenario_work_order_payload
  <2>4. /\ i.state # "completed"
        /\ facts.retry_count = i.retry_count /\ i.retry_count <= p.maximum_retry_count
    BY <1>2, <1>3, <1>5, <2>1, <2>2, RecoveryIsJustified
  <2>5. Justified(k, i, p, o, now)
    BY <1>8, <2>3, <2>4 DEF Justified
  <2> QED
    BY <1>2, <1>3, <1>4, <2>5
<1> QED
  BY <1>6, <1>7, <1>8 DEF Kinds

-----------------------------------------------------------------------------
(* The inductive invariant *)

\* From the decision on, only readings made after it are looked at, and the
\* plan that is carried out is the one those readings give: the approved plan
\* went through only because it had the same binding.
DecidedInv ==
    /\ stage = "awaiting_approval" => seen = nothing_seen
    /\ order # NoValue => stage = "completed" /\ order = scenario_work_order_payload(kind, plan)
    /\ stage \in {"refreshing", "executing"} \/ order # NoValue =>
           /\ decided_at \in 0 .. clock
           /\ \A tool \in Tools : seen[tool] # NoValue => seen[tool].captured_at >= decided_at
    /\ stage = "executing" \/ order # NoValue =>
           /\ all_seen
           /\ verified_at \in Nat
           /\ plan # NoValue /\ plan = scenario_plan(bundle, assess(bundle, verified_at))

FlowInv ==
    /\ FlowTypeOK
    /\ DOMAIN seen = Tools /\ DOMAIN cache = Tools /\ DOMAIN loading = Tools
    /\ DecidedInv

\* What the tool service answers is a reading of the tool.
LEMMA SnapshotIsReading ==
    ASSUME FlowTypeOK, NEW tool \in Tools
    PROVE  snapshot(tool) \in Readings(tool) /\ snapshot(tool).captured_at = clock
BY DEF FlowTypeOK, Tools, snapshot, Readings

\* An operation that ends leaves the invariant to hold of its outcome.
LEMMA EndKeeps ==
    ASSUME FlowInv, UNCHANGED dataVars, NEW outcome \in Ended \cup {"investigating"}, end(outcome)
    PROVE  FlowInv'
<1>1. /\ clock' = clock /\ kind' = kind /\ catalog' = catalog /\ cache' = cache /\ loading' = loading
      /\ stage' = outcome /\ seen' = nothing_seen /\ order' = NoValue
      /\ decided_at' = NoValue /\ verified_at' = NoValue
  BY DEF dataVars, end
<1>2. DOMAIN seen' = Tools /\ \A tool \in Tools : seen'[tool] = NoValue
  BY <1>1 DEF nothing_seen
<1>3. stage' \in Stages /\ stage' \notin {"awaiting_approval", "refreshing", "executing"}
  BY <1>1 DEF Ended, Stages
<1>4. FlowTypeOK'
  BY <1>1, <1>2, <1>3 DEF FlowInv, FlowTypeOK, Readings
<1>5. DecidedInv'
  BY <1>1, <1>3 DEF DecidedInv
<1> QED
  BY <1>1, <1>2, <1>4, <1>5 DEF FlowInv

-----------------------------------------------------------------------------
(* The steps *)

\* Time passes: readings do not change, entries of the cache may go.
LEMMA TickStep ==
    ASSUME FlowInv, Tick
    PROVE  FlowInv'
<1>1. /\ clock \in 0 .. MaxTime /\ clock < MaxTime /\ clock' = clock + 1 /\ MaxTime \in Nat
      /\ kind' = kind /\ catalog' = catalog /\ loading' = loading /\ UNCHANGED operationVars
  BY FlowAssumption DEF Tick, FlowInv, FlowTypeOK
<1>2. /\ DOMAIN cache' = Tools
      /\ \A tool \in Tools : cache'[tool] \in {cache[tool], NoValue}
  BY DEF Tick
<1>3. clock' \in 0 .. MaxTime /\ 0 .. clock \subseteq 0 .. clock'
  BY <1>1
<1>4. FlowTypeOK'
  BY <1>1, <1>2, <1>3 DEF FlowInv, FlowTypeOK, Readings, operationVars
<1>5. DecidedInv'
  BY <1>1, <1>3 DEF FlowInv, DecidedInv, operationVars, all_seen, bundle
<1> QED
  BY <1>1, <1>2, <1>4, <1>5 DEF FlowInv, operationVars

\* The catalog changes: no reading that was made does.
LEMMA ChangeStep ==
    ASSUME FlowInv, replace_item \/ load_rules
    PROVE  FlowInv'
<1>1. /\ clock' = clock /\ kind' = kind /\ cache' = cache /\ loading' = loading
      /\ UNCHANGED operationVars
  BY DEF replace_item, load_rules, change
<1>2. catalog' \in [subject : Items[kind], policy : Rules[kind]]
  BY DEF replace_item, load_rules, change, FlowInv, FlowTypeOK
<1>3. FlowTypeOK'
  BY <1>1, <1>2 DEF FlowInv, FlowTypeOK, Readings, operationVars
<1>4. DecidedInv'
  BY <1>1 DEF FlowInv, DecidedInv, operationVars, all_seen, bundle
<1> QED
  BY <1>1, <1>3, <1>4 DEF FlowInv, operationVars

\* A reading of the model comes from the cache or from the tool service.
LEMMA ReadStep ==
    ASSUME FlowInv, NEW tool \in Tools, read_cached(tool) \/ read_loaded(tool)
    PROVE  FlowInv'
<1>1. /\ stage = "investigating" /\ seen[tool] = NoValue
      /\ clock' = clock /\ kind' = kind /\ catalog' = catalog /\ cache' = cache
      /\ stage' = stage /\ decided_at' = decided_at /\ verified_at' = verified_at
      /\ order' = order
  BY DEF read_cached, read_loaded, dataVars
<1>2. PICK r \in Readings(tool) :
        seen' = [seen EXCEPT ![tool] = r] /\ loading' \in {loading, [loading EXCEPT ![tool] = r]}
  <2>1. CASE read_cached(tool)
    BY <2>1 DEF read_cached, hit, dataVars, FlowInv, FlowTypeOK
  <2>2. CASE read_loaded(tool)
    BY <2>2, SnapshotIsReading DEF read_loaded, FlowInv
  <2> QED
    BY <2>1, <2>2
<1>3. /\ DOMAIN seen' = Tools /\ DOMAIN loading' = Tools
      /\ \A t \in Tools : seen'[t] \in {r, seen[t]} /\ (t # tool => seen'[t] = seen[t])
      /\ \A t \in Tools : loading'[t] \in {r, loading[t]} /\ (t # tool => loading'[t] = loading[t])
  BY <1>2 DEF FlowInv
<1>4. FlowTypeOK'
  BY <1>1, <1>2, <1>3 DEF FlowInv, FlowTypeOK, Readings
<1>5. DecidedInv'
  BY <1>1 DEF FlowInv, DecidedInv
<1> QED
  BY <1>1, <1>3, <1>4, <1>5 DEF FlowInv

\* A late write of the cache puts in what was loaded.
LEMMA CacheStep ==
    ASSUME FlowInv, NEW tool \in Tools, cache_set(tool)
    PROVE  FlowInv'
<1>1. /\ clock' = clock /\ kind' = kind /\ catalog' = catalog /\ UNCHANGED operationVars
      /\ loading[tool] # NoValue /\ loading' = [loading EXCEPT ![tool] = NoValue]
  BY DEF cache_set
<1>2. PICK e : /\ e.reading = loading[tool] /\ e.expires_at = clock + CacheTtl
               /\ cache' \in {cache, [cache EXCEPT ![tool] = e]}
  <2>1. PICK e : e = [reading |-> loading[tool], expires_at |-> clock + CacheTtl]
    OBVIOUS
  <2>2. e.reading = loading[tool] /\ e.expires_at = clock + CacheTtl
    BY <2>1
  <2> QED
    BY <2>1, <2>2 DEF cache_set
<1>3. e.reading \in Readings(tool) /\ e.expires_at \in 0 .. MaxTime + CacheTtl
  BY <1>1, <1>2, FlowAssumption DEF FlowInv, FlowTypeOK
<1>4. /\ DOMAIN loading' = Tools /\ DOMAIN cache' = Tools
      /\ \A t \in Tools : loading'[t] \in {NoValue, loading[t]}
      /\ \A t \in Tools : cache'[t] = cache[t] \/ (t = tool /\ cache'[t] = e)
  BY <1>1, <1>2 DEF FlowInv
<1>5. FlowTypeOK'
  BY <1>1, <1>3, <1>4 DEF FlowInv, FlowTypeOK, Readings, operationVars
<1>6. DecidedInv'
  BY <1>1 DEF FlowInv, DecidedInv, operationVars, all_seen, bundle
<1> QED
  BY <1>1, <1>4, <1>5, <1>6 DEF FlowInv, operationVars

\* A refreshed reading is made after the decision.
LEMMA RefreshStep ==
    ASSUME FlowInv, NEW tool \in Tools, refresh(tool)
    PROVE  FlowInv'
<1>1. /\ stage = "refreshing" /\ UNCHANGED dataVars
      /\ stage' = stage /\ plan' = plan /\ decided_at' = decided_at /\ verified_at' = verified_at
      /\ order' = order /\ seen' = [seen EXCEPT ![tool] = snapshot(tool)]
  BY DEF refresh
<1>2. PICK r \in Readings(tool) : r = snapshot(tool) /\ r.captured_at = clock
  BY SnapshotIsReading DEF FlowInv
<1>3. /\ DOMAIN seen' = Tools
      /\ \A t \in Tools : seen'[t] = seen[t] \/ (t = tool /\ seen'[t] = r)
  BY <1>1, <1>2 DEF FlowInv
<1>4. order = NoValue /\ decided_at \in 0 .. clock /\ clock \in Nat
  BY <1>1 DEF FlowInv, DecidedInv, FlowTypeOK
<1>5. FlowTypeOK'
  BY <1>1, <1>2, <1>3 DEF FlowInv, FlowTypeOK, Readings, dataVars
<1>6. r.captured_at >= decided_at
  BY <1>2, <1>4
<1>7. DecidedInv'
  BY <1>1, <1>3, <1>4, <1>6 DEF FlowInv, DecidedInv, dataVars
<1> QED
  BY <1>1, <1>3, <1>5, <1>7 DEF FlowInv, dataVars

\* A plan waits for its approval with nothing read for it.
LEMMA WaitKeeps ==
    ASSUME FlowInv, UNCHANGED dataVars, stage' = "awaiting_approval", seen' = nothing_seen,
           order' = order, order = NoValue, verified_at' = verified_at,
           decided_at' \in {decided_at, NoValue}
    PROVE  FlowInv'
<1>1. DOMAIN seen' = Tools /\ \A tool \in Tools : seen'[tool] = NoValue
  BY DEF nothing_seen
<1>2. FlowTypeOK'
  BY <1>1 DEF FlowInv, FlowTypeOK, Readings, dataVars, Stages
<1>3. DecidedInv'
  BY DEF DecidedInv, nothing_seen
<1> QED
  BY <1>1, <1>2, <1>3 DEF FlowInv, dataVars

\* The policy's plan waits, or the operation ends.
LEMMA PolicyStep ==
    ASSUME FlowInv, calculate_policy
    PROVE  FlowInv'
<1>1. stage = "investigating" /\ UNCHANGED dataVars
  BY DEF calculate_policy
<1>2. order = NoValue
  BY <1>1 DEF FlowInv, DecidedInv
<1>3. \/ end("failed") \/ end("completed")
      \/ /\ stage' = "awaiting_approval" /\ seen' = nothing_seen
         /\ UNCHANGED <<decided_at, verified_at, order>>
  BY DEF calculate_policy
<1>4. "failed" \in Ended /\ "completed" \in Ended
  BY DEF Ended
<1> QED
  BY <1>1, <1>2, <1>3, <1>4, EndKeeps, WaitKeeps

\* The decision starts a round of reads with none made.
LEMMA SubmitStep ==
    ASSUME FlowInv, submit_approval
    PROVE  FlowInv'
<1>1. stage = "awaiting_approval" /\ UNCHANGED dataVars
  BY DEF submit_approval
<1>2. CASE stage' = "refreshing" /\ decided_at' = clock /\ UNCHANGED <<seen, plan, verified_at, order>>
  <2>1. seen = nothing_seen /\ order = NoValue /\ clock \in 0 .. MaxTime
    BY <1>1 DEF FlowInv, DecidedInv, FlowTypeOK
  <2>2. \A tool \in Tools : seen'[tool] = NoValue
    BY <1>2, <2>1 DEF nothing_seen
  <2>3. FlowTypeOK'
    BY <1>1, <1>2, <2>1 DEF FlowInv, FlowTypeOK, Readings, dataVars, Stages
  <2>4. clock \in 0 .. clock
    BY <2>1
  <2>5. DecidedInv'
    BY <1>1, <1>2, <2>1, <2>2, <2>4 DEF DecidedInv, dataVars
  <2> QED
    BY <1>1, <1>2, <2>3, <2>5 DEF FlowInv, dataVars
<1>3. CASE end("rejected")
  <2>1. "rejected" \in Ended
    BY DEF Ended
  <2> QED
    BY <1>1, <1>3, <2>1, EndKeeps
<1> QED
  BY <1>2, <1>3 DEF submit_approval

\* Only a plan with the approved binding goes on: it is the approved plan.
LEMMA VerifyStep ==
    ASSUME FlowInv, verify
    PROVE  FlowInv'
<1>1. stage = "refreshing" /\ all_seen /\ UNCHANGED dataVars
  BY DEF verify
<1>2. order = NoValue /\ clock \in 0 .. MaxTime
  BY <1>1 DEF FlowInv, DecidedInv, FlowTypeOK
<1>3. PICK next : next = scenario_plan(bundle, assess(bundle, clock))
  OBVIOUS
<1>4. \/ end("failed") \/ end("aborted")
      \/ /\ stage' = "awaiting_approval" /\ seen' = nothing_seen /\ decided_at' = NoValue
         /\ UNCHANGED <<verified_at, order>>
      \/ /\ next # NoValue /\ binding_facts(kind, next) = binding_facts(kind, plan)
         /\ stage' = "executing" /\ verified_at' = clock
         /\ UNCHANGED <<seen, plan, decided_at, order>>
  BY <1>3 DEF verify, choose_verification_route
<1>5. "failed" \in Ended /\ "aborted" \in Ended
  BY DEF Ended
<1>6. CASE end("failed") \/ end("aborted")
  BY <1>1, <1>5, <1>6, EndKeeps
<1>7. CASE /\ stage' = "awaiting_approval" /\ seen' = nothing_seen /\ decided_at' = NoValue
           /\ UNCHANGED <<verified_at, order>>
  BY <1>1, <1>2, <1>7, WaitKeeps
<1>8. CASE /\ next # NoValue /\ binding_facts(kind, next) = binding_facts(kind, plan)
           /\ stage' = "executing" /\ verified_at' = clock
           /\ UNCHANGED <<seen, plan, decided_at, order>>
  <2>1. plan = next
    BY <1>8 DEF binding_facts
  <2>2. bundle' = bundle /\ all_seen'
    BY <1>1, <1>8 DEF bundle, all_seen, dataVars
  <2>3. plan' = scenario_plan(bundle', assess(bundle', verified_at')) /\ plan' # NoValue
    BY <1>3, <1>8, <2>1, <2>2
  <2>4. FlowTypeOK'
    BY <1>1, <1>2, <1>8 DEF FlowInv, FlowTypeOK, Readings, dataVars, Stages
  <2>5. verified_at' \in Nat
    BY <1>2, <1>8
  <2>6. DecidedInv'
    BY <1>1, <1>2, <1>8, <2>2, <2>3, <2>5 DEF FlowInv, DecidedInv, dataVars
  <2> QED
    BY <1>1, <1>8, <2>4, <2>6 DEF FlowInv, dataVars
<1> QED
  BY <1>4, <1>6, <1>7, <1>8

\* The work order is the payload of the approved plan.
LEMMA ExecuteStep ==
    ASSUME FlowInv, execute_work_order
    PROVE  FlowInv'
<1>1. /\ stage = "executing" /\ stage' = "completed" /\ UNCHANGED dataVars
      /\ UNCHANGED <<seen, plan, decided_at, verified_at>>
      /\ order' = scenario_work_order_payload(kind, plan)
  BY DEF execute_work_order
<1>2. bundle' = bundle /\ all_seen' = all_seen
  BY <1>1 DEF bundle, all_seen, dataVars
<1>3. FlowTypeOK'
  BY <1>1 DEF FlowInv, FlowTypeOK, Readings, dataVars, Stages
<1>4. DecidedInv'
  BY <1>1, <1>2 DEF FlowInv, DecidedInv, dataVars
<1> QED
  BY <1>1, <1>3, <1>4 DEF FlowInv, dataVars

-----------------------------------------------------------------------------
(* The theorems *)

\* FlowInv holds of the initial states and is kept by every step.
LEMMA FlowInvariant == FlowSpec => []FlowInv
<1>1. ASSUME Init PROVE FlowInv
  <2>1. /\ clock \in 0 .. MaxTime /\ kind \in Kinds
        /\ catalog \in [subject : Items[kind], policy : Rules[kind]]
        /\ stage = "investigating" /\ order = NoValue
        /\ decided_at = NoValue /\ verified_at = NoValue
    BY <1>1, FlowAssumption DEF Init
  <2>2. \A f \in {cache, loading, seen} : DOMAIN f = Tools /\ \A tool \in Tools : f[tool] = NoValue
    BY <1>1 DEF Init, nothing_seen
  <2>3. FlowTypeOK
    BY <2>1, <2>2 DEF FlowTypeOK, Stages
  <2>4. DecidedInv
    BY <2>1 DEF DecidedInv
  <2> QED
    BY <2>2, <2>3, <2>4 DEF FlowInv
<1>2. FlowInv /\ [Next]_flowVars => FlowInv'
  <2>1. ASSUME FlowInv, UNCHANGED flowVars PROVE FlowInv'
    BY <2>1 DEF FlowInv, FlowTypeOK, DecidedInv, flowVars, Readings, all_seen, bundle
  <2>2. ASSUME FlowInv, fail PROVE FlowInv'
    <3>1. "failed" \in Ended
      BY DEF Ended
    <3> QED
      BY <2>2, <3>1, EndKeeps DEF fail
  <2>3. ASSUME FlowInv, start PROVE FlowInv'
    BY <2>3, EndKeeps DEF start
  <2> QED
    BY <2>1, <2>2, <2>3, TickStep, ChangeStep, ReadStep, CacheStep, RefreshStep, PolicyStep,
       SubmitStep, VerifyStep, ExecuteStep
       DEF Next
<1> QED
  BY <1>1, <1>2, PTL DEF FlowSpec

\* The cache, the pending writes and the observations only hold readings that
\* the tool service once gave.
THEOREM FlowTypes == FlowSpec => []FlowTypeOK
<1>1. FlowInv => FlowTypeOK
  BY DEF FlowInv
<1> QED
  BY <1>1, FlowInvariant, PTL

\* A work order follows facts that were read after its approval, and is the one
\* the policy prescribes for them, whatever the cache answered before it
\* (refresh, verify, execute_work_order).
THEOREM FlowOrderFollowsFreshFacts == FlowSpec => []OrderFollowsFreshFacts
<1>1. FlowInv => OrderFollowsFreshFacts
  BY DEF FlowInv, DecidedInv, all_seen, OrderFollowsFreshFacts
<1> QED
  BY <1>1, FlowInvariant, PTL

\* What a work order asks for is justified by the facts it was verified against,
\* for every catalog of valid items and rules (the assess functions, the plans
\* and the payloads of the three scenarios).
THEOREM FlowOrderIsJustified == FlowSpec => []OrderIsJustified
<1>1. ASSUME FlowInv, order # NoValue PROVE OrderIsJustified
  <2>1. /\ kind \in Kinds /\ all_seen /\ plan # NoValue
        /\ plan = scenario_plan(bundle, assess(bundle, verified_at))
        /\ order = scenario_work_order_payload(kind, plan)
    BY <1>1 DEF FlowInv, FlowTypeOK, DecidedInv
  <2>2. PICK b : b = bundle
    OBVIOUS
  <2>3. b.kind = kind /\ b.subject = seen["subject"] /\ b.policy = seen["policy"]
    BY <2>2 DEF bundle
  <2>4. b.subject.item \in Items[kind] /\ b.policy.item \in Rules[kind]
    BY <1>1, <2>1, <2>3 DEF FlowInv, FlowTypeOK, all_seen, Tools, Readings
  <2>5. ValidSeed(kind, b.subject.item, b.policy.item)
    BY <2>1, <2>4, FlowAssumption
  <2>6. Justified(kind, b.subject.item, b.policy.item, order, verified_at)
    BY <2>1, <2>2, <2>3, <2>5, PlanIsJustified
  <2> QED
    BY <2>1, <2>3, <2>6 DEF Justified, OrderIsJustified, Kinds
<1>2. FlowInv => OrderIsJustified
  BY <1>1 DEF OrderIsJustified
<1> QED
  BY <1>2, FlowInvariant, PTL

===============================================================================
