--------------------------- MODULE OperationStore ---------------------------
(***************************************************************************)
(* The PostgreSQL business tables of OperCerta (operations, approvals,     *)
(* work_orders, operational_signals, audit_events) and every transaction   *)
(* that the operation, approval, work-order and signal repositories run    *)
(* against them.  A transaction takes the row lock of its operation (or    *)
(* signal) first and commits at the end, so each one is one atomic action. *)
(*                                                                         *)
(* The specification is that of the most general client: any caller may    *)
(* run any transaction, in any order, with any arguments of the right      *)
(* type.  What holds here holds whatever the graphs, the runners, retries, *)
(* duplicated requests and restarts do.  A call that raises or that finds  *)
(* its own earlier effect (an idempotent replay) changes nothing and is a  *)
(* stuttering step; the predicates that decide it are named, because the   *)
(* graph modules need to know the outcome of a call.                       *)
(***************************************************************************)
EXTENDS Naturals, Sequences, FiniteSets

CONSTANTS
    Operations,     \* operation ids
    Signals,        \* operational_signals ids
    Drafts,         \* what a scan can detect: a signal type, object and facts hash
    Objects,        \* (object_type, object_id) pairs
    Bundles,        \* evidence bundles that an investigation can collect
    Plans,          \* action plans (with their plan hash)
    Approvers,      \* authenticated approvers
    Errors,         \* stable OperationError codes
    ObjectOf,       \* the object a draft is about
    PlanOf,         \* the plan the policy rules derive from a bundle, or NoValue
    NoValue,        \* SQL NULL
    MaxTime,        \* bound on the clock
    MaxDeadline,    \* bound on approval deadlines
    MaxCycle        \* bound on the number of approval cycles

ASSUME StoreAssumption ==
    /\ ObjectOf \in [Drafts -> Objects]
    /\ PlanOf \in [Bundles -> Plans \cup {NoValue}]
    /\ NoValue \notin Operations \cup Signals \cup Drafts \cup Objects
                        \cup Bundles \cup Plans \cup Approvers \cup Errors
    /\ MaxTime \in Nat
    /\ MaxDeadline \in Nat
    /\ MaxCycle \in Nat

VARIABLES
    status,         \* operations.status, "absent" before the row is inserted
    request,        \* operations.request_payload.request
    snapshot,       \* operations.request_payload: evidence, plan, approval_binding
    cycle,          \* operations.approval_cycle
    expires,        \* operations.approval_expires_at
    result,         \* operations.result_payload with error_code
    auditSeq,       \* operations.next_audit_sequence
    audit,          \* audit_events of each operation, in insertion order
    approvals,      \* the approvals table; a row is its own id
    workOrders,     \* the work_orders table; a row is its own id
    signals,        \* the operational_signals table
    now             \* the wall clock

opVars == <<status, request, snapshot, cycle, expires, result, auditSeq, audit>>
storeVars == <<opVars, approvals, workOrders, signals, now>>

-----------------------------------------------------------------------------
(* Rows and values *)

Terminal == {"completed", "rejected", "aborted", "expired", "failed"}
Active == {"received", "gathering_evidence", "planning", "validating", "reporting",
           "awaiting_approval", "needs_reapproval", "resuming", "executing", "verifying"}
Statuses == Terminal \cup Active
Investigating == {"absent", "received", "gathering_evidence", "planning", "validating", "reporting"}
AwaitingDecision == {"awaiting_approval", "needs_reapproval"}

Actions == {"query", "create_work_order"}
Decisions == {"approved", "rejected"}
Requests == [action : Actions, object : Objects, signal : Signals \cup {NoValue}]
Bindings == [evidence : Bundles, plan : Plans]
Snapshots == [evidence : Bundles \cup {NoValue},
              plan     : Plans \cup {NoValue},
              binding  : Bindings \cup {NoValue}]
EmptySnapshot == [evidence |-> NoValue, plan |-> NoValue, binding |-> NoValue]
ApprovalRows == [op : Operations, cycle : Nat, approver : Approvers,
                 decision : Decisions, binding : Bindings, at : Nat]
WorkOrderRows == [op : Operations, payload : Plans]
SignalStatuses == {"open", "investigating", "resolved", "attention_required"}
SignalRows == [status : SignalStatuses \cup {"absent"},
               draft  : Drafts \cup {NoValue},
               op     : Operations \cup {NoValue},
               pred   : Signals \cup {NoValue}]
AbsentSignal == [status |-> "absent", draft |-> NoValue, op |-> NoValue, pred |-> NoValue]

\* A payload that is NULL is told from every request, binding and approval.
ASSUME NullAssumption == NoValue \notin Requests \cup Bindings \cup ApprovalRows

\* A deadline that is NULL is told from every time.
ASSUME DeadlineAssumption == NoValue \notin Nat

\* The outcomes of a completed operation that carries no work order.
NoActionOutcomes == {"query_completed", "not_required"}
Outcomes == [outcome : NoActionOutcomes \cup {"work_order_completed"}]
Results == {NoValue} \cup Outcomes \cup [error : Errors]

\* The status an event leaves its operation in.  work_order_created is the
\* one event that comes without a change of status.
StatusAfter ==
    [operation_received         |-> "received",
     evidence_gathering_started |-> "gathering_evidence",
     evidence_recorded          |-> "planning",
     plan_validated             |-> "validating",
     query_assessed             |-> "validating",
     reporting_started          |-> "reporting",
     approval_requested         |-> "awaiting_approval",
     approval_recorded          |-> "resuming",
     reapproval_requested       |-> "needs_reapproval",
     verification_aborted       |-> "aborted",
     approval_expired           |-> "expired",
     execution_started          |-> "executing",
     verification_started       |-> "verifying",
     operation_completed        |-> "completed",
     operation_rejected         |-> "rejected",
     operation_failed           |-> "failed"]
EventTypes == DOMAIN StatusAfter \cup {"work_order_created"}
Payloads == {NoValue} \cup Bundles \cup Plans \cup Errors \cup Requests
            \cup ApprovalRows \cup WorkOrderRows \cup Outcomes
            \cup [deadline : Nat]
            \cup [binding : Bindings, deadline : Nat]
            \cup [binding : Bindings, approval : ApprovalRows]
Events == [seq : Nat, type : EventTypes, payload : Payloads]

\* build_approval_binding and its equipment and task twins: the evidence ids
\* with the plan's hash, rule version and parameters.
build_approval_binding(bundle, plan) == [evidence |-> bundle, plan |-> plan]

\* What a verifier compares: everything of a binding but the evidence ids.
binding_facts(binding) == binding.plan

\* _require_plan_matches_assessment: the assessment of a bundle has a plan
\* exactly when the policy requires an action, and then that plan.
plan_matches_assessment(bundle, plan) == plan = PlanOf[bundle]

\* Mutant: an aborted verification counts as settled.
mutant_aborted_resolves(target) ==
    IF target \in {"completed", "rejected", "aborted"} THEN "resolved" ELSE "attention_required"

signal_status_for_operation_terminal(target) ==
    IF target \in {"completed", "rejected"} THEN "resolved" ELSE "attention_required"

-----------------------------------------------------------------------------
(* Helpers shared by the transactions *)

\* _require_matching_event: exactly one event of the type, with this payload.
matching_event(o, type, payload) ==
    \E i \in 1..Len(audit[o]) :
        /\ audit[o][i].type = type
        /\ audit[o][i].payload = payload
        /\ \A j \in 1..Len(audit[o]) : audit[o][j].type = type => j = i

\* The branch of _transition that finds the target state already reached.
replayed(o, target, type, payload) ==
    status[o] = target /\ matching_event(o, type, payload)

\* Mutant: the approval may be of an earlier cycle.
mutant_stale_approval_locator(o, a, decision) ==
    a \in approvals /\ a.op = o /\ a.decision = decision

\* _require_approval_locator: the approval is this operation's, of this
\* decision, and of the current cycle.
approval_locator(o, a, decision) ==
    a \in approvals /\ a.op = o /\ a.decision = decision /\ a.cycle = cycle[o]

\* _require_work_order_locator
work_order_locator(o, w) == w \in workOrders /\ w.op = o

\* Every transaction that writes an operation adds its event under the next
\* audit sequence number.
append_event(o, type, payload) ==
    /\ auditSeq' = [auditSeq EXCEPT ![o] = @ + 1]
    /\ audit' = [audit EXCEPT ![o] =
                    Append(@, [seq |-> auditSeq[o] + 1, type |-> type, payload |-> payload])]

\* A terminal transition carries the linked signal with it.
update_linked_signal(o, target) ==
    signals' = IF target \in Terminal
               THEN [s \in Signals |->
                        IF signals[s].op = o
                        THEN [signals[s] EXCEPT !.status =
                                 signal_status_for_operation_terminal(target)]
                        ELSE signals[s]]
               ELSE signals

\* The writes of _transition once its guards have passed.
transition(o, target, type, payload) ==
    /\ status' = [status EXCEPT ![o] = target]
    /\ append_event(o, type, payload)
    /\ update_linked_signal(o, target)
    /\ UNCHANGED <<request, approvals, workOrders, now>>

-----------------------------------------------------------------------------
(* ReplenishmentOperationRepository *)

\* Mutant: the signal's status and operation are not re-read under its lock.
mutant_create_claims_any(o, req) ==
    /\ status[o] = "absent"
    /\ req.signal # NoValue =>
        /\ signals[req.signal].status # "absent"
        /\ ObjectOf[signals[req.signal].draft] = req.object

\* An operation triggered by a signal must be about the signal's object, and
\* only an open signal without an operation can be claimed.
create_allowed(o, req) ==
    /\ status[o] = "absent"
    /\ req.signal # NoValue =>
        /\ signals[req.signal].status = "open"
        /\ signals[req.signal].op = NoValue
        /\ ObjectOf[signals[req.signal].draft] = req.object

create(o, req) ==
    /\ create_allowed(o, req)
    /\ status' = [status EXCEPT ![o] = "received"]
    /\ request' = [request EXCEPT ![o] = req]
    /\ append_event(o, "operation_received", req)
    /\ signals' = IF req.signal = NoValue THEN signals
                  ELSE [signals EXCEPT ![req.signal].status = "investigating",
                                       ![req.signal].op = o]
    /\ UNCHANGED <<snapshot, cycle, expires, result, approvals, workOrders, now>>

mark_gathering_evidence(o) ==
    /\ status[o] = "received"
    /\ transition(o, "gathering_evidence", "evidence_gathering_started", NoValue)
    /\ UNCHANGED <<snapshot, cycle, expires, result>>

record_evidence(o, bundle) ==
    /\ status[o] = "gathering_evidence"
    /\ transition(o, "planning", "evidence_recorded", bundle)
    /\ snapshot' = [snapshot EXCEPT ![o].evidence = bundle]
    /\ UNCHANGED <<cycle, expires, result>>

record_validated_plan(o, bundle, plan) ==
    /\ plan_matches_assessment(bundle, plan)
    /\ status[o] = "planning"
    /\ transition(o, "validating", "plan_validated", bundle)
    /\ snapshot' = [snapshot EXCEPT ![o].plan = plan]
    /\ UNCHANGED <<cycle, expires, result>>

record_query_assessment(o, bundle) ==
    /\ status[o] = "planning"
    /\ transition(o, "validating", "query_assessed", bundle)
    /\ snapshot' = [snapshot EXCEPT ![o].plan = NoValue]
    /\ UNCHANGED <<cycle, expires, result>>

mark_reporting(o) ==
    /\ status[o] = "validating"
    /\ transition(o, "reporting", "reporting_started", NoValue)
    /\ UNCHANGED <<snapshot, cycle, expires, result>>

\* _require_binding_matches_snapshot
binding_matches_snapshot(snap, binding) ==
    /\ snap.evidence # NoValue
    /\ snap.plan # NoValue
    /\ binding = build_approval_binding(snap.evidence, snap.plan)

mark_awaiting_approval(o, binding, deadline) ==
    /\ status[o] = "validating"
    /\ binding_matches_snapshot(snapshot[o], binding)
    /\ transition(o, "awaiting_approval", "approval_requested",
                  [binding |-> binding, deadline |-> deadline])
    /\ snapshot' = [snapshot EXCEPT ![o].binding = binding]
    /\ expires' = [expires EXCEPT ![o] = deadline]
    /\ cycle' = [cycle EXCEPT ![o] = 1]
    /\ UNCHANGED result

\* Mutant: the new facts do not open a new cycle.
mutant_reapproval_same_cycle(o, a, bundle, plan, binding, deadline) ==
    /\ approval_locator(o, a, "approved")
    /\ status[o] = "resuming"
    /\ binding = build_approval_binding(bundle, plan)
    /\ transition(o, "needs_reapproval", "reapproval_requested",
                  [approval |-> a, binding |-> binding])
    /\ snapshot' = [snapshot EXCEPT ![o] =
                       [evidence |-> bundle, plan |-> plan, binding |-> binding]]
    /\ expires' = [expires EXCEPT ![o] = deadline]
    /\ UNCHANGED <<cycle, result>>

\* The refreshed facts replace the approved ones and open the next cycle.
mark_needs_reapproval(o, a, bundle, plan, binding, deadline) ==
    /\ approval_locator(o, a, "approved")
    /\ status[o] = "resuming"
    /\ binding = build_approval_binding(bundle, plan)
    /\ cycle[o] < MaxCycle
    /\ transition(o, "needs_reapproval", "reapproval_requested",
                  [approval |-> a, binding |-> binding])
    /\ snapshot' = [snapshot EXCEPT ![o] =
                       [evidence |-> bundle, plan |-> plan, binding |-> binding]]
    /\ expires' = [expires EXCEPT ![o] = deadline]
    /\ cycle' = [cycle EXCEPT ![o] = @ + 1]
    /\ UNCHANGED result

mark_verifier_aborted(o, a) ==
    /\ approval_locator(o, a, "approved")
    /\ status[o] = "resuming"
    /\ transition(o, "aborted", "verification_aborted", a)
    /\ expires' = [expires EXCEPT ![o] = NoValue]
    /\ UNCHANGED <<snapshot, cycle, result>>

mark_executing(o, a) ==
    /\ approval_locator(o, a, "approved")
    /\ status[o] = "resuming"
    /\ transition(o, "executing", "execution_started", a)
    /\ UNCHANGED <<snapshot, cycle, expires, result>>

mark_verifying(o, w) ==
    /\ work_order_locator(o, w)
    /\ status[o] = "executing"
    /\ transition(o, "verifying", "verification_started", w)
    /\ UNCHANGED <<snapshot, cycle, expires, result>>

mark_completed(o, w) ==
    /\ work_order_locator(o, w)
    /\ status[o] = "verifying"
    /\ transition(o, "completed", "operation_completed", [outcome |-> "work_order_completed"])
    /\ result' = [result EXCEPT ![o] = [outcome |-> "work_order_completed"]]
    /\ UNCHANGED <<snapshot, cycle, expires>>

mark_rejected(o, a) ==
    /\ approval_locator(o, a, "rejected")
    /\ status[o] = "resuming"
    /\ transition(o, "rejected", "operation_rejected", a)
    /\ UNCHANGED <<snapshot, cycle, expires, result>>

complete_without_replenishment(o, outcome) ==
    /\ outcome \in NoActionOutcomes
    /\ status[o] = "reporting"
    /\ transition(o, "completed", "operation_completed", [outcome |-> outcome])
    /\ result' = [result EXCEPT ![o] = [outcome |-> outcome]]
    /\ UNCHANGED <<snapshot, cycle, expires>>

\* Mutant: a late failure overwrites another terminal status.
mutant_failed_from_any(o, error) ==
    /\ status[o] \notin {"absent", "failed"}
    /\ transition(o, "failed", "operation_failed", error)
    /\ result' = [result EXCEPT ![o] = [error |-> error]]
    /\ UNCHANGED <<snapshot, cycle, expires>>

mark_failed(o, error) ==
    /\ status[o] \in Active
    /\ transition(o, "failed", "operation_failed", error)
    /\ result' = [result EXCEPT ![o] = [error |-> error]]
    /\ UNCHANGED <<snapshot, cycle, expires>>

\* Mutant: the signal is not updated with the operation.
mutant_mark_expired(o, t) ==
    /\ expires[o] # NoValue
    /\ t >= expires[o]
    /\ status[o] \in AwaitingDecision
    /\ status' = [status EXCEPT ![o] = "expired"]
    /\ append_event(o, "approval_expired", [deadline |-> expires[o]])
    /\ UNCHANGED <<request, snapshot, cycle, expires, result, approvals, workOrders, signals, now>>

\* Also the body of ApprovalExpiryService.expire_due for one due operation;
\* t is the clock reading taken before the transaction.
mark_expired(o, t) ==
    /\ expires[o] # NoValue
    /\ t >= expires[o]
    /\ status[o] \in AwaitingDecision
    /\ transition(o, "expired", "approval_expired", [deadline |-> expires[o]])
    /\ UNCHANGED <<snapshot, cycle, expires, result>>

-----------------------------------------------------------------------------
(* ApprovalRepository.submit_bound_once: one action per branch that writes *)

\* Mutant: only a terminal operation refuses a decision.
mutant_decision_open_while_active(o) == status[o] \in Active /\ expires[o] # NoValue

decision_open(o) ==
    /\ status[o] \in AwaitingDecision
    /\ ~ \E a \in approvals : a.op = o /\ a.cycle = cycle[o]
    /\ expires[o] # NoValue

\* _current_binding: the stored binding must be the one the snapshot derives.
current_binding_valid(o) ==
    snapshot[o].binding # NoValue /\ binding_matches_snapshot(snapshot[o], snapshot[o].binding)

\* The deadline has passed: the operation expires.  This branch writes the
\* operation and its event only; it does not touch operational_signals.
submit_bound_once_expired(o, t) ==
    /\ decision_open(o)
    /\ t >= expires[o]
    /\ status' = [status EXCEPT ![o] = "expired"]
    /\ append_event(o, "approval_expired", [deadline |-> expires[o]])
    /\ UNCHANGED <<request, snapshot, cycle, expires, result, approvals, workOrders,
                   signals, now>>

\* Mutant: a decision at the deadline itself is still accepted.
mutant_submit_at_deadline(o, approver, decision, expected, t) ==
    LET a == [op |-> o, cycle |-> cycle[o], approver |-> approver,
              decision |-> decision, binding |-> expected, at |-> t]
    IN  /\ decision_open(o)
        /\ t <= expires[o]
        /\ current_binding_valid(o)
        /\ expected = snapshot[o].binding
        /\ approvals' = approvals \cup {a}
        /\ status' = [status EXCEPT ![o] = "resuming"]
        /\ append_event(o, "approval_recorded", a)
        /\ UNCHANGED <<request, snapshot, cycle, expires, result, workOrders, signals, now>>

submit_bound_once(o, approver, decision, expected, t) ==
    LET a == [op |-> o, cycle |-> cycle[o], approver |-> approver,
              decision |-> decision, binding |-> expected, at |-> t]
    IN  /\ decision_open(o)
        /\ t < expires[o]
        /\ current_binding_valid(o)
        /\ expected = snapshot[o].binding
        /\ approvals' = approvals \cup {a}
        /\ status' = [status EXCEPT ![o] = "resuming"]
        /\ append_event(o, "approval_recorded", a)
        /\ UNCHANGED <<request, snapshot, cycle, expires, result, workOrders, signals, now>>

-----------------------------------------------------------------------------
(* WorkOrderRepository.create_or_get *)

work_order_of(o) == {w \in workOrders : w.op = o}

\* Mutant: any approval the operation ever had authorizes the write.
mutant_any_cycle_authorizes(o) ==
    /\ \E a \in approvals : a.op = o /\ a.decision = "approved"
    /\ status[o] \in {"resuming", "executing", "verifying"}

write_authorized(o) ==
    /\ \E a \in approvals : a.op = o /\ a.cycle = cycle[o] /\ a.decision = "approved"
    /\ status[o] \in {"resuming", "executing", "verifying"}

\* The call returns the row of the operation's idempotency key when it has
\* the same payload hash; a different payload raises IdempotencyConflict.
create_or_get_replayed(o, payload) == \E w \in work_order_of(o) : w.payload = payload

\* Mutant: the insert is not audited.
mutant_create_silently(o, payload) ==
    /\ work_order_of(o) = {}
    /\ write_authorized(o)
    /\ workOrders' = workOrders \cup {[op |-> o, payload |-> payload]}
    /\ UNCHANGED <<opVars, approvals, signals, now>>

create_or_get(o, payload) ==
    /\ work_order_of(o) = {}
    /\ write_authorized(o)
    /\ workOrders' = workOrders \cup {[op |-> o, payload |-> payload]}
    /\ append_event(o, "work_order_created", payload)
    /\ UNCHANGED <<status, request, snapshot, cycle, expires, result, approvals, signals, now>>

-----------------------------------------------------------------------------
(* ReplenishmentOperationRepository.load_detail, the read that the API and   *)
(* the recovery build on                                                   *)

\* _terminal_payloads: the result and the work order that a status may have.
terminal_payloads_valid(o) ==
    CASE status[o] = "completed" ->
            /\ result[o] \in Outcomes
            /\ result[o].outcome = "work_order_completed" <=> work_order_of(o) # {}
      [] status[o] = "failed" -> result[o] \in [error : Errors]
      [] status[o] \in {"rejected", "aborted", "expired"} ->
            result[o] = NoValue /\ work_order_of(o) = {}
      [] OTHER -> result[o] = NoValue

\* The approval of the current cycle, as load_detail selects it.
detail_approval(o) == {a \in approvals : a.op = o /\ a.cycle = cycle[o]}

\* _approval_view: an approval must carry the binding of the snapshot.
approval_view_valid(o) ==
    \A a \in detail_approval(o) : a.binding = snapshot[o].binding

\* load_detail returns; otherwise it raises RecoveryStateConflict.
load_detail_succeeds(o) == terminal_payloads_valid(o) /\ approval_view_valid(o)

-----------------------------------------------------------------------------
(* SignalRepository *)

\* A scan inserts a draft unless its dedup key exists (ON CONFLICT DO NOTHING).
upsert_detected(s, d) ==
    /\ signals[s].status = "absent"
    /\ ~ \E r \in Signals : /\ signals[r].status # "absent"
                            /\ signals[r].draft = d
                            /\ signals[r].pred = NoValue
    /\ signals' = [signals EXCEPT ![s] =
                      [status |-> "open", draft |-> d, op |-> NoValue, pred |-> NoValue]]
    /\ UNCHANGED <<opVars, approvals, workOrders, now>>

has_successor(p) == \E r \in Signals : signals[r].status # "absent" /\ signals[r].pred = p

\* Mutant: every retry inserts a successor.
mutant_successor_per_retry(s, p) ==
    /\ signals[p].status = "attention_required"
    /\ signals[s].status = "absent"
    /\ signals' = [signals EXCEPT ![s] =
                      [status |-> "open", draft |-> signals[p].draft,
                       op |-> NoValue, pred |-> p]]
    /\ UNCHANGED <<opVars, approvals, workOrders, now>>

\* A retry of a signal that needs attention: the first one inserts the
\* successor, later ones return it.
create_successor(s, p) ==
    /\ signals[p].status = "attention_required"
    /\ ~ has_successor(p)
    /\ signals[s].status = "absent"
    /\ signals' = [signals EXCEPT ![s] =
                      [status |-> "open", draft |-> signals[p].draft,
                       op |-> NoValue, pred |-> p]]
    /\ UNCHANGED <<opVars, approvals, workOrders, now>>

terminal_link(s) == signals[s].op # NoValue /\ status[signals[s].op] \in Terminal

\* Startup repair of the signals whose operation is terminal.
reconcile_terminal_links ==
    /\ signals' = [s \in Signals |->
                      IF terminal_link(s)
                      THEN [signals[s] EXCEPT !.status =
                               signal_status_for_operation_terminal(status[signals[s].op])]
                      ELSE signals[s]]
    /\ UNCHANGED <<opVars, approvals, workOrders, now>>

-----------------------------------------------------------------------------
Tick == now < MaxTime /\ now' = now + 1 /\ UNCHANGED <<opVars, approvals, workOrders, signals>>

Init ==
    /\ status = [o \in Operations |-> "absent"]
    /\ request = [o \in Operations |-> NoValue]
    /\ snapshot = [o \in Operations |-> EmptySnapshot]
    /\ cycle = [o \in Operations |-> 0]
    /\ expires = [o \in Operations |-> NoValue]
    /\ result = [o \in Operations |-> NoValue]
    /\ auditSeq = [o \in Operations |-> 0]
    /\ audit = [o \in Operations |-> <<>>]
    /\ approvals = {}
    /\ workOrders = {}
    /\ signals = [s \in Signals |-> AbsentSignal]
    /\ now = 0

\* The transactions of an investigation, before any approval.
InvestigationNext(o) ==
    \/ \E req \in Requests : create(o, req)
    \/ mark_gathering_evidence(o)
    \/ \E b \in Bundles : record_evidence(o, b)
    \/ \E b \in Bundles, p \in Plans \cup {NoValue} : record_validated_plan(o, b, p)
    \/ \E b \in Bundles : record_query_assessment(o, b)
    \/ mark_reporting(o)
    \/ \E outcome \in NoActionOutcomes : complete_without_replenishment(o, outcome)

\* The transactions around a decision; d is a deadline the caller computed.
DecisionNext(o) ==
    \/ \E b \in Bindings, d \in 1..MaxDeadline : mark_awaiting_approval(o, b, d)
    \/ \E t \in 0..now : mark_expired(o, t)
    \/ \E t \in 0..now : submit_bound_once_expired(o, t)
    \/ \E r \in Approvers, d \in Decisions, b \in Bindings, t \in 0..now :
            submit_bound_once(o, r, d, b, t)
    \/ \E a \in approvals : mark_rejected(o, a)
    \/ \E a \in approvals : mark_verifier_aborted(o, a)
    \/ \E a \in approvals, b \in Bundles, p \in Plans, g \in Bindings, d \in 1..MaxDeadline :
            mark_needs_reapproval(o, a, b, p, g, d)

\* The transactions of the controlled write.
ExecutionNext(o) ==
    \/ \E a \in approvals : mark_executing(o, a)
    \/ \E p \in Plans : create_or_get(o, p)
    \/ \E w \in workOrders : mark_verifying(o, w)
    \/ \E w \in workOrders : mark_completed(o, w)
    \/ \E e \in Errors : mark_failed(o, e)

SignalNext ==
    \/ \E s \in Signals, d \in Drafts : upsert_detected(s, d)
    \/ \E s, p \in Signals : create_successor(s, p)
    \/ reconcile_terminal_links

Next ==
    \/ \E o \in Operations : InvestigationNext(o) \/ DecisionNext(o) \/ ExecutionNext(o)
    \/ SignalNext
    \/ Tick

Spec == Init /\ [][Next]_storeVars

-----------------------------------------------------------------------------
(* Properties *)

\* Every column holds a value of its type, and every result and event has the
\* shape its readers (load_detail, the event stream) parse.
TypeOK ==
    /\ status \in [Operations -> Statuses \cup {"absent"}]
    /\ request \in [Operations -> Requests \cup {NoValue}]
    /\ snapshot \in [Operations -> Snapshots]
    /\ cycle \in [Operations -> Nat]
    /\ expires \in [Operations -> Nat \cup {NoValue}]
    /\ result \in [Operations -> Results]
    /\ auditSeq \in [Operations -> Nat]
    /\ audit \in [Operations -> Seq(Events)]
    /\ approvals \subseteq ApprovalRows
    /\ workOrders \subseteq WorkOrderRows
    /\ signals \in [Signals -> SignalRows]
    /\ now \in Nat

current_approval(o, a) == a \in approvals /\ a.op = o /\ a.cycle = cycle[o]

\* However many approvers submit, and however often, an approval cycle has at
\* most one decision, and no decision belongs to a cycle that was never opened.
OneDecisionPerCycle ==
    /\ \A a, b \in approvals : a.op = b.op /\ a.cycle = b.cycle => a = b
    /\ \A a \in approvals : a.cycle \in 1..cycle[a.op]

\* The decision of the current cycle is about exactly the evidence and plan
\* stored in the operation: facts that change after a decision open a new
\* cycle, they never slip under the old decision.
DecisionBindsSnapshot ==
    \A o \in Operations :
        /\ snapshot[o].binding # NoValue =>
               snapshot[o].binding = build_approval_binding(snapshot[o].evidence, snapshot[o].plan)
        /\ \A a \in approvals : current_approval(o, a) => a.binding = snapshot[o].binding

\* The deadline separates a decision from an expiry: a decision was taken
\* before the deadline of its cycle, and an operation that expired has no
\* decision in the cycle that expired.
DeadlineDecides ==
    \A o \in Operations, a \in approvals : current_approval(o, a) =>
        /\ expires[o] # NoValue => a.at < expires[o]
        /\ status[o] # "expired"

\* The approval cycle moves with the status: no cycle is open during the
\* investigation, an operation that waits for a decision has none yet in its
\* current cycle, and one that resumes has it.
CycleFollowsStatus ==
    \A o \in Operations :
        /\ status[o] \in Investigating => cycle[o] = 0 /\ snapshot[o].binding = NoValue
        /\ status[o] \in AwaitingDecision =>
               cycle[o] > 0 /\ ~ \E a \in approvals : current_approval(o, a)
        /\ status[o] = "resuming" => \E a \in approvals : current_approval(o, a)

\* An operation in a status that follows a decision has that decision in its
\* current cycle: it cannot execute, verify or abort without an approval, be
\* rejected without a rejection, or complete with a work order that is missing.
ExecutionIsBacked ==
    \A o \in Operations :
        /\ status[o] \in {"executing", "verifying", "aborted"} =>
               \E a \in approvals : current_approval(o, a) /\ a.decision = "approved"
        /\ status[o] = "rejected" =>
               \E a \in approvals : current_approval(o, a) /\ a.decision = "rejected"
        /\ status[o] = "verifying" => work_order_of(o) # {}
        /\ status[o] = "completed" /\ cycle[o] > 0 =>
               /\ \E a \in approvals : current_approval(o, a) /\ a.decision = "approved"
               /\ \E w \in workOrders : w.op = o

\* A work order is written once per operation, and only under an approval
\* that no later request for re-approval has withdrawn.
WriteFollowsApproval ==
    \A o \in Operations :
        /\ \A v, w \in work_order_of(o) : v = w
        /\ \A i \in 1..Len(audit[o]) : audit[o][i].type = "work_order_created" =>
            \E j \in 1..(i - 1) :
                /\ audit[o][j].type = "approval_recorded"
                /\ audit[o][j].payload.decision = "approved"
                /\ \A k \in j+1..(i - 1) :
                    audit[o][k].type \notin {"approval_recorded", "reapproval_requested"}

status_event(e) == e.type \in DOMAIN StatusAfter

recorded(o, type) == {audit[o][i].payload : i \in {j \in 1..Len(audit[o]) : audit[o][j].type = type}}

\* The audit trail has no gap and no duplicate sequence number, so a client
\* that resumes the event stream after number n misses nothing; the last
\* status event tells the status of the operation; and the trail accounts for
\* every approval and every work order, and claims none that is not in its
\* table.
AuditExplainsRow ==
    \A o \in Operations :
        /\ auditSeq[o] = Len(audit[o])
        /\ \A i \in 1..Len(audit[o]) : audit[o][i].seq = i
        /\ status[o] = "absent" <=> audit[o] = <<>>
        /\ \A i \in 1..Len(audit[o]) :
            (/\ status_event(audit[o][i])
             /\ \A j \in i+1..Len(audit[o]) : ~ status_event(audit[o][j]))
                => status[o] = StatusAfter[audit[o][i].type]
        /\ {a \in approvals : a.op = o} = recorded(o, "approval_recorded")
        /\ {w.payload : w \in work_order_of(o)} = recorded(o, "work_order_created")

\* A terminal operation is frozen: whatever late, duplicated or retried call
\* reaches the store, its row, events, approvals and work orders stay.
TerminalIsFinal ==
    [][\A o \in Operations : status[o] \in Terminal =>
            /\ status'[o] = status[o]
            /\ snapshot'[o] = snapshot[o]
            /\ result'[o] = result[o]
            /\ cycle'[o] = cycle[o]
            /\ audit'[o] = audit[o]
            /\ {a \in approvals' : a.op = o} = {a \in approvals : a.op = o}
            /\ {w \in workOrders' : w.op = o} = {w \in workOrders : w.op = o}]_storeVars

\* A signal is claimed by at most one operation, the one that was requested
\* for it and for its object, and keeps it.
SignalClaim ==
    \A s \in Signals :
        /\ \A o \in Operations : signals[s].op = o <=> request[o] # NoValue /\ request[o].signal = s
        /\ signals[s].op # NoValue => request[signals[s].op].object = ObjectOf[signals[s].draft]
        /\ signals[s].op = NoValue <=> signals[s].status \in {"absent", "open"}

\* A signal and the status of the operation that claimed it.
follows(s) ==
    signals[s].op # NoValue =>
        LET st == status[signals[s].op] IN
        \/ signals[s].status = "investigating" /\ st \in Active
        \/ signals[s].status = "resolved" /\ st \in {"completed", "rejected"}
        \/ signals[s].status = "attention_required" /\ st \in {"aborted", "expired", "failed"}
left_behind(s) ==
    /\ signals[s].op # NoValue /\ status[signals[s].op] = "expired"
    /\ signals[s].status = "investigating"

\* A signal leaves the inbox in the very transaction that ends its operation,
\* and with the status that end calls for.  Only the transaction of a decision
\* that comes too late ends the operation without its signal, and until the
\* next startup's repair nothing else about that signal goes wrong.
SignalFollowsOperation ==
    [][\A s \in Signals :
        follows(s)' \/ /\ left_behind(s)'
                       /\ \/ left_behind(s)
                          \/ \E t \in 0..now : submit_bound_once_expired(signals[s].op, t)]_storeVars

\* Retries form chains: a detected condition has one first signal, a signal
\* has at most one successor, about the same condition, and only once it
\* needs attention; nothing settles it afterwards.
SignalLineage ==
    \A r, s \in Signals :
        /\ /\ signals[r].status # "absent"
           /\ signals[s].status # "absent"
           /\ signals[r].pred = signals[s].pred
           /\ signals[r].pred = NoValue => signals[r].draft = signals[s].draft
           => r = s
        /\ signals[s].pred = r =>
               signals[r].status = "attention_required" /\ signals[r].draft = signals[s].draft

\* The promise of an operation, read off the tables: the plan of the stored
\* binding, the decision of the current cycle and the work order.
proposed_plan == [o \in Operations |->
    IF snapshot[o].binding = NoValue THEN NoValue ELSE snapshot[o].binding.plan]
decision_in_force == [o \in Operations |->
    IF detail_approval(o) = {} THEN "none" ELSE (CHOOSE a \in detail_approval(o) : TRUE).decision]
written_plan == [o \in Operations |->
    IF work_order_of(o) = {} THEN NoValue ELSE (CHOOSE w \in work_order_of(o) : TRUE).payload]

Promise == INSTANCE ApprovedWrite WITH
    proposed <- proposed_plan, decision <- decision_in_force, written <- written_plan,
    closed <- {o \in Operations : status[o] \in Terminal}

\* An approval that was given to this operation, in this or an earlier cycle.
approval_of(o, binding) ==
    \E a \in approvals : a.op = o /\ a.decision = "approved" /\ a.binding = binding

\* In the operations of S a write may also be of a plan that was approved in
\* an earlier cycle.
WritesEarlierPlan(S) ==
    \E o \in S, a \in approvals :
        a.op = o /\ a.decision = "approved" /\ Promise!Write(o, a.binding.plan)
=============================================================================
