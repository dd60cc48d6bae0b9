------------------------ MODULE OperationStoreProofs ------------------------
(***************************************************************************)
(* Theorems about OperationStore, for every set of operations, signals,    *)
(* evidence bundles, plans and approvers and every client of the store.    *)
(* Behind them are the lemmas that the proofs about the graphs share: how  *)
(* a transaction moves one operation, and that the rows keep the promise   *)
(* of ApprovedWrite.                                                       *)
(***************************************************************************)
EXTENDS OperationStore, TLAPS

-----------------------------------------------------------------------------
(* Type correctness *)

\* append_event keeps the audit trail well formed.
LEMMA AppendEventType ==
    ASSUME auditSeq \in [Operations -> Nat], audit \in [Operations -> Seq(Events)],
           NEW o \in Operations, NEW type \in EventTypes, NEW payload \in Payloads,
           append_event(o, type, payload)
    PROVE  /\ auditSeq' \in [Operations -> Nat]
           /\ audit' \in [Operations -> Seq(Events)]
<1> DEFINE e == [seq |-> auditSeq[o] + 1, type |-> type, payload |-> payload]
<1>1. e \in Events
  BY DEF Events
<1>2. Append(audit[o], e) \in Seq(Events)
  BY <1>1
<1> QED
  BY <1>2 DEF append_event

\* update_linked_signal gives a signal one of its own statuses.
LEMMA UpdateLinkedSignalType ==
    ASSUME signals \in [Signals -> SignalRows], NEW o, NEW target,
           update_linked_signal(o, target)
    PROVE  signals' \in [Signals -> SignalRows]
BY DEF update_linked_signal, signal_status_for_operation_terminal, SignalRows, SignalStatuses

\* What every use of _transition preserves.
LEMMA TransitionType ==
    ASSUME TypeOK, NEW o \in Operations, NEW target \in Statuses,
           NEW type \in EventTypes, NEW payload \in Payloads,
           transition(o, target, type, payload)
    PROVE  /\ status' \in [Operations -> Statuses \cup {"absent"}]
           /\ request' \in [Operations -> Requests \cup {NoValue}]
           /\ auditSeq' \in [Operations -> Nat]
           /\ audit' \in [Operations -> Seq(Events)]
           /\ approvals' \subseteq ApprovalRows
           /\ workOrders' \subseteq WorkOrderRows
           /\ signals' \in [Signals -> SignalRows]
           /\ now' \in Nat
<1>1. signals' \in [Signals -> SignalRows]
  BY UpdateLinkedSignalType DEF transition, TypeOK
<1>2. auditSeq' \in [Operations -> Nat] /\ audit' \in [Operations -> Seq(Events)]
  BY AppendEventType DEF transition, TypeOK
<1> QED
  BY <1>1, <1>2 DEF transition, TypeOK

\* Every event type that a transaction writes is an event type.
LEMMA EventTypeNames ==
    EventTypes = {"operation_received", "evidence_gathering_started", "evidence_recorded",
                  "plan_validated", "query_assessed", "reporting_started",
                  "approval_requested", "approval_recorded", "reapproval_requested",
                  "verification_aborted", "approval_expired", "execution_started",
                  "verification_started", "operation_completed", "operation_rejected",
                  "operation_failed", "work_order_created"}
BY DEF EventTypes, StatusAfter

\* The initial state is well typed.
LEMMA InitType == Init => TypeOK
BY StoreAssumption DEF Init, TypeOK, EmptySnapshot, Snapshots, AbsentSignal, SignalRows,
    Results, Statuses, Requests

\* Every transaction of an investigation preserves the types.
LEMMA InvestigationType ==
    ASSUME TypeOK, NEW o \in Operations, InvestigationNext(o)
    PROVE  TypeOK'
<1> USE EventTypeNames DEF Statuses, Active, Terminal
<1>1. CASE \E req \in Requests : create(o, req)
  <2>1. PICK req \in Requests : create(o, req)
    BY <1>1
  <2>2. req \in Payloads
    BY DEF Payloads
  <2>3. auditSeq' \in [Operations -> Nat] /\ audit' \in [Operations -> Seq(Events)]
    BY <2>1, <2>2, AppendEventType DEF create, TypeOK
  <2>4. signals' \in [Signals -> SignalRows]
    <3>1. CASE req.signal = NoValue
      BY <2>1, <3>1 DEF create, TypeOK
    <3>2. CASE req.signal \in Signals
      <4>1. req.signal # NoValue
        BY <3>2, StoreAssumption
      <4>2. signals' = [signals EXCEPT ![req.signal].status = "investigating",
                                       ![req.signal].op = o]
        BY <2>1, <4>1 DEF create
      <4>3. signals[req.signal] \in SignalRows
        BY <3>2 DEF TypeOK
      <4>4. [[signals[req.signal] EXCEPT !.status = "investigating"] EXCEPT !.op = o] \in SignalRows
        BY <4>3 DEF SignalRows, SignalStatuses
      <4> QED
        BY <3>2, <4>2, <4>4 DEF TypeOK
    <3> QED
      BY <3>1, <3>2 DEF Requests
  <2> QED
    BY <2>1, <2>3, <2>4 DEF create, TypeOK
<1>2. CASE mark_gathering_evidence(o)
  <2>1. NoValue \in Payloads
    BY DEF Payloads
  <2> QED
    BY <1>2, <2>1, TransitionType DEF mark_gathering_evidence, TypeOK
<1>3. CASE \E b \in Bundles : record_evidence(o, b)
  <2>1. PICK b \in Bundles : record_evidence(o, b)
    BY <1>3
  <2>2. b \in Payloads
    BY DEF Payloads
  <2>3. snapshot' \in [Operations -> Snapshots]
    BY <2>1 DEF record_evidence, TypeOK, Snapshots
  <2> QED
    BY <2>1, <2>2, <2>3, TransitionType DEF record_evidence, TypeOK
<1>4. CASE \E b \in Bundles, p \in Plans \cup {NoValue} : record_validated_plan(o, b, p)
  <2>1. PICK b \in Bundles, p \in Plans \cup {NoValue} : record_validated_plan(o, b, p)
    BY <1>4
  <2>2. b \in Payloads
    BY DEF Payloads
  <2>3. snapshot' \in [Operations -> Snapshots]
    BY <2>1 DEF record_validated_plan, TypeOK, Snapshots
  <2> QED
    BY <2>1, <2>2, <2>3, TransitionType DEF record_validated_plan, TypeOK
<1>5. CASE \E b \in Bundles : record_query_assessment(o, b)
  <2>1. PICK b \in Bundles : record_query_assessment(o, b)
    BY <1>5
  <2>2. b \in Payloads
    BY DEF Payloads
  <2>3. snapshot' \in [Operations -> Snapshots]
    BY <2>1 DEF record_query_assessment, TypeOK, Snapshots
  <2> QED
    BY <2>1, <2>2, <2>3, TransitionType DEF record_query_assessment, TypeOK
<1>6. CASE mark_reporting(o)
  <2>1. NoValue \in Payloads
    BY DEF Payloads
  <2> QED
    BY <1>6, <2>1, TransitionType DEF mark_reporting, TypeOK
<1>7. CASE \E outcome \in NoActionOutcomes : complete_without_replenishment(o, outcome)
  <2>1. PICK outcome \in NoActionOutcomes : complete_without_replenishment(o, outcome)
    BY <1>7
  <2>2. [outcome |-> outcome] \in Payloads
    BY DEF Payloads, Outcomes
  <2>3. result' \in [Operations -> Results]
    BY <2>1 DEF complete_without_replenishment, TypeOK, Results, Outcomes
  <2> QED
    BY <2>1, <2>2, <2>3, TransitionType DEF complete_without_replenishment, TypeOK
<1> QED
  BY <1>1, <1>2, <1>3, <1>4, <1>5, <1>6, <1>7 DEF InvestigationNext

\* Every transaction around a decision preserves the types.
LEMMA DecisionType ==
    ASSUME TypeOK, NEW o \in Operations, DecisionNext(o)
    PROVE  TypeOK'
<1> USE EventTypeNames DEF Statuses, Active, Terminal
<1>1. CASE \E b \in Bindings, d \in 1..MaxDeadline : mark_awaiting_approval(o, b, d)
  <2>1. PICK b \in Bindings, d \in 1..MaxDeadline : mark_awaiting_approval(o, b, d)
    BY <1>1
  <2>2. d \in Nat
    BY StoreAssumption
  <2>3. [binding |-> b, deadline |-> d] \in Payloads
    BY <2>2 DEF Payloads
  <2>4. snapshot' \in [Operations -> Snapshots]
    BY <2>1 DEF mark_awaiting_approval, TypeOK, Snapshots
  <2>5. /\ expires' \in [Operations -> Nat \cup {NoValue}]
        /\ cycle' \in [Operations -> Nat]
        /\ result' \in [Operations -> Results]
    BY <2>1, <2>2 DEF mark_awaiting_approval, TypeOK
  <2> QED
    BY <2>1, <2>3, <2>4, <2>5, TransitionType DEF mark_awaiting_approval, TypeOK
<1>2. CASE \E t \in 0..now : mark_expired(o, t)
  <2>1. PICK t \in 0..now : mark_expired(o, t)
    BY <1>2
  <2>2. [deadline |-> expires[o]] \in Payloads
    BY <2>1 DEF mark_expired, Payloads, TypeOK
  <2> QED
    BY <2>1, <2>2, TransitionType DEF mark_expired, TypeOK
<1>3. CASE \E t \in 0..now : submit_bound_once_expired(o, t)
  <2>1. PICK t \in 0..now : submit_bound_once_expired(o, t)
    BY <1>3
  <2>2. [deadline |-> expires[o]] \in Payloads
    BY <2>1 DEF submit_bound_once_expired, decision_open, Payloads, TypeOK
  <2>3. auditSeq' \in [Operations -> Nat] /\ audit' \in [Operations -> Seq(Events)]
    BY <2>1, <2>2, AppendEventType DEF submit_bound_once_expired, TypeOK
  <2> QED
    BY <2>1, <2>3 DEF submit_bound_once_expired, TypeOK
<1>4. CASE \E r \in Approvers, d \in Decisions, b \in Bindings, t \in 0..now :
               submit_bound_once(o, r, d, b, t)
  <2>1. PICK r \in Approvers, d \in Decisions, b \in Bindings, t \in 0..now :
               submit_bound_once(o, r, d, b, t)
    BY <1>4
  <2> DEFINE a == [op |-> o, cycle |-> cycle[o], approver |-> r,
                   decision |-> d, binding |-> b, at |-> t]
  <2>2. a \in ApprovalRows
    BY DEF ApprovalRows, TypeOK
  <2>3. a \in Payloads
    BY <2>2 DEF Payloads
  <2>4. auditSeq' \in [Operations -> Nat] /\ audit' \in [Operations -> Seq(Events)]
    BY <2>1, <2>3, AppendEventType DEF submit_bound_once, TypeOK
  <2> QED
    BY <2>1, <2>2, <2>4 DEF submit_bound_once, TypeOK
<1>5. CASE \E a \in approvals : mark_rejected(o, a)
  <2>1. PICK a \in approvals : mark_rejected(o, a)
    BY <1>5
  <2>2. a \in Payloads
    BY DEF Payloads, TypeOK
  <2> QED
    BY <2>1, <2>2, TransitionType DEF mark_rejected, TypeOK
<1>6. CASE \E a \in approvals : mark_verifier_aborted(o, a)
  <2>1. PICK a \in approvals : mark_verifier_aborted(o, a)
    BY <1>6
  <2>2. a \in Payloads
    BY DEF Payloads, TypeOK
  <2>3. /\ expires' \in [Operations -> Nat \cup {NoValue}]
        /\ snapshot' = snapshot /\ cycle' = cycle /\ result' = result
    BY <2>1 DEF mark_verifier_aborted, TypeOK
  <2> QED
    BY <2>1, <2>2, <2>3, TransitionType DEF mark_verifier_aborted, TypeOK
<1>7. CASE \E a \in approvals, b \in Bundles, p \in Plans, g \in Bindings, d \in 1..MaxDeadline :
               mark_needs_reapproval(o, a, b, p, g, d)
  <2>1. PICK a \in approvals, b \in Bundles, p \in Plans, g \in Bindings, d \in 1..MaxDeadline :
               mark_needs_reapproval(o, a, b, p, g, d)
    BY <1>7
  <2>2. a \in ApprovalRows /\ d \in Nat
    BY StoreAssumption DEF TypeOK
  <2>3. [approval |-> a, binding |-> g] \in Payloads
    BY <2>2 DEF Payloads
  <2>4. snapshot' \in [Operations -> Snapshots]
    BY <2>1 DEF mark_needs_reapproval, TypeOK, Snapshots
  <2>5. /\ expires' \in [Operations -> Nat \cup {NoValue}]
        /\ cycle' \in [Operations -> Nat]
        /\ result' \in [Operations -> Results]
    BY <2>1, <2>2 DEF mark_needs_reapproval, TypeOK
  <2> QED
    BY <2>1, <2>3, <2>4, <2>5, TransitionType DEF mark_needs_reapproval, TypeOK
<1> QED
  BY <1>1, <1>2, <1>3, <1>4, <1>5, <1>6, <1>7 DEF DecisionNext

\* Every transaction of the controlled write preserves the types.
LEMMA ExecutionType ==
    ASSUME TypeOK, NEW o \in Operations, ExecutionNext(o)
    PROVE  TypeOK'
<1> USE EventTypeNames DEF Statuses, Active, Terminal
<1>1. CASE \E a \in approvals : mark_executing(o, a)
  <2>1. PICK a \in approvals : mark_executing(o, a)
    BY <1>1
  <2>2. a \in Payloads
    BY DEF Payloads, TypeOK
  <2> QED
    BY <2>1, <2>2, TransitionType DEF mark_executing, TypeOK
<1>2. CASE \E p \in Plans : create_or_get(o, p)
  <2>1. PICK p \in Plans : create_or_get(o, p)
    BY <1>2
  <2>2. p \in Payloads /\ [op |-> o, payload |-> p] \in WorkOrderRows
    BY DEF Payloads, WorkOrderRows
  <2>3. auditSeq' \in [Operations -> Nat] /\ audit' \in [Operations -> Seq(Events)]
    BY <2>1, <2>2, AppendEventType DEF create_or_get, TypeOK
  <2> QED
    BY <2>1, <2>2, <2>3 DEF create_or_get, TypeOK
<1>3. CASE \E w \in workOrders : mark_verifying(o, w)
  <2>1. PICK w \in workOrders : mark_verifying(o, w)
    BY <1>3
  <2>2. w \in Payloads
    BY DEF Payloads, TypeOK
  <2> QED
    BY <2>1, <2>2, TransitionType DEF mark_verifying, TypeOK
<1>4. CASE \E w \in workOrders : mark_completed(o, w)
  <2>1. PICK w \in workOrders : mark_completed(o, w)
    BY <1>4
  <2>2. [outcome |-> "work_order_completed"] \in Payloads
    BY DEF Payloads, Outcomes
  <2>3. result' \in [Operations -> Results]
    BY <2>1 DEF mark_completed, TypeOK, Results, Outcomes
  <2> QED
    BY <2>1, <2>2, <2>3, TransitionType DEF mark_completed, TypeOK
<1>5. CASE \E e \in Errors : mark_failed(o, e)
  <2>1. PICK e \in Errors : mark_failed(o, e)
    BY <1>5
  <2>2. e \in Payloads
    BY DEF Payloads
  <2>3. result' \in [Operations -> Results]
    BY <2>1 DEF mark_failed, TypeOK, Results
  <2> QED
    BY <2>1, <2>2, <2>3, TransitionType DEF mark_failed, TypeOK
<1> QED
  BY <1>1, <1>2, <1>3, <1>4, <1>5 DEF ExecutionNext

\* The signal transactions preserve the types.
LEMMA SignalType ==
    ASSUME TypeOK, SignalNext
    PROVE  TypeOK'
<1>1. signals' \in [Signals -> SignalRows]
  <2>1. CASE \E s \in Signals, d \in Drafts : upsert_detected(s, d)
    BY <2>1 DEF upsert_detected, TypeOK, SignalRows, SignalStatuses
  <2>2. CASE \E s, p \in Signals : create_successor(s, p)
    BY <2>2 DEF create_successor, TypeOK, SignalRows, SignalStatuses
  <2>3. CASE reconcile_terminal_links
    <3>1. \A s \in Signals :
             [signals[s] EXCEPT !.status =
                 signal_status_for_operation_terminal(status[signals[s].op])] \in SignalRows
      BY DEF signal_status_for_operation_terminal, TypeOK, SignalRows, SignalStatuses
    <3> QED
      BY <2>3, <3>1 DEF reconcile_terminal_links, TypeOK
  <2> QED
    BY <2>1, <2>2, <2>3 DEF SignalNext
<1>2. UNCHANGED <<opVars, approvals, workOrders, now>>
  BY DEF SignalNext, upsert_detected, create_successor, reconcile_terminal_links
<1> QED
  BY <1>1, <1>2 DEF TypeOK, opVars

\* Every step of the store preserves the types.
LEMMA NextType ==
    ASSUME TypeOK, [Next]_storeVars
    PROVE  TypeOK'
<1>1. CASE UNCHANGED storeVars
  BY <1>1 DEF storeVars, opVars, TypeOK
<1>2. CASE Tick
  BY <1>2 DEF Tick, opVars, TypeOK
<1> QED
  BY <1>1, <1>2, InvestigationType, DecisionType, ExecutionType, SignalType DEF Next

\* Whatever calls reach the store, every row keeps its type.
THEOREM StoreTypes == Spec => []TypeOK
<1>1. Init => TypeOK
  BY InitType
<1>2. TypeOK /\ [Next]_storeVars => TypeOK'
  BY NextType
<1> QED
  BY <1>1, <1>2, PTL DEF Spec

-----------------------------------------------------------------------------
(* Decisions *)

Approved(o) == \E a \in approvals : current_approval(o, a) /\ a.decision = "approved"
Rejected(o) == \E a \in approvals : current_approval(o, a) /\ a.decision = "rejected"

\* The invariants about decisions support each other, so they are proved
\* together: OneDecisionPerCycle needs CycleFollowsStatus to know that an open
\* cycle is undecided, DecisionBindsSnapshot and DeadlineDecides need the
\* bound on cycles to know that a new cycle starts undecided.
DecisionInv ==
    /\ OneDecisionPerCycle
    /\ DecisionBindsSnapshot
    /\ DeadlineDecides
    /\ CycleFollowsStatus
    /\ ExecutionIsBacked

\* A step that only moves an operation to a status its decision backs.
LEMMA StatusStep ==
    ASSUME TypeOK, DecisionInv, NEW o \in Operations, NEW target \in Statuses,
           status' = [status EXCEPT ![o] = target],
           UNCHANGED <<cycle, snapshot, approvals, workOrders>>,
           expires' \in {expires, [expires EXCEPT ![o] = NoValue]},
           target \in Investigating => status[o] \in Investigating,
           target \notin AwaitingDecision \cup {"resuming"},
           target = "expired" => status[o] \in AwaitingDecision,
           target \in {"executing", "verifying", "aborted"} => Approved(o),
           target = "rejected" => Rejected(o),
           target = "verifying" => work_order_of(o) # {},
           target = "completed" =>
               \/ status[o] \in Investigating
               \/ Approved(o) /\ work_order_of(o) # {}
    PROVE  DecisionInv'
<1>1. OneDecisionPerCycle'
  BY DEF DecisionInv, OneDecisionPerCycle
<1>2. DecisionBindsSnapshot'
  BY DEF DecisionInv, DecisionBindsSnapshot, current_approval
<1>3. DeadlineDecides'
  BY DEF DecisionInv, DeadlineDecides, CycleFollowsStatus, current_approval, TypeOK
<1>4. CycleFollowsStatus'
  BY DEF DecisionInv, CycleFollowsStatus, current_approval, TypeOK
<1>5. ExecutionIsBacked'
  BY DEF DecisionInv, ExecutionIsBacked, CycleFollowsStatus, Approved, Rejected,
         current_approval, work_order_of, TypeOK
<1> QED
  BY <1>1, <1>2, <1>3, <1>4, <1>5 DEF DecisionInv

\* A step of the investigation that stores evidence or a plan: there is no
\* decision yet that it could invalidate.
LEMMA SnapshotStep ==
    ASSUME TypeOK, DecisionInv, NEW o \in Operations, NEW target \in Investigating, NEW new,
           status[o] \in Investigating,
           new.binding = snapshot[o].binding,
           status' = [status EXCEPT ![o] = target],
           snapshot' = [snapshot EXCEPT ![o] = new],
           UNCHANGED <<cycle, expires, approvals, workOrders>>
    PROVE  DecisionInv'
<1>1. OneDecisionPerCycle'
  BY DEF DecisionInv, OneDecisionPerCycle
<1>2. DecisionBindsSnapshot'
  BY DEF DecisionInv, DecisionBindsSnapshot, CycleFollowsStatus, current_approval, TypeOK
<1>3. DeadlineDecides'
  BY DEF DecisionInv, DeadlineDecides, Investigating, current_approval, TypeOK
<1>4. CycleFollowsStatus'
  BY DEF DecisionInv, CycleFollowsStatus, Investigating, AwaitingDecision,
         current_approval, TypeOK
<1>5. ExecutionIsBacked'
  BY DEF DecisionInv, ExecutionIsBacked, Investigating, current_approval, work_order_of, TypeOK
<1> QED
  BY <1>1, <1>2, <1>3, <1>4, <1>5 DEF DecisionInv

\* A step that stores a binding with its facts and opens the next cycle.
LEMMA NewCycleStep ==
    ASSUME TypeOK, DecisionInv, NEW o \in Operations, NEW target \in AwaitingDecision,
           NEW new, NEW deadline \in Nat,
           new.binding = build_approval_binding(new.evidence, new.plan),
           status' = [status EXCEPT ![o] = target],
           snapshot' = [snapshot EXCEPT ![o] = new],
           cycle' = [cycle EXCEPT ![o] = cycle[o] + 1],
           expires' = [expires EXCEPT ![o] = deadline],
           UNCHANGED <<approvals, workOrders>>
    PROVE  DecisionInv'
<1>1. \A a \in approvals : a.op = o => a.cycle # cycle[o] + 1
  BY DEF DecisionInv, OneDecisionPerCycle, TypeOK, ApprovalRows
<1>2. OneDecisionPerCycle'
  BY DEF DecisionInv, OneDecisionPerCycle, TypeOK, ApprovalRows
<1>3. DecisionBindsSnapshot'
  BY <1>1 DEF DecisionInv, DecisionBindsSnapshot, current_approval, TypeOK
<1>4. DeadlineDecides'
  BY <1>1 DEF DecisionInv, DeadlineDecides, current_approval, TypeOK
<1>5. CycleFollowsStatus'
  BY <1>1 DEF DecisionInv, CycleFollowsStatus, Investigating, AwaitingDecision,
         current_approval, TypeOK
<1>6. ExecutionIsBacked'
  <2>1. \A q \in Operations : q # o => status'[q] = status[q] /\ cycle'[q] = cycle[q]
    BY DEF TypeOK
  <2>2. status'[o] \notin {"executing", "verifying", "aborted", "rejected", "completed"}
    BY DEF AwaitingDecision, TypeOK
  <2> QED
    BY <2>1, <2>2 DEF DecisionInv, ExecutionIsBacked, current_approval, work_order_of
<1> QED
  BY <1>2, <1>3, <1>4, <1>5, <1>6 DEF DecisionInv

\* submit_bound_once records the first decision of an open cycle, in time and
\* about the stored binding.
LEMMA SubmitStep ==
    ASSUME TypeOK, DecisionInv, NEW o \in Operations, NEW r \in Approvers, NEW d \in Decisions,
           NEW b \in Bindings, NEW t \in 0..now, submit_bound_once(o, r, d, b, t)
    PROVE  DecisionInv'
<1> DEFINE a == [op |-> o, cycle |-> cycle[o], approver |-> r,
                 decision |-> d, binding |-> b, at |-> t]
<1>1. /\ status' = [status EXCEPT ![o] = "resuming"]
      /\ approvals' = approvals \cup {a}
      /\ UNCHANGED <<cycle, snapshot, expires, workOrders>>
      /\ b = snapshot[o].binding
      /\ t < expires[o]
      /\ status[o] \in AwaitingDecision
      /\ \A c \in approvals : c.op = o => c.cycle # cycle[o]
  BY DEF submit_bound_once, decision_open
<1>2. cycle[o] \in 1..cycle[o]
  BY <1>1 DEF DecisionInv, CycleFollowsStatus, TypeOK
<1>3. OneDecisionPerCycle'
  BY <1>1, <1>2 DEF DecisionInv, OneDecisionPerCycle, TypeOK
<1>4. DecisionBindsSnapshot'
  BY <1>1 DEF DecisionInv, DecisionBindsSnapshot, current_approval, TypeOK
<1>5. DeadlineDecides'
  BY <1>1 DEF DecisionInv, DeadlineDecides, current_approval, TypeOK, AwaitingDecision
<1>6. CycleFollowsStatus'
  <2>1. \A q \in Operations : q # o => status'[q] = status[q]
    BY <1>1 DEF TypeOK
  <2>2. status'[o] = "resuming"
    BY <1>1 DEF TypeOK
  <2>3. current_approval(o, a)' /\ a \in approvals'
    BY <1>1 DEF current_approval
  <2>4. \A q \in Operations : q # o =>
            ((\E c \in approvals' : current_approval(q, c)') <=> (\E c \in approvals : current_approval(q, c)))
    BY <1>1 DEF current_approval
  <2> QED
    BY <1>1, <2>1, <2>2, <2>3, <2>4 DEF DecisionInv, CycleFollowsStatus,
                                        Investigating, AwaitingDecision
<1>7. ExecutionIsBacked'
  <2>1. \A q \in Operations : q # o => status'[q] = status[q]
    BY <1>1 DEF TypeOK
  <2>2. status'[o] = "resuming"
    BY <1>1 DEF TypeOK
  <2> QED
    BY <1>1, <2>1, <2>2 DEF DecisionInv, ExecutionIsBacked, current_approval, work_order_of
<1> QED
  BY <1>3, <1>4, <1>5, <1>6, <1>7 DEF DecisionInv

\* An approval located for the current cycle is a decision of that cycle.
LEMMA LocatedDecision ==
    ASSUME NEW o \in Operations, NEW a
    PROVE  /\ approval_locator(o, a, "approved") => Approved(o)
           /\ approval_locator(o, a, "rejected") => Rejected(o)
BY DEF approval_locator, Approved, Rejected, current_approval

\* The investigation takes place before any decision.
LEMMA InvestigationDecision ==
    ASSUME TypeOK, DecisionInv, NEW o \in Operations, InvestigationNext(o)
    PROVE  DecisionInv'
<1> USE DEF Statuses, Active, Terminal, Investigating, AwaitingDecision
<1>1. CASE \E req \in Requests : create(o, req)
  BY <1>1, StatusStep DEF create, create_allowed
<1>2. CASE mark_gathering_evidence(o)
  BY <1>2, StatusStep DEF mark_gathering_evidence, transition
<1>3. CASE \E b \in Bundles : record_evidence(o, b)
  <2>1. PICK b \in Bundles : record_evidence(o, b)
    BY <1>3
  <2> DEFINE new == [snapshot[o] EXCEPT !.evidence = b]
  <2>2. new.binding = snapshot[o].binding
    BY DEF TypeOK, Snapshots
  <2>3. /\ snapshot' = [snapshot EXCEPT ![o] = new]
        /\ status' = [status EXCEPT ![o] = "planning"]
        /\ status[o] \in Investigating
        /\ UNCHANGED <<cycle, expires, approvals, workOrders>>
    BY <2>1 DEF record_evidence, transition
  <2>4. "planning" \in Investigating
    OBVIOUS
  <2> HIDE DEF new, Investigating
  <2> QED
    BY <2>2, <2>3, <2>4, SnapshotStep
<1>4. CASE \E b \in Bundles, p \in Plans \cup {NoValue} : record_validated_plan(o, b, p)
  <2>1. PICK b \in Bundles, p \in Plans \cup {NoValue} : record_validated_plan(o, b, p)
    BY <1>4
  <2> DEFINE new == [snapshot[o] EXCEPT !.plan = p]
  <2>2. new.binding = snapshot[o].binding
    BY DEF TypeOK, Snapshots
  <2>3. /\ snapshot' = [snapshot EXCEPT ![o] = new]
        /\ status' = [status EXCEPT ![o] = "validating"]
        /\ status[o] \in Investigating
        /\ UNCHANGED <<cycle, expires, approvals, workOrders>>
    BY <2>1 DEF record_validated_plan, transition
  <2>4. "validating" \in Investigating
    OBVIOUS
  <2> HIDE DEF new, Investigating
  <2> QED
    BY <2>2, <2>3, <2>4, SnapshotStep
<1>5. CASE \E b \in Bundles : record_query_assessment(o, b)
  <2>1. PICK b \in Bundles : record_query_assessment(o, b)
    BY <1>5
  <2> DEFINE new == [snapshot[o] EXCEPT !.plan = NoValue]
  <2>2. new.binding = snapshot[o].binding
    BY DEF TypeOK, Snapshots
  <2>3. /\ snapshot' = [snapshot EXCEPT ![o] = new]
        /\ status' = [status EXCEPT ![o] = "validating"]
        /\ status[o] \in Investigating
        /\ UNCHANGED <<cycle, expires, approvals, workOrders>>
    BY <2>1 DEF record_query_assessment, transition
  <2>4. "validating" \in Investigating
    OBVIOUS
  <2> HIDE DEF new, Investigating
  <2> QED
    BY <2>2, <2>3, <2>4, SnapshotStep
<1>6. CASE mark_reporting(o)
  BY <1>6, StatusStep DEF mark_reporting, transition
<1>7. CASE \E outcome \in NoActionOutcomes : complete_without_replenishment(o, outcome)
  BY <1>7, StatusStep DEF complete_without_replenishment, transition
<1> QED
  BY <1>1, <1>2, <1>3, <1>4, <1>5, <1>6, <1>7 DEF InvestigationNext

\* The decision transactions keep decisions unique, bound and in time.
LEMMA DecisionDecision ==
    ASSUME TypeOK, DecisionInv, NEW o \in Operations, DecisionNext(o)
    PROVE  DecisionInv'
<1> USE DEF Statuses, Active, Terminal, Investigating, AwaitingDecision
<1>1. CASE \E b \in Bindings, d \in 1..MaxDeadline : mark_awaiting_approval(o, b, d)
  <2>1. PICK b \in Bindings, d \in 1..MaxDeadline : mark_awaiting_approval(o, b, d)
    BY <1>1
  <2> DEFINE new == [snapshot[o] EXCEPT !.binding = b]
  <2>2. d \in Nat
    BY StoreAssumption
  <2>3. snapshot[o] \in Snapshots
    BY DEF TypeOK
  <2>4. b = build_approval_binding(snapshot[o].evidence, snapshot[o].plan)
    BY <2>1 DEF mark_awaiting_approval, binding_matches_snapshot
  <2>5. new.binding = build_approval_binding(new.evidence, new.plan)
    BY <2>3, <2>4 DEF Snapshots
  <2>6. cycle[o] + 1 = 1
    BY <2>1 DEF mark_awaiting_approval, DecisionInv, CycleFollowsStatus
  <2>7. /\ snapshot' = [snapshot EXCEPT ![o] = new]
        /\ cycle' = [cycle EXCEPT ![o] = cycle[o] + 1]
        /\ expires' = [expires EXCEPT ![o] = d]
        /\ status' = [status EXCEPT ![o] = "awaiting_approval"]
        /\ UNCHANGED <<approvals, workOrders>>
    BY <2>1, <2>6 DEF mark_awaiting_approval, transition
  <2> HIDE DEF new
  <2> QED
    BY <2>2, <2>5, <2>7, NewCycleStep
<1>2. CASE \E t \in 0..now : mark_expired(o, t)
  BY <1>2, StatusStep DEF mark_expired, transition
<1>3. CASE \E t \in 0..now : submit_bound_once_expired(o, t)
  BY <1>3, StatusStep DEF submit_bound_once_expired, decision_open
<1>4. CASE \E r \in Approvers, d \in Decisions, b \in Bindings, t \in 0..now :
               submit_bound_once(o, r, d, b, t)
  BY <1>4, SubmitStep
<1>5. CASE \E a \in approvals : mark_rejected(o, a)
  BY <1>5, StatusStep, LocatedDecision DEF mark_rejected, transition
<1>6. CASE \E a \in approvals : mark_verifier_aborted(o, a)
  BY <1>6, StatusStep, LocatedDecision DEF mark_verifier_aborted, transition
<1>7. CASE \E a \in approvals, b \in Bundles, p \in Plans, g \in Bindings, d \in 1..MaxDeadline :
               mark_needs_reapproval(o, a, b, p, g, d)
  <2>1. PICK a \in approvals, b \in Bundles, p \in Plans, g \in Bindings, d \in 1..MaxDeadline :
               mark_needs_reapproval(o, a, b, p, g, d)
    BY <1>7
  <2> DEFINE new == [evidence |-> b, plan |-> p, binding |-> g]
  <2>2. d \in Nat
    BY StoreAssumption
  <2>3. new.binding = build_approval_binding(new.evidence, new.plan)
    BY <2>1 DEF mark_needs_reapproval
  <2>4. /\ snapshot' = [snapshot EXCEPT ![o] = new]
        /\ cycle' = [cycle EXCEPT ![o] = cycle[o] + 1]
        /\ expires' = [expires EXCEPT ![o] = d]
        /\ status' = [status EXCEPT ![o] = "needs_reapproval"]
        /\ UNCHANGED <<approvals, workOrders>>
    BY <2>1 DEF mark_needs_reapproval, transition
  <2> HIDE DEF new
  <2> QED
    BY <2>2, <2>3, <2>4, NewCycleStep
<1> QED
  BY <1>1, <1>2, <1>3, <1>4, <1>5, <1>6, <1>7 DEF DecisionNext

\* The controlled write stays under the decision that started it.
LEMMA ExecutionDecision ==
    ASSUME TypeOK, DecisionInv, NEW o \in Operations, ExecutionNext(o)
    PROVE  DecisionInv'
<1> USE DEF Statuses, Active, Terminal, Investigating, AwaitingDecision
<1>1. CASE \E a \in approvals : mark_executing(o, a)
  BY <1>1, StatusStep, LocatedDecision DEF mark_executing, transition
<1>2. CASE \E p \in Plans : create_or_get(o, p)
  <2>1. PICK p \in Plans : create_or_get(o, p)
    BY <1>2
  <2>2. /\ UNCHANGED <<status, cycle, snapshot, expires, approvals>>
        /\ workOrders \subseteq workOrders'
    BY <2>1 DEF create_or_get
  <2>3. /\ OneDecisionPerCycle'
        /\ DecisionBindsSnapshot'
        /\ DeadlineDecides'
        /\ CycleFollowsStatus'
    BY <2>2 DEF DecisionInv, OneDecisionPerCycle, DecisionBindsSnapshot, DeadlineDecides,
                CycleFollowsStatus, current_approval
  <2>4. ExecutionIsBacked'
    BY <2>2 DEF DecisionInv, ExecutionIsBacked, current_approval, work_order_of
  <2> QED
    BY <2>3, <2>4 DEF DecisionInv
<1>3. CASE \E w \in workOrders : mark_verifying(o, w)
  <2>1. PICK w \in workOrders : mark_verifying(o, w)
    BY <1>3
  <2>2. Approved(o) /\ work_order_of(o) # {}
    BY <2>1 DEF mark_verifying, work_order_locator, work_order_of,
                DecisionInv, ExecutionIsBacked, Approved
  <2> QED
    BY <2>1, <2>2, StatusStep DEF mark_verifying, transition
<1>4. CASE \E w \in workOrders : mark_completed(o, w)
  <2>1. PICK w \in workOrders : mark_completed(o, w)
    BY <1>4
  <2>2. Approved(o) /\ work_order_of(o) # {}
    BY <2>1 DEF mark_completed, work_order_locator, work_order_of,
                DecisionInv, ExecutionIsBacked, Approved
  <2> QED
    BY <2>1, <2>2, StatusStep DEF mark_completed, transition
<1>5. CASE \E e \in Errors : mark_failed(o, e)
  BY <1>5, StatusStep DEF mark_failed, transition
<1> QED
  BY <1>1, <1>2, <1>3, <1>4, <1>5 DEF ExecutionNext

\* The initial state has no decision.
LEMMA InitDecision == Init => DecisionInv
<1> SUFFICES ASSUME Init
             PROVE  DecisionInv
  OBVIOUS
<1>1. OneDecisionPerCycle /\ DeadlineDecides
  BY DEF Init, OneDecisionPerCycle, DeadlineDecides
<1>2. DecisionBindsSnapshot /\ CycleFollowsStatus
  BY DEF Init, DecisionBindsSnapshot, CycleFollowsStatus, EmptySnapshot, AwaitingDecision
<1>3. ExecutionIsBacked
  BY DEF Init, ExecutionIsBacked
<1> QED
  BY <1>1, <1>2, <1>3 DEF DecisionInv

\* Every step of the store preserves the invariants about decisions.
LEMMA NextDecision ==
    ASSUME TypeOK, DecisionInv, [Next]_storeVars
    PROVE  DecisionInv'
<1>1. CASE UNCHANGED <<status, cycle, snapshot, expires, approvals, workOrders>>
  BY <1>1 DEF DecisionInv, OneDecisionPerCycle, DecisionBindsSnapshot, DeadlineDecides,
              CycleFollowsStatus, ExecutionIsBacked, current_approval, work_order_of
<1>2. CASE SignalNext \/ Tick \/ UNCHANGED storeVars
  BY <1>1, <1>2 DEF SignalNext, upsert_detected, create_successor, reconcile_terminal_links,
                    Tick, storeVars, opVars
<1> QED
  BY <1>2, InvestigationDecision, DecisionDecision, ExecutionDecision DEF Next

\* The invariant about decisions in every behaviour of the store.
LEMMA StoreDecisionInv == Spec => []DecisionInv
<1>1. Init => TypeOK /\ DecisionInv
  BY InitType, InitDecision
<1>2. TypeOK /\ DecisionInv /\ [Next]_storeVars => (TypeOK /\ DecisionInv)'
  BY NextType, NextDecision
<1> QED
  BY <1>1, <1>2, PTL DEF Spec

\* For any number of approvers and retries of submit_bound_once, a cycle has at
\* most one decision.
THEOREM StoreOneDecisionPerCycle == Spec => []OneDecisionPerCycle
<1>1. DecisionInv => OneDecisionPerCycle
  BY DEF DecisionInv
<1> QED
  BY <1>1, StoreDecisionInv, PTL

\* For any number of re-approvals, the current decision is about the evidence
\* and the plan that the operation stores.
THEOREM StoreDecisionBindsSnapshot == Spec => []DecisionBindsSnapshot
<1>1. DecisionInv => DecisionBindsSnapshot
  BY DEF DecisionInv
<1> QED
  BY <1>1, StoreDecisionInv, PTL

\* However a decision races the expiry of its cycle, a decision that counts was
\* taken before the deadline and an expired operation has none.
THEOREM StoreDeadlineDecides == Spec => []DeadlineDecides
<1>1. DecisionInv => DeadlineDecides
  BY DEF DecisionInv
<1> QED
  BY <1>1, StoreDecisionInv, PTL

\* mark_awaiting_approval and mark_needs_reapproval open the cycles: none is open
\* before, a waiting one has no decision and a resuming one has it.
THEOREM StoreCycleFollowsStatus == Spec => []CycleFollowsStatus
<1>1. DecisionInv => CycleFollowsStatus
  BY DEF DecisionInv
<1> QED
  BY <1>1, StoreDecisionInv, PTL

\* No order of calls leads to a status after a decision without that decision,
\* or to a verification without a work order.
THEOREM StoreExecutionIsBacked == Spec => []ExecutionIsBacked
<1>1. DecisionInv => ExecutionIsBacked
  BY DEF DecisionInv
<1> QED
  BY <1>1, StoreDecisionInv, PTL

-----------------------------------------------------------------------------
(* Terminal operations *)

\* Only the transactions of an operation that is not terminal write its row,
\* its events, approvals or work orders.
LEMMA TerminalStep ==
    ASSUME TypeOK, [Next]_storeVars, NEW q \in Operations, status[q] \in Terminal
    PROVE  /\ status'[q] = status[q]
           /\ snapshot'[q] = snapshot[q]
           /\ result'[q] = result[q]
           /\ cycle'[q] = cycle[q]
           /\ audit'[q] = audit[q]
           /\ {a \in approvals' : a.op = q} = {a \in approvals : a.op = q}
           /\ {w \in workOrders' : w.op = q} = {w \in workOrders : w.op = q}
<1> DEFINE Frozen == /\ status'[q] = status[q]
                     /\ snapshot'[q] = snapshot[q]
                     /\ result'[q] = result[q]
                     /\ cycle'[q] = cycle[q]
                     /\ audit'[q] = audit[q]
                     /\ {a \in approvals' : a.op = q} = {a \in approvals : a.op = q}
                     /\ {w \in workOrders' : w.op = q} = {w \in workOrders : w.op = q}
<1> USE DEF Terminal, Active, AwaitingDecision
<1>1. ASSUME NEW o \in Operations, InvestigationNext(o) PROVE Frozen
  <2>1. CASE \E req \in Requests : create(o, req)
    BY <2>1 DEF create, create_allowed, transition, append_event, TypeOK
  <2>2. CASE mark_gathering_evidence(o) \/ mark_reporting(o)
    BY <2>2 DEF mark_gathering_evidence, mark_reporting, transition, append_event, TypeOK
  <2>3. CASE \E b \in Bundles : record_evidence(o, b)
    BY <2>3 DEF record_evidence, transition, append_event, TypeOK
  <2>4. CASE \E b \in Bundles, p \in Plans \cup {NoValue} : record_validated_plan(o, b, p)
    BY <2>4 DEF record_validated_plan, transition, append_event, TypeOK
  <2>5. CASE \E b \in Bundles : record_query_assessment(o, b)
    BY <2>5 DEF record_query_assessment, transition, append_event, TypeOK
  <2>6. CASE \E outcome \in NoActionOutcomes : complete_without_replenishment(o, outcome)
    BY <2>6 DEF complete_without_replenishment, transition, append_event, TypeOK
  <2> QED
    BY <1>1, <2>1, <2>2, <2>3, <2>4, <2>5, <2>6 DEF InvestigationNext
<1>2. ASSUME NEW o \in Operations, DecisionNext(o) PROVE Frozen
  <2>1. CASE \E r \in Approvers, d \in Decisions, b \in Bindings, t \in 0..now :
                 submit_bound_once(o, r, d, b, t)
    BY <2>1 DEF submit_bound_once, decision_open, append_event, TypeOK
  <2>2. CASE \E t \in 0..now : submit_bound_once_expired(o, t)
    BY <2>2 DEF submit_bound_once_expired, decision_open, append_event, TypeOK
  <2>3. CASE \E b \in Bindings, d \in 1..MaxDeadline : mark_awaiting_approval(o, b, d)
    BY <2>3 DEF mark_awaiting_approval, transition, append_event, TypeOK
  <2>4. CASE \E t \in 0..now : mark_expired(o, t)
    BY <2>4 DEF mark_expired, transition, append_event, TypeOK
  <2>5. CASE \E a \in approvals : mark_rejected(o, a) \/ mark_verifier_aborted(o, a)
    BY <2>5 DEF mark_rejected, mark_verifier_aborted, transition, append_event, TypeOK
  <2>6. CASE \E a \in approvals, b \in Bundles, p \in Plans, g \in Bindings, d \in 1..MaxDeadline :
                 mark_needs_reapproval(o, a, b, p, g, d)
    BY <2>6 DEF mark_needs_reapproval, transition, append_event, TypeOK
  <2> QED
    BY <1>2, <2>1, <2>2, <2>3, <2>4, <2>5, <2>6 DEF DecisionNext
<1>3. ASSUME NEW o \in Operations, ExecutionNext(o) PROVE Frozen
  <2>1. CASE \E p \in Plans : create_or_get(o, p)
    BY <2>1 DEF create_or_get, write_authorized, append_event, TypeOK
  <2>2. CASE \E a \in approvals : mark_executing(o, a)
    BY <2>2 DEF mark_executing, transition, append_event, TypeOK
  <2>3. CASE \E w \in workOrders : mark_verifying(o, w) \/ mark_completed(o, w)
    BY <2>3 DEF mark_verifying, mark_completed, transition, append_event, TypeOK
  <2>4. CASE \E e \in Errors : mark_failed(o, e)
    BY <2>4 DEF mark_failed, transition, append_event, TypeOK
  <2> QED
    BY <1>3, <2>1, <2>2, <2>3, <2>4 DEF ExecutionNext
<1>4. CASE SignalNext \/ Tick \/ UNCHANGED storeVars
  BY <1>4 DEF SignalNext, upsert_detected, create_successor, reconcile_terminal_links,
              Tick, storeVars, opVars
<1> QED
  BY <1>1, <1>2, <1>3, <1>4 DEF Next

\* No call changes an operation that has completed, been rejected, aborted,
\* expired or failed.
THEOREM StoreTerminalIsFinal == Spec => TerminalIsFinal
<1>1. TypeOK /\ [Next]_storeVars =>
        [\A o \in Operations : status[o] \in Terminal =>
            /\ status'[o] = status[o]
            /\ snapshot'[o] = snapshot[o]
            /\ result'[o] = result[o]
            /\ cycle'[o] = cycle[o]
            /\ audit'[o] = audit[o]
            /\ {a \in approvals' : a.op = o} = {a \in approvals : a.op = o}
            /\ {w \in workOrders' : w.op = o} = {w \in workOrders : w.op = o}]_storeVars
  BY TerminalStep
<1> QED
  BY <1>1, StoreTypes, PTL DEF Spec, TerminalIsFinal

-----------------------------------------------------------------------------
(* Signals *)

\* The state that SignalFollowsOperation leaves each signal in.
SignalFollows ==
    \A s \in Signals : signals[s].op # NoValue =>
        LET st == status[signals[s].op] IN
        \/ signals[s].status = "investigating" /\ st \in Active \cup {"expired"}
        \/ signals[s].status = "resolved" /\ st \in {"completed", "rejected"}
        \/ signals[s].status = "attention_required" /\ st \in {"aborted", "expired", "failed"}

\* The invariants about signals support each other: a retry is safe because
\* nothing settles a signal that needs attention (SignalFollows), and
\* that holds because a signal has one operation (SignalClaim), which rests on
\* an operation having a request exactly when its row exists.
SignalInv ==
    /\ \A o \in Operations : status[o] = "absent" <=> request[o] = NoValue
    /\ SignalClaim
    /\ SignalFollows
    /\ SignalLineage

\* The fields of a typed signal row.
LEMMA SignalRowFields ==
    ASSUME TypeOK, NEW s \in Signals
    PROVE  /\ signals[s].status \in SignalStatuses \cup {"absent"}
           /\ signals[s].draft \in Drafts \cup {NoValue}
           /\ signals[s].op \in Operations \cup {NoValue}
           /\ signals[s].pred \in Signals \cup {NoValue}
           /\ NoValue \notin Operations /\ NoValue \notin Signals
BY StoreAssumption DEF TypeOK, SignalRows

\* A step that leaves operations, requests and signals alone.
LEMMA SignalsUntouched ==
    ASSUME SignalInv, UNCHANGED <<status, request, signals>>
    PROVE  SignalInv'
BY DEF SignalInv, SignalClaim, SignalFollows, SignalLineage

\* create claims an open signal that no request has.
LEMMA SignalClaimStep ==
    ASSUME TypeOK, SignalInv, NEW o \in Operations, NEW req \in Requests, create(o, req)
    PROVE  SignalInv'
<1>1. /\ req # NoValue /\ req.signal \in Signals \cup {NoValue}
      /\ NoValue \notin Signals /\ NoValue \notin Operations
  BY StoreAssumption, NullAssumption DEF Requests
<1>2. /\ status[o] = "absent" /\ request[o] = NoValue
      /\ status' = [status EXCEPT ![o] = "received"]
      /\ request' = [request EXCEPT ![o] = req]
      /\ \A q \in Operations : /\ q # o => status'[q] = status[q] /\ request'[q] = request[q]
                               /\ q = o => status'[q] = "received" /\ request'[q] = req
  BY DEF create, create_allowed, SignalInv, TypeOK
<1>3. \A s \in Signals : signals[s].op # o
  BY <1>2 DEF SignalInv, SignalClaim
<1>4. \A s \in Signals :
        /\ s # req.signal => signals'[s] = signals[s]
        /\ s = req.signal =>
             /\ signals'[s].status = "investigating"
             /\ signals'[s].op = o
             /\ signals'[s].draft = signals[s].draft
             /\ signals'[s].pred = signals[s].pred
             /\ signals[s].status = "open" /\ signals[s].op = NoValue
             /\ ObjectOf[signals[s].draft] = req.object
  <2>1. CASE req.signal = NoValue
    BY <1>1, <2>1 DEF create
  <2>2. CASE req.signal \in Signals
    <3>1. signals' = [signals EXCEPT ![req.signal].status = "investigating",
                                     ![req.signal].op = o]
      BY <1>1, <2>2 DEF create
    <3>2. signals[req.signal] \in SignalRows
      BY <2>2 DEF TypeOK
    <3>3. signals'[req.signal] =
             [[signals[req.signal] EXCEPT !.status = "investigating"] EXCEPT !.op = o]
      BY <2>2, <3>1 DEF TypeOK
    <3>4. \A s \in Signals : s # req.signal => signals'[s] = signals[s]
      BY <3>1 DEF TypeOK
    <3>5. /\ signals'[req.signal].status = "investigating"
          /\ signals'[req.signal].op = o
          /\ signals'[req.signal].draft = signals[req.signal].draft
          /\ signals'[req.signal].pred = signals[req.signal].pred
      BY <3>2, <3>3 DEF SignalRows
    <3>6. /\ signals[req.signal].status = "open" /\ signals[req.signal].op = NoValue
          /\ ObjectOf[signals[req.signal].draft] = req.object
      BY <1>1, <2>2 DEF create, create_allowed
    <3> QED
      BY <3>4, <3>5, <3>6
  <2> QED
    BY <1>1, <2>1, <2>2
<1>5. \A q \in Operations : status'[q] = "absent" <=> request'[q] = NoValue
  BY <1>1, <1>2 DEF SignalInv
<1>6. SignalClaim'
  <2> SUFFICES ASSUME NEW s \in Signals
               PROVE  /\ \A q \in Operations :
                            signals'[s].op = q <=> request'[q] # NoValue /\ request'[q].signal = s
                      /\ signals'[s].op # NoValue =>
                            request'[signals'[s].op].object = ObjectOf[signals'[s].draft]
                      /\ signals'[s].op = NoValue <=> signals'[s].status \in {"absent", "open"}
    BY DEF SignalClaim
  <2>1. CASE s = req.signal
    BY <1>1, <1>2, <1>3, <1>4, <2>1 DEF SignalInv, SignalClaim
  <2>2. CASE s # req.signal
    BY <1>1, <1>2, <1>3, <1>4, <2>2, SignalRowFields DEF SignalInv, SignalClaim
  <2> QED
    BY <2>1, <2>2
<1>7. SignalFollows'
  BY <1>1, <1>2, <1>3, <1>4, SignalRowFields DEF SignalInv, SignalFollows, Active
<1>8. SignalLineage'
  BY <1>4 DEF SignalInv, SignalLineage
<1> QED
  BY <1>5, <1>6, <1>7, <1>8 DEF SignalInv

\* A transition of an active operation carries its signal along; the successor
\* chain of the signal is not touched, for an active operation's signal is
\* under investigation and cannot have a successor yet.
LEMMA SignalStatusStep ==
    ASSUME TypeOK, SignalInv, NEW o \in Operations, NEW target \in Statuses,
           status[o] \in Active,
           status' = [status EXCEPT ![o] = target],
           UNCHANGED request,
           update_linked_signal(o, target) \/ (target \in Active \cup {"expired"} /\ UNCHANGED signals)
    PROVE  SignalInv'
<1> DEFINE new == signal_status_for_operation_terminal(target)
<1>1. /\ NoValue \notin Signals /\ NoValue \notin Operations
      /\ status'[o] = target
      /\ \A q \in Operations : q # o => status'[q] = status[q]
  BY StoreAssumption DEF TypeOK
<1>2. \A s \in Signals : signals[s].op = o => signals[s].status = "investigating"
  BY <1>1 DEF SignalInv, SignalFollows, Active
<1>3. \A s \in Signals :
        /\ signals'[s].op = signals[s].op
        /\ signals'[s].draft = signals[s].draft
        /\ signals'[s].pred = signals[s].pred
        /\ signals[s].op # o => signals'[s] = signals[s]
        /\ signals[s].op = o =>
              \/ target \in Terminal /\ signals'[s].status = new
              \/ target \in Active \cup {"expired"} /\ signals'[s].status = "investigating"
  <2>1. CASE UNCHANGED signals /\ target \in Active \cup {"expired"}
    BY <1>2, <2>1
  <2>2. CASE update_linked_signal(o, target)
    <3>1. CASE target \in Terminal
      BY <2>2, <3>1 DEF update_linked_signal, TypeOK, SignalRows
    <3>2. CASE target \notin Terminal
      BY <1>2, <2>2, <3>2 DEF update_linked_signal, Statuses
    <3> QED
      BY <3>1, <3>2
  <2> QED
    BY <2>1, <2>2
<1>4. new \in {"resolved", "attention_required"}
  BY DEF signal_status_for_operation_terminal
<1> HIDE DEF new
<1>5. \A q \in Operations : status'[q] = "absent" <=> request'[q] = NoValue
  BY <1>1 DEF SignalInv, Active, Terminal, Statuses
<1>6. SignalClaim'
  BY <1>2, <1>3, <1>4, SignalRowFields DEF SignalInv, SignalClaim
<1>7. SignalFollows'
  <2>1. target \in Terminal =>
           \/ new = "resolved" /\ target \in {"completed", "rejected"}
           \/ new = "attention_required" /\ target \in {"aborted", "expired", "failed"}
    BY DEF new, signal_status_for_operation_terminal, Terminal
  <2> QED
    BY <1>1, <1>3, <2>1, SignalRowFields DEF SignalInv, SignalFollows
<1>8. SignalLineage'
  <2>1. \A s \in Signals : /\ signals'[s].status = "absent" <=> signals[s].status = "absent"
                           /\ signals[s].status = "attention_required" => signals'[s] = signals[s]
    BY <1>2, <1>3, <1>4
  <2> QED
    BY <1>3, <2>1 DEF SignalInv, SignalLineage
<1> QED
  BY <1>5, <1>6, <1>7, <1>8 DEF SignalInv

\* A scan or a retry inserts a row that no other row refers to.
LEMMA SignalInsertStep ==
    ASSUME TypeOK, SignalInv, NEW s \in Signals, NEW d, NEW p \in Signals \cup {NoValue},
           signals[s].status = "absent",
           signals' = [signals EXCEPT ![s] =
                          [status |-> "open", draft |-> d, op |-> NoValue, pred |-> p]],
           \A r \in Signals : ~ /\ signals[r].status # "absent"
                                /\ signals[r].pred = p
                                /\ p = NoValue => signals[r].draft = d,
           p # NoValue => signals[p].status = "attention_required" /\ signals[p].draft = d,
           UNCHANGED <<status, request>>
    PROVE  SignalInv'
<1>1. /\ signals'[s].status = "open" /\ signals'[s].draft = d
      /\ signals'[s].op = NoValue /\ signals'[s].pred = p
      /\ \A r \in Signals : r # s => signals'[r] = signals[r]
      /\ NoValue \notin Signals /\ NoValue \notin Operations
  BY StoreAssumption DEF TypeOK
<1>2. signals[s].op = NoValue
  BY DEF SignalInv, SignalClaim
<1>3. SignalClaim'
  BY <1>1, <1>2, SignalRowFields DEF SignalInv, SignalClaim
<1>4. SignalFollows'
  BY <1>1 DEF SignalInv, SignalFollows
<1>5. SignalLineage'
  BY <1>1 DEF SignalInv, SignalLineage
<1> QED
  BY <1>3, <1>4, <1>5 DEF SignalInv

\* The startup repair gives a signal the status its operation asks for, which
\* it has already unless a late decision left it behind.
LEMMA SignalReconcileStep ==
    ASSUME TypeOK, SignalInv, reconcile_terminal_links
    PROVE  SignalInv'
<1>1. UNCHANGED <<status, request>>
  BY DEF reconcile_terminal_links, opVars
<1>2. \A s \in Signals :
        /\ signals'[s].op = signals[s].op
        /\ signals'[s].draft = signals[s].draft
        /\ signals'[s].pred = signals[s].pred
        /\ ~ terminal_link(s) => signals'[s] = signals[s]
        /\ terminal_link(s) => signals'[s].status =
               signal_status_for_operation_terminal(status[signals[s].op])
  BY DEF reconcile_terminal_links, TypeOK, SignalRows
<1>3. \A s \in Signals : terminal_link(s) =>
        /\ signals[s].op # NoValue
        /\ \/ /\ signals'[s].status = "resolved"
              /\ status[signals[s].op] \in {"completed", "rejected"}
           \/ /\ signals'[s].status = "attention_required"
              /\ status[signals[s].op] \in {"aborted", "expired", "failed"}
  BY <1>2 DEF terminal_link, signal_status_for_operation_terminal, Terminal
<1>4. SignalClaim'
  BY <1>1, <1>2, <1>3, SignalRowFields DEF SignalInv, SignalClaim
<1>5. SignalFollows'
  BY <1>1, <1>2, <1>3 DEF SignalInv, SignalFollows
<1>6. SignalLineage'
  <2>1. \A s \in Signals :
          /\ signals'[s].status = "absent" <=> signals[s].status = "absent"
          /\ signals[s].status = "attention_required" => signals'[s].status = "attention_required"
    BY <1>2, <1>3 DEF SignalInv, SignalClaim, SignalFollows
  <2> QED
    BY <1>2, <2>1 DEF SignalInv, SignalLineage
<1> QED
  BY <1>1, <1>4, <1>5, <1>6 DEF SignalInv

\* The transactions of an investigation keep the signals in step.
LEMMA InvestigationSignal ==
    ASSUME TypeOK, SignalInv, NEW o \in Operations, InvestigationNext(o)
    PROVE  SignalInv'
<1> USE DEF Statuses, Active, Terminal
<1>1. CASE \E req \in Requests : create(o, req)
  BY <1>1, SignalClaimStep
<1>2. CASE mark_gathering_evidence(o)
  BY <1>2, SignalStatusStep DEF mark_gathering_evidence, transition
<1>3. CASE \E b \in Bundles : record_evidence(o, b)
  BY <1>3, SignalStatusStep DEF record_evidence, transition
<1>4. CASE \E b \in Bundles, p \in Plans \cup {NoValue} : record_validated_plan(o, b, p)
  BY <1>4, SignalStatusStep DEF record_validated_plan, transition
<1>5. CASE \E b \in Bundles : record_query_assessment(o, b)
  BY <1>5, SignalStatusStep DEF record_query_assessment, transition
<1>6. CASE mark_reporting(o)
  BY <1>6, SignalStatusStep DEF mark_reporting, transition
<1>7. CASE \E outcome \in NoActionOutcomes : complete_without_replenishment(o, outcome)
  BY <1>7, SignalStatusStep DEF complete_without_replenishment, transition
<1> QED
  BY <1>1, <1>2, <1>3, <1>4, <1>5, <1>6, <1>7 DEF InvestigationNext

\* So do those around a decision; a late one leaves the signal to the repair.
LEMMA DecisionSignal ==
    ASSUME TypeOK, SignalInv, NEW o \in Operations, DecisionNext(o)
    PROVE  SignalInv'
<1> USE DEF Statuses, Active, Terminal, AwaitingDecision
<1>1. CASE \E b \in Bindings, d \in 1..MaxDeadline : mark_awaiting_approval(o, b, d)
  BY <1>1, SignalStatusStep DEF mark_awaiting_approval, transition
<1>2. CASE \E t \in 0..now : mark_expired(o, t)
  BY <1>2, SignalStatusStep DEF mark_expired, transition
<1>3. CASE \E t \in 0..now : submit_bound_once_expired(o, t)
  BY <1>3, SignalStatusStep DEF submit_bound_once_expired, decision_open
<1>4. CASE \E r \in Approvers, d \in Decisions, b \in Bindings, t \in 0..now :
               submit_bound_once(o, r, d, b, t)
  BY <1>4, SignalStatusStep DEF submit_bound_once, decision_open
<1>5. CASE \E a \in approvals : mark_rejected(o, a)
  BY <1>5, SignalStatusStep DEF mark_rejected, transition
<1>6. CASE \E a \in approvals : mark_verifier_aborted(o, a)
  BY <1>6, SignalStatusStep DEF mark_verifier_aborted, transition
<1>7. CASE \E a \in approvals, b \in Bundles, p \in Plans, g \in Bindings, d \in 1..MaxDeadline :
               mark_needs_reapproval(o, a, b, p, g, d)
  BY <1>7, SignalStatusStep DEF mark_needs_reapproval, transition
<1> QED
  BY <1>1, <1>2, <1>3, <1>4, <1>5, <1>6, <1>7 DEF DecisionNext

\* And those of the controlled write.
LEMMA ExecutionSignal ==
    ASSUME TypeOK, SignalInv, NEW o \in Operations, ExecutionNext(o)
    PROVE  SignalInv'
<1> USE DEF Statuses, Active, Terminal
<1>1. CASE \E a \in approvals : mark_executing(o, a)
  BY <1>1, SignalStatusStep DEF mark_executing, transition
<1>2. CASE \E p \in Plans : create_or_get(o, p)
  BY <1>2, SignalsUntouched DEF create_or_get
<1>3. CASE \E w \in workOrders : mark_verifying(o, w)
  BY <1>3, SignalStatusStep DEF mark_verifying, transition
<1>4. CASE \E w \in workOrders : mark_completed(o, w)
  BY <1>4, SignalStatusStep DEF mark_completed, transition
<1>5. CASE \E e \in Errors : mark_failed(o, e)
  BY <1>5, SignalStatusStep DEF mark_failed, transition
<1> QED
  BY <1>1, <1>2, <1>3, <1>4, <1>5 DEF ExecutionNext

\* The transactions of the signal repository.
LEMMA SignalSignal ==
    ASSUME TypeOK, SignalInv, SignalNext
    PROVE  SignalInv'
<1>1. CASE \E s \in Signals, d \in Drafts : upsert_detected(s, d)
  <2>1. PICK s \in Signals, d \in Drafts : upsert_detected(s, d)
    BY <1>1
  <2>2. /\ signals[s].status = "absent"
        /\ signals' = [signals EXCEPT ![s] =
                          [status |-> "open", draft |-> d, op |-> NoValue, pred |-> NoValue]]
        /\ UNCHANGED <<status, request>>
    BY <2>1 DEF upsert_detected, opVars
  <2>3. \A r \in Signals : ~ /\ signals[r].status # "absent"
                             /\ signals[r].pred = NoValue
                             /\ NoValue = NoValue => signals[r].draft = d
    BY <2>1 DEF upsert_detected
  <2>4. NoValue \in Signals \cup {NoValue}
    OBVIOUS
  <2> QED
    BY <2>2, <2>3, <2>4, SignalInsertStep
<1>2. CASE \E s, p \in Signals : create_successor(s, p)
  <2>1. PICK s \in Signals, p \in Signals : create_successor(s, p)
    BY <1>2
  <2>2. PICK d : d = signals[p].draft
    OBVIOUS
  <2>3. /\ signals[s].status = "absent"
        /\ signals' = [signals EXCEPT ![s] =
                          [status |-> "open", draft |-> d, op |-> NoValue, pred |-> p]]
        /\ p # NoValue => signals[p].status = "attention_required" /\ signals[p].draft = d
        /\ UNCHANGED <<status, request>>
    BY <2>1, <2>2 DEF create_successor, opVars
  <2>4. \A r \in Signals : ~ /\ signals[r].status # "absent"
                             /\ signals[r].pred = p
                             /\ p = NoValue => signals[r].draft = d
    BY <2>1, <2>2, StoreAssumption DEF create_successor, has_successor
  <2>5. p \in Signals \cup {NoValue}
    OBVIOUS
  <2> QED
    BY <2>3, <2>4, <2>5, SignalInsertStep
<1>3. CASE reconcile_terminal_links
  BY <1>3, SignalReconcileStep
<1> QED
  BY <1>1, <1>2, <1>3 DEF SignalNext

\* Every step of the store preserves the invariants about signals.
LEMMA NextSignal ==
    ASSUME TypeOK, SignalInv, [Next]_storeVars
    PROVE  SignalInv'
<1>1. CASE Tick \/ UNCHANGED storeVars
  BY <1>1, SignalsUntouched DEF Tick, storeVars, opVars
<1> QED
  BY <1>1, InvestigationSignal, DecisionSignal, ExecutionSignal, SignalSignal DEF Next

\* Before anything happens there is no signal.
LEMMA InitSignal == Init => SignalInv
<1> SUFFICES ASSUME Init
             PROVE  SignalInv
  OBVIOUS
<1>1. \A s \in Signals : signals[s] = AbsentSignal
  BY DEF Init
<1>2. NoValue \notin Operations /\ NoValue \notin Signals
  BY StoreAssumption
<1>3. SignalClaim
  BY <1>1, <1>2 DEF Init, SignalClaim, AbsentSignal
<1>4. SignalFollows /\ SignalLineage
  BY <1>1, <1>2 DEF SignalFollows, SignalLineage, AbsentSignal
<1> QED
  BY <1>3, <1>4 DEF Init, SignalInv

\* The invariant of the signals in every behaviour of the store.
LEMMA StoreSignalInv == Spec => []SignalInv
<1>1. Init => TypeOK /\ SignalInv
  BY InitType, InitSignal
<1>2. TypeOK /\ SignalInv /\ [Next]_storeVars => (TypeOK /\ SignalInv)'
  BY NextType, NextSignal
<1> QED
  BY <1>1, <1>2, PTL DEF Spec

\* Whatever scans, requests and retries race, a signal has at most one
\* operation, the one requested for it and for its object.
THEOREM StoreSignalClaim == Spec => []SignalClaim
<1>1. SignalInv => SignalClaim
  BY DEF SignalInv
<1> QED
  BY <1>1, StoreSignalInv, PTL

\* Which steps expire an operation.
LEMMA ExpiringStep ==
    ASSUME TypeOK, [Next]_storeVars, NEW o \in Operations,
           status[o] # "expired", status'[o] = "expired"
    PROVE  \E t \in 0..now : mark_expired(o, t) \/ submit_bound_once_expired(o, t)
<1> USE DEF TypeOK, transition
<1>1. ASSUME NEW q \in Operations, InvestigationNext(q)
      PROVE  FALSE
  BY <1>1 DEF InvestigationNext, create, mark_gathering_evidence, record_evidence,
              record_validated_plan, record_query_assessment, mark_reporting,
              complete_without_replenishment
<1>2. ASSUME NEW q \in Operations, ExecutionNext(q)
      PROVE  FALSE
  BY <1>2 DEF ExecutionNext, mark_executing, create_or_get, mark_verifying, mark_completed,
              mark_failed
<1>3. ASSUME NEW q \in Operations, DecisionNext(q)
      PROVE  \E t \in 0..now : mark_expired(o, t) \/ submit_bound_once_expired(o, t)
  <2>1. CASE \/ \E t \in 0..now : mark_expired(q, t)
             \/ \E t \in 0..now : submit_bound_once_expired(q, t)
    <3>1. q = o
      BY <2>1 DEF mark_expired, submit_bound_once_expired
    <3> QED
      BY <2>1, <3>1
  <2>2. CASE \/ \E b \in Bindings, d \in 1..MaxDeadline : mark_awaiting_approval(q, b, d)
             \/ \E r \in Approvers, d \in Decisions, b \in Bindings, t \in 0..now :
                     submit_bound_once(q, r, d, b, t)
             \/ \E a \in approvals : mark_rejected(q, a)
             \/ \E a \in approvals : mark_verifier_aborted(q, a)
             \/ \E a \in approvals, b \in Bundles, p \in Plans, g \in Bindings,
                    d \in 1..MaxDeadline : mark_needs_reapproval(q, a, b, p, g, d)
    BY <2>2 DEF mark_awaiting_approval, submit_bound_once, mark_rejected, mark_verifier_aborted,
                mark_needs_reapproval
  <2> QED
    BY <1>3, <2>1, <2>2 DEF DecisionNext
<1>4. CASE SignalNext \/ Tick \/ UNCHANGED storeVars
  BY <1>4 DEF SignalNext, upsert_detected, create_successor, reconcile_terminal_links, Tick,
              storeVars, opVars
<1> QED
  BY <1>1, <1>2, <1>3, <1>4 DEF Next

\* A transition leaves a signal as it is, or settles it.
LEMMA TransitionSettles ==
    ASSUME TypeOK, NEW o \in Operations, NEW target, update_linked_signal(o, target),
           NEW s \in Signals
    PROVE  \/ signals'[s] = signals[s]
           \/ signals'[s].status \in {"resolved", "attention_required"}
BY DEF update_linked_signal, signal_status_for_operation_terminal, TypeOK, SignalRows

\* Only create puts a signal under investigation.
LEMMA InvestigatingStep ==
    ASSUME TypeOK, [Next]_storeVars, NEW s \in Signals, signals'[s].status = "investigating"
    PROVE  \/ signals'[s] = signals[s]
           \/ \E o \in Operations : \E req \in Requests : create(o, req) /\ signals'[s].op = o
<1>1. ASSUME NEW o \in Operations, NEW target, update_linked_signal(o, target)
      PROVE  signals'[s] = signals[s]
  BY <1>1, TransitionSettles
<1>2. ASSUME NEW o \in Operations, InvestigationNext(o)
      PROVE  \/ signals'[s] = signals[s]
             \/ \E req \in Requests : create(o, req) /\ signals'[s].op = o
  <2>1. CASE \E req \in Requests : create(o, req)
    <3>1. PICK req \in Requests : create(o, req)
      BY <2>1
    <3>2. CASE req.signal = NoValue \/ req.signal # s
      BY <3>1, <3>2 DEF create, TypeOK
    <3>3. CASE req.signal # NoValue /\ req.signal = s
      <4>1. signals' = [signals EXCEPT ![s].status = "investigating", ![s].op = o]
        BY <3>1, <3>3 DEF create
      <4>2. signals'[s].op = o
        BY <4>1 DEF TypeOK, SignalRows
      <4> QED
        BY <3>1, <4>2
    <3> QED
      BY <3>2, <3>3
  <2>2. CASE \/ mark_gathering_evidence(o)
             \/ \E b \in Bundles : record_evidence(o, b)
             \/ \E b \in Bundles, p \in Plans \cup {NoValue} : record_validated_plan(o, b, p)
             \/ \E b \in Bundles : record_query_assessment(o, b)
             \/ mark_reporting(o)
             \/ \E outcome \in NoActionOutcomes : complete_without_replenishment(o, outcome)
    <3>1. \E target : update_linked_signal(o, target)
      BY <2>2 DEF mark_gathering_evidence, record_evidence, record_validated_plan,
                  record_query_assessment, mark_reporting, complete_without_replenishment,
                  transition
    <3> QED
      BY <1>1, <3>1
  <2> QED
    BY <1>2, <2>1, <2>2 DEF InvestigationNext
<1>3. ASSUME NEW o \in Operations, DecisionNext(o)
      PROVE  signals'[s] = signals[s]
  <2>1. (\E target : update_linked_signal(o, target)) \/ signals' = signals
    BY <1>3 DEF DecisionNext, mark_awaiting_approval, mark_expired, submit_bound_once_expired,
                submit_bound_once, mark_rejected, mark_verifier_aborted,
                mark_needs_reapproval, transition
  <2> QED
    BY <1>1, <2>1
<1>4. ASSUME NEW o \in Operations, ExecutionNext(o)
      PROVE  signals'[s] = signals[s]
  <2>1. (\E target : update_linked_signal(o, target)) \/ signals' = signals
    BY <1>4 DEF ExecutionNext, mark_executing, create_or_get, mark_verifying, mark_completed,
                mark_failed, transition
  <2> QED
    BY <1>1, <2>1
<1>5. CASE SignalNext
  <2>1. CASE reconcile_terminal_links
    BY <2>1 DEF reconcile_terminal_links, signal_status_for_operation_terminal, TypeOK, SignalRows
  <2>2. CASE \/ \E r \in Signals, d \in Drafts : upsert_detected(r, d)
             \/ \E r, p \in Signals : create_successor(r, p)
    BY <2>2 DEF upsert_detected, create_successor, TypeOK
  <2> QED
    BY <1>5, <2>1, <2>2 DEF SignalNext
<1>6. CASE Tick \/ UNCHANGED storeVars
  BY <1>6 DEF Tick, storeVars
<1> QED
  BY <1>2, <1>3, <1>4, <1>5, <1>6 DEF Next

\* A signal is left behind by a late decision, or was so before.
LEMMA LeftBehindStep ==
    ASSUME TypeOK, SignalInv, [Next]_storeVars, NEW s \in Signals, left_behind(s)'
    PROVE  \/ left_behind(s)
           \/ \E t \in 0..now : submit_bound_once_expired(signals[s].op, t)
<1>1. PICK o \in Operations : o = signals'[s].op
  <2>1. TypeOK'
    BY NextType
  <2>2. signals'[s].op \in Operations \cup {NoValue} /\ signals'[s].op # NoValue
    BY <2>1 DEF TypeOK, SignalRows, left_behind
  <2> QED
    BY <2>2
<1>2. status'[o] = "expired" /\ signals'[s].status = "investigating"
  BY <1>1 DEF left_behind
<1>3. signals'[s] = signals[s]
  <2>1. ASSUME NEW q \in Operations, NEW req \in Requests, create(q, req), signals'[s].op = q
        PROVE  FALSE
    BY <1>1, <1>2, <2>1 DEF create, TypeOK
  <2> QED
    BY <1>2, <2>1, InvestigatingStep
<1>4. signals[s].op = o /\ signals[s].status = "investigating" /\ o # NoValue
  BY <1>1, <1>2, <1>3 DEF left_behind
<1>5. CASE status[o] = "expired"
  BY <1>4, <1>5 DEF left_behind
<1>6. CASE status[o] # "expired"
  <2>1. PICK t \in 0..now : mark_expired(o, t) \/ submit_bound_once_expired(o, t)
    BY <1>2, <1>6, ExpiringStep
  <2>2. ~ mark_expired(o, t)
    <3> SUFFICES ASSUME mark_expired(o, t) PROVE FALSE
      OBVIOUS
    <3>1. update_linked_signal(o, "expired")
      BY DEF mark_expired, transition
    <3>2. signals'[s].status = signal_status_for_operation_terminal("expired")
      BY <1>4, <3>1 DEF update_linked_signal, Terminal, TypeOK, SignalRows
    <3> QED
      BY <1>2, <3>2 DEF signal_status_for_operation_terminal
  <2> QED
    BY <1>4, <2>1, <2>2
<1> QED
  BY <1>5, <1>6

\* A signal is settled in the transaction that ends its operation, as that
\* operation ended; only the transaction of a late decision leaves it behind.
THEOREM StoreSignalFollowsOperation == Spec => SignalFollowsOperation
<1>1. TypeOK /\ SignalInv /\ SignalInv' /\ [Next]_storeVars
      => [\A s \in Signals :
            follows(s)' \/ /\ left_behind(s)'
                           /\ \/ left_behind(s)
                              \/ \E t \in 0..now : submit_bound_once_expired(signals[s].op, t)]_storeVars
  <2> SUFFICES ASSUME TypeOK, SignalInv, SignalInv', [Next]_storeVars, NEW s \in Signals,
                      ~ follows(s)'
               PROVE  /\ left_behind(s)'
                      /\ \/ left_behind(s)
                         \/ \E t \in 0..now : submit_bound_once_expired(signals[s].op, t)
    OBVIOUS
  <2>1. left_behind(s)'
    BY DEF SignalInv, SignalFollows, follows, left_behind
  <2> QED
    BY <2>1, LeftBehindStep
<1>2. Spec => [](TypeOK /\ SignalInv)
  BY StoreTypes, StoreSignalInv, PTL
<1> QED
  BY <1>1, <1>2, PTL DEF Spec, SignalFollowsOperation

\* Retries form chains without forks, and what is retried stays as it is.
THEOREM StoreSignalLineage == Spec => []SignalLineage
<1>1. SignalInv => SignalLineage
  BY DEF SignalInv
<1> QED
  BY <1>1, StoreSignalInv, PTL

-----------------------------------------------------------------------------
(* The audit trail *)

Decided == {"resuming", "executing", "verifying"}

\* While an operation is on its way from a decision to its write, the decision
\* of its current cycle is recorded and nothing has withdrawn it since.
DecisionStands(o) ==
    status[o] \in Decided => \A a \in approvals : current_approval(o, a) =>
        \E j \in 1..Len(audit[o]) :
            /\ audit[o][j].type = "approval_recorded"
            /\ audit[o][j].payload = a
            /\ \A k \in j+1..Len(audit[o]) :
                   audit[o][k].type \notin {"approval_recorded", "reapproval_requested"}

\* WriteFollowsApproval is about the past: what makes it inductive is that the
\* approval a write relies on is the last decision in the trail.
TrailInv ==
    /\ AuditExplainsRow
    /\ WriteFollowsApproval
    /\ \A o \in Operations : DecisionStands(o)

\* A transaction that writes an operation adds one event to its trail, of one
\* of three kinds: a new status, a decision, or the work order.
WritesStatus(o, type) ==
    /\ type \in DOMAIN StatusAfter \ {"approval_recorded"}
    /\ status'[o] = StatusAfter[type]
    /\ status'[o] \in Decided => status[o] \in Decided /\ cycle'[o] = cycle[o]
    /\ UNCHANGED <<approvals, workOrders>>

WritesDecision(o, type, a) ==
    /\ type = "approval_recorded"
    /\ status'[o] = "resuming"
    /\ a.op = o /\ a.cycle = cycle[o]
    /\ \A b \in approvals : ~ current_approval(o, b)
    /\ approvals' = approvals \cup {a}
    /\ UNCHANGED <<cycle, workOrders>>

WritesOrder(o, type, payload) ==
    /\ type = "work_order_created"
    /\ work_order_of(o) = {}
    /\ write_authorized(o)
    /\ workOrders' = workOrders \cup {[op |-> o, payload |-> payload]}
    /\ UNCHANGED <<status, cycle, approvals>>

WritesEvent(o, type, payload) ==
    /\ append_event(o, type, payload)
    /\ \A q \in Operations : q # o => status'[q] = status[q] /\ cycle'[q] = cycle[q]
    /\ WritesStatus(o, type) \/ WritesDecision(o, type, payload) \/ WritesOrder(o, type, payload)

\* The table of statuses and the one event that is not in it.
LEMMA StatusTable ==
    /\ StatusAfter["operation_received"] = "received"
    /\ StatusAfter["evidence_gathering_started"] = "gathering_evidence"
    /\ StatusAfter["evidence_recorded"] = "planning"
    /\ StatusAfter["plan_validated"] = "validating"
    /\ StatusAfter["query_assessed"] = "validating"
    /\ StatusAfter["reporting_started"] = "reporting"
    /\ StatusAfter["approval_requested"] = "awaiting_approval"
    /\ StatusAfter["approval_recorded"] = "resuming"
    /\ StatusAfter["reapproval_requested"] = "needs_reapproval"
    /\ StatusAfter["verification_aborted"] = "aborted"
    /\ StatusAfter["approval_expired"] = "expired"
    /\ StatusAfter["execution_started"] = "executing"
    /\ StatusAfter["verification_started"] = "verifying"
    /\ StatusAfter["operation_completed"] = "completed"
    /\ StatusAfter["operation_rejected"] = "rejected"
    /\ StatusAfter["operation_failed"] = "failed"
BY DEF StatusAfter

\* The events that come with a status.
LEMMA StatusEventNames ==
    DOMAIN StatusAfter =
        {"operation_received", "evidence_gathering_started", "evidence_recorded",
         "plan_validated", "query_assessed", "reporting_started",
         "approval_requested", "approval_recorded", "reapproval_requested",
         "verification_aborted", "approval_expired", "execution_started",
         "verification_started", "operation_completed", "operation_rejected",
         "operation_failed"}
BY DEF StatusAfter

\* What an event leaves an operation in is one of the statuses.
LEMMA StatusAfterIsStatus == \A type \in DOMAIN StatusAfter : StatusAfter[type] \in Statuses
BY StatusTable, StatusEventNames DEF Statuses, Active, Terminal

\* What append_event does to the trail of its operation and to the others.
LEMMA AppendedEvent ==
    ASSUME TypeOK, NEW o \in Operations, NEW type, NEW payload, append_event(o, type, payload)
    PROVE  /\ Len(audit[o]) \in Nat
           /\ Len(audit'[o]) = Len(audit[o]) + 1
           /\ \A i \in 1..Len(audit[o]) : audit'[o][i] = audit[o][i]
           /\ audit'[o][Len(audit[o]) + 1].seq = auditSeq[o] + 1
           /\ audit'[o][Len(audit[o]) + 1].type = type
           /\ audit'[o][Len(audit[o]) + 1].payload = payload
           /\ auditSeq'[o] = auditSeq[o] + 1
           /\ audit'[o] # <<>>
           /\ \A q \in Operations : q # o => audit'[q] = audit[q] /\ auditSeq'[q] = auditSeq[q]
<1> DEFINE e == [seq |-> auditSeq[o] + 1, type |-> type, payload |-> payload]
<1>1. audit[o] \in Seq(Events)
  BY DEF TypeOK
<1>2. audit'[o] = Append(audit[o], e) /\ auditSeq'[o] = auditSeq[o] + 1
  BY DEF append_event, TypeOK
<1>3. e.seq = auditSeq[o] + 1 /\ e.type = type /\ e.payload = payload
  OBVIOUS
<1>4. \A q \in Operations : q # o => audit'[q] = audit[q] /\ auditSeq'[q] = auditSeq[q]
  BY DEF append_event, TypeOK
<1> HIDE DEF e
<1>5. /\ Len(audit'[o]) = Len(audit[o]) + 1
      /\ Len(audit[o]) \in Nat
      /\ audit'[o][Len(audit[o]) + 1] = e
      /\ \A i \in 1..Len(audit[o]) : audit'[o][i] = audit[o][i]
  BY <1>1, <1>2
<1> QED
  BY <1>2, <1>3, <1>4, <1>5

\* The payloads recorded under a type grow by the new event's payload.
LEMMA RecordedGrows ==
    ASSUME TypeOK, NEW o \in Operations, NEW type, NEW payload, append_event(o, type, payload),
           NEW T
    PROVE  /\ type = T => recorded(o, T)' = recorded(o, T) \cup {payload}
           /\ type # T => recorded(o, T)' = recorded(o, T)
<1> DEFINE n == Len(audit[o])
<1>1. /\ n \in Nat
      /\ Len(audit'[o]) = n + 1
      /\ \A i \in 1..n : audit'[o][i] = audit[o][i]
      /\ audit'[o][n + 1].type = type
      /\ audit'[o][n + 1].payload = payload
  BY AppendedEvent
<1>2. recorded(o, T)' = {audit'[o][i].payload : i \in {j \in 1..(n + 1) : audit'[o][j].type = T}}
  BY <1>1 DEF recorded
<1>3. recorded(o, T) = {audit[o][i].payload : i \in {j \in 1..n : audit[o][j].type = T}}
  BY DEF recorded
<1> HIDE DEF n
<1>4. 1..(n + 1) = 1..n \cup {n + 1}
  BY <1>1
<1>5. \A x : x \in recorded(o, T)' <=>
              \/ \E j \in 1..n : audit'[o][j].type = T /\ audit'[o][j].payload = x
              \/ type = T /\ payload = x
  BY <1>1, <1>2, <1>4
<1>6. \A x : x \in recorded(o, T) <=>
              \E j \in 1..n : audit'[o][j].type = T /\ audit'[o][j].payload = x
  BY <1>1, <1>3
<1> QED
  BY <1>5, <1>6

\* AuditExplainsRow and WriteFollowsApproval for one operation.
RowExplained(o) ==
    /\ auditSeq[o] = Len(audit[o])
    /\ \A i \in 1..Len(audit[o]) : audit[o][i].seq = i
    /\ status[o] = "absent" <=> audit[o] = <<>>
    /\ \A i \in 1..Len(audit[o]) :
        (/\ status_event(audit[o][i])
         /\ \A j \in i+1..Len(audit[o]) : ~ status_event(audit[o][j]))
            => status[o] = StatusAfter[audit[o][i].type]
    /\ {a \in approvals : a.op = o} = recorded(o, "approval_recorded")
    /\ {w.payload : w \in work_order_of(o)} = recorded(o, "work_order_created")

WriteFollows(o) ==
    /\ \A v, w \in work_order_of(o) : v = w
    /\ \A i \in 1..Len(audit[o]) : audit[o][i].type = "work_order_created" =>
        \E j \in 1..(i - 1) :
            /\ audit[o][j].type = "approval_recorded"
            /\ audit[o][j].payload.decision = "approved"
            /\ \A k \in j+1..(i - 1) :
                audit[o][k].type \notin {"approval_recorded", "reapproval_requested"}

\* The invariant of the trail, operation by operation.
LEMMA TrailByOperation ==
    TrailInv <=> \A o \in Operations : RowExplained(o) /\ WriteFollows(o) /\ DecisionStands(o)
BY DEF TrailInv, AuditExplainsRow, WriteFollowsApproval, RowExplained, WriteFollows

\* An operation whose row, events, approvals and work orders stay.
LEMMA TrailUntouched ==
    ASSUME NEW q \in Operations, RowExplained(q), WriteFollows(q), DecisionStands(q),
           status'[q] = status[q], cycle'[q] = cycle[q],
           audit'[q] = audit[q], auditSeq'[q] = auditSeq[q],
           {a \in approvals' : a.op = q} = {a \in approvals : a.op = q},
           {w \in workOrders' : w.op = q} = {w \in workOrders : w.op = q}
    PROVE  RowExplained(q)' /\ WriteFollows(q)' /\ DecisionStands(q)'
<1>1. /\ recorded(q, "approval_recorded")' = recorded(q, "approval_recorded")
      /\ recorded(q, "work_order_created")' = recorded(q, "work_order_created")
      /\ work_order_of(q)' = work_order_of(q)
  BY DEF recorded, work_order_of
<1>2. RowExplained(q)'
  BY <1>1 DEF RowExplained, status_event
<1>3. WriteFollows(q)'
  BY <1>1 DEF WriteFollows
<1>4. \A a : (a \in approvals' /\ current_approval(q, a)') <=> (a \in approvals /\ current_approval(q, a))
  BY DEF current_approval
<1>5. DecisionStands(q)'
  BY <1>4 DEF DecisionStands
<1> QED
  BY <1>2, <1>3, <1>5

\* The new event is last, carries the next number and, if it is about the
\* status, tells the new one.
LEMMA NewEventExplains ==
    ASSUME TypeOK, NEW o \in Operations, NEW type, NEW payload, append_event(o, type, payload),
           RowExplained(o),
           status'[o] # "absent",
           IF type \in DOMAIN StatusAfter THEN status'[o] = StatusAfter[type]
                                          ELSE status'[o] = status[o]
    PROVE  /\ auditSeq'[o] = Len(audit'[o])
           /\ \A i \in 1..Len(audit'[o]) : audit'[o][i].seq = i
           /\ status'[o] = "absent" <=> audit'[o] = <<>>
           /\ \A i \in 1..Len(audit'[o]) :
                (/\ status_event(audit'[o][i])
                 /\ \A j \in i+1..Len(audit'[o]) : ~ status_event(audit'[o][j]))
                    => status'[o] = StatusAfter[audit'[o][i].type]
<1> DEFINE n == Len(audit[o])
<1>1. /\ n \in Nat
      /\ Len(audit'[o]) = n + 1
      /\ \A i \in 1..n : audit'[o][i] = audit[o][i]
      /\ audit'[o][n + 1].seq = auditSeq[o] + 1
      /\ audit'[o][n + 1].type = type
      /\ auditSeq'[o] = auditSeq[o] + 1
      /\ audit'[o] # <<>>
  BY AppendedEvent
<1>2. /\ auditSeq[o] = n
      /\ \A i \in 1..n : audit[o][i].seq = i
      /\ \A i \in 1..n :
            (/\ status_event(audit[o][i])
             /\ \A j \in i+1..n : ~ status_event(audit[o][j]))
                => status[o] = StatusAfter[audit[o][i].type]
  BY DEF RowExplained
<1> HIDE DEF n
<1>3. \A i \in 1..(n + 1) : i \in 1..n \/ i = n + 1
  BY <1>1
<1>4. \A i \in 1..(n + 1) : audit'[o][i].seq = i
  BY <1>1, <1>2, <1>3
<1>5. ASSUME NEW i \in 1..(n + 1), status_event(audit'[o][i]),
             \A j \in i+1..(n + 1) : ~ status_event(audit'[o][j])
      PROVE  status'[o] = StatusAfter[audit'[o][i].type]
  <2>1. CASE i = n + 1
    BY <1>1, <1>5, <2>1 DEF status_event
  <2>2. CASE i \in 1..n
    <3>1. n + 1 \in i+1..(n + 1)
      BY <1>1, <2>2
    <3>2. type \notin DOMAIN StatusAfter
      BY <1>1, <1>5, <3>1 DEF status_event
    <3>3. \A j \in i+1..n : ~ status_event(audit[o][j])
      BY <1>1, <1>5, <2>2
    <3> QED
      BY <1>1, <1>2, <1>5, <2>2, <3>2, <3>3
  <2> QED
    BY <1>3, <2>1, <2>2
<1> QED
  BY <1>1, <1>2, <1>4, <1>5

\* An event that writes no work order leaves the earlier writes as they were.
LEMMA OldWritesFollow ==
    ASSUME TypeOK, NEW o \in Operations, NEW type, NEW payload, append_event(o, type, payload),
           WriteFollows(o), type # "work_order_created", UNCHANGED workOrders
    PROVE  WriteFollows(o)'
<1> DEFINE n == Len(audit[o])
<1>1. /\ n \in Nat
      /\ Len(audit'[o]) = n + 1
      /\ \A i \in 1..n : audit'[o][i] = audit[o][i]
      /\ audit'[o][n + 1].type = type
  BY AppendedEvent
<1>2. \A v, w \in work_order_of(o)' : v = w
  BY DEF WriteFollows, work_order_of
<1>3. \A i \in 1..n : audit[o][i].type = "work_order_created" =>
        \E j \in 1..(i - 1) :
            /\ audit[o][j].type = "approval_recorded"
            /\ audit[o][j].payload.decision = "approved"
            /\ \A k \in j+1..(i - 1) :
                audit[o][k].type \notin {"approval_recorded", "reapproval_requested"}
  BY DEF WriteFollows
<1> HIDE DEF n
<1>4. ASSUME NEW i \in 1..(n + 1), audit'[o][i].type = "work_order_created"
      PROVE  \E j \in 1..(i - 1) :
                /\ audit'[o][j].type = "approval_recorded"
                /\ audit'[o][j].payload.decision = "approved"
                /\ \A k \in j+1..(i - 1) :
                    audit'[o][k].type \notin {"approval_recorded", "reapproval_requested"}
  <2>1. i \in 1..n
    BY <1>1, <1>4
  <2>2. audit[o][i].type = "work_order_created"
    BY <1>1, <1>4, <2>1
  <2>3. PICK j \in 1..(i - 1) :
                /\ audit[o][j].type = "approval_recorded"
                /\ audit[o][j].payload.decision = "approved"
                /\ \A k \in j+1..(i - 1) :
                    audit[o][k].type \notin {"approval_recorded", "reapproval_requested"}
    BY <1>3, <2>1, <2>2
  <2>4. \A k \in 1..(i - 1) : audit'[o][k] = audit[o][k]
    BY <1>1, <2>1
  <2>5. \A k \in j+1..(i - 1) : k \in 1..(i - 1)
    BY <2>1
  <2> QED
    BY <2>3, <2>4, <2>5
<1> QED
  BY <1>1, <1>2, <1>4 DEF WriteFollows

\* A decision that stands is not withdrawn by an event of another type.
LEMMA DecisionStillStands ==
    ASSUME TypeOK, NEW o \in Operations, NEW type, NEW payload, append_event(o, type, payload),
           DecisionStands(o), status[o] \in Decided,
           cycle'[o] = cycle[o], UNCHANGED approvals,
           type \notin {"approval_recorded", "reapproval_requested"}
    PROVE  DecisionStands(o)'
<1> DEFINE n == Len(audit[o])
<1>1. /\ n \in Nat
      /\ Len(audit'[o]) = n + 1
      /\ \A i \in 1..n : audit'[o][i] = audit[o][i]
      /\ audit'[o][n + 1].type = type
  BY AppendedEvent
<1>2. ASSUME NEW a \in approvals, a.op = o, a.cycle = cycle[o]
      PROVE  \E j \in 1..(n + 1) :
                /\ audit'[o][j].type = "approval_recorded"
                /\ audit'[o][j].payload = a
                /\ \A k \in j+1..(n + 1) :
                    audit'[o][k].type \notin {"approval_recorded", "reapproval_requested"}
  <2>1. PICK j \in 1..n :
                /\ audit[o][j].type = "approval_recorded"
                /\ audit[o][j].payload = a
                /\ \A k \in j+1..n :
                    audit[o][k].type \notin {"approval_recorded", "reapproval_requested"}
    BY <1>2 DEF DecisionStands, current_approval
  <2> HIDE DEF n
  <2>2. j \in 1..(n + 1) /\ audit'[o][j] = audit[o][j]
    BY <1>1
  <2>3. \A k \in j+1..(n + 1) : k = n + 1 \/ (k \in j+1..n /\ audit'[o][k] = audit[o][k])
    BY <1>1
  <2> QED
    BY <1>1, <2>1, <2>2, <2>3
<1> QED
  BY <1>1, <1>2 DEF DecisionStands, current_approval

\* A transaction that moves an operation to another status.
LEMMA StatusTrail ==
    ASSUME TypeOK, TrailInv, NEW o \in Operations, NEW type, NEW payload,
           append_event(o, type, payload), WritesStatus(o, type)
    PROVE  RowExplained(o)' /\ WriteFollows(o)' /\ DecisionStands(o)'
<1>1. RowExplained(o) /\ WriteFollows(o) /\ DecisionStands(o)
  BY TrailByOperation
<1>2. /\ type \in DOMAIN StatusAfter /\ type # "approval_recorded" /\ type # "work_order_created"
      /\ status'[o] = StatusAfter[type] /\ status'[o] \in Statuses
      /\ UNCHANGED <<approvals, workOrders>>
  BY StatusEventNames, StatusAfterIsStatus DEF WritesStatus
<1>3. status'[o] # "absent"
  BY <1>2 DEF Statuses, Active, Terminal
<1>4. /\ recorded(o, "approval_recorded")' = recorded(o, "approval_recorded")
      /\ recorded(o, "work_order_created")' = recorded(o, "work_order_created")
  BY <1>2, RecordedGrows
<1>5. RowExplained(o)'
  <2>1. work_order_of(o)' = work_order_of(o)
    BY <1>2 DEF work_order_of
  <2>2. /\ {a \in approvals : a.op = o} = recorded(o, "approval_recorded")
        /\ {w.payload : w \in work_order_of(o)} = recorded(o, "work_order_created")
    BY <1>1 DEF RowExplained
  <2>3. /\ {a \in approvals' : a.op = o} = recorded(o, "approval_recorded")'
        /\ {w.payload : w \in work_order_of(o)'} = recorded(o, "work_order_created")'
    BY <1>2, <1>4, <2>1, <2>2
  <2> QED
    BY <1>1, <1>2, <1>3, <2>3, NewEventExplains DEF RowExplained
<1>6. WriteFollows(o)'
  BY <1>1, <1>2, OldWritesFollow
<1>7. DecisionStands(o)'
  <2>1. CASE status'[o] \in Decided
    <3>1. type # "reapproval_requested"
      BY <1>2, <2>1, StatusTable DEF Decided
    <3> QED
      BY <1>1, <1>2, <2>1, <3>1, DecisionStillStands DEF WritesStatus
  <2>2. CASE status'[o] \notin Decided
    BY <2>2 DEF DecisionStands
  <2> QED
    BY <2>1, <2>2
<1> QED
  BY <1>5, <1>6, <1>7

\* The transaction that records a decision.
LEMMA DecisionTrail ==
    ASSUME TypeOK, TrailInv, NEW o \in Operations, NEW type, NEW a,
           append_event(o, type, a), WritesDecision(o, type, a)
    PROVE  RowExplained(o)' /\ WriteFollows(o)' /\ DecisionStands(o)'
<1>1. RowExplained(o) /\ WriteFollows(o) /\ DecisionStands(o)
  BY TrailByOperation
<1>2. /\ type = "approval_recorded" /\ type \in DOMAIN StatusAfter
      /\ status'[o] = StatusAfter[type] /\ status'[o] = "resuming"
      /\ a.op = o /\ approvals' = approvals \cup {a}
      /\ UNCHANGED <<cycle, workOrders>>
  BY StatusEventNames, StatusTable DEF WritesDecision
<1>3. /\ recorded(o, "approval_recorded")' = recorded(o, "approval_recorded") \cup {a}
      /\ recorded(o, "work_order_created")' = recorded(o, "work_order_created")
  BY <1>2, RecordedGrows
<1>4. RowExplained(o)'
  <2>1. work_order_of(o)' = work_order_of(o)
    BY <1>2 DEF work_order_of
  <2>2. /\ {b \in approvals : b.op = o} = recorded(o, "approval_recorded")
        /\ {w.payload : w \in work_order_of(o)} = recorded(o, "work_order_created")
    BY <1>1 DEF RowExplained
  <2>3. /\ {b \in approvals' : b.op = o} = recorded(o, "approval_recorded")'
        /\ {w.payload : w \in work_order_of(o)'} = recorded(o, "work_order_created")'
    BY <1>2, <1>3, <2>1, <2>2
  <2> QED
    BY <1>1, <1>2, <2>3, NewEventExplains DEF RowExplained
<1>5. WriteFollows(o)'
  BY <1>1, <1>2, OldWritesFollow
<1>6. DecisionStands(o)'
  <2> DEFINE n == Len(audit[o])
  <2>1. /\ n \in Nat
        /\ Len(audit'[o]) = n + 1
        /\ audit'[o][n + 1].type = type
        /\ audit'[o][n + 1].payload = a
    BY AppendedEvent
  <2>2. \A b \in approvals' : current_approval(o, b)' => b = a
    BY <1>2 DEF WritesDecision, current_approval
  <2> HIDE DEF n
  <2>3. n + 1 \in 1..(n + 1) /\ (n + 1)+1..(n + 1) = {}
    BY <2>1
  <2> QED
    BY <1>2, <2>1, <2>2, <2>3 DEF DecisionStands
<1> QED
  BY <1>4, <1>5, <1>6

\* The transaction that writes the work order.
LEMMA OrderTrail ==
    ASSUME TypeOK, TrailInv, NEW o \in Operations, NEW type, NEW payload,
           append_event(o, type, payload), WritesOrder(o, type, payload)
    PROVE  RowExplained(o)' /\ WriteFollows(o)' /\ DecisionStands(o)'
<1>1. RowExplained(o) /\ WriteFollows(o) /\ DecisionStands(o)
  BY TrailByOperation
<1>2. /\ type = "work_order_created" /\ type \notin DOMAIN StatusAfter
      /\ workOrders' = workOrders \cup {[op |-> o, payload |-> payload]}
      /\ work_order_of(o) = {}
      /\ UNCHANGED <<status, cycle, approvals>>
      /\ status[o] \in Decided
  BY StatusEventNames DEF WritesOrder, write_authorized, Decided
<1>3. /\ recorded(o, "approval_recorded")' = recorded(o, "approval_recorded")
      /\ recorded(o, "work_order_created")' = recorded(o, "work_order_created") \cup {payload}
  BY <1>2, RecordedGrows
<1>4. work_order_of(o)' = {[op |-> o, payload |-> payload]}
  BY <1>2 DEF work_order_of
<1>5. RowExplained(o)'
  <2>1. /\ {b \in approvals : b.op = o} = recorded(o, "approval_recorded")
        /\ {w.payload : w \in work_order_of(o)} = recorded(o, "work_order_created")
    BY <1>1 DEF RowExplained
  <2>2. recorded(o, "work_order_created") = {}
    BY <1>2, <2>1
  <2>3. {w.payload : w \in work_order_of(o)'} = {payload}
    BY <1>4
  <2>4. /\ {b \in approvals' : b.op = o} = recorded(o, "approval_recorded")'
        /\ {w.payload : w \in work_order_of(o)'} = recorded(o, "work_order_created")'
    BY <1>2, <1>3, <2>1, <2>2, <2>3
  <2>5. status'[o] # "absent" /\ status'[o] = status[o]
    BY <1>2 DEF Decided
  <2> QED
    BY <1>1, <1>2, <2>4, <2>5, NewEventExplains DEF RowExplained
<1>6. WriteFollows(o)'
  <2> DEFINE n == Len(audit[o])
  <2>1. /\ n \in Nat
        /\ Len(audit'[o]) = n + 1
        /\ \A i \in 1..n : audit'[o][i] = audit[o][i]
    BY AppendedEvent
  <2>2. \A v, w \in work_order_of(o)' : v = w
    BY <1>4
  <2>3. PICK a \in approvals : a.op = o /\ a.cycle = cycle[o] /\ a.decision = "approved"
    BY DEF WritesOrder, write_authorized
  <2>4. PICK d \in 1..n :
            /\ audit[o][d].type = "approval_recorded"
            /\ audit[o][d].payload = a
            /\ \A k \in d+1..n :
                 audit[o][k].type \notin {"approval_recorded", "reapproval_requested"}
    BY <1>1, <1>2, <2>3 DEF DecisionStands, current_approval
  <2>5. \A i \in 1..n : audit[o][i].type = "work_order_created" =>
          \E j \in 1..(i - 1) :
              /\ audit[o][j].type = "approval_recorded"
              /\ audit[o][j].payload.decision = "approved"
              /\ \A k \in j+1..(i - 1) :
                  audit[o][k].type \notin {"approval_recorded", "reapproval_requested"}
    BY <1>1 DEF WriteFollows
  <2> HIDE DEF n
  <2>6. ASSUME NEW i \in 1..(n + 1), audit'[o][i].type = "work_order_created"
        PROVE  \E j \in 1..(i - 1) :
                  /\ audit'[o][j].type = "approval_recorded"
                  /\ audit'[o][j].payload.decision = "approved"
                  /\ \A k \in j+1..(i - 1) :
                      audit'[o][k].type \notin {"approval_recorded", "reapproval_requested"}
    <3>1. CASE i = n + 1
      <4>1. d \in 1..(i - 1) /\ audit'[o][d] = audit[o][d]
        BY <2>1, <3>1
      <4>2. \A k \in d+1..(i - 1) : k \in d+1..n /\ audit'[o][k] = audit[o][k]
        BY <2>1, <3>1
      <4> QED
        BY <2>3, <2>4, <4>1, <4>2
    <3>2. CASE i \in 1..n
      <4>1. PICK j \in 1..(i - 1) :
                  /\ audit[o][j].type = "approval_recorded"
                  /\ audit[o][j].payload.decision = "approved"
                  /\ \A k \in j+1..(i - 1) :
                      audit[o][k].type \notin {"approval_recorded", "reapproval_requested"}
        BY <2>1, <2>5, <2>6, <3>2
      <4>2. \A k \in 1..(i - 1) : audit'[o][k] = audit[o][k]
        BY <2>1, <3>2
      <4>3. \A k \in j+1..(i - 1) : k \in 1..(i - 1)
        BY <3>2
      <4> QED
        BY <4>1, <4>2, <4>3
    <3> QED
      BY <2>1, <3>1, <3>2
  <2> QED
    BY <2>1, <2>2, <2>6 DEF WriteFollows
<1>7. DecisionStands(o)'
  BY <1>1, <1>2, DecisionStillStands
<1> QED
  BY <1>5, <1>6, <1>7

\* Whatever event a transaction writes, the trail stays sound.
LEMMA EventTrail ==
    ASSUME TypeOK, TrailInv, NEW o \in Operations, NEW type, NEW payload,
           WritesEvent(o, type, payload)
    PROVE  TrailInv'
<1>1. RowExplained(o)' /\ WriteFollows(o)' /\ DecisionStands(o)'
  BY StatusTrail, DecisionTrail, OrderTrail DEF WritesEvent
<1>2. ASSUME NEW q \in Operations, q # o
      PROVE  RowExplained(q)' /\ WriteFollows(q)' /\ DecisionStands(q)'
  <2>1. /\ {a \in approvals' : a.op = q} = {a \in approvals : a.op = q}
        /\ {w \in workOrders' : w.op = q} = {w \in workOrders : w.op = q}
    BY <1>2 DEF WritesEvent, WritesStatus, WritesDecision, WritesOrder
  <2>2. /\ status'[q] = status[q] /\ cycle'[q] = cycle[q]
        /\ audit'[q] = audit[q] /\ auditSeq'[q] = auditSeq[q]
    BY <1>2, AppendedEvent DEF WritesEvent
  <2>3. RowExplained(q) /\ WriteFollows(q) /\ DecisionStands(q)
    BY TrailByOperation
  <2> QED
    BY <2>1, <2>2, <2>3, TrailUntouched
<1>3. \A q \in Operations : RowExplained(q)' /\ WriteFollows(q)' /\ DecisionStands(q)'
  BY <1>1, <1>2
<1> QED
  BY <1>3 DEF TrailInv, AuditExplainsRow, WriteFollowsApproval, RowExplained, WriteFollows

\* A use of _transition writes its event and its status.
LEMMA TransitionEvent ==
    ASSUME TypeOK, NEW o \in Operations, NEW type \in DOMAIN StatusAfter \ {"approval_recorded"},
           NEW payload, transition(o, StatusAfter[type], type, payload),
           \A q \in Operations : q # o => cycle'[q] = cycle[q],
           StatusAfter[type] \in Decided => status[o] \in Decided /\ cycle'[o] = cycle[o]
    PROVE  WritesEvent(o, type, payload)
BY DEF transition, WritesEvent, WritesStatus, TypeOK

\* Each transaction of an investigation writes one event.
LEMMA InvestigationEvent ==
    ASSUME TypeOK, NEW o \in Operations, InvestigationNext(o)
    PROVE  \E type, payload : WritesEvent(o, type, payload)
<1> USE StatusTable, StatusEventNames, TransitionEvent DEF Decided
<1>1. CASE \E req \in Requests : create(o, req)
  <2>1. PICK req \in Requests : create(o, req)
    BY <1>1
  <2>2. WritesEvent(o, "operation_received", req)
    BY <2>1 DEF create, WritesEvent, WritesStatus, TypeOK
  <2> QED
    BY <2>2
<1>2. CASE mark_gathering_evidence(o)
  <2>1. WritesEvent(o, "evidence_gathering_started", NoValue)
    BY <1>2 DEF mark_gathering_evidence
  <2> QED
    BY <2>1
<1>3. CASE \E b \in Bundles : record_evidence(o, b)
  <2>1. PICK b \in Bundles : record_evidence(o, b)
    BY <1>3
  <2>2. WritesEvent(o, "evidence_recorded", b)
    BY <2>1 DEF record_evidence
  <2> QED
    BY <2>2
<1>4. CASE \E b \in Bundles, p \in Plans \cup {NoValue} : record_validated_plan(o, b, p)
  <2>1. PICK b \in Bundles, p \in Plans \cup {NoValue} : record_validated_plan(o, b, p)
    BY <1>4
  <2>2. WritesEvent(o, "plan_validated", b)
    BY <2>1 DEF record_validated_plan
  <2> QED
    BY <2>2
<1>5. CASE \E b \in Bundles : record_query_assessment(o, b)
  <2>1. PICK b \in Bundles : record_query_assessment(o, b)
    BY <1>5
  <2>2. WritesEvent(o, "query_assessed", b)
    BY <2>1 DEF record_query_assessment
  <2> QED
    BY <2>2
<1>6. CASE mark_reporting(o)
  <2>1. WritesEvent(o, "reporting_started", NoValue)
    BY <1>6 DEF mark_reporting
  <2> QED
    BY <2>1
<1>7. CASE \E outcome \in NoActionOutcomes : complete_without_replenishment(o, outcome)
  <2>1. PICK outcome \in NoActionOutcomes : complete_without_replenishment(o, outcome)
    BY <1>7
  <2>2. WritesEvent(o, "operation_completed", [outcome |-> outcome])
    BY <2>1 DEF complete_without_replenishment
  <2> QED
    BY <2>2
<1> QED
  BY <1>1, <1>2, <1>3, <1>4, <1>5, <1>6, <1>7 DEF InvestigationNext

\* Each transaction around a decision writes one event.
LEMMA DecisionEvent ==
    ASSUME TypeOK, NEW o \in Operations, DecisionNext(o)
    PROVE  \E type, payload : WritesEvent(o, type, payload)
<1> USE StatusTable, StatusEventNames, TransitionEvent DEF Decided
<1>1. CASE \E b \in Bindings, d \in 1..MaxDeadline : mark_awaiting_approval(o, b, d)
  <2>1. PICK b \in Bindings, d \in 1..MaxDeadline : mark_awaiting_approval(o, b, d)
    BY <1>1
  <2>2. \A q \in Operations : q # o => cycle'[q] = cycle[q]
    BY <2>1 DEF mark_awaiting_approval, TypeOK
  <2>3. WritesEvent(o, "approval_requested", [binding |-> b, deadline |-> d])
    BY <2>1, <2>2 DEF mark_awaiting_approval
  <2> QED
    BY <2>3
<1>2. CASE \E t \in 0..now : mark_expired(o, t)
  <2>1. WritesEvent(o, "approval_expired", [deadline |-> expires[o]])
    BY <1>2 DEF mark_expired
  <2> QED
    BY <2>1
<1>3. CASE \E t \in 0..now : submit_bound_once_expired(o, t)
  <2>1. WritesEvent(o, "approval_expired", [deadline |-> expires[o]])
    BY <1>3 DEF submit_bound_once_expired, WritesEvent, WritesStatus, TypeOK
  <2> QED
    BY <2>1
<1>4. CASE \E r \in Approvers, d \in Decisions, b \in Bindings, t \in 0..now :
               submit_bound_once(o, r, d, b, t)
  <2>1. PICK r \in Approvers, d \in Decisions, b \in Bindings, t \in 0..now :
               submit_bound_once(o, r, d, b, t)
    BY <1>4
  <2>2. WritesEvent(o, "approval_recorded",
                    [op |-> o, cycle |-> cycle[o], approver |-> r,
                     decision |-> d, binding |-> b, at |-> t])
    BY <2>1 DEF submit_bound_once, decision_open, current_approval,
                WritesEvent, WritesDecision, TypeOK
  <2> QED
    BY <2>2
<1>5. CASE \E a \in approvals : mark_rejected(o, a)
  <2>1. PICK a \in approvals : mark_rejected(o, a)
    BY <1>5
  <2>2. WritesEvent(o, "operation_rejected", a)
    BY <2>1 DEF mark_rejected
  <2> QED
    BY <2>2
<1>6. CASE \E a \in approvals : mark_verifier_aborted(o, a)
  <2>1. PICK a \in approvals : mark_verifier_aborted(o, a)
    BY <1>6
  <2>2. WritesEvent(o, "verification_aborted", a)
    BY <2>1 DEF mark_verifier_aborted
  <2> QED
    BY <2>2
<1>7. CASE \E a \in approvals, b \in Bundles, p \in Plans, g \in Bindings, d \in 1..MaxDeadline :
               mark_needs_reapproval(o, a, b, p, g, d)
  <2>1. PICK a \in approvals, b \in Bundles, p \in Plans, g \in Bindings, d \in 1..MaxDeadline :
               mark_needs_reapproval(o, a, b, p, g, d)
    BY <1>7
  <2>2. \A q \in Operations : q # o => cycle'[q] = cycle[q]
    BY <2>1 DEF mark_needs_reapproval, TypeOK
  <2>3. WritesEvent(o, "reapproval_requested", [approval |-> a, binding |-> g])
    BY <2>1, <2>2 DEF mark_needs_reapproval
  <2> QED
    BY <2>3
<1> QED
  BY <1>1, <1>2, <1>3, <1>4, <1>5, <1>6, <1>7 DEF DecisionNext

\* Each transaction of the controlled write writes one event.
LEMMA ExecutionEvent ==
    ASSUME TypeOK, NEW o \in Operations, ExecutionNext(o)
    PROVE  \E type, payload : WritesEvent(o, type, payload)
<1> USE StatusTable, StatusEventNames, TransitionEvent DEF Decided
<1>1. CASE \E a \in approvals : mark_executing(o, a)
  <2>1. PICK a \in approvals : mark_executing(o, a)
    BY <1>1
  <2>2. WritesEvent(o, "execution_started", a)
    BY <2>1 DEF mark_executing
  <2> QED
    BY <2>2
<1>2. CASE \E p \in Plans : create_or_get(o, p)
  <2>1. PICK p \in Plans : create_or_get(o, p)
    BY <1>2
  <2>2. WritesEvent(o, "work_order_created", p)
    BY <2>1 DEF create_or_get, WritesEvent, WritesOrder
  <2> QED
    BY <2>2
<1>3. CASE \E w \in workOrders : mark_verifying(o, w)
  <2>1. PICK w \in workOrders : mark_verifying(o, w)
    BY <1>3
  <2>2. WritesEvent(o, "verification_started", w)
    BY <2>1 DEF mark_verifying
  <2> QED
    BY <2>2
<1>4. CASE \E w \in workOrders : mark_completed(o, w)
  <2>1. WritesEvent(o, "operation_completed", [outcome |-> "work_order_completed"])
    BY <1>4 DEF mark_completed
  <2> QED
    BY <2>1
<1>5. CASE \E e \in Errors : mark_failed(o, e)
  <2>1. PICK e \in Errors : mark_failed(o, e)
    BY <1>5
  <2>2. WritesEvent(o, "operation_failed", e)
    BY <2>1 DEF mark_failed
  <2> QED
    BY <2>2
<1> QED
  BY <1>1, <1>2, <1>3, <1>4, <1>5 DEF ExecutionNext

\* Every step of the store keeps the trail sound.
LEMMA NextTrail ==
    ASSUME TypeOK, TrailInv, [Next]_storeVars
    PROVE  TrailInv'
<1>1. CASE UNCHANGED <<status, cycle, audit, auditSeq, approvals, workOrders>>
  <2>1. AuditExplainsRow'
    <3>1. \A o, T : recorded(o, T)' = recorded(o, T)
      BY <1>1 DEF recorded
    <3>2. \A o : work_order_of(o)' = work_order_of(o)
      BY <1>1 DEF work_order_of
    <3> QED
      BY <1>1, <3>1, <3>2 DEF TrailInv, AuditExplainsRow, status_event
  <2>2. WriteFollowsApproval'
    BY <1>1 DEF TrailInv, WriteFollowsApproval, work_order_of
  <2>3. \A o \in Operations : DecisionStands(o)'
    BY <1>1 DEF TrailInv, DecisionStands, current_approval
  <2> QED
    BY <2>1, <2>2, <2>3 DEF TrailInv
<1>2. CASE SignalNext \/ Tick \/ UNCHANGED storeVars
  BY <1>1, <1>2 DEF SignalNext, upsert_detected, create_successor, reconcile_terminal_links,
                    Tick, storeVars, opVars
<1>3. ASSUME NEW o \in Operations, InvestigationNext(o) \/ DecisionNext(o) \/ ExecutionNext(o)
      PROVE  TrailInv'
  BY <1>3, InvestigationEvent, DecisionEvent, ExecutionEvent, EventTrail
<1> QED
  BY <1>2, <1>3 DEF Next

\* An empty store has an empty trail.
LEMMA InitTrail == Init => TrailInv
<1> SUFFICES ASSUME Init
             PROVE  TrailInv
  OBVIOUS
<1>0. \A o \in Operations : audit[o] = <<>> /\ auditSeq[o] = 0 /\ status[o] = "absent"
  BY DEF Init
<1>e. Len(<<>>) = 0 /\ 1..0 = {}
  OBVIOUS
<1>1. \A o \in Operations : /\ audit[o] = <<>> /\ auditSeq[o] = 0 /\ status[o] = "absent"
                            /\ Len(audit[o]) = 0 /\ 1..Len(audit[o]) = {}
  BY <1>0, <1>e, Zenon
<1>2. approvals = {} /\ workOrders = {}
  BY DEF Init
<1> QED
  <2>1. \A o \in Operations : RowExplained(o)
    BY <1>1, <1>2 DEF RowExplained, recorded, work_order_of
  <2>2. \A o \in Operations : WriteFollows(o)
    BY <1>1, <1>2 DEF WriteFollows, work_order_of
  <2>3. \A o \in Operations : DecisionStands(o)
    BY <1>2 DEF DecisionStands
  <2> QED
    BY <2>1, <2>2, <2>3, TrailByOperation

\* The invariant of the trail in every behaviour of the store.
LEMMA StoreTrailInv == Spec => []TrailInv
<1>1. Init => TypeOK /\ TrailInv
  BY InitType, InitTrail
<1>2. TypeOK /\ TrailInv /\ [Next]_storeVars => (TypeOK /\ TrailInv)'
  BY NextType, NextTrail
<1> QED
  BY <1>1, <1>2, PTL DEF Spec

\* The events of an operation are numbered without a gap, tell its status and
\* account for every approval and work order in the tables.
THEOREM StoreAuditExplainsRow == Spec => []AuditExplainsRow
<1>1. TrailInv => AuditExplainsRow
  BY DEF TrailInv
<1> QED
  BY <1>1, StoreTrailInv, PTL

\* A work order is written once per operation, after an approval that nothing
\* has withdrawn before the write.
THEOREM StoreWriteFollowsApproval == Spec => []WriteFollowsApproval
<1>1. TrailInv => WriteFollowsApproval
  BY DEF TrailInv
<1> QED
  BY <1>1, StoreTrailInv, PTL
-----------------------------------------------------------------------------
(* How the row of one operation moves: what the graphs cite of the store *)

AfterExecution == {"executing", "verifying", "completed", "failed"}

\* What every transaction of the store keeps of operation q: it never
\* disappears, never leaves the execution nor the end, and its binding and
\* cycle change together, when a decision is asked for.
StoreMoves(q) ==
    /\ status[q] # "absent" => status'[q] # "absent"
    /\ status[q] \in AfterExecution => status'[q] \in AfterExecution
    /\ status[q] \in Terminal => status'[q] = status[q]
    /\ cycle[q] > 0 => cycle'[q] > 0
    /\ \/ /\ snapshot'[q].binding = snapshot[q].binding /\ cycle'[q] = cycle[q]
          /\ status'[q] \in AwaitingDecision => status[q] \in AwaitingDecision
       \/ /\ status'[q] \in AwaitingDecision
          /\ status[q] = "validating" \/ (status[q] = "resuming" /\ Approved(q))
    /\ approvals \subseteq approvals'

\* A step that does not touch the row of q.
LEMMA RowUntouched ==
    ASSUME NEW q \in Operations, approvals \subseteq approvals',
           status'[q] = status[q], snapshot'[q] = snapshot[q], cycle'[q] = cycle[q]
    PROVE  StoreMoves(q)
BY DEF StoreMoves

\* The transactions of an investigation.
LEMMA InvestigationMoves ==
    ASSUME TypeOK, NEW o \in Operations, InvestigationNext(o), NEW q \in Operations
    PROVE  StoreMoves(q)
<1> USE DEF TypeOK, StoreMoves, transition, AfterExecution, Terminal, AwaitingDecision
<1>1. CASE \E req \in Requests : create(o, req)
  BY <1>1 DEF create, create_allowed
<1>2. CASE mark_gathering_evidence(o)
  BY <1>2 DEF mark_gathering_evidence
<1>3. CASE \E b \in Bundles : record_evidence(o, b)
  BY <1>3 DEF record_evidence, Snapshots
<1>4. CASE \E b \in Bundles, p \in Plans \cup {NoValue} : record_validated_plan(o, b, p)
  BY <1>4 DEF record_validated_plan, Snapshots
<1>5. CASE \E b \in Bundles : record_query_assessment(o, b)
  BY <1>5 DEF record_query_assessment, Snapshots
<1>6. CASE mark_reporting(o)
  BY <1>6 DEF mark_reporting
<1>7. CASE \E outcome \in NoActionOutcomes : complete_without_replenishment(o, outcome)
  BY <1>7 DEF complete_without_replenishment
<1> QED
  BY <1>1, <1>2, <1>3, <1>4, <1>5, <1>6, <1>7 DEF InvestigationNext

\* The transactions around a decision.
LEMMA DecisionMoves ==
    ASSUME TypeOK, NEW o \in Operations, DecisionNext(o), NEW q \in Operations
    PROVE  StoreMoves(q)
<1> USE DEF TypeOK, StoreMoves, transition, AfterExecution, Terminal, AwaitingDecision
<1>1. CASE \E b \in Bindings, d \in 1..MaxDeadline : mark_awaiting_approval(o, b, d)
  BY <1>1 DEF mark_awaiting_approval
<1>2. CASE \E t \in 0..now : mark_expired(o, t)
  BY <1>2 DEF mark_expired
<1>3. CASE \E t \in 0..now : submit_bound_once_expired(o, t)
  BY <1>3 DEF submit_bound_once_expired, decision_open
<1>4. CASE \E r \in Approvers, d \in Decisions, b \in Bindings, t \in 0..now :
               submit_bound_once(o, r, d, b, t)
  BY <1>4 DEF submit_bound_once, decision_open
<1>5. CASE \E a \in approvals : mark_rejected(o, a)
  BY <1>5 DEF mark_rejected
<1>6. CASE \E a \in approvals : mark_verifier_aborted(o, a)
  BY <1>6 DEF mark_verifier_aborted
<1>7. CASE \E a \in approvals, b \in Bundles, p \in Plans, g \in Bindings, d \in 1..MaxDeadline :
               mark_needs_reapproval(o, a, b, p, g, d)
  BY <1>7 DEF mark_needs_reapproval, approval_locator, Approved, current_approval
<1> QED
  BY <1>1, <1>2, <1>3, <1>4, <1>5, <1>6, <1>7 DEF DecisionNext

\* The transactions of the controlled write.
LEMMA ExecutionMoves ==
    ASSUME TypeOK, NEW o \in Operations, ExecutionNext(o), NEW q \in Operations
    PROVE  StoreMoves(q)
<1> USE DEF TypeOK, StoreMoves, transition, AfterExecution, Terminal, AwaitingDecision
<1>1. CASE \E a \in approvals : mark_executing(o, a)
  BY <1>1 DEF mark_executing
<1>2. CASE \E p \in Plans : create_or_get(o, p)
  BY <1>2 DEF create_or_get
<1>3. CASE \E w \in workOrders : mark_verifying(o, w)
  BY <1>3 DEF mark_verifying
<1>4. CASE \E w \in workOrders : mark_completed(o, w)
  BY <1>4 DEF mark_completed
<1>5. CASE \E e \in Errors : mark_failed(o, e)
  BY <1>5 DEF mark_failed, Active
<1> QED
  BY <1>1, <1>2, <1>3, <1>4, <1>5 DEF ExecutionNext

\* Every step of the store.
LEMMA NextMoves ==
    ASSUME TypeOK, [Next]_storeVars, NEW q \in Operations
    PROVE  StoreMoves(q)
<1>1. CASE SignalNext \/ Tick \/ UNCHANGED storeVars
  <2>1. UNCHANGED <<status, snapshot, cycle, approvals>>
    BY <1>1 DEF SignalNext, upsert_detected, create_successor, reconcile_terminal_links,
                Tick, storeVars, opVars
  <2> QED
    BY <2>1 DEF StoreMoves
<1> QED
  BY <1>1, InvestigationMoves, DecisionMoves, ExecutionMoves DEF Next

\* The binding x of operation q is that of the row, b, or one that was
\* approved in this or an earlier cycle; A are the approvals.
Consented(q, x, b, A) ==
    x = b \/ \E a \in A : a.op = q /\ a.decision = "approved" /\ a.binding = x

\* Consent is never lost: the binding that a new request replaces has been
\* approved before.
LEMMA ConsentStays ==
    ASSUME DecisionInv, NEW q \in Operations, StoreMoves(q),
           cycle[q] > 0 \/ status[q] \in AfterExecution,
           NEW x, Consented(q, x, snapshot[q].binding, approvals)
    PROVE  Consented(q, x, snapshot'[q].binding, approvals')
<1>1. approvals \subseteq approvals'
  BY DEF StoreMoves
<1>2. CASE \E a \in approvals : a.op = q /\ a.decision = "approved" /\ a.binding = x
  BY <1>1, <1>2 DEF Consented
<1>3. CASE x = snapshot[q].binding
  <2>1. CASE snapshot'[q].binding = snapshot[q].binding
    BY <1>3, <2>1 DEF Consented
  <2>2. CASE status[q] = "validating"
    <3>1. cycle[q] = 0
      BY <2>2 DEF DecisionInv, CycleFollowsStatus, Investigating
    <3> QED
      BY <2>2, <3>1 DEF AfterExecution
  <2>3. CASE Approved(q)
    <3>1. PICK a \in approvals : current_approval(q, a) /\ a.decision = "approved"
      BY <2>3 DEF Approved
    <3>2. a.op = q /\ a.binding = x /\ a \in approvals'
      BY <1>1, <1>3, <3>1 DEF current_approval, DecisionInv, DecisionBindsSnapshot
    <3> QED
      BY <3>1, <3>2 DEF Consented
  <2> QED
    BY <2>1, <2>2, <2>3 DEF StoreMoves
<1> QED
  BY <1>2, <1>3 DEF Consented

\* In a cycle that has its approval, a binding with consent is that of an
\* approval.
LEMMA ApprovedConsent ==
    ASSUME DecisionInv, NEW q \in Operations, Approved(q),
           NEW x, Consented(q, x, snapshot[q].binding, approvals)
    PROVE  \E a \in approvals : a.op = q /\ a.decision = "approved" /\ a.binding = x
<1>1. PICK a \in approvals : current_approval(q, a) /\ a.decision = "approved"
  BY DEF Approved
<1>2. a.op = q /\ a.binding = snapshot[q].binding
  BY <1>1 DEF current_approval, DecisionInv, DecisionBindsSnapshot
<1> QED
  BY <1>1, <1>2 DEF Consented

\* The result of an operation is the one its status asks for.
ResultOK(o) ==
    /\ status[o] = "completed" =>
        /\ result[o] \in Outcomes
        /\ result[o].outcome = "work_order_completed" <=> work_order_of(o) # {}
    /\ status[o] = "failed" => result[o] \in [error : Errors]
    /\ status[o] \notin {"completed", "failed"} => result[o] = NoValue

\* Who writes a result: the end of an investigation, the end of an execution
\* and a failure; every other transaction leaves it alone.
ResultMoves(q) ==
    \/ status'[q] = status[q] /\ result'[q] = result[q] /\ status[q] \notin Terminal
    \/ /\ status'[q] = status[q] /\ result'[q] = result[q]
       /\ {w \in workOrders' : w.op = q} = {w \in workOrders : w.op = q}
    \/ /\ {status[q], status'[q]} \cap {"completed", "failed"} = {}
       /\ result'[q] = result[q]
    \/ /\ status[q] = "reporting" /\ status'[q] = "completed" /\ workOrders' = workOrders
       /\ \E outcome \in NoActionOutcomes : result'[q] = [outcome |-> outcome]
    \/ /\ status'[q] = "completed" /\ workOrders' = workOrders
       /\ \E w \in workOrders : w.op = q
       /\ result'[q] = [outcome |-> "work_order_completed"]
    \/ status'[q] = "failed" /\ \E e \in Errors : result'[q] = [error |-> e]

\* Every step of the store writes results that way.
LEMMA NextResult ==
    ASSUME TypeOK, [Next]_storeVars, NEW q \in Operations
    PROVE  ResultMoves(q)
<1> USE DEF ResultMoves, TypeOK, transition
<1>1. ASSUME NEW o \in Operations, InvestigationNext(o) PROVE ResultMoves(q)
  <2>1. CASE \E outcome \in NoActionOutcomes : complete_without_replenishment(o, outcome)
    BY <2>1 DEF complete_without_replenishment
  <2>2. CASE \E req \in Requests : create(o, req)
    BY <2>2 DEF create, create_allowed
  <2>3. CASE mark_gathering_evidence(o) \/ mark_reporting(o)
    BY <2>3 DEF mark_gathering_evidence, mark_reporting
  <2>4. CASE \E b \in Bundles : record_evidence(o, b)
    BY <2>4 DEF record_evidence
  <2>5. CASE \E b \in Bundles, p \in Plans \cup {NoValue} : record_validated_plan(o, b, p)
    BY <2>5 DEF record_validated_plan
  <2>6. CASE \E b \in Bundles : record_query_assessment(o, b)
    BY <2>6 DEF record_query_assessment
  <2> QED
    BY <1>1, <2>1, <2>2, <2>3, <2>4, <2>5, <2>6 DEF InvestigationNext
<1>2. ASSUME NEW o \in Operations, DecisionNext(o) PROVE ResultMoves(q)
  <2> USE DEF AwaitingDecision
  <2>1. CASE \E r \in Approvers, d \in Decisions, b \in Bindings, t \in 0..now :
                 submit_bound_once(o, r, d, b, t)
    BY <2>1 DEF submit_bound_once, decision_open
  <2>2. CASE \E t \in 0..now : mark_expired(o, t) \/ submit_bound_once_expired(o, t)
    BY <2>2 DEF submit_bound_once_expired, decision_open, mark_expired
  <2>3. CASE \E b \in Bindings, d \in 1..MaxDeadline : mark_awaiting_approval(o, b, d)
    BY <2>3 DEF mark_awaiting_approval
  <2>4. CASE \E a \in approvals : mark_rejected(o, a) \/ mark_verifier_aborted(o, a)
    BY <2>4 DEF mark_rejected, mark_verifier_aborted
  <2>5. CASE \E a \in approvals, b \in Bundles, p \in Plans, g \in Bindings, d \in 1..MaxDeadline :
                 mark_needs_reapproval(o, a, b, p, g, d)
    BY <2>5 DEF mark_needs_reapproval
  <2> QED
    BY <1>2, <2>1, <2>2, <2>3, <2>4, <2>5 DEF DecisionNext
<1>3. ASSUME NEW o \in Operations, ExecutionNext(o) PROVE ResultMoves(q)
  <2>1. CASE \E p \in Plans : create_or_get(o, p)
    BY <2>1 DEF create_or_get, write_authorized, Terminal
  <2>2. CASE \E a \in approvals : mark_executing(o, a)
    BY <2>2 DEF mark_executing
  <2>3. CASE \E w \in workOrders : mark_verifying(o, w) \/ mark_completed(o, w)
    BY <2>3 DEF mark_verifying, mark_completed, work_order_locator
  <2>4. CASE \E e \in Errors : mark_failed(o, e)
    BY <2>4 DEF mark_failed
  <2> QED
    BY <1>3, <2>1, <2>2, <2>3, <2>4 DEF ExecutionNext
<1>4. CASE SignalNext \/ Tick \/ UNCHANGED storeVars
  BY <1>4 DEF SignalNext, upsert_detected, create_successor, reconcile_terminal_links,
              Tick, storeVars, opVars
<1> QED
  BY <1>1, <1>2, <1>3, <1>4 DEF Next

\* The result stays the one the status asks for, because a completed
\* investigation has no work order.
LEMMA ResultStep ==
    ASSUME TypeOK, [Next]_storeVars, NEW q \in Operations, ResultOK(q),
           work_order_of(q) # {} => status[q] \in AfterExecution
    PROVE  ResultOK(q)'
<1>1. ResultMoves(q)
  BY NextResult
<1>2. CASE status'[q] = status[q] /\ result'[q] = result[q] /\ status[q] \notin Terminal
  BY <1>2 DEF ResultOK, Terminal
<1>3. CASE /\ status'[q] = status[q] /\ result'[q] = result[q]
           /\ {w \in workOrders' : w.op = q} = {w \in workOrders : w.op = q}
  BY <1>3 DEF ResultOK, work_order_of
<1>4. CASE /\ {status[q], status'[q]} \cap {"completed", "failed"} = {}
           /\ result'[q] = result[q]
  BY <1>4 DEF ResultOK
<1>5. CASE /\ status[q] = "reporting" /\ status'[q] = "completed" /\ workOrders' = workOrders
           /\ \E outcome \in NoActionOutcomes : result'[q] = [outcome |-> outcome]
  <2>1. PICK outcome \in NoActionOutcomes : result'[q] = [outcome |-> outcome]
    BY <1>5
  <2>2. result'[q] \in Outcomes /\ result'[q].outcome = outcome /\ outcome # "work_order_completed"
    BY <2>1 DEF Outcomes, NoActionOutcomes
  <2>3. work_order_of(q)' = {}
    BY <1>5 DEF AfterExecution, work_order_of
  <2> QED
    BY <1>5, <2>2, <2>3 DEF ResultOK
<1>6. CASE /\ status'[q] = "completed" /\ workOrders' = workOrders
           /\ \E w \in workOrders : w.op = q
           /\ result'[q] = [outcome |-> "work_order_completed"]
  <2>1. result'[q] \in Outcomes /\ result'[q].outcome = "work_order_completed"
    BY <1>6 DEF Outcomes
  <2>2. work_order_of(q)' # {}
    BY <1>6 DEF work_order_of
  <2> QED
    BY <1>6, <2>1, <2>2 DEF ResultOK
<1>7. CASE status'[q] = "failed" /\ \E e \in Errors : result'[q] = [error |-> e]
  BY <1>7 DEF ResultOK
<1> QED
  BY <1>1, <1>2, <1>3, <1>4, <1>5, <1>6, <1>7 DEF ResultMoves

\* The clock stays within its bound.
LEMMA TimeStep ==
    ASSUME TypeOK, now <= MaxTime, [Next]_storeVars
    PROVE  now' <= MaxTime
<1>1. ASSUME NEW o \in Operations, InvestigationNext(o) PROVE now' = now
  BY <1>1 DEF InvestigationNext, create, mark_gathering_evidence, record_evidence,
         record_validated_plan, record_query_assessment, mark_reporting,
         complete_without_replenishment, transition
<1>2. ASSUME NEW o \in Operations, DecisionNext(o) PROVE now' = now
  <2>1. CASE \E r \in Approvers, d \in Decisions, b \in Bindings, t \in 0..now :
                 submit_bound_once(o, r, d, b, t)
    BY <2>1 DEF submit_bound_once
  <2>2. CASE \E t \in 0..now : mark_expired(o, t) \/ submit_bound_once_expired(o, t)
    BY <2>2 DEF submit_bound_once_expired, mark_expired, transition
  <2>3. CASE \E b \in Bindings, d \in 1..MaxDeadline : mark_awaiting_approval(o, b, d)
    BY <2>3 DEF mark_awaiting_approval, transition
  <2>4. CASE \E a \in approvals : mark_rejected(o, a) \/ mark_verifier_aborted(o, a)
    BY <2>4 DEF mark_rejected, mark_verifier_aborted, transition
  <2>5. CASE \E a \in approvals, b \in Bundles, p \in Plans, g \in Bindings, d \in 1..MaxDeadline :
                 mark_needs_reapproval(o, a, b, p, g, d)
    BY <2>5 DEF mark_needs_reapproval, transition
  <2> QED
    BY <1>2, <2>1, <2>2, <2>3, <2>4, <2>5 DEF DecisionNext
<1>3. ASSUME NEW o \in Operations, ExecutionNext(o) PROVE now' = now
  BY <1>3 DEF ExecutionNext, mark_executing, create_or_get, mark_verifying, mark_completed,
              mark_failed, transition
<1>4. SignalNext \/ UNCHANGED storeVars => now' = now
  BY DEF SignalNext, upsert_detected, create_successor, reconcile_terminal_links, storeVars
<1> QED
  BY <1>1, <1>2, <1>3, <1>4, StoreAssumption DEF Next, Tick, TypeOK

\* The event that asks for a decision or begins the execution is about the
\* binding of the row, so that a replay is recognised by its facts.
Tells(o, type) ==
    \E i \in 1..Len(audit[o]) :
        audit[o][i].type = type /\ audit[o][i].payload.binding = snapshot[o].binding

EventOK(o) ==
    /\ status[o] = "awaiting_approval" => Tells(o, "approval_requested")
    /\ status[o] = "needs_reapproval" => Tells(o, "reapproval_requested")
    /\ status[o] = "executing" => Tells(o, "execution_started")

\* An event that was appended is found, and no other is lost.
LEMMA TellsAppended ==
    ASSUME TypeOK, NEW o \in Operations, NEW type, NEW payload, append_event(o, type, payload),
           NEW q \in Operations, NEW t
    PROVE  /\ snapshot'[q].binding = snapshot[q].binding /\ Tells(q, t) => Tells(q, t)'
           /\ payload.binding = snapshot'[o].binding => Tells(o, type)'
<1>1. /\ Len(audit[o]) \in Nat
      /\ Len(audit'[o]) = Len(audit[o]) + 1
      /\ \A i \in 1..Len(audit[o]) : audit'[o][i] = audit[o][i]
      /\ audit'[o][Len(audit[o]) + 1].type = type
      /\ audit'[o][Len(audit[o]) + 1].payload = payload
      /\ \A x \in Operations : x # o => audit'[x] = audit[x]
  BY AppendedEvent
<1>2. ASSUME snapshot'[q].binding = snapshot[q].binding, Tells(q, t) PROVE Tells(q, t)'
  <2>1. PICK i \in 1..Len(audit[q]) :
            audit[q][i].type = t /\ audit[q][i].payload.binding = snapshot[q].binding
    BY <1>2 DEF Tells
  <2>2. i \in 1..Len(audit'[q]) /\ audit'[q][i] = audit[q][i]
    BY <1>1, <2>1
  <2> QED
    BY <1>2, <2>1, <2>2 DEF Tells
<1>3. ASSUME payload.binding = snapshot'[o].binding PROVE Tells(o, type)'
  <2>1. Len(audit[o]) + 1 \in 1..Len(audit'[o])
    BY <1>1
  <2> QED
    BY <1>1, <1>3, <2>1 DEF Tells
<1> QED
  BY <1>2, <1>3

\* The statuses whose event is looked for.
Told == {"awaiting_approval", "needs_reapproval", "executing"}

\* A transaction keeps the event of the status, or writes it with the status.
LEMMA EventStep ==
    ASSUME TypeOK, DecisionInv, [Next]_storeVars, NEW q \in Operations, EventOK(q)
    PROVE  EventOK(q)'
<1>1. CASE status'[q] \notin Told
  BY <1>1 DEF EventOK, Told
<1>2. CASE status'[q] = status[q] /\ snapshot'[q].binding = snapshot[q].binding
           /\ audit'[q] = audit[q]
  BY <1>2 DEF EventOK, Tells
<1>3. ASSUME NEW o \in Operations, InvestigationNext(o) PROVE EventOK(q)'
  <2>1. /\ status'[o] \notin Told
        /\ q # o => status'[q] = status[q] /\ snapshot'[q].binding = snapshot[q].binding
                    /\ audit'[q] = audit[q]
    <3>1. CASE \E req \in Requests : create(o, req)
      BY <3>1 DEF create, create_allowed, transition, append_event, TypeOK, Told
    <3>2. CASE mark_gathering_evidence(o) \/ mark_reporting(o)
      BY <3>2 DEF mark_gathering_evidence, mark_reporting, transition, append_event, TypeOK, Told
    <3>3. CASE \E b \in Bundles : record_evidence(o, b)
      BY <3>3 DEF record_evidence, transition, append_event, TypeOK, Told
    <3>4. CASE \E b \in Bundles, p \in Plans \cup {NoValue} : record_validated_plan(o, b, p)
      BY <3>4 DEF record_validated_plan, transition, append_event, TypeOK, Told
    <3>5. CASE \E b \in Bundles : record_query_assessment(o, b)
      BY <3>5 DEF record_query_assessment, transition, append_event, TypeOK, Told
    <3>6. CASE \E outcome \in NoActionOutcomes : complete_without_replenishment(o, outcome)
      BY <3>6 DEF complete_without_replenishment, transition, append_event, TypeOK, Told
    <3> QED
      BY <1>3, <3>1, <3>2, <3>3, <3>4, <3>5, <3>6 DEF InvestigationNext
  <2> QED
    BY <1>1, <1>2, <2>1
<1>4. ASSUME NEW o \in Operations, DecisionNext(o) PROVE EventOK(q)'
  <2>1. CASE \E b \in Bindings, d \in 1..MaxDeadline : mark_awaiting_approval(o, b, d)
    <3>1. PICK b \in Bindings, d \in 1..MaxDeadline : mark_awaiting_approval(o, b, d)
      BY <2>1
    <3>2. /\ append_event(o, "approval_requested", [binding |-> b, deadline |-> d])
          /\ status'[o] = "awaiting_approval" /\ snapshot'[o].binding = b
          /\ q # o => status'[q] = status[q] /\ snapshot'[q].binding = snapshot[q].binding
                      /\ audit'[q] = audit[q]
      BY <3>1 DEF mark_awaiting_approval, transition, append_event, TypeOK, Snapshots
    <3>3. Tells(o, "approval_requested")'
      BY <3>2, TellsAppended
    <3> QED
      BY <1>2, <3>2, <3>3 DEF EventOK
  <2>2. CASE \E a \in approvals, b \in Bundles, p \in Plans, g \in Bindings, d \in 1..MaxDeadline :
                 mark_needs_reapproval(o, a, b, p, g, d)
    <3>1. PICK a \in approvals, b \in Bundles, p \in Plans, g \in Bindings, d \in 1..MaxDeadline :
                 mark_needs_reapproval(o, a, b, p, g, d)
      BY <2>2
    <3>2. /\ append_event(o, "reapproval_requested", [approval |-> a, binding |-> g])
          /\ status'[o] = "needs_reapproval" /\ snapshot'[o].binding = g
          /\ q # o => status'[q] = status[q] /\ snapshot'[q].binding = snapshot[q].binding
                      /\ audit'[q] = audit[q]
      BY <3>1 DEF mark_needs_reapproval, transition, append_event, TypeOK, Snapshots
    <3>3. Tells(o, "reapproval_requested")'
      BY <3>2, TellsAppended
    <3> QED
      BY <1>2, <3>2, <3>3 DEF EventOK
  <2>3. CASE \/ \E t \in 0..now : mark_expired(o, t)
             \/ \E t \in 0..now : submit_bound_once_expired(o, t)
             \/ \E r \in Approvers, d \in Decisions, b \in Bindings, t \in 0..now :
                    submit_bound_once(o, r, d, b, t)
             \/ \E a \in approvals : mark_rejected(o, a)
             \/ \E a \in approvals : mark_verifier_aborted(o, a)
    <3>1. /\ status'[o] \notin Told
          /\ q # o => status'[q] = status[q] /\ snapshot'[q].binding = snapshot[q].binding
                      /\ audit'[q] = audit[q]
      <4> USE DEF transition, append_event, TypeOK, Told
      <4>1. CASE \E t \in 0..now : mark_expired(o, t)
        BY <4>1 DEF mark_expired
      <4>2. CASE \E t \in 0..now : submit_bound_once_expired(o, t)
        BY <4>2 DEF submit_bound_once_expired
      <4>3. CASE \E r \in Approvers, d \in Decisions, b \in Bindings, t \in 0..now :
                     submit_bound_once(o, r, d, b, t)
        BY <4>3 DEF submit_bound_once
      <4>4. CASE \E a \in approvals : mark_rejected(o, a)
        BY <4>4 DEF mark_rejected
      <4>5. CASE \E a \in approvals : mark_verifier_aborted(o, a)
        BY <4>5 DEF mark_verifier_aborted
      <4> QED
        BY <2>3, <4>1, <4>2, <4>3, <4>4, <4>5
    <3> QED
      BY <1>1, <1>2, <3>1
  <2> QED
    BY <1>4, <2>1, <2>2, <2>3 DEF DecisionNext
<1>5. ASSUME NEW o \in Operations, ExecutionNext(o) PROVE EventOK(q)'
  <2>1. CASE \E a \in approvals : mark_executing(o, a)
    <3>1. PICK a \in approvals : mark_executing(o, a)
      BY <2>1
    <3>2. /\ append_event(o, "execution_started", a)
          /\ status'[o] = "executing" /\ snapshot'[o].binding = snapshot[o].binding
          /\ q # o => status'[q] = status[q] /\ snapshot'[q].binding = snapshot[q].binding
                      /\ audit'[q] = audit[q]
      BY <3>1 DEF mark_executing, transition, append_event, TypeOK
    <3>3. a.binding = snapshot[o].binding
      BY <3>1 DEF mark_executing, approval_locator, DecisionInv, DecisionBindsSnapshot,
                  current_approval
    <3>4. Tells(o, "execution_started")'
      BY <3>2, <3>3, TellsAppended
    <3> QED
      BY <1>2, <3>2, <3>4 DEF EventOK
  <2>2. CASE \E p \in Plans : create_or_get(o, p)
    <3>1. PICK p \in Plans : create_or_get(o, p)
      BY <2>2
    <3>2. append_event(o, "work_order_created", p) /\ status' = status /\ snapshot' = snapshot
      BY <3>1 DEF create_or_get
    <3>3. \A t : Tells(q, t) => Tells(q, t)'
      BY <3>2, TellsAppended
    <3> QED
      BY <3>2, <3>3 DEF EventOK
  <2>3. CASE \/ \E w \in workOrders : mark_verifying(o, w)
             \/ \E w \in workOrders : mark_completed(o, w)
             \/ \E e \in Errors : mark_failed(o, e)
    <3>1. /\ status'[o] \notin Told
          /\ q # o => status'[q] = status[q] /\ snapshot'[q].binding = snapshot[q].binding
                      /\ audit'[q] = audit[q]
      BY <2>3 DEF mark_verifying, mark_completed, mark_failed, transition, append_event,
                  TypeOK, Told
    <3> QED
      BY <1>1, <1>2, <3>1
  <2> QED
    BY <1>5, <2>1, <2>2, <2>3 DEF ExecutionNext
<1>6. CASE SignalNext \/ Tick \/ UNCHANGED storeVars
  <2>1. UNCHANGED <<status, snapshot, audit>>
    BY <1>6 DEF SignalNext, upsert_detected, create_successor, reconcile_terminal_links,
                Tick, storeVars, opVars
  <2> QED
    BY <1>2, <2>1
<1> QED
  BY <1>3, <1>4, <1>5, <1>6 DEF Next

\* A replayed request is about the binding of the row: the event of its type
\* is unique.
LEMMA MatchingTells ==
    ASSUME NEW o \in Operations, NEW type, NEW payload,
           matching_event(o, type, payload), Tells(o, type)
    PROVE  payload.binding = snapshot[o].binding
BY DEF matching_event, Tells

-----------------------------------------------------------------------------
(* The promise *)

\* What the step of a graph has to show of the work orders, for the tables to
\* keep the promise: an order exists only once the execution has begun, and a
\* new one is of the plan of the stored binding or, in the operations of S, of
\* a plan that was approved before.
OrdersAfterExecution ==
    \A o \in Operations : work_order_of(o) # {} => status[o] \in AfterExecution
OrdersFollowPlan(S) ==
    \A o \in Operations : \A w \in work_order_of(o)' :
        \/ w \in workOrders
        \/ w.payload = snapshot'[o].binding.plan
        \/ /\ o \in S
           /\ \E a \in approvals' :
                  a.op = o /\ a.decision = "approved" /\ a.binding.plan = w.payload

PromiseReady == TypeOK /\ DecisionInv /\ OrdersAfterExecution

\* The promise of one operation, as a function of the stored binding, of the
\* decisions of the current cycle and of the work orders.
PlanSeen(b) == IF b = NoValue THEN NoValue ELSE b.plan
DecisionSeen(S) == IF S = {} THEN "none" ELSE (CHOOSE a \in S : TRUE).decision
OrderSeen(S) == IF S = {} THEN NoValue ELSE (CHOOSE w \in S : TRUE).payload

\* The tables of q stay as the promise sees them.
RowKeeps(q) ==
    /\ snapshot'[q].binding = snapshot[q].binding
    /\ detail_approval(q)' = detail_approval(q)
    /\ work_order_of(q)' = work_order_of(q)

\* The four steps of the promise, in the tables of one operation.  Closes
\* includes the steps that the promise does not see.
Closes(o) ==
    /\ RowKeeps(o)
    /\ status[o] \in Terminal => status'[o] \in Terminal

Proposes(o) ==
    /\ {status[o], status'[o]} \cap Terminal = {}
    /\ work_order_of(o) = {} /\ work_order_of(o)' = {}
    /\ snapshot[o].binding = NoValue \/ Approved(o)
    /\ snapshot'[o].binding \in Bindings
    /\ detail_approval(o)' = {}

Decides(o) ==
    /\ {status[o], status'[o]} \cap Terminal = {}
    /\ work_order_of(o)' = work_order_of(o)
    /\ snapshot[o].binding \in Bindings /\ snapshot'[o].binding = snapshot[o].binding
    /\ detail_approval(o) = {}
    /\ \E a : detail_approval(o)' = {a} /\ a.decision \in Decisions

Writes(o, p) ==
    /\ {status[o], status'[o]} \cap Terminal = {}
    /\ snapshot[o].binding \in Bindings /\ snapshot'[o].binding = snapshot[o].binding
    /\ Approved(o) /\ detail_approval(o)' = detail_approval(o)
    /\ approvals' = approvals
    /\ work_order_of(o) = {}
    /\ work_order_of(o)' = {[op |-> o, payload |-> p]}

PromiseMoves(o) ==
    /\ \A q \in Operations : q # o => RowKeeps(q) /\ status'[q] = status[q]
    /\ Closes(o) \/ Proposes(o) \/ Decides(o) \/ \E p \in Plans : Writes(o, p)

\* The one element of a set is the one that is chosen.
LEMMA ChosenOne ==
    ASSUME NEW S, NEW a \in S, \A x, y \in S : x = y
    PROVE  (CHOOSE x \in S : TRUE) = a
<1>1. (CHOOSE x \in S : TRUE) \in S
  OBVIOUS
<1> QED
  BY <1>1

\* What is seen of one decision and of one work order.
LEMMA SeenOne ==
    ASSUME NEW S, NEW a \in S, \A x, y \in S : x = y
    PROVE  DecisionSeen(S) = a.decision /\ OrderSeen(S) = a.payload
<1>1. (CHOOSE x \in S : TRUE) = a
  BY ChosenOne
<1>2. S # {}
  OBVIOUS
<1> QED
  BY <1>1, <1>2 DEF DecisionSeen, OrderSeen

\* The mapped variables, read operation by operation.
LEMMA PromiseRows ==
    /\ proposed_plan = [q \in Operations |-> PlanSeen(snapshot[q].binding)]
    /\ decision_in_force = [q \in Operations |-> DecisionSeen(detail_approval(q))]
    /\ written_plan = [q \in Operations |-> OrderSeen(work_order_of(q))]
BY DEF proposed_plan, decision_in_force, written_plan, PlanSeen, DecisionSeen, OrderSeen

LEMMA PromiseRowsNext ==
    /\ proposed_plan' = [q \in Operations |-> PlanSeen(snapshot'[q].binding)]
    /\ decision_in_force' = [q \in Operations |-> DecisionSeen(detail_approval(q)')]
    /\ written_plan' = [q \in Operations |-> OrderSeen(work_order_of(q)')]
BY DEF proposed_plan, decision_in_force, written_plan, PlanSeen, DecisionSeen, OrderSeen

\* A transaction that leaves the binding, the cycle, the approvals and the
\* work orders alone closes its operation or is not seen.
LEMMA StatusMoves ==
    ASSUME TypeOK, NEW o \in Operations,
           \A q \in Operations :
               /\ snapshot'[q].binding = snapshot[q].binding
               /\ cycle'[q] = cycle[q]
               /\ q # o => status'[q] = status[q],
           UNCHANGED <<approvals, workOrders>>,
           status[o] \notin Terminal
    PROVE  PromiseMoves(o)
BY DEF PromiseMoves, Closes, RowKeeps, detail_approval, work_order_of

\* The transactions of an investigation propose nothing and decide nothing.
LEMMA InvestigationPromise ==
    ASSUME TypeOK, NEW o \in Operations, InvestigationNext(o)
    PROVE  PromiseMoves(o)
<1> SUFFICES /\ \A q \in Operations :
                    /\ snapshot'[q].binding = snapshot[q].binding
                    /\ cycle'[q] = cycle[q]
                    /\ q # o => status'[q] = status[q]
             /\ UNCHANGED <<approvals, workOrders>>
             /\ status[o] \notin Terminal
  BY StatusMoves
<1> USE DEF TypeOK, transition, Terminal
<1>1. CASE \E req \in Requests : create(o, req)
  BY <1>1 DEF create, create_allowed
<1>2. CASE mark_gathering_evidence(o)
  BY <1>2 DEF mark_gathering_evidence
<1>3. CASE \E b \in Bundles : record_evidence(o, b)
  BY <1>3 DEF record_evidence, Snapshots
<1>4. CASE \E b \in Bundles, p \in Plans \cup {NoValue} : record_validated_plan(o, b, p)
  BY <1>4 DEF record_validated_plan, Snapshots
<1>5. CASE \E b \in Bundles : record_query_assessment(o, b)
  BY <1>5 DEF record_query_assessment, Snapshots
<1>6. CASE mark_reporting(o)
  BY <1>6 DEF mark_reporting
<1>7. CASE \E outcome \in NoActionOutcomes : complete_without_replenishment(o, outcome)
  BY <1>7 DEF complete_without_replenishment
<1> QED
  BY <1>1, <1>2, <1>3, <1>4, <1>5, <1>6, <1>7 DEF InvestigationNext

\* A request for a decision, the first or a later one, is a proposal: no work
\* order exists before the execution, and no decision belongs to a cycle that
\* was never opened.
LEMMA AskPromise ==
    ASSUME PromiseReady, NEW o \in Operations, NEW b \in Bindings,
           status[o] \in {"validating", "resuming"}, status'[o] \in AwaitingDecision,
           snapshot[o].binding = NoValue \/ Approved(o),
           snapshot'[o].binding = b, cycle'[o] > cycle[o],
           \A q \in Operations : q # o =>
               status'[q] = status[q] /\ snapshot'[q] = snapshot[q] /\ cycle'[q] = cycle[q],
           UNCHANGED <<approvals, workOrders>>
    PROVE  PromiseMoves(o)
<1>1. \A q \in Operations : q # o => RowKeeps(q) /\ status'[q] = status[q]
  BY DEF RowKeeps, detail_approval, work_order_of
<1>2. {status[o], status'[o]} \cap Terminal = {}
  BY DEF Terminal, AwaitingDecision
<1>3. work_order_of(o) = {} /\ work_order_of(o)' = {}
  <2>1. work_order_of(o) # {} => status[o] \in AfterExecution
    BY DEF PromiseReady, OrdersAfterExecution
  <2>2. work_order_of(o) = {}
    BY <2>1 DEF AfterExecution
  <2> QED
    BY <2>2 DEF work_order_of
<1>4. detail_approval(o)' = {}
  <2>1. cycle[o] \in Nat /\ \A a \in approvals : a.op = o => a.cycle \in 1..cycle[o]
    BY DEF PromiseReady, TypeOK, DecisionInv, OneDecisionPerCycle
  <2>2. \A a \in approvals' : a.op = o => a.cycle # cycle'[o]
    BY <2>1
  <2> QED
    BY <2>2 DEF detail_approval
<1> QED
  BY <1>1, <1>2, <1>3, <1>4 DEF PromiseMoves, Proposes

\* The transactions around a decision propose, decide or close.
LEMMA DecisionPromise ==
    ASSUME PromiseReady, NEW o \in Operations, DecisionNext(o)
    PROVE  PromiseMoves(o)
<1>1. CASE \E b \in Bindings, d \in 1..MaxDeadline : mark_awaiting_approval(o, b, d)
  <2>1. PICK b \in Bindings, d \in 1..MaxDeadline : mark_awaiting_approval(o, b, d)
    BY <1>1
  <2>2. status[o] = "validating" /\ status'[o] \in AwaitingDecision /\ snapshot'[o].binding = b
    BY <2>1 DEF mark_awaiting_approval, transition, PromiseReady, TypeOK, Snapshots, AwaitingDecision
  <2>3. cycle[o] = 0 /\ snapshot[o].binding = NoValue
    BY <2>2 DEF PromiseReady, DecisionInv, CycleFollowsStatus, Investigating
  <2>4. cycle'[o] > cycle[o]
    BY <2>1, <2>3 DEF mark_awaiting_approval, PromiseReady, TypeOK
  <2>5. /\ UNCHANGED <<approvals, workOrders>>
        /\ \A q \in Operations : q # o =>
               status'[q] = status[q] /\ snapshot'[q] = snapshot[q] /\ cycle'[q] = cycle[q]
    BY <2>1 DEF mark_awaiting_approval, transition, PromiseReady, TypeOK
  <2> QED
    BY <2>2, <2>3, <2>4, <2>5, AskPromise
<1>2. CASE \E a \in approvals, b \in Bundles, p \in Plans, g \in Bindings, d \in 1..MaxDeadline :
               mark_needs_reapproval(o, a, b, p, g, d)
  <2>1. PICK a \in approvals, b \in Bundles, p \in Plans, g \in Bindings, d \in 1..MaxDeadline :
               mark_needs_reapproval(o, a, b, p, g, d)
    BY <1>2
  <2>2. status[o] = "resuming" /\ status'[o] \in AwaitingDecision /\ snapshot'[o].binding = g
    BY <2>1 DEF mark_needs_reapproval, transition, PromiseReady, TypeOK, AwaitingDecision
  <2>3. Approved(o)
    BY <2>1 DEF mark_needs_reapproval, approval_locator, Approved, current_approval
  <2>4. cycle'[o] > cycle[o]
    BY <2>1 DEF mark_needs_reapproval, PromiseReady, TypeOK
  <2>5. /\ UNCHANGED <<approvals, workOrders>>
        /\ \A q \in Operations : q # o =>
               status'[q] = status[q] /\ snapshot'[q] = snapshot[q] /\ cycle'[q] = cycle[q]
    BY <2>1 DEF mark_needs_reapproval, transition, PromiseReady, TypeOK
  <2> QED
    BY <2>2, <2>3, <2>4, <2>5, AskPromise
<1>3. CASE \E r \in Approvers, d \in Decisions, b \in Bindings, t \in 0..now :
               submit_bound_once(o, r, d, b, t)
  <2>1. PICK r \in Approvers, d \in Decisions, b \in Bindings, t \in 0..now :
               submit_bound_once(o, r, d, b, t)
    BY <1>3
  <2>2. PICK a : a = [op |-> o, cycle |-> cycle[o], approver |-> r,
                      decision |-> d, binding |-> b, at |-> t]
    OBVIOUS
  <2>3. a.op = o /\ a.cycle = cycle[o] /\ a.decision \in Decisions
    BY <2>2
  <2>4. /\ approvals' = approvals \cup {a}
        /\ UNCHANGED <<snapshot, cycle, workOrders>>
        /\ snapshot[o].binding \in Bindings
        /\ status[o] \in AwaitingDecision /\ status'[o] = "resuming"
        /\ \A q \in Operations : q # o => status'[q] = status[q]
        /\ ~ \E x \in approvals : x.op = o /\ x.cycle = cycle[o]
    BY <2>1, <2>2 DEF submit_bound_once, decision_open, PromiseReady, TypeOK
  <2>5. detail_approval(o) = {} /\ detail_approval(o)' = {a}
    BY <2>3, <2>4 DEF detail_approval
  <2>6. \A q \in Operations : q # o => RowKeeps(q)
    BY <2>3, <2>4 DEF RowKeeps, detail_approval, work_order_of
  <2>7. Decides(o)
    BY <2>3, <2>4, <2>5 DEF Decides, work_order_of, AwaitingDecision, Terminal
  <2> QED
    BY <2>4, <2>6, <2>7 DEF PromiseMoves
<1>4. CASE \/ \E t \in 0..now : mark_expired(o, t)
           \/ \E t \in 0..now : submit_bound_once_expired(o, t)
           \/ \E a \in approvals : mark_rejected(o, a)
           \/ \E a \in approvals : mark_verifier_aborted(o, a)
  <2>1. /\ UNCHANGED <<snapshot, cycle, approvals, workOrders>>
        /\ \A q \in Operations : q # o => status'[q] = status[q]
        /\ status[o] \notin Terminal
    BY <1>4 DEF mark_expired, submit_bound_once_expired, decision_open, mark_rejected,
                mark_verifier_aborted, transition, PromiseReady, TypeOK, AwaitingDecision, Terminal
  <2>2. TypeOK
    BY DEF PromiseReady
  <2> QED
    BY <2>1, <2>2, StatusMoves
<1> QED
  BY <1>1, <1>2, <1>3, <1>4 DEF DecisionNext

\* The transactions of the controlled write: the insert is the write of the
\* promise.
LEMMA ExecutionPromise ==
    ASSUME PromiseReady, NEW o \in Operations, ExecutionNext(o)
    PROVE  PromiseMoves(o)
<1>1. CASE \E p \in Plans : create_or_get(o, p)
  <2>1. PICK p \in Plans : create_or_get(o, p)
    BY <1>1
  <2>2. PICK w : w = [op |-> o, payload |-> p]
    OBVIOUS
  <2>3. w.op = o /\ w.payload = p
    BY <2>2
  <2>4. /\ UNCHANGED <<status, snapshot, cycle, approvals>>
        /\ work_order_of(o) = {} /\ write_authorized(o)
        /\ workOrders' = workOrders \cup {w}
    BY <2>1, <2>2 DEF create_or_get
  <2>5. work_order_of(o)' = {w}
    BY <2>3, <2>4 DEF work_order_of
  <2>7. PICK a \in approvals : a.op = o /\ a.cycle = cycle[o] /\ a.decision = "approved"
    BY <2>4 DEF write_authorized
  <2>8. Approved(o) /\ snapshot[o].binding \in Bindings
    <3>1. current_approval(o, a)
      BY <2>7 DEF current_approval
    <3>2. a.binding = snapshot[o].binding
      BY <3>1 DEF PromiseReady, DecisionInv, DecisionBindsSnapshot
    <3>3. a.binding \in Bindings
      BY DEF PromiseReady, TypeOK, ApprovalRows
    <3> QED
      BY <2>7, <3>1, <3>2, <3>3 DEF Approved
  <2>9. \A q \in Operations : q # o => RowKeeps(q) /\ status'[q] = status[q]
    BY <2>3, <2>4 DEF RowKeeps, detail_approval, work_order_of
  <2>10. detail_approval(o)' = detail_approval(o)
    BY <2>4 DEF detail_approval
  <2>11. status[o] \notin Terminal /\ status'[o] = status[o]
    BY <2>4 DEF write_authorized, Terminal
  <2>12. Writes(o, p)
    BY <2>2, <2>4, <2>5, <2>8, <2>10, <2>11 DEF Writes
  <2> QED
    BY <2>9, <2>12 DEF PromiseMoves
<1>2. CASE \/ \E a \in approvals : mark_executing(o, a)
           \/ \E w \in workOrders : mark_verifying(o, w)
           \/ \E w \in workOrders : mark_completed(o, w)
           \/ \E e \in Errors : mark_failed(o, e)
  <2>1. /\ UNCHANGED <<snapshot, cycle, approvals, workOrders>>
        /\ \A q \in Operations : q # o => status'[q] = status[q]
        /\ status[o] \notin Terminal
    BY <1>2 DEF mark_executing, mark_verifying, mark_completed, mark_failed, transition,
                PromiseReady, TypeOK, Active, Terminal
  <2>2. TypeOK
    BY DEF PromiseReady
  <2> QED
    BY <2>1, <2>2, StatusMoves
<1> QED
  BY <1>1, <1>2 DEF ExecutionNext

\* What moves one operation moves the promise at that operation only.
LEMMA PromiseAt ==
    ASSUME NEW o \in Operations, \A q \in Operations : q # o => RowKeeps(q)
    PROVE  /\ proposed_plan' = [proposed_plan EXCEPT ![o] = PlanSeen(snapshot'[o].binding)]
           /\ decision_in_force' = [decision_in_force EXCEPT ![o] = DecisionSeen(detail_approval(o)')]
           /\ written_plan' = [written_plan EXCEPT ![o] = OrderSeen(work_order_of(o)')]
<1>1. \A q \in Operations : q # o =>
        /\ PlanSeen(snapshot'[q].binding) = PlanSeen(snapshot[q].binding)
        /\ DecisionSeen(detail_approval(q)') = DecisionSeen(detail_approval(q))
        /\ OrderSeen(work_order_of(q)') = OrderSeen(work_order_of(q))
  BY DEF RowKeeps
<1> QED
  BY <1>1, PromiseRows, PromiseRowsNext

\* A step that keeps what the promise sees of every operation.
LEMMA PromiseKept ==
    ASSUME \A q \in Operations : RowKeeps(q)
    PROVE  UNCHANGED <<proposed_plan, decision_in_force, written_plan>>
<1>1. \A q \in Operations :
        /\ PlanSeen(snapshot'[q].binding) = PlanSeen(snapshot[q].binding)
        /\ DecisionSeen(detail_approval(q)') = DecisionSeen(detail_approval(q))
        /\ OrderSeen(work_order_of(q)') = OrderSeen(work_order_of(q))
  BY DEF RowKeeps
<1> QED
  BY <1>1, PromiseRows, PromiseRowsNext

\* What the promise sees of operation o before the step.
LEMMA PromiseBefore ==
    ASSUME PromiseReady, NEW o \in Operations
    PROVE  /\ proposed_plan[o] = PlanSeen(snapshot[o].binding)
           /\ detail_approval(o) = {} => decision_in_force[o] = "none"
           /\ Approved(o) => decision_in_force[o] = "approved"
           /\ work_order_of(o) = {} => written_plan[o] = NoValue
<1>1. /\ proposed_plan[o] = PlanSeen(snapshot[o].binding)
      /\ decision_in_force[o] = DecisionSeen(detail_approval(o))
      /\ written_plan[o] = OrderSeen(work_order_of(o))
  BY PromiseRows
<1>2. ASSUME Approved(o) PROVE decision_in_force[o] = "approved"
  <2>1. PICK a \in approvals : current_approval(o, a) /\ a.decision = "approved"
    BY <1>2 DEF Approved
  <2>2. a \in detail_approval(o)
    BY <2>1 DEF detail_approval, current_approval
  <2>3. \A x, y \in detail_approval(o) : x = y
    BY DEF detail_approval, PromiseReady, DecisionInv, OneDecisionPerCycle
  <2>4. DecisionSeen(detail_approval(o)) = a.decision
    BY <2>2, <2>3, SeenOne
  <2> QED
    BY <1>1, <2>1, <2>4
<1> QED
  BY <1>1, <1>2 DEF DecisionSeen, OrderSeen

\* A transaction of one operation is a step of the promise, or a write.
LEMMA PromiseStep ==
    ASSUME PromiseReady, NEW o \in Operations, PromiseMoves(o)
    PROVE  \/ [Promise!Next]_(Promise!promiseVars)
           \/ \E p \in Plans :
                  /\ Writes(o, p) /\ Promise!Write(o, p)
                  /\ proposed_plan[o] = snapshot'[o].binding.plan
<1>1. \A q \in Operations : q # o => RowKeeps(q) /\ status'[q] = status[q]
  BY DEF PromiseMoves
<1>2. NoValue \notin Bindings
  BY NullAssumption
<1>3. CASE Closes(o)
  <2>1. UNCHANGED <<proposed_plan, decision_in_force, written_plan>>
    BY <1>1, <1>3, PromiseKept DEF Closes
  <2>2. CASE status[o] \notin Terminal /\ status'[o] \in Terminal
    <3>1. Promise!Close(o)
      BY <1>1, <2>1, <2>2 DEF Promise!Close
    <3> QED
      BY <3>1 DEF Promise!Next
  <2>3. CASE status[o] \in Terminal <=> status'[o] \in Terminal
    BY <1>1, <2>1, <2>3 DEF Promise!promiseVars
  <2> QED
    BY <1>3, <2>2, <2>3 DEF Closes
<1>4. CASE Proposes(o)
  <2>1. PICK p \in Plans : p = PlanSeen(snapshot'[o].binding)
    BY <1>2, <1>4 DEF Proposes, PlanSeen, Bindings
  <2>2. DecisionSeen(detail_approval(o)') = "none" /\ OrderSeen(work_order_of(o)') = NoValue
    BY <1>4 DEF Proposes, DecisionSeen, OrderSeen
  <2>3. /\ proposed_plan[o] = NoValue \/ decision_in_force[o] = "approved"
        /\ written_plan[o] = NoValue
    BY <1>4, PromiseBefore DEF Proposes, PlanSeen
  <2>4. /\ proposed_plan' = [proposed_plan EXCEPT ![o] = p]
        /\ decision_in_force' = [decision_in_force EXCEPT ![o] = "none"]
        /\ written_plan' = [written_plan EXCEPT ![o] = NoValue]
    BY <1>1, <2>1, <2>2, PromiseAt
  <2>5. written_plan' = written_plan
    BY <2>3, <2>4, PromiseRows
  <2>6. /\ status[o] \notin Terminal
        /\ {q \in Operations : status'[q] \in Terminal} = {q \in Operations : status[q] \in Terminal}
    BY <1>1, <1>4 DEF Proposes
  <2>7. Promise!Propose(o, p)
    BY <2>3, <2>4, <2>5, <2>6 DEF Promise!Propose
  <2> QED
    BY <2>7 DEF Promise!Next
<1>5. CASE Decides(o)
  <2>1. PICK a : detail_approval(o)' = {a} /\ a.decision \in Decisions
    BY <1>5 DEF Decides
  <2>2. DecisionSeen(detail_approval(o)') = a.decision
    BY <2>1, SeenOne
  <2>3. proposed_plan[o] # NoValue /\ decision_in_force[o] = "none"
    <3>1. snapshot[o].binding.plan # NoValue
      BY <1>5, StoreAssumption DEF Decides, Bindings
    <3> QED
      BY <1>2, <1>5, <3>1, PromiseBefore DEF Decides, PlanSeen
  <2>4. /\ proposed_plan' = proposed_plan
        /\ decision_in_force' = [decision_in_force EXCEPT ![o] = a.decision]
        /\ written_plan' = written_plan
    <3>1. /\ proposed_plan' = [proposed_plan EXCEPT ![o] = PlanSeen(snapshot[o].binding)]
          /\ written_plan' = [written_plan EXCEPT ![o] = OrderSeen(work_order_of(o))]
          /\ decision_in_force' = [decision_in_force EXCEPT ![o] = a.decision]
      BY <1>1, <1>5, <2>2, PromiseAt DEF Decides
    <3> QED
      BY <3>1, PromiseRows
  <2>5. /\ status[o] \notin Terminal
        /\ {q \in Operations : status'[q] \in Terminal} = {q \in Operations : status[q] \in Terminal}
    BY <1>1, <1>5 DEF Decides
  <2>6. Promise!Decide(o, a.decision)
    BY <2>3, <2>4, <2>5 DEF Promise!Decide
  <2> QED
    BY <2>1, <2>6 DEF Promise!Next, Decisions
<1>6. CASE \E p \in Plans : Writes(o, p)
  <2>1. PICK p \in Plans : Writes(o, p)
    BY <1>6
  <2>2. PICK w : w = [op |-> o, payload |-> p]
    OBVIOUS
  <2>3. OrderSeen(work_order_of(o)') = p
    <3>1. work_order_of(o)' = {w} /\ w.payload = p
      BY <2>1, <2>2 DEF Writes
    <3> QED
      BY <3>1, SeenOne
  <2>4. /\ proposed_plan[o] = snapshot'[o].binding.plan
        /\ decision_in_force[o] = "approved"
        /\ written_plan[o] = NoValue
    BY <1>2, <2>1, PromiseBefore DEF Writes, PlanSeen
  <2>5. /\ proposed_plan' = proposed_plan
        /\ decision_in_force' = decision_in_force
        /\ written_plan' = [written_plan EXCEPT ![o] = p]
    <3>1. /\ proposed_plan' = [proposed_plan EXCEPT ![o] = PlanSeen(snapshot[o].binding)]
          /\ decision_in_force' = [decision_in_force EXCEPT ![o] = DecisionSeen(detail_approval(o))]
          /\ written_plan' = [written_plan EXCEPT ![o] = p]
      BY <1>1, <2>1, <2>3, PromiseAt DEF Writes
    <3> QED
      BY <3>1, PromiseRows
  <2>6. /\ status[o] \notin Terminal
        /\ {q \in Operations : status'[q] \in Terminal} = {q \in Operations : status[q] \in Terminal}
    BY <1>1, <2>1 DEF Writes
  <2>7. Promise!Write(o, p)
    BY <2>4, <2>5, <2>6 DEF Promise!Write
  <2> QED
    BY <2>1, <2>4, <2>7
<1> QED
  BY <1>3, <1>4, <1>5, <1>6 DEF PromiseMoves

\* Every step of the store whose work orders follow the plan is a step of the
\* promise, or a write of a plan that was approved before.
LEMMA StorePromise ==
    ASSUME PromiseReady, NEW S, OrdersFollowPlan(S), [Next]_storeVars
    PROVE  [Promise!Next \/ WritesEarlierPlan(S)]_(Promise!promiseVars)
<1>1. CASE SignalNext \/ Tick \/ UNCHANGED storeVars
  <2>1. UNCHANGED <<status, snapshot, cycle, approvals, workOrders>>
    BY <1>1 DEF SignalNext, upsert_detected, create_successor, reconcile_terminal_links,
                Tick, storeVars, opVars
  <2>2. \A q \in Operations : RowKeeps(q)
    BY <2>1 DEF RowKeeps, detail_approval, work_order_of
  <2> QED
    BY <2>1, <2>2, PromiseKept DEF Promise!promiseVars
<1>2. ASSUME NEW o \in Operations, InvestigationNext(o) \/ DecisionNext(o) \/ ExecutionNext(o)
      PROVE  [Promise!Next \/ WritesEarlierPlan(S)]_(Promise!promiseVars)
  <2>1. PromiseMoves(o)
    BY <1>2, InvestigationPromise, DecisionPromise, ExecutionPromise DEF PromiseReady
  <2>2. CASE \E p \in Plans : /\ Writes(o, p) /\ Promise!Write(o, p)
                              /\ proposed_plan[o] = snapshot'[o].binding.plan
    <3>1. PICK p \in Plans : /\ Writes(o, p) /\ Promise!Write(o, p)
                             /\ proposed_plan[o] = snapshot'[o].binding.plan
      BY <2>2
    <3>2. PICK w : w = [op |-> o, payload |-> p]
      OBVIOUS
    <3>3. w.op = o /\ w.payload = p /\ w \in work_order_of(o)'
      BY <3>1, <3>2 DEF Writes
    <3>4. w \notin workOrders
      BY <3>1, <3>3 DEF Writes, work_order_of
    <3>5. CASE p = proposed_plan[o]
      BY <3>1, <3>5 DEF Promise!Next
    <3>6. CASE p # proposed_plan[o]
      <4>1. o \in S /\ \E a \in approvals :
                           a.op = o /\ a.decision = "approved" /\ a.binding.plan = p
        BY <3>1, <3>3, <3>4, <3>6 DEF OrdersFollowPlan, Writes
      <4> QED
        BY <3>1, <4>1 DEF WritesEarlierPlan
    <3> QED
      BY <3>5, <3>6
  <2> QED
    BY <2>1, <2>2, PromiseStep
<1> QED
  BY <1>1, <1>2 DEF Next

\* The empty tables promise nothing yet.
LEMMA PromiseInit == Init => Promise!Init
<1> SUFFICES ASSUME Init PROVE Promise!Init
  OBVIOUS
<1>1. \A q \in Operations :
        /\ snapshot[q].binding = NoValue /\ status[q] = "absent"
        /\ detail_approval(q) = {} /\ work_order_of(q) = {}
  BY DEF Init, EmptySnapshot, detail_approval, work_order_of
<1>2. /\ proposed_plan = [q \in Operations |-> NoValue]
      /\ decision_in_force = [q \in Operations |-> "none"]
      /\ written_plan = [q \in Operations |-> NoValue]
  BY <1>1, PromiseRows DEF PlanSeen, DecisionSeen, OrderSeen
<1>3. {q \in Operations : status[q] \in Terminal} = {}
  BY <1>1 DEF Terminal
<1> QED
  BY <1>2, <1>3 DEF Promise!Init
=============================================================================
