----------------------------- MODULE RootGraph -----------------------------
(***************************************************************************)
(* The one LangGraph that owns an operation (inventory_agent_root_graph),  *)
(* the runner that starts and resumes it (ControlledAgentRootRunner), its  *)
(* recovery at startup (ControlledAgentRootRecoveryCoordinator) and the    *)
(* MCP work-order write, on top of the tables of OperationStore.           *)
(*                                                                         *)
(* A node is one step, except persist_policy_result, which commits up to   *)
(* four transactions and has one step for each.  When a node ends, the     *)
(* graph hands its next node and state to the checkpointer, which saves    *)
(* checkpoints in order but behind the graph's back: a crash loses the     *)
(* unsaved ones, and the nodes after the last saved one run again.         *)
(*                                                                         *)
(* The nodes from model_decide to calculate_policy only read; here they    *)
(* are one step, investigate, with every bundle they can end in.           *)
(***************************************************************************)
EXTENDS OperationStore

CONSTANTS
    ApprovalTtl,    \* approval_ttl_seconds
    MaxLag,         \* bound on the checkpoints that are not saved yet
    MaxFaults,      \* bound on failing calls to a dependency
    MaxCrashes      \* bound on crashes of the API process

ASSUME RootAssumption ==
    /\ ApprovalTtl \in Nat \ {0}
    /\ MaxTime + ApprovalTtl <= MaxDeadline
    /\ MaxLag \in Nat \ {0}
    /\ MaxFaults \in Nat
    /\ MaxCrashes \in Nat

VARIABLES
    run,            \* the coroutine that runs the graph of each operation
    ckpt,           \* the last saved checkpoint of each operation's thread
    unsaved,        \* the checkpoints after it that are not saved yet
    decided,        \* the approval that submit_approval is about to resume with
    capturing,      \* operations whose start is recording the trace
    inflight,       \* the payload of a timed-out MCP write that may still arrive
    boot,           \* the phase of the API process
    todo,           \* the operations that recover_all has not visited
    faults,         \* failing calls so far
    crashes,        \* crashes so far
    setBack         \* operations whose thread has lost three or more checkpoints at once

procVars == <<run, ckpt, unsaved, decided, capturing, inflight, boot, todo, faults, crashes,
              setBack>>
rootVars == <<storeVars, procVars>>

-----------------------------------------------------------------------------
(* Graph state and checkpoints *)

Nodes == {"encode_goal", "begin_operation", "investigate", "record_evidence",
          "record_validated_plan", "record_query_assessment", "mark_reporting",
          "complete_without_replenishment", "mark_awaiting_approval",
          "approval_interrupt", "mark_rejected", "refresh_and_verify",
          "mark_needs_reapproval", "mark_verifier_aborted", "mark_executing",
          "execute_work_order", "mark_verifying", "verify_work_order",
          "mark_completed", "mark_failed", "END"}
GraphStates == [evidence : Bundles \cup {NoValue},
                plan     : Plans \cup {NoValue},
                binding  : Bindings \cup {NoValue},
                approval : ApprovalRows \cup {NoValue},
                work     : WorkOrderRows \cup {NoValue}]
InitialState == [evidence |-> NoValue, plan |-> NoValue, binding |-> NoValue,
                 approval |-> NoValue, work |-> NoValue]

\* "interrupted" is the checkpoint of a graph that waits in approval_interrupt.
Checkpoints == [node : Nodes \cup {"interrupted"}, state : GraphStates]
Callers == {"start", "submit", "recover"}
Runs == [by : Callers, node : Nodes, state : GraphStates]

\* A missing coroutine or checkpoint is told from every other.
ASSUME NoThreadAssumption == NoValue \notin Runs \cup Checkpoints

running(o, node) == run[o] # NoValue /\ run[o].node = node
interrupted(o) == ckpt[o] # NoValue /\ ckpt[o].node = "interrupted"

\* Within a node: the next statement.
continue(o, node) ==
    /\ run' = [run EXCEPT ![o].node = node]
    /\ UNCHANGED unsaved

\* The end of a node: the graph goes on and the checkpoint waits to be saved.
finish(o, node, state) ==
    /\ Len(unsaved[o]) < MaxLag
    /\ run' = [run EXCEPT ![o].node = node, ![o].state = state]
    /\ unsaved' = [unsaved EXCEPT ![o] = Append(@, [node |-> node, state |-> state])]

\* A node that catches an exception returns fail(...) and is routed here.
fail(o) == finish(o, "mark_failed", run[o].state)

\* A repository call of a node: it commits, finds its own earlier commit, or
\* raises; and it may raise because the database failed, before or after the
\* commit.
Call(o, allowed, transaction, replay, proceed) ==
    /\ \/ allowed /\ transaction /\ proceed /\ UNCHANGED faults
       \/ ~ allowed /\ replay /\ UNCHANGED storeVars /\ proceed /\ UNCHANGED faults
       \/ ~ allowed /\ ~ replay /\ UNCHANGED storeVars /\ fail(o) /\ UNCHANGED faults
       \/ /\ faults < MaxFaults
          /\ faults' = faults + 1
          /\ UNCHANGED storeVars \/ (allowed /\ transaction)
          /\ fail(o)
    /\ UNCHANGED <<ckpt, decided, capturing, inflight, boot, todo, crashes, setBack>>

\* A node that only reads or asks the model.  It may end in fail(...) at any
\* time: a budget is spent, evidence is missing or stale, an answer is invalid.
ReadOnly(o, proceed) ==
    /\ proceed \/ fail(o)
    /\ UNCHANGED <<storeVars, ckpt, decided, capturing, inflight, boot, todo,
                   faults, crashes, setBack>>

-----------------------------------------------------------------------------
(* Investigation *)

encode_goal(o) ==
    /\ running(o, "encode_goal")
    /\ ReadOnly(o, finish(o, "begin_operation", run[o].state))

begin_operation(o) ==
    /\ running(o, "begin_operation")
    /\ Call(o, status[o] = "received", mark_gathering_evidence(o),
            replayed(o, "gathering_evidence", "evidence_gathering_started", NoValue),
            finish(o, "investigate", run[o].state))

\* The policy yields a plan only for a request to create a work order.
planned(o, bundle) == IF request[o].action = "create_work_order" THEN PlanOf[bundle] ELSE NoValue

investigate(o) ==
    /\ running(o, "investigate")
    /\ \E b \in Bundles :
        ReadOnly(o, finish(o, "record_evidence",
                           [run[o].state EXCEPT !.evidence = b, !.plan = planned(o, b)]))

-----------------------------------------------------------------------------
(* persist_policy_result: it restarts at record_evidence *)

persist_record_evidence(o) ==
    LET st == run[o].state IN
    /\ running(o, "record_evidence")
    /\ Call(o, status[o] = "gathering_evidence", record_evidence(o, st.evidence),
            replayed(o, "planning", "evidence_recorded", st.evidence),
            continue(o, IF request[o].action = "query" THEN "record_query_assessment"
                                                       ELSE "record_validated_plan"))

persist_record_validated_plan(o) ==
    LET st == run[o].state IN
    /\ running(o, "record_validated_plan")
    /\ Call(o, status[o] = "planning", record_validated_plan(o, st.evidence, st.plan),
            replayed(o, "validating", "plan_validated", st.evidence),
            continue(o, IF st.plan = NoValue THEN "mark_reporting" ELSE "mark_awaiting_approval"))

persist_record_query_assessment(o) ==
    LET st == run[o].state IN
    /\ running(o, "record_query_assessment")
    /\ Call(o, status[o] = "planning", record_query_assessment(o, st.evidence),
            replayed(o, "validating", "query_assessed", st.evidence),
            continue(o, "mark_reporting"))

persist_mark_reporting(o) ==
    /\ running(o, "mark_reporting")
    /\ Call(o, status[o] = "validating", mark_reporting(o),
            replayed(o, "reporting", "reporting_started", NoValue),
            continue(o, "complete_without_replenishment"))

no_action_outcome(o) == IF request[o].action = "query" THEN "query_completed" ELSE "not_required"

persist_complete(o) ==
    /\ running(o, "complete_without_replenishment")
    /\ Call(o, status[o] = "reporting", complete_without_replenishment(o, no_action_outcome(o)),
            replayed(o, "completed", "operation_completed", [outcome |-> no_action_outcome(o)]),
            finish(o, "END", run[o].state))

persist_mark_awaiting_approval(o) ==
    LET st == run[o].state
        binding == build_approval_binding(st.evidence, st.plan)
        deadline == now + ApprovalTtl
    IN  /\ running(o, "mark_awaiting_approval")
        /\ Call(o, status[o] = "validating" /\ binding_matches_snapshot(snapshot[o], binding),
                mark_awaiting_approval(o, binding, deadline),
                replayed(o, "awaiting_approval", "approval_requested",
                         [binding |-> binding, deadline |-> deadline]),
                finish(o, "approval_interrupt", [st EXCEPT !.binding = binding]))

-----------------------------------------------------------------------------
(* Approval *)

\* The graph stops in interrupt(): LangGraph saves what is unsaved, marks the
\* checkpoint and returns to the caller.
approval_interrupt(o) ==
    /\ running(o, "approval_interrupt")
    /\ unsaved[o] = <<>>
    /\ ckpt' = [ckpt EXCEPT ![o].node = "interrupted"]
    /\ run' = [run EXCEPT ![o] = NoValue]
    /\ capturing' = IF run[o].by = "start" THEN capturing \cup {o} ELSE capturing
    /\ UNCHANGED <<storeVars, unsaved, decided, inflight, boot, todo, faults, crashes, setBack>>

\* ainvoke(Command(resume=...)) on an interrupted thread: approval_interrupt
\* returns the decision and route_approval picks the branch.
resume(o, a, by) ==
    LET node == IF a.decision = "approved" THEN "refresh_and_verify" ELSE "mark_rejected"
        state == [ckpt[o].state EXCEPT !.approval = a]
    IN  /\ run' = [run EXCEPT ![o] = [by |-> by, node |-> node, state |-> state]]
        /\ unsaved' = [unsaved EXCEPT ![o] = <<[node |-> node, state |-> state]>>]

graph_mark_rejected(o) ==
    LET a == run[o].state.approval IN
    /\ running(o, "mark_rejected")
    /\ Call(o, status[o] = "resuming" /\ approval_locator(o, a, "rejected"),
            mark_rejected(o, a), replayed(o, "rejected", "operation_rejected", a),
            finish(o, "END", run[o].state))

\* The verifier model may abort, or escalate (which stands also for proposing
\* another plan); the facts overrule it when they no longer match.
choose_verification_route(verdict, binding_matches) ==
    CASE verdict = "abort" -> "abort"
      [] verdict # "abort" /\ (verdict = "escalate" \/ ~ binding_matches) -> "reapproval"
      [] OTHER -> "proceed"

\* Mutant: the edge of a re-approval leads to the write.
mutant_route_verification(route) ==
    CASE route = "abort" -> "mark_verifier_aborted"
      [] route = "reapproval" -> "mark_executing"
      [] route = "proceed" -> "mark_executing"

\* The node after refresh_and_verify.
route_verification(route) ==
    CASE route = "abort" -> "mark_verifier_aborted"
      [] route = "reapproval" -> "mark_needs_reapproval"
      [] route = "proceed" -> "mark_executing"

\* The refreshed bundle is read past the cache, so its evidence ids are new.
\* Only a re-approval takes the refreshed facts into the graph's state.
refresh_and_verify(o) ==
    LET st == run[o].state IN
    /\ running(o, "refresh_and_verify")
    /\ \E b \in Bundles \ {st.evidence}, verdict \in {"proceed", "abort", "escalate"} :
        LET plan == planned(o, b)
            binding == build_approval_binding(b, plan)
            route == IF plan = NoValue THEN "abort"
                     ELSE choose_verification_route(
                            verdict, binding_facts(binding) = binding_facts(st.binding))
            refreshed == [st EXCEPT !.evidence = b, !.plan = plan, !.binding = binding]
        IN  /\ route = "reapproval" => cycle[o] < MaxCycle
            /\ ReadOnly(o, finish(o, route_verification(route),
                                  IF route = "reapproval" THEN refreshed ELSE st))

graph_mark_needs_reapproval(o) ==
    LET st == run[o].state IN
    /\ running(o, "mark_needs_reapproval")
    /\ Call(o, status[o] = "resuming" /\ approval_locator(o, st.approval, "approved"),
            mark_needs_reapproval(o, st.approval, st.evidence, st.plan, st.binding,
                                  now + ApprovalTtl),
            replayed(o, "needs_reapproval", "reapproval_requested",
                     [approval |-> st.approval, binding |-> st.binding]),
            finish(o, "approval_interrupt", [st EXCEPT !.approval = NoValue]))

graph_mark_verifier_aborted(o) ==
    LET a == run[o].state.approval IN
    /\ running(o, "mark_verifier_aborted")
    /\ Call(o, status[o] = "resuming" /\ approval_locator(o, a, "approved"),
            mark_verifier_aborted(o, a), replayed(o, "aborted", "verification_aborted", a),
            finish(o, "END", run[o].state))

-----------------------------------------------------------------------------
(* Controlled write *)

graph_mark_executing(o) ==
    LET a == run[o].state.approval IN
    /\ running(o, "mark_executing")
    /\ Call(o, status[o] = "resuming" /\ approval_locator(o, a, "approved"),
            mark_executing(o, a), replayed(o, "executing", "execution_started", a),
            finish(o, "execute_work_order", run[o].state))

\* scenario_work_order_payload: the parameters and hash of the plan.
scenario_work_order_payload(plan) == plan

\* The MCP client retries a transport failure once and then gives up; the
\* request it gave up on may be lost, may have been committed, or may still
\* be on its way to the server.
execute_work_order(o) ==
    LET payload == scenario_work_order_payload(run[o].state.plan) IN
    /\ running(o, "execute_work_order")
    /\ \/ Call(o, work_order_of(o) = {} /\ write_authorized(o), create_or_get(o, payload),
               create_or_get_replayed(o, payload),
               finish(o, "mark_verifying",
                      [run[o].state EXCEPT !.work = [op |-> o, payload |-> payload]]))
       \/ /\ faults < MaxFaults
          /\ faults' = faults + 1
          /\ inflight' = [inflight EXCEPT ![o] = payload]
          /\ fail(o)
          /\ UNCHANGED <<storeVars, ckpt, decided, capturing, boot, todo, crashes, setBack>>

\* The server handles the delayed request, or refuses it, or never sees it.
late_write(o) ==
    /\ inflight[o] # NoValue
    /\ inflight' = [inflight EXCEPT ![o] = NoValue]
    /\ create_or_get(o, inflight[o]) \/ UNCHANGED storeVars
    /\ UNCHANGED <<run, ckpt, unsaved, decided, capturing, boot, todo, faults, crashes, setBack>>

graph_mark_verifying(o) ==
    LET w == run[o].state.work IN
    /\ running(o, "mark_verifying")
    /\ Call(o, status[o] = "executing" /\ work_order_locator(o, w),
            mark_verifying(o, w), replayed(o, "verifying", "verification_started", w),
            finish(o, "verify_work_order", run[o].state))

\* The row read back must be the row that was written.
verify_work_order(o) ==
    /\ running(o, "verify_work_order")
    /\ ReadOnly(o, IF run[o].state.work \in workOrders
                   THEN finish(o, "mark_completed", run[o].state) ELSE fail(o))

graph_mark_completed(o) ==
    LET w == run[o].state.work IN
    /\ running(o, "mark_completed")
    /\ Call(o, status[o] = "verifying" /\ work_order_locator(o, w), mark_completed(o, w),
            replayed(o, "completed", "operation_completed", [outcome |-> "work_order_completed"]),
            finish(o, "END", run[o].state))

\* The last resort: an exception of mark_failed itself is swallowed.
graph_mark_failed(o) ==
    /\ running(o, "mark_failed")
    /\ \/ (\E e \in Errors : mark_failed(o, e)) /\ UNCHANGED faults
       \/ status[o] \notin Active /\ UNCHANGED <<storeVars, faults>>
       \/ faults < MaxFaults /\ faults' = faults + 1 /\ UNCHANGED storeVars
    /\ finish(o, "END", run[o].state)
    /\ UNCHANGED <<ckpt, decided, capturing, inflight, boot, todo, crashes, setBack>>

\* ainvoke returns once every checkpoint is saved.
graph_end(o) ==
    /\ running(o, "END")
    /\ unsaved[o] = <<>>
    /\ run' = [run EXCEPT ![o] = NoValue]
    /\ capturing' = IF run[o].by = "start" THEN capturing \cup {o} ELSE capturing
    /\ UNCHANGED <<storeVars, ckpt, unsaved, decided, inflight, boot, todo,
                   faults, crashes, setBack>>

\* The checkpointer saves the oldest unsaved checkpoint.
save_checkpoint(o) ==
    /\ unsaved[o] # <<>>
    /\ ckpt' = [ckpt EXCEPT ![o] = Head(unsaved[o])]
    /\ unsaved' = [unsaved EXCEPT ![o] = Tail(@)]
    /\ UNCHANGED <<storeVars, run, decided, capturing, inflight, boot, todo,
                   faults, crashes, setBack>>

-----------------------------------------------------------------------------
(* ControlledAgentRootRunner *)

start(o, req) ==
    /\ boot = "serving"
    /\ create(o, req)
    /\ run' = [run EXCEPT ![o] = [by |-> "start", node |-> "encode_goal", state |-> InitialState]]
    /\ unsaved' = [unsaved EXCEPT ![o] = <<[node |-> "encode_goal", state |-> InitialState]>>]
    /\ UNCHANGED <<ckpt, decided, capturing, inflight, boot, todo, faults, crashes, setBack>>

\* The exception handler of start.  What made the call fail may also defeat
\* mark_failed, whose exception is logged and swallowed.
mark_start_failed(o) == (\E e \in Errors : mark_failed(o, e)) \/ UNCHANGED storeVars

\* Threads that would lose three or more checkpoints now.
far_behind == {o \in Operations : Len(unsaved[o]) > 2}

\* The checkpointer fails: ainvoke raises.  Only start has a handler; a
\* resumed or recovered operation stays as it is until the next startup.
run_dies(o) ==
    /\ run[o] # NoValue
    /\ faults < MaxFaults
    /\ faults' = faults + 1
    /\ run' = [run EXCEPT ![o] = NoValue]
    /\ unsaved' = [unsaved EXCEPT ![o] = <<>>]
    /\ setBack' = setBack \cup ({o} \cap far_behind)
    /\ IF run[o].by = "start" THEN mark_start_failed(o) ELSE UNCHANGED storeVars
    /\ UNCHANGED <<ckpt, decided, capturing, inflight, boot, todo, crashes>>

\* start records the trace after the graph has returned, which may be while
\* the approval is already being submitted; a failure to record it fails the
\* operation.
capture(o) ==
    /\ o \in capturing
    /\ capturing' = capturing \ {o}
    /\ \/ UNCHANGED <<storeVars, faults>>
       \/ faults < MaxFaults /\ faults' = faults + 1 /\ mark_start_failed(o)
    /\ UNCHANGED <<run, ckpt, unsaved, decided, inflight, boot, todo, crashes, setBack>>

\* submit_approval up to its first await on the graph.  The approver acts on
\* an operation whose graph has stopped in the interrupt.
submit_approval(o) ==
    /\ boot = "serving"
    /\ interrupted(o)
    /\ run[o] = NoValue
    /\ \/ \E r \in Approvers, d \in Decisions, b \in Bindings :
            /\ submit_bound_once(o, r, d, b, now)
            /\ decided' = [decided EXCEPT ![o] =
                              [op |-> o, cycle |-> cycle[o], approver |-> r,
                               decision |-> d, binding |-> b, at |-> now]]
       \/ submit_bound_once_expired(o, now) /\ UNCHANGED decided
    /\ UNCHANGED <<run, ckpt, unsaved, capturing, inflight, boot, todo, faults, crashes, setBack>>

\* The rest of submit_approval: it resumes the graph with the decision it
\* recorded, or the checkpointer cannot be read and the request fails.
submit_approval_resume(o) ==
    /\ decided[o] # NoValue
    /\ decided' = [decided EXCEPT ![o] = NoValue]
    /\ \/ resume(o, decided[o], "submit") /\ UNCHANGED faults
       \/ faults < MaxFaults /\ faults' = faults + 1 /\ UNCHANGED <<run, unsaved>>
    /\ UNCHANGED <<storeVars, ckpt, capturing, inflight, boot, todo, crashes, setBack>>

-----------------------------------------------------------------------------
(* Crash and startup *)

\* Everything the API process holds in memory is gone.
crash ==
    /\ boot # "down"
    /\ crashes < MaxCrashes
    /\ crashes' = crashes + 1
    /\ boot' = "down"
    /\ run' = [o \in Operations |-> NoValue]
    /\ unsaved' = [o \in Operations |-> <<>>]
    /\ decided' = [o \in Operations |-> NoValue]
    /\ capturing' = {}
    /\ todo' = {}
    /\ setBack' = setBack \cup far_behind
    /\ UNCHANGED <<storeVars, ckpt, inflight, faults>>

restart ==
    /\ boot = "down"
    /\ boot' = "expiring"
    /\ UNCHANGED <<storeVars, run, ckpt, unsaved, decided, capturing, inflight, todo, faults,
                   crashes, setBack>>

due(o) == status[o] \in AwaitingDecision /\ expires[o] # NoValue /\ expires[o] <= now

\* ApprovalExpiryService.expire_due, one due operation at a time.
expire_due(o) ==
    /\ boot = "expiring"
    /\ due(o)
    /\ mark_expired(o, now)
    /\ UNCHANGED procVars

\* list_recoverable_ids
list_recoverable ==
    /\ boot = "expiring"
    /\ \A o \in Operations : ~ due(o)
    /\ boot' = "recovering"
    /\ todo' = {o \in Operations : status[o] \in Active}
    /\ UNCHANGED <<storeVars, run, ckpt, unsaved, decided, capturing, inflight,
                   faults, crashes, setBack>>

\* Mutant: an operation that waits for a decision is left alone, whatever its
\* checkpoint says.
mutant_waiting_is_kept(o) ==
    IF ~ load_detail_succeeds(o) THEN "conflict"
    ELSE IF status[o] \in AwaitingDecision THEN "keep_waiting"
    ELSE IF ckpt[o] = NoValue THEN IF status[o] = "received" THEN "rebuild" ELSE "conflict"
    ELSE IF ~ interrupted(o) THEN "continue_checkpoint"
    ELSE IF detail_approval(o) # {} THEN "resume_decision" ELSE "keep_waiting"

\* Mutant: an interrupted graph waits although its decision is recorded.
mutant_interrupt_is_kept(o) ==
    IF ~ load_detail_succeeds(o) THEN "conflict"
    ELSE IF ckpt[o] = NoValue THEN IF status[o] = "received" THEN "rebuild" ELSE "conflict"
    ELSE IF interrupted(o) THEN "keep_waiting" ELSE "continue_checkpoint"

\* choose_recovery_action, with the checks that recover makes before it acts.
recovery_action(o) ==
    IF ~ load_detail_succeeds(o) THEN "conflict"
    ELSE IF work_order_of(o) # {} /\ detail_approval(o) = {} THEN "deferred"
    ELSE IF status[o] \in Terminal THEN "no_op"
    ELSE IF ckpt[o] = NoValue THEN IF status[o] = "received" THEN "rebuild" ELSE "conflict"
    ELSE IF ~ interrupted(o) THEN "continue_checkpoint"
    ELSE IF detail_approval(o) # {} THEN "resume_decision" ELSE "keep_waiting"

\* recover_all visits one operation after the other.
recover(o) ==
    /\ boot = "recovering"
    /\ o \in todo
    /\ \A q \in Operations : run[q] = NoValue
    /\ todo' = todo \ {o}
    /\ \/ /\ recovery_action(o) = "conflict"
          /\ \E e \in Errors : mark_failed(o, e)
          /\ UNCHANGED <<run, unsaved>>
       \/ /\ recovery_action(o) \in {"deferred", "no_op", "keep_waiting"}
          /\ UNCHANGED <<storeVars, run, unsaved>>
       \/ /\ recovery_action(o) = "rebuild"
          /\ run' = [run EXCEPT ![o] =
                        [by |-> "recover", node |-> "encode_goal", state |-> InitialState]]
          /\ unsaved' = [unsaved EXCEPT ![o] =
                            <<[node |-> "encode_goal", state |-> InitialState]>>]
          /\ UNCHANGED storeVars
       \/ /\ recovery_action(o) = "resume_decision"
          /\ \E a \in detail_approval(o) : resume(o, a, "recover")
          /\ UNCHANGED storeVars
       \/ /\ recovery_action(o) = "continue_checkpoint"
          /\ run' = [run EXCEPT ![o] =
                        [by |-> "recover", node |-> ckpt[o].node, state |-> ckpt[o].state]]
          /\ UNCHANGED <<storeVars, unsaved>>
    /\ UNCHANGED <<ckpt, decided, capturing, inflight, boot, faults, crashes, setBack>>

\* The lifespan repairs the signals and begins to serve.
serve ==
    /\ boot = "recovering"
    /\ todo = {}
    /\ \A o \in Operations : run[o] = NoValue
    /\ reconcile_terminal_links
    /\ boot' = "serving"
    /\ UNCHANGED <<run, ckpt, unsaved, decided, capturing, inflight, todo,
                   faults, crashes, setBack>>

-----------------------------------------------------------------------------
(* Specification *)

RootInit ==
    /\ Init
    /\ run = [o \in Operations |-> NoValue]
    /\ ckpt = [o \in Operations |-> NoValue]
    /\ unsaved = [o \in Operations |-> <<>>]
    /\ decided = [o \in Operations |-> NoValue]
    /\ capturing = {}
    /\ inflight = [o \in Operations |-> NoValue]
    /\ boot = "serving"
    /\ todo = {}
    /\ faults = 0
    /\ crashes = 0
    /\ setBack = {}

\* The nodes of one operation's graph, in graph order.
GraphStep(o) ==
    \/ encode_goal(o)
    \/ begin_operation(o)
    \/ investigate(o)
    \/ persist_record_evidence(o)
    \/ persist_record_validated_plan(o)
    \/ persist_record_query_assessment(o)
    \/ persist_mark_reporting(o)
    \/ persist_complete(o)
    \/ persist_mark_awaiting_approval(o)
    \/ approval_interrupt(o)
    \/ graph_mark_rejected(o)
    \/ refresh_and_verify(o)
    \/ graph_mark_needs_reapproval(o)
    \/ graph_mark_verifier_aborted(o)
    \/ graph_mark_executing(o)
    \/ execute_work_order(o)
    \/ graph_mark_verifying(o)
    \/ verify_work_order(o)
    \/ graph_mark_completed(o)
    \/ graph_mark_failed(o)
    \/ graph_end(o)

Startup ==
    \/ restart
    \/ \E o \in Operations : expire_due(o)
    \/ list_recoverable
    \/ \E o \in Operations : recover(o)
    \/ serve

\* A scan puts the signals there that an operation may claim.
Environment ==
    /\ boot = "serving"
    /\ \/ \E s \in Signals, d \in Drafts : upsert_detected(s, d)
       \/ \E s, p \in Signals : create_successor(s, p)
    /\ UNCHANGED procVars

\* Startup is short against the approval deadline: the clock stands still
\* while expire_due works through its list.
Clock ==
    /\ boot # "expiring"
    /\ Tick
    /\ UNCHANGED procVars

RootNext ==
    \/ \E o \in Operations :
        \/ \E req \in Requests : start(o, req)
        \/ GraphStep(o)
        \/ save_checkpoint(o)
        \/ late_write(o)
        \/ run_dies(o)
        \/ capture(o)
        \/ submit_approval(o)
        \/ submit_approval_resume(o)
    \/ crash
    \/ Startup
    \/ Environment
    \/ Clock

RootSpec == RootInit /\ [][RootNext]_rootVars

\* What the program does unasked: the event loop runs a started coroutine to its
\* end (every model, MCP and database call has a timeout), the checkpointer
\* drains its queue and a crashed process is started again.
Progress ==
    \/ \E o \in Operations : GraphStep(o) \/ save_checkpoint(o) \/ submit_approval_resume(o)
    \/ Startup

\* Some of it goes on as long as there is any.  Nothing is assumed of approvers,
\* scans, requests, the clock or the network.
FairRootSpec == RootSpec /\ WF_rootVars(Progress)

-----------------------------------------------------------------------------
(* Properties *)

\* Every variable of the process has its type.
RootTypeOK ==
    /\ run \in [Operations -> Runs \cup {NoValue}]
    /\ ckpt \in [Operations -> Checkpoints \cup {NoValue}]
    /\ unsaved \in [Operations -> Seq(Checkpoints)]
    /\ decided \in [Operations -> ApprovalRows \cup {NoValue}]
    /\ capturing \subseteq Operations
    /\ inflight \in [Operations -> Plans \cup {NoValue}]
    /\ boot \in {"serving", "down", "expiring", "recovering"}
    /\ todo \subseteq Operations
    /\ faults \in 0..MaxFaults
    /\ crashes \in 0..MaxCrashes
    /\ setBack \subseteq Operations

\* A work order carries exactly the plan that was approved in the current
\* cycle, whatever crashed, timed out or ran twice on the way to the write:
\* the write takes the plan from the graph's state, not from the database.
\* A thread that has lost three checkpoints at once may be back in the
\* interrupt of an earlier cycle; what it writes was approved at least then.
WorkOrderIsApproved ==
    \A w \in workOrders : \E a \in approvals :
        /\ a.op = w.op /\ a.decision = "approved"
        /\ scenario_work_order_payload(a.binding.plan) = w.payload
        /\ a.cycle = cycle[w.op] \/ w.op \in setBack

\* The work order is of the plan approved in the current cycle, without
\* exception, as the evidence of the re-approval release states.
WriteMatchesDecision ==
    \A w \in workOrders : \E a \in detail_approval(w.op) :
        a.decision = "approved" /\ scenario_work_order_payload(a.binding.plan) = w.payload

\* Every reachable operation can be read: load_detail, which the API, the
\* trace and the recovery call, never meets facts it refuses.  In particular
\* a rejected, aborted or expired operation never has a work order.
DetailLoads == \A o \in Operations : status[o] # "absent" => load_detail_succeeds(o)

\* While the API serves and no call has failed, an operation that waits for a
\* decision waits in a graph that is interrupted, whatever crashes came
\* before: the decision can be taken.  The graph waits with the very binding
\* the approver sees, so that the decision continues with the facts it was
\* made on; only a thread that has been set back may wait with another, and
\* then with one that was approved before.
WaitingIsResumable ==
    \A o \in Operations :
        faults = 0 /\ boot = "serving" /\ status[o] \in AwaitingDecision /\ run[o] = NoValue =>
            /\ interrupted(o)
            /\ \/ ckpt[o].state.binding = snapshot[o].binding
               \/ o \in setBack /\ approval_of(o, ckpt[o].state.binding)

\* Without a failing dependency every started operation comes to rest, in a
\* terminal status or waiting for a decision, even across crashes.
ComesToRest ==
    [](faults = 0) =>
        \A o \in Operations :
            status[o] \in Active \ AwaitingDecision
                ~> status[o] \in Terminal \cup AwaitingDecision

\* Across crashes, restarts, failing calls, timed-out writes that arrive late
\* and repeated nodes, the root graph only ever proposes, decides, writes and
\* closes as ApprovedWrite allows: its writes are of the plan whose approval
\* is in force at that moment, and a new proposal voids the old decision.
\* Where a thread has been set back the write still waits for an approval in
\* force, but may be of a plan approved before.
KeepsApprovedWrite ==
    Promise!Init /\ [][Promise!Next \/ WritesEarlierPlan(setBack)]_(Promise!promiseVars)

\* A signal is left investigating behind an expired operation only by a
\* decision that comes too late while the API serves, never by the expiries
\* of a startup; and when a startup ends, no signal is left behind, those of
\* the process before included.
StartupSettlesSignals ==
    [][\A s \in Signals : left_behind(s)' =>
            /\ left_behind(s) \/ boot = "serving"
            /\ boot' = "serving" => boot = "serving"]_rootVars
=============================================================================
